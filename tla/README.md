# pjangler in TLA+

pjangler (`pj`) looks after a developer's projects: it creates them from recipes,
keeps their identity (`.project.json`) in step with a registry and with ticket
providers, audits and repairs their files, switches the cranks of their agents, and
keeps a "project notebook" of what happened in each session on a remote service. It is
a TypeScript program of many short-lived processes - command lines, hooks, detached
workers, an MCP server - and two long-lived ones, the registry service and the journal
service. What is hard in it is not in any one function. It is what those processes do
to the files, tables and remote objects that they share, when they interleave, time
out, retry and die; and how far a repair may go that finds a file half its own and
half the operator's.

Paths below are relative to the program, `src/` of the repository; those of documents
to the repository.

## 1. Inventory

| component | state it keeps | operations | what makes it hard | what makes it correct | modules |
|---|---|---|---|---|---|
| **Project registry index** `project/manifestIndex.ts`, `registryService.ts`, `registryClient.ts` | tables `projects`, `settings`; the manifests themselves | load, save, index, rebuild, reindex, remove, settings; a client with a timeout | a transaction that also renames files; edits by hand and by git; stale snapshots; lost answers and retries; ids that move between manifests | no lost update; answers show the manifests; identities move only when their manifest is gone; a stale index is reported; requests settle | `ManifestIndex` |
| **YAML registry and mirror** `project/index.ts`, `RegistryStore.ts` | registry.yaml; relational tables | load, save, upsert | a merge that must keep foreign keys and drop own ones; unique indices and cascades | what was saved is loaded; foreign rows stay | `RegistryStores`, in part `BoardIdentity` |
| **Notebook admission lock** `notebook/state.ts` 613-680 | `admission.lock`, `recovery-<token>.lock` | acquire, recover, release | O_EXCL files, leases, recovery by several contenders | mutual exclusion; only a lapsed lock is removed; no dead owner blocks it | `AdmissionLock`, `Mutex` |
| **Remote mutation journal** `notebook/remote-mutation-journal.ts`, `reconcile.ts`, the POSTs of `open-notebook-client.ts` | one journal per operation; notes on the service | prepare, list, adopt, update, latch, POST, mark rejected, rearm, commit | no idempotency at the service; lost requests and answers; crashes | at most one copy; rearmed only when nothing can come; closed by an owner | `RemoteMutation` |
| **Capture receipts** `notebook/state.ts`, `capture.ts`, `hooks.ts`, `cli.ts` | baselines, receipts, journals | SessionStart, SessionEnd, claim, renew, transition, retry, prune | caps, leases, attempt budgets, workers that die | success is final; one attempt per retry; evidence kept | `CaptureReceipts` |
| **Notebook skill and hooks** `notebook/hooks.ts` | the skill's copy and link, the agent's settings | install, audit, repair, collect | the host is the operator's; old releases; checkouts of others | hooks run verified scripts only; a refusal leaves the host alone; an install settles | `SkillInstall` |
| **Project rename** `project/rename.ts` | Plane board, manifest, registry, role and fleet files | one resumable saga | a PATCH that times out and lands; stop and resume anywhere | no store ahead of the board; ok means renamed; a re-run converges | `Rename` |
| **Crank switches** `crank/*` | Redis keys of a tab | enable (with a migration), disable, interval, schedule; the engine's beats | many writes without a transaction, between the engine and a TUI | the switch ends as asked; the newest log rows and OFF panes survive | `CrankSwitch`, `CrankSchedule` |
| **Project init plan** `project/index.ts`, `recipes/ProjectRecipe.ts`, `NotebookRecipe.ts` | target directory, manifest, registry, board, notebook | plan, confirmed run, rollback | partial failure after external effects; lost answers; re-runs | evidence is kept; ok means one story; re-runs converge | `ProjectInit` |
| **Ticket provider claims and keys** `project/index.ts`, `boardQuery.ts` | the `ticket_provider` block; key files | plan, link, refresh; search of Plane's key | claims that outlive what they were made for; three searches that should agree | linked means confirmed; one key for all | `TicketProvider` |
| **Identity reconciliation** `project/identity.ts` | registry, manifests, fleet keys | reconcile, link | provider facts against local ones; concurrent writers | pointers are kept; repairs are sound and end | `BoardIdentity` |
| **Recipe registry** `recipes/registry.ts` | none | audit, `migrate <rule>`, `migrate --all` | waivers, order, second pass | the report is true; runs settle | `Parity` |
| **Parity rules** `parity/rules.ts`, `mise-toml.ts`, `skills.ts` | the files of one repository | look and migrate, twelve rules | text edits of files the operator shares; npm | no hands' work taken; no rule undoes another's | `ParityRules`, `Parity`, `MiseToml`, `BmadVersions` |
| **CLI skills roots** `parity/skill-roots.ts` | roots of skills, quarantine, journal, log | plan, convert, roll back, restore script | two converters, writers, kills between system calls | nothing lost; a reversal restores; recovery is possible | `SkillRoots` |
| **BMAD update** `bmad/update-scope.ts`, `companion.ts`, `utils/tree-restore.ts` | the tree, an update lock, a stash | capture, installer, companion, roll back | what live processes write meanwhile; dead holders | the scope is restored exactly; nobody else's bytes are lost | `BmadUpdate` |
| **Lifecycle preflight** `lifecycle/preflight.ts` | none | which Copier may run | PATH, shims, files exchanged between two looks | only the proved tool runs | `CopierPreflight` |
| Notebook module and services `notebook/module.ts`, `journal-service.ts`, `overview.ts`, `notes.ts`, ... | Overview claims | link, capture, overview, entropy, migrate | callers of journal and receipts | - | not modelled |
| Board queries, describe, MCP server, CLI, scaffolding, terminal interface | none of their own | queries, reports, dispatch, templates, rendering | - | - | not modelled |

How they interact. The CLI, the MCP server and the notebook load the registry from the
service, keep the snapshot, change it and save it back: `ManifestIndex` has the service
with such clients; `ProjectInit`, `Rename` and `BoardIdentity` have single commands in
full and the service as far as they meet it (an index that follows the manifest, a save
that merges field by field). A SessionEnd hook takes the admission lock, admits a
receipt and starts a detached worker. The worker claims the receipt, takes the lock
again for every change of it, and creates notes through the mutation journal, whose
files the same lock protects. `migrate` runs the parity rules one after the other; one
of them converts the skills roots (`SkillRoots`), one runs the BMAD update
(`BmadUpdate`), two edit mise.toml (`MiseToml`).

`PROJECT.json` lists the hazards of these components, line by line, with the properties
that cover them.

## 2. The modules

There are two kinds. A **state machine** has an MC module and one or two `.cfg` files. An
**algorithm** is a set of operators over values, with promises that its MC module states
as named assumptions over bounded inputs. TLC evaluates those before the run of the
state machine whose MC module extends it:

| algorithm | evaluated by run | because |
|---|---|---|
| `MiseToml`, `BmadVersions` | `parity` | they are the inside of parity rules |
| `CopierPreflight`, `SkillInstall` | `init` | a create checks Copier first, and shares the host's skills |
| `RegistryStores` | `once` | a short run; nothing connects the two |
| `TicketProvider` | `boards` | the block whose bindings reconciliations repair |

### ManifestIndex

`file` is the disk, `rows` and `settings` the committed tables; `work` and `swork`
are the tables as the running transaction sees them, so that ROLLBACK forgets them
and does not touch `file`. There is one transaction at a time: `serialized()` queues
requests and takes an advisory lock. Between two awaits of a transaction everything
else may happen: other programs edit manifests (`Edit`), clients send, time out and
retry, the service dies. A request goes through the phases in `pc`: register,
refresh (one row per step, over the list read at its start, as in the code), plan
(one project per step), write, compare, rename, reread, commit. `Compare` and
`Rename` are two steps although no await separates them: other *processes* can
write between them, which the comment at lines 114-115 admits. `raced` remembers that
this happened and `dirty` which manifests were edited during the transaction; the
properties exempt exactly those.

A manifest is its id, whether it uses the legacy spelling, and a function from leaf
fields to values. `Merged`/`Conflicts` are mergeChanges() at a leaf; the recursion of the
code over nested objects is a function of the path, so a field stands for one leaf.
Invalid, oversized and symlinked manifests are all `Broken`, since each is refused with
an error. A content hash is the content. Reading and persisting one row in refresh is one
step; settings are merged in the plan instead of just before the write, with no statement
in between that could tell; `__registry_hashes` is left out because every client of the
repository sends `__registry_baseline`; so is the schema migration of initialize().

### RegistryStores

The two older stores as functions of what they hold. The YAML file: validation,
`FileSave` with its merge (keys the program owns follow the record, those of a mapping
without owned keys are only added), upsert. The mirror: rows, the repository rows they
are joined with, board and agents rows that hang on them, unique indices, cascades and
the rollback. A load joins without an order, so `Loads` is a set.

### AdmissionLock and Mutex

One action per file operation of acquireLock(): create with O_EXCL, write, read,
claim (O_EXCL), verify, rename away, remove the claim; then the operation, and the
two steps of the release (read, unlink). The lock file has a token and is empty, live
or lapsed: that is all a reader can tell. Tokens are UUIDs, so `Call` takes one that
is not in use. `Slow` says whether a living owner may outlast its lease: the lease is
`max(5 s, 20 * maxWait)` and the operations are a few file writes, so it is FALSE in
the run and an explicit assumption of the theorems that need it. `MayDie` says
where processes may die. Renaming the lapsed lock and unlinking it under its new,
unique name is one step. `died` is auxiliary. `Mutex` is the abstract specification:
`inside` is empty or one process. `ImplementsMutex` is `Mutex!Spec` with
`inside <- {p : place[p] = "in"}`.

### RemoteMutation

One logical marker: `journal`, the copies on the service (`notes`), the POSTs under
way (`wire`), and workers that run reconcileManagedNote(). A journal file is changed
under the admission lock and compared with what the worker holds (operation id and
`updated_at`), so each change is one step, and `current` is the set of workers whose
copy is still the file. `Prepare`, `List`, `Record`, `Update`, `Rearm`, `Latch`,
`Send`, `GiveUp`, `Mark` and `Commit` follow the code in its order; `Onward` is its
decision after each list. The service may do a POST late, refuse it (400 or 422) or
lose it, and every answer may be lost. Other HTTP errors, malformed answers and
timeouts are `GiveUp`: the worker learns nothing. Digests are the inputs themselves; a
list is an atomic snapshot (the client reads headers, then notes); a PUT is atomic;
journals of version 1.14 are left out.

### CaptureReceipts

Every change of a receipt happens under the lock, so `Admit`, `Claim`, `Transition`,
`Renew`, `Retry` and `Prune` are one step each. A baseline is created without the
lock, so it is first torn, then filled. `current` plays the same part as above: a
transition compares state, `updated_at` and owner. Times are flags that `Age` and
`Lapse` set. The body of a capture is any number of renewals, each followed by a
remote call that may leave a journal open (`journals`), ended by success or failure.
A crash is, for safety, a worker that stands still for ever, so crashes and runs by
hand share one budget (`MaxFaults`). Caps count receipts; bytes and Overview claims are
left out.

### SkillInstall

A machine `h` holds the operator's link, the copies of each release, the checkout of a
registry, and which events the agent's settings run the scripts on (an event that the hook
hub owns is left to it). `Install`, `Integrate`, `Inspect`, `Repair` and `Collected` are
functions of it, in the order of the code's returns. The projector of the settings may fail
before it writes or, killed, timed out or unable to sync, after it has replaced them; the
link that was made for the hooks is taken away in both cases, so hooks of a late failure may
stay that run nothing. That taking the link away fails too is left out. `Pinned[v]` is the
export that release v carries; a tree is a function from paths to digests and executable
bits. One command at a time: two installs at once are left out.

### Rename

A command is a record in `run[r]`, which walks the steps plane, readback, manifest,
registry, role, fleet, agents, hints, candy. The refusals come before the first write;
its reads up to there are one step. A PATCH is put on `wire`, from where Plane applies
(`Land`) or loses it, also after the command has given up. `Follow` is the registry
service, whose index takes over what the manifest says. `ByHand` changes the board's
identifier in Plane. `StepFails` and `Kill` end a command at any step, `Rerun` is the
operator who repeats it. Edited texts are whether they name the new key.

`alone` says of a command that nothing else has been at work since it began: no other
run, no change by hand. An earlier run's late PATCH, and the service that takes over what
an earlier run left in the manifest, count as its own when that run was of the same rename
(`Contested`, `Left`), and as somebody else's when it was not.

### CrankSwitch and CrankSchedule

Keys are spellings: the display name of a tab in whatever case and punctuation it once had.
`Canon`, `Sides` and `Akin` say which of them the code takes for the same. A command first
finds the tab of its project (`Resolve`), which is one step, then works off `todo`, a list
of single redis-cli calls; whatever it read for its next call is in `held`. Between any two
calls the engine beats, a pane is overridden, a tab renamed. One pane stands for all panes
of a tab. A log is a set of rows, numbered as they came, of beats and of commands; it keeps
the newest `LogCap` (500 in the code, 2 in the run), both when a row is pushed (RPUSH and
LTRIM are one step) and when logs are merged. A command's row carries the moment the command
began, by which a later merge sorts it: its place may be off by the length of the command.
`alone` says that neither another command nor the people at the tabs have stepped in since a
command began, and `raced` remembers the rows and overrides that fell between the reading of
a key and its replacing or deleting, `trimmed` the rows for which a log had no room.
`CrankSchedule` is the arithmetic of intervals, due times and the next run.

### ProjectInit

`pj init` and `pj sync` of one project, with Plane and the registry service. The plan is one
step, then each action of the confirmed run is one: begin, preflight, copier or manifest,
local steps, git, board (with the dispatch latch), the external adapter, link, saves,
notebook, then the finalizer and the undo of a fresh target. A manifest is reduced to its
board, whether that is linked, whether a notebook is bound, and one field of the operator's.
`Gate` is every step that writes ordinary files or only looks; `Others` are edits by other
programs; `Kill` ends the process anywhere; after a failure `Rerun` starts a request again,
the same or another one. A Copier that fails may have rendered the manifest already. With
the board skipped the registry is loaded all the same, which may fail, before any latch. The
adapter is code of another project: it finds a board by name before it creates one, and its
answer may be lost; that it falls back to a board with the same identifier, possibly another
project's (`plane.sh:765-766`), is left out, so names and identifiers are taken to be
unique. The undo's look at the target and its removal (`ProjectRecipe.ts:659-672`) are one
step. `calm` and `sent` are auxiliary.

### TicketProvider

What a plan, a link and a refresh make of a `ticket_provider` block, whether the block is
legal, and where pj's queries, the creation of a board and the adapter look for the key:
environment, repository file, fleet file, secrets, each with its own way of reading lines.

### BoardIdentity

A reconcile loads the registry, fetches the boards of every workspace that some store
names, judges record by record (`TargetBoard`, `RecordedBoard`, `Stamped`, demotion,
preservation) and saves fleet keys and registry. A link fetches and saves. Both
registries are there: the service, whose index follows the manifests and which merges a
save by field, and the YAML file, which a save replaces. `World` edits manifests, renames,
archives and restores boards. Workspaces are listed at one moment; one stamp stands for
the two instants a block keeps, which are always written together. Whether it is renewed
depends for Plane on the whole block (`Stamped`), for Trello on board and state alone
(`TrelloLink`), as in the code.

### Parity and ParityRules

A repository is a record of parts (`Values`, `Parts`). `ParityRules` has, for each of eleven
rules, what it finds (`Finding`) and what its migration makes of the repository (`Repair`),
with the programs it calls as possible faults. `Parity` is the recipe registry around them:
audit and selection; the rules still to come, of which the first in the order of
registration is next (`First`); one rule's look and migration a step, verification, the
second pass, the report; meanwhile the operator edits, programs fail, the command is killed.
Left out: an installer that fails after the retired links of its packs were cleared away
(`rules.ts:4035-4065`) leaves the repository as it was.

### MiseToml, BmadVersions

What an owner's pass makes of hooks, tasks, watches and PATH, with the meaning the
rewritten file is compared with before it is written; and the choice of version, modules
and arguments for the BMAD installer, with the cache of npm's tags.

### SkillRoots

One action per system call that matters: begin (the quarantine doubles as the lock),
journal and restore script, each step and its line in the log, verification, untracking,
commit, purge; the rollback; the restore script run by the operator, step by step. The
plan is a function of the disk at one moment. `q` is the quarantine, `script` the run of
the restore script. What an entry holds is a set of parts, so that losing a part is
visible wherever it was moved.

### BmadUpdate

A job walks through lock, capture, eviction, installer, companion, protection, verification
and, when it fails, both classes of the rollback, the un-move and the stash. A file has one
of four contents, a directory one of three identities. Between two steps anyone may edit; a
killed holder leaves its lock as it was, which `Age` lets grow old. A restore takes a file
in two steps: what is there is copied to the stash, which may fail (`SetAside`), then the
file is unlinked and written whatever is there by now (`Overwrite`; the unlink and the write
are one step). `bare` is the file in hand whose copy failed, `late` the one that was written
again after it, both auxiliary. `touched` and `during` are auxiliary too: the files and
places that anybody else wrote to since the rollback looked, and those written to in the
companion's window.

### CopierPreflight

The walk along PATH, the attestation of the account's own UV tool file by file, the pin
and the second look before the first write. Contents, inode, mode and owner of a file are
one value; RECORD's digests and the fingerprint are taken at one moment, where the code
reads twice.

## 3. The runs

Twelve runs; together they fire every action and every disjunct of the next-state
relations.

| run | question | bounds | distinct states |
|---|---|---|---|
| `identity` | what the index says of identities, while manifests are edited, swapped, lost and found | 2 ids, 2 manifests (all contents initially), 1 client, 2 edits, 2 requests | 682 568 |
| `save` | lost updates, stale reports, progress | 1 project, 1 field, 1 setting, 2 values, 1 client, 1 edit, 2 requests, 1 fault | 561 119 |
| `lock` | mutual exclusion, recovery, progress | 3 processes, 4 tokens, 1 crash anywhere | 53 578 |
| `once` | never two copies | 2 workers, 2 inputs, 5 ids, all faults, 2 crashes anywhere | 38 602 |
| `capture` | evidence, final successes, counted attempts | 2 sessions for 1 place, 2 workers, 2 attempts, 1 retry, 1 crash or run by hand | 2 028 176 |
| `crank` | the switch ends as asked; the migration loses no row that is recent and not raced, no OFF pane | 2 callers (one a TUI), 2 tabs, 3 spellings, 2 projects, 2 commands, 1 event, logs of 2 rows | 4 535 291 |
| `rename` | order of the stores, resumption, convergence | 2 processes, 2 commands, 2 runs, 2 faults, 1 change by hand | 445 783 |
| `boards` | pointers, repairs, links | 3 projects, 3 boards, 2 workspaces, 2 processes, 1 edit, 1 change, 1 fault | 393 246 |
| `update` | rollback, stash, the update lock | 1 updater, a file of each class, 1 moved directory, 1 edit, 1 failure or kill | 461 356 |
| `roots` | nothing lost, reversal, recovery | 2 converters, 2 roots, 1 skill, 1 edit, 1 fault | 488 216 |
| `parity` | runs settle, reports are true, what `HandsKept` lists stays | up to 2 things wrong, 2 faults | 865 011 |
| `init` | one story, kept evidence, convergence | 2 boards, all 12 requests, 1 run after a success, 1 edit, 2 faults | 836 713 |

Why the bounds are enough. *Identities*: relocations, exchanges and collisions need two ids
and two paths; two edits before or during a request reach every order of "moved, then lost".
*Saves*: merging is per field, so one field with two values and "absent" shows every
combination of base, wish and manifest that matters; the hand edit plays the other writer,
including another client. *Lock*: three processes are an owner, a recoverer and a late
second recoverer. *Copies*: two workers and three POSTs (each worker once, and once more
after a refusal); two crashes let both die in one run. *Receipts*: the cap is shown with one
place and two sessions, leases with two workers. *Crank*: two of the three spellings are one
name, the third only looks akin, so a migration has something to take and something to
leave; with logs of two rows a merge of two logs, and any third row, meets the cap.
*Rename*: an interrupted run, its re-run, and a command with the same old and new key, which
resumes from the other side; third parties with other keys are in the theorem only.
*Boards*: a record of its own, one that claims the same board, one of the other provider;
one process reconciles and one links, while the theorems are about any number. *Update*: one
file of each class meets each rule of the rollback; an overlap of two updates is known to go
wrong (below). *Roots*: the layouts at the start are chosen so that every operation of the
planner occurs; a second converter, and a script, both meet a plan that is no longer right.
*Parity*: rules share at most two parts each, and two deviations at once let each pair meet.
*Init*: two boards let the wrong one be linked; two faults are a lost answer and a failure
of the re-run.

CHECK_DEADLOCK is off in `identity`, `save`, `capture`, `crank`, `rename`, `roots`,
`parity` and `init`: requests, edits and budgets are bounded there, and when they are
spent and every command has ended nothing is left to do. The lock, the journal, the
identity commands and the updates never stop, so there it is on.

Symmetry: `identity` permutes paths, `once` and `capture` all interchangeable processes
and ids; none of them checks a liveness property. `capture` has a VIEW that forgets how a
success came about, which no guard and no property reads.

Every property has a mutant in `PROJECT.json`: next to the definition it would replace
stands that code with a plausible bug (`...Anyway`, `...Nothing`, `...Late` and the like),
marked "Faulty"; TLC finds the property violated with it. No specification uses it.

What the runs show: with the edits, crashes and retries above, the registry loses no update
and answers only what is on disk; the lock is a mutex that recovers; notes are never
duplicated; receipts keep evidence, successes and budgets; a crank's switch, the newest rows
of its log and its OFF panes survive a migration; a rename never gets ahead of the board and
can be resumed; reconciliation keeps pointers and comes to rest; an update that fails gives
back its scope and displaces nobody's bytes without a copy; a conversion of skills roots can
be reversed; parity runs settle on a true report; and an init that fails removes no
evidence. Each of these with the exemptions that the properties name, which are where the
code is known not to keep the promise.

## 4. Fairness

- Registry (`save`): `WF(TxnStep)` and `WF(BeginClient)`, since the promise queue starts
  each request when the one before it has ended, and each await returns or throws;
  `WF(Retry(c))`, since a client told "retry" does. None for edits, timeouts and faults.
- Lock: `WF(Step(p))`, processes run and sessions keep ending; `WF(Lapse)`, time passes.
- Rename: `WF(Step(r))`; `WF(Rerun(r))`, an operator who repeats what failed, as the
  message asks; `WF(Land(k))`, Plane answers in the end.
- Update: `WF(Step(u))`; `WF(Begin(u))`, updates keep being run; `WF(Age)`, time passes.
- Roots: `WF(Work(r))`; `WF(Operator)`, who does what the audit says when a quarantine is
  left, and only when its owner is dead or has stopped. A plan is made without fairness.
- Init: `WF(Step)`, and `WF(Rerun)`, the operator runs a failed init again.
- `boards` needs none: `Settles` says that changes come to an end.

`RemoteMutation` and `CaptureReceipts` state a FairSpec as well; no run uses it.

## 5. The proofs

All theorems hold for every value of the constants under the named assumptions
(`ConstantsAssumption` twice, `LockAssumption`, `MutationAssumption`, `CaptureAssumption`,
`NoneIsApart`, `CrankAssumption`, `RenameAssumption`, `ExportsArePinned`, `LastExists`,
`Separate`, `BindingsOnly`, `UpdateAssumption`, `RepositoryAssumption`, `BoundAssumption`,
`RootIsApart`, `NamesApart`, `FiniteLayout`), which only say what the constants are: their
types, which names differ, that the classes of files are disjoint, that there are finitely
many roots and skills, that a set of projects has a last one in the registry, that Plane
starts with one board to a key. TLC evaluates each of them.

**ManifestIndex_proofs.** The invariant of the runs is not inductive by itself.
`IInv` adds: the types of what is planned, and, while planning, that the request is a
save and what is left are its projects (`Typed`); a row that refresh has yet to visit
is the only one at its path, so that the update never meets the UNIQUE constraint
(`Listing`); one manifest is written at a time, and only a save plans writes
(`Writing`); each write was read from its manifest, is the only one of its project,
and changes no more than the client may (`Justified`); a row already visited that is
"ok" shows its manifest, unless that was edited meanwhile (`Fresh`). Each action
preserves each part that it can disturb, by a lemma of its own. From it follow
`InjectiveIndex`, `CurrentAnswer` and, as an action property, `NothingLost`. Two more
properties look back from the commit, so each needs an invariant of the transaction:
`Moving` - a row that has left the path it is committed under has done so because that
manifest is gone, is another project's or is being edited - gives `NothingMovesEarly`; and
`Noted` - whatever the transaction wrote it has indexed again, or is about to - gives
`NothingStaleUnsaid`: a row that could not be refreshed is never answered as current.

**MutationAndBoards_proofs, journals and the lock.** That there is one copy at most rests on
what a worker may conclude from a list that is no longer fresh. `IInv` says: a worker that
is current holds the journal as it is, in the state that its place implies (`Holding`); an
armed operation has not been refused (`Arming`); unless the journal is in doubt no POST is
under way, and after a refusal there is no copy (`Quiet`); a worker about to send is the
only one, with nothing there (`Sending`); one copy or one POST, never both (`Single`); and
what a current worker listed still covers what there is (`ListedIds`). `Quiet` and
`ListedIds` need each other: a POST only lands while the journal is in doubt, and a worker
that is current then has come to no conclusion yet. `AtMostOnce`, `RearmedWhenRefused` and
`OwnerCloses` follow. Of the service they assume only what the module says: a POST creates
one copy or none, and a list is complete when it is made.

The next part of the module is about the lock under which journals and receipts change
(`AdmissionLock`). Its names, the journal's (`MutationSpec`, `MutationTypeOK`, `Nil`) and
those of `BoardIdentity` differ, so that one module can extend the three. `LockInv` is:
types; tokens are distinct (`Distinct`) and where they are needed (`Carrying`); whoever
created the lock still has it (`Owning`); of the processes past the claim no two are there
for the same token (`Claiming`); and what was verified under the claim holds until the
rename (`Verified`). `Owning` and `Verified` need each other: the recoverer cannot be wrong
because the lapsed lock has no living owner, and the owner keeps its lock because the
recoverer is right. Types, `Distinct`, `Carrying` and `Claiming` hold without assumption;
the rest, and the refinement of `Mutex` (`IsMutex`) and `RemovesStale`, assume `Slow =
FALSE`.

**ParityAndCaptures_proofs, captures.** `Inv` is the types and what a worker that knows its
receipt as it is may conclude from where it stands (`Knows`): in an attempt the receipt is
processing, about to requeue it is an automatic one that failed. That survives the steps of
others because whoever writes a receipt takes it from everybody else's knowledge
(`OthersKnow`), which is what the compared updated_at and owner do in the code. From it,
step by step, what a receipt may become (`Evolves`): a success stays or is pruned, and what
is queued again was automatic or is retried; so `SuccessStays` and `OneAttempt`.
`EvidenceStays` needs the types only. A worker that lost its lease is any worker outside
`current`.

**ParityAndCaptures_proofs, parity.** Two parts in one module because nothing in them meets.
The parity rules are eleven functions of a record of 29 parts, and every theorem comes from
four facts about them. What a migration may do to each part (`Migrated`, `MigrationMoves`),
whatever fails in it: that alone is `KeepsWhatIsHis`. A rule's own migration leaves it
without work, in parity or out of it (`OwnWork`, `AtRest`). No migration gives another rule
work or takes it out of parity (`OthersKeep`), with two exceptions that the code has: names
in `_bmad` and in Copier's answers follow the one that `.project.json` gets only later in
the order, and a run of the installer that had nothing to do (a named `migrate
bmad.scaffold`) replaces links that Skillex made. That is `UndoesNothing`. And what needs
hands goes on needing them (`HandsStay`): so a second pass finds work only after somebody
else's repair, which is why `ParityInv` may say that an undisturbed `--all` has one pass.
`ParityInv`: in an undisturbed `--all` each rule is at rest or still to come (`QueueInv`),
after one quiet run all rest but the two that depend on names and after two all do
(`RestInv`); hence `SettlesForGood`. `ReportsHonestly` needs that what was verified is still
so when the report is made (`ReportsInv`), which it is because nothing migrates after the
verification unless the run is disturbed. Settling is two runs and not one because of the
names.

**Rename_proofs.** `NeverGetsAhead`: `Inv` is the types, that what the stores hold was
read from the board before, and that each command past its read-back has a new key which
the board has shown, and past its manifest step one that the manifest has had
(`Learned`). So a PATCH that lands
late, a change by hand or any number of other commands change what the board reads, but
not what it has shown. `OkIsRenamed` and `FailedIsResumable` are about commands that
nothing else disturbs. `Undisturbed` says: there is one such run at most and nothing is
active beside it (`Sole`); the service lists an identifier of its own only while a
rename is on its way (`Catching`); and an undisturbed command has brought about what the
step it is at presupposes, would be accepted again whatever becomes of it, and when it
says ok everything is renamed (`Progress`). `Progress` cannot be proved step by step
without `Catching`, since the service re-reads the manifest between any two of them. Keys,
commands, processes and faults are arbitrary. The proof showed that with three commands an
earlier draft of `Follow` was wrong: what another command had left in the manifest reached
the index without counting as somebody else's work.

**ProjectInit_proofs.** `EvidenceIsKept`: the undo removes the target only while `q.keep` is
FALSE, and `Latched` - between plan and end, whoever has asked anything of others has
`q.keep` set - is inductive because `Dispatch`, the notebook step and the finalizer set it
before they ask, or in the same step. `SuccessIsOneStory` needs the whole course of a run
(`Rest`): no record, in whatever store or hand, names a board that was never made
(`Records`); there is one board at most, however many answers were lost (`OneBoard`); the
manifest has not lost its board since the run took its snapshot, which keeps the merge of
the save from making up a link (`SinceBase`); a run that has met no error and that nobody
disturbs holds what the manifest says, with the mark of every step behind it (`Story`); and
from the end of a good run on, until anybody moves, it stays so (`Ended`).

The second half of the module is about `SkillInstall`, the skill that an init shares with
its host. No state machine: five theorems about every machine whatever -
armed hooks run through a link that verifies as the release's export, or have no link and run
nothing; what is turned away leaves link,
checkout and settings, and what fails the first two, and the settings unless the projector had
replaced them; collecting never takes the copy in use; a second install
changes nothing; a repaired checkout is adopted. The lemma under all of them is that the
copy an install stages verifies (`PackedVerifies`), which needs `ExportsArePinned`.

**CrankSwitch_proofs.** A command is a list of calls with anything in between, so each
invariant is about what is left of the list. `NoRowLost` and `PaneOffStays` rest on `Inv`:
the list consists of whole merges but for the one under way (`Chained`), and what that one
has read and not yet thrown away is in the target's log, its override off if one of the two
was (`Carried`). For the rows: a merge that replaces or deletes a log has read it before
(`Known`), so that only what came since counts as raced; every row so far is in some log,
raced or trimmed (`AllThere`), and what a merge leaves out or a log trims has at least
`LogCap` newer ones after it (`OldTrimmed`). For `AsAskedAlways`, `Asked` says of each command that nobody
disturbs what the keys will be when its list is done (`Becomes`, `Vanishes`): a disable
leaves the tab's own key off; an interval its pick there and nothing on the other spellings
(`Pacing`); an enable its pick, and no other key of the name or the project (`Enabling`).
That this decides what the *engine* reads is then a lemma about `Effective` and the owner of
a tab. `NextRunIsFirstDue` is about `CrankSchedule`: the next run announced is a tick at
which the engine finds the tab due, and no earlier one is, for every interval, last run and
moment.

**MutationAndBoards_proofs, boards.** `Inv` is the types, that every record has a board of
its own provider, and `Pass` of each pass that is under way. `Claims`: every board of Plane
that the registry held has a claim, and who claims one holds it. A record takes a board from
its manifest, its agent or a hint only when nobody else claims it (`TargetIs`), so a
judgement takes no claim away, and `PointersStay`. `Settled`: a record judged without an
error is legal, its board is its own, seen and not archived, its key the board's, or,
without a board, no key that a live board owns. Two settled records of one workspace cannot
have one key because Plane gives it to one board (`SeenUnique`), which with `Claims` is
`RepairsHold`. `Verdict`: what a pass makes of a record is the record itself, or has a stamp
of its own, or is its demotion, or relabels a Trello record. So a link made meanwhile, whose
stamp is somebody else's, and a change of the pass always meet in the field `stamp`, which
is the conflict that refuses the save (`LinksStay`); the two cases where the pass leaves the
stamp alone are the exemption the property names, and a disagreement below.

**BmadUpdate_proofs.** `Inv` is the types and what each update may rely on (`Good`),
whatever other updates, agents and editors do. `Witnessed`: what the companion is blamed for
was written while it was at work, and until then a file that nobody wrote to is as the
companion saw it. `Progress`: of the files of a class, those that a rollback has yet to
visit are as it saw them when it looked, and those it has visited as they were captured, but
for those that others have written to since or that could not be restored. One lemma serves
the steps of all others (`GoodStays`): whatever is written outside an update is in the sets
it keeps of it. So `GivesBack`, for a rollback of either kind. `LosesNothing` is about the
overwriting: only it displaces files (`OwnStep`), the file in hand is of the class the
rollback goes through, and what is there is what was copied, or the copy failed (`bare`), or
it was written since (`late`), or nothing was there when the rollback looked (`Copied`,
`Displaced`). The proof needed two things that the run with one update does not show:
`touched` has to know of moved directories as well as of files, and a directory in whose
place another update has made one meanwhile is not put back.

**SkillRoots_proofs.** `AsBefore` looks back over a whole conversion: when the quarantine
goes without a commit, the disk is the one the plan was made from. `IInv` therefore keeps
the way there. `Trail`: some disks lead, by the first k steps of the plan, from that one to
the present one, and what each step parked is what it found. `Place`: k is what the log
says, or one more (a step that ran and is not logged) or less (taken back and not logged:
one by a command, any number by the script). Around it: one command has the quarantine
(`Owned`), the log is a prefix of the plan, taken back from its end (`IsReady`), the script
runs only when that command is dead or has given up and has not passed k (`ScriptOK`,
`Trailed`), a plan that nothing overtook is that of the disk (`Planning`), and when anything
is parked no other command holds such a plan (`Quiet`). `Tracked` says that all this holds.

Going back needs two facts. A step that could be taken is taken back exactly (`StepBack`;
`MkdirBack`, `LinkBack`, `ParkBack`, `MoveBack`), although a path may lead elsewhere
once a root is a link. And the script, which reads a log that may be one line short, finds
out from the disk whether the next step ran; no step that did not may look as if it had
(`NotYetUnseen`). That is a property of the plan. `PlanOrdered`: for every disk, the
operations are apt for it, no two meet at a slot, no two arrive under one name, and no root
is replaced before its entries have left. `PlanSound`: hence on that disk no step
looks taken, and no step brings a later one about, so that the script takes back the last
step and only that (`TakesBackTheLast`). `RestoredAsBefore` follows for all roots, names,
starting disks, edits, faults and numbers of commands; `FiniteLayout` is the only
assumption it adds. It needs no fairness and says nothing of scripts that stick.

A plan is as long as its operations are many, and FlattenSeq and the fixed point of
`Blocked` are recursive functions. Where a fact about them goes by induction, the proof
takes the least number for which it fails: that the naturals have least members
(`LeastNatural`) comes from the well-foundedness of strict inclusion on finite sets, which
the library states without operator parameters. Of `Blocked` nothing is needed but that it
is a set: the order of the plan is the same whatever is blocked.

Only model-checked. Liveness, which the prover does not handle: `Settles` of the registry
and of the identity commands, `OwnerRecovered`, `Converges` of the rename and of the init,
`LockFreed`, `Recovers`. `NothingLost` and `PlanIsRight` of `roots`, which need to know
which content the plan may drop, and so what its fixed point computes. And the promises of
the algorithms other than `SkillInstall` and `CrankSchedule`, for the bounded inputs of
their MC modules. Every safety property of the other eleven runs is a theorem, and
`AsBefore` of `roots`.

## 6. Disagreements

Where the models and something the repository says of itself disagree. None is the
property of a run: each is stated here with what shows it, as a definition that TLC
refutes under the constants named, or as a named assumption that the case happens.

**Registry.**
- A manifest that is there may be answered as missing once: refresh() marks rows missing by
  id, from a list read before its own relocations (`manifestIndex.ts:255`;
  `MissingMeansGone`; `docs/project-registry.md:143-144`, "A service read refreshes
  registered files"). The next refresh repairs it.
- YAML (`StoreCasesHappen`): an agent dropped from a record comes back on load, since
  `agents` is a mapping without owned keys (mergeYamlMapping). Mirror: a project that moved
  keeps its old repository row, and a load, without an ORDER BY, may return the old path; an
  `upsert` of one project at the path of another takes that row over, and the registry no
  longer loads. Two kept projects that exchange boards or notebooks meet the unique index,
  and a valid registry is rolled back.

**Notebook.**
- A crash between creating and writing the lock, or of a recoverer with its claim, blocks
  the lock for good (comment at `notebook/state.ts:645-646`). `OwnerRecovered` says that
  these are the only places.
- The architecture allows `possibly-dispatched -> prepared` on transport proof that nothing
  was sent (ARCHITECTURE-SPINE.md:608, :721); the journal has no such step
  (`remote-mutation-journal.ts:148`).
- Receipts whose worker died stay `queued` or `processing` (epics-project-notebook:1210,
  "without ... abandoned receipts"; `ComesToRest`).
- After an upgrade the skill's link leads to the old release's copy, which is foreign to the
  new one. `pj notebook skill --apply` answers "clean" and does not clear it, although the
  comment says "`repair` is the exact command that clears it" (`RepairClears`), and
  superseded copies are only collected when the link is absent.

**Rename.** A run that reports ok may leave the Board: line of AGENTS.md behind
(`rename.ts:266`, header 11-14; `AgentsFollow`). `Vanished`: with a YAML registry whose sync
took the identifier of a board set back by hand, a resumed run looks for the old key in
vain.

**Init and ticket provider.**
- "an unconfirmed binding can never be 'linked'" (`project/index.ts:714-718`). With Trello, an
  init with another `--board-id` keeps the instant at which the old board was confirmed
  (`index.ts:1403`), and the refresh of the same run, or the next plan, calls the new board
  linked; a change from Plane to Trello inherits Plane's confirmation at once (`ClaimsMove`).
- boardQuery.ts:168-173 says that its chain of keys "mirrors plane.sh exactly", but it also
  falls back to the fleet file's plain key, so pj reads boards that the agents cannot; a
  plain key found in a file beats the workspace's own key when a board is created
  (`KeysDiffer`). The comment at `index.ts:748-755` ("must not be narrower than what the
  adapter itself accepts") does not hold of lines with blanks around `=`.
- The finalizer takes a fresh baseline, so an operator's edit of a manifest field made after
  planning is overwritten for an indexed project (docs/project-registry.md, "A service
  write merges only the fields changed since the caller's baseline"; `index.ts:1715-1721`); a
  concurrent link may be demoted to planned in the same way.
- `linkTicketProviderBoard` replaces a malformed manifest by its own block (`index.ts:1557`),
  where the manifest step refuses it; a first write that changes an existing manifest makes
  the notebook projection of the same run fail, as `expectedContent` is not renewed (1653); a
  repository left by a failed `git commit` counts as initialized on the re-run
  (ProjectRecipe 460); docs/architecture.md:82 says that board creation is gated behind
  `--live`, while it is on by default.

**Crank.** setCrankInterval clears the interval on the owner's other spellings "so the
longest-wins rule across spellings can never override what the operator just picked"
(`crank/index.ts:1170-1173`). It also stamps its own project on the key, which may have been
another project's; with two projects tied for a tab that hands the tab to an owner whose
keys were not cleared, and another spelling outvotes the pick. `Reowned` of `AsAsked`
exempts it; without it TLC finds the case with MaxCalls 5, MaxEvents 2 and Tui = {c1, c2}.

**Identity.**
- The link writes the manifest before the registry, whose validation may refuse:
  the manifest is then bound to a board that the registry does not know (`identity.ts:1388`,
  comment 1237-1239; `NoSplit`). "NEVER written back" of readManifestBoard does not hold in
  service mode, where a save writes manifests. A record that is "skipped" can still be linked.
- The service merges a reconcile and a link field by field, and where the reconcile leaves the
  stamp alone they may mix. A Trello record planned with a key that a live Plane board of
  its workspace owns loses the key to a reconcile while `pj project link` binds it to a
  board: the record is linked without a key, and the next reconcile takes the operator's link
  back. A legacy Plane record without `identifier_source` ends linked with a key that
  "provider" is said to have assigned and that is not there, against R3a
  (`project/index.ts:2067-2069`); a planned record that keeps a board, demoted while it is
  linked to that board, ends linked without one, against R3 (2058-2061). The service's
  saves do not check these rules (validateIndexedRegistry). The first two are
  what `relabelled` of `LinkKept` exempts; without it TLC finds the first when a
  Trello record may start as planned, on a proposed key, without a board.

**Parity.**
- A hook with several scripts that only `mise.config-root` has joined is claimed whole by
  `secrets.env-op`, and the operator's command in it is lost, against `mise-toml.ts:23-24`,
  "a compound command is never claimed whole" (`JoinedIsLost`). `GuardRefuses` has the files
  that the guard turns away, some with a misleading reason.
- Without a name in .project.json, `bmad.scaffold` passes with the directory's name and
  `sot.project-json` then writes another: `migrate --all` is ok, the next audit is not
  (recipes/types.ts:10-17). `Settles` therefore allows a second run.
- A rule selected by hand that has nothing to do hands no skills over, and they stay stale
  (`rules.ts:3876`); `skills.project-manifest` calls manual wiring fixable (3188, against
  3099-3104); `secrets.env-op` calls everything fixable, though not all of it is (3419,
  3517); a dangling CLAUDE.md link makes every run throw; an invalid .project.json is
  overwritten with what it said of waivers and opt-outs (3351).
- `restore.sh`, interrupted and run again as the operator is told, sticks at a step it has
  already taken back (`skill-roots.ts:1143` against 587-589; `ScriptNeverStuck`, with the
  constants of `roots`, MaxEdits 0 and MaxFaults 2). A stale plan that is killed before its
  first step leaves a script that removes what the first conversion made. A kill after `git
  rm --cached` restores files untracked.
- An `automation` in .project.json with nothing but the retired `reconcile` in it is
  "dropped, not carried forward" according to `rules.ts:1502-1509`; the canonical form
  leaves it out, but is laid over what the file already says (3353-3354), so it stays. The
  audit finds it each time (1586-1588), and each migration reports partial (the value
  "vestige" of `ParityRules`).
- The operator's own `.mise/version-files.conf` is overwritten by the versioning rule
  (`rules.ts:3015-3019`); `HandsKept` does not list it.
- compareBmadVersions is not transitive when numeric and other identifiers meet at one place
  (`MixedVersionsAreNot`); a cache whose time lies in the future stays fresh.

**BMAD update.** Two updates may find the same dead holder, and the second unlinks the lock
that the first has just taken (`update-scope.ts:745`, comment 696-702; `Serialized`, with
Updates = {u1, u2}). The way forward's protection overwrites concurrent edits of protected
files without a stash; although "Every byte it displaces goes to the stash first" (770-772),
a file created while the rollback looked is displaced unseen, one that is written between
the copy and the overwriting (785-790, 809-810, 834-835, 856-858) is lost as it then is, and
a copy that fails does not stop the restore. These are the exemptions of `NothingLost`; the
whole-tree mode takes neither lock nor stash; docs/g33-companion.md:41-47 says that the
whole tree is rolled back.

**Not stated as runs.** With `Slow = TRUE` a contender can remove the lock of a slow owner's
successor, and a lock read between its creation and its writing is refused instead of waited
for (`state.ts:622`, `:641`). A session that ends after its baseline's grace leaves a receipt
without one, and a later SessionStart makes a new baseline that the receipt is then compared
with (`state.ts:1046`). A resumed claim counts as another attempt. The crank list ignores keys
without `enabled`, which engine and snapshot take for off (`crank/index.ts:1258`); two enables
that disagree on a tab's name can delete each other's target. Two concurrent inits of one
project are serialized by nothing: each may list no board, and POST one. A rollback of a fresh
target deletes what another program wrote into it meanwhile. Two link commands in service
mode may bind one board to two records.

## 7. Not modelled

- **Notebook module and services**: link, overview, entropy pass, migration of old
  notebooks, rendering. They call the journal and the receipts, which are modelled.
  Overview claims are leases like those of receipts.
- **Board queries and URLs, describe, MCP server, CLI, scaffolding commands, terminal
  interface**: read-only, dispatch or rendering, without state of their own.
- In the modelled components: adapters and templates of other projects beyond what the code
  asks of them; Trello in ProjectInit; project types, g33 enrollment and selected migrations
  in an init; attestations and the rule momo-lifecycle-plane; text layout of edited TOML and
  YAML; how `op://` references are resolved; the byte caps of receipts; the dry runs, which
  write nothing; two installs of the skill at once; registration and dependency order of
  recipes. The note of each component in `PROJECT.json` says what is left out of it.

## 8. Plan

Done: everything in section 2. What a continuation would take up, in this order:

1. Proofs of `NothingLost` and `PlanIsRight` (SkillRoots); the promises of
   `TicketProvider` and `RegistryStores` for all values.
2. `Registry`: what the service promises, a compare-and-set per manifest, as an abstract
   specification refined by ManifestIndex, and then the saves of `BoardIdentity` and
   `ProjectInit` over it instead of their own.
3. `CaptureWork`: CaptureReceipts composed with RemoteMutation, so that opening and closing
   journals is the protocol itself and not a choice.
4. Overview claims and the entropy pass of the notebook.

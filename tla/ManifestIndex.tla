--------------------------- MODULE ManifestIndex ---------------------------
(***************************************************************************)
(* The project registry service (src/project/manifestIndex.ts and the HTTP *)
(* face in registryService.ts).                                            *)
(*                                                                         *)
(* A project is defined by a manifest file, <repo>/.project.json.  The     *)
(* service keeps a PostgreSQL index of the manifests it knows: one row per *)
(* project_id, with the path, a snapshot and the content hash of the       *)
(* manifest it was read from.  Every request runs in one transaction,      *)
(* behind a promise queue and an advisory lock, but a transaction also     *)
(* writes manifests, and a file rename is not undone by a ROLLBACK.        *)
(*                                                                         *)
(* Abstractions.  A manifest is its project_id, whether it still spells    *)
(* that id as the legacy project_slug, and a map from leaf fields to       *)
(* values (NoVal: the key is absent).  A content hash stands for the       *)
(* content, so rows carry the content itself; a row's snapshot is          *)
(* RecordOf(row.content).  Symbolic links, file modes and size limits are  *)
(* left out: each of them only refuses a read, as Broken does.             *)
(***************************************************************************)
EXTENDS Naturals, FiniteSets

CONSTANTS
    Ids,         \* normalized project ids, as numbers in their ORDER BY order
    Paths,       \* manifest paths
    Fields,      \* leaf fields of a project record
    Keys,        \* keys of the global settings
    Vals, NoVal, \* values of a field or key, and "absent"
    Default,     \* what recordFromManifest supplies for an absent field
    Clients,     \* processes holding a registry snapshot (CLI, MCP, notebook)
    Nobody,      \* the sender of a request that carries no snapshot
    MaxEdits,    \* bound on edits of manifests by other programs
    MaxAsks,     \* bound on requests of all clients
    MaxFaults    \* bound on timeouts, database errors and service crashes

ASSUME ConstantsAssumption ==
    /\ Ids \subseteq Nat
    /\ NoVal \notin Vals
    /\ Default \in [Fields -> Vals \cup {NoVal}]
    /\ Nobody \notin Clients
    /\ MaxEdits \in Nat /\ MaxAsks \in Nat /\ MaxFaults \in Nat

VARIABLES
    file,      \* what is at each manifest path
    rows,      \* committed rows of pjangler_index.projects, by project_id
    settings,  \* committed pjangler_index.settings
    pc,        \* where the running transaction stands ("idle": none runs)
    req,       \* the request it serves
    work,      \* the rows as this transaction sees them
    swork,     \* the settings as this transaction sees them
    todo,      \* refresh: rows fetched at its start and not yet visited
    left,      \* save: ids of the request not yet planned
    regs,      \* index, rebuild: paths not yet registered
    plan,      \* save: manifest writes decided and not yet carried out
    cur,       \* the manifest write being carried out
    wrote,     \* this transaction has renamed a manifest into place
    phase,     \* what each client is doing
    tries,     \* number of requests each client has sent
    snap,      \* the registry each client last received: its merge baseline
    wish,      \* the registry each client asks to have saved
    inbox,     \* requests sent and not yet begun
    edits, asks, faults,  \* spent budgets
    dirty,     \* auxiliary: paths edited by others since this transaction began
    raced,     \* auxiliary: one of them between the comparison and the rename
    touched    \* auxiliary: paths this transaction renamed a manifest to

dbVars     == <<rows, settings>>
workVars   == <<work, swork, todo, left, regs, plan>>
writeVars  == <<cur, wrote, touched>>
clientVars == <<phase, tries, snap, wish, inbox>>
budgetVars == <<edits, asks, faults>>
vars == <<file, dbVars, pc, req, workVars, writeVars, clientVars, budgetVars,
          dirty, raced>>

-----------------------------------------------------------------------------
(* Data.                                                                   *)

Leaves   == [Fields -> Vals \cup {NoVal}]
Settings == [Keys -> Vals \cup {NoVal}]

Gone      == [kind |-> "gone"]
Broken    == [kind |-> "broken"]
Manifests == [kind : {"manifest"}, id : Ids, legacy : BOOLEAN, fields : Leaves]
Contents  == Manifests \cup {Gone, Broken}

Row == [path : Paths, content : Manifests, status : {"ok", "missing", "invalid"}]

\* Partial functions on Ids: an index, a snapshot's records, its repo paths.
PartialFcn(S) == UNION {[D -> S] : D \in SUBSET Ids}
Empty == [i \in {} |-> Nobody]

\* A registry as a client holds it: each project's record and repo_path.
Snapshots ==
    {s \in [recs : PartialFcn(Leaves), home : PartialFcn(Paths), settings : Settings] :
        DOMAIN s.recs = DOMAIN s.home}

\* A manifest write: from what was read to what it should become, and the ids
\* its path was indexed under.
Write == [path : Paths, from : Manifests, to : Manifests, old : SUBSET Ids]

\* recordFromManifest: the record of a manifest, defaults filled in.
RecordOf(m) ==
    [f \in Fields |-> IF m.fields[f] = NoVal THEN Default[f] ELSE m.fields[f]]

\* snapshot(): what load and save answer with.
SnapshotOf(w, s) ==
    [recs     |-> [i \in DOMAIN w |-> RecordOf(w[i].content)],
     home     |-> [i \in DOMAIN w |-> w[i].path],
     settings |-> s]

EmptySnapshot == [recs |-> Empty, home |-> Empty, settings |-> [k \in Keys |-> NoVal]]

\* mergeChanges at a leaf: base is the client's baseline, want what it sends,
\* now what the manifest says.  A leaf changed on both sides is refused first.
\* Faulty: it is not.
ConflictsNever(base, want, now) == FALSE
Conflicts(base, want, now) == base # want /\ now # want /\ now # base
Merged(base, want, now) == IF base # want THEN want ELSE now

\* The record a save wants the manifest m to have: a known project is merged,
\* a new one only fills in what its manifest does not say.
MergedRecord(base, want, m) ==
    [f \in Fields |-> Merged(base[f], want[f], RecordOf(m)[f])]
AdoptedRecord(want, m) ==
    [f \in Fields |-> IF m.fields[f] = NoVal /\ want[f] # NoVal
                      THEN want[f] ELSE RecordOf(m)[f]]

\* applyRecord: write only the fields that differ from the manifest's record.
Apply(m, rec) ==
    [m EXCEPT !.legacy = FALSE,
              !.fields = [f \in Fields |-> IF rec[f] = RecordOf(m)[f]
                                           THEN m.fields[f] ELSE rec[f]]]

-----------------------------------------------------------------------------
(* The index table: project_id is its primary key, manifest_path is UNIQUE *)

Mark(w, i, status) ==
    [j \in DOMAIN w |-> IF j = i THEN [w[j] EXCEPT !.status = status] ELSE w[j]]

\* Faulty: a manifest that cannot be read is taken for a missing one.
CollidesIfReadable(w, i, p) ==
    i \in DOMAIN w /\ w[i].path # p /\ file[w[i].path] \in Manifests

\* registrationRows: another manifest that still exists owns the id.
Collides(w, i, p) == i \in DOMAIN w /\ w[i].path # p /\ file[w[i].path] # Gone

\* Faulty: the row of the id the manifest used to declare stays.
RenamedNothing(w, m, p, old) == {}

Renamed(w, m, p, old) == {j \in old \cap DOMAIN w : j # m.id /\ w[j].path = p}

\* INSERT would break UNIQUE(manifest_path).
PathTaken(w, m, p, old) ==
    \E j \in DOMAIN w \ Renamed(w, m, p, old) : j # m.id /\ w[j].path = p

\* persist: drop the row the manifest was indexed under before, upsert the new.
Persist(w, m, p, old) ==
    [j \in (DOMAIN w \ Renamed(w, m, p, old)) \cup {m.id} |->
        IF j = m.id THEN [path |-> p, content |-> m, status |-> "ok"] ELSE w[j]]

-----------------------------------------------------------------------------
(* Requests.                                                               *)

ClientRequests ==
    [kind : {"load", "save"}, by : Clients, n : Nat, base : Snapshots, want : Snapshots]

OperatorRequests ==
    [kind : {"reindex", "index", "rebuild"}, by : {Nobody}, paths : SUBSET Paths]

NoRequest == [kind |-> "none", by |-> Nobody]

TypeOK ==
    /\ file \in [Paths -> Contents]
    /\ rows \in PartialFcn(Row) /\ work \in PartialFcn(Row) /\ todo \in PartialFcn(Row)
    /\ settings \in Settings /\ swork \in Settings
    /\ pc \in {"idle", "register", "refresh", "plan", "write",
               "compare", "rename", "reread", "commit"}
    /\ req \in ClientRequests \cup OperatorRequests \cup {NoRequest}
    /\ left \subseteq Ids
    /\ regs \subseteq Paths
    /\ plan \subseteq Write
    /\ cur \subseteq Write
    /\ wrote \in BOOLEAN
    /\ phase \in [Clients -> {"ready", "loading", "saving", "unsure"}]
    /\ tries \in [Clients -> Nat]
    /\ snap \in [Clients -> Snapshots] /\ wish \in [Clients -> Snapshots]
    /\ inbox \subseteq ClientRequests
    /\ edits \in 0..MaxEdits /\ asks \in 0..MaxAsks /\ faults \in 0..MaxFaults
    /\ dirty \subseteq Paths /\ raced \in BOOLEAN /\ touched \subseteq Paths

\* A fresh installation: manifests may already lie around, nothing is indexed.
Init ==
    /\ file \in [Paths -> Contents]
    /\ rows = Empty /\ settings = [k \in Keys |-> NoVal]
    /\ pc = "idle" /\ req = NoRequest
    /\ work = Empty /\ swork = settings /\ todo = Empty
    /\ left = {} /\ regs = {} /\ plan = {} /\ cur = {} /\ wrote = FALSE
    /\ phase = [c \in Clients |-> "ready"] /\ tries = [c \in Clients |-> 0]
    /\ snap = [c \in Clients |-> EmptySnapshot] /\ wish = snap
    /\ inbox = {}
    /\ edits = 0 /\ asks = 0 /\ faults = 0
    /\ dirty = {} /\ raced = FALSE /\ touched = {}

-----------------------------------------------------------------------------
(* The world outside the service: editors, git checkouts, other programs.  *)

Edit(p) ==
    /\ edits < MaxEdits
    /\ \E c \in Contents \ {file[p]} : file' = [file EXCEPT ![p] = c]
    /\ edits' = edits + 1
    /\ dirty' = IF pc = "idle" THEN {} ELSE dirty \cup {p}
    /\ raced' = (raced \/ (pc = "rename" /\ \E w \in cur : w.path = p))
    /\ UNCHANGED <<dbVars, pc, req, workVars, writeVars, clientVars, asks, faults>>

-----------------------------------------------------------------------------
(* Clients: the synchronous adapter registryRequest around one HTTP call.  *)

Send(c, kind, base, want) ==
    /\ tries' = [tries EXCEPT ![c] = @ + 1]
    /\ inbox' = inbox \cup {[kind |-> kind, by |-> c, n |-> tries[c] + 1,
                             base |-> base, want |-> want]}

\* loadProjectRegistry: GET /v1/registry.
Load(c) ==
    /\ phase[c] = "ready"
    /\ asks < MaxAsks /\ asks' = asks + 1
    /\ Send(c, "load", EmptySnapshot, EmptySnapshot)
    /\ phase' = [phase EXCEPT ![c] = "loading"]
    /\ UNCHANGED <<file, dbVars, pc, req, workVars, writeVars, snap, wish,
                   edits, faults, dirty, raced>>

\* A registry as a client may hand it to saveProjectRegistry: its snapshot with
\* fields changed, projects added at some repository or left out, settings set.
Desired(s) ==
    {w \in Snapshots :
        \A i \in DOMAIN w.recs \cap DOMAIN s.recs : w.home[i] = s.home[i]}

\* saveProjectRegistry: PUT /v1/registry with the baseline the snapshot came with.
Save(c) ==
    /\ phase[c] = "ready"
    /\ asks < MaxAsks /\ asks' = asks + 1
    /\ \E w \in Desired(snap[c]) \ {snap[c]} :
          /\ wish' = [wish EXCEPT ![c] = w]
          /\ Send(c, "save", snap[c], w)
    /\ phase' = [phase EXCEPT ![c] = "saving"]
    /\ UNCHANGED <<file, dbVars, pc, req, workVars, writeVars, snap, edits, faults,
                   dirty, raced>>

\* An answer left the outcome open: the same request again.
Retry(c) ==
    /\ phase[c] = "unsure"
    /\ IF wish[c] = snap[c]
       THEN /\ Send(c, "load", EmptySnapshot, EmptySnapshot)
            /\ phase' = [phase EXCEPT ![c] = "loading"]
       ELSE /\ Send(c, "save", snap[c], wish[c])
            /\ phase' = [phase EXCEPT ![c] = "saving"]
    /\ UNCHANGED <<file, dbVars, pc, req, workVars, writeVars, snap, wish, budgetVars,
                   dirty, raced>>

\* AbortSignal.timeout: the client stops waiting, the service does not notice.
Timeout(c) ==
    /\ phase[c] \in {"loading", "saving"}
    /\ faults < MaxFaults /\ faults' = faults + 1
    /\ phase' = [phase EXCEPT ![c] = "unsure"]
    /\ UNCHANGED <<file, dbVars, pc, req, workVars, writeVars, tries, snap, wish, inbox,
                   edits, asks, dirty, raced>>

-----------------------------------------------------------------------------
(* Transactions: serialized().                                             *)

\* The sender still waits for the answer to the running request.
Awaited == /\ req.by \in Clients
           /\ req.n = tries[req.by]
           /\ phase[req.by] \in {"loading", "saving"}

Reply(ph) == IF Awaited THEN phase' = [phase EXCEPT ![req.by] = ph] ELSE UNCHANGED phase

\* What is left of a transaction when it ends, however it ends.
Finished ==
    /\ pc' = "idle" /\ req' = NoRequest
    /\ work' = Empty /\ swork' = [k \in Keys |-> NoVal] /\ todo' = Empty
    /\ left' = {} /\ regs' = {} /\ plan' = {}
    /\ cur' = {} /\ wrote' = FALSE /\ touched' = {}
    /\ dirty' = {} /\ raced' = FALSE

\* Faulty: a failed transaction answers nobody.
AbortSilently ==
    /\ Finished
    /\ UNCHANGED <<file, dbVars, phase, tries, snap, wish, inbox, budgetVars>>

\* ROLLBACK.  A manifest renamed into place stays, and the sender hears
\* index_stale (503, retry); otherwise the plain refusal.
Abort ==
    /\ Finished
    /\ Reply(IF wrote THEN "unsure" ELSE "ready")
    /\ UNCHANGED <<file, dbVars, tries, snap, wish, inbox, budgetVars>>

\* Whose manifests lie in rebuild's paths, and whether its first pass lets it start.
Discovered(ps) == {p \in ps : file[p] \in Manifests}
MayRebuild(ps) ==
    /\ ps = Discovered(ps)
    /\ \A p, q \in ps : file[p].id = file[q].id => p = q
    /\ \A p \in ps : ~Collides(rows, file[p].id, p)

\* Takes the advisory lock and reads the tables; refresh() lists its rows here.
Start(r, at) ==
    /\ pc = "idle"
    /\ req' = r
    /\ pc' = at
    /\ work' = rows /\ swork' = settings
    /\ todo' = IF at = "refresh" THEN rows ELSE Empty
    /\ UNCHANGED <<file, dbVars, left, plan, writeVars, edits, faults, dirty, raced>>

BeginClient ==
    \E r \in inbox :
        /\ Start(r, "refresh")
        /\ inbox' = inbox \ {r}
        /\ UNCHANGED <<regs, phase, tries, snap, wish, asks>>

\* POST /v1/reindex: a load whose answer nobody merges from.
BeginReindex ==
    /\ asks < MaxAsks /\ asks' = asks + 1
    /\ Start([kind |-> "reindex", by |-> Nobody, paths |-> {}], "refresh")
    /\ UNCHANGED <<regs, clientVars>>

BeginIndex(p) ==
    /\ asks < MaxAsks /\ asks' = asks + 1
    /\ Start([kind |-> "index", by |-> Nobody, paths |-> {p}], "register")
    /\ regs' = {p}
    /\ UNCHANGED clientVars

BeginRebuild(ps) ==
    /\ asks < MaxAsks /\ asks' = asks + 1
    /\ MayRebuild(ps)
    /\ Start([kind |-> "rebuild", by |-> Nobody, paths |-> ps], "register")
    /\ regs' = ps
    /\ UNCHANGED clientVars

\* remove() and settings() neither refresh nor write a manifest: one step each.
Remove(i) ==
    /\ pc = "idle" /\ i \in DOMAIN rows
    /\ asks < MaxAsks /\ asks' = asks + 1
    /\ rows' = [j \in DOMAIN rows \ {i} |-> rows[j]]
    /\ UNCHANGED <<file, settings, pc, req, workVars, writeVars, clientVars,
                   edits, faults, dirty, raced>>

SetSettings ==
    /\ pc = "idle"
    /\ asks < MaxAsks /\ asks' = asks + 1
    /\ \E given \in Settings \ {[k \in Keys |-> NoVal]} :
          settings' = [k \in Keys |-> IF given[k] = NoVal THEN settings[k] ELSE given[k]]
    /\ UNCHANGED <<file, rows, pc, req, workVars, writeVars, clientVars,
                   edits, faults, dirty, raced>>

-----------------------------------------------------------------------------
(* refresh(): visit the rows listed when it began, in project_id order.    *)

IsNext(i) == \A j \in DOMAIN todo : i <= j

\* Faulty: the content hash is not compared while the id is still the same.
RefreshedById(i) ==
    LET p == todo[i].path  m == file[p]
    IN  IF m = Gone THEN Mark(work, i, "missing")
        ELSE IF m = Broken THEN Mark(work, i, "invalid")
        ELSE IF m.id = i /\ todo[i].status = "ok" THEN work
        ELSE IF Collides(work, m.id, p) THEN Mark(work, i, "invalid")
        ELSE Persist(work, m, p, {i})

\* What becomes of the index when row i, as listed, is compared with its manifest.
Refreshed(i) ==
    LET p == todo[i].path  m == file[p]
    IN  IF m = Gone THEN Mark(work, i, "missing")
        ELSE IF m = Broken THEN Mark(work, i, "invalid")
        ELSE IF m = todo[i].content /\ todo[i].status = "ok" THEN work
        ELSE IF Collides(work, m.id, p) THEN Mark(work, i, "invalid")
        ELSE Persist(work, m, p, {i})

RefreshRow ==
    /\ pc = "refresh"
    /\ \E i \in DOMAIN todo :
          /\ IsNext(i)
          /\ work' = Refreshed(i)
          /\ todo' = [j \in DOMAIN todo \ {i} |-> todo[j]]
    /\ UNCHANGED <<file, dbVars, pc, req, swork, left, regs, plan, writeVars,
                   clientVars, budgetVars, dirty, raced>>

RefreshDone ==
    /\ pc = "refresh" /\ DOMAIN todo = {}
    /\ IF req.kind = "save" THEN pc' = "plan" /\ left' = DOMAIN req.want.recs
                            ELSE pc' = "commit" /\ UNCHANGED left
    /\ UNCHANGED <<file, dbVars, req, work, swork, todo, regs, plan, writeVars,
                   clientVars, budgetVars, dirty, raced>>

-----------------------------------------------------------------------------
(* save(): decide every write before the first one is made.                *)

Known(i) == i \in DOMAIN req.base.recs
Same(i)  == /\ Known(i)
            /\ req.base.recs[i] = req.want.recs[i]
            /\ req.base.home[i] = req.want.home[i]
HomeOf(i) == IF i \in DOMAIN work THEN work[i].path ELSE req.want.home[i]

\* The record project i should have, given what its manifest m says now.
NextRecord(i, m) ==
    IF i \notin DOMAIN work THEN AdoptedRecord(req.want.recs[i], m)
    ELSE IF Known(i) THEN MergedRecord(req.base.recs[i], req.want.recs[i], m)
    ELSE RecordOf(m)

\* mergeChanges finds a leaf changed on both sides; or no baseline was sent.
Stale(i, m) ==
    IF i \notin DOMAIN work THEN Known(i)
    ELSE IF Known(i) THEN \E f \in Fields : Conflicts(req.base.recs[i][f],
                                                      req.want.recs[i][f], RecordOf(m)[f])
    ELSE req.want.recs[i] # RecordOf(m) \/ req.want.home[i] # HomeOf(i)

\* Project i can be saved; repo_path never moves through a snapshot.
Savable(i) ==
    LET m == file[HomeOf(i)]
    IN  ~Same(i) => /\ m \in Manifests
                    /\ m.id = i
                    /\ ~Stale(i, m)
                    /\ Known(i) => req.want.home[i] \in {req.base.home[i], HomeOf(i)}

PlannedWrite(i) ==
    LET p == HomeOf(i)  m == file[p]
    IN  [path |-> p, from |-> m, to |-> Apply(m, NextRecord(i, m)),
         old |-> {i} \cap DOMAIN work]

PlanProject ==
    /\ pc = "plan"
    /\ \E i \in left :
          /\ Savable(i)
          /\ left' = left \ {i}
          /\ plan' = IF Same(i) THEN plan ELSE plan \cup {PlannedWrite(i)}
    /\ UNCHANGED <<file, dbVars, pc, req, work, swork, todo, regs, writeVars,
                   clientVars, budgetVars, dirty, raced>>

PlanRefused ==
    /\ pc = "plan"
    /\ \E i \in left : ~Savable(i)
    /\ Abort

SettingsConflict ==
    \E k \in Keys : Conflicts(req.base.settings[k], req.want.settings[k], settings[k])

PlanSettings ==
    /\ pc = "plan" /\ left = {}
    /\ IF SettingsConflict
       THEN Abort
       ELSE /\ pc' = "write"
            /\ swork' = [k \in Keys |-> Merged(req.base.settings[k],
                                               req.want.settings[k], settings[k])]
            /\ UNCHANGED <<file, dbVars, req, work, todo, left, regs, plan, writeVars,
                           clientVars, budgetVars, dirty, raced>>

-----------------------------------------------------------------------------
(* Manifest writes: writeManifest() and the persist() after it.            *)

\* register() reads a path: the write that retires project_slug.
Registration(p) ==
    [path |-> p, from |-> file[p], to |-> [file[p] EXCEPT !.legacy = FALSE],
     old |-> {i \in DOMAIN work : work[i].path = p}]

CanPersist(m, p, old) == ~Collides(work, m.id, p) /\ ~PathTaken(work, m, p, old)

\* Where the transaction goes on after a write.
Resume == IF req.kind = "save" THEN "write" ELSE "register"

Registrable(p) == file[p] \in Manifests /\ ~Collides(work, file[p].id, p)

\* Write w is taken up; a manifest that already says what it should is only indexed.
TakeUp(w) ==
    IF w.from # w.to
    THEN cur' = {w} /\ pc' = "compare" /\ UNCHANGED work
    ELSE CanPersist(w.from, w.path, w.old)
         /\ work' = Persist(work, w.from, w.path, w.old) /\ UNCHANGED <<cur, pc>>

WriteNext ==
    /\ pc = "write"
    /\ \E w \in plan : TakeUp(w) /\ plan' = plan \ {w}
    /\ UNCHANGED <<file, dbVars, req, swork, todo, left, regs, wrote, touched,
                   clientVars, budgetVars, dirty, raced>>

RegisterNext ==
    /\ pc = "register"
    /\ \E p \in regs : /\ Registrable(p)
                       /\ TakeUp(Registration(p))
                       /\ regs' = regs \ {p}
    /\ UNCHANGED <<file, dbVars, req, swork, todo, left, plan, wrote, touched,
                   clientVars, budgetVars, dirty, raced>>

RegisterRefused ==
    /\ pc = "register"
    /\ \E p \in regs : ~Registrable(p)
    /\ Abort

PersistRefused ==
    /\ pc = "write"
    /\ \E w \in plan : w.from = w.to /\ ~CanPersist(w.from, w.path, w.old)
    /\ Abort

\* Registered: list the rows and refresh them.  Written: answer.
Registered ==
    /\ pc = "register" /\ regs = {}
    /\ pc' = "refresh" /\ todo' = work
    /\ UNCHANGED <<file, dbVars, req, work, swork, left, regs, plan, writeVars,
                   clientVars, budgetVars, dirty, raced>>

Written ==
    /\ pc = "write" /\ plan = {}
    /\ pc' = "commit"
    /\ UNCHANGED <<file, dbVars, req, workVars, writeVars, clientVars, budgetVars,
                   dirty, raced>>

\* The content hash is compared; no await follows before the rename, but other
\* processes run.
Compare ==
    /\ pc = "compare"
    /\ \E w \in cur :
          IF file[w.path] = w.from
          THEN /\ pc' = "rename" /\ raced' = FALSE
               /\ UNCHANGED <<file, dbVars, req, workVars, writeVars, clientVars,
                              budgetVars, dirty>>
          ELSE Abort

\* Faulty: the transaction does not note that it wrote a manifest.
RenameUnnoted ==
    /\ pc = "rename"
    /\ \E w \in cur : /\ file' = [file EXCEPT ![w.path] = w.to]
                      /\ touched' = touched \cup {w.path}
    /\ pc' = "reread"
    /\ UNCHANGED <<dbVars, req, workVars, cur, wrote, clientVars, budgetVars, dirty, raced>>

Rename ==
    /\ pc = "rename"
    /\ \E w \in cur : /\ file' = [file EXCEPT ![w.path] = w.to]
                      /\ touched' = touched \cup {w.path}
    /\ wrote' = TRUE
    /\ pc' = "reread"
    /\ UNCHANGED <<dbVars, req, workVars, cur, clientVars, budgetVars, dirty, raced>>

\* What is in the file after the rename is read back and indexed.
Reread ==
    /\ pc = "reread"
    /\ \E w \in cur :
          IF file[w.path] \in Manifests /\ CanPersist(file[w.path], w.path, w.old)
          THEN /\ work' = Persist(work, file[w.path], w.path, w.old)
               /\ cur' = {} /\ pc' = Resume
               /\ UNCHANGED <<file, dbVars, req, swork, todo, left, regs, plan, wrote,
                              touched, clientVars, budgetVars, dirty, raced>>
          ELSE Abort

-----------------------------------------------------------------------------
(* The end of a transaction.                                               *)

Answer == SnapshotOf(work, swork)

Commit ==
    /\ pc = "commit"
    /\ rows' = work /\ settings' = swork
    /\ IF Awaited
       THEN /\ snap' = [snap EXCEPT ![req.by] = Answer]
            /\ wish' = [wish EXCEPT ![req.by] = Answer]
       ELSE UNCHANGED <<snap, wish>>
    /\ Reply("ready")
    /\ Finished
    /\ UNCHANGED <<file, tries, inbox, budgetVars>>

\* A query or a file operation fails: ROLLBACK.  Nothing is awaited between the
\* comparison and the rename, so nothing fails there.
StepFails ==
    /\ pc \notin {"idle", "rename"}
    /\ faults < MaxFaults
    /\ Finished
    /\ Reply(IF wrote THEN "unsure" ELSE "ready")
    /\ faults' = faults + 1
    /\ UNCHANGED <<file, dbVars, tries, snap, wish, inbox, edits, asks>>

\* COMMIT reached the database, its acknowledgement did not reach the service.
CommitUnacknowledged ==
    /\ pc = "commit"
    /\ faults < MaxFaults
    /\ rows' = work /\ settings' = swork
    /\ Finished
    /\ Reply(IF wrote THEN "unsure" ELSE "ready")
    /\ faults' = faults + 1
    /\ UNCHANGED <<file, tries, snap, wish, inbox, edits, asks>>

\* The service dies: the database rolls back, connections and queue are lost.
Crash ==
    /\ faults < MaxFaults
    /\ Finished
    /\ inbox' = {}
    /\ phase' = [c \in Clients |-> IF phase[c] = "ready" THEN "ready" ELSE "unsure"]
    /\ faults' = faults + 1
    /\ UNCHANGED <<file, dbVars, tries, snap, wish, edits, asks>>

TxnStep ==
    \/ RefreshRow \/ RefreshDone
    \/ PlanProject \/ PlanRefused \/ PlanSettings
    \/ WriteNext \/ PersistRefused \/ Written
    \/ RegisterNext \/ RegisterRefused \/ Registered
    \/ Compare \/ Rename \/ Reread
    \/ Commit

Next ==
    \/ \E p \in Paths : Edit(p) \/ BeginIndex(p)
    \/ \E c \in Clients : Load(c) \/ Save(c) \/ Retry(c) \/ Timeout(c)
    \/ BeginClient \/ BeginReindex
    \/ \E ps \in SUBSET Paths : BeginRebuild(ps)
    \/ \E i \in Ids : Remove(i)
    \/ SetSettings
    \/ TxnStep
    \/ StepFails \/ CommitUnacknowledged \/ Crash

Spec == Init /\ [][Next]_vars

\* The service's promise queue serves every request sent and finishes every
\* transaction it begins; a client told to retry does.
FairSpec == /\ Spec
            /\ WF_vars(TxnStep) /\ WF_vars(BeginClient)
            /\ \A c \in Clients : WF_vars(Retry(c))

-----------------------------------------------------------------------------
(* What should be true of it.                                              *)

\* Every index row is keyed by the id its manifest declared, and no manifest is
\* indexed twice.  persist() leaves the second part to UNIQUE(manifest_path);
\* refresh() survives only because it never runs into it: the error would be
\* rethrown and every load refused from then on.
WellKeyed(w) == /\ \A i \in DOMAIN w : w[i].content.id = i
                /\ \A i, j \in DOMAIN w : w[i].path = w[j].path => i = j
IndexIsInjective == WellKeyed(rows) /\ WellKeyed(work)

\* A transaction that read the manifests answers with what they say: an "ok" row
\* shows its file, unless another program edited the file meanwhile.
Shows(r) == r.path \in dirty \/ file[r.path] = r.content
AnswerIsCurrent ==
    pc = "commit" => \A i \in DOMAIN work : work[i].status = "ok" => Shows(work[i])

\* An id never moves to another manifest while the one it is indexed under exists
\* and still declares it: the "canonical manifest must be missing" first.
MovesOnlyWhenGone ==
    [][\A i \in DOMAIN rows \cap DOMAIN rows' :
          LET p == rows[i].path
          IN  rows'[i].path # p => \/ p \in dirty
                                   \/ file[p] = Gone
                                   \/ file[p] \in Manifests /\ file[p].id # i]_vars

\* A write replaces a field only if its client changed that field and the manifest
\* still had the value the client started from (a project new to the index only
\* gains fields), except in the window the code admits: an edit by a program
\* outside the service between the comparison and the rename.
Overwrites(old, new) ==
    \A f \in Fields : RecordOf(new)[f] # RecordOf(old)[f] =>
        /\ req.kind = "save"
        /\ IF Known(old.id)
           THEN /\ RecordOf(old)[f] = req.base.recs[old.id][f]
                /\ req.want.recs[old.id][f] # req.base.recs[old.id][f]
           ELSE old.fields[f] = NoVal
NoLostUpdate ==
    [][pc = "rename" /\ pc' = "reread" /\ ~raced =>
          \A w \in cur : /\ file[w.path] \in Manifests
                         /\ file'[w.path].id = file[w.path].id
                         /\ Overwrites(file[w.path], file'[w.path])]_vars


\* When a transaction ends, each manifest it wrote is indexed as written, or its
\* sender is left unsure and retries: "a failed database update after a manifest
\* commit reports a stale index".
StaleIsReported ==
    [][pc # "idle" /\ pc' = "idle" /\ Awaited /\ phase'[req.by] = "ready" =>
          \A p \in touched \ dirty :
              \E i \in DOMAIN rows' : rows'[i].path = p /\ rows'[i].content = file'[p]]_vars

\* Every request is answered or timed out, and "retrying converges": once edits and
\* faults stop, nobody is left unsure.
Settles == \A c \in Clients : []<>(phase[c] = "ready")

\* "A service read refreshes registered files": an answer calls a manifest missing
\* only if it is.
MissingMeansGone ==
    pc = "commit" => \A i \in DOMAIN work :
        work[i].status = "missing" => work[i].path \in dirty \/ file[work[i].path] = Gone
=============================================================================

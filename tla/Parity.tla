--------------------------------- MODULE Parity --------------------------------
(***************************************************************************)
(* `pj migrate --all` and `pj migrate <rule>` (src/recipes/registry.ts):   *)
(* the audit that selects rules, their migrations in the order of their    *)
(* registration, each after a look of its own, the verification when all   *)
(* of them have run, the second pass over what has become fixable, and the *)
(* report.  Meanwhile the operator edits the repository, programs that the *)
(* rules call fail, and the command may be killed.                         *)
(*                                                                         *)
(* A rule's look and its migration are one step; so are the audit, the     *)
(* verification and the recheck.                                           *)
(***************************************************************************)
EXTENDS ParityRules

CONSTANTS
    Deviations,     \* <<part, value>>: what may be wrong with a repository
    InParity,       \* a repository with nothing wrong
    MaxWrong,       \* deviations there may be, initially and by edits
    MaxFailures     \* failures of other programs, and kills

\* A part deviates to a value that it may have.
ASSUME RepositoryAssumption ==
    IsRepository(InParity) /\ \A d \in Deviations : d[1] \in Parts /\ d[2] \in Values[d[1]]

ASSUME BoundAssumption == MaxWrong \in Nat /\ MaxFailures \in Nat

VARIABLES
    repo,
    run,             \* the command: where it is, what it has to do and has done
    quiet,           \* complete runs of --all since something else happened, up to two
    wrong, failures  \* counters
parityVars == <<repo, run, quiet, wrong, failures>>

\* The statuses of the rules; "none" of one without a result.
Statuses == {"none", "applied", "noop", "blocked", "skipped", "partial"}

\* queue: what is left to migrate.  due: results to verify.  calm: nothing else happened since it started.
Idle == [at |-> "idle", all |-> FALSE, pass |-> 1, queue |-> {}, due |-> {},
         results |-> [r \in Rules |-> "none"], manual |-> {}, wrote |-> FALSE, calm |-> TRUE]

Commands == [at : {"idle", "migrate", "recheck", "report"}, all : BOOLEAN, pass : {1, 2},
             queue : SUBSET Rules, due : SUBSET Rules, results : [Rules -> Statuses],
             manual : SUBSET Rules, wrote : BOOLEAN, calm : BOOLEAN]

\* The rules with a result.
Reported == {r \in Rules : run.results[r] # "none"}

\* The type invariant: no rule is at once queued, reported and left to the operator.
ParityTypeOK ==
    /\ IsRepository(repo)
    /\ run \in Commands
    /\ run.queue \intersect run.manual = {}
    /\ Reported \intersect (run.queue \union run.manual) = {}
    /\ run.due \subseteq Reported
    /\ quiet \in 0..2 /\ wrong \in 0..MaxWrong /\ failures \in 0..MaxFailures

\* s with the deviations ds.
Deviate(s, ds) ==
    LET of(p) == {d \in ds : d[1] = p}
    IN  Sound([p \in DOMAIN s |->
                  IF of(p) = {} THEN s[p] ELSE (CHOOSE d \in of(p) : TRUE)[2]])

ParityInit ==
    /\ \E ds \in {{}} \union {{d, e} : d, e \in Deviations} :
          /\ Cardinality(ds) <= MaxWrong
          /\ repo = Deviate(InParity, ds)
          /\ wrong = Cardinality(ds)
    /\ run = Idle /\ quiet = 0 /\ failures = 0

\* What auditRecipes() says of rule r: a waived rule is skipped.
Audited(r, s) == IF r \in s.waived THEN "skip" ELSE Finding(r, s)

MigrateAll ==
    /\ run.at = "idle"
    /\ run' = [Idle EXCEPT !.at = "migrate", !.all = TRUE,
                           !.queue  = {r \in Rules : Audited(r, repo) = "fix"},
                           !.manual = {r \in Rules : Audited(r, repo) = "hands"}]
    /\ UNCHANGED <<repo, quiet, wrong, failures>>

MigrateRule(r) ==
    /\ run.at = "idle"
    /\ run' = [Idle EXCEPT !.at = "migrate", !.pass = 2, !.queue = {r}]
    /\ quiet' = 0
    /\ UNCHANGED <<repo, wrong, failures>>

\* The next rule; fails: the program it calls fails, or its handing over of skills does.
Migrate ==
    /\ run.at = "migrate" /\ run.queue # {}
    /\ \E works, handed \in BOOLEAN :
          LET r    == First(run.queue)
              out  == Repair(r, repo, works, handed)
              calm == works /\ handed
          IN  /\ calm \/ (r \in Outside /\ failures < MaxFailures)
              /\ repo' = out.repo
              /\ run' = [run EXCEPT !.queue = @ \ {r}, !.due = @ \union {r},
                                    !.results[r] = out.status,
                                    !.wrote = @ \/ out.status = "applied" \/ out.repo # repo,
                                    !.calm = @ /\ calm]
              /\ failures' = failures + (IF calm THEN 0 ELSE 1)
              /\ quiet' = IF calm THEN quiet ELSE 0
    /\ UNCHANGED wrong

\* Faulty: what a rule reports of itself is believed.
Believed(status, r, s) == status

\* verifyMigration(): a success that the rule's own audit does not confirm is partial.
Verified(status, r, s) ==
    IF status \in {"applied", "noop"} /\ ~Fine(r, s) THEN "partial" ELSE status

Verify ==
    /\ run.at = "migrate" /\ run.queue = {}
    /\ run' = [run EXCEPT !.at = IF run.pass = 1 THEN "recheck" ELSE "report",
                          !.due = {},
                          !.results = [r \in Rules |->
                              IF r \in run.due THEN Verified(@[r], r, repo) ELSE @[r]]]
    /\ UNCHANGED <<repo, quiet, wrong, failures>>

\* What was not fixable may be by now, or have been repaired; the rest is the operator's.
Recheck ==
    /\ run.at = "recheck"
    /\ LET freed == {r \in run.manual : Finding(r, repo) = "fix"}
           held  == {r \in run.manual : Finding(r, repo) = "hands"}
       IN  run' = [run EXCEPT !.at = IF freed = {} THEN "report" ELSE "migrate",
                              !.pass = 2, !.manual = held, !.queue = freed]
    /\ UNCHANGED <<repo, quiet, wrong, failures>>

Ok == run.manual = {} /\ \A r \in Rules : run.results[r] \notin {"blocked", "partial"}

Report ==
    /\ run.at = "report"
    /\ run' = Idle
    /\ quiet' = IF run.all /\ run.calm /\ quiet < 2 THEN quiet + 1 ELSE quiet
    /\ UNCHANGED <<repo, wrong, failures>>

\* The operator, git or another program puts something wrong.
Edit ==
    /\ wrong < MaxWrong /\ wrong' = wrong + 1
    /\ \E d \in Deviations : repo[d[1]] # d[2] /\ repo' = Deviate(repo, {d})
    /\ run' = [run EXCEPT !.calm = FALSE]
    /\ quiet' = 0
    /\ UNCHANGED failures

Kill ==
    /\ run.at # "idle" /\ failures < MaxFailures /\ failures' = failures + 1
    /\ run' = Idle /\ quiet' = 0
    /\ UNCHANGED <<repo, wrong>>

ParityNext == MigrateAll \/ (\E r \in Rules : MigrateRule(r)) \/ Migrate \/ Verify \/ Recheck
        \/ Report \/ Edit \/ Kill

ParitySpec == ParityInit /\ [][ParityNext]_parityVars

-----------------------------------------------------------------------------
\* Settles: after two undisturbed runs of --all a third applies nothing, whatever was
\* wrong: the rules agree on what they share.
Settles == quiet = 2 => ~run.wrote

\* Honest: the report of an undisturbed run is ok only if each rule it was about is in
\* parity when it is made (recipes/types.ts:10-17).
Honest ==
    run.at = "report" /\ run.calm /\ Ok => \A r \in Reported : Fine(r, repo)

\* The step is a rule's migration, and not without effect.
Migrates == run'.queue # run.queue /\ repo' # repo

\* The texts among the agent files.
Texts(s) == {s.agents} \union {f \in {"claude", "gemini"} : s[f] = "file"}

\* HandsKept: no migration takes away any of these: the text of an agent file, a
\* directory at a retired path, a .plane.json, values in .env.op, a hook of the
\* operator's, a skill selection, a _bmad or a CLI root that is not pjangler's to change,
\* the name and the agents that a readable .project.json declares, an opt-out, a waiver.
\* A version-files.conf of his own is not among them: VersionsRepair writes over it.
HandsKept ==
    [][Migrates =>
        /\ Texts(repo) \ {"none"} \subseteq Texts(repo')
        /\ \A h \in {<<"retired", "dir">>, <<"envOp", "hands">>, <<"link", "hand">>,
                     <<"unsupported", "own">>, <<"bmad", "bad">>, <<"skills", "foreign">>,
                     <<"roots", "blocked">>, <<"name", "own">>,
                     <<"roles", "unprovisioned">>} :
              repo[h[1]] = h[2] => repo'[h[1]] = h[2]
        /\ repo.plane \in {"there", "both", "kept"} => repo'.plane \in {repo.plane, "kept"}
        /\ repo'.optOut = repo.optOut /\ repo'.waived = repo.waived
    ]_parityVars

\* NothingUndone: a migration its rule has work for takes no other rule out of parity,
\* unless the skills could not be handed over, and but for the names in _bmad and in
\* Copier's answers when .project.json gets one it did not have.
NothingUndone ==
    [][Migrates /\ failures' = failures /\ ~Fine(First(run.queue), repo) =>
        \A r \in Rules \ {First(run.queue)} :
            Fine(r, repo) => \/ Fine(r, repo')
                             \/ /\ r \in {"bmad.scaffold", "provenance.copier"}
                                /\ repo'.name # repo.name
    ]_parityVars
=============================================================================

---------------------------- MODULE ProjectInit ----------------------------
(***************************************************************************)
(* `pj init` and `pj sync` of one project (src/recipes/ProjectRecipe.ts    *)
(* over planProjectInit and executeProjectInitPlan of                      *)
(* src/project/index.ts): a saga over a directory, its manifest            *)
(* .project.json, the registry index, the ticket provider and the remote   *)
(* notebook.  Nothing undoes a remote effect; a fresh target is removed    *)
(* again when the run fails before its first one.                          *)
(*                                                                         *)
(* One run at a time: it plans from what it reads, is confirmed, carries   *)
(* out its steps, fails or is killed anywhere, and is run again.  Between  *)
(* any two of its steps the operator edits the manifest, another command   *)
(* links another board, or the target is wiped or turned into a link.      *)
(*                                                                         *)
(* Abstractions.  A manifest and a registry record hold what a run can     *)
(* get wrong: the board, whether it is known to be linked, whether the     *)
(* notebook is bound, and one field that belongs to the operator.  The     *)
(* registry is the service of ManifestIndex, its load and its save one     *)
(* step each.  The provider is Plane, which names its own boards.  Steps   *)
(* that only write ordinary files, and audits, pass or fail (Gate).        *)
(***************************************************************************)
EXTENDS Naturals

CONSTANTS
    Boards,     \* the boards the provider can create for this project
    Other,      \* a board some other command links
    NoBoard,
    Notes,      \* values of the operator's field
    Blank,      \* what a new project's record has there
    Nothing,    \* no manifest, no record
    Requests,   \* what an operator may ask: see Request
    MaxAgain,   \* bound on runs after a successful one
    MaxEdits,   \* bound on what others do to the target
    MaxFaults   \* bound on failing steps, lost answers and kills

Doc == [board : Boards \cup {Other, NoBoard}, sure : BOOLEAN, nb : BOOLEAN, note : Notes]

\* create: with --scaffold.  board: "off" for --skip-board, "bare" without
\* credentials.  live: with --live and an endpoint for the notebook.
Request == [create : BOOLEAN, board : {"off", "bare", "on"}, live : BOOLEAN]

ASSUME ConstantsAssumption ==
    /\ NoBoard \notin Boards /\ Other \notin Boards /\ Other # NoBoard
    /\ Blank \in Notes
    /\ Nothing \notin Doc
    /\ Requests \subseteq Request
    /\ MaxAgain \in Nat /\ MaxEdits \in Nat /\ MaxFaults \in Nat

VARIABLES
    at,       \* the target path: "none", "dir" or a symbolic "link"
    git,      \* its repository: "none", "init", or with a "commit"
    man,      \* its .project.json
    row,      \* the registry's record of the project
    boards,   \* the boards of this project's name at the provider
    book,     \* its notebook exists at the notebook service
    pc,       \* the step the run takes next
    req,      \* what it was asked
    q,        \* what it holds: plan, latches, errors
    outcome,  \* how the last run ended
    again, edits, faults,  \* spent budgets
    calm,     \* auxiliary: nobody else wrote since the run planned
    sent      \* auxiliary: what the run has asked of others

target == <<at, git, man>>
others == <<boards, book>>
budget == <<again, edits, faults>>
vars   == <<target, row, others, pc, req, q, outcome, budget, calm, sent>>

Steps == {"plan", "begin", "preflight", "copier", "manifest", "deps", "local", "owned",
          "audit", "git", "board", "adapter", "link", "boardsave", "notebook",
          "project", "observe", "refresh", "finalize", "save", "check", "undo", "over"}

\* rec, doc: plan.project and plan.manifest; expect: expectedContent; known:
\* the board the plan knows; found: what the adapter answered; base: the
\* registry snapshot; existed, keep, final: targetExistedAtStart, ~rollback-
\* Eligible, registryFinalizerEligible; bad: there are errors.
Held == [rec : Doc, doc : Doc, expect : Doc \cup {Nothing}, known : Boards \cup {Other, NoBoard},
         found : Boards \cup {NoBoard}, base : Doc \cup {Nothing},
         existed : BOOLEAN, keep : BOOLEAN, final : BOOLEAN, bad : BOOLEAN]

Fresh == [board |-> NoBoard, sure |-> FALSE, nb |-> FALSE, note |-> Blank]

Idle == [rec |-> Fresh, doc |-> Fresh, expect |-> Nothing, known |-> NoBoard,
         found |-> NoBoard, base |-> Nothing,
         existed |-> FALSE, keep |-> FALSE, final |-> FALSE, bad |-> FALSE]

TypeOK ==
    /\ at \in {"none", "dir", "link"} /\ git \in {"none", "init", "commit"} /\ man \in Doc \cup {Nothing}
    /\ row \in Doc \cup {Nothing}
    /\ boards \subseteq Boards /\ book \in BOOLEAN
    /\ pc \in Steps /\ req \in Requests /\ q \in Held
    /\ outcome \in {"none", "ok", "failed", "killed"}
    /\ again \in 0..MaxAgain /\ edits \in 0..MaxEdits /\ faults \in 0..MaxFaults
    /\ calm \in BOOLEAN /\ sent \subseteq {"board", "notebook", "registry"}

\* A new project, or a directory of the operator's that is adopted.
Init ==
    /\ at \in {"none", "dir"} /\ git = "none"
    /\ man = Nothing /\ row = Nothing
    /\ boards = {} /\ book = FALSE
    /\ pc = "plan" /\ req \in Requests /\ q = Idle /\ outcome = "none"
    /\ again = 0 /\ edits = 0 /\ faults = 0
    /\ calm = TRUE /\ sent = {}

-----------------------------------------------------------------------------
(* Where the run goes next.                                                *)

Fault == faults < MaxFaults /\ faults' = faults + 1

\* The steps of the one mode only.
AfterBegin == IF req.create THEN "preflight" ELSE "manifest"
AfterManifest == IF req.create THEN "deps" ELSE "local"
AfterLocal == IF req.create THEN "owned" ELSE "audit"

\* errors.push: before the external tail the run is over but for its undo;
\* in the tail the registry is still brought up to date.
OnError == IF q.final THEN "refresh" ELSE "undo"

\* The run goes on; it notes an error; it is thrown out of its try block.
GoOn(step) == pc' = step /\ UNCHANGED faults
Err        == Fault /\ pc' = OnError
Throw      == Fault /\ pc' = "undo"

\* A step that writes ordinary files or only looks.
After ==
    [preflight |-> "copier", deps |-> "local", local |-> AfterLocal,
     audit |-> IF req.create THEN "git" ELSE "board", observe |-> "refresh", check |-> "undo"]

Gate ==
    /\ pc \in DOMAIN After
    /\ \/ /\ GoOn(After[pc])
          /\ q' = [q EXCEPT !.final = q.final \/ After[pc] = "board"]
       \/ /\ Fault
          /\ pc' = IF pc = "check" THEN "undo" ELSE OnError
          /\ q' = [q EXCEPT !.bad = TRUE]
    /\ UNCHANGED <<target, row, others, req, outcome, again, edits, calm, sent>>

-----------------------------------------------------------------------------
(* Planning, and the local half.                                           *)

\* The registry service reads the manifests it knows before it answers.
Loaded == IF row # Nothing /\ man # Nothing THEN man ELSE row

\* What the plan starts from: the manifest, else the index, else a new record.
Known == IF man # Nothing THEN man ELSE IF Loaded # Nothing THEN Loaded ELSE Fresh

\* planProjectInit.  A registry that does not answer ends the run.
Plan ==
    /\ pc = "plan"
    /\ \/ /\ GoOn("begin") /\ row' = Loaded /\ UNCHANGED outcome
          /\ q' = [Idle EXCEPT !.rec = Known, !.doc = Known,
                               !.expect = man, !.known = Known.board]
       \/ Fault /\ pc' = "over" /\ outcome' = "failed" /\ UNCHANGED <<q, row>>
    /\ calm' = TRUE /\ sent' = {}
    /\ UNCHANGED <<target, others, req, again, edits>>

\* The operator has confirmed: init() looks whether the target exists.
Begin ==
    /\ pc = "begin"
    /\ GoOn(AfterBegin)
    /\ q' = [q EXCEPT !.existed = at # "none"]
    /\ UNCHANGED <<target, row, others, req, outcome, again, edits, calm, sent>>

\* copier: renders the template, which may hold a manifest of its own; it may
\* stop halfway, and so may the registry load before it.
Copier ==
    /\ pc = "copier"
    /\ \/ /\ GoOn("manifest") /\ UNCHANGED q
          /\ at' = IF at = "none" THEN "dir" ELSE at
          /\ man' \in {man, IF man = Nothing THEN q.doc ELSE man}
       \/ /\ Err /\ q' = [q EXCEPT !.bad = TRUE]
          /\ at' \in {at, IF at = "none" THEN "dir" ELSE at}
          /\ man' \in {man, IF man = Nothing /\ at' # "none" THEN q.doc ELSE man}
    /\ UNCHANGED <<git, row, others, req, outcome, again, edits, calm, sent>>

\* expectedContent: a manifest the plan was made from and that is no longer it.
Outdated == q.expect # Nothing /\ man # q.expect

\* project.write-manifest, with the expectation of the plan, whenever it runs.
WriteManifest ==
    /\ pc \in {"manifest", "project"}
    /\ \/ /\ ~Outdated
          /\ GoOn(IF pc = "manifest" THEN AfterManifest ELSE "observe")
          /\ man' = q.doc /\ at' = IF at = "none" THEN "dir" ELSE at
          /\ UNCHANGED q
       \/ /\ Outdated
          /\ GoOn(OnError)
          /\ q' = [q EXCEPT !.bad = TRUE]
          /\ UNCHANGED <<at, man>>
    /\ UNCHANGED <<git, row, others, req, outcome, again, edits, calm, sent>>

\* refreshPlanFromCanonicalManifest: the manifest's binding becomes the
\* record's; a board the record has not heard of counts as proposed only.
Refreshed ==
    [q EXCEPT !.doc = man,
              !.rec.board = man.board,
              !.rec.sure = q.rec.sure /\ q.rec.board = man.board]

\* The project recipe's own checks, and the refresh after them.
Owned ==
    /\ pc = "owned"
    /\ \/ man # Nothing /\ GoOn("audit") /\ q' = Refreshed
       \/ man = Nothing /\ GoOn(OnError) /\ q' = [q EXCEPT !.bad = TRUE]
       \/ Err /\ q' = [q EXCEPT !.bad = TRUE]
    /\ UNCHANGED <<target, row, others, req, outcome, again, edits, calm, sent>>

\* git init, add, commit.  A repository that is there is not looked into.
Git ==
    /\ pc = "git"
    /\ \/ /\ at # "none" /\ GoOn("board")
          /\ git' = IF git = "none" THEN "commit" ELSE git
          /\ q' = [q EXCEPT !.final = TRUE]
       \/ /\ at = "none" /\ GoOn(OnError) /\ UNCHANGED git
          /\ q' = [q EXCEPT !.bad = TRUE]
       \/ /\ at # "none" /\ git = "none" /\ Err /\ git' \in {"none", "init"}
          /\ q' = [q EXCEPT !.bad = TRUE]
    /\ UNCHANGED <<at, man, row, others, req, outcome, again, edits, calm, sent>>

-----------------------------------------------------------------------------
(* The external tail: board, notebook, registry.                           *)

\* Faulty: the latch is set when the adapter has answered.
DispatchUnlatched ==
    /\ pc = "board"
    /\ GoOn(IF q.known = NoBoard /\ req.board = "on" THEN "adapter" ELSE "notebook")
    /\ row' = Loaded
    /\ q' = [q EXCEPT !.base = Loaded]
    /\ UNCHANGED <<target, others, req, outcome, again, edits, calm, sent>>

\* The latch is set before the adapter is called, when it is; the registry is read
\* with a skipped board as well.
Dispatch ==
    /\ pc = "board"
    /\ LET keep == q.keep \/ req.board # "off"
       IN  \/ /\ GoOn(IF q.known = NoBoard /\ req.board = "on" THEN "adapter" ELSE "notebook")
              /\ row' = Loaded
              /\ q' = [q EXCEPT !.keep = keep, !.base = Loaded]
           \/ /\ Throw /\ UNCHANGED row
              /\ q' = [q EXCEPT !.keep = keep, !.bad = TRUE]
    /\ UNCHANGED <<target, others, req, outcome, again, edits, calm, sent>>

\* Faulty: a board that is there already is an error.
CreatedUnlessTaken == IF boards # {} THEN {} ELSE Boards

\* create_board: the board of the project's name, else a new one.
Created == IF boards # {} THEN boards ELSE Boards

\* provisionTicketProviderBoard: the answer may be lost, or make no sense.
Adapter ==
    /\ pc = "adapter"
    /\ sent' = sent \cup {"board"}
    /\ \/ \E b \in Created :
             /\ boards' = boards \cup {b}
             /\ \/ GoOn("link") /\ q' = [q EXCEPT !.found = b]
                \/ Err /\ q' = [q EXCEPT !.bad = TRUE]
       \/ Err /\ UNCHANGED boards /\ q' = [q EXCEPT !.bad = TRUE]
    /\ UNCHANGED <<target, row, book, req, outcome, again, edits, calm>>

\* Faulty: the plan is linked, the manifest is not.
LinkPlanOnly ==
    /\ pc = "link"
    /\ GoOn("boardsave")
    /\ q' = [q EXCEPT !.rec.board = q.found, !.rec.sure = TRUE,
                      !.doc.board = q.found, !.doc.sure = TRUE]
    /\ UNCHANGED <<target, row, others, req, outcome, again, edits, calm, sent>>

\* linkTicketProviderBoard: the plan, and the file whatever it says by now.
Link ==
    /\ pc = "link"
    /\ GoOn("boardsave")
    /\ q' = [q EXCEPT !.rec.board = q.found, !.rec.sure = TRUE,
                      !.doc.board = q.found, !.doc.sure = TRUE]
    /\ man' = IF man = Nothing THEN q'.doc
                               ELSE [man EXCEPT !.board = q.found, !.sure = TRUE]
    /\ at' = IF at = "none" THEN "dir" ELSE at
    /\ UNCHANGED <<git, row, others, req, outcome, again, edits, calm, sent>>

\* Both registry writes: nothing when the snapshot says the same, else a save
\* that the service merges field by field into the manifest (ManifestIndex).
\* The answer may be lost after the deed.
Conflicts(f) == q.base[f] # q.rec[f] /\ man[f] # q.rec[f] /\ man[f] # q.base[f]
Merged == [f \in DOMAIN man |-> IF q.base[f] # q.rec[f] THEN q.rec[f] ELSE man[f]]
Refused ==
    \/ man = Nothing
    \/ man # Nothing /\ q.base # Nothing /\ \E f \in DOMAIN man : Conflicts(f)

\* A project the index does not know is taken as its manifest has it.
Saved == IF q.base = Nothing THEN man ELSE Merged

Save ==
    /\ pc \in {"boardsave", "save"}
    /\ LET next == IF pc = "boardsave" THEN "notebook" ELSE IF q.bad THEN "undo" ELSE "check"
       IN  \/ /\ q.base = q.rec
              /\ GoOn(next) /\ UNCHANGED <<man, row, q, sent>>
           \/ /\ q.base # q.rec /\ ~Refused
              /\ man' = Saved /\ row' = Saved
              /\ sent' = sent \cup {"registry"}
              /\ \/ GoOn(next) /\ UNCHANGED q
                 \/ Throw /\ q' = [q EXCEPT !.bad = TRUE]
           \/ /\ q.base # q.rec
              /\ sent' = sent \cup {"registry"}
              /\ \/ Refused /\ GoOn("undo")
                 \/ Throw
              /\ q' = [q EXCEPT !.bad = TRUE]
              /\ UNCHANGED <<man, row>>
    /\ UNCHANGED <<at, git, others, req, outcome, again, edits, calm>>

\* NotebookRecipe.applyExternal: latched, then provisioned and bound.
Notebook ==
    /\ pc = "notebook"
    /\ \/ /\ ~req.live /\ GoOn("refresh") /\ UNCHANGED <<book, q, sent>>
       \/ /\ req.live
          /\ sent' = sent \cup {"notebook"}
          /\ \/ /\ GoOn("project") /\ book' = TRUE
                /\ q' = [q EXCEPT !.keep = TRUE, !.rec.nb = TRUE, !.doc.nb = TRUE]
             \/ /\ Err /\ book' \in {book, TRUE}
                /\ q' = [q EXCEPT !.keep = TRUE, !.bad = TRUE]
    /\ UNCHANGED <<target, row, boards, req, outcome, again, edits, calm>>

\* After the tail, failed or not: the manifest's binding, and the finalizer.
Refresh ==
    /\ pc = "refresh"
    /\ GoOn("finalize")
    /\ q' = IF man # Nothing THEN Refreshed ELSE [q EXCEPT !.bad = TRUE]
    /\ UNCHANGED <<target, row, others, req, outcome, again, edits, calm, sent>>

Finalize ==
    /\ pc = "finalize"
    /\ \/ /\ GoOn("save") /\ row' = Loaded
          /\ q' = [q EXCEPT !.keep = TRUE, !.base = Loaded]
       \/ /\ Throw /\ UNCHANGED row
          /\ q' = [q EXCEPT !.keep = TRUE, !.bad = TRUE]
    /\ UNCHANGED <<target, others, req, outcome, again, edits, calm, sent>>

-----------------------------------------------------------------------------
(* The end of a run, and the world around it.                              *)

Undoes == q.bad /\ req.create /\ ~q.existed /\ ~q.keep /\ at = "dir"

\* The rollback of a fresh target, never through a link; rmSync may stop
\* halfway.
Undo ==
    /\ pc = "undo"
    /\ pc' = "over"
    /\ outcome' = IF q.bad THEN "failed" ELSE "ok"
    /\ \/ /\ Undoes
          /\ at' = "none" /\ man' = Nothing /\ git' = "none" /\ UNCHANGED faults
       \/ /\ Undoes /\ Fault
          /\ man' \in {man, Nothing} /\ git' \in {git, "none"} /\ UNCHANGED at
       \/ ~Undoes /\ UNCHANGED <<target, faults>>
    /\ UNCHANGED <<row, others, req, q, again, edits, calm, sent>>

Kill ==
    /\ pc # "over" /\ Fault
    /\ pc' = "over" /\ outcome' = "killed"
    /\ UNCHANGED <<target, row, others, req, q, again, edits, calm, sent>>

\* The operator runs it again until it succeeds, and some times after that.
Rerun ==
    /\ pc = "over"
    /\ \/ outcome # "ok" /\ UNCHANGED again
       \/ outcome = "ok" /\ again < MaxAgain /\ again' = again + 1
    /\ pc' = "plan" /\ req' \in Requests /\ q' = Idle /\ outcome' = "none"
    /\ UNCHANGED <<target, row, others, edits, faults, calm, sent>>

\* Others: the operator edits the manifest or the target, a command links
\* another board.
Others ==
    /\ edits < MaxEdits /\ edits' = edits + 1 /\ calm' = FALSE
    /\ \/ /\ man # Nothing
          /\ UNCHANGED <<at, git>>
          /\ \/ \E n \in Notes \ {man.note} : man' = [man EXCEPT !.note = n]
             \/ /\ man.board # Other
                /\ man' = [man EXCEPT !.board = Other, !.sure = TRUE]
       \/ at # "none" /\ at' = "none" /\ git' = "none" /\ man' = Nothing
       \/ at = "dir" /\ at' = "link" /\ UNCHANGED <<git, man>>
    /\ UNCHANGED <<row, others, pc, req, q, outcome, again, faults, sent>>

Step == \/ Plan \/ Begin \/ Gate \/ Copier \/ WriteManifest \/ Owned \/ Git
        \/ Dispatch \/ Adapter \/ Link \/ Save \/ Notebook
        \/ Refresh \/ Finalize \/ Undo

Next == Step \/ Kill \/ Rerun \/ Others

Spec == Init /\ [][Next]_vars

\* A process runs until it ends, and the operator runs a failed one again.
FairSpec == Spec /\ WF_vars(Step) /\ WF_vars(Rerun)

-----------------------------------------------------------------------------
(* Properties.                                                             *)

\* A run that fails takes a target away only when it made it itself, through
\* no link, and has asked nothing of the provider, the notebook service or the
\* registry: whatever may exist elsewhere is recorded here, or never was.
KeepsEvidence ==
    [][(pc = "undo" /\ pc' = "over" /\ target' # target) =>
          (at = "dir" /\ ~q.existed /\ sent = {})]_vars

\* A run that says it succeeded, while nobody else wrote, leaves one story:
\* the manifest and the index agree; a requested board is recorded, and one
\* that an answer or another command has confirmed is the only one made for
\* this project, however many answers were lost before, unless that command
\* linked another; a bound notebook exists; a created project is a repository.
OkMeansInited ==
    (outcome = "ok" /\ calm) =>
        /\ man # Nothing /\ row = man
        /\ req.board = "on" => man.board # NoBoard
        /\ man.sure => man.board = Other \/ boards = {man.board}
        /\ req.live => man.nb
        /\ man.nb => book
        /\ req.create => git # "none"

\* Run again after each failure, an init comes through.
Converges == <>[](outcome = "ok")
=============================================================================

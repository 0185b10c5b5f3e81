------------------------------- MODULE Rename -------------------------------
(* `pj project rename <old> <new> --apply` (project/rename.ts): a sequence of *)
(* idempotent steps over a Plane board, the manifest, the registry and the    *)
(* files that quote the old key, stopped anywhere and run again.              *)
(* One project. A key is a project id and, in capitals, a board identifier.   *)
EXTENDS Naturals

CONSTANTS
  Keys, NoKey,
  First,     \* the id under which the project is registered at first
  Guesses,   \* the identifiers that the stores may show at first
  Others,    \* ids registered to other projects
  Taken,     \* identifiers of other live boards
  Commands,  \* the pairs <<old, new>> an operator runs
  Procs,     \* running commands
  Idle,
  HandKeys,  \* identifiers that somebody sets by hand in Plane
  MaxRuns,   \* bound: commands started
  MaxFaults, \* bound: steps that fail, processes killed, requests lost
  MaxHand    \* bound: changes of the identifier by hand in Plane

VARIABLES
  plane, service,  \* is the provider Plane; is the registry the service or a YAML file
  board,     \* the identifier the Plane board reads
  wire,      \* the PATCHes that Plane may yet apply
  manifest,  \* .project.json: id, identifier, renamed_from
  reg,       \* the project's record in the registry: id, identifier
  role, fleet, agents, candy,  \* what role.yaml, the fleet, AGENTS.md and the candystore show
  hints,     \* hints[k]: the aliases of the entry k of project-hints.json
  run,       \* run[r]: the state of a command
  shown,     \* auxiliary: what the board has read so far, and ids the manifest has had
  used       \* auxiliary: how much of each bound was used

vars == <<plane, service, board, wire, manifest, reg, role, fleet, agents, candy, hints, run, shown, used>>
setup == <<plane, service>>
local == <<manifest, reg>>
quotes == <<role, fleet, agents, candy, hints>>

None == [id |-> NoKey, ident |-> NoKey]
Absent == {NoKey}   \* no such entry
Steps == {"plane", "readback", "manifest", "registry", "role", "fleet", "agents", "hints", "candy"}
Active == {r \in Procs : run[r] # Idle /\ run[r].pc \in Steps}

Entry == [id : Keys, ident : Keys \cup {NoKey}]
\* What a command remembers while it runs, and after it.
Command == [pc : Steps, old : Keys, new : Keys, resumed : BOOLEAN, olds : SUBSET Keys,
            first : Keys \cup {NoKey}, live : Keys, index : Entry,
            quiet : BOOLEAN, bad : BOOLEAN, alone : BOOLEAN]
Over == [pc : {"ok", "failed"}, old : Keys, new : Keys, alone : BOOLEAN]
Runs == {Idle} \cup Command \cup Over

ASSUME RenameAssumption ==
  /\ First \in Keys /\ Guesses \subseteq Keys /\ HandKeys \subseteq Keys /\ NoKey \notin Keys
  /\ Commands \subseteq Keys \X Keys
  /\ Idle \notin Command \cup Over /\ Idle \notin Procs

TypeOK ==
  /\ plane \in BOOLEAN /\ service \in BOOLEAN
  /\ board \in Keys /\ wire \subseteq Keys
  /\ manifest \in [id : Keys, ident : Keys \cup {NoKey}, from : Entry \cup {None}]
  /\ reg \in Entry
  /\ {role, fleet, agents, candy} \subseteq Keys
  /\ hints \in [Keys -> (SUBSET Keys) \cup {Absent}]
  /\ run \in [Procs -> Runs]
  /\ shown \in [idents : SUBSET Keys, ids : SUBSET Keys]

Init ==
  /\ plane \in BOOLEAN /\ service \in BOOLEAN /\ wire = {}
  /\ \E k \in Guesses, l \in Guesses :
       /\ board \in (IF plane THEN {k, l} ELSE {k})
       /\ manifest = [id |-> First, ident |-> k, from |-> None]
       /\ reg = [id |-> First, ident |-> IF service THEN k ELSE l]
       /\ role = k /\ fleet = l /\ agents = l
       /\ shown = [idents |-> {k, l}, ids |-> {First}]
  /\ candy = First
  /\ hints = [k \in Keys |-> IF k = First THEN {} ELSE Absent]
  /\ run = [r \in Procs |-> Idle]
  /\ used = [runs |-> 0, faults |-> 0, hand |-> 0]

Use(what, max) == used[what] < max /\ used' = [used EXCEPT ![what] = @ + 1]

\* What the service lists once it has re-read the manifest.
Indexed == [id |-> manifest.id, ident |-> manifest.ident]

\* The runs that are no longer alone when something else happens.
Disturbed(self) == [r \in Procs |-> IF r = self \/ run[r] = Idle THEN run[r]
                                  ELSE [run[r] EXCEPT !.alone = FALSE]]
\* The same for what an earlier command left to happen, but for the runs whose own it is.
Contested(own) == [r \in Procs |-> IF r \in own \/ run[r] = Idle THEN run[r]
                                  ELSE [run[r] EXCEPT !.alone = FALSE]]
GoTo(r, pc) == run' = [Disturbed(r) EXCEPT ![r].pc = pc]
\* A command that is over remembers only what it was.
End(r, pc) == run' = [Disturbed(r) EXCEPT ![r] = [pc |-> pc, old |-> @.old, new |-> @.new, alone |-> @.alone]]
\* After a step that wrote something.
Wrote(r, pc) == run' = [Disturbed(r) EXCEPT ![r].pc = pc, ![r].quiet = FALSE]
\* A step after the critical ones failed: the others are still tried.
Failing(r, pc) == run' = [Disturbed(r) EXCEPT ![r].pc = pc, ![r].quiet = FALSE, ![r].bad = TRUE]

----------------------------------------------------------------------------
(* Reads before any write *)

\* The new id's manifest proves that it was renamed from the old one.
Resumes(old, new) == reg.id # old /\ reg.id = new /\ manifest.from.id = old

\* Where the old key may be spelled, in the order of the code.
Spellings(old, new) ==
  <<reg.ident, manifest.ident, IF plane THEN board ELSE NoKey,
    IF Resumes(old, new) THEN manifest.from.ident ELSE NoKey>>

\* The places that hold an old spelling.
Olds(s, new) == {i \in 1..4 : s[i] \notin {new, NoKey}}

\* The command finds its project and nothing that forbids the rename. Otherwise it
\* refuses and has written nothing.
Accepted(old, new) ==
  /\ \/ reg.id = old /\ (old # new => new \notin Others)
     \/ Resumes(old, new)
  /\ plane => new \notin Taken

\* What it has read before its first write.
Begin(r, old, new) ==
  LET s == Spellings(old, new)
      olds == Olds(s, new)
  IN  run' = [Disturbed(r) EXCEPT ![r] =
        [pc |-> "plane", old |-> old, new |-> new, resumed |-> Resumes(old, new),
         olds |-> {s[i] : i \in olds},
         first |-> IF olds = {} THEN NoKey ELSE s[CHOOSE i \in olds : \A j \in olds : i <= j],
         live |-> board, index |-> reg, quiet |-> TRUE, bad |-> FALSE,
         alone |-> Active = {}]]

Start(r, old, new) ==
  /\ run[r] = Idle
  /\ Use("runs", MaxRuns)
  /\ Accepted(old, new)
  /\ Begin(r, old, new)
  /\ UNCHANGED <<setup, board, wire, local, quotes, shown>>

----------------------------------------------------------------------------
(* The critical steps *)

\* planeStep() sends the PATCH. It returns with a status, an error or a timeout, and what
\* it says is not used.
Plane(r) ==
  /\ run[r].pc = "plane"
  /\ IF plane /\ run[r].live # run[r].new
     THEN wire' = wire \cup {run[r].new} /\ Wrote(r, "readback")
     ELSE wire' = wire /\ GoTo(r, "manifest")
  /\ UNCHANGED <<setup, board, local, quotes, shown, used>>

\* Faulty: an answer without an error is taken for the rename.
ReadBackTrusting(r) ==
  /\ run[r].pc = "readback"
  /\ GoTo(r, "manifest")
  /\ UNCHANGED <<setup, board, wire, local, quotes, shown, used>>

\* The board is read back, and decides.
ReadBack(r) ==
  /\ run[r].pc = "readback"
  /\ IF board = run[r].new THEN GoTo(r, "manifest") ELSE End(r, "failed")
  /\ UNCHANGED <<setup, board, wire, local, quotes, shown, used>>

NextIdent(ident, new) == IF ident = NoKey /\ ~plane THEN NoKey ELSE new

\* Faulty: the provenance is written by the resumed run only.
ProvenanceLate(r) ==
  IF run[r].resumed THEN [id |-> run[r].old, ident |-> run[r].first] ELSE manifest.from

\* renamed_from: kept by a resumed run and by a repeat, else what was found.
Provenance(r) ==
  LET found == [id |-> run[r].old, ident |-> run[r].first]
  IN  IF run[r].resumed \/ (run[r].old = run[r].new /\ run[r].first = NoKey)
      THEN manifest.from ELSE found

\* manifestStep()
WriteManifest(r) ==
  /\ run[r].pc = "manifest"
  /\ manifest' = [id |-> run[r].new, ident |-> NextIdent(manifest.ident, run[r].new), from |-> Provenance(r)]
  /\ shown' = [shown EXCEPT !.ids = @ \cup {run[r].new}]
  /\ IF manifest' = manifest THEN GoTo(r, "registry") ELSE Wrote(r, "registry")
  /\ UNCHANGED <<setup, board, wire, reg, quotes, used>>

\* Faulty: the registry is written by every run.
SettledNever(r) == FALSE

\* The registry already lists the new key, and its identifier.
Settled(r) == /\ run[r].index.id = run[r].new
              /\ run[r].index.ident = NextIdent(run[r].index.ident, run[r].new)

\* registryStep(): the service re-reads the manifest, a YAML file is loaded afresh.
Register(r) ==
  /\ run[r].pc = "registry"
  /\ IF Settled(r) THEN reg' = reg /\ GoTo(r, "role")
     ELSE IF service
     THEN reg' = Indexed /\ IF manifest.id = run[r].new THEN Wrote(r, "role") ELSE End(r, "failed")
     ELSE IF reg.id = run[r].old
     THEN reg' = [id |-> run[r].new, ident |-> NextIdent(reg.ident, run[r].new)] /\ Wrote(r, "role")
     ELSE reg' = reg /\ End(r, "failed")
  /\ UNCHANGED <<setup, board, wire, manifest, quotes, shown, used>>

----------------------------------------------------------------------------
(* The steps after them *)

\* roleStep()
Role(r) ==
  /\ run[r].pc = "role"
  /\ IF plane /\ role # run[r].new THEN role' = run[r].new /\ Wrote(r, "fleet")
                                   ELSE role' = role /\ GoTo(r, "fleet")
  /\ UNCHANGED <<setup, board, wire, local, fleet, agents, candy, hints, shown, used>>

\* fleetStep(): reconcileProjectIdentity() writes what the board reads into the fleet and
\* the project's record, if it finds it; what the fleet then shows decides.
Fleet(r) ==
  /\ run[r].pc = "fleet"
  /\ IF plane /\ fleet # run[r].new
     THEN /\ IF reg.id = run[r].new
             THEN /\ fleet' = board
                  /\ reg' = [reg EXCEPT !.ident = board]
                  /\ manifest' = IF service THEN [manifest EXCEPT !.ident = board] ELSE manifest
             ELSE fleet' = fleet /\ reg' = reg /\ manifest' = manifest
          /\ IF fleet' = run[r].new THEN Wrote(r, "agents") ELSE Failing(r, "agents")
     ELSE UNCHANGED <<fleet, local>> /\ GoTo(r, "agents")
  /\ UNCHANGED <<setup, board, wire, role, agents, candy, hints, shown, used>>

\* agentsMdStep(): only a known old spelling on the Board: line is replaced.
Agents(r) ==
  /\ run[r].pc = "agents"
  /\ IF agents \in run[r].olds THEN agents' = run[r].new /\ Wrote(r, "hints")
                               ELSE agents' = agents /\ GoTo(r, "hints")
  /\ UNCHANGED <<setup, board, wire, local, role, fleet, candy, hints, shown, used>>

\* hintsStep(): the entry moves to the new key, or into the one there, with an alias.
Hints(r) ==
  /\ run[r].pc = "hints"
  /\ LET old == run[r].old  new == run[r].new
         had == IF hints[new] = Absent THEN {} ELSE hints[new]
     IN  IF old = new \/ hints[old] = Absent THEN hints' = hints /\ GoTo(r, "candy")
         ELSE /\ hints' = [hints EXCEPT ![new] = had \cup hints[old] \cup {old}, ![old] = Absent]
              /\ Wrote(r, "candy")
  /\ UNCHANGED <<setup, board, wire, local, role, fleet, agents, candy, shown, used>>

\* Faulty: any run that changed nothing leaves the projection alone.
SkipsWhenQuiet(r) == run[r].quiet

\* A rename to the same id that changed nothing does not poke the projection.
Skips(r) == run[r].old = run[r].new /\ run[r].quiet

\* candystoreStep()
Candystore(r) ==
  /\ run[r].pc = "candy"
  /\ candy' = IF Skips(r) THEN candy ELSE reg.id
  /\ End(r, IF run[r].bad THEN "failed" ELSE "ok")
  /\ UNCHANGED <<setup, board, wire, local, role, fleet, agents, hints, shown, used>>

Step(r) ==
  /\ r \in Active
  /\ \/ Plane(r) \/ ReadBack(r) \/ WriteManifest(r) \/ Register(r)
     \/ Role(r) \/ Fleet(r) \/ Agents(r) \/ Hints(r) \/ Candystore(r)

\* The operator runs a command again that failed, with the same arguments.
Rerun(r) ==
  /\ run[r] # Idle /\ run[r].pc = "failed" /\ run[r].alone
  /\ Accepted(run[r].old, run[r].new)
  /\ Begin(r, run[r].old, run[r].new)
  /\ UNCHANGED <<setup, board, wire, local, quotes, shown, used>>

\* The operator is done, or sees that something else has meddled.
Return(r) ==
  /\ run[r] # Idle
  /\ \/ run[r].pc = "ok"
     \/ run[r].pc = "failed" /\ ~run[r].alone
  /\ run' = [run EXCEPT ![r] = Idle]
  /\ UNCHANGED <<setup, board, wire, local, quotes, shown, used>>

----------------------------------------------------------------------------
(* Faults, Plane, and others *)

\* A step fails before it has written: a critical one ends the run.
StepFails(r) ==
  /\ r \in Active
  /\ Use("faults", MaxFaults)
  /\ \/ run[r].pc \in {"readback", "manifest", "registry", "candy"} /\ End(r, "failed")
     \/ \E i \in 1..4 : /\ run[r].pc = <<"role", "fleet", "agents", "hints">>[i]
                         /\ Failing(r, <<"fleet", "agents", "hints", "candy">>[i])
  /\ UNCHANGED <<setup, board, wire, local, quotes, shown>>

\* The process is killed; to the operator that is a failure.
Kill(r) ==
  /\ r \in Active
  /\ Use("faults", MaxFaults)
  /\ End(r, "failed")
  /\ UNCHANGED <<setup, board, wire, local, quotes, shown>>

\* Plane applies a PATCH, soon or after its caller gave up; or it never does.
Land(k) ==
  /\ k \in wire
  /\ wire' = wire \ {k}
  /\ board' = k
  /\ shown' = [shown EXCEPT !.idents = @ \cup {k}]
  /\ run' = Contested({r \in Procs : run[r] # Idle /\ run[r].new = k})
  /\ UNCHANGED <<setup, local, quotes, used>>

Lose(k) ==
  /\ k \in wire
  /\ Use("faults", MaxFaults)
  /\ wire' = wire \ {k}
  /\ UNCHANGED <<setup, board, local, quotes, run, shown>>

\* External: the identifier is changed in Plane by hand.
ByHand(k) ==
  /\ plane /\ k \in HandKeys /\ k # board
  /\ Use("hand", MaxHand)
  /\ board' = k
  /\ shown' = [shown EXCEPT !.idents = @ \cup {k}]
  /\ run' = Disturbed(Idle)
  /\ UNCHANGED <<setup, wire, local, quotes>>

\* The manifest is as r, or an earlier run of the same command, left it.
Left(r) == /\ manifest.id = run[r].new
           /\ run[r].old # run[r].new => manifest.from.id = run[r].old

\* Any client's load makes the service re-read the manifest.
Follow ==
  /\ service /\ reg # Indexed
  /\ reg' = Indexed
  /\ run' = Contested({r \in Procs : run[r] # Idle /\ Left(r)})
  /\ UNCHANGED <<setup, board, wire, manifest, quotes, shown, used>>

Next ==
  \/ \E r \in Procs, c \in Commands : Start(r, c[1], c[2])
  \/ \E r \in Procs : Step(r) \/ Return(r) \/ Rerun(r) \/ StepFails(r) \/ Kill(r)
  \/ \E k \in Keys : Land(k) \/ Lose(k) \/ ByHand(k)
  \/ Follow

Fairness ==
  /\ \A r \in Procs : WF_vars(Step(r)) /\ WF_vars(Rerun(r))
  /\ \A k \in Keys : WF_vars(Land(k))
Spec == Init /\ [][Next]_vars /\ Fairness

----------------------------------------------------------------------------
(* Properties *)

\* "A local step must never get ahead of the provider, and the index must never get
\* ahead of the manifest" (rename.ts): whatever PATCHes are lost, late or refused and
\* whatever other commands and hands do between the steps, no store holds an identifier
\* that the board never read, nor the registry an id that the manifest never had.
NeverAhead ==
  /\ plane => {manifest.ident, reg.ident, role, fleet} \subseteq shown.idents
  /\ reg.id \in shown.ids

\* Every key that names the project is the new one; the old one has become an alias.
Renamed(old, new) ==
  /\ manifest.id = new /\ reg.id = new
  /\ plane => {board, manifest.ident, reg.ident, role, fleet} = {new}
  /\ old # new => hints[old] = Absent /\ candy = new

\* A command that reports ok, with nothing else at work on the project since it began, has
\* renamed it everywhere, however many runs before it stopped and wherever.
OkMeansRenamed ==
  \A r \in Procs : run[r] # Idle /\ run[r].pc = "ok" /\ run[r].alone => Renamed(run[r].old, run[r].new)

\* "Re-run the same command to resume" (what a failed run prints): wherever a run stopped,
\* and whether or not the service has re-read the manifest since, the same command is
\* accepted again, unless something else was at work.
Resumable ==
  \A r \in Procs : run[r] # Idle /\ run[r].pc = "failed" /\ run[r].alone => Accepted(run[r].old, run[r].new)

\* A YAML registry lists the new key with an identifier that a sync took from a board set
\* back by hand: a resumed run then looks for the old key, in vain.
Vanished(r) ==
  ~service /\ plane /\ run[r].pc = "failed" /\ run[r].old # run[r].new /\ reg.id = run[r].new /\ reg.ident # run[r].new

\* "A re-run after a partial failure converges" (the header of rename.ts), with a Plane
\* that answers every PATCH in the end and an operator who repeats what failed: a command
\* that began ends with the project renamed, unless something else was at work.
Converges ==
  \A r \in Procs :
    r \in Active ~> (run[r] # Idle /\ \/ ~run[r].alone
                                      \/ run[r].pc = "ok" /\ Renamed(run[r].old, run[r].new)
                                      \/ Vanished(r))

\* The same claim about the Board: line of AGENTS.md.
AgentsFollow ==
  \A r \in Procs : run[r] # Idle /\ run[r].pc = "ok" /\ run[r].alone /\ plane => agents = run[r].new
=============================================================================

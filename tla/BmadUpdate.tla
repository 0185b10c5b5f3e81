------------------------------ MODULE BmadUpdate ------------------------------
(* A BMAD update of one repository (bmad/companion.ts, bmad/update-scope.ts,   *)
(* utils/tree-restore.ts): the lock that serializes updates, the capture, the  *)
(* installer and the g33 companion, and the rollback of an update that failed, *)
(* while other programs write to the same tree.  With a declared scope the     *)
(* rollback covers the installer's files (class A), the companion's own writes *)
(* (class B) and moved directories (class C); without one, the whole tree, and *)
(* such an update takes no lock.                                               *)
EXTENDS Naturals

CONSTANTS
  Updates,          \* processes that run updates, one after another
  Surface,          \* files of class A
  Kept,             \* those restored before the companion runs and verified after it
  Scripts,          \* those restored before the companion runs when they are missing
  Owned,            \* files of class B
  Outside,          \* files of neither class
  From, To, Away,   \* places of a structural directory; nothing tells of Away
  MaxRuns, MaxEdits, MaxFaults   \* bounds: updates that write; edits by others; failures and kills

ASSUME UpdateAssumption ==
  /\ Kept \cup Scripts \subseteq Surface
  /\ Surface \cap Owned = {} /\ (Surface \cup Owned) \cap Outside = {}
  /\ From # To /\ From # Away /\ To # Away
  /\ {From, To, Away} \cap (Surface \cup Owned \cup Outside) = {}
  /\ {"none", "dead"} \cap Updates = {}
  /\ MaxRuns \in Nat /\ MaxEdits \in Nat /\ MaxFaults \in Nat

Files == Surface \cup Owned \cup Outside
Places == {From, To, Away}
None == "none"
Dead == "dead"   \* the holder of a lock whose process was killed
\* What a file holds: nothing, what it held at first, what the installer or the
\* companion wrote, what somebody else wrote.
Contents == {None, "old", "new", "edit"}
\* The directory that was there at first, one the installer made, one somebody else made.
Dirs == {"orig", "made", "other"}

VARIABLES
  declared,  \* whether deriveBmadUpdateScope() finds a scope
  tree,      \* [Files -> Contents]
  where,     \* [Places -> Dirs \cup {None}]
  inside,    \* directories that hold a file of somebody else
  lock,      \* the lock file
  job,       \* what each update is at
  left       \* what is left of the bounds

disk == <<tree, where, inside>>
vars == <<declared, disk, lock, job, left>>

NoLock == [by |-> None, written |-> FALSE, old |-> FALSE]
Idle == [pc |-> "idle"]
\* Memory of an update: attempts at the lock and whether it is its own; what it
\* captured; the tree before the companion, and as a rollback found it; files yet to
\* be restored, and the one in hand, which is overwritten next; the companion's window,
\* or that it is not known; whether it failed and whether it told of something it left
\* behind.  Auxiliary: files it could not restore, the files and places others wrote to
\* since the rollback looked, and those anybody wrote to during the window; files that
\* the stash has as others wrote them last; the file in hand if it could not be put aside,
\* or if others wrote to it since it was taken in hand.
Blank == [p \in Files |-> None]
Fresh(pc) ==
  [pc |-> pc, tries |-> 0, holds |-> FALSE,
   saved |-> [tree |-> Blank, where |-> [l \in Places |-> None], inside |-> {}],
   before |-> Blank, current |-> Blank, todo |-> {}, hand |-> {}, window |-> {}, all |-> FALSE,
   failed |-> FALSE, told |-> FALSE, missed |-> {}, touched |-> {}, during |-> {},
   stash |-> {}, bare |-> {}, late |-> {}]
\* An update that did not fail remembers only whether it has the lock.
Over(j) == [Fresh("release") EXCEPT !.holds = j.holds]

At(u, pc) == job[u].pc = pc
Companion == {"apply", "inventory", "prove"}
Undoing == {"restoreA", "restoreB", "finish"}

\* The places where something else is than before this step.
Moved == {l \in Places : where'[l] # where[l]}

\* The other updates, after something else than themselves wrote to P.
Noted(P) ==
  [u \in Updates |->
    IF job[u].pc \in Undoing \cup {"release"}
    THEN [job[u] EXCEPT !.touched = @ \cup P, !.stash = @ \ P,
                        !.late = @ \cup (P \cap job[u].hand)]
    ELSE IF job[u].pc \in Companion THEN [job[u] EXCEPT !.during = @ \cup P]
    ELSE job[u]]
Becomes(u, j, P) == job' = [Noted(P) EXCEPT ![u] = j]
Goes(u, pc) == job' = [job EXCEPT ![u].pc = pc]
Changed(t) == {p \in Files : tree[p] # t[p]}
Use(what) == left[what] > 0 /\ left' = [left EXCEPT ![what] = @ - 1]
Fault == Use("faults")

Init ==
  /\ declared \in BOOLEAN
  /\ \E new \in SUBSET Surface : tree = [p \in Files |-> IF p \in new THEN None ELSE "old"]
  /\ where = [l \in Places |-> IF l = From THEN "orig" ELSE None]
  /\ inside = {} /\ lock = NoLock
  /\ job = [u \in Updates |-> Idle]
  /\ left = [runs |-> MaxRuns, edits |-> MaxEdits, faults |-> MaxFaults]

----------------------------------------------------------------------------
(* The lock: acquireBmadUpdateLock() *)

\* Without a declared scope no lock is taken; when the state directory cannot be used,
\* the update goes on without it.
Begin(u) ==
  /\ At(u, "idle")
  /\ \/ job' = [job EXCEPT ![u] = Fresh(IF declared THEN "create" ELSE "capture")] /\ UNCHANGED left
     \/ declared /\ Fault /\ job' = [job EXCEPT ![u] = Fresh("capture")]
  /\ UNCHANGED <<declared, disk, lock>>

\* The lock file is created unless there is one.
Create(u) ==
  /\ At(u, "create")
  /\ IF lock = NoLock
     THEN lock' = [NoLock EXCEPT !.by = u] /\ Goes(u, "write")
     ELSE lock' = lock /\ Goes(u, "read")
  /\ UNCHANGED <<declared, disk, left>>

\* The token is written to the file just created, wherever that is by now.  When that
\* fails, what is at the path is unlinked, and the update goes on without a lock.
Write(u) ==
  /\ At(u, "write")
  /\ \/ /\ lock' = IF lock.by = u THEN [lock EXCEPT !.written = TRUE] ELSE lock
        /\ job' = [job EXCEPT ![u].pc = "capture", ![u].holds = TRUE]
        /\ UNCHANGED left
     \/ Fault /\ lock' = NoLock /\ Goes(u, "capture")
  /\ UNCHANGED <<declared, disk>>

Last(u) == job[u].tries = 2
\* The attempt came to nothing.
Again(u) ==
  job' = [job EXCEPT ![u] = IF Last(u) THEN Idle
                            ELSE [job[u] EXCEPT !.pc = "create", !.tries = job[u].tries + 1]]

\* Faulty: a lock without a token is never given up.
LiveUntilWritten == lock.written => lock.by # Dead /\ ~lock.old
\* The holder still runs, or has not written its token for less than a minute.
Live == ~lock.old /\ (lock.written => lock.by # Dead)

\* The update gives way to a holder that is alive; otherwise it will take over.
Read(u) ==
  /\ At(u, "read")
  /\ CASE lock = NoLock -> Again(u)
       [] lock # NoLock /\ Live -> job' = [job EXCEPT ![u] = Idle]
       [] lock # NoLock /\ ~Live -> Goes(u, "unlink")
  /\ UNCHANGED <<declared, disk, lock, left>>

\* Whatever is at the path by now is removed.
Unlink(u) ==
  /\ At(u, "unlink")
  /\ lock' = NoLock
  /\ Again(u)
  /\ UNCHANGED <<declared, disk, left>>

\* The lock is removed if the token in it is the update's own.
Release(u) ==
  /\ At(u, "release")
  /\ lock' = IF job[u].holds /\ lock.by = u /\ lock.written THEN NoLock ELSE lock
  /\ job' = [job EXCEPT ![u] = Idle]
  /\ UNCHANGED <<declared, disk, left>>

\* A minute without a token, or six hours, which no update takes.
Age ==
  /\ lock.by = Dead /\ ~lock.old
  /\ lock' = [lock EXCEPT !.old = TRUE]
  /\ UNCHANGED <<declared, disk, job, left>>

----------------------------------------------------------------------------
(* The update: runDeclaredBmadUpdate(), runWholeTreeBmadUpdate() *)

\* The companion is asked what it would do.  If it will not, or if a file cannot be
\* read, the update stops before it writes anything.
Capture(u) ==
  /\ At(u, "capture")
  /\ \/ /\ Becomes(u, [job[u] EXCEPT !.pc = "evict",
                         !.saved = [tree |-> tree, where |-> where, inside |-> inside]], {})
        /\ Use("runs")
     \/ job' = [job EXCEPT ![u] = Over(@)] /\ UNCHANGED left
  /\ UNCHANGED <<declared, disk, lock>>

\* A failed update undoes what it did, of class B only what is in the window.
Failed(j) == [j EXCEPT !.pc = IF declared THEN "unmove" ELSE "whole", !.failed = TRUE, !.before = Blank]

\* beforeInstall(): links of retired packs are removed.
Evict(u) ==
  /\ At(u, "evict")
  /\ \E P \in SUBSET (Surface \ (Kept \cup Scripts)) :
       /\ tree' = [p \in Files |-> IF p \in P THEN None ELSE tree[p]]
       /\ \/ Becomes(u, [job[u] EXCEPT !.pc = "install"], P)
          \/ Becomes(u, Failed(job[u]), P)
  /\ UNCHANGED <<declared, where, inside, lock, left>>

\* What the installer may do to a structural directory: nothing, make it, or move it.
Relocated ==
  {where}
  \cup {[where EXCEPT ![l] = "made"] : l \in {k \in {From, To} : where[k] = None}}
  \cup {[where EXCEPT ![From] = None, ![l] = "orig"] :
          l \in {k \in Places : where[From] = "orig" /\ where[k] = None}}

\* The installer writes and removes files of class A, and may fail when it has.
Install(u) ==
  /\ At(u, "install")
  /\ \E P \in SUBSET Surface, Q \in SUBSET Surface :
       /\ P \cap Q = {}
       /\ tree' = [p \in Files |-> IF p \in P THEN "new" ELSE IF p \in Q THEN None ELSE tree[p]]
       /\ where' \in Relocated
       /\ \/ Becomes(u, [job[u] EXCEPT !.pc = "protect"], P \cup Q \cup Moved)
          \/ Becomes(u, Failed(job[u]), P \cup Q \cup Moved)
  /\ UNCHANGED <<declared, inside, lock, left>>

\* restoreProtectedBmadStateBeforeCompanion()
Protected(now, saved) ==
  [p \in Files |->
    IF saved[p] # None /\ (p \in Kept \/ (p \in Scripts /\ now[p] = None)) THEN saved[p] ELSE now[p]]
Protect(u) ==
  /\ At(u, "protect")
  /\ LET t == Protected(tree, job[u].saved.tree)
     IN  tree' = t /\ Becomes(u, [job[u] EXCEPT !.pc = "observe"], Changed(t))
  /\ UNCHANGED <<declared, where, inside, lock, left>>

\* The companion takes stock of the surfaces, or will not run at all.
Observe(u) ==
  /\ At(u, "observe")
  /\ \/ job' = [job EXCEPT ![u].pc = "apply", ![u].before = tree]
     \/ job' = [job EXCEPT ![u] = Failed(@)]
  /\ UNCHANGED <<declared, disk, lock, left>>

\* Faulty: whatever differs from the capture counts as written by the companion.
WindowSinceCapture(j) == Changed(j.saved.tree) \cap Owned
\* What changed during the companion's window, whoever wrote it.
Window(j) == Changed(j.before) \cap Owned
\* The companion's inventory fails as well: all of class B will be restored.
Unsure(j) == [Failed(j) EXCEPT !.all = TRUE]

\* A write by anyone while the companion only looks is held against it.  Otherwise it
\* is satisfied, refuses, or writes.
Apply(u) ==
  /\ At(u, "apply")
  /\ IF Changed(job[u].before) \ Outside # {}
     THEN /\ tree' = tree
          /\ \/ job' = [job EXCEPT ![u] = Failed([@ EXCEPT !.window = Window(job[u])])] /\ UNCHANGED left
             \/ Fault /\ job' = [job EXCEPT ![u] = Unsure(@)]
     ELSE \/ /\ tree' = tree /\ UNCHANGED left
             /\ \/ Goes(u, "verify")
                \/ job' = [job EXCEPT ![u] = Failed(@)]
          \/ /\ UNCHANGED left
             /\ \E P \in SUBSET (Surface \cup Owned) :
                  /\ tree' = [p \in Files |-> IF p \in P THEN "new" ELSE tree[p]]
                  /\ Becomes(u, [job[u] EXCEPT !.pc = "inventory", !.during = @ \cup P], P)
  /\ UNCHANGED <<declared, where, inside, lock>>

\* After it wrote, its writes are listed, and the surfaces taken stock of again.
Inventory(u) ==
  /\ At(u, "inventory")
  /\ LET j == [job[u] EXCEPT !.window = Window(job[u]), !.before = tree]
     IN  \/ job' = [job EXCEPT ![u] = [j EXCEPT !.pc = "prove"]] /\ UNCHANGED left
         \/ job' = [job EXCEPT ![u] = Failed(j)] /\ UNCHANGED left
         \/ Fault /\ job' = [job EXCEPT ![u] = Unsure(@)]
  /\ UNCHANGED <<declared, disk, lock>>

\* It must show that it is installed now, and again nobody may write meanwhile.
Prove(u) ==
  /\ At(u, "prove")
  /\ LET j == [job[u] EXCEPT !.window = @ \cup Window(job[u])]
     IN  IF Changed(job[u].before) \ Outside # {}
         THEN \/ job' = [job EXCEPT ![u] = Failed(j)] /\ UNCHANGED left
              \/ Fault /\ job' = [job EXCEPT ![u] = Unsure(@)]
         ELSE /\ \/ Goes(u, "verify")
                 \/ job' = [job EXCEPT ![u] = Failed(@)]
              /\ UNCHANGED left
  /\ UNCHANGED <<declared, disk, lock>>

\* verifyProtectedBmadStateAfterCompanion()
Verify(u) ==
  /\ At(u, "verify")
  /\ LET saved == job[u].saved.tree
     IN  IF \A p \in Kept : saved[p] # None => tree[p] = saved[p]
         THEN job' = [job EXCEPT ![u] = Over(@)]
         ELSE job' = [job EXCEPT ![u] = Failed(@)]
  /\ UNCHANGED <<declared, disk, lock, left>>

----------------------------------------------------------------------------
(* The rollback: restoreScopedBackup(), restoreTreeBackup() *)

\* The rollback of a class looks what is there; a class that needs none has no files.
Looking(j, pc, P) == [j EXCEPT !.pc = pc, !.current = tree, !.todo = P, !.hand = {}]

\* A directory that was there is renamed back from where it is found, unless something
\* is in its place by now.
Unmove(u) ==
  /\ At(u, "unmove")
  /\ LET lost == job[u].saved.where[From] = "orig" /\ where[From] = None
         found == lost /\ where[To] = "orig"
     IN  /\ where' = IF found THEN [where EXCEPT ![From] = "orig", ![To] = None] ELSE where
         /\ Becomes(u, [Looking(job[u], "restoreA", Surface)
                          EXCEPT !.touched = {}, !.told = lost /\ ~found], Moved)
  /\ UNCHANGED <<declared, tree, inside, lock, left>>

\* Faulty: a file that was not there is left.
DiffersIfSaved(now, was) == was # None /\ now # was
Differs(now, was) == now # was

\* A file that was found to differ is taken in hand: what is there at that moment is put
\* aside, if something was there when the rollback looked.  That may fail, and the rollback
\* goes on without the copy.
SetAside(u, p, found) ==
  LET j == [job[u] EXCEPT !.todo = @ \ {p}]
      taken == [j EXCEPT !.hand = {p}]
      kept == IF found # None /\ tree[p] = "edit" THEN {p} ELSE {}
  IN  IF Differs(found, j.saved.tree[p])
      THEN \/ /\ job' = [job EXCEPT ![u] = [taken EXCEPT !.stash = @ \cup kept]]
              /\ UNCHANGED left
           \/ /\ found # None /\ Fault
              /\ job' = [job EXCEPT ![u] = [taken EXCEPT !.bare = {p}]]
      ELSE job' = [job EXCEPT ![u] = j] /\ UNCHANGED left

\* Class A is restored from what the rollback found when it looked.
RestoreA(u) ==
  /\ At(u, "restoreA") /\ job[u].hand = {}
  /\ IF job[u].todo = {}
     THEN /\ job' = [job EXCEPT ![u] = Looking(@, "restoreB", IF @.all THEN Owned ELSE @.window)]
          /\ UNCHANGED left
     ELSE \E p \in job[u].todo : SetAside(u, p, job[u].current[p])
  /\ UNCHANGED <<declared, disk, lock>>

\* Class B likewise if the window is not known, else file by file as it is then.
RestoreB(u) ==
  /\ At(u, "restoreB") /\ job[u].hand = {}
  /\ IF job[u].todo = {}
     THEN /\ job' = [job EXCEPT ![u] = [@ EXCEPT !.pc = "finish", !.current = Blank, !.window = {},
                                                !.all = FALSE, !.during = {}]]
          /\ UNCHANGED left
     ELSE \E p \in job[u].todo :
            SetAside(u, p, IF job[u].all THEN job[u].current[p] ELSE tree[p])
  /\ UNCHANGED <<declared, disk, lock>>

\* The file in hand is unlinked and written, or only unlinked, whatever is there by now.
\* When that fails it may be gone.
Overwrite(u) ==
  /\ At(u, "restoreA") \/ At(u, "restoreB")
  /\ \E p \in job[u].hand :
       LET j == [job[u] EXCEPT !.hand = {}, !.bare = {}, !.late = {}]
       IN  \/ /\ tree' = [tree EXCEPT ![p] = j.saved.tree[p]]
              /\ Becomes(u, j, {p})
              /\ UNCHANGED left
           \/ /\ Fault /\ tree' \in {tree, [tree EXCEPT ![p] = None]}
              /\ Becomes(u, [j EXCEPT !.missed = @ \cup {p}, !.told = TRUE], {p})
  /\ UNCHANGED <<declared, where, inside, lock>>

\* Directories that the installer made go if they are empty, and class A is verified.
Finish(u) ==
  /\ At(u, "finish")
  /\ where' = [l \in Places |->
       IF l # Away /\ job[u].saved.where[l] = None /\ where[l] = "made" /\ "made" \notin inside THEN None
       ELSE where[l]]
  /\ Becomes(u, [job[u] EXCEPT !.pc = "release",
                     !.told = @ \/ \E p \in Surface : tree[p] # job[u].saved.tree[p]], Moved)
  /\ UNCHANGED <<declared, tree, inside, lock, left>>

\* The whole tree is put back, with nothing put aside, unless that fails.
RestoreAll(u) ==
  /\ At(u, "whole")
  /\ LET saved == job[u].saved
     IN  \/ /\ tree' = saved.tree /\ where' = saved.where /\ inside' = saved.inside
            /\ Becomes(u, [job[u] EXCEPT !.pc = "release"], Changed(saved.tree) \cup Moved)
            /\ UNCHANGED left
         \/ /\ Fault /\ UNCHANGED disk
            /\ job' = [job EXCEPT ![u].pc = "release", ![u].missed = Files, ![u].told = TRUE]
  /\ UNCHANGED <<declared, lock>>

----------------------------------------------------------------------------
(* Others *)

\* An agent, an editor or git writes a file.
Edit(p) ==
  /\ Use("edits")
  /\ tree' = [tree EXCEPT ![p] = "edit"]
  /\ job' = Noted({p})
  /\ UNCHANGED <<declared, where, inside, lock>>

\* Somebody writes a file into the directory at a place, and makes it first if need be.
EditIn(l) ==
  /\ Use("edits")
  /\ where' = IF where[l] = None THEN [where EXCEPT ![l] = "other"] ELSE where
  /\ inside' = inside \cup {where'[l]}
  /\ job' = Noted(Moved)
  /\ UNCHANGED <<declared, tree, lock>>

\* The process is killed.
Kill(u) ==
  /\ job[u] # Idle /\ Fault
  /\ lock' = IF lock.by = u THEN [lock EXCEPT !.by = Dead] ELSE lock
  /\ job' = [job EXCEPT ![u] = Idle]
  /\ UNCHANGED <<declared, disk>>

Step(u) ==
  \/ Create(u) \/ Write(u) \/ Read(u) \/ Unlink(u) \/ Release(u)
  \/ Capture(u) \/ Evict(u) \/ Install(u) \/ Protect(u)
  \/ Observe(u) \/ Apply(u) \/ Inventory(u) \/ Prove(u) \/ Verify(u)
  \/ Unmove(u) \/ RestoreA(u) \/ RestoreB(u) \/ Overwrite(u) \/ Finish(u) \/ RestoreAll(u)

Next ==
  \/ \E u \in Updates : Begin(u) \/ Step(u) \/ Kill(u)
  \/ \E p \in Files : Edit(p)
  \/ \E l \in Places : EditIn(l)
  \/ Age

\* Processes run, updates are tried again, and time passes.
Fairness == WF_vars(Age) /\ \A u \in Updates : WF_vars(Begin(u)) /\ WF_vars(Step(u))
Spec == Init /\ [][Next]_vars /\ Fairness

----------------------------------------------------------------------------
(* Properties *)

Trees == [Files -> Contents]
Wheres == [Places -> Dirs \cup {None}]
Phases == {"create", "write", "read", "unlink", "capture", "evict", "install", "protect",
           "observe", "apply", "inventory", "prove", "verify", "unmove", "restoreA",
           "restoreB", "finish", "whole", "release"}
Jobs == [pc : Phases, tries : 0..2, holds : BOOLEAN,
         saved : [tree : Trees, where : Wheres, inside : SUBSET Dirs],
         before : Trees, current : Trees, todo : SUBSET (Surface \cup Owned),
         hand : SUBSET (Surface \cup Owned), window : SUBSET Owned, all : BOOLEAN, failed : BOOLEAN, told : BOOLEAN,
         missed : SUBSET Files, touched : SUBSET (Files \cup Places),
         during : SUBSET (Files \cup Places), bare : SUBSET Files, late : SUBSET Files,
         stash : SUBSET Files]

\* Every variable keeps its type.
TypeOK ==
  /\ declared \in BOOLEAN
  /\ tree \in Trees /\ where \in Wheres
  /\ inside \subseteq Dirs
  /\ lock \in [by : Updates \cup {None, Dead}, written : BOOLEAN, old : BOOLEAN]
  /\ job \in [Updates -> {Idle} \cup Jobs]
  /\ left \in [runs : Nat, edits : Nat, faults : Nat]

\* "Class A: byte-exact": when a failed update has rolled back, the installer's files are
\* as they were before it, but for those that others wrote since the rollback looked and
\* those it could not write; of a whole-tree rollback this holds for every file.  A
\* directory that was moved is back, or the update says that it is not, unless something
\* else is in its place by now or others have moved it since.
Restored ==
  \A u \in Updates : At(u, "release") /\ job[u].failed =>
    /\ \A p \in (IF declared THEN Surface ELSE Files) :
         p \in job[u].touched \cup job[u].missed \/ tree[p] = job[u].saved.tree[p]
    /\ job[u].saved.where[From] = "orig" => \/ where[From] # None
                                            \/ job[u].told
                                            \/ From \in job[u].touched

\* "Everything else (a concurrent agent's src/, docs/, artifacts) is never read, written
\* or deleted", and "bytes a rollback displaces go to a stash first": a rollback with a
\* declared scope leaves what somebody else wrote, unless it is in class A or was written
\* during the companion's window, and then it is in the stash.  Displaced without a copy is
\* only what could not be copied, what was written after the copy was made and before the
\* file was overwritten, and a file in its place when there was none as the rollback looked.
NothingLost ==
  [][\A u \in Updates, p \in Files :
       /\ declared /\ job[u] # Idle /\ job[u].pc \in Undoing
       /\ job'[u] # Idle /\ <<job'[u].todo, job'[u].hand>> # <<job[u].todo, job[u].hand>>
       /\ tree[p] = "edit" /\ tree'[p] # "edit"
       => /\ p \in Surface \cup Owned
          /\ p \in Owned => job[u].all \/ p \in job[u].during
          /\ \/ p \in job[u].stash
             \/ p \in job[u].bare \cup job[u].late
             \/ job[u].current[p] = None /\ p \in job[u].touched]_vars

\* A killed update does not keep the lock for ever, whatever it had written of it.
LockFreed == lock.by = Dead ~> lock.by # Dead

\* "Serialize pj BMAD updates per repo": no two updates hold the lock.
Serialized ==
  \A u, v \in Updates : job[u] # Idle /\ job[u].holds /\ job[v] # Idle /\ job[v].holds => u = v

\* "An incomplete rollback says so": a failed update that says nothing has put a
\* directory back that was there.
SaysSo ==
  \A u \in Updates : At(u, "release") /\ job[u].failed /\ declared /\ ~job[u].told =>
    (job[u].saved.where[From] = "orig" => where[From] = "orig")
=============================================================================

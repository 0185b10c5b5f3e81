------------------------- MODULE BmadUpdate_proofs -------------------------
(* What TLAPS proves of BmadUpdate for every set of updates and files, every  *)
(* layout and every bound: the types, that a failed update gives back what it *)
(* found, and that its rollback loses nothing that somebody else wrote.       *)
EXTENDS BmadUpdate, TLAPS

\* What the companion is blamed for was written while it was at work.
Witnessed(j, t) ==
  /\ j.window \subseteq j.during
  /\ j.pc \in Companion => \A p \in Files : p \in j.during \/ t[p] = j.before[p]

\* A file is as it was captured, or as it was when the rollback looked, unless others
\* wrote to it since or it could not be restored.
AsBefore(j, t, p) == p \in j.touched \cup j.missed \/ t[p] = j.saved.tree[p]
AsSeen(j, t, p) == p \in j.touched \/ t[p] = j.current[p]

\* One file at a time is in hand.  What somebody else wrote in it is in the stash, but for
\* what could not be copied, what was written since, and a file that came where there was none.
Copied(j, t) ==
  /\ \A p \in j.hand : p \notin j.todo /\ \A q \in j.hand : q = p
  /\ \A p \in j.hand :
       t[p] = "edit" => \/ p \in j.stash \cup j.bare \cup j.late
                        \/ j.current[p] = None /\ p \in j.touched

\* What an update remembers when others write to Q during its rollback.
Heard(j, Q) == [j EXCEPT !.touched = j.touched \cup Q, !.stash = j.stash \ Q,
                         !.late = j.late \cup (Q \cap j.hand)]

Undone(j) == j.pc \in Undoing \/ (j.pc = "release" /\ j.failed)

\* How far a rollback has come, with files t and directories w.
Progress(j, t, w) ==
  /\ j.pc \in Undoing \cup {"unmove"} => declared
  /\ j.pc = "whole" => ~declared
  /\ j.pc = "restoreA" =>
       /\ j.todo \cup j.hand \subseteq Surface
       /\ \A p \in Surface : IF p \in j.todo \cup j.hand THEN AsSeen(j, t, p) ELSE AsBefore(j, t, p)
  /\ j.pc = "restoreB" =>
       /\ j.todo \cup j.hand \subseteq Owned
       /\ \A p \in j.todo \cup j.hand : IF j.all THEN AsSeen(j, t, p) ELSE p \in j.during
  /\ j.pc \in {"restoreA", "restoreB"} => Copied(j, t)
  /\ Undone(j) /\ j.pc # "restoreA" =>
       \A p \in IF declared THEN Surface ELSE Files : AsBefore(j, t, p)
  /\ Undone(j) /\ j.saved.where[From] = "orig" =>
       w[From] # None \/ j.told \/ From \in j.touched

Good(j, t, w) == Witnessed(j, t) /\ Progress(j, t, w)

\* The types of everything but the updates.
World ==
  /\ declared \in BOOLEAN
  /\ tree \in Trees /\ where \in Wheres
  /\ inside \subseteq Dirs
  /\ lock \in [by : Updates \cup {None, Dead}, written : BOOLEAN, old : BOOLEAN]
  /\ left \in [runs : Nat, edits : Nat, faults : Nat]

Inv == TypeOK /\ \A u \in Updates : job[u] # Idle => Good(job[u], tree, where)

-----------------------------------------------------------------------------
(* Data *)

\* A file is no place.
LEMMA Apart == /\ Surface \subseteq Files /\ Owned \subseteq Files
               /\ \A p \in Surface : p \notin Owned
               /\ From \in Places /\ From \notin Files
BY UpdateAssumption DEF Files, Places

LEMMA IdleIsNoJob == Idle \notin Jobs /\ Idle.pc = "idle"
BY DEF Idle, Jobs, Phases

\* Bounds are only ever used up.
LEMMA UseType ==
  ASSUME World, NEW what \in {"runs", "edits", "faults"}, Use(what)
  PROVE  left' \in [runs : Nat, edits : Nat, faults : Nat]
BY DEF World, Use

LEMMA FaultType == ASSUME World, Fault PROVE left' \in [runs : Nat, edits : Nat, faults : Nat]
BY UseType DEF Fault

\* A fault leaves a trace in the bounds.
LEMMA FaultSpends == ASSUME World, Fault PROVE left' # left
<1>1. left \in [runs : Nat, edits : Nat, faults : Nat]
  BY DEF World
<1>2. left["faults"] \in Nat /\ left'["faults"] = left["faults"] - 1
  BY <1>1 DEF Fault, Use
<1> QED BY <1>2

LEMMA HeardIs ==
  ASSUME NEW j \in Jobs, NEW Q \in SUBSET (Files \cup Places)
  PROVE  LET k == Heard(j, Q)
         IN  /\ k \in Jobs
             /\ k.touched = j.touched \cup Q /\ k.stash = j.stash \ Q
             /\ k.late = j.late \cup (Q \cap j.hand) /\ k.bare = j.bare /\ k.hand = j.hand
             /\ k.pc = j.pc /\ k.window = j.window /\ k.during = j.during /\ k.todo = j.todo
             /\ k.all = j.all /\ k.failed = j.failed /\ k.told = j.told /\ k.missed = j.missed
             /\ k.saved = j.saved /\ k.current = j.current
<1> DEFINE T == j.touched \cup Q
           S == j.stash \ Q
           L == j.late \cup (Q \cap j.hand)
           i == [j EXCEPT !.touched = T]
           h == [i EXCEPT !.stash = S]
           k == [h EXCEPT !.late = L]
<1>1. T \in SUBSET (Files \cup Places) /\ S \in SUBSET Files /\ L \in SUBSET Files
  BY Apart DEF Jobs
<1>2. Heard(j, Q) = k
  BY DEF Heard
<1> HIDE DEF T, S, L
<1>3. /\ i \in Jobs
      /\ i.touched = T /\ i.late = j.late /\ i.bare = j.bare /\ i.hand = j.hand
      /\ i.pc = j.pc /\ i.window = j.window /\ i.during = j.during /\ i.todo = j.todo
      /\ i.all = j.all /\ i.failed = j.failed /\ i.told = j.told /\ i.missed = j.missed
      /\ i.saved = j.saved /\ i.current = j.current
  BY <1>1 DEF Jobs
<1> HIDE DEF i
<1>4. /\ h \in Jobs
      /\ h.touched = T /\ h.stash = S /\ h.bare = j.bare /\ h.hand = j.hand
      /\ h.pc = j.pc /\ h.window = j.window /\ h.during = j.during /\ h.todo = j.todo
      /\ h.all = j.all /\ h.failed = j.failed /\ h.told = j.told /\ h.missed = j.missed
      /\ h.saved = j.saved /\ h.current = j.current
  BY <1>1, <1>3 DEF Jobs
<1> HIDE DEF h
<1>5. /\ k \in Jobs
      /\ k.touched = T /\ k.stash = S /\ k.late = L /\ k.bare = j.bare /\ k.hand = j.hand
      /\ k.pc = j.pc /\ k.window = j.window /\ k.during = j.during /\ k.todo = j.todo
      /\ k.all = j.all /\ k.failed = j.failed /\ k.told = j.told /\ k.missed = j.missed
      /\ k.saved = j.saved /\ k.current = j.current
  BY <1>1, <1>4 DEF Jobs
<1> HIDE DEF k
<1> QED BY <1>2, <1>5 DEF T, S, L

\* What an update remembers of others' writes.
LEMMA NotedIs ==
  ASSUME TypeOK, NEW Q \in SUBSET (Files \cup Places), NEW v \in Updates
  PROVE  LET j == job[v]
             k == Noted(Q)[v]
         IN  /\ k \in {Idle} \cup Jobs
             /\ k = Idle <=> j = Idle
             /\ j # Idle =>
                  /\ \/ k = j /\ j.pc \notin Undoing \cup {"release"} \cup Companion
                     \/ j.pc \in Undoing \cup {"release"} /\ k = Heard(j, Q)
                     \/ /\ j.pc \in Companion
                        /\ k = [j EXCEPT !.during = j.during \cup Q]
<1> DEFINE j == job[v]
           k == Noted(Q)[v]
<1>1. j \in {Idle} \cup Jobs
  BY DEF TypeOK
<1>2. k = IF j.pc \in Undoing \cup {"release"} THEN Heard(j, Q)
          ELSE IF j.pc \in Companion THEN [j EXCEPT !.during = j.during \cup Q] ELSE j
  BY DEF Noted, Heard
<1>3. CASE j = Idle
  BY <1>2, <1>3, IdleIsNoJob DEF Undoing, Companion
<1>4. CASE j # Idle
  <2>1. j \in Jobs
    BY <1>1, <1>4
  <2>2. Heard(j, Q) \in Jobs
    BY <2>1, HeardIs
  <2>3. [j EXCEPT !.during = j.during \cup Q] \in Jobs
    BY <2>1 DEF Jobs
  <2>4. k \in Jobs
    BY <1>2, <2>1, <2>2, <2>3
  <2>5. \/ k = j /\ j.pc \notin Undoing \cup {"release"} \cup Companion
        \/ j.pc \in Undoing \cup {"release"} /\ k = Heard(j, Q)
        \/ /\ j.pc \in Companion
           /\ k = [j EXCEPT !.during = j.during \cup Q]
    BY <1>2
  <2> QED BY <1>4, <2>4, <2>5, IdleIsNoJob
<1> QED BY <1>3, <1>4

-----------------------------------------------------------------------------
(* Steps of one update, seen by the others *)

\* What others write is taken into account, whatever they write.
LEMMA GoodStays ==
  ASSUME NEW j \in Jobs, NEW k \in Jobs, NEW t, NEW w, NEW t1, NEW w1, Good(j, t, w),
         NEW Q \in SUBSET (Files \cup Places),
         \A p \in Files : p \in Q \/ t1[p] = t[p],
         From \in Q \/ w1[From] = w[From],
         \/ k = j /\ j.pc \notin Undoing \cup {"release"} \cup Companion
         \/ j.pc \in Undoing \cup {"release"} /\ k = Heard(j, Q)
         \/ j.pc \in Companion /\ k = [j EXCEPT !.during = j.during \cup Q]
  PROVE  Good(k, t1, w1)
<1>1. CASE k = j /\ j.pc \notin Undoing \cup {"release"} \cup Companion
  BY <1>1 DEF Good, Witnessed, Progress, Undone, Undoing
<1>2. CASE j.pc \in Undoing \cup {"release"} /\ k = Heard(j, Q)
  <2>1. /\ k.touched = j.touched \cup Q /\ k.stash = j.stash \ Q
        /\ k.late = j.late \cup (Q \cap j.hand) /\ k.bare = j.bare /\ k.hand = j.hand
        /\ k.pc = j.pc /\ k.window = j.window /\ k.during = j.during /\ k.todo = j.todo
        /\ k.all = j.all /\ k.failed = j.failed /\ k.told = j.told /\ k.missed = j.missed
        /\ k.saved = j.saved /\ k.current = j.current
    BY <1>2, HeardIs
  <2>2. \A p \in Files : /\ AsBefore(j, t, p) => AsBefore(k, t1, p)
                         /\ AsSeen(j, t, p) => AsSeen(k, t1, p)
    BY <2>1 DEF AsBefore, AsSeen
  <2>3. Undone(k) <=> Undone(j)
    BY <2>1 DEF Undone
  <2>4. k.pc \notin Companion
    BY <1>2, <2>1 DEF Companion, Undoing
  <2>5. Witnessed(k, t1)
    BY <2>1, <2>4 DEF Good, Witnessed
  <2>6. /\ k.pc \in Undoing \cup {"unmove"} => declared
        /\ k.pc = "whole" => ~declared
    BY <2>1 DEF Good, Progress
  <2>7. k.pc = "restoreA" =>
          /\ k.todo \cup k.hand \subseteq Surface
          /\ \A p \in Surface : IF p \in k.todo \cup k.hand THEN AsSeen(k, t1, p) ELSE AsBefore(k, t1, p)
    BY <2>1, <2>2, Apart DEF Good, Progress
  <2>8. k.pc = "restoreB" =>
          /\ k.todo \cup k.hand \subseteq Owned
          /\ \A p \in k.todo \cup k.hand : IF k.all THEN AsSeen(k, t1, p) ELSE p \in k.during
    BY <2>1, <2>2, Apart DEF Good, Progress
  <2>12. k.pc \in {"restoreA", "restoreB"} => Copied(k, t1)
    <3>1. j.hand \subseteq Files
      BY Apart DEF Jobs
    <3>2. k.pc \in {"restoreA", "restoreB"} => Copied(j, t)
      BY <2>1 DEF Good, Progress
    <3>3. Copied(j, t) => Copied(k, t1)
      BY <2>1, <3>1 DEF Copied
    <3> QED BY <3>2, <3>3
  <2>9. Undone(k) /\ k.pc # "restoreA" =>
          \A p \in IF declared THEN Surface ELSE Files : AsBefore(k, t1, p)
    BY <2>1, <2>2, <2>3, Apart DEF Good, Progress
  <2>10. Undone(k) /\ k.saved.where[From] = "orig" =>
           w1[From] # None \/ k.told \/ From \in k.touched
    BY <2>1, <2>3 DEF Good, Progress
  <2>11. Progress(k, t1, w1)
    BY <2>6, <2>7, <2>8, <2>9, <2>10, <2>12 DEF Progress
  <2> QED BY <2>5, <2>11 DEF Good
<1>3. CASE j.pc \in Companion /\ k = [j EXCEPT !.during = j.during \cup Q]
  <2>1. /\ k.during = j.during \cup Q /\ k.pc = j.pc /\ k.window = j.window
        /\ k.before = j.before
    BY <1>3 DEF Jobs
  <2>2. Witnessed(k, t1)
    BY <2>1 DEF Good, Witnessed
  <2>3. Progress(k, t1, w1)
    BY <1>3, <2>1 DEF Progress, Undone, Undoing, Companion
  <2> QED BY <2>2, <2>3 DEF Good
<1> QED BY <1>1, <1>2, <1>3

\* Whether there is a scope never changes.
LEMMA GoodNext ==
  ASSUME UNCHANGED declared, \A v \in Updates : job'[v] # Idle => Good(job'[v], tree', where')
  PROVE  (\A v \in Updates : job[v] # Idle => Good(job[v], tree, where))'
BY DEF Good, Witnessed, Progress, AsBefore, AsSeen, Copied, Undone

\* A step that writes to Q keeps the invariant if it does for the update that takes it.
LEMMA WriteStep ==
  ASSUME Inv, World', NEW u \in Updates, NEW j \in {Idle} \cup Jobs, UNCHANGED declared,
         NEW Q \in SUBSET (Files \cup Places),
         \A p \in Files : p \in Q \/ tree'[p] = tree[p],
         From \in Q \/ where'[From] = where[From],
         job' = [Noted(Q) EXCEPT ![u] = j],
         j # Idle => Good(j, tree', where')
  PROVE  Inv'
<1>1. TypeOK
  BY DEF Inv
<1>2. Noted(Q) \in [Updates -> {Idle} \cup Jobs]
  BY <1>1, NotedIs DEF Noted
<1>3. job' \in [Updates -> {Idle} \cup Jobs] /\ job'[u] = j
  BY <1>2
<1>4. ASSUME NEW v \in Updates, v # u, job'[v] # Idle PROVE Good(job'[v], tree', where')
  <2>1. job'[v] = Noted(Q)[v]
    BY <1>2, <1>4
  <2>2. job[v] # Idle /\ job[v] \in Jobs /\ job'[v] \in Jobs
    BY <1>1, <1>4, <2>1, NotedIs DEF TypeOK
  <2>3. Good(job[v], tree, where)
    BY <2>2 DEF Inv
  <2> DEFINE i == job[v]
             k == job'[v]
  <2>4. \/ k = i /\ i.pc \notin Undoing \cup {"release"} \cup Companion
        \/ i.pc \in Undoing \cup {"release"} /\ k = Heard(i, Q)
        \/ i.pc \in Companion /\ k = [i EXCEPT !.during = i.during \cup Q]
    BY <1>1, <2>1, <2>2, NotedIs
  <2> QED BY <2>2, <2>3, <2>4, GoodStays
<1>5. \A v \in Updates : job'[v] # Idle => Good(job'[v], tree', where')
  BY <1>3, <1>4
<1> QED BY <1>3, <1>5, GoodNext DEF Inv, TypeOK, World

\* And so does one that writes nothing.
LEMMA QuietStep ==
  ASSUME Inv, World', NEW u \in Updates, NEW j \in {Idle} \cup Jobs,
         UNCHANGED <<declared, tree, where>>,
         job' = [job EXCEPT ![u] = j],
         j # Idle => Good(j, tree, where)
  PROVE  Inv'
<1>1. job' \in [Updates -> {Idle} \cup Jobs]
  BY DEF Inv, TypeOK
<1>2. \A v \in Updates : job'[v] # Idle => Good(job'[v], tree', where')
  BY <1>1 DEF Inv, TypeOK
<1> QED BY <1>1, <1>2, GoodNext DEF Inv, TypeOK, World

-----------------------------------------------------------------------------
(* What becomes of an update *)

\* Phases in which an update has nothing to undo yet, or no more.
Plain == Phases \ (Companion \cup Undoing \cup {"unmove", "whole", "release"})

LEMMA PlainPhases ==
  {"create", "write", "read", "unlink", "capture", "evict", "install", "protect", "observe", "verify"}
    \subseteq Plain
BY DEF Plain, Phases, Companion, Undoing

LEMMA PlainIsGood ==
  ASSUME NEW j \in Jobs, j.window \subseteq j.during,
         j.pc \in Plain \/ (j.pc = "release" /\ ~j.failed), NEW t, NEW w
  PROVE  Good(j, t, w)
BY DEF Good, Witnessed, Progress, Undone, Plain, Companion, Undoing

LEMMA FreshIs ==
  ASSUME NEW pc \in Phases
  PROVE  /\ Fresh(pc) \in Jobs /\ Fresh(pc).pc = pc /\ ~Fresh(pc).failed
         /\ Fresh(pc).window \subseteq Fresh(pc).during
<1>1. Blank \in Trees
  BY DEF Blank, Trees, Contents
<1>2. [l \in Places |-> None] \in Wheres
  BY DEF Wheres
<1>3. [tree |-> Blank, where |-> [l \in Places |-> None], inside |-> {}]
        \in [tree : Trees, where : Wheres, inside : SUBSET Dirs]
  BY <1>1, <1>2
<1> QED BY <1>1, <1>3 DEF Fresh, Jobs

LEMMA GoesTo ==
  ASSUME NEW j \in Jobs, NEW pc \in Phases
  PROVE  LET k == [j EXCEPT !.pc = pc]
         IN  /\ k \in Jobs /\ k.pc = pc
             /\ k.window = j.window /\ k.during = j.during /\ k.failed = j.failed
             /\ k.before = j.before
BY DEF Jobs

\* A failed update has done something and undone nothing.
LEMMA FailedIs ==
  ASSUME NEW j \in Jobs, j.window \subseteq j.during, NEW t, NEW w, declared \in BOOLEAN
  PROVE  Failed(j) \in Jobs /\ Good(Failed(j), t, w)
<1> DEFINE k == Failed(j)
<1>1. Blank \in Trees
  BY DEF Blank, Trees, Contents
<1>2. k \in Jobs
  BY <1>1 DEF Failed, Jobs, Phases
<1>3. /\ k.pc = IF declared THEN "unmove" ELSE "whole"
      /\ k.window = j.window /\ k.during = j.during
  BY DEF Failed, Jobs
<1>4. Good(k, t, w)
  BY <1>3 DEF Good, Witnessed, Progress, Undone, Companion, Undoing
<1> QED BY <1>2, <1>4

LEMMA UnsureIs ==
  ASSUME NEW j \in Jobs, j.window \subseteq j.during, NEW t, NEW w, declared \in BOOLEAN
  PROVE  Unsure(j) \in Jobs /\ Good(Unsure(j), t, w)
<1> DEFINE k == Unsure(j)
<1>1. Failed(j) \in Jobs
  BY FailedIs
<1>2. k \in Jobs /\ k.pc = Failed(j).pc /\ k.window = Failed(j).window /\ k.during = Failed(j).during
  BY <1>1 DEF Unsure, Jobs
<1>3. /\ k.pc = IF declared THEN "unmove" ELSE "whole"
      /\ k.window = j.window /\ k.during = j.during
  BY <1>2 DEF Failed, Jobs
<1>4. Good(k, t, w)
  BY <1>3 DEF Good, Witnessed, Progress, Undone, Companion, Undoing
<1> QED BY <1>2, <1>4

\* The update at hand.
LEMMA AtHand ==
  ASSUME Inv, NEW u \in Updates, job[u].pc # "idle"
  PROVE  /\ job[u] \in Jobs /\ Good(job[u], tree, where)
         /\ job[u].window \subseteq job[u].during /\ job[u] # Idle
BY IdleIsNoJob DEF Inv, TypeOK, Good, Witnessed

LEMMA InvWorld == Inv => World
BY DEF Inv, TypeOK, World

-----------------------------------------------------------------------------
(* Each step keeps the invariant: the lock *)

LEMMA BeginInv == ASSUME Inv, NEW u \in Updates, Begin(u) PROVE Inv'
<1>1. World'
  BY InvWorld, FaultType DEF Begin, disk, World
<1>2. PICK pc \in {"create", "capture"} : job' = [job EXCEPT ![u] = Fresh(pc)]
  BY DEF Begin
<1>3. pc \in Phases /\ pc \in Plain
  BY DEF Phases, Plain, Companion, Undoing
<1>4. Fresh(pc) \in Jobs /\ Good(Fresh(pc), tree, where)
  BY <1>3, FreshIs, PlainIsGood
<1>5. UNCHANGED <<declared, tree, where>>
  BY DEF Begin, disk
<1> QED BY <1>1, <1>2, <1>4, <1>5, QuietStep

\* A step that goes on to a plain phase and writes nothing.
LEMMA GoesPlain ==
  ASSUME Inv, World', NEW u \in Updates, job[u].pc # "idle", NEW pc \in Plain, Goes(u, pc),
         UNCHANGED <<declared, tree, where>>
  PROVE  Inv'
<1> DEFINE j == job[u]
           k == [j EXCEPT !.pc = pc]
<1>1. pc \in Phases
  BY DEF Plain
<1>2. j \in Jobs /\ j.window \subseteq j.during
  BY AtHand
<1>3. job' = [job EXCEPT ![u] = k]
  BY DEF Goes
<1>4. k \in Jobs /\ k.pc = pc /\ k.window = j.window /\ k.during = j.during
  BY <1>1, <1>2, GoesTo
<1> HIDE DEF k
<1>5. Good(k, tree, where)
  BY <1>2, <1>4, PlainIsGood
<1> QED BY <1>3, <1>4, <1>5, QuietStep

\* A step that ends the update.
LEMMA EndStep ==
  ASSUME Inv, World', NEW u \in Updates, job' = [job EXCEPT ![u] = Idle],
         UNCHANGED <<declared, tree, where>>
  PROVE  Inv'
BY QuietStep

LEMMA TriedAgain ==
  ASSUME NEW j \in Jobs, j.tries \in 0..1
  PROVE  LET k == [j EXCEPT !.pc = "create", !.tries = j.tries + 1]
         IN  k \in Jobs /\ k.pc = "create" /\ k.window = j.window /\ k.during = j.during
<1>1. \A n \in 0..2 : LET k == [j EXCEPT !.pc = "create", !.tries = n]
                       IN  k \in Jobs /\ k.pc = "create" /\ k.window = j.window /\ k.during = j.during
  BY DEF Jobs, Phases
<1>2. j.tries + 1 \in 0..2
  OBVIOUS
<1> QED BY <1>1, <1>2

LEMMA AgainInv ==
  ASSUME Inv, World', NEW u \in Updates, job[u].pc # "idle", Again(u),
         UNCHANGED <<declared, tree, where>>
  PROVE  Inv'
<1> DEFINE j == job[u]
           k == [j EXCEPT !.pc = "create", !.tries = j.tries + 1]
<1>1. CASE Last(u)
  BY <1>1, EndStep DEF Again
<1>2. CASE ~Last(u)
  <2>5. j \in Jobs /\ j.window \subseteq j.during
    BY AtHand
  <2>1. j \in Jobs /\ j.tries \in 0..1
    <3>1. j.tries \in 0..2
      BY <2>5 DEF Jobs
    <3>2. j.tries # 2
      BY <1>2 DEF Last
    <3> QED BY <2>5, <3>1, <3>2
  <2>2. k \in Jobs /\ k.pc = "create" /\ k.window = j.window /\ k.during = j.during
    BY <2>1, TriedAgain
  <2>4. job' = [job EXCEPT ![u] = k]
    BY <1>2 DEF Again
  <2> HIDE DEF k
  <2>3. Good(k, tree, where)
    BY <2>2, <2>5, PlainIsGood, PlainPhases
  <2> QED BY <2>2, <2>3, <2>4, QuietStep
<1> QED BY <1>1, <1>2

LEMMA LockInv ==
  ASSUME Inv, NEW u \in Updates, Create(u) \/ Write(u) \/ Read(u) \/ Unlink(u)
  PROVE  Inv'
<1> USE DEF At
<1>1. CASE Create(u)
  <2>1. World'
    BY <1>1, InvWorld DEF Create, NoLock, disk, World
  <2>2. Goes(u, "write") \/ Goes(u, "read")
    BY <1>1 DEF Create
  <2> QED BY <1>1, <2>1, <2>2, GoesPlain, PlainPhases DEF Create, disk
<1>2. CASE Write(u)
  <2>1. CASE Goes(u, "capture") /\ Fault /\ lock' = NoLock
    <3>1. World'
      BY <1>2, <2>1, InvWorld, FaultType DEF Write, NoLock, disk, World
    <3> QED BY <1>2, <2>1, <3>1, GoesPlain, PlainPhases DEF Write, disk
  <2>2. CASE /\ lock' = IF lock.by = u THEN [lock EXCEPT !.written = TRUE] ELSE lock
             /\ job' = [job EXCEPT ![u].pc = "capture", ![u].holds = TRUE]
             /\ UNCHANGED left
    <3> DEFINE j == job[u]
               k == [j EXCEPT !.pc = "capture", !.holds = TRUE]
    <3>1. World'
      BY <1>2, <2>2, InvWorld DEF Write, disk, World
    <3>2. j \in Jobs
      BY <1>2, AtHand DEF Write
    <3>3. k \in Jobs /\ k.pc = "capture" /\ k.window = j.window /\ k.during = j.during
      BY <3>2 DEF Jobs, Phases
    <3>4. Good(k, tree, where)
      BY <1>2, <3>3, AtHand, PlainIsGood, PlainPhases DEF Write
    <3>5. job' = [job EXCEPT ![u] = k]
      BY <2>2, <3>2 DEF Inv, TypeOK
    <3> QED BY <1>2, <3>1, <3>3, <3>4, <3>5, QuietStep DEF Write, disk
  <2> QED BY <1>2, <2>1, <2>2 DEF Write
<1>3. CASE Read(u)
  <2>1. World'
    BY <1>3, InvWorld DEF Read, disk, World
  <2>2. Again(u) \/ job' = [job EXCEPT ![u] = Idle] \/ Goes(u, "unlink")
    BY <1>3 DEF Read
  <2> QED BY <1>3, <2>1, <2>2, GoesPlain, AgainInv, EndStep, PlainPhases DEF Read, disk
<1>4. CASE Unlink(u)
  <2>1. World'
    BY <1>4, InvWorld DEF Unlink, NoLock, disk, World
  <2> QED BY <1>4, <2>1, AgainInv DEF Unlink, disk
<1> QED BY <1>1, <1>2, <1>3, <1>4

LEMMA OverInv ==
  ASSUME Inv, NEW u \in Updates, Release(u) \/ Kill(u)
  PROVE  Inv'
<1>1. World'
  <2>1. CASE Release(u)
    BY <2>1, InvWorld DEF Release, NoLock, disk, World
  <2>2. CASE Kill(u)
    <3>1. lock' \in [by : Updates \cup {None, Dead}, written : BOOLEAN, old : BOOLEAN]
      BY <2>2, InvWorld DEF Kill, World
    <3>2. left' \in [runs : Nat, edits : Nat, faults : Nat]
      BY <2>2, InvWorld, FaultType DEF Kill
    <3> QED BY <2>2, <3>1, <3>2, InvWorld DEF Kill, disk, World
  <2> QED BY <2>1, <2>2
<1>2. job' = [job EXCEPT ![u] = Idle] /\ UNCHANGED <<declared, tree, where>>
  BY DEF Release, Kill, disk
<1> QED BY <1>1, <1>2, EndStep

-----------------------------------------------------------------------------
(* The update itself *)

\* A step that fails, having written to Q.
LEMMA FailsStep ==
  ASSUME Inv, World', NEW u \in Updates, job[u].pc # "idle", UNCHANGED declared,
         NEW Q \in SUBSET (Files \cup Places),
         \A p \in Files : p \in Q \/ tree'[p] = tree[p],
         From \in Q \/ where'[From] = where[From],
         Becomes(u, Failed(job[u]), Q)
  PROVE  Inv'
<1>1. job[u] \in Jobs /\ job[u].window \subseteq job[u].during /\ declared \in BOOLEAN
  BY AtHand, InvWorld DEF World
<1>2. Failed(job[u]) \in Jobs /\ Good(Failed(job[u]), tree', where')
  BY <1>1, FailedIs
<1> QED BY <1>2, WriteStep DEF Becomes

\* A step that fails without writing anything.
LEMMA FailsQuietly ==
  ASSUME Inv, World', NEW u \in Updates, NEW j \in Jobs, j.window \subseteq j.during,
         UNCHANGED <<declared, tree, where>>,
         \/ job' = [job EXCEPT ![u] = Failed(j)]
         \/ job' = [job EXCEPT ![u] = Unsure(j)]
  PROVE  Inv'
<1>1. declared \in BOOLEAN
  BY InvWorld DEF World
<1>2. Failed(j) \in Jobs /\ Good(Failed(j), tree, where)
  BY <1>1, FailedIs
<1>3. Unsure(j) \in Jobs /\ Good(Unsure(j), tree, where)
  BY <1>1, UnsureIs
<1>4. CASE job' = [job EXCEPT ![u] = Failed(j)]
  BY <1>2, <1>4, QuietStep
<1>5. CASE job' = [job EXCEPT ![u] = Unsure(j)]
  BY <1>3, <1>5, QuietStep
<1> QED BY <1>4, <1>5

\* A step that goes on to a plain phase, having written to Q.
LEMMA WritesPlain ==
  ASSUME Inv, World', NEW u \in Updates, job[u].pc # "idle", UNCHANGED declared,
         NEW Q \in SUBSET (Files \cup Places), NEW pc \in Plain,
         \A p \in Files : p \in Q \/ tree'[p] = tree[p],
         From \in Q \/ where'[From] = where[From],
         Becomes(u, [job[u] EXCEPT !.pc = pc], Q)
  PROVE  Inv'
<1> DEFINE j == job[u]
           k == [j EXCEPT !.pc = pc]
<1>1. pc \in Phases
  BY DEF Plain
<1>2. j \in Jobs /\ j.window \subseteq j.during
  BY AtHand
<1>3. job' = [Noted(Q) EXCEPT ![u] = k]
  BY DEF Becomes
<1>4. k \in Jobs /\ k.pc = pc /\ k.window = j.window /\ k.during = j.during
  BY <1>1, <1>2, GoesTo
<1> HIDE DEF k
<1>5. Good(k, tree', where')
  BY <1>2, <1>4, PlainIsGood
<1> QED BY <1>3, <1>4, <1>5, WriteStep

LEMMA OverIs ==
  ASSUME NEW j \in Jobs, NEW t, NEW w
  PROVE  Over(j) \in Jobs /\ Good(Over(j), t, w)
<1> DEFINE f == Fresh("release")
           k == Over(j)
<1>1. f \in Jobs /\ f.pc = "release" /\ ~f.failed /\ f.window \subseteq f.during
  BY FreshIs DEF Phases
<1>2. j.holds \in BOOLEAN
  BY DEF Jobs
<1>3. k = [f EXCEPT !.holds = j.holds]
  BY DEF Over
<1> HIDE DEF f, k
<1>4. /\ k \in Jobs /\ k.pc = f.pc /\ k.failed = f.failed
      /\ k.window = f.window /\ k.during = f.during
  BY <1>1, <1>2, <1>3 DEF Jobs
<1> QED BY <1>1, <1>4, PlainIsGood DEF k

LEMMA CaptureInv == ASSUME Inv, NEW u \in Updates, Capture(u) PROVE Inv'
<1> DEFINE j == job[u]
           s == [tree |-> tree, where |-> where, inside |-> inside]
           k == [j EXCEPT !.pc = "evict", !.saved = s]
<1>1. World' /\ UNCHANGED <<declared, tree, where>> /\ j.pc # "idle"
  BY InvWorld, UseType DEF Capture, At, disk, World
<1>2. j \in Jobs /\ j.window \subseteq j.during
  BY <1>1, AtHand
<1>3. s \in [tree : Trees, where : Wheres, inside : SUBSET Dirs]
  BY InvWorld DEF World
<1>4. CASE Becomes(u, k, {})
  <2> HIDE DEF s
  <2>1. k \in Jobs /\ k.pc = "evict" /\ k.window = j.window /\ k.during = j.during
    BY <1>2, <1>3 DEF Jobs, Phases
  <2>2. job' = [Noted({}) EXCEPT ![u] = k]
    BY <1>4 DEF Becomes
  <2> HIDE DEF k
  <2>3. Good(k, tree', where')
    BY <1>2, <2>1, PlainIsGood, PlainPhases
  <2> QED BY <1>1, <2>1, <2>2, <2>3, WriteStep
<1>5. CASE job' = [job EXCEPT ![u] = Over(j)]
  BY <1>1, <1>2, <1>5, OverIs, QuietStep
<1> QED BY <1>4, <1>5 DEF Capture

LEMMA EvictInv == ASSUME Inv, NEW u \in Updates, Evict(u) PROVE Inv'
<1>1. PICK P \in SUBSET (Surface \ (Kept \cup Scripts)) :
        /\ tree' = [p \in Files |-> IF p \in P THEN None ELSE tree[p]]
        /\ \/ Becomes(u, [job[u] EXCEPT !.pc = "install"], P)
           \/ Becomes(u, Failed(job[u]), P)
  BY DEF Evict
<1>2. tree' \in Trees
  BY <1>1, InvWorld DEF World, Trees, Contents
<1>3. World' /\ UNCHANGED <<declared, where>> /\ job[u].pc # "idle"
  BY <1>2, InvWorld DEF Evict, At, World
<1>4. P \in SUBSET (Files \cup Places) /\ \A p \in Files : p \in P \/ tree'[p] = tree[p]
  BY <1>1 DEF Files
<1> QED BY <1>1, <1>3, <1>4, FailsStep, WritesPlain, PlainPhases

LEMMA RelocatedType == ASSUME where \in Wheres PROVE Relocated \subseteq Wheres
BY DEF Relocated, Wheres, Dirs, Places

LEMMA InstallInv == ASSUME Inv, NEW u \in Updates, Install(u) PROVE Inv'
<1>1. PICK P \in SUBSET Surface, Q \in SUBSET Surface :
        /\ tree' = [p \in Files |-> IF p \in P THEN "new" ELSE IF p \in Q THEN None ELSE tree[p]]
        /\ where' \in Relocated
        /\ \/ Becomes(u, [job[u] EXCEPT !.pc = "protect"], P \cup Q \cup Moved)
           \/ Becomes(u, Failed(job[u]), P \cup Q \cup Moved)
  BY DEF Install
<1> DEFINE R == P \cup Q \cup Moved
<1>2. tree' \in Trees
  BY <1>1, InvWorld DEF World, Trees, Contents
<1>3. where' \in Wheres
  BY <1>1, InvWorld, RelocatedType DEF World
<1>4. World' /\ UNCHANGED declared /\ job[u].pc # "idle"
  BY <1>2, <1>3, InvWorld DEF Install, At, World
<1>5. /\ R \in SUBSET (Files \cup Places) /\ \A p \in Files : p \in R \/ tree'[p] = tree[p]
      /\ From \in R \/ where'[From] = where[From]
  BY <1>1, Apart DEF Files, Moved
<1> QED BY <1>1, <1>4, <1>5, FailsStep, WritesPlain, PlainPhases

LEMMA ProtectInv == ASSUME Inv, NEW u \in Updates, Protect(u) PROVE Inv'
<1> DEFINE t == Protected(tree, job[u].saved.tree)
<1>1. tree' = t /\ Becomes(u, [job[u] EXCEPT !.pc = "observe"], Changed(t))
  BY DEF Protect
<1>2. job[u].pc # "idle" /\ UNCHANGED <<declared, where>>
  BY DEF Protect, At
<1>3. job[u].saved.tree \in Trees
  BY <1>2, AtHand DEF Jobs
<1>4. t \in Trees
  BY <1>3, InvWorld DEF World, Trees, Protected
<1>5. World'
  BY <1>1, <1>4, InvWorld DEF Protect, World
<1>6. /\ Changed(t) \in SUBSET (Files \cup Places)
      /\ \A p \in Files : p \in Changed(t) \/ tree'[p] = tree[p]
  BY <1>1 DEF Changed
<1> QED BY <1>1, <1>2, <1>5, <1>6, WritesPlain, PlainPhases

LEMMA VerifyInv == ASSUME Inv, NEW u \in Updates, Verify(u) PROVE Inv'
<1>1. World' /\ UNCHANGED <<declared, tree, where>> /\ job[u].pc # "idle"
  BY InvWorld DEF Verify, At, disk, World
<1>2. job[u] \in Jobs /\ job[u].window \subseteq job[u].during
  BY <1>1, AtHand
<1>3. job' = [job EXCEPT ![u] = Over(job[u])] \/ job' = [job EXCEPT ![u] = Failed(job[u])]
  BY DEF Verify
<1> QED BY <1>1, <1>2, <1>3, OverIs, QuietStep, FailsQuietly

-----------------------------------------------------------------------------
(* The companion *)

\* While the companion is at work nothing has been undone.
LEMMA AtWorkIsGood ==
  ASSUME NEW j \in Jobs, j.pc \in Companion, NEW t, NEW w, Witnessed(j, t)
  PROVE  Good(j, t, w)
BY DEF Good, Progress, Undone, Companion, Undoing

\* The window holds no more than was written meanwhile.
LEMMA WindowIs ==
  ASSUME Inv, NEW u \in Updates, job[u].pc \in Companion
  PROVE  /\ job[u] \in Jobs /\ job[u].window \subseteq job[u].during
         /\ Window(job[u]) \subseteq Owned /\ Window(job[u]) \subseteq job[u].during
         /\ \A p \in Files : p \in job[u].during \/ tree[p] = job[u].before[p]
<1>1. job[u].pc # "idle"
  BY DEF Companion
<1>2. job[u] \in Jobs /\ Good(job[u], tree, where)
  BY <1>1, AtHand
<1> QED BY <1>2 DEF Good, Witnessed, Window, Changed

\* What is added to the window.
LEMMA WindowType ==
  ASSUME NEW j \in Jobs, NEW W \in SUBSET Owned, W \subseteq j.during
  PROVE  LET k == [j EXCEPT !.window = W]
         IN  /\ k \in Jobs /\ k.pc = j.pc /\ k.window = W /\ k.during = j.during
             /\ k.before = j.before
BY DEF Jobs

\* A step of the companion that neither writes nor fails.
LEMMA AtWorkStep ==
  ASSUME Inv, World', NEW u \in Updates, NEW k \in Jobs, k.pc \in Companion, Witnessed(k, tree),
         UNCHANGED <<declared, tree, where>>,
         job' = [job EXCEPT ![u] = k]
  PROVE  Inv'
BY AtWorkIsGood, QuietStep

LEMMA ObserveInv == ASSUME Inv, NEW u \in Updates, Observe(u) PROVE Inv'
<1> DEFINE j == job[u]
           k == [j EXCEPT !.pc = "apply", !.before = tree]
<1>1. World' /\ UNCHANGED <<declared, tree, where>> /\ j.pc # "idle"
  BY InvWorld DEF Observe, At, disk, World
<1>2. j \in Jobs /\ j.window \subseteq j.during
  BY <1>1, AtHand
<1>3. CASE job' = [job EXCEPT ![u].pc = "apply", ![u].before = tree]
  <2>1. tree \in Trees
    BY InvWorld DEF World
  <2>2. /\ k \in Jobs /\ k.pc = "apply" /\ k.before = tree
        /\ k.window = j.window /\ k.during = j.during
    BY <1>2, <2>1 DEF Jobs, Phases
  <2>3. job' = [job EXCEPT ![u] = k]
    BY <1>2, <1>3 DEF Inv, TypeOK
  <2> HIDE DEF k
  <2>4. Witnessed(k, tree) /\ k.pc \in Companion
    BY <1>2, <2>2 DEF Witnessed, Companion
  <2> QED BY <1>1, <2>2, <2>3, <2>4, AtWorkStep
<1>4. CASE job' = [job EXCEPT ![u] = Failed(j)]
  BY <1>1, <1>2, <1>4, FailsQuietly
<1> QED BY <1>3, <1>4 DEF Observe

\* The companion writes to P.
LEMMA ApplyWrites ==
  ASSUME Inv, NEW u \in Updates, Apply(u), NEW P \in SUBSET (Surface \cup Owned),
         tree' = [p \in Files |-> IF p \in P THEN "new" ELSE tree[p]],
         UNCHANGED <<declared, where, left>>,
         Becomes(u, [job[u] EXCEPT !.pc = "inventory", !.during = job[u].during \cup P], P)
  PROVE  Inv'
<1> DEFINE j == job[u]
           k == [j EXCEPT !.pc = "inventory", !.during = j.during \cup P]
<1>1. job[u].pc \in Companion
  BY DEF Apply, At, Companion
<1>2. /\ j \in Jobs /\ j.window \subseteq j.during
      /\ \A p \in Files : p \in j.during \/ tree[p] = j.before[p]
  BY <1>1, WindowIs
<1>3. tree' \in Trees
  BY InvWorld DEF World, Trees, Contents
<1>4. World'
  BY <1>3, InvWorld DEF Apply, World
<1>5. P \subseteq Files
  BY DEF Files
<1>6. /\ k \in Jobs /\ k.pc = "inventory" /\ k.window = j.window /\ k.before = j.before
      /\ k.during = j.during \cup P
  BY <1>2, <1>5 DEF Jobs, Phases
<1>7. job' = [Noted(P) EXCEPT ![u] = k]
  BY DEF Becomes
<1> HIDE DEF k
<1>8. Witnessed(k, tree')
  BY <1>2, <1>6 DEF Witnessed
<1>9. Good(k, tree', where')
  BY <1>6, <1>8, AtWorkIsGood DEF Companion
<1>10. P \in SUBSET (Files \cup Places) /\ \A p \in Files : p \in P \/ tree'[p] = tree[p]
  BY <1>5
<1> QED BY <1>4, <1>6, <1>7, <1>9, <1>10, WriteStep

LEMMA ApplyInv == ASSUME Inv, NEW u \in Updates, Apply(u) PROVE Inv'
<1> DEFINE j == job[u]
           k == [j EXCEPT !.window = Window(j)]
<1>1. job[u].pc \in Companion /\ job[u].pc # "idle"
  BY DEF Apply, At, Companion
<1>2. /\ j \in Jobs /\ j.window \subseteq j.during
      /\ Window(j) \subseteq Owned /\ Window(j) \subseteq j.during
  BY <1>1, WindowIs
<1>3. k \in Jobs /\ k.window \subseteq k.during
  BY <1>2, WindowType
<1>4. \/ /\ tree' = tree
         /\ \/ UNCHANGED left /\ \/ job' = [job EXCEPT ![u] = Failed(k)]
                                 \/ job' = [job EXCEPT ![u] = Failed(j)]
                                 \/ Goes(u, "verify")
            \/ Fault /\ job' = [job EXCEPT ![u] = Unsure(j)]
      \/ \E P \in SUBSET (Surface \cup Owned) :
           /\ UNCHANGED left
           /\ tree' = [p \in Files |-> IF p \in P THEN "new" ELSE tree[p]]
           /\ Becomes(u, [j EXCEPT !.pc = "inventory", !.during = j.during \cup P], P)
  BY DEF Apply
<1>5. CASE tree' = tree
  <2>1. World'
    BY <1>4, <1>5, InvWorld, FaultType DEF Apply, World
  <2>2. UNCHANGED <<declared, tree, where>>
    BY <1>5 DEF Apply
  <2>3. CASE job' = [job EXCEPT ![u] = Failed(k)]
    <3> HIDE DEF k
    <3> QED BY <1>3, <2>1, <2>2, <2>3, FailsQuietly
  <2>4. CASE job' = [job EXCEPT ![u] = Failed(j)] \/ job' = [job EXCEPT ![u] = Unsure(j)]
    BY <1>2, <2>1, <2>2, <2>4, FailsQuietly
  <2>5. CASE Goes(u, "verify")
    BY <1>1, <2>1, <2>2, <2>5, GoesPlain, PlainPhases
  <2> QED BY <1>4, <2>3, <2>4, <2>5, ApplyWrites DEF Apply
<1>6. CASE tree' # tree
  BY <1>4, <1>6, ApplyWrites DEF Apply
<1> QED BY <1>5, <1>6

LEMMA InventoryInv == ASSUME Inv, NEW u \in Updates, Inventory(u) PROVE Inv'
<1> DEFINE j == job[u]
           k == [j EXCEPT !.window = Window(j), !.before = tree]
           i == [k EXCEPT !.pc = "prove"]
<1>1. job[u].pc \in Companion
  BY DEF Inventory, At, Companion
<1>2. /\ j \in Jobs /\ j.window \subseteq j.during
      /\ Window(j) \in SUBSET Owned /\ Window(j) \subseteq j.during
  BY <1>1, WindowIs
<1>3. World' /\ UNCHANGED <<declared, tree, where>>
  BY InvWorld, FaultType DEF Inventory, disk, World
<1>4. tree \in Trees
  BY InvWorld DEF World
<1>5. k \in Jobs /\ k.window = Window(j) /\ k.during = j.during /\ k.before = tree
  BY <1>2, <1>4 DEF Jobs
<1>6. k.window \subseteq k.during
  BY <1>2, <1>5
<1>7. CASE job' = [job EXCEPT ![u] = i]
  <2> HIDE DEF k
  <2>1. /\ i \in Jobs /\ i.pc = "prove" /\ i.window = k.window /\ i.during = k.during
        /\ i.before = k.before
    BY <1>5, GoesTo DEF Phases
  <2> HIDE DEF i
  <2>2. Witnessed(i, tree)
    BY <1>5, <1>6, <2>1 DEF Witnessed
  <2> QED BY <1>3, <1>7, <2>1, <2>2, AtWorkStep DEF Companion
<1>8. CASE job' = [job EXCEPT ![u] = Failed(k)]
  <2> HIDE DEF k
  <2> QED BY <1>3, <1>5, <1>6, <1>8, FailsQuietly
<1>9. CASE job' = [job EXCEPT ![u] = Unsure(j)]
  BY <1>2, <1>3, <1>9, FailsQuietly
<1> QED BY <1>7, <1>8, <1>9 DEF Inventory

LEMMA ProveInv == ASSUME Inv, NEW u \in Updates, Prove(u) PROVE Inv'
<1> DEFINE j == job[u]
           W == j.window \cup Window(j)
           k == [j EXCEPT !.window = W]
<1>1. job[u].pc \in Companion /\ job[u].pc # "idle"
  BY DEF Prove, At, Companion
<1>2. /\ j \in Jobs /\ j.window \subseteq j.during
      /\ Window(j) \in SUBSET Owned /\ Window(j) \subseteq j.during
  BY <1>1, WindowIs
<1>3. World' /\ UNCHANGED <<declared, tree, where>>
  BY InvWorld, FaultType DEF Prove, disk, World
<1>4. W \in SUBSET Owned /\ W \subseteq j.during
  BY <1>2 DEF Jobs
<1>5. k \in Jobs /\ k.window \subseteq k.during
  <2> HIDE DEF W
  <2> QED BY <1>2, <1>4, WindowType
<1>6. \/ job' = [job EXCEPT ![u] = Failed(k)]
      \/ job' = [job EXCEPT ![u] = Failed(j)] \/ job' = [job EXCEPT ![u] = Unsure(j)]
      \/ Goes(u, "verify")
  BY DEF Prove
<1> HIDE DEF k
<1>7. CASE job' = [job EXCEPT ![u] = Failed(k)]
  BY <1>3, <1>5, <1>7, FailsQuietly
<1>8. CASE job' = [job EXCEPT ![u] = Failed(j)] \/ job' = [job EXCEPT ![u] = Unsure(j)]
  BY <1>2, <1>3, <1>8, FailsQuietly
<1>9. CASE Goes(u, "verify")
  BY <1>1, <1>3, <1>9, GoesPlain, PlainPhases
<1> QED BY <1>6, <1>7, <1>8, <1>9

-----------------------------------------------------------------------------
(* The rollback *)

LEMMA LookingIs ==
  ASSUME NEW j \in Jobs, tree \in Trees, NEW pc \in Phases, NEW P \in SUBSET (Surface \cup Owned)
  PROVE  LET k == Looking(j, pc, P)
         IN  /\ k \in Jobs /\ k.pc = pc /\ k.current = tree /\ k.todo = P /\ k.hand = {}
             /\ k.window = j.window /\ k.during = j.during /\ k.all = j.all
             /\ k.failed = j.failed /\ k.told = j.told /\ k.missed = j.missed
             /\ k.touched = j.touched /\ k.saved = j.saved
BY DEF Looking, Jobs

LEMMA UnmoveInv == ASSUME Inv, NEW u \in Updates, Unmove(u) PROVE Inv'
<1> DEFINE j == job[u]
           lost == j.saved.where[From] = "orig" /\ where[From] = None
           found == lost /\ where[To] = "orig"
           i == Looking(j, "restoreA", Surface)
           k == [i EXCEPT !.touched = {}, !.told = lost /\ ~found]
<1>1. /\ j.pc = "unmove" /\ UNCHANGED <<declared, tree>>
      /\ where' = IF found THEN [where EXCEPT ![From] = "orig", ![To] = None] ELSE where
      /\ Becomes(u, k, Moved)
  BY DEF Unmove, At
<1>2. j \in Jobs /\ Good(j, tree, where) /\ j.window \subseteq j.during
  BY <1>1, AtHand
<1>3. tree \in Trees /\ where \in Wheres
  BY InvWorld DEF World
<1>4. where' \in Wheres
  BY <1>1, <1>3 DEF Wheres, Dirs
<1>5. World'
  BY <1>4, InvWorld DEF Unmove, World
<1>6. /\ i \in Jobs /\ i.pc = "restoreA" /\ i.current = tree /\ i.todo = Surface /\ i.hand = {}
      /\ i.window = j.window /\ i.during = j.during /\ i.saved = j.saved
  BY <1>2, <1>3, LookingIs DEF Phases
<1>7. /\ k \in Jobs /\ k.pc = "restoreA" /\ k.current = tree /\ k.todo = Surface /\ k.hand = {}
      /\ k.window = j.window /\ k.during = j.during /\ k.saved = j.saved
      /\ k.told = (lost /\ ~found)
  <2> HIDE DEF i, lost, found
  <2>1. \A b \in BOOLEAN :
          LET l == [i EXCEPT !.touched = {}, !.told = b]
          IN  /\ l \in Jobs /\ l.pc = i.pc /\ l.current = i.current /\ l.todo = i.todo
              /\ l.hand = i.hand /\ l.window = i.window /\ l.during = i.during /\ l.saved = i.saved
              /\ l.told = b
    BY <1>6 DEF Jobs
  <2>2. (lost /\ ~found) \in BOOLEAN
    OBVIOUS
  <2> QED BY <1>6, <2>1, <2>2
<1> HIDE DEF i, k
<1>8. Witnessed(k, tree')
  BY <1>2, <1>7 DEF Witnessed, Companion
<1>9. declared
  BY <1>1, <1>2 DEF Good, Progress
<1>10. \A p \in Surface : AsSeen(k, tree', p)
  BY <1>1, <1>7 DEF AsSeen
<1>11. k.saved.where[From] = "orig" => where'[From] # None \/ k.told
  BY <1>1, <1>3, <1>7, UpdateAssumption DEF Wheres, Places, None
<1>12. Progress(k, tree', where')
  BY <1>7, <1>9, <1>10, <1>11 DEF Progress, Copied, Undone, Undoing
<1>13. Good(k, tree', where')
  BY <1>8, <1>12 DEF Good
<1>14. /\ Moved \in SUBSET (Files \cup Places)
       /\ From \in Moved \/ where'[From] = where[From]
       /\ \A p \in Files : p \in Moved \/ tree'[p] = tree[p]
  BY <1>1, Apart DEF Moved
<1>15. job' = [Noted(Moved) EXCEPT ![u] = k]
  BY <1>1 DEF Becomes
<1> QED BY <1>1, <1>5, <1>7, <1>13, <1>14, <1>15, WriteStep

\* A rollback under way.
LEMMA UnderWay ==
  ASSUME Inv, NEW u \in Updates, job[u].pc \in Undoing
  PROVE  /\ job[u] \in Jobs /\ Good(job[u], tree, where) /\ declared
         /\ job[u].pc # "idle" /\ tree \in Trees
         /\ job[u].saved.where[From] = "orig" =>
              where[From] # None \/ job[u].told \/ From \in job[u].touched
<1>1. job[u].pc # "idle"
  BY DEF Undoing
<1>2. job[u] \in Jobs /\ Good(job[u], tree, where)
  BY <1>1, AtHand
<1> QED BY <1>1, <1>2, InvWorld DEF Good, Progress, Undone, World

\* What a rollback remembers when it takes a file from its list, and in hand.
Skipped(j, p) == [j EXCEPT !.todo = j.todo \ {p}]
Taken(j, p, S, B) == [Skipped(j, p) EXCEPT !.hand = {p}, !.stash = S, !.bare = B]

LEMMA SkippedIs ==
  ASSUME NEW j \in Jobs, NEW p
  PROVE  LET k == Skipped(j, p)
         IN  /\ k \in Jobs /\ k.pc = j.pc /\ k.todo = j.todo \ {p} /\ k.current = j.current
             /\ k.window = j.window /\ k.during = j.during /\ k.all = j.all
             /\ k.failed = j.failed /\ k.touched = j.touched /\ k.saved = j.saved
             /\ k.told = j.told /\ k.missed = j.missed /\ k.hand = j.hand
             /\ k.stash = j.stash /\ k.bare = j.bare
BY DEF Skipped, Jobs

\* That k is job j with a file in hand.
IsTaken(k, j, p, S, B) ==
  /\ k \in Jobs /\ k.pc = j.pc /\ k.todo = j.todo \ {p} /\ k.current = j.current
  /\ k.window = j.window /\ k.during = j.during /\ k.all = j.all
  /\ k.failed = j.failed /\ k.touched = j.touched /\ k.saved = j.saved
  /\ k.told = j.told /\ k.missed = j.missed /\ k.hand = {p}
  /\ k.stash = S /\ k.bare = B

LEMMA TakenIs ==
  ASSUME NEW j \in Jobs, NEW p \in Surface \cup Owned, NEW S \in SUBSET Files, NEW B \in SUBSET Files,
         NEW k, k = Taken(j, p, S, B)
  PROVE  IsTaken(k, j, p, S, B)
<1> DEFINE i == Skipped(j, p)
<1>1. /\ i \in Jobs /\ i.pc = j.pc /\ i.todo = j.todo \ {p} /\ i.current = j.current
      /\ i.window = j.window /\ i.during = j.during /\ i.all = j.all
      /\ i.failed = j.failed /\ i.touched = j.touched /\ i.saved = j.saved
      /\ i.told = j.told /\ i.missed = j.missed
  BY SkippedIs
<1>2. {p} \in SUBSET (Surface \cup Owned)
  OBVIOUS
<1> HIDE DEF i
<1>3. LET l == [i EXCEPT !.hand = {p}, !.stash = S, !.bare = B]
      IN  /\ l \in Jobs /\ l.pc = i.pc /\ l.todo = i.todo /\ l.current = i.current
          /\ l.window = i.window /\ l.during = i.during /\ l.all = i.all
          /\ l.failed = i.failed /\ l.touched = i.touched /\ l.saved = i.saved
          /\ l.told = i.told /\ l.missed = i.missed /\ l.hand = {p}
          /\ l.stash = S /\ l.bare = B
  BY <1>1, <1>2 DEF Jobs
<1>4. k = [i EXCEPT !.hand = {p}, !.stash = S, !.bare = B]
  BY DEF Taken, i
<1> QED BY <1>1, <1>3, <1>4 DEF IsTaken

\* A file is left as it is, or taken in hand, with or without a copy.
LEMMA SetAsideIs ==
  ASSUME Inv, NEW u \in Updates, NEW p \in Surface \cup Owned, NEW found, SetAside(u, p, found),
         job[u] \in Jobs
  PROVE  LET j == job[u]
         IN  \/ /\ found = j.saved.tree[p] /\ UNCHANGED left
                /\ job' = [job EXCEPT ![u] = Skipped(j, p)]
             \/ \E S \in SUBSET Files, B \in SUBSET Files :
                  /\ job' = [job EXCEPT ![u] = Taken(j, p, S, B)]
                  /\ left' = left \/ Fault
                  /\ tree[p] = "edit" => p \in S \cup B \/ found = None
<1> DEFINE j == job[u]
           i == Skipped(j, p)
           kept == IF found # None /\ tree[p] = "edit" THEN {p} ELSE {}
<1>1. /\ i.stash = j.stash /\ i.bare = j.bare /\ i.saved = j.saved /\ i \in Jobs
  BY SkippedIs
<1>2. p \in Files /\ j.stash \in SUBSET Files /\ j.bare \in SUBSET Files
  BY Apart DEF Jobs
<1>3. i = [j EXCEPT !.todo = j.todo \ {p}]
  BY DEF Skipped
<1>4. \/ /\ found = i.saved.tree[p] /\ UNCHANGED left /\ job' = [job EXCEPT ![u] = i]
      \/ /\ job' = [job EXCEPT ![u] = [[i EXCEPT !.hand = {p}] EXCEPT !.stash = [i EXCEPT !.hand = {p}].stash \cup kept]]
         /\ UNCHANGED left
      \/ /\ found # None /\ Fault
         /\ job' = [job EXCEPT ![u] = [[i EXCEPT !.hand = {p}] EXCEPT !.bare = {p}]]
  BY <1>3 DEF SetAside, Differs
<1> HIDE DEF i
<1>5. /\ [[i EXCEPT !.hand = {p}] EXCEPT !.stash = [i EXCEPT !.hand = {p}].stash \cup kept]
           = [i EXCEPT !.hand = {p}, !.stash = j.stash \cup kept, !.bare = j.bare]
      /\ [[i EXCEPT !.hand = {p}] EXCEPT !.bare = {p}]
           = [i EXCEPT !.hand = {p}, !.stash = j.stash, !.bare = {p}]
  <2> HIDE DEF kept
  <2> QED BY <1>1 DEF Jobs
<1>6. CASE found = i.saved.tree[p] /\ UNCHANGED left /\ job' = [job EXCEPT ![u] = i]
  BY <1>1, <1>6 DEF i
<1>7. CASE /\ job' = [job EXCEPT ![u] = [i EXCEPT !.hand = {p}, !.stash = j.stash \cup kept, !.bare = j.bare]]
           /\ UNCHANGED left
  <2>1. job' = [job EXCEPT ![u] = Taken(j, p, j.stash \cup kept, j.bare)]
    BY <1>7 DEF Taken, i
  <2>2. j.stash \cup kept \in SUBSET Files
    BY <1>2
  <2>3. tree[p] = "edit" => p \in (j.stash \cup kept) \cup j.bare \/ found = None
    OBVIOUS
  <2> HIDE DEF kept
  <2> QED BY <1>2, <1>7, <2>1, <2>2, <2>3
<1>8. CASE /\ job' = [job EXCEPT ![u] = [i EXCEPT !.hand = {p}, !.stash = j.stash, !.bare = {p}]]
           /\ Fault
  <2>1. job' = [job EXCEPT ![u] = Taken(j, p, j.stash, {p})]
    BY <1>8 DEF Taken, i
  <2>2. {p} \in SUBSET Files /\ p \in j.stash \cup {p}
    BY <1>2
  <2> QED BY <1>2, <1>8, <2>1, <2>2
<1> QED BY <1>4, <1>5, <1>6, <1>7, <1>8

\* A step of a rollback that takes a file keeps the invariant, if what it is to do next is right.
LEMMA SetAsideStep ==
  ASSUME Inv, NEW u \in Updates, NEW p \in Surface \cup Owned, NEW found, SetAside(u, p, found),
         job[u].pc # "idle", UNCHANGED <<declared, disk, lock>>,
         found = job[u].saved.tree[p] => Good(Skipped(job[u], p), tree, where),
         \A S \in SUBSET Files, B \in SUBSET Files :
           (tree[p] = "edit" => p \in S \cup B \/ found = None)
           => Good(Taken(job[u], p, S, B), tree, where)
  PROVE  Inv'
<1> DEFINE j == job[u]
<1>1. j \in Jobs
  BY AtHand
<1>2. World'
  <2>1. left' = left \/ Fault
    BY <1>1, SetAsideIs
  <2> QED BY <2>1, InvWorld, FaultType DEF World, disk
<1>3. UNCHANGED <<declared, tree, where>>
  BY DEF disk
<1>4. CASE found = j.saved.tree[p] /\ job' = [job EXCEPT ![u] = Skipped(j, p)]
  <2>1. Skipped(j, p) \in Jobs
    BY <1>1, SkippedIs
  <2> QED BY <1>2, <1>3, <1>4, <2>1, QuietStep
<1>5. CASE \E S \in SUBSET Files, B \in SUBSET Files :
             /\ job' = [job EXCEPT ![u] = Taken(j, p, S, B)]
             /\ tree[p] = "edit" => p \in S \cup B \/ found = None
  <2>1. PICK S \in SUBSET Files, B \in SUBSET Files :
          /\ job' = [job EXCEPT ![u] = Taken(j, p, S, B)]
          /\ tree[p] = "edit" => p \in S \cup B \/ found = None
    BY <1>5
  <2>2. Taken(j, p, S, B) \in Jobs
    BY <1>1, TakenIs DEF IsTaken
  <2>3. Good(Taken(j, p, S, B), tree, where)
    BY <2>1
  <2> QED BY <1>2, <1>3, <2>1, <2>2, <2>3, QuietStep
<1>6. \/ found = j.saved.tree[p] /\ job' = [job EXCEPT ![u] = Skipped(j, p)]
      \/ \E S \in SUBSET Files, B \in SUBSET Files :
           /\ job' = [job EXCEPT ![u] = Taken(j, p, S, B)]
           /\ left' = left \/ Fault
           /\ tree[p] = "edit" => p \in S \cup B \/ found = None
  BY <1>1, SetAsideIs
<1> QED BY <1>4, <1>5, <1>6

LEMMA RestoreAInv == ASSUME Inv, NEW u \in Updates, RestoreA(u) PROVE Inv'
<1> DEFINE j == job[u]
<1>1. j.pc = "restoreA" /\ j.hand = {} /\ UNCHANGED <<declared, disk, lock>>
  BY DEF RestoreA, At
<1>2. /\ j \in Jobs /\ Good(j, tree, where) /\ declared /\ j.pc # "idle" /\ tree \in Trees
      /\ j.saved.where[From] = "orig" => where[From] # None \/ j.told \/ From \in j.touched
  BY <1>1, UnderWay DEF Undoing
<1>3. /\ j.todo \subseteq Surface /\ j.window \subseteq j.during
      /\ \A p \in Surface : IF p \in j.todo THEN AsSeen(j, tree, p) ELSE AsBefore(j, tree, p)
  BY <1>1, <1>2 DEF Good, Progress, Witnessed
<1>4. CASE j.todo = {}
  <2> DEFINE P == IF j.all THEN Owned ELSE j.window
             k == Looking(j, "restoreB", P)
  <2>1. P \subseteq Owned
    BY <1>2 DEF Jobs
  <2>2. /\ k \in Jobs /\ k.pc = "restoreB" /\ k.current = tree /\ k.todo = P /\ k.hand = {}
        /\ k.window = j.window /\ k.during = j.during /\ k.all = j.all
        /\ k.failed = j.failed /\ k.told = j.told /\ k.missed = j.missed
        /\ k.touched = j.touched /\ k.saved = j.saved
    <3> HIDE DEF P
    <3> QED BY <1>2, <2>1, LookingIs DEF Phases
  <2>3. job' = [job EXCEPT ![u] = k] /\ UNCHANGED <<tree, where, left>>
    BY <1>1, <1>4 DEF RestoreA, disk
  <2>4. World'
    BY <1>1, <2>3, InvWorld DEF World, disk
  <2> HIDE DEF k
  <2>5. Witnessed(k, tree)
    BY <1>3, <2>2 DEF Witnessed, Companion
  <2>6. \A p \in k.todo : IF k.all THEN AsSeen(k, tree, p) ELSE p \in k.during
    BY <1>3, <2>2 DEF AsSeen
  <2>7. \A p \in Surface : AsBefore(k, tree, p)
    BY <1>3, <1>4, <2>2 DEF AsBefore
  <2>8. Good(k, tree, where)
    BY <1>2, <2>1, <2>2, <2>5, <2>6, <2>7 DEF Good, Progress, Copied, Undoing
  <2> QED BY <1>1, <2>2, <2>3, <2>4, <2>8, QuietStep
<1>5. CASE j.todo # {}
  <2>1. PICK p \in j.todo : SetAside(u, p, j.current[p])
    BY <1>5 DEF RestoreA
  <2>2. p \in Surface /\ p \in Files /\ AsSeen(j, tree, p)
    BY <1>3, Apart
  <2>3. ASSUME NEW k \in Jobs,
               k.pc = j.pc, k.todo = j.todo \ {p}, k.current = j.current,
               k.window = j.window, k.during = j.during, k.failed = j.failed,
               k.touched = j.touched, k.saved = j.saved, k.told = j.told, k.missed = j.missed,
               \/ k.hand = {} /\ j.current[p] = j.saved.tree[p]
               \/ k.hand = {p} /\ (tree[p] = "edit" => p \in k.stash \cup k.bare \/ j.current[p] = None)
        PROVE  Good(k, tree, where)
    <3>1. \A q \in Surface : IF q \in k.todo \cup k.hand THEN AsSeen(k, tree, q) ELSE AsBefore(k, tree, q)
      BY <1>3, <2>2, <2>3 DEF AsSeen, AsBefore
    <3>2. Witnessed(k, tree)
      BY <1>1, <1>3, <2>3 DEF Witnessed, Companion
    <3>3. Copied(k, tree)
      BY <2>2, <2>3 DEF Copied, AsSeen, None
    <3>4. k.saved.where[From] = "orig" => where[From] # None \/ k.told \/ From \in k.touched
      BY <1>2, <2>3
    <3>5. Progress(k, tree, where)
      BY <1>1, <1>2, <1>3, <2>2, <2>3, <3>1, <3>3, <3>4 DEF Progress, Undone, Undoing
    <3> QED BY <3>2, <3>5 DEF Good
  <2>4. j.current[p] = j.saved.tree[p] => Good(Skipped(j, p), tree, where)
    <3> DEFINE k == Skipped(j, p)
    <3>1. /\ k \in Jobs /\ k.pc = j.pc /\ k.todo = j.todo \ {p} /\ k.current = j.current
          /\ k.window = j.window /\ k.during = j.during /\ k.failed = j.failed
          /\ k.touched = j.touched /\ k.saved = j.saved /\ k.told = j.told /\ k.missed = j.missed
          /\ k.hand = {}
      BY <1>1, <1>2, SkippedIs
    <3> HIDE DEF k
    <3>2. j.current[p] = j.saved.tree[p] => Good(k, tree, where)
      BY <2>3, <3>1
    <3> QED BY <3>2 DEF k
  <2>5. ASSUME NEW S \in SUBSET Files, NEW B \in SUBSET Files,
               tree[p] = "edit" => p \in S \cup B \/ j.current[p] = None
        PROVE  Good(Taken(j, p, S, B), tree, where)
    <3> DEFINE k == Taken(j, p, S, B)
    <3>1. /\ k \in Jobs /\ k.pc = j.pc /\ k.todo = j.todo \ {p} /\ k.current = j.current
          /\ k.window = j.window /\ k.during = j.during /\ k.failed = j.failed
          /\ k.touched = j.touched /\ k.saved = j.saved /\ k.told = j.told /\ k.missed = j.missed
          /\ k.hand = {p} /\ k.stash = S /\ k.bare = B
      <4>1. p \in Surface \cup Owned /\ k = Taken(j, p, S, B)
        BY <2>2
      <4>2. IsTaken(k, j, p, S, B)
        BY <1>2, <4>1, TakenIs
      <4> HIDE DEF k, j
      <4> QED BY <4>2 DEF IsTaken
    <3> HIDE DEF k
    <3>2. Good(k, tree, where)
      BY <2>3, <2>5, <3>1
    <3> QED BY <3>2 DEF k
  <2> QED BY <1>1, <1>2, <2>1, <2>2, <2>4, <2>5, SetAsideStep
<1> QED BY <1>4, <1>5

LEMMA RestoreBInv == ASSUME Inv, NEW u \in Updates, RestoreB(u) PROVE Inv'
<1> DEFINE j == job[u]
<1>1. j.pc = "restoreB" /\ j.hand = {} /\ UNCHANGED <<declared, disk, lock>>
  BY DEF RestoreB, At
<1>2. /\ j \in Jobs /\ Good(j, tree, where) /\ declared /\ j.pc # "idle" /\ tree \in Trees
      /\ j.saved.where[From] = "orig" => where[From] # None \/ j.told \/ From \in j.touched
  BY <1>1, UnderWay DEF Undoing
<1>3. /\ j.todo \subseteq Owned /\ j.window \subseteq j.during
      /\ \A p \in j.todo : IF j.all THEN AsSeen(j, tree, p) ELSE p \in j.during
  BY <1>1, <1>2 DEF Good, Progress, Witnessed
<1>4. \A p \in Surface : AsBefore(j, tree, p)
  BY <1>1, <1>2 DEF Good, Progress, Undone, Undoing
<1>5. CASE j.todo = {}
  <2> DEFINE k == [j EXCEPT !.pc = "finish", !.current = Blank, !.window = {},
                            !.all = FALSE, !.during = {}]
  <2>1. Blank \in Trees
    BY DEF Blank, Trees, Contents
  <2>2. /\ k \in Jobs /\ k.pc = "finish" /\ k.window = {}
        /\ k.failed = j.failed /\ k.told = j.told /\ k.missed = j.missed
        /\ k.touched = j.touched /\ k.saved = j.saved
    BY <1>2, <2>1 DEF Jobs, Phases
  <2>3. job' = [job EXCEPT ![u] = k] /\ UNCHANGED <<tree, where, left>>
    BY <1>1, <1>5 DEF RestoreB, disk
  <2>4. World'
    BY <1>1, <2>3, InvWorld DEF World, disk
  <2> HIDE DEF k
  <2>5. Witnessed(k, tree)
    BY <2>2 DEF Witnessed, Companion
  <2>6. \A p \in Surface : AsBefore(k, tree, p)
    BY <1>4, <2>2 DEF AsBefore
  <2>7. Good(k, tree, where)
    BY <1>2, <2>2, <2>5, <2>6 DEF Good, Progress, Undoing
  <2> QED BY <1>1, <2>2, <2>3, <2>4, <2>7, QuietStep
<1>6. CASE j.todo # {}
  <2>1. PICK p \in j.todo : SetAside(u, p, IF j.all THEN j.current[p] ELSE tree[p])
    BY <1>6 DEF RestoreB
  <2>2. p \in Owned /\ p \in Files /\ IF j.all THEN AsSeen(j, tree, p) ELSE p \in j.during
    BY <1>3, Apart
  <2> DEFINE found == IF j.all THEN j.current[p] ELSE tree[p]
  <2>3. ASSUME NEW k \in Jobs,
               k.pc = j.pc, k.todo = j.todo \ {p}, k.current = j.current, k.all = j.all,
               k.window = j.window, k.during = j.during, k.failed = j.failed,
               k.touched = j.touched, k.saved = j.saved, k.told = j.told, k.missed = j.missed,
               \/ k.hand = {}
               \/ k.hand = {p} /\ (tree[p] = "edit" => p \in k.stash \cup k.bare \/ found = None)
        PROVE  Good(k, tree, where)
    <3>1. \A q \in Surface : AsBefore(k, tree, q)
      BY <1>4, <2>3 DEF AsBefore
    <3>2. \A q \in k.todo \cup k.hand : IF k.all THEN AsSeen(k, tree, q) ELSE q \in k.during
      BY <1>3, <2>2, <2>3 DEF AsSeen
    <3>3. Witnessed(k, tree)
      BY <1>1, <1>3, <2>3 DEF Witnessed, Companion
    <3>4. Copied(k, tree)
      BY <2>2, <2>3 DEF Copied, AsSeen, None
    <3>5. k.saved.where[From] = "orig" => where[From] # None \/ k.told \/ From \in k.touched
      BY <1>2, <2>3
    <3>6. k.todo \cup k.hand \subseteq Owned
      BY <1>3, <2>2, <2>3
    <3>7. Progress(k, tree, where)
      BY <1>1, <1>2, <2>3, <3>1, <3>2, <3>4, <3>5, <3>6 DEF Progress, Undone, Undoing
    <3> QED BY <3>3, <3>7 DEF Good
  <2>4. Good(Skipped(j, p), tree, where)
    <3> DEFINE k == Skipped(j, p)
    <3>1. /\ k \in Jobs /\ k.pc = j.pc /\ k.todo = j.todo \ {p} /\ k.current = j.current
          /\ k.window = j.window /\ k.during = j.during /\ k.failed = j.failed /\ k.all = j.all
          /\ k.touched = j.touched /\ k.saved = j.saved /\ k.told = j.told /\ k.missed = j.missed
          /\ k.hand = {}
      BY <1>1, <1>2, SkippedIs
    <3> HIDE DEF k, found
    <3>2. Good(k, tree, where)
      BY <2>3, <3>1
    <3> QED BY <3>2 DEF k
  <2>5. ASSUME NEW S \in SUBSET Files, NEW B \in SUBSET Files,
               tree[p] = "edit" => p \in S \cup B \/ found = None
        PROVE  Good(Taken(j, p, S, B), tree, where)
    <3> DEFINE k == Taken(j, p, S, B)
    <3>1. /\ k \in Jobs /\ k.pc = j.pc /\ k.todo = j.todo \ {p} /\ k.current = j.current
          /\ k.window = j.window /\ k.during = j.during /\ k.failed = j.failed /\ k.all = j.all
          /\ k.touched = j.touched /\ k.saved = j.saved /\ k.told = j.told /\ k.missed = j.missed
          /\ k.hand = {p} /\ k.stash = S /\ k.bare = B
      <4>1. p \in Surface \cup Owned /\ k = Taken(j, p, S, B)
        BY <2>2
      <4>2. IsTaken(k, j, p, S, B)
        BY <1>2, <4>1, TakenIs
      <4> HIDE DEF k, j
      <4> QED BY <4>2 DEF IsTaken
    <3> HIDE DEF k, found
    <3>2. Good(k, tree, where)
      BY <2>3, <2>5, <3>1
    <3> QED BY <3>2 DEF k
  <2>6. SetAside(u, p, found)
    BY <2>1
  <2> HIDE DEF found
  <2> QED BY <1>1, <1>2, <2>2, <2>4, <2>5, <2>6, SetAsideStep
<1> QED BY <1>5, <1>6

\* What a rollback remembers when it has overwritten the file in hand, or could not.
Emptied(j) == [j EXCEPT !.hand = {}, !.bare = {}, !.late = {}]
Missing(j, p) == [Emptied(j) EXCEPT !.missed = j.missed \cup {p}, !.told = TRUE]

LEMMA EmptiedIs ==
  ASSUME NEW j \in Jobs, NEW p \in Files, NEW k, k \in {Emptied(j), Missing(j, p)}
  PROVE  /\ k \in Jobs /\ k.pc = j.pc /\ k.todo = j.todo /\ k.current = j.current
         /\ k.window = j.window /\ k.during = j.during /\ k.all = j.all
         /\ k.failed = j.failed /\ k.touched = j.touched /\ k.saved = j.saved /\ k.hand = {}
         /\ j.told => k.told
         /\ j.missed \subseteq k.missed
         /\ k = Missing(j, p) => p \in k.missed
<1> DEFINE i == Emptied(j)
           l == Missing(j, p)
<1>1. /\ i \in Jobs /\ i.pc = j.pc /\ i.todo = j.todo /\ i.current = j.current
      /\ i.window = j.window /\ i.during = j.during /\ i.all = j.all
      /\ i.failed = j.failed /\ i.touched = j.touched /\ i.saved = j.saved
      /\ i.told = j.told /\ i.missed = j.missed /\ i.hand = {}
  BY DEF Emptied, Jobs
<1>2. l = [i EXCEPT !.missed = j.missed \cup {p}, !.told = TRUE]
  BY DEF Missing
<1> HIDE DEF i, l
<1>3. /\ l \in Jobs /\ l.pc = i.pc /\ l.todo = i.todo /\ l.current = i.current
      /\ l.window = i.window /\ l.during = i.during /\ l.all = i.all
      /\ l.failed = i.failed /\ l.touched = i.touched /\ l.saved = i.saved /\ l.hand = i.hand
      /\ l.told /\ l.missed = j.missed \cup {p}
  BY <1>1, <1>2 DEF Jobs
<1>4. k = i \/ k = l
  BY DEF i, l
<1>5. k = Missing(j, p) => k = l
  BY DEF l
<1> QED BY <1>1, <1>3, <1>4, <1>5

\* Only the file in hand is written.
LEMMA OverwriteIs ==
  ASSUME Inv, NEW u \in Updates, Overwrite(u)
  PROVE  LET j == job[u]
         IN  /\ \A q \in Files \ j.hand : tree'[q] = tree[q]
             /\ \E p \in j.hand : \E k \in {Emptied(j), Missing(j, p)} :
                  /\ Becomes(u, k, {p}) /\ tree' \in Trees
                  /\ \A q \in Files \ {p} : tree'[q] = tree[q]
                  /\ tree'[p] = j.saved.tree[p] \/ k = Missing(j, p)
                  /\ left' = left \/ Fault
<1> DEFINE j == job[u]
           i == [j EXCEPT !.hand = {}, !.bare = {}, !.late = {}]
<1>1. j.pc \in Undoing
  BY DEF Overwrite, At, Undoing
<1>2. j \in Jobs /\ tree \in Trees
  BY <1>1, UnderWay
<1>3. i = Emptied(j) /\ i.saved = j.saved /\ i.missed = j.missed
  BY <1>2 DEF Emptied, Jobs
<1>4. PICK p \in j.hand :
        \/ /\ tree' = [tree EXCEPT ![p] = i.saved.tree[p]] /\ Becomes(u, i, {p}) /\ UNCHANGED left
        \/ /\ Fault /\ tree' \in {tree, [tree EXCEPT ![p] = None]}
           /\ Becomes(u, [i EXCEPT !.missed = i.missed \cup {p}, !.told = TRUE], {p})
  BY DEF Overwrite
<1>5. p \in Files /\ j.saved.tree \in Trees
  BY <1>2, Apart DEF Jobs
<1>6. /\ tree' \in Trees /\ \A q \in Files \ {p} : tree'[q] = tree[q]
  BY <1>2, <1>3, <1>4, <1>5 DEF Trees, Contents
<1>7. [i EXCEPT !.missed = i.missed \cup {p}, !.told = TRUE] = Missing(j, p)
  BY <1>3 DEF Missing
<1> HIDE DEF i
<1>8. \E k \in {Emptied(j), Missing(j, p)} :
        /\ Becomes(u, k, {p})
        /\ tree'[p] = j.saved.tree[p] \/ k = Missing(j, p)
        /\ left' = left \/ Fault
  BY <1>2, <1>3, <1>4, <1>5, <1>7 DEF Trees
<1> QED BY <1>4, <1>6, <1>8

LEMMA OverwriteInv == ASSUME Inv, NEW u \in Updates, Overwrite(u) PROVE Inv'
<1> DEFINE j == job[u]
<1>1. j.pc \in {"restoreA", "restoreB"} /\ j.pc \in Undoing /\ UNCHANGED <<declared, where, inside, lock>>
  BY DEF Overwrite, At, Undoing
<1>2. /\ j \in Jobs /\ Good(j, tree, where) /\ declared /\ j.pc # "idle" /\ tree \in Trees
      /\ j.saved.where[From] = "orig" => where[From] # None \/ j.told \/ From \in j.touched
  BY <1>1, UnderWay
<1>p. PICK p \in j.hand : \E k \in {Emptied(j), Missing(j, p)} :
        /\ Becomes(u, k, {p}) /\ tree' \in Trees
        /\ \A q \in Files \ {p} : tree'[q] = tree[q]
        /\ tree'[p] = j.saved.tree[p] \/ k = Missing(j, p)
        /\ left' = left \/ Fault
  BY OverwriteIs
<1>3. PICK k \in {Emptied(j), Missing(j, p)} :
        /\ Becomes(u, k, {p}) /\ tree' \in Trees
        /\ \A q \in Files \ {p} : tree'[q] = tree[q]
        /\ tree'[p] = j.saved.tree[p] \/ k = Missing(j, p)
        /\ left' = left \/ Fault
  BY <1>p
<1>4. p \in Files
  BY <1>2, <1>3, Apart DEF Jobs
<1>5. /\ k \in Jobs /\ k.pc = j.pc /\ k.todo = j.todo /\ k.current = j.current
      /\ k.window = j.window /\ k.during = j.during /\ k.all = j.all
      /\ k.failed = j.failed /\ k.touched = j.touched /\ k.saved = j.saved /\ k.hand = {}
      /\ j.told => k.told
      /\ j.missed \subseteq k.missed
      /\ k = Missing(j, p) => p \in k.missed
  BY <1>2, <1>3, <1>4, EmptiedIs
<1>6. World'
  BY <1>1, <1>3, InvWorld, FaultType DEF World
<1>7. AsBefore(k, tree', p)
  BY <1>3, <1>5 DEF AsBefore
<1>8. \A q \in Files \ {p} : /\ AsBefore(j, tree, q) => AsBefore(k, tree', q)
                             /\ AsSeen(j, tree, q) => AsSeen(k, tree', q)
  BY <1>3, <1>5 DEF AsBefore, AsSeen
<1>9. Witnessed(k, tree')
  BY <1>1, <1>2, <1>5 DEF Good, Witnessed, Companion
<1>10. k.saved.where[From] = "orig" => where[From] # None \/ k.told \/ From \in k.touched
  BY <1>2, <1>5
<1>11. Copied(k, tree')
  BY <1>5 DEF Copied
<1>16. p \notin j.todo /\ \A q \in j.hand : q = p
  BY <1>1, <1>2 DEF Good, Progress, Copied
<1>12. ASSUME j.pc = "restoreA" PROVE Good(k, tree', where)
  <2>1. /\ j.todo \cup j.hand \subseteq Surface
        /\ \A q \in Surface : IF q \in j.todo \cup j.hand THEN AsSeen(j, tree, q) ELSE AsBefore(j, tree, q)
    BY <1>2, <1>12 DEF Good, Progress
  <2>2. \A q \in Surface : IF q \in k.todo \cup k.hand THEN AsSeen(k, tree', q) ELSE AsBefore(k, tree', q)
    BY <1>5, <1>7, <1>8, <1>16, <2>1, Apart
  <2>3. Progress(k, tree', where)
    BY <1>2, <1>5, <1>10, <1>11, <1>12, <2>1, <2>2 DEF Progress, Undone, Undoing
  <2> QED BY <2>3, <1>9 DEF Good
<1>13. ASSUME j.pc = "restoreB" PROVE Good(k, tree', where)
  <2>1. /\ j.todo \cup j.hand \subseteq Owned
        /\ \A q \in j.todo \cup j.hand : IF j.all THEN AsSeen(j, tree, q) ELSE q \in j.during
        /\ \A q \in Surface : AsBefore(j, tree, q)
    BY <1>2, <1>13 DEF Good, Progress, Undone, Undoing
  <2>2. \A q \in Surface : AsBefore(k, tree', q)
    BY <1>7, <1>8, <2>1, Apart
  <2>3. \A q \in k.todo \cup k.hand : IF k.all THEN AsSeen(k, tree', q) ELSE q \in k.during
    BY <1>5, <1>8, <1>16, <2>1, Apart
  <2>4. Progress(k, tree', where)
    BY <1>2, <1>5, <1>10, <1>11, <1>13, <2>1, <2>2, <2>3 DEF Progress, Undone, Undoing
  <2> QED BY <2>4, <1>9 DEF Good
<1>14. Good(k, tree', where')
  BY <1>1, <1>12, <1>13
<1>15. /\ {p} \in SUBSET (Files \cup Places) /\ job' = [Noted({p}) EXCEPT ![u] = k]
       /\ \A q \in Files : q \in {p} \/ tree'[q] = tree[q]
  BY <1>3, <1>4 DEF Becomes
<1> QED BY <1>1, <1>2, <1>5, <1>6, <1>14, <1>15, WriteStep

LEMMA FinishInv == ASSUME Inv, NEW u \in Updates, Finish(u) PROVE Inv'
<1> DEFINE j == job[u]
           bad == \E p \in Surface : tree[p] # j.saved.tree[p]
           k == [j EXCEPT !.pc = "release", !.told = j.told \/ bad]
<1>1. /\ j.pc = "finish" /\ UNCHANGED <<declared, tree>>
      /\ where' = [l \in Places |->
           IF l # Away /\ j.saved.where[l] = None /\ where[l] = "made" /\ "made" \notin inside THEN None
           ELSE where[l]]
      /\ Becomes(u, k, Moved)
  BY DEF Finish, At
<1>2. /\ j \in Jobs /\ Good(j, tree, where) /\ declared
      /\ j.saved.where[From] = "orig" => where[From] # None \/ j.told \/ From \in j.touched
  BY <1>1, UnderWay DEF Undoing
<1>3. \A p \in Surface : AsBefore(j, tree, p)
  BY <1>1, <1>2 DEF Good, Progress, Undone, Undoing
<1>4. where' \in Wheres
  BY <1>1, InvWorld DEF World, Wheres
<1>5. World'
  BY <1>4, InvWorld DEF Finish, World
<1>6. /\ k \in Jobs /\ k.pc = "release" /\ k.window = j.window /\ k.during = j.during
      /\ j.told => k.told
      /\ k.missed = j.missed /\ k.touched = j.touched /\ k.saved = j.saved
  <2>1. \A b \in BOOLEAN :
          LET l == [j EXCEPT !.pc = "release", !.told = b]
          IN  /\ l \in Jobs /\ l.pc = "release" /\ l.window = j.window /\ l.during = j.during
              /\ l.told = b
              /\ l.missed = j.missed /\ l.touched = j.touched /\ l.saved = j.saved
    BY <1>2 DEF Jobs, Phases
  <2>2. (j.told \/ bad) \in BOOLEAN
    OBVIOUS
  <2> HIDE DEF bad
  <2> QED BY <2>1, <2>2
<1> HIDE DEF k
<1>7. Witnessed(k, tree')
  BY <1>2, <1>6 DEF Good, Witnessed, Companion
<1>8. \A p \in Surface : AsBefore(k, tree', p)
  BY <1>1, <1>3, <1>6 DEF AsBefore
<1>9. k.saved.where[From] = "orig" => where'[From] # None \/ k.told \/ From \in k.touched
  BY <1>1, <1>2, <1>6, Apart DEF None
<1>10. Progress(k, tree', where')
  BY <1>1, <1>2, <1>6, <1>8, <1>9 DEF Progress, Undone, Undoing
<1>11. Good(k, tree', where')
  BY <1>7, <1>10 DEF Good
<1>12. /\ Moved \in SUBSET (Files \cup Places)
       /\ From \in Moved \/ where'[From] = where[From]
       /\ \A p \in Files : p \in Moved \/ tree'[p] = tree[p]
  BY <1>1, Apart DEF Moved
<1>13. job' = [Noted(Moved) EXCEPT ![u] = k]
  BY <1>1 DEF Becomes
<1> QED BY <1>1, <1>5, <1>6, <1>11, <1>12, <1>13, WriteStep

LEMMA RestoreAllInv == ASSUME Inv, NEW u \in Updates, RestoreAll(u) PROVE Inv'
<1> DEFINE j == job[u]
<1>1. j.pc = "whole" /\ j.pc # "idle" /\ UNCHANGED declared
  BY DEF RestoreAll, At
<1>2. j \in Jobs /\ Good(j, tree, where) /\ ~declared
  BY <1>1, AtHand DEF Good, Progress
<1>3. j.saved \in [tree : Trees, where : Wheres, inside : SUBSET Dirs]
  BY <1>2 DEF Jobs
<1>4. CASE /\ tree' = j.saved.tree /\ where' = j.saved.where /\ inside' = j.saved.inside
           /\ Becomes(u, [j EXCEPT !.pc = "release"], Changed(j.saved.tree) \cup Moved)
           /\ UNCHANGED left
  <2> DEFINE k == [j EXCEPT !.pc = "release"]
             Q == Changed(j.saved.tree) \cup Moved
  <2>1. World'
    BY <1>3, <1>4, InvWorld DEF RestoreAll, World
  <2>2. /\ k \in Jobs /\ k.pc = "release" /\ k.window = j.window /\ k.during = j.during
        /\ k.saved = j.saved
    BY <1>2 DEF Jobs, Phases
  <2>3. /\ Q \in SUBSET (Files \cup Places)
        /\ From \in Q \/ where'[From] = where[From]
        /\ \A p \in Files : p \in Q \/ tree'[p] = tree[p]
    BY <1>4, Apart DEF Changed, Moved
  <2>4. job' = [Noted(Q) EXCEPT ![u] = k]
    BY <1>4 DEF Becomes
  <2> HIDE DEF k, Q
  <2>5. \A p \in Files : AsBefore(k, tree', p)
    BY <1>4, <2>2 DEF AsBefore
  <2>6. k.saved.where[From] = "orig" => where'[From] # None
    BY <1>4, <2>2 DEF None
  <2>7. Good(k, tree', where')
    BY <1>2, <2>2, <2>5, <2>6 DEF Good, Witnessed, Progress, Undone, Undoing, Companion
  <2> QED BY <1>1, <2>1, <2>2, <2>3, <2>4, <2>7, WriteStep
<1>5. CASE /\ Fault /\ UNCHANGED disk
           /\ job' = [job EXCEPT ![u].pc = "release", ![u].missed = Files, ![u].told = TRUE]
  <2> DEFINE k == [j EXCEPT !.pc = "release", !.missed = Files, !.told = TRUE]
  <2>1. World' /\ UNCHANGED <<tree, where>>
    BY <1>5, InvWorld, FaultType DEF RestoreAll, disk, World
  <2>2. /\ k \in Jobs /\ k.pc = "release" /\ k.window = j.window /\ k.during = j.during
        /\ k.missed = Files /\ k.told
    BY <1>2 DEF Jobs, Phases
  <2>3. job' = [job EXCEPT ![u] = k]
    BY <1>2, <1>5 DEF Inv, TypeOK
  <2> HIDE DEF k
  <2>4. \A p \in Files : AsBefore(k, tree, p)
    BY <2>2 DEF AsBefore
  <2>5. Good(k, tree, where)
    BY <1>2, <2>2, <2>4 DEF Good, Witnessed, Progress, Undone, Undoing, Companion
  <2> QED BY <1>1, <2>1, <2>2, <2>3, <2>5, QuietStep
<1> QED BY <1>4, <1>5 DEF RestoreAll

-----------------------------------------------------------------------------
(* Others *)

\* What somebody else writes is noted by every update.
LEMMA OthersWrite ==
  ASSUME Inv, World', UNCHANGED declared, NEW Q \in SUBSET (Files \cup Places),
         \A p \in Files : p \in Q \/ tree'[p] = tree[p],
         From \in Q \/ where'[From] = where[From],
         job' = Noted(Q)
  PROVE  Inv'
<1>1. TypeOK
  BY DEF Inv
<1>2. job' \in [Updates -> {Idle} \cup Jobs]
  BY <1>1, NotedIs DEF Noted
<1>3. ASSUME NEW v \in Updates, job'[v] # Idle PROVE Good(job'[v], tree', where')
  <2>1. job[v] # Idle /\ job[v] \in Jobs /\ job'[v] \in Jobs
    BY <1>1, <1>3, NotedIs DEF TypeOK
  <2>2. Good(job[v], tree, where)
    BY <2>1 DEF Inv
  <2> DEFINE i == job[v]
             k == job'[v]
  <2>3. \/ k = i /\ i.pc \notin Undoing \cup {"release"} \cup Companion
        \/ i.pc \in Undoing \cup {"release"} /\ k = Heard(i, Q)
        \/ i.pc \in Companion /\ k = [i EXCEPT !.during = i.during \cup Q]
    BY <1>1, <2>1, NotedIs
  <2> HIDE DEF i, k
  <2>4. i \in Jobs /\ k \in Jobs /\ Good(i, tree, where)
    BY <2>1, <2>2 DEF i, k
  <2>5. Good(k, tree', where')
    BY <2>3, <2>4, GoodStays
  <2> QED BY <2>5 DEF k
<1>4. \A v \in Updates : job'[v] # Idle => Good(job'[v], tree', where')
  BY <1>3
<1> QED BY <1>2, <1>4, GoodNext DEF Inv, TypeOK, World

LEMMA EditInv == ASSUME Inv, NEW p \in Files, Edit(p) PROVE Inv'
<1>1. tree \in Trees
  BY InvWorld DEF World
<1>2. tree' \in Trees /\ \A q \in Files : q \in {p} \/ tree'[q] = tree[q]
  BY <1>1 DEF Edit, Trees, Contents
<1>3. World'
  BY <1>2, InvWorld, UseType DEF Edit, World
<1>4. {p} \in SUBSET (Files \cup Places)
  OBVIOUS
<1> QED BY <1>2, <1>3, <1>4, OthersWrite DEF Edit

LEMMA EditInInv == ASSUME Inv, NEW l \in Places, EditIn(l) PROVE Inv'
<1>1. where \in Wheres /\ inside \subseteq Dirs
  BY InvWorld DEF World
<1>2. where' \in Wheres /\ where'[l] # None
  BY <1>1 DEF EditIn, Wheres, Dirs, None
<1>3. inside' \subseteq Dirs
  BY <1>1, <1>2 DEF EditIn, Wheres
<1>4. World'
  BY <1>2, <1>3, InvWorld, UseType DEF EditIn, World
<1>5. /\ Moved \in SUBSET (Files \cup Places)
      /\ From \in Moved \/ where'[From] = where[From]
      /\ \A p \in Files : p \in Moved \/ tree'[p] = tree[p]
  BY Apart DEF EditIn, Moved
<1> QED BY <1>4, <1>5, OthersWrite DEF EditIn

-----------------------------------------------------------------------------
(* The invariant *)

LEMMA InitInv == Init => Inv
<1> SUFFICES ASSUME Init PROVE Inv
  OBVIOUS
<1>1. tree \in Trees
  BY DEF Init, Trees, Contents
<1>2. where \in Wheres
  BY DEF Init, Wheres, Dirs
<1>3. lock \in [by : Updates \cup {None, Dead}, written : BOOLEAN, old : BOOLEAN]
  BY DEF Init, NoLock
<1>4. left \in [runs : Nat, edits : Nat, faults : Nat]
  BY UpdateAssumption DEF Init
<1>5. job \in [Updates -> {Idle} \cup Jobs]
  BY DEF Init
<1> QED BY <1>1, <1>2, <1>3, <1>4, <1>5 DEF Init, Inv, TypeOK

LEMMA StepInv == Inv /\ [Next]_vars => Inv'
<1> SUFFICES ASSUME Inv, [Next]_vars PROVE Inv'
  OBVIOUS
<1>1. ASSUME NEW u \in Updates, Begin(u) \/ Step(u) \/ Kill(u) PROVE Inv'
  BY <1>1, BeginInv, LockInv, OverInv, CaptureInv, EvictInv, InstallInv, ProtectInv, ObserveInv,
     ApplyInv, InventoryInv, ProveInv, VerifyInv, UnmoveInv, RestoreAInv, RestoreBInv,
     OverwriteInv, FinishInv, RestoreAllInv DEF Step
<1>2. CASE Age
  <2>1. World'
    BY <1>2, InvWorld DEF Age, disk, World
  <2> QED BY <1>2, <2>1, GoodNext DEF Age, disk, Inv, TypeOK, World
<1>3. CASE UNCHANGED vars
  BY <1>3 DEF vars, disk, Inv, TypeOK, Good, Witnessed, Progress, AsBefore, AsSeen, Copied, Undone
<1> QED BY <1>1, <1>2, <1>3, EditInv, EditInInv DEF Next

LEMMA Inductive == Spec => []Inv
<1> QED BY InitInv, StepInv, PTL DEF Spec

\* Every variable keeps its type.
THEOREM TypeCorrect == Spec => []TypeOK
<1>1. Inv => TypeOK
  BY DEF Inv
<1> QED BY <1>1, Inductive, PTL

\* A failed update gives back the installer's files, and without a scope every file,
\* but for those that others wrote since it looked and those it could not write, and a
\* directory that was moved is back in its place unless the update tells of it.
THEOREM GivesBack == Spec => []Restored
<1>1. Inv => Restored
  <2> SUFFICES ASSUME Inv, NEW u \in Updates, At(u, "release"), job[u].failed
               PROVE  /\ \A p \in (IF declared THEN Surface ELSE Files) :
                           p \in job[u].touched \cup job[u].missed \/ tree[p] = job[u].saved.tree[p]
                      /\ job[u].saved.where[From] = "orig" => \/ where[From] # None
                                                              \/ job[u].told
                                                              \/ From \in job[u].touched
    BY DEF Restored
  <2>1. job[u].pc = "release" /\ Undone(job[u])
    BY DEF At, Undone
  <2>2. Progress(job[u], tree, where)
    BY <2>1, AtHand DEF Good
  <2> QED BY <2>1, <2>2 DEF Progress, AsBefore
<1> QED BY <1>1, Inductive, PTL

-----------------------------------------------------------------------------
(* What a rollback displaces *)

\* Others' steps leave an update's list of files alone, and what it has in hand.
LEMMA NotedTodo ==
  ASSUME TypeOK, NEW Q \in SUBSET (Files \cup Places), NEW v \in Updates, job[v] # Idle
  PROVE  Noted(Q)[v].todo = job[v].todo /\ Noted(Q)[v].hand = job[v].hand
<1> DEFINE j == job[v]
           k == Noted(Q)[v]
<1>1. j \in Jobs
  BY DEF TypeOK
<1>2. k \in {j, Heard(j, Q), [j EXCEPT !.during = j.during \cup Q]}
  BY NotedIs
<1>3. k.todo = j.todo /\ k.hand = j.hand
  <2> HIDE DEF k, j
  <2>1. [j EXCEPT !.during = j.during \cup Q].todo = j.todo /\ [j EXCEPT !.during = j.during \cup Q].hand = j.hand
    BY <1>1 DEF Jobs
  <2>2. Heard(j, Q).todo = j.todo /\ Heard(j, Q).hand = j.hand
    BY <1>1, HeardIs
  <2> QED BY <1>2, <2>1, <2>2
<1> QED BY <1>3

\* What is overwritten of somebody else's was in hand: it is in the stash, or it came unseen,
\* could not be copied, or was written since.
LEMMA Displaced ==
  ASSUME Inv, NEW u \in Updates, Overwrite(u),
         NEW p \in Files, tree[p] = "edit", tree'[p] # "edit"
  PROVE  /\ p \in Surface \cup Owned
         /\ p \in Owned => job[u].all \/ p \in job[u].during
         /\ \/ p \in job[u].stash
            \/ p \in job[u].bare \cup job[u].late
            \/ job[u].current[p] = None /\ p \in job[u].touched
<1> DEFINE j == job[u]
<1>1. j.pc \in {"restoreA", "restoreB"} /\ j.pc \in Undoing
  BY DEF Overwrite, At, Undoing
<1>2. j \in Jobs /\ Good(j, tree, where)
  BY <1>1, UnderWay
<1>3. p \in j.hand
  BY <1>1, OverwriteIs
<1>4. Copied(j, tree)
  BY <1>1, <1>2 DEF Good, Progress
<1>5. CASE j.pc = "restoreA"
  <2>1. p \in Surface
    BY <1>2, <1>3, <1>5 DEF Good, Progress
  <2> QED BY <1>3, <1>4, <2>1, Apart DEF Copied
<1>6. CASE j.pc = "restoreB"
  <2>1. p \in Owned /\ IF j.all THEN AsSeen(j, tree, p) ELSE p \in j.during
    BY <1>2, <1>3, <1>6 DEF Good, Progress
  <2> QED BY <1>3, <1>4, <2>1 DEF Copied
<1> QED BY <1>1, <1>5, <1>6

\* Of another update's step an update remembers at most what it wrote.
LEMMA OthersNote ==
  ASSUME Inv, NEW u \in Updates, NEW v \in Updates, v # u, Begin(v) \/ Step(v) \/ Kill(v)
  PROVE  \E Q \in SUBSET (Files \cup Places) : job'[u] \in {job[u], Noted(Q)[u]}
<1> DEFINE Goal == \E Q \in SUBSET (Files \cup Places) : job'[u] \in {job[u], Noted(Q)[u]}
<1>1. DOMAIN job = Updates
  BY DEF Inv, TypeOK
<1>2. job'[u] = job[u] => Goal
  OBVIOUS
<1>3. \A Q \in SUBSET (Files \cup Places) :
        /\ job'[u] = Noted(Q)[u] => Goal
        /\ \A k : [Noted(Q) EXCEPT ![v] = k][u] = Noted(Q)[u]
  BY DEF Noted
<1> SUFFICES Goal
  OBVIOUS
<1> HIDE DEF Goal
<1>4. CASE Begin(v) \/ Kill(v)
  BY <1>1, <1>2, <1>4 DEF Begin, Kill
<1>5. CASE Create(v) \/ Write(v) \/ Read(v) \/ Unlink(v) \/ Release(v)
  BY <1>1, <1>2, <1>5 DEF Create, Write, Read, Unlink, Release, Goes, Again
<1>6. CASE Capture(v)
  BY <1>1, <1>2, <1>3, <1>6 DEF Capture, Becomes
<1>7. CASE Evict(v)
  <2>1. PICK P \in SUBSET (Surface \ (Kept \cup Scripts)) :
          Becomes(v, [job[v] EXCEPT !.pc = "install"], P) \/ Becomes(v, Failed(job[v]), P)
    BY <1>7 DEF Evict
  <2>2. P \in SUBSET (Files \cup Places)
    BY Apart
  <2> QED BY <1>3, <2>1, <2>2 DEF Becomes
<1>8. CASE Install(v)
  <2>1. PICK P \in SUBSET Surface, Q \in SUBSET Surface :
          \/ Becomes(v, [job[v] EXCEPT !.pc = "protect"], P \cup Q \cup Moved)
          \/ Becomes(v, Failed(job[v]), P \cup Q \cup Moved)
    BY <1>8 DEF Install
  <2>2. P \cup Q \cup Moved \in SUBSET (Files \cup Places)
    BY Apart DEF Moved
  <2> QED BY <1>3, <2>1, <2>2 DEF Becomes
<1>9. CASE Protect(v)
  <2> DEFINE R == Changed(Protected(tree, job[v].saved.tree))
  <2>1. Becomes(v, [job[v] EXCEPT !.pc = "observe"], R)
    BY <1>9 DEF Protect
  <2>2. R \in SUBSET (Files \cup Places)
    BY DEF Changed
  <2> QED BY <1>3, <2>1, <2>2 DEF Becomes
<1>10. CASE Observe(v) \/ Inventory(v) \/ Prove(v) \/ Verify(v)
  BY <1>1, <1>2, <1>10 DEF Observe, Inventory, Prove, Verify, Goes
<1>11. CASE Apply(v)
  <2>1. \/ job'[u] = job[u]
        \/ \E P \in SUBSET (Surface \cup Owned) :
             Becomes(v, [job[v] EXCEPT !.pc = "inventory", !.during = job[v].during \cup P], P)
    BY <1>1, <1>11 DEF Apply, Goes
  <2>2. SUBSET (Surface \cup Owned) \subseteq SUBSET (Files \cup Places)
    BY Apart
  <2> QED BY <1>2, <1>3, <2>1, <2>2 DEF Becomes
<1>12. CASE Unmove(v) \/ Finish(v)
  <2>1. Moved \in SUBSET (Files \cup Places)
    BY DEF Moved
  <2>2. job'[u] = Noted(Moved)[u]
    BY <1>3, <1>12, <2>1 DEF Unmove, Finish, Becomes
  <2> QED BY <1>3, <2>1, <2>2
<1>13. CASE RestoreA(v) \/ RestoreB(v)
  BY <1>1, <1>2, <1>13 DEF RestoreA, RestoreB, SetAside
<1>16. CASE Overwrite(v)
  <2>1. PICK p \in job[v].hand : \E j : Becomes(v, j, {p})
    BY <1>16 DEF Overwrite
  <2>2. job[v] \in Jobs
    BY <1>16, UnderWay DEF Overwrite, At, Undoing
  <2>3. {p} \in SUBSET (Files \cup Places)
    BY <2>1, <2>2, Apart DEF Jobs
  <2> QED BY <1>3, <2>1, <2>3 DEF Becomes
<1>14. CASE RestoreAll(v)
  <2> DEFINE R == Changed(job[v].saved.tree) \cup Moved
  <2>1. R \in SUBSET (Files \cup Places)
    BY DEF Changed, Moved
  <2>2. job'[u] = job[u] \/ job'[u] = Noted(R)[u]
    BY <1>1, <1>3, <1>14, <2>1 DEF RestoreAll, Becomes
  <2> QED BY <1>2, <1>3, <2>1, <2>2
<1>15. CASE Step(v)
  BY <1>5, <1>6, <1>7, <1>8, <1>9, <1>10, <1>11, <1>12, <1>13, <1>14, <1>15, <1>16 DEF Step
<1> QED BY <1>4, <1>15

\* Only an update's own steps change its list, or what it has in hand.
LEMMA OwnStep ==
  ASSUME Inv, [Next]_vars, NEW u \in Updates, job[u] # Idle, job[u].pc \in Undoing,
         job'[u] # Idle, <<job'[u].todo, job'[u].hand>> # <<job[u].todo, job[u].hand>>
  PROVE  RestoreA(u) \/ RestoreB(u) \/ Overwrite(u) \/ Finish(u)
<1>1. TypeOK /\ DOMAIN job = Updates
  BY DEF Inv, TypeOK
<1>2. ASSUME NEW Q \in SUBSET (Files \cup Places), job'[u] \in {job[u], Noted(Q)[u]} PROVE FALSE
  BY <1>1, <1>2, NotedTodo
<1>3. ASSUME NEW v \in Updates, v # u PROVE ~(Begin(v) \/ Step(v) \/ Kill(v))
  BY <1>2, <1>3, OthersNote
<1>4. ASSUME NEW p \in Files PROVE ~Edit(p)
  <2>1. {p} \in SUBSET (Files \cup Places)
    OBVIOUS
  <2> QED BY <1>2, <2>1 DEF Edit
<1>5. ASSUME NEW l \in Places PROVE ~EditIn(l)
  <2>1. Moved \in SUBSET (Files \cup Places)
    BY DEF Moved
  <2> QED BY <1>2, <2>1 DEF EditIn
<1>6. ~Age /\ ~UNCHANGED vars
  BY DEF Age, vars
<1>7. Begin(u) \/ Step(u) \/ Kill(u)
  BY <1>3, <1>4, <1>5, <1>6 DEF Next
<1>8. ~Kill(u) /\ ~Begin(u)
  BY <1>1 DEF Kill, Begin, At, Undoing
<1>9. job[u].pc \in {"restoreA", "restoreB", "finish"}
  BY DEF Undoing
<1>10. Step(u)
  BY <1>7, <1>8
<1> QED BY <1>9, <1>10 DEF Step, At, Create, Write, Read, Unlink, Release, Capture, Evict, Install,
     Protect, Observe, Apply, Inventory, Prove, Verify, Unmove, RestoreAll

\* What a rollback displaces of others is the installer's or was written while the companion
\* was at work, and the stash has it unless it came unseen, could not be copied, or was
\* written between the copy and the overwriting.
THEOREM LosesNothing == Spec => NothingLost
<1> DEFINE A == \A u \in Updates, p \in Files :
       /\ declared /\ job[u] # Idle /\ job[u].pc \in Undoing
       /\ job'[u] # Idle /\ <<job'[u].todo, job'[u].hand>> # <<job[u].todo, job[u].hand>>
       /\ tree[p] = "edit" /\ tree'[p] # "edit"
       => /\ p \in Surface \cup Owned
          /\ p \in Owned => job[u].all \/ p \in job[u].during
          /\ \/ p \in job[u].stash
             \/ p \in job[u].bare \cup job[u].late
             \/ job[u].current[p] = None /\ p \in job[u].touched
<1>1. Inv /\ [Next]_vars => [A]_vars
  <2> SUFFICES ASSUME Inv, [Next]_vars, NEW u \in Updates, NEW p \in Files,
                      job[u] # Idle, job[u].pc \in Undoing, job'[u] # Idle,
                      <<job'[u].todo, job'[u].hand>> # <<job[u].todo, job[u].hand>>,
                      tree[p] = "edit", tree'[p] # "edit"
               PROVE  /\ p \in Surface \cup Owned
                      /\ p \in Owned => job[u].all \/ p \in job[u].during
                      /\ \/ p \in job[u].stash
                         \/ p \in job[u].bare \cup job[u].late
                         \/ job[u].current[p] = None /\ p \in job[u].touched
    OBVIOUS
  <2>1. CASE Overwrite(u)
    BY <2>1, Displaced
  <2>2. CASE RestoreA(u) \/ RestoreB(u) \/ Finish(u)
    BY <2>2 DEF RestoreA, RestoreB, Finish, disk
  <2> QED BY <2>1, <2>2, OwnStep
<1>2. Inv /\ [][Next]_vars => [][A]_vars
  BY <1>1, InitInv, StepInv, PTL
<1> QED BY <1>2, InitInv, PTL DEF Spec, NothingLost
=============================================================================

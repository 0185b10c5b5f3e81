--------------------------- MODULE Rename_proofs ---------------------------
(* What TLAPS proves of Rename for every set of keys, of commands and of     *)
(* processes: the types, that no store gets ahead of the board, and that a   *)
(* command which nothing else disturbs can be run again when it failed and   *)
(* has renamed everything when it says so.                                   *)
EXTENDS Rename, TLAPS

----------------------------------------------------------------------------
(* What the updates of run do *)

\* An active command has all its fields.
LEMMA ActiveIsCommand ==
  ASSUME run \in [Procs -> Runs], NEW r \in Active
  PROVE  r \in Procs /\ run[r] \in Command /\ r # Idle
BY RenameAssumption DEF Active, Runs, Over, Steps

\* To disturb a command takes nothing from it but that it is alone.
LEMMA DisturbedShape ==
  ASSUME run \in [Procs -> Runs], NEW self
  PROVE  /\ Disturbed(self) \in [Procs -> Runs]
         /\ \A q \in Procs :
              /\ Disturbed(self)[q] = Idle <=> run[q] = Idle
              /\ run[q] \in Command => /\ Disturbed(self)[q] \in Command
                                       /\ Disturbed(self)[q].pc = run[q].pc
                                       /\ Disturbed(self)[q].new = run[q].new
                                       /\ Disturbed(self)[q].live = run[q].live
              /\ run[q] \in Over => Disturbed(self)[q] \in Over
              /\ q = self => Disturbed(self)[q] = run[q]
<1> DEFINE d == Disturbed(self)
<1>1. d = [q \in Procs |-> IF q = self \/ run[q] = Idle THEN run[q] ELSE [run[q] EXCEPT !.alone = FALSE]]
  BY DEF Disturbed
<1>2. ASSUME NEW q \in Procs, run[q] \in Command
      PROVE  /\ [run[q] EXCEPT !.alone = FALSE] \in Command
             /\ [run[q] EXCEPT !.alone = FALSE].pc = run[q].pc
             /\ [run[q] EXCEPT !.alone = FALSE].new = run[q].new
             /\ [run[q] EXCEPT !.alone = FALSE].live = run[q].live
  BY <1>2 DEF Command
<1>3. ASSUME NEW q \in Procs, run[q] \in Over
      PROVE  [run[q] EXCEPT !.alone = FALSE] \in Over
  BY <1>3 DEF Over
<1>4. ASSUME NEW q \in Procs
      PROVE  run[q] = Idle \/ run[q] \in Command \/ run[q] \in Over
  BY DEF Runs
<1>5. Idle \notin Command /\ Idle \notin Over
  BY RenameAssumption
<1>6. ASSUME NEW q \in Procs
      PROVE  /\ d[q] \in Runs
             /\ d[q] = Idle <=> run[q] = Idle
             /\ run[q] \in Command => /\ d[q] \in Command /\ d[q].pc = run[q].pc
                                      /\ d[q].new = run[q].new /\ d[q].live = run[q].live
             /\ run[q] \in Over => d[q] \in Over
             /\ q = self => d[q] = run[q]
  <2> HIDE DEF d
  <2>1. d[q] = IF q = self \/ run[q] = Idle THEN run[q] ELSE [run[q] EXCEPT !.alone = FALSE]
    BY <1>1
  <2> QED BY <2>1, <1>2, <1>3, <1>4, <1>5 DEF Runs
<1>7. d \in [Procs -> Runs]
  BY <1>1, <1>6
<1> QED BY <1>6, <1>7

\* A step of an active command that goes on.
LEMMA MoveShape ==
  ASSUME run \in [Procs -> Runs], NEW r \in Active, NEW p \in Steps,
         GoTo(r, p) \/ Wrote(r, p) \/ Failing(r, p)
  PROVE  /\ run' \in [Procs -> Runs]
         /\ \A q \in Procs \ {r} : run'[q] = Disturbed(r)[q]
         /\ run'[r] \in Command /\ run'[r].pc = p
         /\ run'[r].new = run[r].new /\ run'[r].live = run[r].live
<1> DEFINE d == Disturbed(r)
<1>1. d \in [Procs -> Runs] /\ r \in Procs /\ d[r] = run[r] /\ run[r] \in Command
  BY DisturbedShape, ActiveIsCommand
<1>2. run' = [d EXCEPT ![r] = run'[r]] /\ run'[r] \in Command /\ run'[r].pc = p
      /\ run'[r].new = run[r].new /\ run'[r].live = run[r].live
  <2>1. CASE GoTo(r, p)
    <3>1. run' = [d EXCEPT ![r] = [d[r] EXCEPT !.pc = p]]
      BY <2>1 DEF GoTo
    <3> HIDE DEF d
    <3> QED BY <3>1, <1>1 DEF Command
  <2>2. CASE Wrote(r, p)
    <3>1. run' = [d EXCEPT ![r] = [d[r] EXCEPT !.pc = p, !.quiet = FALSE]]
      BY <2>2, <1>1 DEF Wrote
    <3> HIDE DEF d
    <3> QED BY <3>1, <1>1 DEF Command
  <2>3. CASE Failing(r, p)
    <3>1. run' = [d EXCEPT ![r] = [d[r] EXCEPT !.pc = p, !.quiet = FALSE, !.bad = TRUE]]
      BY <2>3, <1>1 DEF Failing
    <3> HIDE DEF d
    <3> QED BY <3>1, <1>1 DEF Command
  <2> QED BY <2>1, <2>2, <2>3
<1> HIDE DEF d
<1>3. run' \in [Procs -> Runs]
  BY <1>1, <1>2 DEF Runs
<1>4. \A q \in Procs \ {r} : run'[q] = d[q]
  BY <1>1, <1>2
<1> QED BY <1>2, <1>3, <1>4 DEF d

\* A step with which a command ends.
LEMMA EndShape ==
  ASSUME run \in [Procs -> Runs], NEW r \in Active, NEW p \in {"ok", "failed"}, End(r, p)
  PROVE  /\ run' \in [Procs -> Runs]
         /\ \A q \in Procs \ {r} : run'[q] = Disturbed(r)[q]
         /\ run'[r] \in Over
<1> DEFINE d == Disturbed(r)
<1>1. d \in [Procs -> Runs] /\ r \in Procs /\ d[r] = run[r] /\ run[r] \in Command
  BY DisturbedShape, ActiveIsCommand
<1>2. run' = [d EXCEPT ![r] = [pc |-> p, old |-> d[r].old, new |-> d[r].new, alone |-> d[r].alone]]
  BY DEF End
<1> HIDE DEF d
<1>3. [pc |-> p, old |-> d[r].old, new |-> d[r].new, alone |-> d[r].alone] \in Over
  BY <1>1 DEF Command, Over
<1>4. run' \in [Procs -> Runs] /\ run'[r] \in Over /\ \A q \in Procs \ {r} : run'[q] = d[q]
  BY <1>1, <1>2, <1>3 DEF Runs
<1> QED BY <1>4 DEF d

\* The commands that a step of r leaves running were running, and know what they knew.
LEMMA OthersKeep ==
  ASSUME run \in [Procs -> Runs], NEW r, run' \in [Procs -> Runs],
         \A q \in Procs \ {r} : run'[q] = Disturbed(r)[q]
  PROVE  \A q \in Active' \ {r} : /\ q \in Active
                                   /\ run'[q].pc = run[q].pc
                                   /\ run'[q].new = run[q].new /\ run'[q].live = run[q].live
<1> SUFFICES ASSUME NEW q \in Active', q # r
             PROVE  /\ q \in Active /\ run'[q].pc = run[q].pc
                    /\ run'[q].new = run[q].new /\ run'[q].live = run[q].live
  OBVIOUS
<1>1. q \in Procs /\ run'[q] # Idle /\ run'[q].pc \in Steps
  BY DEF Active
<1>2. run'[q] = Disturbed(r)[q]
  BY <1>1
<1>3. run[q] # Idle /\ run'[q] \notin Over
  BY <1>1, <1>2, DisturbedShape DEF Over, Steps
<1>4. run[q] \in Command
  BY <1>1, <1>2, <1>3, DisturbedShape DEF Runs
<1> QED BY <1>1, <1>2, <1>3, <1>4, DisturbedShape DEF Active

\* The same when an earlier command's change arrives.
LEMMA ContestedShape ==
  ASSUME run \in [Procs -> Runs], NEW own, run' = Contested(own)
  PROVE  /\ run' \in [Procs -> Runs]
         /\ \A q \in Active' : /\ q \in Active
                               /\ run'[q].pc = run[q].pc
                               /\ run'[q].new = run[q].new /\ run'[q].live = run[q].live
<1>1. ASSUME NEW q \in Procs
      PROVE  run'[q] = IF q \in own \/ run[q] = Idle THEN run[q] ELSE [run[q] EXCEPT !.alone = FALSE]
  BY DEF Contested
<1>2. ASSUME NEW q \in Procs
      PROVE  /\ run'[q] \in Runs
             /\ run[q] = Idle => run'[q] = Idle
             /\ run[q] \in Over => run'[q] \in Over
             /\ run[q] \in Command => /\ run'[q].pc = run[q].pc
                                      /\ run'[q].new = run[q].new /\ run'[q].live = run[q].live
  <2>1. CASE run[q] = Idle
    BY <2>1, <1>1, RenameAssumption DEF Runs
  <2>2. CASE run[q] \in Command
    <3>1. [run[q] EXCEPT !.alone = FALSE] \in Command
      BY <2>2 DEF Command
    <3>2. /\ [run[q] EXCEPT !.alone = FALSE].pc = run[q].pc
          /\ [run[q] EXCEPT !.alone = FALSE].new = run[q].new
          /\ [run[q] EXCEPT !.alone = FALSE].live = run[q].live
      BY <2>2 DEF Command
    <3>3. run[q] \notin Over
      BY <2>2 DEF Command, Over, Steps
    <3> QED BY <2>2, <3>1, <3>2, <3>3, <1>1, RenameAssumption DEF Runs
  <2>3. CASE run[q] \in Over
    <3>1. [run[q] EXCEPT !.alone = FALSE] \in Over
      BY <2>3 DEF Over
    <3>2. run[q] \notin Command
      BY <2>3 DEF Command, Over, Steps
    <3> QED BY <2>3, <3>1, <3>2, <1>1, RenameAssumption DEF Runs
  <2> QED BY <2>1, <2>2, <2>3 DEF Runs
<1>3. run' \in [Procs -> Runs]
  BY <1>2 DEF Contested
<1>4. ASSUME NEW q \in Active'
      PROVE  /\ q \in Active /\ run'[q].pc = run[q].pc
             /\ run'[q].new = run[q].new /\ run'[q].live = run[q].live
  <2>1. q \in Procs /\ run'[q] # Idle /\ run'[q].pc \in Steps
    BY <1>4 DEF Active
  <2>2. run[q] \in Command
    BY <2>1, <1>2 DEF Runs, Over, Steps
  <2> QED BY <2>1, <2>2, <1>2, RenameAssumption DEF Active
<1> QED BY <1>3, <1>4

----------------------------------------------------------------------------
(* The inductive invariant *)

\* What a command has made sure of by the step it is at.
Learned(c, seen) ==
  /\ plane /\ c.pc = "plane" => c.live \in seen.idents
  /\ plane /\ c.pc \notin {"plane", "readback"} => c.new \in seen.idents
  /\ c.pc \notin {"plane", "readback", "manifest"} => c.new \in seen.ids

\* Nothing is ahead: nor the stores, nor what a running command is about to write.
Inv ==
  /\ TypeOK
  /\ NeverAhead
  /\ board \in shown.idents /\ manifest.id \in shown.ids
  /\ \A r \in Active : Learned(run[r], shown)

\* What the board has read and the manifest held is only ever added to.
Grows == shown.idents \subseteq shown'.idents /\ shown.ids \subseteq shown'.ids

\* After a step of r, only what r knows has to be looked at.
LEMMA OnlyOwn ==
  ASSUME Inv, Grows, NEW r, run' \in [Procs -> Runs],
         \A q \in Procs \ {r} : run'[q] = Disturbed(r)[q],
         r \in Active' => Learned(run'[r], shown')
  PROVE  \A q \in Active' : Learned(run'[q], shown')
<1> SUFFICES ASSUME NEW q \in Active', q # r PROVE Learned(run'[q], shown')
  OBVIOUS
<1>1. run \in [Procs -> Runs]
  BY DEF Inv, TypeOK
<1>2. q \in Active /\ run'[q].pc = run[q].pc /\ run'[q].new = run[q].new /\ run'[q].live = run[q].live
  BY <1>1, OthersKeep
<1>3. Learned(run[q], shown)
  BY <1>2 DEF Inv
<1> QED BY <1>2, <1>3 DEF Learned, Grows

\* The first of a few places.
LEMMA FirstPlace ==
  ASSUME NEW S \in SUBSET (1..4), S # {}
  PROVE  \E i \in S : \A j \in S : i <= j
<1>1. CASE 1 \in S  BY <1>1
<1>2. CASE 1 \notin S /\ 2 \in S  BY <1>2
<1>3. CASE 1 \notin S /\ 2 \notin S /\ 3 \in S  BY <1>3
<1>4. CASE 1 \notin S /\ 2 \notin S /\ 3 \notin S
  <2> PICK x \in S : TRUE
    OBVIOUS
  <2>0. x \in 1..4 /\ x # 1 /\ x # 2 /\ x # 3
    BY <1>4
  <2>1. 4 \in S
    BY <2>0
  <2> QED BY <2>1, <1>4
<1> QED BY <1>1, <1>2, <1>3, <1>4

\* A command that starts, or starts again.
LEMMA BeginShape ==
  ASSUME TypeOK, NEW r \in Procs, NEW old \in Keys, NEW new \in Keys, Begin(r, old, new)
  PROVE  /\ run' \in [Procs -> Runs]
         /\ \A q \in Procs \ {r} : run'[q] = Disturbed(r)[q]
         /\ run'[r].pc = "plane" /\ run'[r].live = board
<1> DEFINE s == Spellings(old, new)
           olds == Olds(s, new)
           first == IF olds = {} THEN NoKey ELSE s[CHOOSE i \in olds : \A j \in olds : i <= j]
           c == [pc |-> "plane", old |-> old, new |-> new, resumed |-> Resumes(old, new),
                 olds |-> {s[i] : i \in olds}, first |-> first,
                 live |-> board, index |-> reg, quiet |-> TRUE, bad |-> FALSE,
                 alone |-> Active = {}]
<1>1. \A i \in 1..4 : s[i] \in Keys \cup {NoKey}
  <2>1. reg.ident \in Keys \cup {NoKey} /\ manifest.ident \in Keys \cup {NoKey} /\ board \in Keys
    BY DEF TypeOK, Entry
  <2>2. manifest.from.ident \in Keys \cup {NoKey}
    BY DEF TypeOK, Entry, None
  <2> QED BY <2>1, <2>2 DEF Spellings
<1>2. olds \subseteq 1..4 /\ \A i \in olds : s[i] \in Keys
  BY <1>1 DEF Olds
<1>3. first \in Keys \cup {NoKey}
  <2>1. CASE olds = {}
    BY <2>1
  <2>2. CASE olds # {}
    <3> HIDE DEF olds, s
    <3>1. \E i \in olds : \A j \in olds : i <= j
      BY <2>2, <1>2, FirstPlace
    <3>2. (CHOOSE i \in olds : \A j \in olds : i <= j) \in olds
      BY <3>1
    <3> QED BY <2>2, <3>2, <1>2
  <2> QED BY <2>1, <2>2
<1>4. {s[i] : i \in olds} \in SUBSET Keys
  BY <1>2
<1>5. Resumes(old, new) \in BOOLEAN /\ (Active = {}) \in BOOLEAN
  BY DEF Resumes
<1>6. board \in Keys /\ reg \in Entry /\ run \in [Procs -> Runs]
  BY DEF TypeOK
<1>7. run' = [Disturbed(r) EXCEPT ![r] = c]
  BY DEF Begin
<1> HIDE DEF s, olds, first
<1>8. c \in Command
  BY <1>3, <1>4, <1>5, <1>6 DEF Command, Steps
<1>9. c.pc = "plane" /\ c.live = board
  OBVIOUS
<1> HIDE DEF c
<1> QED BY <1>6, <1>7, <1>8, <1>9, DisturbedShape DEF Runs

----------------------------------------------------------------------------
(* Every step keeps it *)

LEMMA InitInv == Init => Inv
<1> SUFFICES ASSUME Init PROVE Inv
  OBVIOUS
<1>1. PICK k \in Guesses, l \in Guesses :
        /\ board \in (IF plane THEN {k, l} ELSE {k})
        /\ manifest = [id |-> First, ident |-> k, from |-> None]
        /\ reg = [id |-> First, ident |-> IF service THEN k ELSE l]
        /\ role = k /\ fleet = l /\ agents = l
        /\ shown = [idents |-> {k, l}, ids |-> {First}]
  BY DEF Init
<1>2. k \in Keys /\ l \in Keys /\ First \in Keys
  BY RenameAssumption
<1>3. \A r \in Procs : run[r] = Idle
  BY DEF Init
<1>4. run \in [Procs -> Runs]
  BY DEF Init, Runs
<1>5. hints \in [Keys -> (SUBSET Keys) \cup {Absent}]
  BY DEF Init
<1>6. manifest \in [id : Keys, ident : Keys \cup {NoKey}, from : Entry \cup {None}]
  BY <1>1, <1>2
<1>7. reg \in Entry /\ shown \in [idents : SUBSET Keys, ids : SUBSET Keys]
  BY <1>1, <1>2 DEF Entry
<1>8. board \in {k, l}
  BY <1>1
<1>9. TypeOK
  BY <1>1, <1>2, <1>4, <1>5, <1>6, <1>7, <1>8 DEF TypeOK, Init
<1>10. NeverAhead /\ board \in shown.idents /\ manifest.id \in shown.ids
  BY <1>1, <1>8 DEF NeverAhead
<1>11. Active = {}
  BY <1>3 DEF Active
<1> QED BY <1>9, <1>10, <1>11 DEF Inv

\* What a step of r that leaves what has been seen alone still has to show.
LEMMA StepInv ==
  ASSUME Inv, NEW r \in Active, NEW p \in Steps, GoTo(r, p) \/ Wrote(r, p) \/ Failing(r, p),
         Grows, \A c : c.pc = p /\ c.new = run[r].new /\ c.live = run[r].live => Learned(c, shown')
  PROVE  run' \in [Procs -> Runs] /\ \A q \in Active' : Learned(run'[q], shown')
<1>1. run \in [Procs -> Runs]
  BY DEF Inv, TypeOK
<1>2. /\ run' \in [Procs -> Runs]
      /\ \A q \in Procs \ {r} : run'[q] = Disturbed(r)[q]
      /\ run'[r].pc = p /\ run'[r].new = run[r].new /\ run'[r].live = run[r].live
  BY <1>1, MoveShape
<1> QED BY <1>2, OnlyOwn

LEMMA StopInv ==
  ASSUME Inv, NEW r \in Active, NEW p \in {"ok", "failed"}, End(r, p), Grows
  PROVE  run' \in [Procs -> Runs] /\ \A q \in Active' : Learned(run'[q], shown')
<1>1. run \in [Procs -> Runs]
  BY DEF Inv, TypeOK
<1>2. /\ run' \in [Procs -> Runs]
      /\ \A q \in Procs \ {r} : run'[q] = Disturbed(r)[q]
      /\ run'[r] \in Over
  BY <1>1, EndShape
<1>3. r \notin Active'
  BY <1>2 DEF Active, Over, Steps
<1> QED BY <1>2, <1>3, OnlyOwn

\* What the stores are to show for the invariant to hold after a step.
LEMMA Rest ==
  ASSUME Inv, Grows, UNCHANGED setup,
         run' \in [Procs -> Runs] /\ \A q \in Active' : Learned(run'[q], shown'),
         board' \in Keys /\ wire' \subseteq Keys /\ board' \in shown'.idents,
         manifest' \in [id : Keys, ident : Keys \cup {NoKey}, from : Entry \cup {None}],
         reg' \in Entry,
         {role', fleet', agents', candy'} \subseteq Keys,
         hints' \in [Keys -> (SUBSET Keys) \cup {Absent}],
         shown' \in [idents : SUBSET Keys, ids : SUBSET Keys],
         plane => {manifest'.ident, reg'.ident, role', fleet'} \subseteq shown'.idents,
         reg'.id \in shown'.ids /\ manifest'.id \in shown'.ids
  PROVE  Inv'
<1>1. plane' = plane /\ service' = service
  BY DEF setup
<1>2. TypeOK'
  BY <1>1 DEF Inv, TypeOK
<1>3. NeverAhead'
  BY <1>1 DEF NeverAhead
<1>4. \A q \in Active' : Learned(run[q], shown)'
  BY <1>1 DEF Learned
<1> QED BY <1>2, <1>3, <1>4 DEF Inv

LEMMA StartInv ==
  ASSUME Inv, NEW r \in Procs, NEW old \in Keys, NEW new \in Keys, Begin(r, old, new),
         UNCHANGED <<setup, board, wire, local, quotes, shown>>
  PROVE  Inv'
<1>1. Grows
  BY DEF Grows
<1>2. /\ run' \in [Procs -> Runs]
      /\ \A q \in Procs \ {r} : run'[q] = Disturbed(r)[q]
      /\ run'[r].pc = "plane" /\ run'[r].live = board
  BY BeginShape DEF Inv
<1>3. Learned(run'[r], shown')
  BY <1>2 DEF Learned, Inv
<1>4. \A q \in Active' : Learned(run'[q], shown')
  BY <1>1, <1>2, <1>3, OnlyOwn
<1> QED BY <1>1, <1>2, <1>4, Rest DEF Inv, TypeOK, NeverAhead, local, quotes, setup

\* A command that is no longer running leaves the others as they are.
LEMMA ReturnInv ==
  ASSUME Inv, NEW r \in Procs, Return(r)
  PROVE  Inv'
<1>1. Grows /\ run \in [Procs -> Runs]
  BY DEF Grows, Return, Inv, TypeOK
<1>2. run' = [run EXCEPT ![r] = Idle]
  BY DEF Return
<1>3. run' \in [Procs -> Runs]
  BY <1>1, <1>2 DEF Runs
<1>4. \A q \in Active' : Learned(run'[q], shown')
  <2> SUFFICES ASSUME NEW q \in Active' PROVE Learned(run'[q], shown')
    OBVIOUS
  <2>1. q \in Procs /\ run'[q] # Idle /\ run'[q].pc \in Steps
    BY DEF Active
  <2>2. run'[q] = run[q] /\ q \in Active
    BY <2>1, <1>1, <1>2 DEF Active
  <2> QED BY <2>2 DEF Inv, Return
<1> QED BY <1>1, <1>3, <1>4, Rest DEF Inv, TypeOK, NeverAhead, Return, local, quotes, setup

\* What comes from outside the commands, or from an earlier one.
LEMMA OutsideInv ==
  ASSUME Inv, NEW k \in Keys, Land(k) \/ Lose(k) \/ ByHand(k) \/ Follow
  PROVE  Inv'
<1>0. run \in [Procs -> Runs]
  BY DEF Inv, TypeOK
<1>1. CASE Land(k)
  <2>1. Grows /\ shown' \in [idents : SUBSET Keys, ids : SUBSET Keys] /\ k \in shown'.idents
    BY <1>1 DEF Land, Grows, Inv, TypeOK
  <2>2. run' \in [Procs -> Runs] /\ \A q \in Active' : Learned(run'[q], shown')
    BY <1>0, <1>1, <2>1, ContestedShape DEF Land, Inv, Learned, Grows
  <2>3. shown'.ids = shown.ids
    BY <1>1 DEF Land, Inv, TypeOK
  <2> QED BY <1>1, <2>1, <2>2, <2>3, Rest DEF Land, Inv, TypeOK, NeverAhead, Grows, local, quotes, setup
<1>2. CASE Lose(k)
  <2>1. Grows /\ UNCHANGED <<run, shown>>
    BY <1>2 DEF Lose, Grows
  <2>2. run' \in [Procs -> Runs] /\ \A q \in Active' : Learned(run'[q], shown')
    BY <1>0, <2>1 DEF Inv, Active
  <2> QED BY <1>2, <2>1, <2>2, Rest DEF Lose, Inv, TypeOK, NeverAhead, Grows, local, quotes, setup
<1>3. CASE ByHand(k)
  <2>1. Grows /\ shown' \in [idents : SUBSET Keys, ids : SUBSET Keys] /\ k \in shown'.idents
    BY <1>3 DEF ByHand, Grows, Inv, TypeOK
  <2>2. run' = Disturbed(Idle) /\ Idle \notin Procs
    BY <1>3, RenameAssumption DEF ByHand
  <2>3. run' \in [Procs -> Runs] /\ \A q \in Procs \ {Idle} : run'[q] = Disturbed(Idle)[q]
    BY <1>0, <2>2, DisturbedShape
  <2>4. Idle \notin Active'
    BY <2>2 DEF Active
  <2>5. \A q \in Active' : Learned(run'[q], shown')
    BY <2>1, <2>3, <2>4, OnlyOwn
  <2>6. shown'.ids = shown.ids
    BY <1>3 DEF ByHand, Inv, TypeOK
  <2> QED BY <1>3, <2>1, <2>3, <2>5, <2>6, Rest DEF ByHand, Inv, TypeOK, NeverAhead, Grows, local, quotes, setup
<1>4. CASE Follow
  <2>1. Grows /\ UNCHANGED shown /\ Indexed \in Entry
    BY <1>4 DEF Follow, Grows, Inv, TypeOK, Indexed, Entry
  <2>2. run' \in [Procs -> Runs] /\ \A q \in Active' : Learned(run'[q], shown')
    BY <1>0, <1>4, <2>1, ContestedShape DEF Follow, Inv, Learned, Grows
  <2> QED BY <1>4, <2>1, <2>2, Rest DEF Follow, Inv, TypeOK, NeverAhead, Grows, Indexed, local, quotes, setup
<1> QED BY <1>1, <1>2, <1>3, <1>4

\* The fields of an active command.
LEMMA Fields ==
  ASSUME Inv, NEW r \in Active
  PROVE  /\ run[r].new \in Keys /\ run[r].old \in Keys
         /\ run[r].first \in Keys \cup {NoKey}
         /\ Learned(run[r], shown)
<1>1. run[r] \in Command
  BY ActiveIsCommand DEF Inv, TypeOK
<1> QED BY <1>1 DEF Command, Inv

\* Before the manifest is written.
LEMMA PlaneInv ==
  ASSUME Inv, NEW r \in Active, Plane(r) \/ ReadBack(r)
  PROVE  Inv'
<1>1. Grows /\ UNCHANGED <<board, local, quotes, shown, setup>>
  BY DEF Grows, Plane, ReadBack
<1>2. wire' \subseteq Keys
  BY Fields DEF Plane, ReadBack, Inv, TypeOK
<1>3. run' \in [Procs -> Runs] /\ \A q \in Active' : Learned(run'[q], shown')
  <2>1. CASE run[r].pc = "plane" /\ plane /\ run[r].live # run[r].new /\ Wrote(r, "readback")
    BY <2>1, <1>1, StepInv DEF Steps, Learned
  <2>2. CASE run[r].pc = "plane" /\ ~(plane /\ run[r].live # run[r].new) /\ GoTo(r, "manifest")
    <3>1. plane => run[r].new \in shown.idents
      BY <2>2, Fields DEF Learned
    <3> QED BY <2>2, <3>1, <1>1, StepInv DEF Steps, Learned
  <2>3. CASE board = run[r].new /\ GoTo(r, "manifest")
    <3>1. run[r].new \in shown.idents
      BY <2>3 DEF Inv
    <3> QED BY <2>3, <3>1, <1>1, StepInv DEF Steps, Learned
  <2>4. CASE End(r, "failed")
    BY <2>4, <1>1, StopInv
  <2> QED BY <2>1, <2>2, <2>3, <2>4 DEF Plane, ReadBack
<1> QED BY <1>1, <1>2, <1>3, Rest DEF Inv, TypeOK, NeverAhead, local, quotes

LEMMA WriteManifestInv ==
  ASSUME Inv, NEW r \in Active, WriteManifest(r)
  PROVE  Inv'
<1>1. /\ run[r].new \in Keys /\ run[r].old \in Keys /\ run[r].first \in Keys \cup {NoKey}
      /\ plane => run[r].new \in shown.idents
  BY Fields DEF WriteManifest, Learned
<1>2. /\ shown'.idents = shown.idents /\ shown'.ids = shown.ids \cup {run[r].new}
      /\ shown' \in [idents : SUBSET Keys, ids : SUBSET Keys]
  BY <1>1 DEF WriteManifest, Inv, TypeOK
<1>3. Grows
  BY <1>2 DEF Grows
<1>4. NextIdent(manifest.ident, run[r].new) \in Keys \cup {NoKey} /\ Provenance(r) \in Entry \cup {None}
  BY <1>1 DEF NextIdent, Provenance, Entry, Inv, TypeOK
<1>5. /\ manifest' \in [id : Keys, ident : Keys \cup {NoKey}, from : Entry \cup {None}]
      /\ manifest'.id = run[r].new /\ manifest'.ident = NextIdent(manifest.ident, run[r].new)
  BY <1>1, <1>4 DEF WriteManifest
<1>6. GoTo(r, "registry") \/ Wrote(r, "registry")
  BY DEF WriteManifest
<1>7. run' \in [Procs -> Runs] /\ \A q \in Active' : Learned(run'[q], shown')
  BY <1>1, <1>2, <1>3, <1>6, StepInv DEF Steps, Learned
<1>8. plane => manifest'.ident \in shown'.idents
  BY <1>1, <1>2, <1>5 DEF NextIdent
<1>9. UNCHANGED <<setup, board, wire, reg, quotes>>
  BY DEF WriteManifest
<1>10. reg.id \in shown'.ids /\ manifest'.id \in shown'.ids
  BY <1>2, <1>5 DEF Inv, NeverAhead
<1>11. board \in shown'.idents /\ (plane => {reg.ident, role, fleet} \subseteq shown'.idents)
  BY <1>2 DEF Inv, NeverAhead
<1> QED BY <1>2, <1>3, <1>5, <1>7, <1>8, <1>9, <1>10, <1>11, Rest DEF Inv, TypeOK, quotes

LEMMA RegisterInv ==
  ASSUME Inv, NEW r \in Active, Register(r)
  PROVE  Inv'
<1>1. /\ run[r].new \in Keys /\ run[r].new \in shown.ids
      /\ plane => run[r].new \in shown.idents
  BY Fields DEF Register, Learned
<1>2. Grows /\ UNCHANGED <<setup, board, wire, manifest, quotes, shown>>
  BY DEF Register, Grows
<1>3. /\ reg' \in Entry /\ reg'.id \in shown.ids
      /\ plane => reg'.ident \in shown.idents
  <2>1. CASE reg' = reg
    BY <2>1 DEF Inv, TypeOK, NeverAhead
  <2>2. CASE reg' = Indexed
    BY <2>2 DEF Indexed, Entry, Inv, TypeOK, NeverAhead
  <2>3. CASE reg' = [id |-> run[r].new, ident |-> NextIdent(reg.ident, run[r].new)]
    BY <2>3, <1>1 DEF NextIdent, Entry
  <2> QED BY <2>1, <2>2, <2>3 DEF Register
<1>4. run' \in [Procs -> Runs] /\ \A q \in Active' : Learned(run'[q], shown')
  <2>1. CASE GoTo(r, "role") \/ Wrote(r, "role")
    BY <2>1, <1>1, <1>2, StepInv DEF Steps, Learned
  <2>2. CASE End(r, "failed")
    BY <2>2, <1>2, StopInv
  <2> QED BY <2>1, <2>2 DEF Register
<1> QED BY <1>2, <1>3, <1>4, Rest DEF Inv, TypeOK, NeverAhead, quotes

\* The files that quote the key.
LEMMA QuotesInv ==
  ASSUME Inv, NEW r \in Active, Role(r) \/ Fleet(r) \/ Agents(r) \/ Hints(r) \/ Candystore(r)
  PROVE  Inv'
<1>1. run[r].new \in Keys /\ run[r].old \in Keys
  BY Fields
<1>2. Grows /\ UNCHANGED <<setup, board, wire, shown>>
  BY DEF Role, Fleet, Agents, Hints, Candystore, Grows
<1>3. run[r].pc \in {"role", "fleet", "agents", "hints", "candy"}
  BY DEF Role, Fleet, Agents, Hints, Candystore
<1>4. run[r].new \in shown.ids /\ (plane => run[r].new \in shown.idents)
  BY <1>3, Fields DEF Learned
<1>5. run' \in [Procs -> Runs] /\ \A q \in Active' : Learned(run'[q], shown')
  <2>1. ASSUME NEW p \in {"fleet", "agents", "hints", "candy"}, GoTo(r, p) \/ Wrote(r, p) \/ Failing(r, p)
        PROVE  run' \in [Procs -> Runs] /\ \A q \in Active' : Learned(run'[q], shown')
    BY <2>1, <1>2, <1>4, StepInv DEF Steps, Learned
  <2>2. CASE Candystore(r)
    BY <2>2, <1>2, StopInv DEF Candystore
  <2>3. CASE Role(r)
    BY <2>1, <2>3 DEF Role
  <2>4. CASE Fleet(r)
    BY <2>1, <2>4 DEF Fleet
  <2>5. CASE Agents(r)
    BY <2>1, <2>5 DEF Agents
  <2>6. CASE Hints(r)
    BY <2>1, <2>6 DEF Hints
  <2> QED BY <2>2, <2>3, <2>4, <2>5, <2>6
<1>6. CASE Role(r)
  BY <1>6, <1>1, <1>2, <1>4, <1>5, Rest DEF Role, Inv, TypeOK, NeverAhead, local
<1>7. CASE Fleet(r)
  <2>1. fleet' \in {fleet, board}
    BY <1>7 DEF Fleet
  <2>2. /\ reg' = reg \/ reg' = [reg EXCEPT !.ident = board]
        /\ manifest' = manifest \/ manifest' = [manifest EXCEPT !.ident = board]
    BY <1>7 DEF Fleet, local
  <2>3. /\ reg' \in Entry /\ reg'.id = reg.id /\ reg'.ident \in {reg.ident, board}
        /\ manifest' \in [id : Keys, ident : Keys \cup {NoKey}, from : Entry \cup {None}]
        /\ manifest'.id = manifest.id /\ manifest'.ident \in {manifest.ident, board}
    BY <2>2 DEF Inv, TypeOK, Entry
  <2> QED BY <1>7, <2>1, <2>3, <1>2, <1>5, Rest DEF Fleet, Inv, TypeOK, NeverAhead
<1>8. CASE Agents(r)
  BY <1>8, <1>1, <1>2, <1>5, Rest DEF Agents, Inv, TypeOK, NeverAhead, local
<1>9. CASE Hints(r)
  <2>1. hints' \in [Keys -> (SUBSET Keys) \cup {Absent}]
    <3>1. CASE hints' = hints
      BY <3>1 DEF Inv, TypeOK
    <3>2. CASE hints' # hints
      <4> DEFINE had == IF hints[run[r].new] = Absent THEN {} ELSE hints[run[r].new]
                 both == had \cup hints[run[r].old] \cup {run[r].old}
      <4>1. hints[run[r].old] # Absent /\ hints' = [hints EXCEPT ![run[r].new] = both, ![run[r].old] = Absent]
        BY <1>9, <3>2 DEF Hints
      <4>2. hints \in [Keys -> (SUBSET Keys) \cup {Absent}]
        BY DEF Inv, TypeOK
      <4>3. both \subseteq Keys
        BY <4>1, <4>2, <1>1
      <4> HIDE DEF both
      <4> QED BY <4>1, <4>2, <4>3, <1>1
    <3> QED BY <3>1, <3>2
  <2> QED BY <1>9, <2>1, <1>1, <1>2, <1>5, Rest DEF Hints, Inv, TypeOK, NeverAhead, local
<1>10. CASE Candystore(r)
  <2>1. candy' \in Keys
    BY <1>10 DEF Candystore, Inv, TypeOK, Entry
  <2> QED BY <1>10, <2>1, <1>1, <1>2, <1>5, Rest DEF Candystore, Inv, TypeOK, NeverAhead, local
<1> QED BY <1>6, <1>7, <1>8, <1>9, <1>10

LEMMA FaultInv ==
  ASSUME Inv, NEW r, StepFails(r) \/ Kill(r)
  PROVE  Inv'
<1>1. r \in Active /\ Grows /\ UNCHANGED <<setup, board, wire, local, quotes, shown>>
  BY DEF StepFails, Kill, Grows
<1>2. run' \in [Procs -> Runs] /\ \A q \in Active' : Learned(run'[q], shown')
  <2>1. CASE End(r, "failed")
    BY <2>1, <1>1, StopInv
  <2>2. CASE StepFails(r) /\ ~End(r, "failed")
    <3>1. PICK i \in 1..4 : /\ run[r].pc = <<"role", "fleet", "agents", "hints">>[i]
                            /\ Failing(r, <<"fleet", "agents", "hints", "candy">>[i])
      BY <2>2 DEF StepFails
    <3>2. PICK p \in {"fleet", "agents", "hints", "candy"} : Failing(r, p)
      BY <3>1
    <3>3. run[r].pc \in {"role", "fleet", "agents", "hints"}
      BY <3>1
    <3>4. run[r].new \in shown.ids /\ (plane => run[r].new \in shown.idents)
      BY <1>1, <3>3, Fields DEF Learned
    <3> QED BY <3>2, <3>4, <1>1, StepInv DEF Steps, Learned
  <2> QED BY <2>1, <2>2 DEF Kill
<1> QED BY <1>1, <1>2, Rest DEF Inv, TypeOK, NeverAhead, local, quotes

LEMMA NextInv == Inv /\ [Next]_vars => Inv'
<1> SUFFICES ASSUME Inv, [Next]_vars PROVE Inv'
  OBVIOUS
<1>1. ASSUME NEW r \in Procs, NEW c \in Commands, Start(r, c[1], c[2])
      PROVE  Inv'
  <2>1. c[1] \in Keys /\ c[2] \in Keys
    BY RenameAssumption
  <2> QED BY <1>1, <2>1, StartInv DEF Start
<1>2. ASSUME NEW r \in Procs, Step(r)
      PROVE  Inv'
  BY <1>2, PlaneInv, WriteManifestInv, RegisterInv, QuotesInv DEF Step
<1>3. ASSUME NEW r \in Procs, Return(r)
      PROVE  Inv'
  BY <1>3, ReturnInv
<1>4. ASSUME NEW r \in Procs, Rerun(r)
      PROVE  Inv'
  <2>1. run[r] \in Over
    BY <1>4 DEF Rerun, Inv, TypeOK, Runs, Command, Steps
  <2>2. run[r].old \in Keys /\ run[r].new \in Keys
    BY <2>1 DEF Over
  <2> QED BY <1>4, <2>2, StartInv DEF Rerun
<1>5. ASSUME NEW r \in Procs, StepFails(r) \/ Kill(r)
      PROVE  Inv'
  BY <1>5, FaultInv
<1>6. ASSUME NEW k \in Keys, Land(k) \/ Lose(k) \/ ByHand(k)
      PROVE  Inv'
  BY <1>6, OutsideInv
<1>7. CASE Follow
  BY <1>7, RenameAssumption, OutsideInv
<1>8. CASE UNCHANGED vars
  <2>1. UNCHANGED <<plane, service, board, wire, manifest, reg, role, fleet, agents, candy, hints, run, shown>>
    BY <1>8 DEF vars
  <2>2. Active' = Active
    BY <2>1 DEF Active
  <2> QED BY <2>1, <2>2 DEF Inv, TypeOK, NeverAhead, Learned
<1> QED BY <1>1, <1>2, <1>3, <1>4, <1>5, <1>6, <1>7, <1>8 DEF Next

----------------------------------------------------------------------------
(* A command that nothing disturbs *)

\* The runs that nothing else has disturbed since they began.
Alone == {r \in Procs : run[r] # Idle /\ run[r].alone}

\* There is one such run at most, and no other is active beside it.
Sole == \A r \in Alone, q \in Procs : q \in Alone \/ q \in Active => q = r

\* The registry service lists an identifier of its own only when a rename is on its
\* way: the manifest then has the identifier of its key.
Catching ==
  plane /\ service /\ reg.id = manifest.id => reg.ident = manifest.ident \/ manifest.ident = manifest.id

\* What an undisturbed command has brought about by the step it is at. A step that
\* failed on the way (bad) is made up for by the next run.
Done(c) ==
  LET named  == {"registry", "role", "fleet", "agents", "hints", "candy"}
      listed == named \ {"registry"}
  IN
  /\ c.resumed => manifest.from.id = c.old
  /\ plane /\ c.pc = "plane" => board \in {c.live, c.new}
  /\ plane /\ c.pc \notin {"plane", "readback"} => board = c.new
  /\ c.pc \in named =>
       /\ manifest.id = c.new
       /\ c.old # c.new => manifest.from.id = c.old
       /\ plane => manifest.ident = c.new
  /\ c.pc \notin listed /\ c.index.id = c.new /\ (plane => c.index.ident = c.new) =>
       /\ reg.id = c.new /\ (plane => reg.ident = c.new)
       /\ plane /\ service /\ manifest.id = c.new => manifest.ident = c.new
  /\ c.pc \in listed => reg.id = c.new /\ (plane => reg.ident = c.new)
  /\ ~c.bad =>
       /\ plane /\ c.pc \in listed \ {"role"} => role = c.new
       /\ plane /\ c.pc \in listed \ {"role", "fleet"} => fleet = c.new
       /\ c.pc = "candy" /\ c.old # c.new => hints[c.old] = Absent

Progress ==
  \A r \in Alone :
    /\ Accepted(run[r].old, run[r].new)
    /\ r \in Active => Done(run[r])
    /\ run[r].pc = "ok" => Renamed(run[r].old, run[r].new)
Undisturbed == Sole /\ Catching /\ Progress

\* Whatever a step of r or a start of r leaves alone can only be r.
LEMMA OnlyOwnAlone ==
  ASSUME run \in [Procs -> Runs], NEW r,
         \A q \in Procs \ {r} : run'[q] = Disturbed(r)[q]
  PROVE  Alone' \subseteq {r}
<1> SUFFICES ASSUME NEW q \in Alone', q # r PROVE FALSE
  OBVIOUS
<1>1. q \in Procs /\ run'[q] # Idle /\ run'[q].alone /\ run'[q] = Disturbed(r)[q]
  BY DEF Alone
<1>2. run[q] # Idle /\ Disturbed(r)[q] = [run[q] EXCEPT !.alone = FALSE]
  BY <1>1 DEF Disturbed
<1>3. run[q] \in Command \/ run[q] \in Over
  BY <1>1, <1>2 DEF Runs
<1>4. ~[run[q] EXCEPT !.alone = FALSE].alone
  BY <1>3 DEF Command, Over
<1> QED BY <1>1, <1>2, <1>4

\* What a step of r changes in what r remembers.
LEMMA MoveFields ==
  ASSUME run \in [Procs -> Runs], NEW r \in Active, NEW p \in Steps,
         GoTo(r, p) \/ Wrote(r, p) \/ Failing(r, p)
  PROVE  /\ run'[r].pc = p /\ run'[r] # Idle
         /\ run'[r].old = run[r].old /\ run'[r].new = run[r].new
         /\ run'[r].resumed = run[r].resumed /\ run'[r].index = run[r].index
         /\ run'[r].live = run[r].live /\ run'[r].alone = run[r].alone
         /\ ~run'[r].bad => ~run[r].bad /\ ~Failing(r, p)
<1> DEFINE d == Disturbed(r)
<1>1. d \in [Procs -> Runs] /\ r \in Procs /\ d[r] = run[r] /\ run[r] \in Command
  BY DisturbedShape, ActiveIsCommand
<1>2. run'[r] # Idle
  BY MoveShape, RenameAssumption
<1>3. CASE GoTo(r, p) /\ ~Failing(r, p)
  <2>1. run' = [d EXCEPT ![r] = [d[r] EXCEPT !.pc = p]]
    BY <1>3 DEF GoTo
  <2> HIDE DEF d
  <2> QED BY <2>1, <1>1, <1>2, <1>3 DEF Command
<1>4. CASE Wrote(r, p) /\ ~Failing(r, p)
  <2>1. run' = [d EXCEPT ![r] = [d[r] EXCEPT !.pc = p, !.quiet = FALSE]]
    BY <1>4, <1>1 DEF Wrote
  <2> HIDE DEF d
  <2> QED BY <2>1, <1>1, <1>2, <1>4 DEF Command
<1>5. CASE Failing(r, p)
  <2>1. run' = [d EXCEPT ![r] = [d[r] EXCEPT !.pc = p, !.quiet = FALSE, !.bad = TRUE]]
    BY <1>5, <1>1 DEF Failing
  <2> HIDE DEF d
  <2> QED BY <2>1, <1>1, <1>2 DEF Command
<1> QED BY <1>3, <1>4, <1>5

\* And with what r ends.
LEMMA EndFields ==
  ASSUME run \in [Procs -> Runs], NEW r \in Active, NEW p \in {"ok", "failed"}, End(r, p)
  PROVE  /\ run'[r].pc = p
         /\ run'[r].old = run[r].old /\ run'[r].new = run[r].new /\ run'[r].alone = run[r].alone
         /\ r \notin Active'
<1> DEFINE d == Disturbed(r)
<1>1. d \in [Procs -> Runs] /\ r \in Procs /\ d[r] = run[r] /\ run[r] \in Command
  BY DisturbedShape, ActiveIsCommand
<1>2. run' = [d EXCEPT ![r] = [pc |-> p, old |-> d[r].old, new |-> d[r].new, alone |-> d[r].alone]]
  BY DEF End
<1> HIDE DEF d
<1>3. r \notin Active'
  BY EndShape DEF Active, Over, Steps
<1> QED BY <1>1, <1>2, <1>3

LEMMA BeginFields ==
  ASSUME TypeOK, NEW r \in Procs, NEW old, NEW new, Begin(r, old, new)
  PROVE  /\ run'[r].pc = "plane" /\ run'[r].old = old /\ run'[r].new = new
         /\ run'[r].resumed = Resumes(old, new) /\ run'[r].index = reg /\ run'[r].live = board
         /\ ~run'[r].bad /\ run'[r].alone = (Active = {})
<1> DEFINE d == Disturbed(r)
<1>1. d \in [Procs -> Runs]
  BY DisturbedShape DEF TypeOK
<1> HIDE DEF d
<1> QED BY <1>1 DEF Begin, d

\* What another command left to happen disturbs all but the runs whose own it is.
LEMMA ContestedAlone ==
  ASSUME run \in [Procs -> Runs], NEW own, run' = Contested(own)
  PROVE  \A q \in Alone' : q \in Alone /\ q \in own /\ run'[q] = run[q]
<1> SUFFICES ASSUME NEW q \in Alone' PROVE q \in Alone /\ q \in own /\ run'[q] = run[q]
  OBVIOUS
<1>1. /\ q \in Procs /\ run'[q] # Idle /\ run'[q].alone
      /\ run'[q] = IF q \in own \/ run[q] = Idle THEN run[q] ELSE [run[q] EXCEPT !.alone = FALSE]
  BY DEF Alone, Contested
<1>2. ASSUME q \notin own, run[q] # Idle PROVE FALSE
  <2>1. run[q] \in Command \/ run[q] \in Over
    BY <1>1, <1>2 DEF Runs
  <2>2. ~[run[q] EXCEPT !.alone = FALSE].alone
    BY <2>1 DEF Command, Over
  <2> QED BY <1>1, <1>2, <2>2
<1> QED BY <1>1, <1>2 DEF Alone

\* At most one run is alone, after a step, a start or an end of r.
LEMMA StepSole ==
  ASSUME Inv, Sole, NEW r \in Procs, run' \in [Procs -> Runs],
         \A q \in Procs \ {r} : run'[q] = Disturbed(r)[q],
         r \in Alone' => r \in Alone \/ Active = {}
  PROVE  Sole'
<1>1. run \in [Procs -> Runs]
  BY DEF Inv, TypeOK
<1>2. Alone' \subseteq {r}
  BY <1>1, OnlyOwnAlone
<1>3. \A q \in Active' \ {r} : q \in Active
  BY <1>1, OthersKeep
<1> QED BY <1>2, <1>3 DEF Sole, Active

\* What a step of r that ends in good order has to show for r to be on its way.
LEMMA StepProgress ==
  ASSUME NEW r, Alone' \subseteq {r},
         r \in Alone' => /\ Accepted(run[r].old, run[r].new)'
                         /\ r \in Active' => Done(run[r])'
                         /\ run'[r].pc = "ok" => Renamed(run[r].old, run[r].new)'
  PROVE  Progress'
BY DEF Progress

\* An undisturbed command starts, or starts again.
LEMMA StartUndisturbed ==
  ASSUME Inv, Undisturbed, NEW r \in Procs, NEW old \in Keys, NEW new \in Keys,
         Accepted(old, new), Begin(r, old, new),
         UNCHANGED <<setup, board, wire, local, quotes, shown>>
  PROVE  Undisturbed'
<1>1. /\ run' \in [Procs -> Runs]
      /\ \A q \in Procs \ {r} : run'[q] = Disturbed(r)[q]
  BY BeginShape DEF Inv
<1>2. /\ run'[r].pc = "plane" /\ run'[r].old = old /\ run'[r].new = new
      /\ run'[r].resumed = Resumes(old, new) /\ run'[r].index = reg /\ run'[r].live = board
      /\ ~run'[r].bad /\ run'[r].alone = (Active = {})
  BY BeginFields DEF Inv
<1>3. UNCHANGED <<plane, service, board, manifest, reg>>
  BY DEF setup, local
<1>4. Sole'
  BY <1>1, <1>2, StepSole DEF Alone, Undisturbed
<1>5. Alone' \subseteq {r}
  BY <1>1, OnlyOwnAlone DEF Inv, TypeOK
<1>6. Catching'
  BY <1>3 DEF Undisturbed, Catching
<1>7. Accepted(run[r].old, run[r].new)'
  BY <1>2, <1>3 DEF Accepted, Resumes
<1>8. Done(run[r])'
  BY <1>2, <1>3 DEF Done, Resumes, Undisturbed, Catching
<1>9. Progress'
  BY <1>2, <1>5, <1>7, <1>8, StepProgress
<1> QED BY <1>4, <1>6, <1>9 DEF Undisturbed

\* The fields of a run that is alone.
LEMMA AloneFields ==
  ASSUME Inv, Undisturbed, NEW r \in Alone
  PROVE  /\ run[r].old \in Keys /\ run[r].new \in Keys /\ run[r].new # NoKey
         /\ Accepted(run[r].old, run[r].new)
         /\ r \in Active => Done(run[r])
         /\ run[r].pc = "ok" => Renamed(run[r].old, run[r].new)
<1>1. run[r] \in Command \/ run[r] \in Over
  BY DEF Alone, Inv, TypeOK, Runs
<1> QED BY <1>1, RenameAssumption DEF Command, Over, Undisturbed, Progress

----------------------------------------------------------------------------
(* Every step leaves an undisturbed command on its way *)

\* A step of r that goes on: it must leave what the next step of an undisturbed r expects.
LEMMA MoveUndisturbed ==
  ASSUME Inv, Undisturbed, NEW r \in Active, NEW p \in Steps,
         GoTo(r, p) \/ Wrote(r, p) \/ Failing(r, p),
         Catching',
         \A old, new : r \in Alone /\ old = run[r].old /\ new = run[r].new => Accepted(old, new)',
         \A c : /\ r \in Alone /\ c.pc = p
                /\ c.old = run[r].old /\ c.new = run[r].new /\ c.live = run[r].live
                /\ c.resumed = run[r].resumed /\ c.index = run[r].index
                /\ ~c.bad => ~run[r].bad /\ ~Failing(r, p)
                => Done(c)'
  PROVE  Undisturbed'
<1>1. run \in [Procs -> Runs] /\ r \in Procs
  BY DEF Inv, TypeOK, Active
<1>2. /\ run' \in [Procs -> Runs]
      /\ \A q \in Procs \ {r} : run'[q] = Disturbed(r)[q]
  BY <1>1, MoveShape
<1>3. /\ run'[r].pc = p /\ run'[r] # Idle
      /\ run'[r].old = run[r].old /\ run'[r].new = run[r].new
      /\ run'[r].resumed = run[r].resumed /\ run'[r].index = run[r].index
      /\ run'[r].live = run[r].live /\ run'[r].alone = run[r].alone
      /\ ~run'[r].bad => ~run[r].bad /\ ~Failing(r, p)
  BY <1>1, MoveFields
<1>4. r \in Alone' => r \in Alone
  BY <1>1, <1>3 DEF Alone, Active
<1>5. Sole'
  BY <1>1, <1>2, <1>4, StepSole DEF Undisturbed
<1>6. Alone' \subseteq {r}
  BY <1>1, <1>2, OnlyOwnAlone
<1>7. r \in Alone' => Accepted(run[r].old, run[r].new)' /\ Done(run[r])'
  BY <1>3, <1>4
<1>8. run'[r].pc # "ok"
  BY <1>3 DEF Steps
<1>9. Progress'
  BY <1>6, <1>7, <1>8, StepProgress
<1> QED BY <1>5, <1>9 DEF Undisturbed

\* A step with which r ends.
LEMMA EndUndisturbed ==
  ASSUME Inv, Undisturbed, NEW r \in Active, NEW p \in {"ok", "failed"}, End(r, p),
         Catching',
         \A old, new : r \in Alone /\ old = run[r].old /\ new = run[r].new =>
           Accepted(old, new)' /\ (p = "ok" => Renamed(old, new)')
  PROVE  Undisturbed'
<1>1. run \in [Procs -> Runs] /\ r \in Procs /\ run[r] # Idle
  BY DEF Inv, TypeOK, Active
<1>2. /\ run' \in [Procs -> Runs]
      /\ \A q \in Procs \ {r} : run'[q] = Disturbed(r)[q]
  BY <1>1, EndShape
<1>3. /\ run'[r].pc = p
      /\ run'[r].old = run[r].old /\ run'[r].new = run[r].new /\ run'[r].alone = run[r].alone
      /\ r \notin Active'
  BY <1>1, EndFields
<1>4. r \in Alone' => r \in Alone
  BY <1>1, <1>3 DEF Alone
<1>5. Sole'
  BY <1>1, <1>2, <1>4, StepSole DEF Undisturbed
<1>6. Alone' \subseteq {r}
  BY <1>1, <1>2, OnlyOwnAlone
<1>7. r \in Alone' => Accepted(run[r].old, run[r].new)' /\ (p = "ok" => Renamed(run[r].old, run[r].new)')
  BY <1>3, <1>4
<1>8. Progress'
  BY <1>3, <1>6, <1>7, StepProgress
<1> QED BY <1>5, <1>8 DEF Undisturbed

\* Nothing that a run relies on has changed: it would be accepted as before.
LEMMA StillAccepted ==
  ASSUME UNCHANGED <<plane, manifest, reg>>, NEW old, NEW new, Accepted(old, new)
  PROVE  Accepted(old, new)'
BY DEF Accepted, Resumes

LEMMA PlaneUndisturbed ==
  ASSUME Inv, Undisturbed, NEW r \in Active, Plane(r) \/ ReadBack(r)
  PROVE  Undisturbed'
<1>1. UNCHANGED <<plane, service, board, manifest, reg, role, fleet, hints, candy>>
  BY DEF Plane, ReadBack, setup, local, quotes
<1>2. Catching'
  BY <1>1 DEF Undisturbed, Catching
<1>3. r \in Alone => Accepted(run[r].old, run[r].new) /\ Done(run[r])
  BY AloneFields
<1>4. \A old, new : r \in Alone /\ old = run[r].old /\ new = run[r].new => Accepted(old, new)'
  BY <1>1, <1>3, StillAccepted
<1>5. CASE Plane(r)
  <2>1. run[r].pc = "plane"
    BY <1>5 DEF Plane
  <2>2. CASE plane /\ run[r].live # run[r].new
    <3>1. Wrote(r, "readback")
      BY <1>5, <2>2 DEF Plane
    <3>2. ASSUME NEW c, r \in Alone, c.pc = "readback",
                 c.old = run[r].old, c.new = run[r].new, c.live = run[r].live,
                 c.resumed = run[r].resumed, c.index = run[r].index
          PROVE  Done(c)'
      BY <1>1, <1>3, <2>1, <3>2 DEF Done
    <3> QED BY <1>2, <1>4, <3>1, <3>2, MoveUndisturbed DEF Steps
  <2>3. CASE ~(plane /\ run[r].live # run[r].new)
    <3>1. GoTo(r, "manifest")
      BY <1>5, <2>3 DEF Plane
    <3>2. ASSUME NEW c, r \in Alone, c.pc = "manifest",
                 c.old = run[r].old, c.new = run[r].new, c.live = run[r].live,
                 c.resumed = run[r].resumed, c.index = run[r].index
          PROVE  Done(c)'
      BY <1>1, <1>3, <2>1, <2>3, <3>2 DEF Done
    <3> QED BY <1>2, <1>4, <3>1, <3>2, MoveUndisturbed DEF Steps
  <2> QED BY <2>2, <2>3
<1>6. CASE ReadBack(r)
  <2>1. run[r].pc = "readback"
    BY <1>6 DEF ReadBack
  <2>2. CASE board = run[r].new
    <3>1. GoTo(r, "manifest")
      BY <1>6, <2>2 DEF ReadBack
    <3>2. ASSUME NEW c, r \in Alone, c.pc = "manifest",
                 c.old = run[r].old, c.new = run[r].new, c.live = run[r].live,
                 c.resumed = run[r].resumed, c.index = run[r].index
          PROVE  Done(c)'
      BY <1>1, <1>3, <2>1, <2>2, <3>2 DEF Done
    <3> QED BY <1>2, <1>4, <3>1, <3>2, MoveUndisturbed DEF Steps
  <2>3. CASE board # run[r].new
    <3>1. End(r, "failed")
      BY <1>6, <2>3 DEF ReadBack
    <3> QED BY <1>2, <1>4, <3>1, EndUndisturbed
  <2> QED BY <2>2, <2>3
<1> QED BY <1>5, <1>6

\* The provenance that the manifest step leaves is that of the command.
LEMMA WriteManifestUndisturbed ==
  ASSUME Inv, Undisturbed, NEW r \in Active, WriteManifest(r)
  PROVE  Undisturbed'
<1>1. UNCHANGED <<plane, service, board, reg, role, fleet, hints, candy>>
  BY DEF WriteManifest, setup, quotes
<1>2. /\ run[r].pc = "manifest"
      /\ manifest'.id = run[r].new
      /\ manifest'.ident = NextIdent(manifest.ident, run[r].new)
      /\ manifest'.from = Provenance(r)
  BY DEF WriteManifest
<1>3. r \in Alone => /\ Accepted(run[r].old, run[r].new) /\ Done(run[r])
  BY AloneFields
<1>4. Catching'
  BY <1>1, <1>2 DEF Undisturbed, Catching, NextIdent
<1>5. r \in Alone /\ run[r].old # run[r].new => manifest'.from.id = run[r].old
  BY <1>2, <1>3 DEF Provenance, Done
<1>6. r \in Alone /\ run[r].resumed => manifest'.from.id = run[r].old
  BY <1>2, <1>3 DEF Provenance, Done
<1>7. \A old, new : r \in Alone /\ old = run[r].old /\ new = run[r].new => Accepted(old, new)'
  BY <1>1, <1>3, <1>5, <1>6 DEF Accepted, Resumes
<1>8. GoTo(r, "registry") \/ Wrote(r, "registry")
  BY DEF WriteManifest
<1>9. ASSUME NEW c, r \in Alone, c.pc = "registry",
             c.old = run[r].old, c.new = run[r].new, c.live = run[r].live,
             c.resumed = run[r].resumed, c.index = run[r].index
      PROVE  Done(c)'
  BY <1>1, <1>2, <1>3, <1>5, <1>6, <1>9 DEF Done, NextIdent
<1> QED BY <1>4, <1>7, <1>8, <1>9, MoveUndisturbed DEF Steps

\* The registry step leaves the record under the new key.
LEMMA RegisterUndisturbed ==
  ASSUME Inv, Undisturbed, NEW r \in Active, Register(r)
  PROVE  Undisturbed'
<1>1. UNCHANGED <<plane, service, board, manifest, role, fleet, hints, candy>> /\ run[r].pc = "registry"
  BY DEF Register, setup, quotes
<1>2. r \in Alone => /\ Accepted(run[r].old, run[r].new) /\ Done(run[r])
                     /\ manifest.id = run[r].new
                     /\ run[r].old # run[r].new => manifest.from.id = run[r].old
                     /\ plane => manifest.ident = run[r].new
  BY <1>1, AloneFields DEF Done
<1>3. CASE Settled(r)
  <2>1. UNCHANGED reg /\ GoTo(r, "role")
    BY <1>3 DEF Register
  <2>2. Catching'
    BY <1>1, <2>1 DEF Undisturbed, Catching
  <2>3. \A old, new : r \in Alone /\ old = run[r].old /\ new = run[r].new => Accepted(old, new)'
    BY <1>1, <1>2, <2>1, StillAccepted
  <2>4. run[r].index.id = run[r].new /\ (plane => run[r].index.ident = run[r].new)
    BY <1>3 DEF Settled, NextIdent
  <2>5. ASSUME NEW c, r \in Alone, c.pc = "role",
               c.old = run[r].old, c.new = run[r].new, c.live = run[r].live,
               c.resumed = run[r].resumed, c.index = run[r].index
        PROVE  Done(c)'
    BY <1>1, <1>2, <2>1, <2>4, <2>5 DEF Done
  <2> QED BY <2>1, <2>2, <2>3, <2>5, MoveUndisturbed DEF Steps
<1>4. CASE ~Settled(r) /\ service
  <2>1. reg' = Indexed
    BY <1>4 DEF Register
  <2>2. reg'.id = manifest.id /\ reg'.ident = manifest.ident
    BY <2>1 DEF Indexed
  <2>3. Catching'
    BY <1>1, <2>2 DEF Catching
  <2>4. \A old, new : r \in Alone /\ old = run[r].old /\ new = run[r].new => Accepted(old, new)'
    BY <1>1, <1>2, <2>2 DEF Accepted, Resumes
  <2>5. CASE manifest.id = run[r].new
    <3>1. Wrote(r, "role")
      BY <1>4, <2>5 DEF Register
    <3>2. ASSUME NEW c, r \in Alone, c.pc = "role",
                 c.old = run[r].old, c.new = run[r].new, c.live = run[r].live,
                 c.resumed = run[r].resumed, c.index = run[r].index
          PROVE  Done(c)'
      BY <1>1, <1>2, <2>2, <3>2 DEF Done
    <3> QED BY <2>3, <2>4, <3>1, <3>2, MoveUndisturbed DEF Steps
  <2>6. CASE manifest.id # run[r].new
    <3>1. End(r, "failed")
      BY <1>4, <2>6 DEF Register
    <3> QED BY <2>3, <2>4, <3>1, EndUndisturbed
  <2> QED BY <2>5, <2>6
<1>5. CASE ~Settled(r) /\ ~service /\ reg.id = run[r].old
  <2>1. reg' = [id |-> run[r].new, ident |-> NextIdent(reg.ident, run[r].new)] /\ Wrote(r, "role")
    BY <1>5 DEF Register
  <2>2. reg'.id = run[r].new /\ (plane => reg'.ident = run[r].new)
    BY <2>1 DEF NextIdent
  <2>3. Catching'
    BY <1>1, <1>5 DEF Catching
  <2>4. \A old, new : r \in Alone /\ old = run[r].old /\ new = run[r].new => Accepted(old, new)'
    BY <1>1, <1>2, <2>2 DEF Accepted, Resumes
  <2>5. ASSUME NEW c, r \in Alone, c.pc = "role",
               c.old = run[r].old, c.new = run[r].new, c.live = run[r].live,
               c.resumed = run[r].resumed, c.index = run[r].index
        PROVE  Done(c)'
    BY <1>1, <1>2, <2>2, <2>5 DEF Done
  <2> QED BY <2>1, <2>3, <2>4, <2>5, MoveUndisturbed DEF Steps
<1>6. CASE ~Settled(r) /\ ~service /\ reg.id # run[r].old
  <2>1. UNCHANGED reg /\ End(r, "failed")
    BY <1>6 DEF Register
  <2>2. Catching'
    BY <1>1, <2>1 DEF Undisturbed, Catching
  <2>3. \A old, new : r \in Alone /\ old = run[r].old /\ new = run[r].new => Accepted(old, new)'
    BY <1>1, <1>2, <2>1, StillAccepted
  <2> QED BY <2>1, <2>2, <2>3, EndUndisturbed
<1> QED BY <1>3, <1>4, <1>5, <1>6

\* What stands when the steps that follow the registry begin.
LEMMA Written ==
  ASSUME Inv, Undisturbed, NEW r \in Active, r \in Alone,
         run[r].pc \in {"role", "fleet", "agents", "hints", "candy"}
  PROVE  /\ manifest.id = run[r].new /\ reg.id = run[r].new
         /\ run[r].old # run[r].new => manifest.from.id = run[r].old
         /\ plane => board = run[r].new /\ manifest.ident = run[r].new /\ reg.ident = run[r].new
         /\ Accepted(run[r].old, run[r].new) /\ Done(run[r])
<1>1. Accepted(run[r].old, run[r].new) /\ Done(run[r])
  BY AloneFields
<1> QED BY <1>1 DEF Done

LEMMA RoleUndisturbed ==
  ASSUME Inv, Undisturbed, NEW r \in Active, Role(r)
  PROVE  Undisturbed'
<1>1. UNCHANGED <<plane, service, board, manifest, reg, fleet, hints, candy>> /\ run[r].pc = "role"
  BY DEF Role, setup, local
<1>2. Catching'
  BY <1>1 DEF Undisturbed, Catching
<1>3. \A old, new : r \in Alone /\ old = run[r].old /\ new = run[r].new => Accepted(old, new)'
  BY <1>1, Written, StillAccepted
<1>4. plane => role' = run[r].new
  BY DEF Role
<1>5. ASSUME NEW c, r \in Alone, c.pc = "fleet",
             c.old = run[r].old, c.new = run[r].new, c.live = run[r].live,
             c.resumed = run[r].resumed, c.index = run[r].index
      PROVE  Done(c)'
  BY <1>1, <1>4, <1>5, Written DEF Done
<1>6. GoTo(r, "fleet") \/ Wrote(r, "fleet")
  BY DEF Role
<1> QED BY <1>2, <1>3, <1>5, <1>6, MoveUndisturbed DEF Steps

\* The sync finds the board at the new key, so that it brings nothing else anywhere.
LEMMA FleetUndisturbed ==
  ASSUME Inv, Undisturbed, NEW r \in Active, Fleet(r)
  PROVE  Undisturbed'
<1>1. UNCHANGED <<plane, service, board, role, hints, candy>> /\ run[r].pc = "fleet"
  BY DEF Fleet, setup
<1>2. /\ manifest'.id = manifest.id /\ manifest'.from = manifest.from /\ reg'.id = reg.id
      /\ manifest'.ident \in {manifest.ident, board} /\ reg'.ident \in {reg.ident, board}
      /\ plane /\ service => (reg'.ident = reg.ident /\ manifest'.ident = manifest.ident) \/ reg'.ident = manifest'.ident
  BY DEF Fleet, local, Inv, TypeOK, Entry
<1>3. Catching'
  BY <1>1, <1>2 DEF Undisturbed, Catching
<1>4. \A old, new : r \in Alone /\ old = run[r].old /\ new = run[r].new => Accepted(old, new)'
  BY <1>1, <1>2, Written DEF Accepted, Resumes
<1>5. GoTo(r, "agents") \/ Wrote(r, "agents") \/ Failing(r, "agents")
  BY DEF Fleet
<1>6. r \in Alone /\ plane => fleet' = run[r].new
  BY <1>1, Written DEF Fleet
<1>7. ASSUME NEW c, r \in Alone, c.pc = "agents",
             c.old = run[r].old, c.new = run[r].new, c.live = run[r].live,
             c.resumed = run[r].resumed, c.index = run[r].index,
             ~c.bad => ~run[r].bad
      PROVE  Done(c)'
  BY <1>1, <1>2, <1>6, <1>7, Written DEF Done
<1> QED BY <1>3, <1>4, <1>5, <1>7, MoveUndisturbed DEF Steps

LEMMA AgentsUndisturbed ==
  ASSUME Inv, Undisturbed, NEW r \in Active, Agents(r)
  PROVE  Undisturbed'
<1>1. UNCHANGED <<plane, service, board, manifest, reg, role, fleet, hints, candy>> /\ run[r].pc = "agents"
  BY DEF Agents, setup, local
<1>2. Catching'
  BY <1>1 DEF Undisturbed, Catching
<1>3. \A old, new : r \in Alone /\ old = run[r].old /\ new = run[r].new => Accepted(old, new)'
  BY <1>1, Written, StillAccepted
<1>4. ASSUME NEW c, r \in Alone, c.pc = "hints",
             c.old = run[r].old, c.new = run[r].new, c.live = run[r].live,
             c.resumed = run[r].resumed, c.index = run[r].index,
             ~c.bad => ~run[r].bad
      PROVE  Done(c)'
  BY <1>1, <1>4, Written DEF Done
<1>5. GoTo(r, "hints") \/ Wrote(r, "hints")
  BY DEF Agents
<1> QED BY <1>2, <1>3, <1>4, <1>5, MoveUndisturbed DEF Steps

\* The entry of the old key is gone from the hints.
LEMMA HintsUndisturbed ==
  ASSUME Inv, Undisturbed, NEW r \in Active, Hints(r)
  PROVE  Undisturbed'
<1>1. UNCHANGED <<plane, service, board, manifest, reg, role, fleet, candy>> /\ run[r].pc = "hints"
  BY DEF Hints, setup, local
<1>2. Catching'
  BY <1>1 DEF Undisturbed, Catching
<1>3. \A old, new : r \in Alone /\ old = run[r].old /\ new = run[r].new => Accepted(old, new)'
  BY <1>1, Written, StillAccepted
<1>4. run[r].old # run[r].new => hints'[run[r].old] = Absent
  <2>1. hints \in [Keys -> (SUBSET Keys) \cup {Absent}] /\ run[r].old \in Keys /\ run[r].new \in Keys
    BY Fields DEF Inv, TypeOK
  <2>2. CASE run[r].old = run[r].new \/ hints[run[r].old] = Absent
    BY <2>2 DEF Hints
  <2>3. CASE ~(run[r].old = run[r].new \/ hints[run[r].old] = Absent)
    <3> DEFINE both == (IF hints[run[r].new] = Absent THEN {} ELSE hints[run[r].new])
                          \cup hints[run[r].old] \cup {run[r].old}
    <3>1. hints' = [hints EXCEPT ![run[r].new] = both, ![run[r].old] = Absent]
      BY <2>3 DEF Hints
    <3> HIDE DEF both
    <3> QED BY <2>1, <3>1
  <2> QED BY <2>2, <2>3
<1>5. ASSUME NEW c, r \in Alone, c.pc = "candy",
             c.old = run[r].old, c.new = run[r].new, c.live = run[r].live,
             c.resumed = run[r].resumed, c.index = run[r].index,
             ~c.bad => ~run[r].bad
      PROVE  Done(c)'
  BY <1>1, <1>4, <1>5, Written DEF Done
<1>6. GoTo(r, "candy") \/ Wrote(r, "candy")
  BY DEF Hints
<1> QED BY <1>2, <1>3, <1>5, <1>6, MoveUndisturbed DEF Steps

\* A command that ends well has renamed everything.
LEMMA CandystoreUndisturbed ==
  ASSUME Inv, Undisturbed, NEW r \in Active, Candystore(r)
  PROVE  Undisturbed'
<1>1. UNCHANGED <<plane, service, board, manifest, reg, role, fleet, hints>> /\ run[r].pc = "candy"
  BY DEF Candystore, setup, local
<1>2. Catching'
  BY <1>1 DEF Undisturbed, Catching
<1>3. \A old, new : r \in Alone /\ old = run[r].old /\ new = run[r].new => Accepted(old, new)'
  BY <1>1, Written, StillAccepted
<1>4. run[r].old # run[r].new => candy' = reg.id
  BY DEF Candystore, Skips
<1>5. CASE run[r].bad
  <2>1. End(r, "failed")
    BY <1>5 DEF Candystore
  <2> QED BY <1>2, <1>3, <2>1, EndUndisturbed
<1>6. CASE ~run[r].bad
  <2>1. End(r, "ok")
    BY <1>6 DEF Candystore
  <2>2. ASSUME NEW old, NEW new, r \in Alone, old = run[r].old, new = run[r].new
        PROVE  Renamed(old, new)'
    <3>1. Done(run[r])
      BY <1>1, <2>2, Written
    <3>2. /\ plane => role = new /\ fleet = new
          /\ old # new => hints[old] = Absent
      BY <1>1, <1>6, <2>2, <3>1 DEF Done
    <3> QED BY <1>1, <1>4, <2>2, <3>2, Written DEF Renamed
  <2> QED BY <1>2, <1>3, <2>1, <2>2, EndUndisturbed
<1> QED BY <1>5, <1>6

\* A step that fails before it has written, or the end of the process.
LEMMA FaultUndisturbed ==
  ASSUME Inv, Undisturbed, NEW r, StepFails(r) \/ Kill(r)
  PROVE  Undisturbed'
<1>1. r \in Active /\ UNCHANGED <<plane, service, board, manifest, reg, role, fleet, hints, candy>>
  BY DEF StepFails, Kill, setup, local, quotes
<1>2. Catching'
  BY <1>1 DEF Undisturbed, Catching
<1>3. r \in Alone => Accepted(run[r].old, run[r].new) /\ Done(run[r])
  BY <1>1, AloneFields
<1>4. \A old, new : r \in Alone /\ old = run[r].old /\ new = run[r].new => Accepted(old, new)'
  BY <1>1, <1>3, StillAccepted
<1>5. CASE End(r, "failed")
  BY <1>1, <1>2, <1>4, <1>5, EndUndisturbed
<1>6. ASSUME NEW from \in {"role", "fleet", "agents", "hints"},
             NEW p \in {"fleet", "agents", "hints", "candy"},
             run[r].pc = from, Failing(r, p)
      PROVE  Undisturbed'
  <2>1. ASSUME NEW c, r \in Alone, c.pc = p,
               c.old = run[r].old, c.new = run[r].new, c.live = run[r].live,
               c.resumed = run[r].resumed, c.index = run[r].index, c.bad
        PROVE  Done(c)'
    BY <1>1, <1>3, <1>6, <2>1 DEF Done
  <2> QED BY <1>1, <1>2, <1>4, <1>6, <2>1, MoveUndisturbed DEF Steps
<1>7. CASE StepFails(r) /\ ~End(r, "failed")
  <2>1. PICK i \in 1..4 : /\ run[r].pc = <<"role", "fleet", "agents", "hints">>[i]
                          /\ Failing(r, <<"fleet", "agents", "hints", "candy">>[i])
    BY <1>7 DEF StepFails
  <2> DEFINE from == <<"role", "fleet", "agents", "hints">>[i]
             p == <<"fleet", "agents", "hints", "candy">>[i]
  <2>2. from \in {"role", "fleet", "agents", "hints"} /\ p \in {"fleet", "agents", "hints", "candy"}
    OBVIOUS
  <2>3. run[r].pc = from /\ Failing(r, p)
    BY <2>1
  <2> HIDE DEF from, p
  <2> QED BY <2>2, <2>3, <1>6
<1> QED BY <1>5, <1>7 DEF Kill

\* What leaves the runs that stay alone as they are, and starts none.
LEMMA SameRuns ==
  ASSUME Sole, Catching', \A q \in Active' : q \in Active,
         \A q \in Alone' : /\ q \in Alone /\ run'[q] = run[q]
                           /\ Accepted(run[q].old, run[q].new)'
                           /\ q \in Active => Done(run[q])'
                           /\ run[q].pc = "ok" => Renamed(run[q].old, run[q].new)'
  PROVE  Undisturbed'
<1>1. Sole'
  BY DEF Sole
<1>2. Progress'
  BY DEF Progress
<1> QED BY <1>1, <1>2 DEF Undisturbed

\* The board comes to read the key of the runs that stay alone; the service re-reads a
\* manifest that they, or an earlier run of theirs, wrote.
LEMMA OutsideUndisturbed ==
  ASSUME Inv, Undisturbed, NEW k \in Keys, Land(k) \/ Lose(k) \/ ByHand(k) \/ Follow
  PROVE  Undisturbed'
<1>0. run \in [Procs -> Runs] /\ Sole
  BY DEF Inv, TypeOK, Undisturbed
<1>1. CASE Land(k)
  <2>1. /\ UNCHANGED <<plane, service, manifest, reg, role, fleet, hints, candy>> /\ board' = k
        /\ run' = Contested({r \in Procs : run[r] # Idle /\ run[r].new = k})
    BY <1>1 DEF Land, setup, local, quotes
  <2>2. Catching'
    BY <2>1 DEF Undisturbed, Catching
  <2>3. \A q \in Active' : q \in Active
    BY <1>0, <2>1, ContestedShape
  <2>4. ASSUME NEW q \in Alone'
        PROVE  /\ q \in Alone /\ run'[q] = run[q]
               /\ Accepted(run[q].old, run[q].new)'
               /\ q \in Active => Done(run[q])'
               /\ run[q].pc = "ok" => Renamed(run[q].old, run[q].new)'
    <3>1. q \in Alone /\ run'[q] = run[q] /\ run[q].new = k
      BY <1>0, <2>1, ContestedAlone
    <3>2. /\ Accepted(run[q].old, run[q].new)
          /\ q \in Active => Done(run[q])
          /\ run[q].pc = "ok" => Renamed(run[q].old, run[q].new)
      BY <3>1, AloneFields
    <3>3. \A old, new : Accepted(old, new) => Accepted(old, new)'
      BY <2>1, StillAccepted
    <3>4. \A c : c.new = k /\ Done(c) => Done(c)'
      BY <2>1 DEF Done
    <3>5. \A old, new : new = k /\ Renamed(old, new) => Renamed(old, new)'
      BY <2>1 DEF Renamed
    <3>6. Accepted(run[q].old, run[q].new)'
      BY <3>1, <3>2, <3>3
    <3>7. q \in Active => Done(run[q])'
      BY <3>1, <3>2, <3>4
    <3>8. run[q].pc = "ok" => Renamed(run[q].old, run[q].new)'
      BY <3>1, <3>2, <3>5
    <3> QED BY <3>1, <3>6, <3>7, <3>8
  <2> QED BY <1>0, <2>2, <2>3, <2>4, SameRuns
<1>2. CASE Lose(k)
  <2>1. UNCHANGED <<plane, service, board, manifest, reg, role, fleet, hints, candy, run>>
    BY <1>2 DEF Lose, setup, local, quotes
  <2> QED BY <2>1 DEF Undisturbed, Sole, Alone, Active, Catching, Progress, Accepted, Resumes, Done, Renamed
<1>3. CASE ByHand(k)
  <2>1. UNCHANGED <<plane, service, manifest, reg>> /\ run' = Disturbed(Idle) /\ Idle \notin Procs
    BY <1>3, RenameAssumption DEF ByHand, setup, local
  <2>2. Catching'
    BY <2>1 DEF Undisturbed, Catching
  <2>3. Alone' = {}
    <3>1. Alone' \subseteq {Idle}
      BY <1>0, <2>1, OnlyOwnAlone
    <3>2. Idle \notin Alone'
      BY <2>1 DEF Alone
    <3> QED BY <3>1, <3>2
  <2> QED BY <2>2, <2>3 DEF Undisturbed, Sole, Progress
<1>4. CASE Follow
  <2>1. /\ UNCHANGED <<plane, service, board, manifest, role, fleet, hints, candy>> /\ service
        /\ reg'.id = manifest.id /\ reg'.ident = manifest.ident
        /\ run' = Contested({r \in Procs : run[r] # Idle /\ Left(r)})
    BY <1>4 DEF Follow, Indexed, setup, quotes
  <2>2. Catching'
    BY <2>1 DEF Catching
  <2>3. \A q \in Active' : q \in Active
    BY <1>0, <2>1, ContestedShape
  <2>4. ASSUME NEW q \in Alone'
        PROVE  /\ q \in Alone /\ run'[q] = run[q]
               /\ Accepted(run[q].old, run[q].new)'
               /\ q \in Active => Done(run[q])'
               /\ run[q].pc = "ok" => Renamed(run[q].old, run[q].new)'
    <3>1. q \in Alone /\ run'[q] = run[q] /\ Left(q)
      BY <1>0, <2>1, ContestedAlone
    <3>2. /\ manifest.id = run[q].new
          /\ run[q].old # run[q].new => manifest.from.id = run[q].old
      BY <3>1 DEF Left
    <3>3. /\ Accepted(run[q].old, run[q].new)
          /\ q \in Active => Done(run[q])
          /\ run[q].pc = "ok" => Renamed(run[q].old, run[q].new)
      BY <3>1, AloneFields
    <3>4. ASSUME NEW old, NEW new, manifest.id = new, old # new => manifest.from.id = old, Accepted(old, new)
          PROVE  Accepted(old, new)'
      <4>1. CASE old = new  BY <2>1, <3>4, <4>1 DEF Accepted, Resumes
      <4>2. CASE old # new  BY <2>1, <3>4, <4>2 DEF Accepted, Resumes
      <4> QED BY <4>1, <4>2
    <3>5. \A c : manifest.id = c.new /\ Done(c) => Done(c)'
      BY <2>1 DEF Done
    <3>6. \A old, new : Renamed(old, new) => Renamed(old, new)'
      BY <2>1 DEF Renamed
    <3>7. Accepted(run[q].old, run[q].new)'
      BY <3>1, <3>2, <3>3, <3>4
    <3>8. q \in Active => Done(run[q])'
      BY <3>1, <3>2, <3>3, <3>5
    <3>9. run[q].pc = "ok" => Renamed(run[q].old, run[q].new)'
      BY <3>1, <3>3, <3>6
    <3> QED BY <3>1, <3>7, <3>8, <3>9
  <2> QED BY <1>0, <2>2, <2>3, <2>4, SameRuns
<1> QED BY <1>1, <1>2, <1>3, <1>4

LEMMA ReturnUndisturbed ==
  ASSUME Inv, Undisturbed, NEW r \in Procs, Return(r)
  PROVE  Undisturbed'
<1>1. /\ UNCHANGED <<plane, service, board, manifest, reg, role, fleet, hints, candy>>
      /\ run' = [run EXCEPT ![r] = Idle] /\ run \in [Procs -> Runs]
  BY DEF Return, Inv, TypeOK, setup, local, quotes
<1>2. Catching'
  BY <1>1 DEF Undisturbed, Catching
<1>3. \A q \in Procs : run'[q] # Idle => run'[q] = run[q]
  BY <1>1
<1>4. \A q \in Active' : q \in Active
  BY <1>3 DEF Active
<1>5. ASSUME NEW q \in Alone'
      PROVE  /\ q \in Alone /\ run'[q] = run[q]
             /\ Accepted(run[q].old, run[q].new)'
             /\ q \in Active => Done(run[q])'
             /\ run[q].pc = "ok" => Renamed(run[q].old, run[q].new)'
  <2>1. q \in Alone /\ run'[q] = run[q]
    BY <1>3 DEF Alone
  <2> QED BY <1>1, <2>1, AloneFields DEF Accepted, Resumes, Done, Renamed
<1> QED BY <1>2, <1>4, <1>5, SameRuns DEF Undisturbed

LEMMA InitUndisturbed == Init => Undisturbed
<1> SUFFICES ASSUME Init PROVE Undisturbed
  OBVIOUS
<1>1. \A r \in Procs : run[r] = Idle
  BY DEF Init
<1>2. Alone = {}
  BY <1>1 DEF Alone
<1>3. Catching
  BY DEF Init, Catching
<1> QED BY <1>2, <1>3 DEF Undisturbed, Sole, Progress

LEMMA NextUndisturbed == Inv /\ Undisturbed /\ [Next]_vars => Undisturbed'
<1> SUFFICES ASSUME Inv, Undisturbed, [Next]_vars PROVE Undisturbed'
  OBVIOUS
<1>1. ASSUME NEW r \in Procs, NEW c \in Commands, Start(r, c[1], c[2])
      PROVE  Undisturbed'
  <2>1. c[1] \in Keys /\ c[2] \in Keys
    BY RenameAssumption
  <2> QED BY <1>1, <2>1, StartUndisturbed DEF Start
<1>2. ASSUME NEW r \in Procs, Step(r)
      PROVE  Undisturbed'
  <2>1. r \in Active
    BY <1>2 DEF Step
  <2>2. CASE Plane(r) \/ ReadBack(r)  BY <2>1, <2>2, PlaneUndisturbed
  <2>3. CASE WriteManifest(r)  BY <2>1, <2>3, WriteManifestUndisturbed
  <2>4. CASE Register(r)  BY <2>1, <2>4, RegisterUndisturbed
  <2>5. CASE Role(r)  BY <2>1, <2>5, RoleUndisturbed
  <2>6. CASE Fleet(r)  BY <2>1, <2>6, FleetUndisturbed
  <2>7. CASE Agents(r)  BY <2>1, <2>7, AgentsUndisturbed
  <2>8. CASE Hints(r)  BY <2>1, <2>8, HintsUndisturbed
  <2>9. CASE Candystore(r)  BY <2>1, <2>9, CandystoreUndisturbed
  <2> QED BY <1>2, <2>2, <2>3, <2>4, <2>5, <2>6, <2>7, <2>8, <2>9 DEF Step
<1>3. ASSUME NEW r \in Procs, Return(r)
      PROVE  Undisturbed'
  BY <1>3, ReturnUndisturbed
<1>4. ASSUME NEW r \in Procs, Rerun(r)
      PROVE  Undisturbed'
  <2>1. run[r] \in Over
    BY <1>4 DEF Rerun, Inv, TypeOK, Runs, Command, Steps
  <2>2. run[r].old \in Keys /\ run[r].new \in Keys
    BY <2>1 DEF Over
  <2> QED BY <1>4, <2>2, StartUndisturbed DEF Rerun
<1>5. ASSUME NEW r \in Procs, StepFails(r) \/ Kill(r)
      PROVE  Undisturbed'
  BY <1>5, FaultUndisturbed
<1>6. ASSUME NEW k \in Keys, Land(k) \/ Lose(k) \/ ByHand(k)
      PROVE  Undisturbed'
  BY <1>6, OutsideUndisturbed
<1>7. CASE Follow
  BY <1>7, RenameAssumption, OutsideUndisturbed
<1>8. CASE UNCHANGED vars
  <2>1. UNCHANGED <<plane, service, board, manifest, reg, role, fleet, hints, candy, run>>
    BY <1>8 DEF vars
  <2> QED BY <2>1 DEF Undisturbed, Sole, Alone, Active, Catching, Progress, Accepted, Resumes, Done, Renamed
<1> QED BY <1>1, <1>2, <1>3, <1>4, <1>5, <1>6, <1>7, <1>8 DEF Next

----------------------------------------------------------------------------
(* Theorems *)

\* The stores, the board and the commands have the shapes that the code gives them.
THEOREM TypeCorrect == Spec => []TypeOK
<1>1. Inv => TypeOK
  BY DEF Inv
<1> QED BY <1>1, InitInv, NextInv, PTL DEF Spec

\* "A local step must never get ahead of the provider, and the index must never get ahead
\* of the manifest" (rename.ts), for all keys, commands and processes, and any number of
\* faults: because every command has read what it writes, in this run, from the board.
THEOREM NeverGetsAhead == Spec => []NeverAhead
<1>1. Inv => NeverAhead
  BY DEF Inv
<1> QED BY <1>1, InitInv, NextInv, PTL DEF Spec

\* A command that reports ok, with nothing else at work on the project since it began, has
\* renamed it everywhere, wherever and however often earlier runs of it had stopped. Each
\* step finds what the ones before it, of this run or of an earlier one, brought about:
\* Progress says so, and Catching what the service may have to follow meanwhile.
THEOREM OkIsRenamed == Spec => []OkMeansRenamed
<1>1. Inv /\ Undisturbed => OkMeansRenamed
  BY DEF OkMeansRenamed, Undisturbed, Progress, Alone
<1> QED BY <1>1, InitInv, NextInv, InitUndisturbed, NextUndisturbed, PTL DEF Spec

\* "Re-run the same command to resume": what a failed run left is accepted again, because
\* the provenance is in the manifest before the registry can list the new key.
THEOREM FailedIsResumable == Spec => []Resumable
<1>1. Inv /\ Undisturbed => Resumable
  BY DEF Resumable, Undisturbed, Progress, Alone
<1> QED BY <1>1, InitInv, NextInv, InitUndisturbed, NextUndisturbed, PTL DEF Spec
=============================================================================

------------------------- MODULE ProjectInit_proofs -------------------------
(* What TLAPS proves of ProjectInit for every set of boards, notes and       *)
(* requests and every bound: the types, that the rollback of a fresh target  *)
(* takes no evidence of a remote effect with it, and that a run which says   *)
(* ok leaves one story.  Then the promises of SkillInstall, the skill that   *)
(* an init shares with its host, for every host whatever.                    *)
EXTENDS ProjectInit, SkillInstall, TLAPS

\* The latch is set before anything is asked of others, and stays set.
Latched ==
  /\ pc \notin {"plan", "over"} /\ sent # {} => q.keep
  /\ pc \in {"adapter", "link", "boardsave", "project", "save"} => q.keep

Inv == TypeOK /\ Latched

----------------------------------------------------------------------------
(* Data *)

LEMMA FreshIsDoc == Fresh \in Doc
BY ConstantsAssumption DEF Fresh, Doc

LEMMA IdleIsHeld == Idle \in Held
BY FreshIsDoc DEF Idle, Held

\* The service's merge of two records is a record.
LEMMA MergedIsDoc ==
  ASSUME q \in Held, q.base # Nothing, man \in Doc
  PROVE  Merged \in Doc
<1>1. q.base \in Doc /\ q.rec \in Doc
  BY DEF Held
<1>2. DOMAIN man = {"board", "sure", "nb", "note"}
  BY DEF Doc
<1>3. Merged = [board |-> Merged["board"], sure |-> Merged["sure"],
                nb |-> Merged["nb"], note |-> Merged["note"]]
  BY <1>2 DEF Merged
<1>4. /\ Merged["board"] \in {q.rec.board, man.board}
      /\ Merged["sure"] \in {q.rec.sure, man.sure}
      /\ Merged["nb"] \in {q.rec.nb, man.nb}
      /\ Merged["note"] \in {q.rec.note, man.note}
  BY <1>2 DEF Merged
<1>5. /\ Merged["board"] \in Boards \cup {Other, NoBoard}
      /\ Merged["sure"] \in BOOLEAN /\ Merged["nb"] \in BOOLEAN /\ Merged["note"] \in Notes
  BY <1>1, <1>4 DEF Doc
<1> HIDE DEF Merged
<1> QED BY <1>3, <1>5 DEF Doc

LEMMA SavedIsDoc ==
  ASSUME q \in Held, man \in Doc
  PROVE  Saved \in Doc
BY MergedIsDoc DEF Saved

LEMMA RefreshedIsHeld ==
  ASSUME q \in Held, man \in Doc
  PROVE  Refreshed \in Held /\ Refreshed.keep = q.keep
<1>1. [q.rec EXCEPT !.board = man.board,
                    !.sure = q.rec.sure /\ q.rec.board = man.board] \in Doc
  BY DEF Held, Doc
<1>2. Refreshed = [q EXCEPT !.doc = man,
                            !.rec = [q.rec EXCEPT !.board = man.board,
                                       !.sure = q.rec.sure /\ q.rec.board = man.board]]
  BY DEF Refreshed, Held
<1> QED BY <1>1, <1>2 DEF Held

LEMMA LoadedIsDoc ==
  ASSUME TypeOK
  PROVE  Loaded \in Doc \cup {Nothing} /\ Known \in Doc
BY FreshIsDoc DEF TypeOK, Loaded, Known

\* Setting the flags of a run.
LEMMA HeldFlags ==
  ASSUME q \in Held
  PROVE  /\ [q EXCEPT !.bad = TRUE] \in Held
         /\ [q EXCEPT !.bad = TRUE].keep = q.keep
         /\ [q EXCEPT !.final = TRUE] \in Held
         /\ [q EXCEPT !.final = TRUE].keep = q.keep
         /\ [q EXCEPT !.keep = TRUE, !.bad = TRUE] \in Held
         /\ [q EXCEPT !.keep = TRUE, !.bad = TRUE].keep
BY DEF Held

LEMMA FaultType ==
  ASSUME faults \in 0..MaxFaults, Fault
  PROVE  faults' \in 0..MaxFaults
BY ConstantsAssumption DEF Fault

LEMMA OnErrorStep == OnError \in {"refresh", "undo"}
BY DEF OnError

----------------------------------------------------------------------------
(* Every step keeps the invariant *)

LEMMA InitInv == Init => Inv
<1> SUFFICES ASSUME Init PROVE Inv
  OBVIOUS
<1>1. again \in 0..MaxAgain /\ edits \in 0..MaxEdits /\ faults \in 0..MaxFaults
  BY ConstantsAssumption DEF Init
<1> QED BY <1>1, IdleIsHeld DEF Init, Inv, TypeOK, Latched, Steps

LEMMA GateInv ==
  ASSUME Inv, Gate
  PROVE  Inv'
<1> USE DEF Inv
<1>1. /\ pc \in {"preflight", "deps", "local", "audit", "observe", "check"}
      /\ After[pc] \in {"copier", "local", "owned", "audit", "git", "board", "refresh", "undo"}
  BY DEF Gate, After, AfterLocal
<1>2. CASE /\ GoOn(After[pc])
           /\ q' = [q EXCEPT !.final = q.final \/ After[pc] = "board"]
  <2>1. q' \in Held /\ q'.keep = q.keep
    BY <1>2 DEF TypeOK, Held
  <2> QED BY <1>1, <1>2, <2>1 DEF Gate, GoOn, TypeOK, Latched, Steps, target, others
<1>3. CASE /\ Fault
           /\ pc' = IF pc = "check" THEN "undo" ELSE OnError
           /\ q' = [q EXCEPT !.bad = TRUE]
  <2>1. q' \in Held /\ q'.keep = q.keep /\ faults' \in 0..MaxFaults
    BY <1>3, HeldFlags, FaultType DEF TypeOK
  <2>2. pc' \in {"refresh", "undo"}
    BY <1>3, OnErrorStep
  <2> QED BY <1>1, <2>1, <2>2 DEF Gate, TypeOK, Latched, Steps, target, others
<1> QED BY <1>2, <1>3 DEF Gate

LEMMA PlanInv ==
  ASSUME Inv, Plan
  PROVE  Inv'
<1> USE DEF Inv
<1>1. q' \in Held /\ row' \in Doc \cup {Nothing} /\ faults' \in 0..MaxFaults
      /\ outcome' \in {"none", "ok", "failed", "killed"} /\ pc' \in {"begin", "over"}
  <2>1. CASE Fault /\ pc' = "over" /\ outcome' = "failed" /\ UNCHANGED <<q, row>>
    BY <2>1, FaultType DEF TypeOK
  <2>2. CASE /\ GoOn("begin") /\ row' = Loaded /\ UNCHANGED outcome
             /\ q' = [Idle EXCEPT !.rec = Known, !.doc = Known,
                                  !.expect = man, !.known = Known.board]
    <3>1. Known.board \in Boards \cup {Other, NoBoard}
      BY LoadedIsDoc DEF Doc
    <3>2. q' \in Held
      BY <2>2, <3>1, LoadedIsDoc, IdleIsHeld DEF TypeOK, Held
    <3> QED BY <2>2, <3>2, LoadedIsDoc DEF TypeOK, GoOn
  <2> QED BY <2>1, <2>2 DEF Plan
<1> QED BY <1>1 DEF Plan, TypeOK, Latched, Steps, target, others

LEMMA BeginInv ==
  ASSUME Inv, Begin
  PROVE  Inv'
<1>1. q' \in Held /\ q'.keep = q.keep
  BY DEF Begin, Inv, TypeOK, Held
<1> QED BY <1>1 DEF Begin, GoOn, AfterBegin, Inv, TypeOK, Latched, Steps, target, others

LEMMA CopierInv ==
  ASSUME Inv, Copier
  PROVE  Inv'
<1> USE DEF Inv
<1>1. /\ q' \in Held /\ q'.keep = q.keep /\ faults' \in 0..MaxFaults
      /\ man' \in Doc \cup {Nothing} /\ pc' \in {"manifest", "refresh", "undo"}
      /\ at' \in {"none", "dir", "link"}
  <2>1. q.doc \in Doc
    BY DEF TypeOK, Held
  <2> QED BY <2>1, HeldFlags, FaultType, OnErrorStep DEF Copier, TypeOK, GoOn, Err
<1> QED BY <1>1 DEF Copier, TypeOK, Latched, Steps, target, others

LEMMA WriteManifestInv ==
  ASSUME Inv, WriteManifest
  PROVE  Inv'
<1> USE DEF Inv
<1>1. /\ q' \in Held /\ q'.keep = q.keep /\ faults' \in 0..MaxFaults
      /\ man' \in Doc \cup {Nothing} /\ at' \in {"none", "dir", "link"}
      /\ pc' \in {"deps", "local", "observe", "refresh", "undo"}
  <2>1. q.doc \in Doc
    BY DEF TypeOK, Held
  <2> QED BY <2>1, HeldFlags, OnErrorStep DEF WriteManifest, TypeOK, GoOn, AfterManifest
<1> QED BY <1>1 DEF WriteManifest, TypeOK, Latched, Steps, target, others

LEMMA OwnedInv ==
  ASSUME Inv, Owned
  PROVE  Inv'
<1> USE DEF Inv
<1>1. /\ q' \in Held /\ q'.keep = q.keep /\ faults' \in 0..MaxFaults
      /\ pc' \in {"audit", "refresh", "undo"}
  BY HeldFlags, RefreshedIsHeld, FaultType, OnErrorStep DEF Owned, TypeOK, GoOn, Err
<1> QED BY <1>1 DEF Owned, TypeOK, Latched, Steps, target, others

LEMMA GitInv ==
  ASSUME Inv, Git
  PROVE  Inv'
<1> USE DEF Inv
<1>1. /\ q' \in Held /\ q'.keep = q.keep /\ faults' \in 0..MaxFaults
      /\ git' \in {"none", "init", "commit"} /\ pc' \in {"board", "refresh", "undo"}
  BY HeldFlags, FaultType, OnErrorStep DEF Git, TypeOK, GoOn, Err
<1> QED BY <1>1 DEF Git, TypeOK, Latched, Steps, others

LEMMA DispatchInv ==
  ASSUME Inv, Dispatch
  PROVE  Inv'
<1> USE DEF Inv
<1> DEFINE keep == q.keep \/ req.board # "off"
<1>0. keep \in BOOLEAN
  BY DEF TypeOK, Held
<1>1. CASE /\ GoOn(IF q.known = NoBoard /\ req.board = "on" THEN "adapter" ELSE "notebook")
           /\ row' = Loaded
           /\ q' = [q EXCEPT !.keep = keep, !.base = Loaded]
  <2>1. q' \in Held /\ q'.keep = keep /\ row' \in Doc \cup {Nothing}
    <3> HIDE DEF keep
    <3> QED BY <1>0, <1>1, LoadedIsDoc DEF TypeOK, Held
  <2>2. keep => q'.keep
    <3> HIDE DEF keep
    <3> QED BY <2>1
  <2>3. /\ q.keep => q'.keep
        /\ req.board = "on" => q'.keep
    BY <2>2
  <2>4. /\ pc = "board" /\ UNCHANGED <<at, git, man, boards, book, req, outcome, again, edits, faults, calm, sent>>
        /\ pc' \in {"adapter", "notebook"}
        /\ pc' = "adapter" => req.board = "on"
    BY <1>1 DEF Dispatch, GoOn, target, others
  <2>5. TypeOK'
    BY <2>1, <2>4 DEF TypeOK, Steps
  <2>6. Latched'
    <3> HIDE DEF keep
    <3> QED BY <2>3, <2>4 DEF Latched
  <2> QED BY <2>5, <2>6
<1>2. CASE /\ Throw /\ UNCHANGED row
           /\ q' = [q EXCEPT !.keep = keep, !.bad = TRUE]
  <2>1. q' \in Held /\ q'.keep = keep /\ faults' \in 0..MaxFaults
    <3> HIDE DEF keep
    <3> QED BY <1>0, <1>2, FaultType DEF TypeOK, Held, Throw
  <2>2. keep => q'.keep
    <3> HIDE DEF keep
    <3> QED BY <2>1
  <2>3. q.keep => q'.keep
    BY <2>2
  <2>4. /\ pc = "board" /\ UNCHANGED <<at, git, man, row, boards, book, req, outcome, again, edits, calm, sent>>
        /\ pc' = "undo"
    BY <1>2 DEF Dispatch, Throw, target, others
  <2>5. TypeOK'
    BY <2>1, <2>4 DEF TypeOK, Steps
  <2>6. Latched'
    <3> HIDE DEF keep
    <3> QED BY <2>3, <2>4 DEF Latched
  <2> QED BY <2>5, <2>6
<1> QED BY <1>1, <1>2 DEF Dispatch

LEMMA AdapterInv ==
  ASSUME Inv, Adapter
  PROVE  Inv'
<1> USE DEF Inv
<1>1. /\ q' \in Held /\ q'.keep = q.keep /\ faults' \in 0..MaxFaults
      /\ boards' \subseteq Boards /\ pc' \in {"link", "refresh", "undo"}
  <2>1. Created \subseteq Boards
    BY DEF Created, TypeOK
  <2>2. ASSUME NEW b \in Boards
        PROVE  [q EXCEPT !.found = b] \in Held /\ [q EXCEPT !.found = b].keep = q.keep
    BY DEF TypeOK, Held
  <2> QED BY <2>1, <2>2, HeldFlags, FaultType, OnErrorStep DEF Adapter, TypeOK, GoOn, Err
<1> QED BY <1>1 DEF Adapter, TypeOK, Latched, Steps, target

LEMMA LinkInv ==
  ASSUME Inv, Link
  PROVE  Inv'
<1> USE DEF Inv
<1>1. q' \in Held /\ q'.keep = q.keep /\ q'.doc \in Doc
  <2>1. /\ [q.rec EXCEPT !.board = q.found, !.sure = TRUE] \in Doc
        /\ [q.doc EXCEPT !.board = q.found, !.sure = TRUE] \in Doc
    BY DEF TypeOK, Held, Doc
  <2>2. q' = [q EXCEPT !.rec = [q.rec EXCEPT !.board = q.found, !.sure = TRUE],
                       !.doc = [q.doc EXCEPT !.board = q.found, !.sure = TRUE]]
    BY DEF Link, TypeOK, Held
  <2> QED BY <2>1, <2>2 DEF TypeOK, Held
<1>2. man' \in Doc
  <2>1. ASSUME man # Nothing
        PROVE  [man EXCEPT !.board = q.found, !.sure = TRUE] \in Doc
    BY <2>1 DEF TypeOK, Held, Doc
  <2> QED BY <1>1, <2>1 DEF Link
<1> QED BY <1>1, <1>2 DEF Link, GoOn, TypeOK, Latched, Steps, others

LEMMA SaveInv ==
  ASSUME Inv, Save
  PROVE  Inv'
<1> USE DEF Inv
<1>1. /\ q' \in Held /\ q'.keep = q.keep /\ faults' \in 0..MaxFaults
      /\ man' \in Doc \cup {Nothing} /\ row' \in Doc \cup {Nothing}
      /\ sent' \subseteq {"board", "notebook", "registry"}
      /\ pc' \in {"notebook", "undo", "check"}
  <2> DEFINE next == IF pc = "boardsave" THEN "notebook" ELSE IF q.bad THEN "undo" ELSE "check"
  <2>1. CASE q.base = q.rec /\ GoOn(next) /\ UNCHANGED <<man, row, q, sent>>
    BY <2>1 DEF TypeOK, GoOn
  <2>2. CASE /\ q.base # q.rec /\ ~Refused
             /\ man' = Saved /\ row' = Saved
             /\ sent' = sent \cup {"registry"}
             /\ \/ GoOn(next) /\ UNCHANGED q
                \/ Throw /\ q' = [q EXCEPT !.bad = TRUE]
    <3>1. Saved \in Doc
      BY <2>2, SavedIsDoc DEF Refused, TypeOK
    <3> QED BY <2>2, <3>1, HeldFlags, FaultType DEF TypeOK, GoOn, Throw
  <2>3. CASE /\ q.base # q.rec
             /\ sent' = sent \cup {"registry"}
             /\ \/ Refused /\ GoOn("undo")
                \/ Throw
             /\ q' = [q EXCEPT !.bad = TRUE]
             /\ UNCHANGED <<man, row>>
    BY <2>3, HeldFlags, FaultType DEF TypeOK, GoOn, Throw
  <2> QED BY <2>1, <2>2, <2>3 DEF Save
<1>2. pc \in {"boardsave", "save"}
  BY DEF Save
<1> QED BY <1>1, <1>2 DEF Save, TypeOK, Latched, Steps, others

LEMMA NotebookInv ==
  ASSUME Inv, Notebook
  PROVE  Inv'
<1> USE DEF Inv
<1>1. CASE ~req.live /\ GoOn("refresh") /\ UNCHANGED <<book, q, sent>>
  BY <1>1 DEF Notebook, GoOn, TypeOK, Latched, Steps, target
<1>2. CASE /\ sent' = sent \cup {"notebook"}
           /\ \/ /\ GoOn("project") /\ book' = TRUE
                 /\ q' = [q EXCEPT !.keep = TRUE, !.rec.nb = TRUE, !.doc.nb = TRUE]
              \/ /\ Err /\ book' \in {book, TRUE}
                 /\ q' = [q EXCEPT !.keep = TRUE, !.bad = TRUE]
  <2>1. /\ [q EXCEPT !.keep = TRUE, !.rec.nb = TRUE, !.doc.nb = TRUE] \in Held
        /\ [q EXCEPT !.keep = TRUE, !.rec.nb = TRUE, !.doc.nb = TRUE].keep
    <3>1. [q.rec EXCEPT !.nb = TRUE] \in Doc /\ [q.doc EXCEPT !.nb = TRUE] \in Doc
      BY DEF TypeOK, Held, Doc
    <3>2. [q EXCEPT !.keep = TRUE, !.rec.nb = TRUE, !.doc.nb = TRUE]
            = [q EXCEPT !.keep = TRUE, !.rec = [q.rec EXCEPT !.nb = TRUE],
                        !.doc = [q.doc EXCEPT !.nb = TRUE]]
      BY DEF TypeOK, Held
    <3> QED BY <3>1, <3>2 DEF TypeOK, Held
  <2>2. /\ q' \in Held /\ q'.keep /\ faults' \in 0..MaxFaults /\ book' \in BOOLEAN
        /\ pc' \in {"project", "refresh", "undo"}
    BY <1>2, <2>1, HeldFlags, FaultType, OnErrorStep DEF TypeOK, GoOn, Err
  <2> QED BY <1>2, <2>2 DEF Notebook, TypeOK, Latched, Steps, target
<1> QED BY <1>1, <1>2 DEF Notebook

LEMMA RefreshInv ==
  ASSUME Inv, Refresh
  PROVE  Inv'
<1>1. q' \in Held /\ q'.keep = q.keep
  BY HeldFlags, RefreshedIsHeld DEF Refresh, Inv, TypeOK
<1> QED BY <1>1 DEF Refresh, GoOn, Inv, TypeOK, Latched, Steps, target, others

LEMMA FinalizeInv ==
  ASSUME Inv, Finalize
  PROVE  Inv'
<1> USE DEF Inv
<1>1. /\ q' \in Held /\ q'.keep /\ faults' \in 0..MaxFaults
      /\ row' \in Doc \cup {Nothing} /\ pc' \in {"save", "undo"}
  <2>1. [q EXCEPT !.keep = TRUE, !.base = Loaded] \in Held
        /\ [q EXCEPT !.keep = TRUE, !.base = Loaded].keep
    BY LoadedIsDoc DEF TypeOK, Held
  <2> QED BY <2>1, LoadedIsDoc, HeldFlags, FaultType DEF Finalize, TypeOK, GoOn, Throw
<1> QED BY <1>1 DEF Finalize, TypeOK, Latched, Steps, target, others

LEMMA EndInv ==
  ASSUME Inv, Undo \/ Kill \/ Rerun
  PROVE  Inv'
<1> USE DEF Inv
<1>1. CASE Undo
  <2>1. /\ man' \in Doc \cup {Nothing} /\ at' \in {"none", "dir", "link"}
        /\ git' \in {"none", "init", "commit"} /\ faults' \in 0..MaxFaults
    BY <1>1, FaultType DEF Undo, TypeOK, target
  <2> QED BY <1>1, <2>1 DEF Undo, TypeOK, Latched, Steps, others
<1>2. CASE Kill
  BY <1>2, FaultType DEF Kill, TypeOK, Latched, Steps, target, others
<1>3. CASE Rerun
  <2>1. again' \in 0..MaxAgain
    BY <1>3, ConstantsAssumption DEF Rerun, TypeOK
  <2> QED BY <1>3, <2>1, IdleIsHeld DEF Rerun, TypeOK, Latched, Steps, target, others
<1> QED BY <1>1, <1>2, <1>3

LEMMA OthersInv ==
  ASSUME Inv, Others
  PROVE  Inv'
<1> USE DEF Inv
<1>1. man' \in Doc \cup {Nothing}
  <2>1. ASSUME man # Nothing
        PROVE  /\ \A n \in Notes : [man EXCEPT !.note = n] \in Doc
               /\ [man EXCEPT !.board = Other, !.sure = TRUE] \in Doc
    BY <2>1 DEF TypeOK, Doc
  <2> QED BY <2>1 DEF Others, TypeOK
<1>2. edits' \in 0..MaxEdits
  BY ConstantsAssumption DEF Others, TypeOK
<1>3. at' \in {"none", "dir", "link"} /\ git' \in {"none", "init", "commit"}
  BY DEF Others, TypeOK
<1>4. UNCHANGED <<row, others, pc, req, q, outcome, again, faults, sent>> /\ calm' = FALSE
  BY DEF Others
<1> QED BY <1>1, <1>2, <1>3, <1>4 DEF TypeOK, Latched, others

LEMMA NextInv ==
  ASSUME Inv, [Next]_vars
  PROVE  Inv'
<1>1. CASE UNCHANGED vars
  BY <1>1 DEF vars, target, others, budget, Inv, TypeOK, Latched
<1>2. CASE Next
  BY <1>2, GateInv, PlanInv, BeginInv, CopierInv, WriteManifestInv, OwnedInv, GitInv,
     DispatchInv, AdapterInv, LinkInv, SaveInv, NotebookInv, RefreshInv, FinalizeInv,
     EndInv, OthersInv DEF Next, Step
<1> QED BY <1>1, <1>2

LEMMA Invariance == Spec => []Inv
<1>1. Inv /\ [Next]_vars => Inv'
  BY NextInv
<1> QED BY <1>1, InitInv, PTL DEF Spec

----------------------------------------------------------------------------
(* What a run that says it succeeded leaves: one story *)

\* What every record says, wherever a run or the disk holds it: its board is
\* one that exists or another command's, its notebook exists, and a board that
\* is known to be linked is a board.
Sound(d, bs, bk) ==
  d # Nothing => /\ d.board \in bs \cup {Other, NoBoard}
                 /\ d.nb => bk
                 /\ d.sure => d.board # NoBoard

Records == /\ Sound(man, boards, book) /\ Sound(row, boards, book)
           /\ Sound(q.rec, boards, book) /\ Sound(q.doc, boards, book)
           /\ Sound(q.base, boards, book) /\ Sound(q.expect, boards, book)

\* However many answers were lost, there is at most one board, and the one a
\* run found is there.
OneBoard ==
  /\ boards = {} \/ \E b \in Boards : boards = {b}
  /\ pc = "link" => q.found \in boards

\* What the manifest may have become since the run took its snapshot: this is
\* what keeps the merge of a save from making up a link.
SinceBase ==
  /\ pc = "boardsave" => /\ q.rec.board # NoBoard
                         /\ man # Nothing => man.board # NoBoard
  /\ pc = "save" /\ q.base # Nothing /\ man # Nothing =>
       \/ man.board = q.base.board /\ man.sure = q.base.sure
       \/ man.board = Other /\ man.sure /\ q.base.board # Other

Early  == {"begin", "preflight", "copier", "manifest"}
Written == Steps \ (Early \cup {"plan", "project", "over"})
Linked == {"boardsave", "notebook", "project", "observe", "refresh", "finalize", "save", "check", "undo"}
Bound  == Linked \ {"boardsave", "notebook"}

\* The story of a run that nobody disturbs and that has met no error: what it
\* holds is what the manifest says, and each step has left its mark.
Story ==
  calm /\ ~q.bad =>
    /\ pc \notin {"plan", "over"} => q.rec = q.doc
    /\ pc \in Written => q.doc = man
    /\ pc \in Early \cup (Written \ Linked) => q.known = q.doc.board
    /\ pc \in Linked /\ req.board = "on" => q.doc.board # NoBoard
    /\ pc \in Bound /\ req.live => q.doc.nb
    /\ pc \in Linked \cup {"board", "adapter", "link"} /\ req.create => git # "none"
    /\ pc = "save" => q.base = Nothing \/ (q.base = man /\ row = man)
    /\ pc \in {"check", "undo"} => row = man

\* How a run that ended well left things, until anybody moves.
Ended ==
  /\ pc # "over" => outcome = "none"
  /\ outcome = "ok" /\ calm =>
       /\ man # Nothing /\ row = man
       /\ req.board = "on" => man.board # NoBoard
       /\ req.live => man.nb
       /\ req.create => git # "none"

Rest == Records /\ OneBoard /\ SinceBase /\ Story /\ Ended

\* Boards and the notebook are only ever added, so a sound record stays sound.
LEMMA SoundStays ==
  ASSUME NEW d, Sound(d, boards, book), boards \subseteq boards', book => book'
  PROVE  Sound(d, boards', book')
BY DEF Sound

LEMMA LoadedIsSound ==
  ASSUME Records
  PROVE  Sound(Loaded, boards, book) /\ Sound(Known, boards, book)
BY ConstantsAssumption DEF Records, Loaded, Known, Sound, Fresh

\* The refresh takes the manifest's word for the board and makes up no link.
LEMMA RefreshedIsSound ==
  ASSUME TypeOK, Records, man # Nothing
  PROVE  /\ Refreshed.doc = man /\ Sound(Refreshed.rec, boards, book)
         /\ Refreshed.base = q.base /\ Refreshed.expect = q.expect
         /\ Refreshed.known = q.known /\ Refreshed.bad = q.bad /\ Refreshed.found = q.found
         /\ q.rec = man => Refreshed.rec = man
<1> DEFINE r == [q.rec EXCEPT !.board = man.board,
                              !.sure = q.rec.sure /\ q.rec.board = man.board]
<1>1. q.rec \in Doc /\ man \in Doc
  BY DEF TypeOK, Held
<1>2. /\ r \in Doc /\ r.board = man.board /\ r.sure = (q.rec.sure /\ q.rec.board = man.board)
      /\ r.nb = q.rec.nb /\ (q.rec = man => r = man)
  BY <1>1 DEF Doc
<1>3. /\ Refreshed.rec = r /\ Refreshed.doc = man
      /\ Refreshed.base = q.base /\ Refreshed.expect = q.expect
      /\ Refreshed.known = q.known /\ Refreshed.bad = q.bad /\ Refreshed.found = q.found
  BY DEF Refreshed, TypeOK, Held
<1> HIDE DEF r
<1>4. Sound(r, boards, book)
  BY <1>1, <1>2, ConstantsAssumption DEF Records, Sound
<1> QED BY <1>2, <1>3, <1>4

LEMMA GateRest ==
  ASSUME Inv, Rest, Gate
  PROVE  Rest'
<1> USE DEF Rest
<1>1. /\ pc \in {"preflight", "deps", "local", "audit", "observe", "check"}
      /\ q \in Held
      /\ UNCHANGED <<at, git, man, row, boards, book, req, outcome, calm>>
  BY DEF Gate, After, Inv, TypeOK, target, others
<1>2. CASE /\ GoOn(After[pc])
           /\ q' = [q EXCEPT !.final = q.final \/ After[pc] = "board"]
  <2>1. /\ q'.rec = q.rec /\ q'.doc = q.doc /\ q'.base = q.base /\ q'.expect = q.expect
        /\ q'.known = q.known /\ q'.bad = q.bad /\ q'.found = q.found
    BY <1>1, <1>2 DEF Held
  <2>2. pc' = After[pc] 
    BY <1>2 DEF GoOn
  <2>3. Records' /\ OneBoard' /\ SinceBase' /\ Ended'
    BY <1>1, <2>1, <2>2 DEF After, AfterLocal, Records, OneBoard, SinceBase, Ended
  <2>4. Story'
    BY <1>1, <2>1, <2>2 DEF After, AfterLocal, Story, Early, Written, Linked, Bound, Steps
  <2> QED BY <2>3, <2>4
<1>3. CASE /\ Fault
           /\ pc' = IF pc = "check" THEN "undo" ELSE OnError
           /\ q' = [q EXCEPT !.bad = TRUE]
  <2>1. /\ q'.rec = q.rec /\ q'.doc = q.doc /\ q'.base = q.base /\ q'.expect = q.expect
        /\ q'.bad
    BY <1>1, <1>3 DEF Held
  <2>2. pc' \in {"refresh", "undo"}
    BY <1>3 DEF OnError
  <2> QED BY <1>1, <2>1, <2>2 DEF Records, OneBoard, SinceBase, Ended, Story
<1> QED BY <1>2, <1>3 DEF Gate

LEMMA PlanRest ==
  ASSUME Inv, Rest, Plan
  PROVE  Rest'
<1> USE DEF Rest
<1>1. UNCHANGED <<at, git, man, boards, book, req>> /\ pc = "plan" /\ outcome = "none"
  BY DEF Plan, target, others, Ended
<1>2. CASE Fault /\ pc' = "over" /\ outcome' = "failed" /\ UNCHANGED <<q, row>>
  BY <1>1, <1>2 DEF Records, OneBoard, SinceBase, Ended, Story, Early, Written, Linked, Bound
<1>3. CASE /\ GoOn("begin") /\ row' = Loaded /\ UNCHANGED outcome
           /\ q' = [Idle EXCEPT !.rec = Known, !.doc = Known,
                                !.expect = man, !.known = Known.board]
  <2>1. /\ q'.rec = Known /\ q'.doc = Known /\ q'.expect = man /\ q'.base = Nothing
        /\ q'.known = Known.board
    BY <1>3 DEF Idle
  <2>2. pc' = "begin"
    BY <1>3 DEF GoOn
  <2>3. Records'
    BY <1>1, <1>3, <2>1, LoadedIsSound DEF Records, Sound
  <2>4. OneBoard' /\ SinceBase' /\ Ended'
    BY <1>1, <1>3, <2>1, <2>2 DEF OneBoard, SinceBase, Ended
  <2>5. Story'
    BY <2>1, <2>2 DEF Story, Early, Written, Linked, Bound
  <2> QED BY <2>3, <2>4, <2>5
<1> QED BY <1>2, <1>3 DEF Plan

LEMMA BeginRest ==
  ASSUME Inv, Rest, Begin
  PROVE  Rest'
<1> USE DEF Rest
<1>1. /\ UNCHANGED <<at, git, man, row, boards, book, req, outcome, calm>>
      /\ pc = "begin" /\ pc' \in {"preflight", "manifest"}
  BY DEF Begin, GoOn, AfterBegin, target, others
<1>2. /\ q'.rec = q.rec /\ q'.doc = q.doc /\ q'.base = q.base /\ q'.expect = q.expect
      /\ q'.known = q.known /\ q'.bad = q.bad
  BY DEF Begin, Inv, TypeOK, Held
<1>3. Records' /\ OneBoard' /\ SinceBase' /\ Ended'
  BY <1>1, <1>2 DEF Records, OneBoard, SinceBase, Ended
<1>4. Story'
  BY <1>1, <1>2 DEF Story, Early, Written, Linked, Bound, Steps
<1> QED BY <1>3, <1>4

LEMMA CopierRest ==
  ASSUME Inv, Rest, Copier
  PROVE  Rest'
<1> USE DEF Rest
<1>1. /\ UNCHANGED <<git, row, boards, book, req, outcome, calm>>
      /\ pc = "copier" /\ q \in Held
  BY DEF Copier, others, Inv, TypeOK
<1>2. CASE GoOn("manifest") /\ UNCHANGED q /\ man' \in {man, IF man = Nothing THEN q.doc ELSE man}
  <2>1. pc' = "manifest" /\ man' \in {man, q.doc} /\ q' = q
    BY <1>2 DEF GoOn
  <2>2. Records' /\ OneBoard' /\ SinceBase' /\ Ended'
    BY <1>1, <2>1 DEF Records, OneBoard, SinceBase, Ended
  <2>3. Story'
    BY <1>1, <2>1 DEF Story, Early, Written, Linked, Bound, Steps
  <2> QED BY <2>2, <2>3
<1>3. CASE Err /\ q' = [q EXCEPT !.bad = TRUE] /\ man' \in {man, q.doc}
  <2>1. /\ q'.rec = q.rec /\ q'.doc = q.doc /\ q'.base = q.base /\ q'.expect = q.expect
        /\ q'.bad /\ pc' \in {"refresh", "undo"}
    BY <1>1, <1>3 DEF Held, Err, OnError
  <2> QED BY <1>1, <1>3, <2>1 DEF Records, OneBoard, SinceBase, Ended, Story
<1> QED BY <1>2, <1>3 DEF Copier

LEMMA WriteManifestRest ==
  ASSUME Inv, Rest, WriteManifest
  PROVE  Rest'
<1> USE DEF Rest
<1>1. /\ UNCHANGED <<git, row, boards, book, req, outcome, calm>>
      /\ pc \in {"manifest", "project"} /\ q \in Held
  BY DEF WriteManifest, others, Inv, TypeOK
<1>2. CASE /\ GoOn(IF pc = "manifest" THEN AfterManifest ELSE "observe")
           /\ man' = q.doc /\ UNCHANGED q
  <2>1. /\ pc = "manifest" => pc' \in {"deps", "local"}
        /\ pc = "project" => pc' = "observe"
        /\ man' = q.doc /\ q' = q
    BY <1>2 DEF GoOn, AfterManifest
  <2>2. Records' /\ OneBoard' /\ SinceBase' /\ Ended'
    BY <1>1, <2>1 DEF Records, OneBoard, SinceBase, Ended
  <2>3. Story'
    BY <1>1, <2>1 DEF Story, Early, Written, Linked, Bound, Steps
  <2> QED BY <2>2, <2>3
<1>3. CASE GoOn(OnError) /\ q' = [q EXCEPT !.bad = TRUE] /\ UNCHANGED <<at, man>>
  <2>1. /\ q'.rec = q.rec /\ q'.doc = q.doc /\ q'.base = q.base /\ q'.expect = q.expect
        /\ q'.bad /\ pc' \in {"refresh", "undo"}
    BY <1>1, <1>3 DEF Held, GoOn, OnError
  <2> QED BY <1>1, <1>3, <2>1 DEF Records, OneBoard, SinceBase, Ended, Story
<1> QED BY <1>2, <1>3 DEF WriteManifest

LEMMA OwnedRest ==
  ASSUME Inv, Rest, Owned
  PROVE  Rest'
<1> USE DEF Rest
<1>1. /\ UNCHANGED <<at, git, man, row, boards, book, req, outcome, calm>>
      /\ pc = "owned" /\ q \in Held
  BY DEF Owned, target, others, Inv, TypeOK
<1>2. CASE man # Nothing /\ GoOn("audit") /\ q' = Refreshed
  <2>1. pc' = "audit"
    BY <1>2 DEF GoOn
  <2>2. Records' /\ OneBoard' /\ SinceBase' /\ Ended'
    BY <1>1, <1>2, <2>1, RefreshedIsSound DEF Inv, Records, OneBoard, SinceBase, Ended
  <2>3. Story'
    BY <1>1, <1>2, <2>1, RefreshedIsSound DEF Inv, Story, Early, Written, Linked, Bound, Steps
  <2> QED BY <2>2, <2>3
<1>3. CASE q' = [q EXCEPT !.bad = TRUE] /\ (GoOn(OnError) \/ Err)
  <2>1. /\ q'.rec = q.rec /\ q'.doc = q.doc /\ q'.base = q.base /\ q'.expect = q.expect
        /\ q'.bad /\ pc' \in {"refresh", "undo"}
    BY <1>1, <1>3 DEF Held, GoOn, Err, OnError
  <2> QED BY <1>1, <2>1 DEF Records, OneBoard, SinceBase, Ended, Story
<1> QED BY <1>2, <1>3 DEF Owned

LEMMA GitRest ==
  ASSUME Inv, Rest, Git
  PROVE  Rest'
<1> USE DEF Rest
<1>1. /\ UNCHANGED <<at, man, row, boards, book, req, outcome, calm>>
      /\ pc = "git" /\ q \in Held
  BY DEF Git, others, Inv, TypeOK
<1>2. CASE /\ GoOn("board")
           /\ git' = IF git = "none" THEN "commit" ELSE git
           /\ q' = [q EXCEPT !.final = TRUE]
  <2>1. /\ q'.rec = q.rec /\ q'.doc = q.doc /\ q'.base = q.base /\ q'.expect = q.expect
        /\ q'.known = q.known /\ q'.bad = q.bad /\ pc' = "board" /\ git' # "none"
    BY <1>1, <1>2 DEF Held, GoOn
  <2>2. Records' /\ OneBoard' /\ SinceBase' /\ Ended'
    BY <1>1, <2>1 DEF Records, OneBoard, SinceBase, Ended
  <2>3. Story'
    BY <1>1, <2>1 DEF Story, Early, Written, Linked, Bound, Steps
  <2> QED BY <2>2, <2>3
<1>3. CASE q' = [q EXCEPT !.bad = TRUE] /\ (GoOn(OnError) \/ Err)
  <2>1. /\ q'.rec = q.rec /\ q'.doc = q.doc /\ q'.base = q.base /\ q'.expect = q.expect
        /\ q'.bad /\ pc' \in {"refresh", "undo"}
    BY <1>1, <1>3 DEF Held, GoOn, Err, OnError
  <2> QED BY <1>1, <2>1 DEF Records, OneBoard, SinceBase, Ended, Story
<1> QED BY <1>2, <1>3 DEF Git

LEMMA DispatchRest ==
  ASSUME Inv, Rest, Dispatch
  PROVE  Rest'
<1> USE DEF Rest
<1>1. /\ UNCHANGED <<at, git, man, boards, book, req, outcome, calm>>
      /\ pc = "board" /\ q \in Held
  BY DEF Dispatch, target, others, Inv, TypeOK
<1> DEFINE keep == q.keep \/ req.board # "off"
<1>2. CASE /\ GoOn(IF q.known = NoBoard /\ req.board = "on" THEN "adapter" ELSE "notebook")
           /\ row' = Loaded
           /\ q' = [q EXCEPT !.keep = keep, !.base = Loaded]
  <2>1. /\ q'.rec = q.rec /\ q'.doc = q.doc /\ q'.base = Loaded /\ q'.expect = q.expect
        /\ q'.known = q.known /\ q'.bad = q.bad
        /\ pc' = IF q.known = NoBoard /\ req.board = "on" THEN "adapter" ELSE "notebook"
    BY <1>1, <1>2 DEF Held, GoOn
  <2>2. Records' /\ OneBoard' /\ SinceBase' /\ Ended'
    BY <1>1, <1>2, <2>1, LoadedIsSound DEF Records, OneBoard, SinceBase, Ended
  <2>3. Story'
    BY <1>1, <2>1 DEF Story, Early, Written, Linked, Bound, Steps
  <2> QED BY <2>2, <2>3
<1>3. CASE Throw /\ UNCHANGED row /\ q' = [q EXCEPT !.keep = keep, !.bad = TRUE]
  <2>1. /\ q'.rec = q.rec /\ q'.doc = q.doc /\ q'.base = q.base /\ q'.expect = q.expect
        /\ q'.bad /\ pc' = "undo"
    BY <1>1, <1>3 DEF Held, Throw
  <2> QED BY <1>1, <1>3, <2>1 DEF Records, OneBoard, SinceBase, Ended, Story
<1> QED BY <1>2, <1>3 DEF Dispatch

LEMMA AdapterRest ==
  ASSUME Inv, Rest, Adapter
  PROVE  Rest'
<1> USE DEF Rest
<1>1. /\ UNCHANGED <<at, git, man, row, book, req, outcome, calm>>
      /\ pc = "adapter" /\ q \in Held
  BY DEF Adapter, target, Inv, TypeOK
<1>2. /\ boards \subseteq boards'
      /\ boards' = {} \/ \E b \in Boards : boards' = {b}
  BY DEF Adapter, Created, OneBoard
<1>3. /\ q'.rec = q.rec /\ q'.doc = q.doc /\ q'.base = q.base /\ q'.expect = q.expect
      /\ q'.known = q.known
      /\ \/ pc' = "link" /\ q'.bad = q.bad /\ q'.found \in boards'
         \/ pc' \in {"refresh", "undo"} /\ q'.bad
  <2>1. ASSUME NEW b \in Created, boards' = boards \cup {b}, GoOn("link"), q' = [q EXCEPT !.found = b]
        PROVE  <1>3!:
    BY <1>1, <2>1 DEF GoOn, Held
  <2>2. ASSUME Err, q' = [q EXCEPT !.bad = TRUE]
        PROVE  <1>3!:
    BY <1>1, <2>2 DEF Err, OnError, Held
  <2> QED BY <2>1, <2>2 DEF Adapter
<1>4. Records'
  BY <1>1, <1>2, <1>3, SoundStays DEF Records
<1>5. OneBoard' /\ SinceBase' /\ Ended'
  BY <1>1, <1>2, <1>3 DEF OneBoard, SinceBase, Ended
<1>6. Story'
  BY <1>1, <1>3 DEF Story, Early, Written, Linked, Bound, Steps
<1> QED BY <1>4, <1>5, <1>6

LEMMA LinkRest ==
  ASSUME Inv, Rest, Link
  PROVE  Rest'
<1> USE DEF Rest
<1> DEFINE r == [q.rec EXCEPT !.board = q.found, !.sure = TRUE]
           d == [q.doc EXCEPT !.board = q.found, !.sure = TRUE]
           m == [man EXCEPT !.board = q.found, !.sure = TRUE]
<1>1. /\ UNCHANGED <<git, row, boards, book, req, outcome, calm>>
      /\ pc = "link" /\ pc' = "boardsave" /\ q \in Held /\ man \in Doc \cup {Nothing}
  BY DEF Link, GoOn, others, Inv, TypeOK
<1>2. q.found \in boards /\ q.found \in Boards /\ q.found # NoBoard
  BY <1>1, ConstantsAssumption DEF OneBoard, Inv, TypeOK
<1>3. /\ q'.rec = r /\ q'.doc = d /\ q'.base = q.base /\ q'.expect = q.expect
      /\ q'.bad = q.bad
  BY <1>1 DEF Link, Held
<1>4. man' = IF man = Nothing THEN d ELSE m
  BY <1>3 DEF Link
<1>5. /\ r.board = q.found /\ r.nb = q.rec.nb
      /\ d.board = q.found /\ d.nb = q.doc.nb
      /\ man # Nothing => m.board = q.found /\ m.nb = man.nb
      /\ q.rec = q.doc => r = d
      /\ q.doc = man => d = m
      /\ d \in Doc /\ r \in Doc
  <2>1. q.rec \in Doc /\ q.doc \in Doc
    BY <1>1 DEF Held
  <2> QED BY <1>1, <1>2, <2>1 DEF Doc
<1> HIDE DEF r, d, m
<1>6. q.rec # Nothing /\ q.doc # Nothing
  BY <1>1, ConstantsAssumption DEF Held
<1>7. Records'
  BY <1>1, <1>2, <1>3, <1>4, <1>5, <1>6 DEF Records, Sound
<1>8. OneBoard' /\ SinceBase' /\ Ended'
  BY <1>1, <1>2, <1>3, <1>4, <1>5 DEF OneBoard, SinceBase, Ended
<1>9. Story'
  BY <1>1, <1>2, <1>3, <1>4, <1>5, <1>6 DEF Story, Early, Written, Linked, Bound, Steps
<1> QED BY <1>7, <1>8, <1>9

\* The service's merge makes up no link, and what agrees with the manifest
\* already leaves it as it is.
LEMMA SavedIsSound ==
  ASSUME Inv, Rest, pc \in {"boardsave", "save"}, ~Refused
  PROVE  /\ Sound(Saved, boards, book)
         /\ q.rec = man => Saved = man
         /\ Saved \in Doc
<1>1. man \in Doc /\ man # Nothing /\ q \in Held
  BY DEF Refused, Inv, TypeOK
<1>2. CASE q.base = Nothing
  BY <1>1, <1>2 DEF Saved, Rest, Records
<1>3. CASE q.base # Nothing
  <2>1. q.base \in Doc /\ q.rec \in Doc /\ q.rec # Nothing
    BY <1>1, <1>3, ConstantsAssumption DEF Held
  <2>2. DOMAIN man = {"board", "sure", "nb", "note"}
    BY <1>1 DEF Doc
  <2>3. /\ Merged.board = IF q.base.board # q.rec.board THEN q.rec.board ELSE man.board
        /\ Merged.sure = IF q.base.sure # q.rec.sure THEN q.rec.sure ELSE man.sure
        /\ Merged.nb = IF q.base.nb # q.rec.nb THEN q.rec.nb ELSE man.nb
        /\ Merged.note = IF q.base.note # q.rec.note THEN q.rec.note ELSE man.note
    BY <2>2 DEF Merged
  <2>4. ~(q.base.board # q.rec.board /\ man.board # q.rec.board /\ man.board # q.base.board)
    BY <1>1, <1>3, <2>2 DEF Refused, Conflicts
  <2>5. Merged \in Doc
    BY <1>1, <1>3, MergedIsDoc
  <2> HIDE DEF Merged
  <2>6. Merged.sure => Merged.board # NoBoard
    <3>1. /\ q.rec.sure => q.rec.board # NoBoard
          /\ man.sure => man.board # NoBoard
          /\ q.base.sure => q.base.board # NoBoard
      BY <1>1, <1>3, <2>1 DEF Rest, Records, Sound
    <3>2. CASE pc = "boardsave"
      BY <1>1, <2>3, <3>2 DEF Rest, SinceBase
    <3>3. CASE pc = "save"
      BY <1>1, <1>3, <2>1, <2>3, <2>4, <3>1, <3>3, ConstantsAssumption DEF Rest, SinceBase, Doc
    <3> QED BY <3>2, <3>3
  <2>7. Sound(Merged, boards, book)
    BY <1>1, <2>1, <2>3, <2>6 DEF Rest, Records, Sound
  <2>8. q.rec = man => Merged = man
    BY <1>1, <2>3, <2>5 DEF Doc
  <2> QED BY <1>3, <2>5, <2>7, <2>8 DEF Saved
<1> QED BY <1>2, <1>3

LEMMA SaveRest ==
  ASSUME Inv, Rest, Save
  PROVE  Rest'
<1> USE DEF Rest
<1> DEFINE next == IF pc = "boardsave" THEN "notebook" ELSE IF q.bad THEN "undo" ELSE "check"
<1>1. /\ UNCHANGED <<at, git, boards, book, req, outcome, calm>>
      /\ pc \in {"boardsave", "save"} /\ q \in Held /\ q.rec \in Doc /\ q.rec # Nothing
  BY ConstantsAssumption DEF Save, others, Inv, TypeOK, Held
<1>2. CASE q.base = q.rec /\ GoOn(next) /\ UNCHANGED <<man, row, q, sent>>
  <2>1. pc' = next /\ q' = q /\ man' = man /\ row' = row
    BY <1>2 DEF GoOn
  <2>2. Records' /\ OneBoard' /\ SinceBase' /\ Ended'
    BY <1>1, <2>1 DEF Records, OneBoard, SinceBase, Ended
  <2>3. Story'
    BY <1>1, <1>2, <2>1 DEF Story, Early, Written, Linked, Bound, Steps
  <2> QED BY <2>2, <2>3
<1>3. CASE /\ ~Refused /\ man' = Saved /\ row' = Saved
           /\ \/ GoOn(next) /\ UNCHANGED q
              \/ Throw /\ q' = [q EXCEPT !.bad = TRUE]
  <2>1. /\ q'.rec = q.rec /\ q'.doc = q.doc /\ q'.base = q.base /\ q'.expect = q.expect
        /\ \/ pc' = next /\ q' = q
           \/ pc' = "undo" /\ q'.bad
    BY <1>1, <1>3 DEF GoOn, Throw, Held
  <2>2. Sound(Saved, boards, book) /\ (q.rec = man => Saved = man)
    BY <1>1, <1>3, SavedIsSound
  <2>3. Records' /\ OneBoard' /\ SinceBase' /\ Ended'
    BY <1>1, <1>3, <2>1, <2>2 DEF Records, OneBoard, SinceBase, Ended
  <2>4. Story'
    BY <1>1, <1>3, <2>1, <2>2 DEF Story, Early, Written, Linked, Bound, Steps
  <2> QED BY <2>3, <2>4
<1>4. CASE /\ (Refused /\ GoOn("undo")) \/ Throw
           /\ q' = [q EXCEPT !.bad = TRUE]
           /\ UNCHANGED <<man, row>>
  <2>1. /\ q'.rec = q.rec /\ q'.doc = q.doc /\ q'.base = q.base /\ q'.expect = q.expect
        /\ q'.bad /\ pc' = "undo"
    BY <1>1, <1>4 DEF GoOn, Throw, Held
  <2> QED BY <1>1, <1>4, <2>1 DEF Records, OneBoard, SinceBase, Ended, Story
<1> QED BY <1>2, <1>3, <1>4 DEF Save

LEMMA NotebookRest ==
  ASSUME Inv, Rest, Notebook
  PROVE  Rest'
<1> USE DEF Rest
<1>1. /\ UNCHANGED <<at, git, man, row, boards, req, outcome, calm>>
      /\ pc = "notebook" /\ q \in Held
  BY DEF Notebook, target, Inv, TypeOK
<1>2. CASE ~req.live /\ GoOn("refresh") /\ UNCHANGED <<book, q, sent>>
  <2>1. pc' = "refresh" /\ q' = q /\ book' = book
    BY <1>2 DEF GoOn
  <2>2. Records' /\ OneBoard' /\ SinceBase' /\ Ended'
    BY <1>1, <2>1 DEF Records, OneBoard, SinceBase, Ended
  <2>3. Story'
    BY <1>1, <1>2, <2>1 DEF Story, Early, Written, Linked, Bound, Steps
  <2> QED BY <2>2, <2>3
<1>3. CASE /\ GoOn("project") /\ book' = TRUE
           /\ q' = [q EXCEPT !.keep = TRUE, !.rec.nb = TRUE, !.doc.nb = TRUE]
  <2> DEFINE r == [q.rec EXCEPT !.nb = TRUE]
             d == [q.doc EXCEPT !.nb = TRUE]
  <2>1. /\ q'.rec = r /\ q'.doc = d /\ q'.base = q.base /\ q'.expect = q.expect
        /\ q'.bad = q.bad /\ pc' = "project"
    BY <1>1, <1>3 DEF Held, GoOn
  <2>2. /\ r.board = q.rec.board /\ r.sure = q.rec.sure
        /\ d.board = q.doc.board /\ d.sure = q.doc.sure /\ d.nb
        /\ q.rec = q.doc => r = d
        /\ q.rec # Nothing /\ q.doc # Nothing
    BY <1>1, ConstantsAssumption DEF Held, Doc
  <2> HIDE DEF r, d
  <2>3. Records'
    BY <1>1, <1>3, <2>1, <2>2 DEF Records, Sound
  <2>4. OneBoard' /\ SinceBase' /\ Ended'
    BY <1>1, <2>1 DEF OneBoard, SinceBase, Ended
  <2>5. Story'
    BY <1>1, <2>1, <2>2 DEF Story, Early, Written, Linked, Bound, Steps
  <2> QED BY <2>3, <2>4, <2>5
<1>4. CASE Err /\ book' \in {book, TRUE} /\ q' = [q EXCEPT !.keep = TRUE, !.bad = TRUE]
  <2>1. /\ q'.rec = q.rec /\ q'.doc = q.doc /\ q'.base = q.base /\ q'.expect = q.expect
        /\ q'.bad /\ pc' \in {"refresh", "undo"}
    BY <1>1, <1>4 DEF Held, Err, OnError
  <2>2. Records'
    <3>1. book => book'
      BY <1>4
    <3> QED BY <1>1, <2>1, <3>1, SoundStays DEF Records
  <2> QED BY <1>1, <2>1, <2>2 DEF OneBoard, SinceBase, Ended, Story
<1> QED BY <1>2, <1>3, <1>4 DEF Notebook

LEMMA RefreshRest ==
  ASSUME Inv, Rest, Refresh
  PROVE  Rest'
<1> USE DEF Rest
<1>1. /\ UNCHANGED <<at, git, man, row, boards, book, req, outcome, calm>>
      /\ pc = "refresh" /\ pc' = "finalize" /\ q \in Held
  BY DEF Refresh, GoOn, target, others, Inv, TypeOK
<1>2. CASE man # Nothing
  <2>1. q' = Refreshed
    BY <1>2 DEF Refresh
  <2>2. Records' /\ OneBoard' /\ SinceBase' /\ Ended'
    BY <1>1, <1>2, <2>1, RefreshedIsSound DEF Inv, Records, OneBoard, SinceBase, Ended
  <2>3. Story'
    BY <1>1, <1>2, <2>1, RefreshedIsSound DEF Inv, Story, Early, Written, Linked, Bound, Steps
  <2> QED BY <2>2, <2>3
<1>3. CASE man = Nothing
  <2>1. /\ q'.rec = q.rec /\ q'.doc = q.doc /\ q'.base = q.base /\ q'.expect = q.expect
        /\ q'.bad
    BY <1>1, <1>3 DEF Refresh, Held
  <2> QED BY <1>1, <2>1 DEF Records, OneBoard, SinceBase, Ended, Story
<1> QED BY <1>2, <1>3

LEMMA FinalizeRest ==
  ASSUME Inv, Rest, Finalize
  PROVE  Rest'
<1> USE DEF Rest
<1>1. /\ UNCHANGED <<at, git, man, boards, book, req, outcome, calm>>
      /\ pc = "finalize" /\ q \in Held
  BY DEF Finalize, target, others, Inv, TypeOK
<1>2. CASE GoOn("save") /\ row' = Loaded /\ q' = [q EXCEPT !.keep = TRUE, !.base = Loaded]
  <2>1. /\ q'.rec = q.rec /\ q'.doc = q.doc /\ q'.base = Loaded /\ q'.expect = q.expect
        /\ q'.bad = q.bad /\ pc' = "save" /\ row' = Loaded
    BY <1>1, <1>2 DEF Held, GoOn
  <2>2. man # Nothing => Loaded = Nothing \/ Loaded = man
    BY DEF Loaded
  <2>3. Records' /\ OneBoard' /\ Ended'
    BY <1>1, <2>1, LoadedIsSound DEF Records, OneBoard, Ended
  <2>4. SinceBase'
    BY <1>1, <2>1, <2>2 DEF SinceBase
  <2>5. Story'
    <3>1. calm /\ ~q.bad => man # Nothing
      BY <1>1, ConstantsAssumption DEF Story, Written, Early, Steps, Held
    <3> QED BY <1>1, <2>1, <2>2, <3>1 DEF Story, Early, Written, Linked, Bound, Steps
  <2> QED BY <2>3, <2>4, <2>5
<1>3. CASE Throw /\ UNCHANGED row /\ q' = [q EXCEPT !.keep = TRUE, !.bad = TRUE]
  <2>1. /\ q'.rec = q.rec /\ q'.doc = q.doc /\ q'.base = q.base /\ q'.expect = q.expect
        /\ q'.bad /\ pc' = "undo"
    BY <1>1, <1>3 DEF Held, Throw
  <2> QED BY <1>1, <1>3, <2>1 DEF Records, OneBoard, SinceBase, Ended, Story
<1> QED BY <1>2, <1>3 DEF Finalize

LEMMA UndoRest ==
  ASSUME Inv, Rest, Undo
  PROVE  Rest'
<1> USE DEF Rest
<1>1. /\ UNCHANGED <<row, boards, book, req, q, calm>> /\ pc = "undo" /\ pc' = "over"
      /\ outcome' = IF q.bad THEN "failed" ELSE "ok"
      /\ man' \in {man, Nothing}
      /\ ~q.bad => UNCHANGED <<man, git>>
  BY DEF Undo, Undoes, target, others
<1>2. Records' /\ OneBoard' /\ SinceBase'
  BY <1>1 DEF Records, OneBoard, SinceBase, Sound
<1>3. Story'
  BY <1>1 DEF Story, Early, Written, Linked, Bound
<1>4. Ended'
  <2>1. q.doc # Nothing
    BY ConstantsAssumption DEF Inv, TypeOK, Held
  <2> QED BY <1>1, <2>1 DEF Ended, Story, Early, Written, Linked, Bound, Steps
<1> QED BY <1>2, <1>3, <1>4

LEMMA KillRest ==
  ASSUME Inv, Rest, Kill \/ Rerun
  PROVE  Rest'
<1> USE DEF Rest
<1>1. /\ UNCHANGED <<at, git, man, row, boards, book, calm>>
  BY DEF Kill, Rerun, target, others
<1>2. CASE Kill
  BY <1>1, <1>2 DEF Kill, Records, OneBoard, SinceBase, Ended, Story, Early, Written, Linked, Bound
<1>3. CASE Rerun
  <2>1. pc' = "plan" /\ outcome' = "none" /\ q' = Idle
    BY <1>3 DEF Rerun
  <2>2. Records'
    BY <1>1, <2>1, ConstantsAssumption DEF Records, Idle, Fresh, Sound
  <2> QED BY <1>1, <2>1, <2>2 DEF OneBoard, SinceBase, Ended, Story, Early, Written, Linked, Bound
<1> QED BY <1>2, <1>3

LEMMA OthersRest ==
  ASSUME Inv, Rest, Others
  PROVE  Rest'
<1> USE DEF Rest
<1>1. UNCHANGED <<row, boards, book, pc, req, q, outcome>> /\ calm' = FALSE
  BY DEF Others, others
<1>2. \/ man' = man \/ man' = Nothing
      \/ /\ man # Nothing /\ man' # Nothing
         /\ man'.nb = man.nb /\ man'.board = man.board /\ man'.sure = man.sure
      \/ /\ man # Nothing /\ man.board # Other
         /\ man'.board = Other /\ man'.sure /\ man'.nb = man.nb
  <2>1. ASSUME NEW n \in Notes, man # Nothing
        PROVE  /\ [man EXCEPT !.note = n].nb = man.nb
               /\ [man EXCEPT !.note = n].board = man.board
               /\ [man EXCEPT !.note = n].sure = man.sure
               /\ [man EXCEPT !.note = n] # Nothing
    BY <2>1, ConstantsAssumption DEF Inv, TypeOK, Doc
  <2>2. ASSUME man # Nothing
        PROVE  /\ [man EXCEPT !.board = Other, !.sure = TRUE].nb = man.nb
               /\ [man EXCEPT !.board = Other, !.sure = TRUE].board = Other
               /\ [man EXCEPT !.board = Other, !.sure = TRUE].sure
    BY <2>2 DEF Inv, TypeOK, Doc
  <2> QED BY <2>1, <2>2 DEF Others
<1>3. Records'
  BY <1>1, <1>2, ConstantsAssumption DEF Records, Sound
<1>4. SinceBase'
  BY <1>1, <1>2, ConstantsAssumption DEF SinceBase
<1> QED BY <1>1, <1>3, <1>4 DEF OneBoard, Ended, Story

LEMMA InitRest == Init => Rest
<1> SUFFICES ASSUME Init PROVE Rest
  OBVIOUS
<1> QED BY ConstantsAssumption
        DEF Init, Rest, Records, OneBoard, SinceBase, Ended, Story, Idle, Fresh, Sound,
            Early, Written, Linked, Bound

LEMMA NextRest ==
  ASSUME Inv, Rest, [Next]_vars
  PROVE  Rest'
<1>1. CASE UNCHANGED vars
  BY <1>1 DEF vars, target, others, budget, Rest, Records, OneBoard, SinceBase, Story, Ended
<1>2. CASE Next
  BY <1>2, GateRest, PlanRest, BeginRest, CopierRest, WriteManifestRest, OwnedRest, GitRest,
     DispatchRest, AdapterRest, LinkRest, SaveRest, NotebookRest, RefreshRest, FinalizeRest,
     UndoRest, KillRest, OthersRest DEF Next, Step
<1> QED BY <1>1, <1>2

----------------------------------------------------------------------------
(* Results *)

\* Type correctness: every step of an init run, of its undo, of a kill, of a
\* re-run and of what others do to the target keeps the state's shape.
THEOREM TypeCorrect == Spec => []TypeOK
BY Invariance, PTL DEF Inv

\* A failed run takes a target away only when the run made it, through no
\* link, and has asked nothing of the provider, of the notebook service or of
\* the registry.
THEOREM EvidenceIsKept == Spec => KeepsEvidence
<1>1. ASSUME Inv, Next, pc = "undo", pc' = "over", target' # target
      PROVE  at = "dir" /\ ~q.existed /\ sent = {}
  <2>1. CASE Undo
    BY <1>1, <2>1 DEF Undo, Undoes, Inv, Latched
  <2>2. CASE Kill
    BY <1>1, <2>2 DEF Kill, target
  <2>3. CASE Gate
    BY <1>1, <2>3 DEF Gate, After
  <2>4. CASE Others
    BY <1>1, <2>4 DEF Others
  <2> QED BY <1>1, <2>1, <2>2, <2>3, <2>4
        DEF Next, Step, Plan, Begin, Copier, WriteManifest, Owned, Git, Dispatch, Adapter,
            Link, Save, Notebook, Refresh, Finalize, Rerun
<1>2. Inv /\ [Next]_vars =>
        [(pc = "undo" /\ pc' = "over" /\ target' # target) =>
            (at = "dir" /\ ~q.existed /\ sent = {})]_vars
  BY <1>1 DEF vars
<1> QED BY <1>2, Invariance, PTL DEF KeepsEvidence, Spec

\* Of any directory, any history of failed and killed runs and lost answers:
\* a run that says it succeeded while nobody else wrote leaves the manifest
\* and the index agreed, a requested board there, linked and the only one, a
\* bound notebook that exists, a created project a repository.
THEOREM SuccessIsOneStory == Spec => []OkMeansInited
<1>1. Rest => OkMeansInited
  <2> SUFFICES ASSUME Rest, outcome = "ok", calm
               PROVE  /\ man # Nothing /\ row = man
                      /\ req.board = "on" => man.board # NoBoard
                      /\ man.sure => man.board = Other \/ boards = {man.board}
                      /\ req.live => man.nb
                      /\ man.nb => book
                      /\ req.create => git # "none"
    BY DEF OkMeansInited
  <2> QED BY DEF Rest, Ended, Records, Sound, OneBoard
<1>2. Inv /\ Rest /\ [Next]_vars => Rest'
  BY NextRest
<1> QED BY <1>1, <1>2, InitRest, Invariance, PTL DEF Spec

----------------------------------------------------------------------------
(* The skill that an init shares: the promises of SkillInstall. *)


\* The copy that an install leaves verifies against the release's own export.
LEMMA PackedVerifies ==
  ASSUME ExportsArePinned, NEW v \in Versions
  PROVE  Packed(v) # None /\ Packed(v) \in Trees /\ Verifies(Packed(v), v)
<1> DEFINE D == DOMAIN Pinned[v]
<1>1. Pinned[v] \in Listings /\ D \subseteq Paths \ (Unsafe \cup Skipped)
  BY DEF ExportsArePinned, Listings
<1>2. \A p \in D : Pinned[v][p] \in Sums
  BY DEF ExportsArePinned, Listings
<1>3. Packed(v) \in Trees
  <2>1. Packed(v).files \in [D -> [sum : Sums, exec : BOOLEAN]]
    BY <1>2 DEF Packed
  <2>2. Packed(v).files \in Files
    BY <1>1, <2>1 DEF Files
  <2> QED BY <1>1, <2>2 DEF Packed, Trees
<1>4. Counted(Packed(v)) = D
  BY <1>1 DEF Counted, Packed
<1>5. Payload(Packed(v)) = Pinned[v]
  BY <1>1, <1>4 DEF Payload, Packed, Listings
<1>6. Enumerable(Packed(v))
  BY <1>1, <1>4 DEF Enumerable
<1>7. ListFits(Packed(v))
  BY <1>4, <1>5 DEF ListFits, Packed
<1> QED BY <1>3, <1>5, <1>6, <1>7 DEF Verifies, ExportsArePinned, Packed

\* What one install does, case by case: the facts that every promise needs.
LEMMA InstallCases ==
  ASSUME ExportsArePinned, NEW h \in Hosts, NEW v \in Versions, NEW registry \in BOOLEAN,
         NEW r, r = Install(h, v, registry)
  PROVE  \/ /\ r.host = h /\ r.out \notin {"installed", "kept"}
         \/ /\ r.host = h /\ r.out = "kept"
            /\ Probe(h, v) = "adopted" /\ h.link = "canon" /\ Verifies(h.canon, v)
         \/ /\ h.root \in {"absent", "dir"}
            /\ r.host \in Hosts
            /\ r.host.canon = h.canon /\ r.host.armed = h.armed
            /\ Verifies(r.host.copy[v], v) /\ r.host.copy[v] # None
            /\ \/ /\ r.out \notin {"installed", "kept"}
                  /\ r.host.link = h.link
                  /\ \A w \in Versions : h.copy[w] # None => r.host.copy[w] = h.copy[w]
               \/ /\ r.out = "kept" /\ r.host.root = "dir" /\ ~r.host.through
                  /\ r.host.link = h.link /\ Kept(r.host, v)
                  /\ \A w \in Versions : h.copy[w] # None => r.host.copy[w] = h.copy[w]
               \/ /\ r.out = "installed" /\ r.host.root = "dir" /\ ~r.host.through
                  /\ h.link = "absent" /\ r.host.link = v
<1> DEFINE c == Copied(h, v)
<1>1. h.copy \in [Versions -> Trees \cup {None}] /\ h.canon \in Trees \cup {None}
      /\ h \in Machines /\ h.through \in BOOLEAN
  BY DEF Hosts, Machines
<1>2. CASE SourceFails(h, v, registry) \/ Declined(h, v) \/ CopyFails(h, v)
  BY <1>2 DEF Install, Result, Declined, Probe
<1>3. CASE ~SourceFails(h, v, registry) /\ Probe(h, v) = "adopted"
  BY <1>3 DEF Install, Result, Probe
<1>4. CASE /\ ~SourceFails(h, v, registry) /\ ~Declined(h, v) /\ ~CopyFails(h, v)
           /\ Probe(h, v) # "adopted"
  <2>1. r = AtLink(c, v) /\ h.root \in {"absent", "dir"}
    BY <1>4 DEF Install, Probe, Declined
  <2>2. /\ c \in Machines /\ c.link = h.link /\ c.canon = h.canon /\ c.armed = h.armed
        /\ c.root = h.root /\ c.through = h.through
        /\ c.copy[v] # None /\ Verifies(c.copy[v], v)
        /\ \A w \in Versions : h.copy[w] # None => c.copy[w] = h.copy[w]
    BY <1>1, <1>4, PackedVerifies DEF Copied, CopyFails, Machines
  <2>3. CASE c.through
    BY <2>1, <2>2, <2>3, <1>1 DEF AtLink, Result, Hosts
  <2>4. CASE ~c.through /\ c.link = "absent"
    <3> DEFINE g == [c EXCEPT !.root = "dir", !.link = v,
                       !.copy = [w \in Versions |-> IF w = v THEN c.copy[w] ELSE None]]
    <3>1. r.host = g /\ r.out = "installed"
      BY <2>1, <2>2, <2>4 DEF AtLink, Result, Collected, Machines
    <3>2. /\ g \in Hosts /\ g.link = v /\ g.canon = h.canon /\ g.armed = h.armed
          /\ g.copy[v] = c.copy[v] /\ g.root = "dir" /\ ~g.through
      BY <2>2, <2>4 DEF Hosts, Machines
    <3> HIDE DEF g, c
    <3> QED BY <2>1, <2>2, <2>4, <3>1, <3>2
  <2>5. CASE ~c.through /\ c.link # "absent"
    <3> DEFINE g == [c EXCEPT !.root = "dir"]
    <3>1. /\ g \in Hosts /\ g.link = h.link /\ g.canon = h.canon /\ g.armed = h.armed
          /\ g.copy = c.copy /\ g.root = "dir" /\ ~g.through
      BY <2>2, <2>5 DEF Hosts, Machines
    <3>2. Kept(c, v) <=> Kept(g, v)
      BY <3>1, <2>2 DEF Kept, Leads
    <3>3. r.host = g /\ r.out \in {"error", "kept", "foreign"} /\ (r.out = "kept" => Kept(c, v))
      BY <2>1, <2>5 DEF AtLink, Result
    <3> HIDE DEF g, c
    <3> QED BY <2>1, <2>2, <3>1, <3>2, <3>3
  <2> QED BY <2>3, <2>4, <2>5, <2>2, <1>1
<1> QED BY <1>2, <1>3, <1>4

\* What an install or an adoption leaves at the link is the export.
LEMMA InstalledIsVerified ==
  ASSUME ExportsArePinned, NEW h \in Hosts, NEW v \in Versions, NEW registry \in BOOLEAN,
         NEW r, r = Install(h, v, registry), r.out \in {"installed", "kept"}
  PROVE  r.host \in Hosts /\ Verifies(Leads(r.host), v)
<1>1. CASE r.host = h /\ h.link = "canon" /\ Verifies(h.canon, v)
  BY <1>1 DEF Leads
<1>2. CASE r.host \in Hosts /\ Kept(r.host, v)
  BY <1>2 DEF Kept
<1>3. CASE r.host \in Hosts /\ r.host.link = v /\ Verifies(r.host.copy[v], v)
  BY <1>3 DEF Leads, ExportsArePinned
<1> QED BY <1>1, <1>2, <1>3, InstallCases

\* That installProjectNotebookIntegration made i of an install r, with g the settings replaced.
Outcome(h, r, i, g, how) ==
  /\ r.host \in Hosts /\ r.host.canon = h.canon /\ r.host.armed = h.armed
  /\ r.out = "installed" => h.link = "absent"
  /\ r.out # "installed" => r.host.link = h.link
  /\ \/ i = r /\ r.out \notin {"installed", "kept"}
     \/ i.host = g /\ i.out = r.out /\ r.out \in {"installed", "kept"}
     \/ /\ i.host \in {r.host, g} /\ i.out = "error"
        /\ r.out = "kept" /\ (how = "late" \/ i.host = r.host)
     \/ /\ i.host \in {[r.host EXCEPT !.link = "absent"], [g EXCEPT !.link = "absent"]}
        /\ i.out = "error" /\ r.out = "installed"
        /\ how = "late" \/ i.host = [r.host EXCEPT !.link = "absent"]

LEMMA IntegrateCases ==
  ASSUME ExportsArePinned, NEW h \in Hosts, NEW v \in Versions,
         NEW registry \in BOOLEAN, NEW hubs \in SUBSET Events, NEW how \in Projections,
         NEW r, r = Install(h, v, registry), NEW i, i = Integrate(h, v, registry, hubs, how)
  PROVE  Outcome(h, r, i, Projected(r.host, hubs), how)
<1> DEFINE g == Projected(r.host, hubs)
<1>1. /\ r.host \in Hosts /\ r.host.canon = h.canon /\ r.host.armed = h.armed
      /\ r.out = "installed" => h.link = "absent"
      /\ r.out # "installed" => r.host.link = h.link
  BY InstallCases
<1>2. \/ i = r /\ r.out \notin {"installed", "kept"}
      \/ i.host = g /\ i.out = r.out /\ r.out \in {"installed", "kept"}
      \/ /\ i.host \in {r.host, g} /\ i.out = "error"
         /\ r.out = "kept" /\ (how = "late" \/ i.host = r.host)
      \/ /\ i.host \in {[r.host EXCEPT !.link = "absent"], [g EXCEPT !.link = "absent"]}
         /\ i.out = "error" /\ r.out = "installed"
         /\ how = "late" \/ i.host = [r.host EXCEPT !.link = "absent"]
  BY DEF Integrate, Projections, Result
<1> QED BY <1>1, <1>2 DEF Outcome

\* Projecting hooks changes nothing but the hooks.
LEMMA ProjectedIs ==
  ASSUME NEW h \in Hosts, NEW hubs \in SUBSET Events
  PROVE  LET g == Projected(h, hubs)
         IN  /\ g \in Hosts /\ g.armed = Events \ hubs /\ Leads(g) = Leads(h)
             /\ g.link = h.link /\ g.canon = h.canon
BY DEF Projected, Hosts, Machines, Leads

\* Taking the link away changes nothing but the link.
LEMMA UnlinkedIs ==
  ASSUME NEW h \in Hosts
  PROVE  LET g == [h EXCEPT !.link = "absent"]
         IN  g.armed = h.armed /\ g.link = "absent" /\ g.canon = h.canon
BY DEF Hosts, Machines

\* Hooks are only armed through a link whose target is the export of the release
\* (installProjectNotebookIntegration), or that is gone, whatever the machine was like.
THEOREM HooksRunVerifiedScripts ==
  ASSUME ExportsArePinned, NEW h \in Hosts, NEW v \in Versions,
         NEW registry \in BOOLEAN, NEW hubs \in SUBSET Events, NEW how \in Projections
  PROVE  ArmedIsVerified(h, v, registry, hubs, how)
<1> DEFINE r == Install(h, v, registry)
           i == Integrate(h, v, registry, hubs, how)
           g == Projected(r.host, hubs)
<1>1. Outcome(h, r, i, g, how)
  BY IntegrateCases
<1>2. r.out \in {"installed", "kept"} => Verifies(Leads(r.host), v)
  BY InstalledIsVerified
<1>3. r.host \in Hosts
  BY <1>1 DEF Outcome
<1>4. g \in Hosts /\ g.armed = Events \ hubs /\ Leads(g) = Leads(r.host)
  BY <1>3, ProjectedIs
<1> HIDE DEF g
<1>5. /\ [g EXCEPT !.link = "absent"].link = "absent"
      /\ [r.host EXCEPT !.link = "absent"].link = "absent"
  BY <1>3, <1>4, UnlinkedIs
<1> HIDE DEF r, i
<1>6. /\ i.out \in {"installed", "kept"} => i.host.armed = Events \ hubs /\ Verifies(Leads(i.host), v)
      /\ i.host.armed # h.armed => Verifies(Leads(i.host), v) \/ i.host.link = "absent"
  BY <1>1, <1>2, <1>4, <1>5 DEF Outcome
<1> QED BY <1>6 DEF ArmedIsVerified, i

\* Whoever is turned away finds link, checkout and settings as they were (PJAN-82:
\* "leave the host alone"); whose hooks cannot be projected finds the link and the
\* checkout so, and the settings unless the projector failed when it had replaced them.
THEOREM RefusalsLeaveTheHostAlone ==
  ASSUME ExportsArePinned, NEW h \in Hosts, NEW v \in Versions,
         NEW registry \in BOOLEAN, NEW hubs \in SUBSET Events, NEW how \in Projections
  PROVE  DeclinedIsUntouched(h, v, registry, hubs, how)
<1> DEFINE r == Install(h, v, registry)
           i == Integrate(h, v, registry, hubs, how)
           g == Projected(r.host, hubs)
           k == [r.host EXCEPT !.link = "absent"]
           l == [g EXCEPT !.link = "absent"]
<1>1. Outcome(h, r, i, g, how)
  BY IntegrateCases
<1>2. r.out \in {"installed", "kept"} => Verifies(Leads(r.host), v)
  BY InstalledIsVerified
<1>3. r.host \in Hosts
  BY <1>1 DEF Outcome
<1>4. /\ g.link = r.host.link /\ g.canon = r.host.canon /\ g \in Hosts
      /\ k.armed = r.host.armed /\ k.link = "absent" /\ k.canon = r.host.canon
  BY <1>3, ProjectedIs, UnlinkedIs
<1> HIDE DEF g
<1>5. l.link = "absent" /\ l.canon = r.host.canon
  BY <1>4, UnlinkedIs
<1> HIDE DEF r, i
<1>6. /\ i.host.canon = h.canon
      /\ i.out \notin {"installed", "kept"} =>
           /\ i.host.link = h.link
           /\ i.host.armed # h.armed => how = "late" /\ Verifies(Leads(r.host), v)
  <2> HIDE DEF k, l
  <2>1. /\ r.host.canon = h.canon /\ r.host.armed = h.armed
        /\ r.out = "installed" => h.link = "absent"
        /\ r.out # "installed" => r.host.link = h.link
        /\ \/ i = r /\ r.out \notin {"installed", "kept"}
           \/ i.host = g /\ i.out = r.out /\ r.out \in {"installed", "kept"}
           \/ i.host \in {r.host, g} /\ r.out = "kept" /\ (how = "late" \/ i.host = r.host)
           \/ i.host \in {k, l} /\ r.out = "installed" /\ (how = "late" \/ i.host = k)
    BY <1>1 DEF Outcome, k, l
  <2> QED BY <1>2, <1>4, <1>5, <2>1
<1> QED BY <1>6 DEF DeclinedIsUntouched, i, r

\* collectSupersededPayloads never removes the copy that the link leads to.
THEOREM CollectionKeepsWhatIsUsed ==
  ASSUME ExportsArePinned, NEW h \in Hosts, NEW v \in Versions,
         NEW registry \in BOOLEAN, NEW hubs \in SUBSET Events, NEW how \in Projections
  PROVE  InUseIsKept(h, v, registry, hubs, how)
<1> DEFINE r == Install(h, v, registry)
           i == Integrate(h, v, registry, hubs, how)
<1>1. SUFFICES ASSUME i.host.link # "absent", ~Dangling(h)
               PROVE  ~Dangling(i.host)
  BY DEF InUseIsKept
<1>2. i.host \in {r.host, Projected(r.host, hubs)} /\ r.host \in Hosts
  <2> DEFINE g == Projected(r.host, hubs)
  <2>1. Outcome(h, r, i, g, how)
    BY IntegrateCases
  <2>2. r.host \in Hosts
    BY <2>1 DEF Outcome
  <2>3. g \in Hosts
    BY <2>2, ProjectedIs
  <2> HIDE DEF g
  <2>4. /\ [r.host EXCEPT !.link = "absent"].link = "absent"
        /\ [g EXCEPT !.link = "absent"].link = "absent"
    BY <2>2, <2>3, UnlinkedIs
  <2> HIDE DEF r, i
  <2>5. i.host \in {r.host, g}
    BY <1>1, <2>1, <2>4 DEF Outcome
  <2> QED BY <2>2, <2>5 DEF g
<1>3. r.host \in Hosts /\ ~Dangling(r.host)
  <2>1. CASE r.host = h
    BY <1>1, <2>1
  <2>2. CASE /\ r.host \in Hosts /\ r.host.canon = h.canon /\ r.host.link = h.link
             /\ \A w \in Versions : h.copy[w] # None => r.host.copy[w] = h.copy[w]
    BY <1>1, <2>2 DEF Dangling, Leads
  <2>3. CASE /\ r.host \in Hosts /\ r.host.link = v /\ r.host.copy[v] # None
    BY <2>3 DEF Dangling, Leads, ExportsArePinned
  <2> HIDE DEF r
  <2>4. PICK s : s = r
    OBVIOUS
  <2> QED BY <2>1, <2>2, <2>3, InstallCases DEF r
<1>4. Dangling(i.host) <=> Dangling(r.host)
  BY <1>2, ProjectedIs DEF Dangling
<1> QED BY <1>3, <1>4

\* An install that succeeds is seen by the audit, and the next one finds nothing
\* left to do.
THEOREM OneInstallIsEnough ==
  ASSUME ExportsArePinned, NEW h \in Hosts, NEW v \in Versions, NEW registry \in BOOLEAN
  PROVE  InstallSettles(h, v, registry)
<1> DEFINE r == Install(h, v, registry)
<1>1. SUFFICES ASSUME r.out \in {"installed", "kept"}
               PROVE  Inspect(r.host, v) /\ Install(r.host, v, registry) = Result(r.host, "kept")
  BY DEF InstallSettles
<1>2. ~SourceFails(h, v, registry)
  BY <1>1 DEF Install, Result
<1>3. CASE r.host = h /\ r.out = "kept" /\ Probe(h, v) = "adopted" /\ h.link = "canon"
           /\ Verifies(h.canon, v)
  <2>1. r = Result(h, "kept")
    BY <1>2, <1>3 DEF Install
  <2>2. Inspect(h, v)
    BY <1>3 DEF Inspect, Declined, Dangling, Kept, Leads, Verifies
  <2> QED BY <1>3, <2>1, <2>2 DEF Result
<1>4. CASE /\ r.host \in Hosts /\ r.host.root = "dir" /\ ~r.host.through
           /\ r.host.canon = h.canon /\ Kept(r.host, v) /\ r.host.copy[v] # None
           /\ Verifies(r.host.copy[v], v)
  <2> DEFINE g == r.host
  <2>1. ~SourceFails(g, v, registry)
    BY <1>2, <1>4 DEF SourceFails
  <2>2. Probe(g, v) = "dir" /\ ~Declined(g, v) /\ ~CopyFails(g, v)
    BY <1>4 DEF Probe, Declined, CopyFails
  <2>3. ~Dangling(g) /\ g.link # "absent"
    BY <1>4 DEF Kept, Dangling, Verifies, ExportsArePinned
  <2>4. Inspect(g, v)
    BY <1>4, <2>2, <2>3 DEF Inspect
  <2>5. Copied(g, v) = g
    BY <1>4 DEF Copied
  <2>6. [g EXCEPT !.root = "dir"] = g
    BY <1>4 DEF Hosts, Machines
  <2>7. AtLink(g, v) = Result(g, "kept")
    <3> HIDE DEF g
    <3>1. ~g.through /\ Kept(g, v)
      BY <1>4 DEF g
    <3> QED BY <2>3, <2>6, <3>1 DEF AtLink
  <2> HIDE DEF g
  <2>8. Install(g, v, registry) = Result(g, "kept")
    BY <2>1, <2>2, <2>5, <2>7 DEF Install
  <2> QED BY <2>4, <2>8 DEF g
<1>5. ASSUME r.host \in Hosts, r.host.link = v, Verifies(r.host.copy[v], v)
      PROVE  Kept(r.host, v)
  BY <1>5 DEF Kept, Leads, ExportsArePinned
<1> QED BY <1>1, <1>3, <1>4, <1>5, InstallCases

\* A checkout that `pj notebook skill --apply` has repaired is adopted, and is
\* clean to the next repair.
THEOREM RepairsStick ==
  ASSUME ExportsArePinned, NEW h \in Hosts, NEW v \in Versions
  PROVE  RepairSticks(h, v)
<1> DEFINE t == Restored(h.canon, v)
           g == [h EXCEPT !.canon = t]
<1>1. SUFFICES ASSUME Repair(h, v, TRUE).out = "repaired"
               PROVE  \A registry \in BOOLEAN :
                        /\ Install(Repair(h, v, TRUE).host, v, registry)
                             = Result(Repair(h, v, TRUE).host, "kept")
                        /\ Repair(Repair(h, v, TRUE).host, v, TRUE)
                             = Result(Repair(h, v, TRUE).host, "clean")
  BY DEF RepairSticks
<1>2. Probe(h, v) = "drift" /\ Verifies(t, v) /\ Repair(h, v, TRUE).host = g
  BY <1>1 DEF Repair, Result
<1>3. h \in Machines /\ h.root = "fanout" /\ ~h.through /\ h.link = "canon" /\ t # None
  BY <1>2 DEF Probe, Hosts, Verifies
<1>4. g.root = "fanout" /\ ~g.through /\ g.link = "canon" /\ g.canon = t
  BY <1>3 DEF Machines
<1> HIDE DEF g, t
<1>5. Probe(g, v) = "adopted"
  BY <1>2, <1>3, <1>4 DEF Probe
<1>6. \A registry \in BOOLEAN : ~SourceFails(g, v, registry)
  BY <1>2, <1>4 DEF SourceFails
<1> QED BY <1>2, <1>5, <1>6 DEF Install, Repair

============================================================================

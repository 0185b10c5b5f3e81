---------------------- MODULE MutationAndBoards_proofs ----------------------
(* Theorems about creating a note or a notebook at most once, for all sets   *)
(* of workers, inputs and ids, about the lock that makes each change of a    *)
(* journal one step (AdmissionLock), for all processes and tokens, and about *)
(* BoardIdentity for every set of projects, boards and commands: the types,  *)
(* that a pass loses no pointer to a board of Plane, that a pass without     *)
(* errors repairs what it looked at, and that a save leaves a link alone     *)
(* that was made since the registry was loaded.                              *)
EXTENDS RemoteMutation, AdmissionLock, BoardIdentity, FiniteSetTheorems, TLAPS

-----------------------------------------------------------------------------
(* The inductive invariant.                                                *)

\* Nothing is on its way to the service, or about to be.
NothingComing == wire = {} /\ \A v \in Workers : pc[v] # "send"

\* A worker that is current holds the journal as it is; where it stands says what
\* that journal is like.
Holding ==
    \A w \in Workers : pc[w] # "idle" =>
        /\ want[w] \in Inputs
        /\ held[w] \in Journals
        /\ w \in current => held[w] = journal
        /\ pc[w] = "latch" => held[w].state = "prepared"
        /\ pc[w] \in {"send", "await", "mark"} => held[w].state = "possibly-dispatched"
        /\ pc[w] \in {"update", "commit"} => held[w].state = "reconciled"

\* An operation that is armed has not been refused.
Armed(j) == j \in Journals /\ j.state = "prepared" => ~j.rejected
Arming == Armed(journal) /\ \A w \in Workers : Armed(held[w])

\* Unless the journal says that a POST is in doubt, there is none.  After a refusal
\* there is no copy either.
Quiet ==
    /\ ~InDoubt => NothingComing
    /\ journal # Nil /\ journal.rejected => notes = {}

\* One POST at a time, and only if there is no copy.
Sending ==
    \A w \in Workers : pc[w] = "send" =>
        /\ notes = {} /\ wire = {}
        /\ \A v \in Workers : pc[v] = "send" => v = w
Single ==
    /\ \A x, y \in notes \cup wire : x = y
    /\ notes = {} \/ wire = {}

\* What a worker that is current has listed still tells what there is.
ListedIds ==
    \A w \in current :
        /\ pc[w] \in {"record", "rerecord"} /\ seen[w] # {} => NothingComing
        /\ pc[w] \in {"record", "rerecord", "update", "commit"} /\ seen[w] # {} =>
               IdsOf(notes) \subseteq IdsOf(seen[w])
        /\ pc[w] \in {"update", "commit"} => seen[w] # {}
        /\ pc[w] = "record" /\ seen[w] = {} /\ held[w].state = "prepared" => notes = {}
        /\ pc[w] = "latch" => notes = {}
        /\ pc[w] = "mark" => notes = {} /\ NothingComing

IInv == MutationTypeOK /\ Holding /\ Arming /\ Quiet /\ Sending /\ Single /\ ListedIds

-----------------------------------------------------------------------------
(* It holds at first, and every step keeps it.                             *)

\* There is no journal, no copy and no POST.
LEMMA InitInv == MutationInit => IInv
<1> SUFFICES ASSUME MutationInit PROVE IInv
  OBVIOUS
<1> USE MutationAssumption DEF MutationInit
<1>1. 0 \in 0..MaxCrashes
  <2>1. MaxCrashes \in Nat
    BY DEF MutationAssumption
  <2> QED BY ONLY <2>1
<1>2. pc \in [Workers -> Steps]
  BY DEF Steps
<1>3. MutationTypeOK
  BY <1>1, <1>2 DEF MutationTypeOK
<1>4. Holding /\ Quiet /\ Sending /\ Single /\ ListedIds
  BY DEF Holding, Quiet, Sending, Single, ListedIds, NothingComing, InDoubt
<1>5. Arming
  BY DEF Arming, Armed, MutationAssumption
<1> QED BY <1>3, <1>4, <1>5 DEF IInv

\* Where a list sends a worker.
LEMMA OnwardCases ==
    ASSUME NEW w \in Workers, pc[w] \in {"record", "rerecord"}, NEW state
    PROVE  LET to == Onward(w, state)
           IN  \/ to = "idle"
               \/ to = "latch" /\ pc[w] = "record" /\ seen[w] = {} /\ state = "prepared"
               \/ to = "rearm" /\ pc[w] = "record" /\ seen[w] = {}
               \/ to = "update" /\ pc[w] = "record" /\ seen[w] # {}
               \/ to = "commit" /\ pc[w] = "rerecord" /\ seen[w] # {}
<1>1. Cardinality({}) = 0
  BY FS_EmptySet
<1>2. (\E i \in Ids : seen[w] = {[id |-> i, input |-> want[w]]}) => seen[w] # {}
  OBVIOUS
<1>3. CASE pc[w] = "record" /\ seen[w] = {}
  <2>1. Onward(w, state) = IF state = "prepared" THEN "latch" ELSE "rearm"
    BY <1>1, <1>3 DEF Onward
  <2> QED BY <2>1, <1>3
<1>4. CASE pc[w] = "record" /\ Cardinality(seen[w]) = 1
  <2>1. seen[w] # {}
    BY <1>1, <1>4
  <2>2. Onward(w, state) = "update"
    BY <2>1, <1>4 DEF Onward
  <2> QED BY <2>1, <2>2, <1>4
<1>5. CASE pc[w] = "rerecord" /\ \E i \in Ids : seen[w] = {[id |-> i, input |-> want[w]]}
  <2>1. Onward(w, state) = "commit"
    BY <1>5 DEF Onward
  <2> QED BY <2>1, <1>2, <1>5
<1>6. CASE /\ ~(pc[w] = "record" /\ seen[w] = {})
           /\ ~(pc[w] = "record" /\ Cardinality(seen[w]) = 1)
           /\ ~(pc[w] = "rerecord" /\ \E i \in Ids : seen[w] = {[id |-> i, input |-> want[w]]})
  <2>1. Onward(w, state) = "idle"
    BY <1>6 DEF Onward
  <2> QED BY <2>1
<1> QED BY <1>3, <1>4, <1>5, <1>6

\* The journal as Prepare and Rearm make it.
LEMMA PreparedType ==
    ASSUME NEW i \in Inputs
    PROVE  /\ Prepared(i) \in Journals
           /\ Prepared(i).state = "prepared" /\ ~Prepared(i).rejected
BY DEF Prepared, Journals

\* A worker that leaves forgets what it knew, and the others do not notice.
LEMMA OutEffect ==
    ASSUME MutationTypeOK, NEW w \in Workers, Out(w)
    PROVE  /\ pc' \in [Workers -> Steps]
           /\ want' \in [Workers -> Inputs \cup {Nil}]
           /\ held' \in [Workers -> Journals \cup {Nil}]
           /\ seen' \in [Workers -> SUBSET Copies]
           /\ post' \in [Workers -> Ids \cup {Nil}]
           /\ pc'[w] = "idle" /\ held'[w] = Nil
           /\ \A v \in Workers \ {w} : /\ pc'[v] = pc[v] /\ held'[v] = held[v]
                                      /\ want'[v] = want[v] /\ seen'[v] = seen[v]
BY DEF MutationTypeOK, Out, Go, Steps

\* It breaks nothing, whatever becomes of the crash budget.
LEMMA Leaves ==
    ASSUME IInv, NEW w \in Workers, Out(w), crashes' \in 0..MaxCrashes,
           UNCHANGED <<journal, remote, current>>
    PROVE  IInv'
<1> USE DEF IInv, remote
<1>1. MutationTypeOK'
  BY OutEffect DEF MutationTypeOK
<1>2. Holding'
  BY OutEffect DEF Holding
<1>3. Arming'
  <2>1. held'[w] \notin Journals
    BY OutEffect, MutationAssumption DEF MutationAssumption
  <2>2. \A v \in Workers \ {w} : held'[v] = held[v]
    BY OutEffect
  <2> QED BY <2>1, <2>2 DEF Arming, Armed
<1>4. Quiet'
  BY OutEffect DEF Quiet, InDoubt, NothingComing
<1>5. Sending' /\ Single'
  BY OutEffect DEF Sending, Single
<1>6. ListedIds'
  <2> SUFFICES ASSUME NEW v \in current PROVE ListedIds!(v)'
    BY DEF ListedIds
  <2> QED BY OutEffect DEF ListedIds, NothingComing, IdsOf, MutationTypeOK
<1> QED BY <1>1, <1>2, <1>3, <1>4, <1>5, <1>6

\* A session begins: its journal is prepared, or the one that is there is taken up.
LEMMA PrepareInv == ASSUME IInv, NEW w \in Workers, Prepare(w) PROVE IInv'
<1> USE DEF IInv, remote
<1>1. PICK i \in Inputs :
          /\ want' = [want EXCEPT ![w] = i]
          /\ \/ /\ journal = Nil \/ journal.state = "prepared"
                /\ journal' = Prepared(i) /\ held' = [held EXCEPT ![w] = Prepared(i)]
                /\ current' = {w}
             \/ /\ journal \in Journals /\ journal' = journal
                /\ held' = [held EXCEPT ![w] = journal] /\ current' = current \cup {w}
  BY DEF Prepare, WriteJournal, MutationTypeOK
<1>2. /\ pc[w] = "idle" /\ pc' = [pc EXCEPT ![w] = "list"]
      /\ UNCHANGED <<notes, wire, seen, post, crashes>>
  BY DEF Prepare, Go
<1>3. journal' \in Journals /\ held' \in [Workers -> Journals \cup {Nil}] /\ held'[w] = journal'
  BY <1>1, PreparedType DEF MutationTypeOK
<1>4. MutationTypeOK'
  BY <1>1, <1>2, <1>3 DEF MutationTypeOK, Steps
<1>5. NothingComing => NothingComing'
  BY <1>2 DEF NothingComing, MutationTypeOK
<1>6. Holding'
  BY <1>1, <1>2, <1>3 DEF Holding, MutationTypeOK
<1>7. Armed(journal)'
  BY <1>1, PreparedType DEF Arming, Armed
<1>8. Arming'
  BY <1>1, <1>3, <1>7 DEF Arming, Armed, MutationTypeOK
<1>9. Quiet'
  BY <1>1, <1>2, <1>5, PreparedType DEF Quiet, InDoubt
<1>10. Sending' /\ Single'
  BY <1>2 DEF Sending, Single, MutationTypeOK
<1>11. ListedIds'
  BY <1>1, <1>2, <1>5 DEF ListedIds, MutationTypeOK
<1> QED BY <1>4, <1>6, <1>8, <1>9, <1>10, <1>11

\* A list tells a worker what there is.
LEMMA ListInv == ASSUME IInv, NEW w \in Workers, List(w) PROVE IInv'
<1> USE DEF IInv, remote
<1>1. /\ pc[w] \in {"list", "relist"} /\ seen' = [seen EXCEPT ![w] = notes]
      /\ \E to \in {"record", "rerecord"} : pc' = [pc EXCEPT ![w] = to]
      /\ UNCHANGED <<journal, notes, wire, want, held, current, post, crashes>>
  BY DEF List, Go
<1>2. MutationTypeOK'
  BY <1>1 DEF MutationTypeOK, Steps
<1>3. NothingComing => NothingComing'
  BY <1>1 DEF NothingComing, MutationTypeOK
<1>4. Holding' /\ Arming'
  BY <1>1 DEF Holding, Arming, Armed, MutationTypeOK
<1>5. Quiet'
  BY <1>1, <1>3 DEF Quiet, InDoubt
<1>6. Sending' /\ Single'
  BY <1>1 DEF Sending, Single, MutationTypeOK
<1>7. notes # {} => NothingComing
  BY DEF Sending, Single, NothingComing
<1>8. ListedIds'
  <2>1. \A v \in Workers \ {w} : pc'[v] = pc[v] /\ seen'[v] = seen[v]
    BY <1>1 DEF MutationTypeOK
  <2>2. pc'[w] \in {"record", "rerecord"} /\ seen'[w] = notes
    BY <1>1 DEF MutationTypeOK
  <2>3. \A v \in current : v = w => ListedIds!(v)'
    BY <1>1, <1>3, <1>7, <2>2 DEF ListedIds, IdsOf
  <2>4. \A v \in current : v # w => ListedIds!(v)'
    BY <1>1, <1>3, <2>1 DEF ListedIds, MutationTypeOK, IdsOf
  <2> QED BY <1>1, <2>3, <2>4 DEF ListedIds
<1> QED BY <1>2, <1>4, <1>5, <1>6, <1>8

\* A worker that writes the journal is the only one that is current.
LEMMA SoleWriter ==
    ASSUME MutationTypeOK, NEW w \in Workers, NEW j \in Journals, WriteJournal(w, j)
    PROVE  /\ journal' = j /\ current' = {w}
           /\ held' \in [Workers -> Journals \cup {Nil}] /\ held'[w] = j
           /\ \A v \in Workers \ {w} : held'[v] = held[v]
BY DEF WriteJournal, MutationTypeOK

\* What was refused is armed again, with other words, and nothing can still come.
LEMMA RearmInv == ASSUME IInv, NEW w \in Workers, Rearm(w) PROVE IInv'
<1> USE DEF IInv, remote
<1>1. CASE Out(w) /\ UNCHANGED <<journal, current>>
  <2>1. crashes' \in 0..MaxCrashes /\ UNCHANGED <<journal, remote, current>>
    BY <1>1 DEF Rearm, MutationTypeOK
  <2> QED BY <1>1, <2>1, Leaves
<1>2. CASE /\ w \in current /\ held[w].rejected
           /\ WriteJournal(w, Prepared(want[w])) /\ Go(w, "latch") /\ UNCHANGED local
  <2>1. /\ pc[w] = "rearm" /\ pc' = [pc EXCEPT ![w] = "latch"]
        /\ UNCHANGED <<notes, wire, want, seen, post, crashes>>
    BY <1>2 DEF Rearm, Go, local
  <2>2. want[w] \in Inputs /\ held[w] \in Journals /\ journal = held[w]
    BY <1>2, <2>1 DEF Holding
  <2>3. Prepared(want[w]) \in Journals
        /\ Prepared(want[w]).state = "prepared" /\ ~Prepared(want[w]).rejected
    BY <2>2, PreparedType
  <2>4. /\ journal' = Prepared(want[w]) /\ current' = {w}
        /\ held' \in [Workers -> Journals \cup {Nil}] /\ held'[w] = journal'
        /\ \A v \in Workers \ {w} : held'[v] = held[v]
    BY <1>2, <2>3, SoleWriter
  <2>5. journal # Nil
    BY <2>2, MutationAssumption DEF MutationAssumption
  <2>6. notes = {} /\ NothingComing
    BY <1>2, <2>2, <2>5 DEF Quiet, InDoubt
  <2>7. NothingComing'
    BY <2>1, <2>6 DEF NothingComing, MutationTypeOK
  <2>8. MutationTypeOK'
    BY <2>1, <2>3, <2>4 DEF MutationTypeOK, Steps
  <2>9. Holding'
    BY <2>1, <2>3, <2>4 DEF Holding, MutationTypeOK
  <2>10. Arming'
    BY <2>3, <2>4 DEF Arming, Armed
  <2>11. Quiet'
    BY <2>3, <2>4, <2>7 DEF Quiet
  <2>12. Sending' /\ Single'
    BY <2>1 DEF Sending, Single, MutationTypeOK
  <2>13. ListedIds'
    BY <2>1, <2>4, <2>6 DEF ListedIds, MutationTypeOK
  <2> QED BY <2>8, <2>9, <2>10, <2>11, <2>12, <2>13
<1> QED BY <1>1, <1>2 DEF Rearm

\* The request is announced before it leaves: there is nothing, and nothing can come.
LEMMA LatchInv == ASSUME IInv, NEW w \in Workers, Latch(w) PROVE IInv'
<1> USE DEF IInv, remote
<1>1. CASE Out(w) /\ UNCHANGED <<journal, current>>
  <2>1. crashes' \in 0..MaxCrashes /\ UNCHANGED <<journal, remote, current>>
    BY <1>1 DEF Latch, MutationTypeOK
  <2> QED BY <1>1, <2>1, Leaves
<1>2. CASE w \in current
  <2> DEFINE j == [held[w] EXCEPT !.state = "possibly-dispatched"]
  <2>1. /\ pc[w] = "latch" /\ pc' = [pc EXCEPT ![w] = "send"] /\ WriteJournal(w, j)
        /\ UNCHANGED <<notes, wire, want, seen, post, crashes>>
    BY <1>2 DEF Latch, Go, local
  <2>2. /\ held[w] \in Journals /\ journal = held[w] /\ held[w].state = "prepared"
        /\ ~held[w].rejected
    BY <1>2, <2>1 DEF Holding, Arming, Armed
  <2>3. j \in Journals /\ j.state = "possibly-dispatched" /\ ~j.rejected /\ j # Nil
    <3>1. j \in Journals /\ j.state = "possibly-dispatched" /\ ~j.rejected
      BY <2>2 DEF Journals
    <3> QED BY <3>1, MutationAssumption DEF MutationAssumption
  <2> HIDE DEF j
  <2>4. /\ journal' = j /\ current' = {w}
        /\ held' \in [Workers -> Journals \cup {Nil}] /\ held'[w] = j
        /\ \A v \in Workers \ {w} : held'[v] = held[v]
    BY <2>1, <2>3, SoleWriter
  <2>5. notes = {} /\ NothingComing
    BY <1>2, <2>1, <2>2 DEF ListedIds, Quiet, InDoubt
  <2>6. MutationTypeOK'
    BY <2>1, <2>3, <2>4 DEF MutationTypeOK, Steps
  <2>7. Holding'
    BY <2>1, <2>3, <2>4 DEF Holding, MutationTypeOK
  <2>8. Arming'
    BY <2>3, <2>4 DEF Arming, Armed
  <2>9. Quiet'
    BY <2>3, <2>4 DEF Quiet, InDoubt
  <2>10. Sending' /\ Single'
    BY <2>1, <2>5 DEF Sending, Single, NothingComing, MutationTypeOK
  <2>11. ListedIds'
    BY <2>1, <2>4 DEF ListedIds, MutationTypeOK
  <2> QED BY <2>6, <2>7, <2>8, <2>9, <2>10, <2>11
<1> QED BY <1>1, <1>2 DEF Latch

\* One POST leaves, the only one; the journal already says so.
LEMMA SendInv == ASSUME IInv, NEW w \in Workers, Send(w) PROVE IInv'
<1> USE DEF IInv, remote
<1>1. PICK n \in Ids : /\ wire' = wire \cup {[id |-> n, input |-> want[w]]}
                       /\ post' = [post EXCEPT ![w] = n]
  BY DEF Send
<1>2. /\ pc[w] = "send" /\ pc' = [pc EXCEPT ![w] = "await"]
      /\ UNCHANGED <<journal, notes, want, held, current, seen, crashes>>
  BY DEF Send, Go
<1>3. [id |-> n, input |-> want[w]] \in Copies
  BY <1>2 DEF Holding, Copies
<1>4. notes = {} /\ wire = {} /\ ~NothingComing
  BY <1>2 DEF Sending, NothingComing
<1>5. MutationTypeOK'
  BY <1>1, <1>2, <1>3 DEF MutationTypeOK, Steps
<1>6. Holding' /\ Arming'
  BY <1>2 DEF Holding, Arming, Armed, MutationTypeOK
<1>7. Quiet'
  BY <1>2, <1>4 DEF Quiet, InDoubt
<1>8. Single'
  BY <1>1, <1>2, <1>4 DEF Single
<1>9. Sending'
  BY <1>2 DEF Sending, MutationTypeOK
<1>10. ListedIds'
  BY <1>2, <1>4 DEF ListedIds, MutationTypeOK, IdsOf
<1> QED BY <1>5, <1>6, <1>7, <1>8, <1>9, <1>10

\* Giving up and crashing change nothing else.
LEMMA GiveUpInv == ASSUME IInv, NEW w \in Workers, GiveUp(w) \/ Crash(w) PROVE IInv'
<1>1. Out(w) /\ UNCHANGED <<journal, remote, current>>
  BY DEF GiveUp, Crash
<1>2. MaxCrashes \in Nat
  BY MutationAssumption DEF MutationAssumption
<1>3. crashes \in 0..MaxCrashes
  BY DEF IInv, MutationTypeOK
<1>4. crashes' = crashes \/ (crashes < MaxCrashes /\ crashes' = crashes + 1)
  BY DEF GiveUp, Crash
<1>5. crashes' \in 0..MaxCrashes
  BY ONLY <1>2, <1>3, <1>4
<1> QED BY <1>1, <1>5, Leaves

\* A worker leaves and no other is current, when the journal is true of what there is.
LEMMA Closes ==
    ASSUME IInv, NEW w \in Workers, Out(w), UNCHANGED <<remote, crashes>>, current' \subseteq {w},
           journal' \in Journals \cup {Nil}, Armed(journal'),
           journal' # Nil /\ journal'.rejected => notes = {}, NothingComing
    PROVE  IInv'
<1> USE DEF IInv, remote
<1>1. MutationTypeOK'
  BY OutEffect DEF MutationTypeOK
<1>2. Holding'
  BY OutEffect DEF Holding
<1>3. Arming'
  <2>1. held'[w] \notin Journals
    BY OutEffect, MutationAssumption DEF MutationAssumption
  <2>2. \A v \in Workers \ {w} : held'[v] = held[v]
    BY OutEffect
  <2> QED BY <2>1, <2>2 DEF Arming, Armed
<1>4. Quiet'
  BY OutEffect DEF Quiet, NothingComing
<1>5. Sending' /\ Single' /\ ListedIds'
  BY OutEffect DEF Sending, Single, ListedIds
<1> QED BY <1>1, <1>2, <1>3, <1>4, <1>5

\* A refusal is written down by a worker that is current: nothing was created.
LEMMA MarkInv == ASSUME IInv, NEW w \in Workers, Mark(w) PROVE IInv'
<1> USE DEF IInv
<1>1. Out(w) /\ UNCHANGED <<remote, crashes>>
  BY DEF Mark
<1>2. CASE UNCHANGED <<journal, current>>
  BY <1>1, <1>2, Leaves DEF MutationTypeOK
<1>3. CASE w \in current /\ journal' = [journal EXCEPT !.rejected = TRUE] /\ current' = {}
  <2>1. pc[w] = "mark"
    BY DEF Mark
  <2>2. journal \in Journals /\ journal.state = "possibly-dispatched"
    BY <1>3, <2>1 DEF Holding
  <2>3. journal' \in Journals /\ journal'.state = "possibly-dispatched"
    BY <1>3, <2>2 DEF Journals
  <2>4. notes = {} /\ NothingComing
    BY <1>3, <2>1 DEF ListedIds
  <2> QED BY <1>1, <1>3, <2>3, <2>4, Closes DEF Armed
<1> QED BY <1>2, <1>3 DEF Mark

\* The operation is closed by a worker that is current, once reconciled.
LEMMA CommitInv == ASSUME IInv, NEW w \in Workers, Commit(w) PROVE IInv'
<1> USE DEF IInv
<1>1. Out(w) /\ UNCHANGED <<remote, crashes>>
  BY DEF Commit
<1>2. CASE UNCHANGED <<journal, current>>
  BY <1>1, <1>2, Leaves DEF MutationTypeOK
<1>3. CASE w \in current /\ journal' = Nil /\ current' = {}
  <2>1. journal.state = "reconciled"
    BY <1>3 DEF Commit, Holding
  <2>2. NothingComing
    BY <2>1 DEF Quiet, InDoubt
  <2>3. Armed(journal')
    BY <1>3, MutationAssumption DEF Armed, MutationAssumption
  <2> QED BY <1>1, <1>3, <2>2, <2>3, Closes
<1> QED BY <1>2, <1>3 DEF Commit

\* The copy changes its words, not its id.
LEMMA UpdateInv == ASSUME IInv, NEW w \in Workers, Update(w) PROVE IInv'
<1> USE DEF IInv
<1>1. CASE Out(w) /\ UNCHANGED notes
  BY <1>1, Leaves DEF Update, MutationTypeOK, remote
<1>2. CASE /\ Go(w, "commit") /\ UNCHANGED <<held, local>>
           /\ \/ UNCHANGED notes
              \/ notes' = {IF c.id \in IdsOf(seen[w]) THEN [c EXCEPT !.input = want[w]] ELSE c :
                             c \in notes}
  <2>1. /\ pc[w] = "update" /\ pc' = [pc EXCEPT ![w] = "commit"]
        /\ UNCHANGED <<journal, wire, want, held, current, seen, post, crashes>>
    BY <1>2 DEF Update, Go, local
  <2>2. want[w] \in Inputs
    BY <2>1 DEF Holding
  <2> DEFINE changed(c) == IF c.id \in IdsOf(seen[w]) THEN [c EXCEPT !.input = want[w]] ELSE c
  <2>3. \A c \in notes : c \in Copies /\ changed(c) \in Copies /\ changed(c).id = c.id
    BY <2>2 DEF Copies, MutationTypeOK
  <2>4. /\ notes' \subseteq Copies /\ IdsOf(notes') = IdsOf(notes)
        /\ notes = {} => notes' = {}
        /\ (\A x, y \in notes : x = y) => \A x, y \in notes' : x = y
    <3>1. CASE UNCHANGED notes
      BY <3>1 DEF MutationTypeOK, IdsOf
    <3>2. CASE notes' = {changed(c) : c \in notes}
      <4> HIDE DEF changed
      <4>1. notes' \subseteq Copies
        BY <2>3, <3>2
      <4>2. IdsOf(notes') = IdsOf(notes)
        BY <2>3, <3>2 DEF IdsOf
      <4> QED BY <3>2, <4>1, <4>2
    <3> QED BY <1>2, <3>1, <3>2
  <2>5. MutationTypeOK'
    BY <2>1, <2>4 DEF MutationTypeOK, Steps
  <2>6. Holding' /\ Arming'
    BY <2>1 DEF Holding, Arming, Armed, MutationTypeOK
  <2>7. NothingComing => NothingComing'
    BY <2>1 DEF NothingComing, MutationTypeOK
  <2>8. Quiet'
    BY <2>1, <2>4, <2>7 DEF Quiet, InDoubt
  <2>9. Sending' /\ Single'
    BY <2>1, <2>4 DEF Sending, Single, MutationTypeOK
  <2>10. ListedIds'
    BY <2>1, <2>4, <2>7 DEF ListedIds, MutationTypeOK, IdsOf
  <2> QED BY <2>5, <2>6, <2>8, <2>9, <2>10
<1> QED BY <1>1, <1>2 DEF Update

\* After a list a worker leaves or goes on, with journal j.
Goes(w, j, to) ==
    /\ pc' = [pc EXCEPT ![w] = to]
    /\ held' = [held EXCEPT ![w] = j] /\ UNCHANGED <<want, seen, post>>
    /\ \/ to = "latch" /\ pc[w] = "record" /\ seen[w] = {} /\ j.state = "prepared"
       \/ to = "rearm" /\ pc[w] = "record" /\ seen[w] = {}
       \/ to = "update" /\ pc[w] = "record" /\ seen[w] # {}
       \/ to = "commit" /\ pc[w] = "rerecord" /\ seen[w] # {}

LEMMA ProceedEffect ==
    ASSUME NEW w \in Workers, pc[w] \in {"record", "rerecord"}, NEW j, Proceed(w, j)
    PROVE  Out(w) \/ \E to \in Steps : Goes(w, j, to)
<1>1. CASE Onward(w, j.state) = "idle"
  BY <1>1 DEF Proceed
<1>2. CASE Onward(w, j.state) # "idle"
  <2> DEFINE to == Onward(w, j.state)
  <2>1. /\ pc' = [pc EXCEPT ![w] = to]
        /\ held' = [held EXCEPT ![w] = j] /\ UNCHANGED <<want, seen, post>>
    BY <1>2 DEF Proceed, Go, local
  <2>2. Goes(w, j, to)
    BY <1>2, <2>1, OnwardCases DEF Goes
  <2>3. to \in Steps
    BY <1>2, OnwardCases DEF Steps
  <2> QED BY <2>2, <2>3
<1> QED BY <1>1, <1>2

\* A worker whose list is what the journal says goes on with it.
LEMMA GoesOnInv ==
    ASSUME IInv, NEW w \in Workers, NEW to \in Steps, Goes(w, held[w], to),
           seen[w] # {} => held[w].state = "reconciled",
           UNCHANGED <<journal, remote, current, crashes>>
    PROVE  IInv'
<1> USE DEF IInv, remote
<1>1. held[w] \in Journals /\ pc[w] \in {"record", "rerecord"}
  BY DEF Goes, Holding
<1>2. held' = held
  BY DEF Goes, MutationTypeOK
<1>3. /\ UNCHANGED <<want, seen, post>> /\ pc' = [pc EXCEPT ![w] = to]
      /\ to \in {"latch", "rearm", "update", "commit"}
      /\ to = "latch" => pc[w] = "record" /\ seen[w] = {} /\ held[w].state = "prepared"
      /\ to \in {"update", "commit"} => seen[w] # {}
  BY DEF Goes
<1>4. MutationTypeOK'
  BY <1>2, <1>3 DEF MutationTypeOK
<1>5. Holding' /\ Arming'
  BY <1>1, <1>2, <1>3 DEF Holding, Arming, Armed, MutationTypeOK
<1>6. NothingComing => NothingComing'
  BY <1>3 DEF NothingComing, MutationTypeOK
<1>7. Quiet'
  BY <1>6 DEF Quiet, InDoubt
<1>8. Sending' /\ Single'
  BY <1>3 DEF Sending, Single, MutationTypeOK
<1>9. ListedIds'
  <2>1. pc'[w] = to /\ \A v \in Workers \ {w} : pc'[v] = pc[v]
    BY <1>3 DEF MutationTypeOK
  <2>2. \A v \in current : v = w => ListedIds!(v)'
    BY <1>1, <1>2, <1>3, <1>6, <2>1 DEF ListedIds
  <2>3. \A v \in current : v # w => ListedIds!(v)'
    BY <1>2, <1>3, <1>6, <2>1 DEF ListedIds, MutationTypeOK
  <2> QED BY <2>2, <2>3 DEF ListedIds
<1> QED BY <1>4, <1>5, <1>7, <1>8, <1>9

\* The journal takes down what a worker that is current listed, and the worker goes on.
LEMMA FoundInv ==
    ASSUME IInv, NEW w \in current, pc[w] \in {"record", "rerecord"}, seen[w] # {},
           NEW to \in Steps, Goes(w, journal', to), current' = {w}, UNCHANGED <<remote, crashes>>,
           journal' \in Journals, journal'.state = "reconciled", ~journal'.rejected
    PROVE  IInv'
<1> USE DEF IInv, remote
<1>1. w \in Workers
  BY DEF MutationTypeOK
<1>2. /\ UNCHANGED <<want, seen, post>> /\ pc' = [pc EXCEPT ![w] = to]
      /\ to \in {"update", "commit"} /\ held' = [held EXCEPT ![w] = journal']
  BY DEF Goes
<1>3. MutationTypeOK'
  BY <1>1, <1>2 DEF MutationTypeOK
<1>4. Holding' /\ Arming'
  BY <1>1, <1>2 DEF Holding, Arming, Armed, MutationTypeOK
<1>5. NothingComing'
  BY <1>1, <1>2 DEF ListedIds, NothingComing, MutationTypeOK
<1>6. Quiet'
  BY <1>5 DEF Quiet
<1>7. Sending' /\ Single'
  BY <1>2 DEF Sending, Single, MutationTypeOK
<1>8. ListedIds'
  <2>1. pc'[w] \in {"update", "commit"}
    BY <1>1, <1>2 DEF MutationTypeOK
  <2> QED BY <1>2, <2>1 DEF ListedIds
<1> QED BY <1>3, <1>4, <1>6, <1>7, <1>8

\* Or it takes it down and leaves: there are several copies, or not the right one.
LEMMA FoundAndOut ==
    ASSUME IInv, NEW w \in current, pc[w] \in {"record", "rerecord"}, seen[w] # {},
           Out(w), current' = {w}, UNCHANGED <<remote, crashes>>,
           journal' \in Journals, journal'.state = "reconciled", ~journal'.rejected
    PROVE  IInv'
<1> USE DEF IInv
<1>1. w \in Workers
  BY DEF MutationTypeOK
<1>2. NothingComing /\ Armed(journal')
  BY DEF ListedIds, Armed
<1> QED BY <1>1, <1>2, Closes

\* What was listed is written down or agrees with what was, or the worker leaves.
LEMMA RecordInv == ASSUME IInv, NEW w \in Workers, Record(w) PROVE IInv'
<1> DEFINE ids   == IdsOf(seen[w])
           found == [held[w] EXCEPT !.state = "reconciled", !.rejected = FALSE, !.candidates = ids]
<1>1. pc[w] \in {"record", "rerecord"} /\ UNCHANGED <<remote, crashes>>
  BY DEF Record
<1>2. held[w] \in Journals
  BY <1>1 DEF IInv, Holding
<1>3. ids \subseteq Ids /\ (ids = {} <=> seen[w] = {})
  BY DEF IInv, MutationTypeOK, IdsOf, Copies
<1>4. found \in Journals /\ found.state = "reconciled" /\ ~found.rejected
  BY <1>2, <1>3 DEF Journals
<1>5. crashes' \in 0..MaxCrashes
  BY <1>1 DEF IInv, MutationTypeOK
<1>6. \/ ids # {} /\ w \in current /\ journal' = found /\ current' = {w} /\ Proceed(w, found)
      \/ /\ held[w].state = "reconciled" \/ ids = {}
         /\ Proceed(w, held[w]) /\ UNCHANGED <<journal, current>>
      \/ Out(w) /\ UNCHANGED <<journal, current>>
  BY DEF Record
<1> HIDE DEF ids, found
<1>7. CASE Out(w) /\ UNCHANGED <<journal, current>>
  BY <1>1, <1>5, <1>7, Leaves
<1>8. CASE /\ held[w].state = "reconciled" \/ ids = {}
           /\ Proceed(w, held[w]) /\ UNCHANGED <<journal, current>>
  <2>1. CASE \E to \in Steps : Goes(w, held[w], to)
    BY <1>1, <1>3, <1>8, <2>1, GoesOnInv
  <2> QED BY <1>1, <1>7, <1>8, <2>1, ProceedEffect
<1>9. CASE ids # {} /\ w \in current /\ journal' = found /\ current' = {w} /\ Proceed(w, found)
  <2>1. CASE \E to \in Steps : Goes(w, found, to)
    BY <1>1, <1>3, <1>4, <1>9, <2>1, FoundInv
  <2>2. CASE Out(w)
    BY <1>1, <1>3, <1>4, <1>9, <2>2, FoundAndOut
  <2> QED BY <1>1, <1>9, <2>1, <2>2, ProceedEffect
<1> QED BY <1>6, <1>7, <1>8, <1>9

\* While a POST is on its way it is the only one, there is no copy, and nobody who is
\* current has anything but an operation in doubt.
LEMMA OnTheWire ==
    ASSUME IInv, NEW m \in wire
    PROVE  /\ wire = {m} /\ notes = {} /\ InDoubt
           /\ \A v \in Workers : pc[v] # "send"
           /\ \A v \in current : pc[v] \notin {"latch", "update", "commit", "mark"}
           /\ \A v \in current : pc[v] = "record" => held[v].state # "prepared"
           /\ \A v \in current : pc[v] \in {"record", "rerecord"} => seen[v] = {}
<1> USE DEF IInv
<1>1. wire = {m} /\ notes = {} /\ \A v \in Workers : pc[v] # "send"
  BY DEF Single, Sending
<1>2. ~NothingComing
  BY DEF NothingComing
<1>3. InDoubt
  BY <1>2 DEF Quiet
<1>4. \A v \in current : pc[v] # "idle" => held[v] = journal /\ journal.state = "possibly-dispatched"
  BY <1>3 DEF Holding, InDoubt, MutationTypeOK
<1>5. \A v \in current : pc[v] \notin {"latch", "update", "commit", "mark"}
  BY <1>2, <1>4 DEF Holding, ListedIds, MutationTypeOK
<1> QED BY <1>1, <1>2, <1>3, <1>4, <1>5 DEF ListedIds

\* The answer reaches a worker that awaits it, or nobody.
Told(where) ==
    \/ \E w \in Workers : pc[w] = "await" /\ pc' = [pc EXCEPT ![w] = where]
    \/ pc' = pc

\* The service deals with a POST: a copy is made or not, and a worker may hear of it.
LEMMA ServedInv ==
    ASSUME IInv, NEW m \in wire, wire' = wire \ {m},
           UNCHANGED <<journal, held, current, want, seen, post, crashes>>,
           \/ notes' = notes \cup {m} /\ Told("relist")
           \/ notes' = notes /\ Told("mark")
    PROVE  IInv'
<1> USE DEF IInv
<1>1. /\ wire' = {} /\ notes' \subseteq {m}
      /\ \A v \in Workers : pc[v] # "send"
      /\ \A v \in current : pc[v] \notin {"latch", "update", "commit", "mark"}
      /\ \A v \in current : pc[v] = "record" => held[v].state # "prepared"
      /\ \A v \in current : pc[v] \in {"record", "rerecord"} => seen[v] = {}
  BY OnTheWire
<1>2. /\ pc' \in [Workers -> Steps]
      /\ \A v \in Workers : \/ pc'[v] = pc[v]
                            \/ pc[v] = "await" /\ pc'[v] = "relist"
                            \/ pc[v] = "await" /\ pc'[v] = "mark" /\ notes' = {}
  BY OnTheWire DEF Told, MutationTypeOK, Steps
<1>3. MutationTypeOK'
  BY <1>1, <1>2 DEF MutationTypeOK
<1>4. Holding' /\ Arming'
  BY <1>2 DEF Holding, Arming, Armed
<1>5. NothingComing'
  BY <1>1, <1>2 DEF NothingComing
<1>6. Quiet'
  BY <1>5, OnTheWire DEF Quiet, InDoubt
<1>7. Single'
  BY <1>1 DEF Single
<1>8. Sending'
  BY <1>1, <1>2 DEF Sending
<1>9. ListedIds'
  BY <1>1, <1>2, <1>5 DEF ListedIds, MutationTypeOK
<1> QED BY <1>3, <1>4, <1>6, <1>7, <1>8, <1>9

LEMMA ServiceInv == ASSUME IInv, Service PROVE IInv'
<1>1. PICK m \in wire : Land(m) \/ RefuseRequest(m) \/ Lose(m)
  BY DEF Service
<1>2. /\ wire' = wire \ {m}
      /\ UNCHANGED <<journal, held, current, want, seen, post, crashes>>
  BY <1>1 DEF Land, RefuseRequest, Lose, local
<1>3. \/ notes' = notes \cup {m} /\ Told("relist")
      \/ notes' = notes /\ Told("mark")
  BY <1>1 DEF Land, RefuseRequest, Lose, Told, Awaits, Go
<1> QED BY <1>2, <1>3, ServedInv

\* With a copy fewer, all that was said still holds.
LEMMA DeleteInv == ASSUME IInv, NEW c \in notes, Delete(c) PROVE IInv'
<1> USE DEF IInv
<1>1. notes' \subseteq notes /\ UNCHANGED <<journal, wire, pc, held, current, want, seen, post, crashes>>
  BY DEF Delete, local
<1>2. MutationTypeOK' /\ Holding' /\ Arming'
  BY <1>1 DEF MutationTypeOK, Holding, Arming, Armed
<1>3. NothingComing => NothingComing'
  BY <1>1 DEF NothingComing
<1>4. Quiet' /\ Sending' /\ Single'
  BY <1>1, <1>3 DEF Quiet, InDoubt, Sending, Single
<1>5. IdsOf(notes') \subseteq IdsOf(notes)
  BY <1>1 DEF IdsOf
<1>6. ListedIds'
  BY <1>1, <1>3, <1>5 DEF ListedIds
<1> QED BY <1>2, <1>4, <1>6

\* Every step keeps the invariant.
LEMMA StepInv == ASSUME IInv, [MutationNext]_mutationVars PROVE IInv'
<1>1. ASSUME NEW w \in Workers, Step(w) \/ Crash(w) PROVE IInv'
  BY <1>1, PrepareInv, ListInv, RecordInv, UpdateInv, RearmInv, LatchInv, SendInv,
     GiveUpInv, MarkInv, CommitInv DEF Step
<1>2. CASE UNCHANGED mutationVars
  <2> USE <1>2 DEF IInv, mutationVars
  <2>1. MutationTypeOK' /\ Holding' /\ Arming'
    BY DEF MutationTypeOK, Holding, Arming, Armed
  <2>2. Quiet' /\ Sending' /\ Single' /\ ListedIds'
    BY DEF Quiet, InDoubt, NothingComing, Sending, Single, ListedIds, IdsOf
  <2> QED BY <2>1, <2>2
<1> QED BY <1>1, <1>2, ServiceInv, DeleteInv DEF MutationNext

\* How the journal of an operation under way changes: by Rearm, by the Commit of a worker
\* that is current, or in a way that neither arms the operation again nor closes it.
LEMMA Changes ==
    ASSUME IInv, MutationNext, journal # Nil
    PROVE  \/ \E w \in Workers : Rearm(w) /\ w \in current /\ held[w].rejected
           \/ \E w \in Workers : Commit(w) /\ w \in current
           \/ journal' \in Journals /\ (journal'.state = "prepared" => journal.state = "prepared")
<1> USE DEF IInv
<1>1. journal \in Journals
  BY DEF MutationTypeOK
<1>2. CASE journal' = journal
  BY <1>1, <1>2
<1>3. CASE journal' # journal
  <2>1. PICK w \in Workers : Prepare(w) \/ Record(w) \/ Rearm(w) \/ Latch(w) \/ Mark(w) \/ Commit(w)
    BY <1>3 DEF MutationNext, Step, List, Update, Send, GiveUp, Crash, Service, Land, RefuseRequest, Lose, Delete
  <2>2. CASE Prepare(w)
    BY <1>1, <1>3, <2>2, PreparedType DEF Prepare, WriteJournal
  <2>3. CASE Record(w)
    <3>1. journal' = [held[w] EXCEPT !.state = "reconciled", !.rejected = FALSE,
                                     !.candidates = IdsOf(seen[w])]
      BY <1>3, <2>3 DEF Record
    <3>2. held[w] \in Journals /\ IdsOf(seen[w]) \subseteq Ids
      BY <2>3 DEF Record, Holding, MutationTypeOK, IdsOf, Copies
    <3> QED BY <3>1, <3>2 DEF Journals
  <2>4. CASE Rearm(w)
    BY <1>3, <2>4 DEF Rearm
  <2>5. CASE Latch(w)
    <3>1. journal' = [held[w] EXCEPT !.state = "possibly-dispatched"] /\ held[w] \in Journals
      BY <1>3, <2>5 DEF Latch, WriteJournal, Holding
    <3> QED BY <3>1 DEF Journals
  <2>6. CASE Mark(w)
    <3>1. journal' = [journal EXCEPT !.rejected = TRUE]
      BY <1>3, <2>6 DEF Mark
    <3> QED BY <1>1, <3>1 DEF Journals
  <2>7. CASE Commit(w)
    BY <1>3, <2>7 DEF Commit
  <2> QED BY <2>1, <2>2, <2>3, <2>4, <2>5, <2>6, <2>7
<1> QED BY <1>2, <1>3

-----------------------------------------------------------------------------
(* The theorems.                                                           *)

\* The inductive invariant: what the journal says of the POSTs under way, and what the
\* worker that holds it may conclude from its list.
THEOREM Inductive == MutationSpec => []IInv
<1>1. MutationInit => IInv
  BY InitInv
<1>2. IInv /\ [MutationNext]_mutationVars => IInv'
  BY StepInv
<1> QED BY <1>1, <1>2, PTL DEF MutationSpec

\* Every variable keeps its type: reconcileManagedNote() and reconcileProjectNotebook().
THEOREM MutationTypeCorrect == MutationSpec => []MutationTypeOK
<1>1. IInv => MutationTypeOK
  BY DEF IInv
<1> QED BY <1>1, Inductive, PTL

\* There is never a second copy, nor a POST that might make one, however many workers
\* contend, crash and give up, and however requests, refusals and copies are lost.
THEOREM AtMostOnce == MutationSpec => []OneCopy
<1>1. IInv => OneCopy
  BY DEF IInv, Single, OneCopy, IdsOf
<1> QED BY <1>1, Inductive, PTL

\* preparedCorrection arms an operation again only when nothing is there or can come.
THEOREM RearmedWhenRefused == MutationSpec => NeverRearmedInDoubt
<1> DEFINE A == journal # Nil /\ journal' # Nil
                /\ journal.state = "possibly-dispatched" /\ journal'.state = "prepared"
                => notes = {} /\ wire = {} /\ \A w \in Workers : pc[w] # "send"
<1>1. IInv /\ [MutationNext]_mutationVars => [A]_mutationVars
  <2> SUFFICES ASSUME IInv, MutationNext, journal # Nil, journal' # Nil,
                      journal.state = "possibly-dispatched", journal'.state = "prepared"
               PROVE  journal.rejected
    BY DEF IInv, Quiet, InDoubt, NothingComing, mutationVars
  <2>1. PICK w \in Workers : Rearm(w) /\ w \in current /\ held[w].rejected
    BY Changes DEF Commit
  <2> QED BY <2>1 DEF Rearm, IInv, Holding
<1> QED BY <1>1, Inductive, PTL DEF MutationSpec, NeverRearmedInDoubt

\* A journal is committed only by a worker that listed whatever copy there is.
THEOREM OwnerCloses == MutationSpec => ClosedByOwner
<1> DEFINE A == journal # Nil /\ journal' = Nil
                => /\ wire = {}
                   /\ \E w \in Workers : pc[w] = "commit" /\ IdsOf(notes) \subseteq IdsOf(seen[w])
<1>1. IInv /\ [MutationNext]_mutationVars => [A]_mutationVars
  <2> SUFFICES ASSUME IInv, MutationNext, journal # Nil, journal' = Nil PROVE A
    BY DEF mutationVars
  <2>1. \A w \in Workers : ~(Rearm(w) /\ w \in current /\ held[w].rejected)
    <3> SUFFICES ASSUME NEW w \in Workers, Rearm(w), w \in current, held[w].rejected
                 PROVE  journal' \in Journals
      BY MutationAssumption DEF MutationAssumption
    <3>1. want[w] \in Inputs /\ journal = held[w] /\ journal \in Journals
      BY DEF Rearm, IInv, Holding
    <3> QED BY <3>1, PreparedType DEF Rearm, WriteJournal
  <2>2. PICK w \in Workers : Commit(w) /\ w \in current
    BY <2>1, Changes, MutationAssumption DEF MutationAssumption
  <2>3. wire = {}
    BY <2>2 DEF Commit, IInv, Holding, Quiet, InDoubt, NothingComing
  <2> QED BY <2>2, <2>3 DEF Commit, IInv, ListedIds
<1> QED BY <1>1, Inductive, PTL DEF MutationSpec, ClosedByOwner

-----------------------------------------------------------------------------
(* The inductive invariant of the lock.                                    *)

\* Tokens are handed out once: two processes never hold the same one.
Distinct ==
    \A p, q \in Procs : mine[p] = mine[q] /\ mine[p] # NoToken => p = q

\* A process on its way in has a token; one in a recovery has seen another's.
Carrying ==
    \A p \in Procs :
        /\ place[p] # "idle" => mine[p] # NoToken
        /\ place[p] \in {"claim", "verify", "take", "unclaim", "fail"} => stale[p] # NoToken

\* Whoever created the lock still has it: nobody removed it meanwhile.
Owning ==
    \A p \in Procs :
        place[p] \in {"write", "in", "check", "drop"} =>
            lock.token = mine[p] /\ lock.is # "lapsed"

\* Of the processes past the recovery claim no two are there for the same token, and
\* the claim is still on disk.
Claiming ==
    /\ \A p \in Procs :
        place[p] \in {"verify", "take", "unclaim", "fail"} => stale[p] \in claims
    /\ \A p, q \in Procs :
        /\ place[p] \in {"verify", "take", "unclaim", "fail"}
        /\ place[q] \in {"verify", "take", "unclaim", "fail"}
        /\ stale[p] = stale[q]
        => p = q

\* What was verified under the claim holds until the rename.
Verified ==
    \A p \in Procs : place[p] = "take" => lock.token = stale[p] /\ lock.is = "lapsed"

LockInv == LockTypeOK /\ Distinct /\ Carrying /\ Owning /\ Claiming /\ Verified

-----------------------------------------------------------------------------
(* It holds at first, and every step keeps it.                             *)

\* Nobody holds anything yet.
LEMMA LockInitInv == LockInit => LockInv
<1> SUFFICES ASSUME LockInit PROVE LockInv
  OBVIOUS
<1>1. LockTypeOK
  BY LockAssumption DEF LockInit, LockTypeOK, Places
<1>2. Distinct /\ Carrying /\ Owning /\ Claiming /\ Verified
  BY DEF LockInit, Distinct, Carrying, Owning, Claiming, Verified
<1> QED BY <1>1, <1>2 DEF LockInv

\* Every step keeps the types, given that a process that needs a token has it.
LEMMA LockTypedStep == ASSUME LockTypeOK, Carrying, [LockNext]_lockVars PROVE LockTypeOK'
<1> USE LockAssumption DEF LockTypeOK, Places, Files, NoFile, GoTo, deaths
<1>1. ASSUME Lapse PROVE LockTypeOK'
  BY <1>1 DEF Lapse
<1>2. ASSUME NEW p \in Procs, Call(p) PROVE LockTypeOK'
  BY <1>2 DEF Call
<1>3. ASSUME NEW p \in Procs, Create(p) PROVE LockTypeOK'
  <2>1. mine[p] \in Tokens
    BY <1>3 DEF Create, Carrying
  <2> QED BY <1>3, <2>1 DEF Create
<1>4. ASSUME NEW p \in Procs, Write(p) PROVE LockTypeOK'
  <2>1. mine[p] # NoToken
    BY <1>4 DEF Write, Carrying
  <2>2. CASE lock.token = mine[p]
    <3>1. lock \in Files
      BY <2>1, <2>2
    <3>2. lock' = [lock EXCEPT !.is = "live"]
      BY <1>4, <2>2 DEF Write
    <3> QED BY <1>4, <3>1, <3>2 DEF Write
  <2>3. CASE lock.token # mine[p]
    BY <1>4, <2>3 DEF Write
  <2> QED BY <2>2, <2>3
<1>5. ASSUME NEW p \in Procs, Unreadable(p) \/ Busy(p) \/ SeeLapsed(p) PROVE LockTypeOK'
  BY <1>5 DEF Unreadable, Busy, SeeLapsed, Leave
<1>6. ASSUME NEW p \in Procs, Claim(p) PROVE LockTypeOK'
  <2>1. stale[p] \in Tokens
    BY <1>6 DEF Claim, Carrying
  <2> QED BY <1>6, <2>1 DEF Claim
<1>7. ASSUME NEW p \in Procs, Verify(p) \/ Take(p) \/ Unclaim(p) PROVE LockTypeOK'
  BY <1>7 DEF Verify, Take, Unclaim, Leave
<1>8. ASSUME NEW p \in Procs, Operate(p) \/ Check(p) \/ Drop(p) PROVE LockTypeOK'
  BY <1>8 DEF Operate, Check, Drop, Leave
<1>9. ASSUME NEW p \in Procs, Die(p) PROVE LockTypeOK'
  BY <1>9 DEF Die, Leave
<1>10. ASSUME UNCHANGED lockVars PROVE LockTypeOK'
  BY <1>10 DEF lockVars
<1> QED BY <1>1, <1>2, <1>3, <1>4, <1>5, <1>6, <1>7, <1>8, <1>9, <1>10 DEF LockNext, LockStep

\* So the tokens stay distinct and where they are needed.
LEMMA TokensStep ==
    ASSUME LockTypeOK, Distinct, Carrying, [LockNext]_lockVars PROVE Distinct' /\ Carrying'
<1> USE DEF LockTypeOK, Distinct, Carrying, GoTo
<1>1. ASSUME Lapse PROVE Distinct' /\ Carrying'
  BY <1>1 DEF Lapse
<1>2. ASSUME NEW p \in Procs, Call(p) PROVE Distinct' /\ Carrying'
  <2>1. PICK t \in Tokens \ TokensInUse : mine' = [mine EXCEPT ![p] = t]
    BY <1>2 DEF Call
  <2>2. \A q \in Procs : mine[q] # t
    BY <2>1 DEF TokensInUse
  <2>3. t # NoToken
    BY LockAssumption
  <2> QED BY <1>2, <2>1, <2>2, <2>3 DEF Call
<1>3. ASSUME NEW p \in Procs, Create(p) \/ Write(p) \/ Claim(p) \/ Verify(p) \/ Take(p) \/ Operate(p)
      PROVE  Distinct' /\ Carrying'
  BY <1>3, LockAssumption DEF Create, Write, Claim, Verify, Take, Operate
<1>4. ASSUME NEW p \in Procs, SeeLapsed(p) PROVE Distinct' /\ Carrying'
  <2>1. lock.token # NoToken
    BY <1>4, LockAssumption DEF SeeLapsed, Files, NoFile
  <2> QED BY <1>4, <2>1 DEF SeeLapsed
<1>5. ASSUME NEW p \in Procs, Unreadable(p) \/ Busy(p) \/ Unclaim(p) \/ Check(p) \/ Drop(p) \/ Die(p)
      PROVE  Distinct' /\ Carrying'
  BY <1>5 DEF Unreadable, Busy, Unclaim, Check, Drop, Die, Leave
<1>6. ASSUME UNCHANGED lockVars PROVE Distinct' /\ Carrying'
  BY <1>6 DEF lockVars
<1> QED BY <1>1, <1>2, <1>3, <1>4, <1>5, <1>6 DEF LockNext, LockStep

\* No two processes pass the claim for the same token.
LEMMA ClaimingStep ==
    ASSUME LockTypeOK, Carrying, Claiming, [LockNext]_lockVars PROVE Claiming'
<1> USE DEF LockTypeOK, Claiming, GoTo
<1>1. ASSUME Lapse \/ UNCHANGED lockVars PROVE Claiming'
  BY <1>1 DEF Lapse, lockVars
<1>2. ASSUME NEW p \in Procs, Call(p) \/ Create(p) \/ Write(p) \/ Operate(p) PROVE Claiming'
  BY <1>2 DEF Call, Create, Write, Operate
<1>3. ASSUME NEW p \in Procs, Unreadable(p) \/ Busy(p) \/ Check(p) \/ Drop(p) PROVE Claiming'
  BY <1>3 DEF Unreadable, Busy, Check, Drop, Leave
<1>4. ASSUME NEW p \in Procs, SeeLapsed(p) PROVE Claiming'
  BY <1>4 DEF SeeLapsed
<1>5. ASSUME NEW p \in Procs, Claim(p) PROVE Claiming'
  BY <1>5 DEF Claim
<1>6. ASSUME NEW p \in Procs, Verify(p) \/ Take(p) PROVE Claiming'
  BY <1>6 DEF Verify, Take
<1>7. ASSUME NEW p \in Procs, Unclaim(p) PROVE Claiming'
  BY <1>7 DEF Unclaim, Leave
<1>8. ASSUME NEW p \in Procs, Die(p) PROVE Claiming'
  BY <1>8 DEF Die, Leave
<1> QED BY <1>1, <1>2, <1>3, <1>4, <1>5, <1>6, <1>7, <1>8 DEF LockNext, LockStep

\* As long as no operation outlasts its lease, a lock is removed only by its owner or
\* once it lapsed without one, and whoever verified it is the one to rename it.
LEMMA OwningStep ==
    ASSUME Slow = FALSE, LockInv, [LockNext]_lockVars PROVE Owning' /\ Verified'
<1> USE DEF LockInv, LockTypeOK, Owning, Verified, GoTo
<1>1. ASSUME Lapse PROVE Owning' /\ Verified'
  <2>1. \A p \in Procs : place[p] \notin {"write", "in", "check", "drop"}
    BY <1>1 DEF Lapse, Owner
  <2> QED BY <1>1, <2>1 DEF Lapse
<1>2. ASSUME NEW p \in Procs, Call(p) PROVE Owning' /\ Verified'
  BY <1>2 DEF Call
<1>3. ASSUME NEW p \in Procs, Create(p) PROVE Owning' /\ Verified'
  <2>1. CASE lock = NoFile
    <3>1. \A q \in Procs : place[q] \notin {"write", "in", "check", "drop", "take"}
      BY <2>1, LockAssumption DEF NoFile, Carrying
    <3>2. lock' = [token |-> mine[p], is |-> "empty"] /\ place' = [place EXCEPT ![p] = "write"]
      BY <1>3, <2>1 DEF Create
    <3>3. mine' = mine
      BY <1>3 DEF Create
    <3> QED BY <3>1, <3>2, <3>3
  <2>2. CASE lock # NoFile
    BY <1>3, <2>2 DEF Create
  <2> QED BY <2>1, <2>2
<1>4. ASSUME NEW p \in Procs, Write(p) PROVE Owning' /\ Verified'
  <2>1. lock.token = mine[p] /\ mine[p] # NoToken /\ lock.is # "lapsed"
    BY <1>4 DEF Write, Carrying
  <2>2. lock \in Files
    BY <2>1 DEF NoFile
  <2>3. lock' = [lock EXCEPT !.is = "live"] /\ lock'.token = lock.token /\ lock'.is = "live"
    BY <1>4, <2>1, <2>2 DEF Write, Files
  <2>4. place' = [place EXCEPT ![p] = "in"] /\ UNCHANGED <<mine, stale>>
    BY <1>4 DEF Write
  <2> QED BY <2>1, <2>3, <2>4
<1>5. ASSUME NEW p \in Procs, Unreadable(p) \/ Busy(p) \/ SeeLapsed(p) \/ Unclaim(p) \/ Die(p)
      PROVE  Owning' /\ Verified'
  BY <1>5 DEF Unreadable, Busy, SeeLapsed, Unclaim, Die, Leave
<1>6. ASSUME NEW p \in Procs, Claim(p) \/ Verify(p) \/ Operate(p) PROVE Owning' /\ Verified'
  BY <1>6 DEF Claim, Verify, Operate
<1>7. ASSUME NEW p \in Procs, Take(p) PROVE Owning' /\ Verified'
  <2>1. lock.token = stale[p] /\ lock.is = "lapsed"
    BY <1>7 DEF Take
  <2>2. \A q \in Procs : place[q] \notin {"write", "in", "check", "drop"}
    BY <2>1
  <2>3. \A q \in Procs : place[q] = "take" => q = p
    BY <1>7, <2>1 DEF Take, Claiming
  <2>4. place' \in {[place EXCEPT ![p] = "fail"], [place EXCEPT ![p] = "unclaim"]}
    BY <1>7 DEF Take
  <2> QED BY <2>2, <2>3, <2>4
<1>8. ASSUME NEW p \in Procs, Check(p) PROVE Owning' /\ Verified'
  BY <1>8 DEF Check, Leave
<1>9. ASSUME NEW p \in Procs, Drop(p) PROVE Owning' /\ Verified'
  <2>1. lock.token = mine[p] /\ lock.is # "lapsed" /\ mine[p] # NoToken
    BY <1>9 DEF Drop, Carrying
  <2>2. \A q \in Procs : q # p => place[q] \notin {"write", "in", "check", "drop", "take"}
    BY <2>1 DEF Distinct
  <2>3. place' = [place EXCEPT ![p] = "idle"]
    BY <1>9 DEF Drop, Leave
  <2> QED BY <2>2, <2>3
<1>10. ASSUME UNCHANGED lockVars PROVE Owning' /\ Verified'
  BY <1>10 DEF lockVars
<1> QED BY <1>1, <1>2, <1>3, <1>4, <1>5, <1>6, <1>7, <1>8, <1>9, <1>10 DEF LockNext, LockStep

-----------------------------------------------------------------------------
(* The theorems about the lock.                                            *)

\* The tokens, the claims and the types hold even if operations outlast their leases.
THEOREM LockTypeCorrect == LockSpec => [](LockTypeOK /\ Distinct /\ Carrying /\ Claiming)
<1>1. LockInit => LockTypeOK /\ Distinct /\ Carrying /\ Claiming
  BY LockInitInv DEF LockInv
<1>2. LockTypeOK /\ Distinct /\ Carrying /\ Claiming /\ [LockNext]_lockVars
        => (LockTypeOK /\ Distinct /\ Carrying /\ Claiming)'
  BY LockTypedStep, TokensStep, ClaimingStep
<1> QED BY <1>1, <1>2, PTL DEF LockSpec

\* As long as no operation outlasts its lease, whoever created the lock still has it, a
\* recovery claim has one holder, and what it verified holds until the rename.
THEOREM LockInductive == ASSUME Slow = FALSE PROVE LockSpec => []LockInv
<1>1. LockInv /\ [LockNext]_lockVars => LockInv'
  BY LockTypedStep, TokensStep, ClaimingStep, OwningStep DEF LockInv
<1> QED BY <1>1, LockInitInv, PTL DEF LockSpec

\* With operations that end within their lease the lock is a mutex, however many
\* processes contend, die and recover each other's locks.
THEOREM IsMutex == ASSUME Slow = FALSE PROVE LockSpec => ImplementsMutex
<1>1. LockInit => Abstract!Init
  BY DEF LockInit, Inside, Abstract!Init
<1>2. LockInv /\ [LockNext]_lockVars => [Abstract!Next]_Inside
  <2> SUFFICES ASSUME LockInv, [LockNext]_lockVars PROVE [Abstract!Next]_Inside
    OBVIOUS
  <2> USE DEF LockInv, LockTypeOK, Inside, GoTo
  <2>1. \A p, q \in Inside : p = q
    BY DEF Owning, Distinct, Carrying
  <2>2. ASSUME NEW p \in Procs, Write(p) PROVE [Abstract!Next]_Inside
    <3>1. Inside = {}
      BY <2>2 DEF Write, Owning, Distinct, Carrying
    <3>2. Inside' = {p}
      BY <2>2, <3>1 DEF Write
    <3> QED BY <3>1, <3>2 DEF Abstract!Next, Abstract!Enter
  <2>3. ASSUME NEW p \in Procs, Operate(p) \/ Die(p) PROVE [Abstract!Next]_Inside
    <3>1. place' \in {[place EXCEPT ![p] = "check"], [place EXCEPT ![p] = "idle"]}
      BY <2>3 DEF Operate, Die, Leave
    <3>2. CASE p \in Inside
      <4>1. Inside = {p} /\ Inside' = {}
        BY <2>1, <3>1, <3>2
      <4> QED BY <4>1 DEF Abstract!Next, Abstract!Leave
    <3>3. CASE p \notin Inside
      BY <3>1, <3>3
    <3> QED BY <3>2, <3>3
  <2>4. ASSUME NEW p \in Procs, Call(p) \/ Create(p) \/ Unreadable(p) \/ Busy(p) \/ SeeLapsed(p)
        PROVE  UNCHANGED Inside
    BY <2>4 DEF Call, Create, Unreadable, Busy, SeeLapsed, Leave
  <2>5. ASSUME NEW p \in Procs, Claim(p) \/ Verify(p) \/ Take(p) \/ Unclaim(p) \/ Check(p) \/ Drop(p)
        PROVE  UNCHANGED Inside
    BY <2>5 DEF Claim, Verify, Take, Unclaim, Check, Drop, Leave
  <2>6. ASSUME Lapse \/ UNCHANGED lockVars PROVE UNCHANGED Inside
    BY <2>6 DEF Lapse, lockVars
  <2> QED BY <2>2, <2>3, <2>4, <2>5, <2>6 DEF LockNext, LockStep
<1> QED BY <1>1, <1>2, LockInductive, PTL DEF LockSpec, ImplementsMutex, Abstract!Spec

\* A recovery removes the very lock it claimed, and only that.
THEOREM RemovesStale == ASSUME Slow = FALSE PROVE LockSpec => OnlyStaleRemoved
<1>1. LockInv => \A p \in Procs : place[p] = "take" /\ place'[p] = "unclaim" => lock.token = stale[p]
  BY DEF LockInv, Verified
<1> QED BY <1>1, LockInductive, PTL DEF OnlyStaleRemoved

-----------------------------------------------------------------------------
(* BoardIdentity.                                                          *)

\* Every record has a board of its own provider, or none.
OwnBoards(rs) == \A p \in Slugs : rs[p].board \in BoardsOf(p) \cup {None}

\* A board of Plane that the registry held is claimed, and whoever claims one
\* holds it.
Claims(k) ==
  \A b \in Plane :
    /\ (\E p \in Slugs : k.base[p].board = b) => k.claimed[b] # None
    /\ k.claimed[b] # None => k.mine[k.claimed[b]].board = b

\* What a pass can have made of a record: it is as it was, or has a stamp of its
\* own, or is demoted, or is a Trello record whose key is called a proposal.
Verdict(k, p) ==
  LET old == k.base[p]
      new == k.mine[p]
  IN  \/ new = old
      \/ new.stamp \notin {old.stamp, None}
      \/ new = Demoted(k, old)
      \/ TypeOf[p] = "trello" /\ new = [old EXCEPT !.source = "proposed"]

\* A record that was judged without an error is right.
Settled(k, p) ==
  LET old == k.base[p]
      new == k.mine[p]
  IN  /\ LegalRecord(p, new)
      /\ new.board # None => k.claimed[new.board] = p
      /\ new.board = None => new.key = None \/ ~OwnedKey(k, new)
      /\ IF new.board \in Plane
         THEN /\ new.board \in DOMAIN k.seen /\ ~k.seen[new.board].archived
              /\ new.key = k.seen[new.board].key /\ new.ws = Home[new.board]
         ELSE new.key \in {None, old.key} /\ new.ws = old.ws

SeenUnique(k) ==
  \A a, b \in DOMAIN k.seen : Home[a] = Home[b] /\ k.seen[a].key = k.seen[b].key => a = b

\* A pass in its middle: those before `next` are judged, the others untouched.
Pass(k) ==
  /\ OwnBoards(k.base) /\ OwnBoards(k.mine)
  /\ Claims(k)
  /\ SeenUnique(k)
  /\ k.degraded => k.errors
  /\ \A p \in Slugs : Verdict(k, p)
  /\ \A i \in DOMAIN Sorted : i >= k.next => k.mine[Sorted[i]] = k.base[Sorted[i]]
  /\ ~k.errors => \A i \in DOMAIN Sorted :
                    i < k.next /\ Sorted[i] \in k.scope => Settled(k, Sorted[i])
  /\ k.op = "fetch" => k.next = 1 /\ k.mine = k.base /\ DOMAIN k.seen = {}

Outside ==
  /\ KeysUnique(plane)
  /\ service => reg = man
  /\ OwnBoards(reg) /\ OwnBoards(man)

Inv ==
  /\ TypeOK
  /\ Outside
  /\ \A c \in Commands :
       /\ cmd[c] \in Passes => Pass(cmd[c])
       /\ cmd[c] \in Links => OwnBoards(cmd[c].base)

----------------------------------------------------------------------------
(* Data *)

LEMMA NoneIsApart ==
  /\ None \notin Slugs /\ None \notin Boards /\ None \notin Keys
  /\ None \notin Plane /\ None \notin Trello
BY Separate DEF Boards

LEMMA OwnAreBoards ==
  ASSUME NEW p \in Slugs
  PROVE  /\ BoardsOf(p) \subseteq Boards
         /\ TypeOf[p] = "plane" => BoardsOf(p) = Plane
         /\ TypeOf[p] # "plane" => BoardsOf(p) = Trello /\ TypeOf[p] = "trello"
         /\ \A b \in BoardsOf(p) : b \in Plane <=> TypeOf[p] = "plane"
BY Separate DEF BoardsOf, Boards

LEMMA FreshIsNew ==
  ASSUME NEW c \in Commands, NEW s
  PROVE  Fresh(c, s) \in Stamps /\ Fresh(c, s) # s /\ Fresh(c, s) # None
<1>1. <<c, 0>> # <<c, 1>>
  OBVIOUS
<1>2. <<c, 0>> \in Commands \X {0, 1} /\ <<c, 1>> \in Commands \X {0, 1}
  OBVIOUS
<1>3. None # <<c, 0>> /\ None # <<c, 1>>
  BY <1>2, Separate
<1> QED BY <1>1, <1>2, <1>3 DEF Fresh, Stamps

\* A block, field by field.
LEMMA BlockFields ==
  ASSUME NEW r \in Bindings
  PROVE  /\ r.board \in Boards \cup {None} /\ r.ws \in Workspaces
         /\ r.key \in Keys \cup {None} /\ r.source \in Sources
         /\ r.state \in States /\ r.stamp \in Stamps
         /\ r = [board |-> r.board, ws |-> r.ws, key |-> r.key, source |-> r.source,
                 state |-> r.state, stamp |-> r.stamp]
BY DEF Bindings

LEMMA MakeBlock ==
  ASSUME NEW b \in Boards \cup {None}, NEW w \in Workspaces, NEW k \in Keys \cup {None},
         NEW so \in Sources, NEW st \in States, NEW sm \in Stamps
  PROVE  [board |-> b, ws |-> w, key |-> k, source |-> so, state |-> st, stamp |-> sm]
           \in Bindings
BY DEF Bindings

LEMMA SameBlock ==
  ASSUME NEW r \in Bindings, NEW t \in Bindings,
         r.board = t.board, r.ws = t.ws, r.key = t.key, r.source = t.source,
         r.state = t.state, r.stamp = t.stamp
  PROVE  r = t
BY BlockFields

LEMMA PassFields ==
  ASSUME NEW k \in Passes
  PROVE  /\ k.op \in {"fetch", "judge"} /\ k.scope \in SUBSET Slugs
         /\ k.base \in Registries /\ k.mine \in Registries
         /\ k.claimed \in [Boards -> Slugs \cup {None}]
         /\ k.keys \in [Slugs -> Keys \cup {None}] /\ k.where \in SUBSET Workspaces
         /\ k.seen \in UNION {[S -> Facts] : S \in SUBSET Plane}
         /\ k.degraded \in BOOLEAN /\ k.next \in 1 .. Len(Sorted) + 1 /\ k.errors \in BOOLEAN
         /\ k.op # "idle" /\ k.op # "link"
BY DEF Passes

LEMMA SeenIsPlane ==
  ASSUME NEW k \in Passes
  PROVE  /\ DOMAIN k.seen \subseteq Plane
         /\ \A b \in DOMAIN k.seen :
              k.seen[b] \in Facts /\ k.seen[b].key \in Keys /\ k.seen[b].archived \in BOOLEAN
<1>1. PICK S \in SUBSET Plane : k.seen \in [S -> Facts]
  BY PassFields
<1> QED BY <1>1 DEF Facts

LEMMA KindOf ==
  ASSUME TypeOK, NEW c \in Commands
  PROVE  /\ cmd[c] \in {Idle} \cup Passes \cup Links
         /\ At(c, "fetch") \/ At(c, "judge") => cmd[c] \in Passes
         /\ At(c, "link") => cmd[c] \in Links
         /\ At(c, "idle") => cmd[c] = Idle
         /\ Idle \notin Passes /\ Idle \notin Links /\ Passes \cap Links = {}
         /\ Idle.op = "idle"
<1>1. cmd[c] \in {Idle} \cup Passes \cup Links
  BY DEF TypeOK
<1>2. Idle.op = "idle" /\ (\A k \in Passes : k.op \in {"fetch", "judge"})
      /\ (\A k \in Links : k.op = "link")
  BY PassFields DEF Idle, Links
<1> QED BY <1>1, <1>2 DEF At

\* A pass after one of its records was judged.
After(k, p, r, claim, bad) ==
  [k EXCEPT !.mine = [k.mine EXCEPT ![p] = r],
            !.claimed = [b \in Boards |-> IF b = claim THEN p ELSE k.claimed[b]],
            !.next = k.next + 1,
            !.errors = k.errors \/ bad]

LEMMA JudgedIsAfter ==
  ASSUME TypeOK, NEW c \in Commands, InTurn(c), NEW r, NEW claim, NEW bad \in BOOLEAN,
         Judged(c, r, claim, bad)
  PROVE  cmd' = [cmd EXCEPT ![c] = After(cmd[c], Turn(c), r, claim, bad)]
<1>1. cmd[c] \in Passes
  BY KindOf DEF InTurn
<1>2. cmd \in [Commands -> {Idle} \cup Passes \cup Links]
  BY DEF TypeOK
<1> QED BY <1>1, <1>2, PassFields DEF Judged, After, Passes

LEMMA AfterFields ==
  ASSUME NEW k \in Passes, NEW p \in Slugs, NEW r, NEW claim, NEW bad \in BOOLEAN
  PROVE  LET new == After(k, p, r, claim, bad)
         IN  /\ new.op = k.op /\ new.scope = k.scope /\ new.base = k.base
             /\ new.mine = [k.mine EXCEPT ![p] = r]
             /\ new.claimed = [b \in Boards |-> IF b = claim THEN p ELSE k.claimed[b]]
             /\ new.keys = k.keys /\ new.where = k.where /\ new.seen = k.seen
             /\ new.degraded = k.degraded /\ new.next = k.next + 1
             /\ new.errors = (k.errors \/ bad)
BY DEF After, Passes

LEMMA UpdateIsPass ==
  ASSUME NEW k \in Passes, NEW m \in Registries, NEW cl \in [Boards -> Slugs \cup {None}],
         NEW nx \in 1 .. Len(Sorted) + 1, NEW e \in BOOLEAN
  PROVE  [k EXCEPT !.mine = m, !.claimed = cl, !.next = nx, !.errors = e] \in Passes
BY DEF Passes

LEMMA AfterIsPass ==
  ASSUME NEW k \in Passes, NEW p \in Slugs, NEW r \in Bindings, NEW claim, NEW bad \in BOOLEAN,
         k.next <= Len(Sorted)
  PROVE  After(k, p, r, claim, bad) \in Passes
<1>1. [k.mine EXCEPT ![p] = r] \in Registries
  BY PassFields DEF Registries
<1>2. [b \in Boards |-> IF b = claim THEN p ELSE k.claimed[b]] \in [Boards -> Slugs \cup {None}]
  BY PassFields
<1>3. k.next + 1 \in 1 .. Len(Sorted) + 1
  <2>1. Len(Sorted) \in Nat /\ k.next \in 1 .. Len(Sorted) + 1
    BY Separate, PassFields
  <2> QED BY <2>1
<1>4. (k.errors \/ bad) \in BOOLEAN
  BY PassFields
<1> QED BY <1>1, <1>2, <1>3, <1>4, UpdateIsPass DEF After

LEMMA TurnIsSlug ==
  ASSUME TypeOK, NEW c \in Commands, InTurn(c)
  PROVE  /\ cmd[c] \in Passes /\ cmd[c].op = "judge"
         /\ Turn(c) \in Slugs /\ Turn(c) \in cmd[c].scope
         /\ cmd[c].next \in DOMAIN Sorted /\ cmd[c].next <= Len(Sorted)
         /\ Turn(c) = Sorted[cmd[c].next]
<1>1. cmd[c] \in Passes
  BY KindOf DEF InTurn
<1>2. Sorted \in Seq(Slugs) /\ Len(Sorted) \in Nat /\ DOMAIN Sorted = 1 .. Len(Sorted)
  BY Separate
<1>3. cmd[c].next \in 1 .. Len(Sorted)
  BY <1>1, <1>2, PassFields DEF InTurn
<1> QED BY <1>1, <1>2, <1>3 DEF InTurn, Turn, At

----------------------------------------------------------------------------
(* The board that a record is judged by *)

LEMMA RecordedIs ==
  ASSUME TypeOK, NEW k \in Passes, NEW p \in Slugs, OwnBoards(k.mine), OwnBoards(man)
  PROVE  /\ \/ RecordedBoard(k, p) = None
            \/ Unclaimed(k, p, RecordedBoard(k, p)) /\ RecordedBoard(k, p) \in BoardsOf(p)
         /\ Unclaimed(k, p, k.mine[p].board) => RecordedBoard(k, p) = k.mine[p].board
<1> DEFINE agent == IF TypeOf[p] = "plane" THEN Agent[p] ELSE None
           bindings == <<k.mine[p].board, man[p].board, agent>>
           free == {i \in 1..3 : Unclaimed(k, p, bindings[i])}
           first == CHOOSE i \in free : \A j \in free : i <= j
<1>1. \A i \in 1..3 : bindings[i] \in BoardsOf(p) \cup {None}
  <2>1. agent \in BoardsOf(p) \cup {None}
    BY Separate, OwnAreBoards
  <2>2. bindings[1] = k.mine[p].board /\ bindings[2] = man[p].board /\ bindings[3] = agent
    OBVIOUS
  <2> QED BY <2>1, <2>2 DEF OwnBoards
<1>2. RecordedBoard(k, p) = IF free = {} THEN None ELSE bindings[first]
  BY DEF RecordedBoard
<1>3. ASSUME free # {} PROVE first \in free /\ \A j \in free : first <= j
  <2>1. \E i \in free : \A j \in free : i <= j
    <3>1. CASE 1 \in free
      BY <3>1
    <3>2. CASE 1 \notin free /\ 2 \in free
      BY <3>2
    <3>3. CASE 1 \notin free /\ 2 \notin free
      <4>1. free \subseteq 1..3
        OBVIOUS
      <4>2. \A j \in free : j = 3
        <5> HIDE DEF free
        <5> QED BY <3>3, <4>1
      <4>3. free # {}
        BY <1>3
      <4> HIDE DEF free
      <4> QED BY <4>2, <4>3
    <3> QED BY <3>1, <3>2, <3>3
  <2> QED BY <2>1
<1>4. ASSUME free # {} PROVE Unclaimed(k, p, bindings[first]) /\ first \in 1..3
  BY <1>3, <1>4
<1>5. ASSUME Unclaimed(k, p, k.mine[p].board) PROVE free # {} /\ bindings[first] = k.mine[p].board
  <2>1. 1 \in free
    BY <1>5
  <2>2. first \in 1..3 /\ first <= 1
    BY <2>1, <1>3
  <2>3. first = 1
    BY <2>2
  <2> QED BY <2>1, <2>3
<1> HIDE DEF free, first, bindings
<1> QED BY <1>1, <1>2, <1>4, <1>5 DEF Unclaimed

LEMMA TargetIs ==
  ASSUME TypeOK, NEW k \in Passes, NEW p \in Slugs, OwnBoards(k.mine), OwnBoards(man)
  PROVE  /\ \/ TargetBoard(k, p) = None
            \/ Unclaimed(k, p, TargetBoard(k, p)) /\ TargetBoard(k, p) \in BoardsOf(p)
         /\ Unclaimed(k, p, k.mine[p].board) =>
              ~MayHint(k, p) /\ TargetBoard(k, p) = k.mine[p].board
         /\ TargetBoard(k, p) # None => TargetBoard(k, p) \in Boards
<1> DEFINE found == {b \in HintedBoards(k, p) :
                       LiveIn(k, HintedBoards(k, p)) = {b} /\ Unclaimed(k, p, b)}
<1>1. CASE MayHint(k, p) /\ found # {}
  <2>1. TargetBoard(k, p) = CHOOSE b \in found : TRUE
    BY <1>1 DEF TargetBoard
  <2>2. TargetBoard(k, p) \in found
    BY <1>1, <2>1
  <2>3. HintedBoards(k, p) \subseteq DOMAIN k.seen
    BY DEF HintedBoards
  <2>4. TargetBoard(k, p) \in Plane /\ TypeOf[p] = "plane"
    BY <2>2, <2>3, SeenIsPlane, <1>1 DEF MayHint
  <2>5. ~Unclaimed(k, p, k.mine[p].board)
    BY <1>1, RecordedIs DEF MayHint, Unclaimed
  <2> QED BY <2>2, <2>4, <2>5, OwnAreBoards
<1>2. CASE ~(MayHint(k, p) /\ found # {})
  <2>1. TargetBoard(k, p) = RecordedBoard(k, p)
    BY <1>2 DEF TargetBoard
  <2>2. Unclaimed(k, p, k.mine[p].board) => ~MayHint(k, p)
    BY RecordedIs DEF MayHint, Unclaimed
  <2> QED BY <2>1, <2>2, RecordedIs, OwnAreBoards
<1> QED BY <1>1, <1>2

\* What must be said of a judgement for the pass to go on as it should: record,
\* claim and report.
Judgement(k, p, r, claim, bad) ==
  LET old == k.base[p]
  IN  /\ bad \in BOOLEAN
      /\ r \in Bindings /\ r.board \in BoardsOf(p) \cup {None}
      /\ claim # None =>
           /\ claim \in BoardsOf(p) /\ k.claimed[claim] \in {None, p}
           /\ claim \in Plane => r.board = claim
      /\ \A b \in Plane : k.claimed[b] = p => r.board = b
      /\ \/ r = old
         \/ r.stamp \notin {old.stamp, None}
         \/ r = Demoted(k, old)
         \/ TypeOf[p] = "trello" /\ r = [old EXCEPT !.source = "proposed"]
      /\ ~bad /\ ~k.errors =>
           /\ LegalRecord(p, r)
           /\ r.board # None => r.board = claim
           /\ r.board = None => r.key = None \/ ~OwnedKey(k, r)
           /\ IF r.board \in Plane
              THEN /\ r.board \in DOMAIN k.seen /\ ~k.seen[r.board].archived
                   /\ r.key = k.seen[r.board].key /\ r.ws = Home[r.board]
              ELSE r.key \in {None, old.key} /\ r.ws = old.ws

LEMMA InPass ==
  ASSUME Inv, NEW c \in Commands, InTurn(c), NEW k, k = cmd[c], NEW p, p = Turn(c)
  PROVE  /\ k \in Passes /\ Pass(k) /\ p \in Slugs /\ TypeOK
         /\ OwnBoards(k.mine) /\ OwnBoards(man)
         /\ k.mine[p] = k.base[p] /\ k.mine[p] \in Bindings
         /\ \A b \in Plane : k.claimed[b] = p => k.mine[p].board = b
<1>1. /\ k \in Passes /\ p \in Slugs /\ k.next \in DOMAIN Sorted /\ p = Sorted[k.next]
      /\ TypeOK /\ OwnBoards(man)
  BY TurnIsSlug DEF Inv, Outside
<1>2. Pass(k)
  BY <1>1 DEF Inv
<1>3. k.next \in Nat
  BY <1>1, PassFields
<1>4. k.mine[p] = k.base[p]
  BY <1>1, <1>2, <1>3 DEF Pass
<1>5. k.mine[p] \in Bindings
  BY <1>1, PassFields DEF Registries
<1>6. \A b \in Plane : k.claimed[b] = p => k.mine[p].board = b
  BY <1>1, <1>2, NoneIsApart DEF Pass, Claims
<1> QED BY <1>1, <1>2, <1>4, <1>5, <1>6 DEF Pass

\* A board of Plane that the record claims is the one it is judged by.
LEMMA ClaimIsTarget ==
  ASSUME Inv, NEW c \in Commands, InTurn(c), NEW k, k = cmd[c], NEW p, p = Turn(c),
         NEW b \in Plane, k.claimed[b] = p
  PROVE  k.mine[p].board = b /\ TargetBoard(k, p) = b /\ RecordedBoard(k, p) = b
         /\ ~MayHint(k, p) /\ TypeOf[p] = "plane" /\ b # None
<1>1. k \in Passes /\ p \in Slugs /\ TypeOK /\ OwnBoards(k.mine) /\ OwnBoards(man)
      /\ k.mine[p].board = b /\ b # None
  BY InPass, NoneIsApart
<1>2. Unclaimed(k, p, k.mine[p].board)
  BY <1>1 DEF Unclaimed
<1>3. TypeOf[p] = "plane"
  BY <1>1, OwnAreBoards DEF OwnBoards
<1> QED BY <1>1, <1>2, <1>3, TargetIs, RecordedIs

----------------------------------------------------------------------------
(* What becomes of a record *)

LEMMA UpdateBlock ==
  ASSUME NEW r \in Bindings, NEW b \in Boards \cup {None}, NEW x \in Keys \cup {None},
         NEW so \in Sources, NEW st \in States, NEW sm \in Stamps
  PROVE  /\ [r EXCEPT !.board = b, !.key = x, !.state = st, !.source = so, !.stamp = sm]
              \in Bindings
         /\ [r EXCEPT !.board = b, !.source = so, !.state = st, !.stamp = sm] \in Bindings
BY DEF Bindings

\* A demoted record has no board, no stamp, and no key of a live board.
LEMMA DemotedIs ==
  ASSUME NEW k, NEW r \in Bindings
  PROVE  LET d == Demoted(k, r)
         IN  /\ d \in Bindings
             /\ d.board = None /\ d.stamp = None /\ d.ws = r.ws
             /\ d.key = (IF OwnedKey(k, r) THEN None ELSE r.key)
             /\ d.source = (IF d.key = None THEN None ELSE "proposed")
             /\ d.state = (IF r.state = "skipped" THEN "skipped" ELSE "planned")
             /\ d.key = None \/ ~OwnedKey(k, d)
             /\ \A p \in Slugs : LegalRecord(p, d)
<1> DEFINE d == Demoted(k, r)
<1>1. /\ d.board = None /\ d.stamp = None /\ d.ws = r.ws
      /\ d.key = (IF OwnedKey(k, r) THEN None ELSE r.key)
      /\ d.source = (IF d.key = None THEN None ELSE "proposed")
      /\ d.state = (IF r.state = "skipped" THEN "skipped" ELSE "planned")
  BY BlockFields DEF Demoted
<1>2. d \in Bindings
  <2> DEFINE kept == IF OwnedKey(k, r) THEN None ELSE r.key
             so == IF kept = None THEN None ELSE "proposed"
             st == IF r.state = "skipped" THEN "skipped" ELSE "planned"
  <2>1. kept \in Keys \cup {None} /\ so \in Sources /\ st \in States /\ None \in Stamps
    BY BlockFields DEF Sources, States, Stamps
  <2>2. d = [r EXCEPT !.board = None, !.key = kept, !.state = st, !.source = so,
                      !.stamp = None]
    BY DEF Demoted
  <2> HIDE DEF d, kept, so, st
  <2> QED BY <2>1, <2>2, UpdateBlock
<1> HIDE DEF d
<1>4. d.key = None \/ ~OwnedKey(k, d)
  BY <1>1 DEF OwnedKey
<1>5. \A p \in Slugs : LegalRecord(p, d)
  BY <1>1, Separate DEF LegalRecord
<1> QED BY <1>1, <1>2, <1>4, <1>5 DEF d

\* A board of Plane as a record, with an instant.
LinkAt(b, f, s) == [PlaneLink(b, f) EXCEPT !.stamp = s]

LEMMA LinkAtIs ==
  ASSUME NEW b \in Plane, NEW f, f.key \in Keys, NEW s \in Stamps
  PROVE  /\ LinkAt(b, f, s) \in Bindings
         /\ LinkAt(b, f, s).board = b /\ LinkAt(b, f, s).ws = Home[b]
         /\ LinkAt(b, f, s).key = f.key /\ LinkAt(b, f, s).source = "provider"
         /\ LinkAt(b, f, s).state = "linked" /\ LinkAt(b, f, s).stamp = s
<1>1. LinkAt(b, f, s) = [board |-> b, ws |-> Home[b], key |-> f.key, source |-> "provider",
                         state |-> "linked", stamp |-> s]
  BY DEF PlaneLink, LinkAt
<1>2. b \in Boards \cup {None} /\ Home[b] \in Workspaces /\ "provider" \in Sources
      /\ "linked" \in States /\ f.key \in Keys \cup {None}
  BY Separate DEF Boards, Sources, States
<1>3. LinkAt(b, f, s) \in Bindings
  BY <1>1, <1>2, MakeBlock
<1> QED BY <1>1, <1>3

\* What stampFor() makes of a record of Plane.
LEMMA StampedIs ==
  ASSUME NEW c \in Commands, NEW old \in Bindings, NEW b \in Plane, NEW f, f.key \in Keys
  PROVE  LET r == Stamped(c, old, PlaneLink(b, f))
         IN  /\ r \in Bindings /\ r.board = b /\ r.ws = Home[b] /\ r.key = f.key
             /\ r.source = "provider" /\ r.state = "linked" /\ r.stamp # None
             /\ r = old \/ r.stamp # old.stamp
<1> DEFINE same == LinkAt(b, f, old.stamp)
           anew == LinkAt(b, f, Fresh(c, old.stamp))
<1>1. Stamped(c, old, PlaneLink(b, f)) = IF same = old /\ old.stamp # None THEN old ELSE anew
  BY DEF Stamped, LinkAt
<1>2. old.stamp \in Stamps
  BY BlockFields
<1>3. CASE same = old /\ old.stamp # None
  BY <1>1, <1>2, <1>3, LinkAtIs
<1>4. CASE ~(same = old /\ old.stamp # None)
  BY <1>1, <1>2, <1>4, LinkAtIs, FreshIsNew
<1> QED BY <1>3, <1>4

LEMMA TrelloLinkIs ==
  ASSUME NEW c \in Commands, NEW old \in Bindings, NEW b \in Trello
  PROVE  LET r == TrelloLink(c, old, b)
         IN  /\ r \in Bindings /\ r.board = b /\ r.ws = old.ws /\ r.key = old.key
             /\ r.source = "proposed" /\ r.state = "linked" /\ r.stamp # None
             /\ \/ r.stamp \notin {old.stamp, None}
                \/ r = [old EXCEPT !.source = "proposed"]
<1> DEFINE r == TrelloLink(c, old, b)
           kept == old.board = b /\ old.state = "linked" /\ old.stamp # None
           s == IF kept THEN old.stamp ELSE Fresh(c, old.stamp)
           e == [old EXCEPT !.source = "proposed"]
<1>1. r = [old EXCEPT !.board = b, !.source = "proposed", !.state = "linked", !.stamp = s]
  BY DEF TrelloLink
<1>2. b \in Boards \cup {None} /\ "proposed" \in Sources /\ "linked" \in States
      /\ s \in Stamps /\ s # None /\ (~kept => s # old.stamp)
  BY FreshIsNew, BlockFields DEF Boards, Sources, States
<1>3. /\ r.board = b /\ r.ws = old.ws /\ r.key = old.key /\ r.source = "proposed"
      /\ r.state = "linked" /\ r.stamp = s
  <2> HIDE DEF r, s
  <2> QED BY <1>1, BlockFields
<1>4. r \in Bindings
  <2> HIDE DEF r, s
  <2> QED BY <1>1, <1>2, UpdateBlock
<1>5. e \in Bindings /\ e.board = old.board /\ e.ws = old.ws /\ e.key = old.key
      /\ e.source = "proposed" /\ e.state = old.state /\ e.stamp = old.stamp
  <2>1. e \in Bindings
    BY <1>2 DEF Bindings
  <2>2. /\ e.board = old.board /\ e.ws = old.ws /\ e.key = old.key
        /\ e.source = "proposed" /\ e.state = old.state /\ e.stamp = old.stamp
    BY BlockFields
  <2> QED BY <2>1, <2>2
<1>6. kept => r = e
  <2>1. kept => s = old.stamp
    OBVIOUS
  <2> HIDE DEF r, e, s
  <2> QED BY <1>3, <1>4, <1>5, <2>1, SameBlock
<1> HIDE DEF r, s, e
<1> QED BY <1>2, <1>3, <1>4, <1>6 DEF r, e

----------------------------------------------------------------------------
(* Every judgement is one that a pass can go on from *)

LEMMA ParkJudges ==
  ASSUME Inv, NEW c \in Commands, InTurn(c), NEW k, k = cmd[c], NEW p, p = Turn(c),
         NEW bad \in BOOLEAN, bad \/ k.degraded,
         ~(\E b \in Plane : k.claimed[b] = p /\ k.mine[p].board # b)
  PROVE  Judgement(k, p, k.mine[p], None, bad)
<1>1. /\ k \in Passes /\ Pass(k) /\ p \in Slugs /\ OwnBoards(k.mine)
      /\ k.mine[p] = k.base[p] /\ k.mine[p] \in Bindings
  BY InPass
<1>2. bad \/ k.errors
  BY <1>1 DEF Pass
<1> QED BY <1>1, <1>2 DEF Judgement, OwnBoards

\* Demotion, when no board of Plane is the record's own.
LEMMA DemotionJudges ==
  ASSUME Inv, NEW c \in Commands, InTurn(c), NEW k, k = cmd[c], NEW p, p = Turn(c),
         NEW claim, NEW bad \in BOOLEAN,
         \A b \in Plane : k.claimed[b] # p,
         claim # None => claim \in Trello /\ claim \in BoardsOf(p) /\ k.claimed[claim] \in {None, p}
  PROVE  Judgement(k, p, Demoted(k, k.mine[p]), claim, bad)
<1> DEFINE d == Demoted(k, k.mine[p])
<1>1. /\ k \in Passes /\ Pass(k) /\ p \in Slugs
      /\ k.mine[p] = k.base[p] /\ k.mine[p] \in Bindings
  BY InPass
<1>2. /\ d \in Bindings /\ d.board = None /\ d.ws = k.mine[p].ws
      /\ d.key \in {None, k.mine[p].key}
      /\ d.key = None \/ ~OwnedKey(k, d)
      /\ LegalRecord(p, d)
  BY <1>1, DemotedIs
<1>3. d = Demoted(k, k.base[p])
  BY <1>1
<1>4. claim # None => claim \notin Plane
  BY Separate
<1> HIDE DEF d
<1>5. Judgement(k, p, d, claim, bad)
  BY <1>1, <1>2, <1>3, <1>4, NoneIsApart DEF Judgement
<1> QED BY <1>5 DEF d

LEMMA ConfirmJudges ==
  ASSUME Inv, NEW c \in Commands, InTurn(c), NEW k, k = cmd[c], NEW p, p = Turn(c),
         TypeOf[p] = "plane", NEW b, b = TargetBoard(k, p), b \in DOMAIN k.seen
  PROVE  Judgement(k, p, Stamped(c, k.mine[p], PlaneLink(b, k.seen[b])), b, k.seen[b].archived)
<1> DEFINE r == Stamped(c, k.mine[p], PlaneLink(b, k.seen[b]))
<1>1. /\ k \in Passes /\ Pass(k) /\ p \in Slugs /\ TypeOK
      /\ OwnBoards(k.mine) /\ OwnBoards(man)
      /\ k.mine[p] = k.base[p] /\ k.mine[p] \in Bindings
  BY InPass
<1>2. b \in Plane /\ k.seen[b].key \in Keys /\ k.seen[b].archived \in BOOLEAN /\ b # None
  BY <1>1, SeenIsPlane, NoneIsApart
<1>3. k.claimed[b] \in {None, p} /\ b \in BoardsOf(p)
  BY <1>1, <1>2, TargetIs DEF Unclaimed
<1>4. /\ r \in Bindings /\ r.board = b /\ r.ws = Home[b] /\ r.key = k.seen[b].key
      /\ r.source = "provider" /\ r.state = "linked" /\ r.stamp # None
      /\ r = k.mine[p] \/ r.stamp # k.mine[p].stamp
  BY <1>1, <1>2, StampedIs
<1>5. \A a \in Plane : k.claimed[a] = p => b = a
  BY ClaimIsTarget
<1>6. LegalRecord(p, r)
  BY <1>1, <1>2, <1>3, <1>4, NoneIsApart DEF LegalRecord
<1> HIDE DEF r
<1>7. Judgement(k, p, r, b, k.seen[b].archived)
  BY <1>1, <1>2, <1>3, <1>4, <1>5, <1>6 DEF Judgement
<1> QED BY <1>7 DEF r

LEMMA TrelloJudges ==
  ASSUME Inv, NEW c \in Commands, TrelloTurn(c), NEW k, k = cmd[c], NEW p, p = Turn(c),
         NEW b, b = TargetBoard(k, p)
  PROVE  /\ b \in Trello /\ b \in BoardsOf(p) /\ k.claimed[b] \in {None, p}
         /\ \A a \in Plane : k.claimed[a] # p
         /\ k.mine[p].key # None => Judgement(k, p, TrelloLink(c, k.mine[p], b), b, FALSE)
<1> DEFINE r == TrelloLink(c, k.mine[p], b)
<1>0. InTurn(c) /\ TypeOf[p] = "trello" /\ b # None
  BY DEF TrelloTurn
<1>1. /\ k \in Passes /\ Pass(k) /\ p \in Slugs /\ TypeOK
      /\ OwnBoards(k.mine) /\ OwnBoards(man)
      /\ k.mine[p] = k.base[p] /\ k.mine[p] \in Bindings
  BY <1>0, InPass
<1>2. k.claimed[b] \in {None, p} /\ b \in BoardsOf(p) /\ b \in Trello
  BY <1>0, <1>1, TargetIs, OwnAreBoards DEF Unclaimed
<1>3. \A a \in Plane : k.claimed[a] # p
  BY <1>0, ClaimIsTarget
<1>4. ASSUME k.mine[p].key # None PROVE Judgement(k, p, r, b, FALSE)
  <2>1. /\ r \in Bindings /\ r.board = b /\ r.ws = k.mine[p].ws /\ r.key = k.mine[p].key
        /\ r.source = "proposed" /\ r.state = "linked" /\ r.stamp # None
        /\ \/ r.stamp \notin {k.mine[p].stamp, None}
           \/ r = [k.mine[p] EXCEPT !.source = "proposed"]
    BY <1>1, <1>2, TrelloLinkIs
  <2>2. b \notin Plane
    BY <1>2, Separate
  <2>3. LegalRecord(p, r)
    BY <1>0, <1>1, <1>2, <2>1 DEF LegalRecord
  <2> HIDE DEF r
  <2> QED BY <1>0, <1>1, <1>2, <1>3, <2>1, <2>2, <2>3 DEF Judgement
<1> QED BY <1>2, <1>3, <1>4

----------------------------------------------------------------------------
(* The steps of a pass *)

\* What was settled stays so: nobody takes a board that is claimed.
LEMMA SettledStays ==
  ASSUME NEW k \in Passes, NEW p \in Slugs, NEW q \in Slugs, q # p, NEW r \in Bindings,
         NEW claim, NEW bad \in BOOLEAN, NEW n, n = After(k, p, r, claim, bad),
         OwnBoards(k.mine), claim # None => k.claimed[claim] \in {None, p}
  PROVE  /\ Settled(k, q) => Settled(n, q)
         /\ Verdict(k, q) => Verdict(n, q)
<1>1. /\ n.base = k.base /\ n.seen = k.seen
      /\ n.mine = [k.mine EXCEPT ![p] = r]
      /\ n.claimed = [b \in Boards |-> IF b = claim THEN p ELSE k.claimed[b]]
  BY AfterFields
<1>2. n.mine[q] = k.mine[q]
  BY <1>1, PassFields DEF Registries
<1>3. k.mine[q].board \in Boards \cup {None}
  BY OwnAreBoards DEF OwnBoards
<1>4. k.mine[q].board # None /\ k.claimed[k.mine[q].board] = q
        => n.claimed[k.mine[q].board] = q
  BY <1>1, <1>3, NoneIsApart
<1>5. OwnedKey(n, n.mine[q]) <=> OwnedKey(k, k.mine[q])
  BY <1>1, <1>2 DEF OwnedKey
<1>6. Demoted(n, n.base[q]) = Demoted(k, k.base[q])
  BY <1>1 DEF Demoted, OwnedKey
<1> QED BY <1>1, <1>2, <1>4, <1>5, <1>6 DEF Settled, Verdict

LEMMA AfterKeepsPass ==
  ASSUME Inv, NEW c \in Commands, InTurn(c), NEW k, k = cmd[c], NEW p, p = Turn(c),
         NEW r, NEW claim, NEW bad, Judgement(k, p, r, claim, bad),
         NEW n, n = After(k, p, r, claim, bad)
  PROVE  n \in Passes /\ Pass(n)
<1>1. /\ k \in Passes /\ Pass(k) /\ p \in Slugs /\ OwnBoards(k.mine)
      /\ k.mine[p] = k.base[p]
  BY InPass
<1>2. r \in Bindings /\ bad \in BOOLEAN /\ r.board \in BoardsOf(p) \cup {None}
      /\ (claim # None => k.claimed[claim] \in {None, p} /\ claim \in Boards)
  BY <1>1, OwnAreBoards DEF Judgement
<1>3. k.next \in DOMAIN Sorted /\ k.next <= Len(Sorted) /\ p = Sorted[k.next] /\ k.op = "judge"
      /\ k.next \in Nat /\ DOMAIN Sorted = 1 .. Len(Sorted) /\ Len(Sorted) \in Nat
  BY TurnIsSlug, Separate DEF Inv
<1>4. n \in Passes
  BY <1>1, <1>2, <1>3, AfterIsPass
<1>5. /\ n.op = k.op /\ n.scope = k.scope /\ n.base = k.base /\ n.seen = k.seen
      /\ n.mine = [k.mine EXCEPT ![p] = r]
      /\ n.claimed = [b \in Boards |-> IF b = claim THEN p ELSE k.claimed[b]]
      /\ n.degraded = k.degraded /\ n.next = k.next + 1
      /\ n.errors = (k.errors \/ bad)
  BY <1>1, <1>2, AfterFields
<1>6. n.mine[p] = r /\ \A q \in Slugs : q # p => n.mine[q] = k.mine[q]
  BY <1>1, <1>5, PassFields DEF Registries
<1>7. OwnBoards(n.base) /\ OwnBoards(n.mine)
  BY <1>1, <1>2, <1>5, <1>6 DEF Pass, OwnBoards
<1>8. Claims(n)
  <2> SUFFICES ASSUME NEW b \in Plane
               PROVE  /\ (\E q \in Slugs : n.base[q].board = b) => n.claimed[b] # None
                      /\ n.claimed[b] # None => n.mine[n.claimed[b]].board = b
    BY DEF Claims
  <2>1. b \in Boards /\ b # None /\ p # None
    BY <1>1, NoneIsApart DEF Boards
  <2>2. /\ (\E q \in Slugs : k.base[q].board = b) => k.claimed[b] # None
        /\ k.claimed[b] # None => k.mine[k.claimed[b]].board = b
        /\ k.claimed[b] \in Slugs \cup {None}
    BY <1>1, <2>1, PassFields DEF Pass, Claims
  <2>3. n.claimed[b] = IF b = claim THEN p ELSE k.claimed[b]
    BY <1>5, <2>1
  <2>4. CASE b = claim
    <3>1. r.board = b
      BY <2>1, <2>4 DEF Judgement
    <3> QED BY <3>1, <2>1, <2>3, <2>4, <1>6
  <2>5. CASE b # claim /\ k.claimed[b] = p
    <3>1. r.board = b
      BY <2>5 DEF Judgement
    <3> QED BY <3>1, <2>1, <2>3, <2>5, <1>6
  <2>6. CASE b # claim /\ k.claimed[b] # p
    BY <2>2, <2>3, <2>6, <1>5, <1>6
  <2> QED BY <2>4, <2>5, <2>6
<1>9. SeenUnique(n)
  BY <1>1, <1>5 DEF Pass, SeenUnique
<1>10. n.degraded => n.errors
  BY <1>1, <1>5 DEF Pass
<1>11. \A q \in Slugs : Verdict(n, q)
  <2> SUFFICES ASSUME NEW q \in Slugs PROVE Verdict(n, q)
    OBVIOUS
  <2>1. CASE q = p
    <3>1. Demoted(n, n.base[p]) = Demoted(k, k.base[p])
      BY <1>5 DEF Demoted, OwnedKey
    <3> QED BY <2>1, <3>1, <1>5, <1>6 DEF Verdict, Judgement
  <2>2. CASE q # p
    BY <2>2, <1>1, <1>2, SettledStays DEF Pass
  <2> QED BY <2>1, <2>2
<1>12. \A i \in DOMAIN Sorted : i >= n.next => n.mine[Sorted[i]] = n.base[Sorted[i]]
  <2> SUFFICES ASSUME NEW i \in DOMAIN Sorted, i >= n.next
               PROVE  n.mine[Sorted[i]] = n.base[Sorted[i]]
    OBVIOUS
  <2>1. i > k.next /\ i \in Nat
    BY <1>3, <1>5
  <2>2. Sorted[i] # p /\ Sorted[i] \in Slugs
    BY <1>3, <2>1, Separate
  <2>3. k.mine[Sorted[i]] = k.base[Sorted[i]]
    BY <2>1, <1>1, <1>3 DEF Pass
  <2> QED BY <2>2, <2>3, <1>5, <1>6
<1>13. ASSUME ~n.errors, NEW i \in DOMAIN Sorted, i < n.next, Sorted[i] \in n.scope
       PROVE  Settled(n, Sorted[i])
  <2>1. ~k.errors /\ ~bad
    BY <1>5, <1>13
  <2>2. CASE Sorted[i] = p
    <3>1. /\ LegalRecord(p, r)
          /\ r.board # None => r.board = claim
          /\ r.board = None => r.key = None \/ ~OwnedKey(k, r)
          /\ IF r.board \in Plane
             THEN /\ r.board \in DOMAIN k.seen /\ ~k.seen[r.board].archived
                  /\ r.key = k.seen[r.board].key /\ r.ws = Home[r.board]
             ELSE r.key \in {None, k.base[p].key} /\ r.ws = k.base[p].ws
      BY <2>1 DEF Judgement
    <3>2. r.board # None => n.claimed[r.board] = p
      BY <3>1, <1>2, <1>5
    <3>3. OwnedKey(n, r) <=> OwnedKey(k, r)
      BY <1>5 DEF OwnedKey
    <3> QED BY <2>2, <3>1, <3>2, <3>3, <1>5, <1>6 DEF Settled
  <2>3. CASE Sorted[i] # p
    <3>1. i \in Nat /\ i < k.next
      BY <1>3, <1>5, <1>13, <2>3
    <3>2. Sorted[i] \in Slugs
      BY Separate
    <3>3. Settled(k, Sorted[i])
      BY <3>1, <1>1, <1>5, <1>13, <2>1 DEF Pass
    <3> QED BY <2>3, <3>2, <3>3, <1>1, <1>2, SettledStays
  <2> QED BY <2>2, <2>3
<1>14. n.op # "fetch"
  BY <1>3, <1>5
<1> QED BY <1>4, <1>7, <1>8, <1>9, <1>10, <1>11, <1>12, <1>13, <1>14 DEF Pass

----------------------------------------------------------------------------
(* Saves *)

LEMMA MergedIs ==
  ASSUME NEW base \in Registries, NEW ours \in Registries, man \in Registries
  PROVE  /\ Merged(base, ours) \in Registries
         /\ \A p \in Slugs, f \in Fields :
              Merged(base, ours)[p][f] = IF ours[p][f] = base[p][f] THEN man[p][f] ELSE ours[p][f]
         /\ OwnBoards(ours) /\ OwnBoards(man) => OwnBoards(Merged(base, ours))
<1> DEFINE m == Merged(base, ours)
           block(p) == [f \in Fields |-> IF ours[p][f] = base[p][f] THEN man[p][f] ELSE ours[p][f]]
<1>1. \A p \in Slugs : m[p] = block(p)
  BY DEF Merged
<1>2. \A p \in Slugs, f \in Fields :
        m[p][f] = IF ours[p][f] = base[p][f] THEN man[p][f] ELSE ours[p][f]
  BY <1>1
<1>3. ASSUME NEW p \in Slugs PROVE block(p) \in Bindings
  <2>1. ours[p] \in Bindings /\ man[p] \in Bindings
    BY DEF Registries
  <2>2. DOMAIN block(p) = Fields /\ Fields = {"board", "ws", "key", "source", "state", "stamp"}
    BY DEF Fields
  <2>3. block(p) = [board |-> block(p)["board"], ws |-> block(p)["ws"], key |-> block(p)["key"],
                    source |-> block(p)["source"], state |-> block(p)["state"],
                    stamp |-> block(p)["stamp"]]
    BY <2>2
  <2>4. \A f \in Fields : block(p)[f] \in {man[p][f], ours[p][f]}
    OBVIOUS
  <2> HIDE DEF block
  <2>5. /\ block(p)["board"] \in Boards \cup {None} /\ block(p)["ws"] \in Workspaces
        /\ block(p)["key"] \in Keys \cup {None} /\ block(p)["source"] \in Sources
        /\ block(p)["state"] \in States /\ block(p)["stamp"] \in Stamps
    BY <2>1, <2>4, BlockFields DEF Fields
  <2> QED BY <2>3, <2>5, MakeBlock
<1>4. m \in Registries
  <2> HIDE DEF block
  <2>1. m = [p \in Slugs |-> block(p)]
    BY DEF Merged, block
  <2> QED BY <2>1, <1>3 DEF Registries
<1>5. OwnBoards(ours) /\ OwnBoards(man) => OwnBoards(m)
  BY <1>2 DEF OwnBoards, Fields
<1> QED BY <1>2, <1>4, <1>5

LEMMA SaveIs ==
  ASSUME TypeOK, Outside, NEW base \in Registries, NEW ours \in Registries, OwnBoards(ours),
         Save(base, ours)
  PROVE  /\ reg' \in Registries /\ man' \in Registries
         /\ OwnBoards(reg') /\ OwnBoards(man')
         /\ service => reg' = man'
<1>1. man \in Registries /\ reg \in Registries /\ OwnBoards(man) /\ OwnBoards(reg)
  BY DEF TypeOK, Outside
<1>2. CASE service
  BY <1>1, <1>2, MergedIs DEF Save
<1>3. CASE ~service
  BY <1>1, <1>3 DEF Save
<1> QED BY <1>2, <1>3

LEMMA LinkBlockIs ==
  ASSUME TypeOK, NEW c \in Commands, cmd[c] \in Links
  PROVE  /\ cmd[c].slug \in Slugs /\ cmd[c].base \in Registries
         /\ cmd[c].board \in BoardsOf(cmd[c].slug)
         /\ LinkBlock(c) \in Bindings /\ LinkBlock(c).board = cmd[c].board
<1> DEFINE old == cmd[c].base[cmd[c].slug]
           b == cmd[c].board
<1>1. /\ cmd[c].slug \in Slugs /\ cmd[c].base \in Registries
      /\ cmd[c].board \in BoardsOf(cmd[c].slug)
  BY DEF Links
<1>2. old \in Bindings
  BY <1>1 DEF Registries
<1>3. Fresh(c, old.stamp) \in Stamps
  BY FreshIsNew
<1>4. CASE b \in Plane
  <2>1. plane[b].key \in Keys
    BY <1>4 DEF TypeOK, Facts
  <2>2. LinkBlock(c) = LinkAt(b, plane[b], Fresh(c, old.stamp))
    BY <1>4 DEF LinkBlock, LinkAt
  <2> HIDE DEF b, old
  <2>3. LinkAt(b, plane[b], Fresh(c, old.stamp)) \in Bindings
        /\ LinkAt(b, plane[b], Fresh(c, old.stamp)).board = b
    BY <2>1, <1>3, <1>4, LinkAtIs
  <2> QED BY <2>2, <2>3, <1>1 DEF b
<1>5. CASE b \notin Plane
  <2>1. LinkBlock(c) = [[old EXCEPT !.board = b, !.source = "proposed", !.state = "linked"]
                          EXCEPT !.stamp = Fresh(c, old.stamp)]
    BY <1>5 DEF LinkBlock
  <2>2. b \in Boards \cup {None} /\ "proposed" \in Sources /\ "linked" \in States
    BY <1>1, OwnAreBoards DEF Sources, States
  <2>3. [old EXCEPT !.board = b, !.source = "proposed", !.state = "linked"] \in Bindings
    <3> HIDE DEF old, b
    <3> QED BY <1>2, <2>2 DEF Bindings
  <2>4. LinkBlock(c) \in Bindings
    <3> DEFINE x == [old EXCEPT !.board = b, !.source = "proposed", !.state = "linked"]
    <3> HIDE DEF x, old
    <3> QED BY <1>3, <2>1, <2>3 DEF Bindings, x
  <2>5. LinkBlock(c).board = b
    <3> HIDE DEF old, b
    <3> QED BY <2>1, <1>2, BlockFields
  <2> QED BY <1>1, <2>4, <2>5
<1> QED BY <1>4, <1>5

----------------------------------------------------------------------------
(* The invariant *)

LEMMA ClaimsOfIs ==
  ASSUME NEW rs \in Registries
  PROVE  /\ ClaimsOf(rs) \in [Boards -> Slugs \cup {None}]
         /\ \A b \in Boards :
              /\ (\E p \in Slugs : rs[p].board = b) => ClaimsOf(rs)[b] # None
              /\ ClaimsOf(rs)[b] # None => rs[ClaimsOf(rs)[b]].board = b
<1> DEFINE holders(b) == {p \in Slugs : rs[p].board = b}
           last(b) == CHOOSE p \in holders(b) : \A q \in holders(b) : Listed[q] <= Listed[p]
<1>1. \A b \in Boards : ClaimsOf(rs)[b] = IF holders(b) = {} THEN None ELSE last(b)
  BY DEF ClaimsOf
<1>2. ASSUME NEW b \in Boards, holders(b) # {} PROVE last(b) \in holders(b)
  <2>1. holders(b) \in SUBSET Slugs
    OBVIOUS
  <2>2. \E p \in holders(b) : \A q \in holders(b) : Listed[q] <= Listed[p]
    <3> HIDE DEF holders
    <3> QED BY <2>1, <1>2, LastExists
  <2> HIDE DEF holders
  <2> QED BY <2>2
<1>3. ASSUME NEW b \in Boards, holders(b) # {} PROVE last(b) \in Slugs /\ rs[last(b)].board = b
  <2> HIDE DEF last
  <2> QED BY <1>2, <1>3
<1>4. \A b \in Boards : (\E p \in Slugs : rs[p].board = b) => holders(b) # {}
  OBVIOUS
<1> HIDE DEF last, holders
<1>5. \A b \in Boards : ClaimsOf(rs)[b] \in Slugs \cup {None}
  BY <1>1, <1>3
<1>6. ClaimsOf(rs) \in [Boards -> Slugs \cup {None}]
  <2>1. ClaimsOf(rs) = [b \in Boards |-> ClaimsOf(rs)[b]]
    BY DEF ClaimsOf
  <2> HIDE DEF ClaimsOf
  <2> QED BY <2>1, <1>5
<1> QED BY <1>1, <1>3, <1>4, <1>6, NoneIsApart

LEMMA InitHolds == Init => Inv
<1> SUFFICES ASSUME Init PROVE Inv
  OBVIOUS
<1>1. \A r \in Beginnings : r \in Registries /\ OwnBoards(r)
  <2> SUFFICES ASSUME NEW r \in Beginnings PROVE r \in Registries /\ OwnBoards(r)
    OBVIOUS
  <2>1. r \in [Slugs -> UNION {Records[p] : p \in Slugs}]
        /\ \A p \in Slugs : r[p] \in Records[p] /\ LegalRecord(p, r[p])
    BY DEF Beginnings
  <2>2. \A p \in Slugs : r[p] \in Bindings
    BY <2>1, BindingsOnly
  <2> QED BY <2>1, <2>2 DEF Registries, OwnBoards, LegalRecord
<1>2. man \in Beginnings /\ reg \in Beginnings /\ (service => reg = man)
  BY DEF Init
<1>3. TypeOK
  <2>1. plane \in [Plane -> Facts]
    BY Separate DEF Init, Facts
  <2>2. cmd \in [Commands -> {Idle} \cup Passes \cup Links]
    BY DEF Init
  <2> QED BY <2>1, <2>2, <1>1, <1>2 DEF Init, TypeOK
<1>4. KeysUnique(plane)
  BY Separate DEF Init, KeysUnique
<1>5. \A c \in Commands : cmd[c] = Idle
  BY DEF Init
<1>6. Outside
  BY <1>1, <1>2, <1>4 DEF Outside
<1> QED BY <1>3, <1>5, <1>6, KindOf DEF Inv

\* A step of one command, or of none, leaves the others where they were.
LEMMA OthersStand ==
  ASSUME Inv, NEW c \in Commands, NEW n, cmd' = [cmd EXCEPT ![c] = n],
         n \in {Idle} \cup Passes \cup Links,
         n \in Passes => Pass(n), n \in Links => OwnBoards(n.base)
  PROVE  /\ cmd' \in [Commands -> {Idle} \cup Passes \cup Links]
         /\ \A d \in Commands :
              /\ cmd'[d] \in Passes => Pass(cmd'[d])
              /\ cmd'[d] \in Links => OwnBoards(cmd'[d].base)
BY DEF Inv, TypeOK

LEMMA LoadKeeps ==
  ASSUME Inv, NEW c \in Commands, NEW scope \in Scopes, Load(c, scope)
  PROVE  Inv'
<1> DEFINE n == [op |-> "fetch", scope |-> scope, base |-> reg, mine |-> reg,
                 claimed |-> ClaimsOf(reg), keys |-> fleet, where |-> Searched(scope),
                 seen |-> [b \in {} |-> plane[b]], degraded |-> FALSE, next |-> 1,
                 errors |-> FALSE]
<1>1. reg \in Registries /\ man \in Registries /\ OwnBoards(reg) /\ scope \in SUBSET Slugs
      /\ fleet \in [Slugs -> Keys \cup {None}]
  BY Separate DEF Inv, TypeOK, Outside
<1>2. ClaimsOf(reg) \in [Boards -> Slugs \cup {None}]
  BY <1>1, ClaimsOfIs
<1>3. Searched(scope) \in SUBSET Workspaces
  <2>1. \A p \in scope : reg[p].ws \in Workspaces /\ man[p].ws \in Workspaces
    BY <1>1, BlockFields DEF Registries
  <2>2. \A p \in scope : Agent[p] # None => Home[Agent[p]] \in Workspaces
    BY <1>1, Separate
  <2> QED BY <2>1, <2>2, Separate DEF Searched
<1>4. [b \in {} |-> plane[b]] \in UNION {[S -> Facts] : S \in SUBSET Plane}
  <2>1. [b \in {} |-> plane[b]] \in [{} -> Facts]
    OBVIOUS
  <2> QED BY <2>1
<1>5. 1 \in 1 .. Len(Sorted) + 1
  <2>1. Len(Sorted) \in Nat
    BY Separate
  <2> QED BY <2>1
<1>6. n \in Passes
  BY <1>1, <1>2, <1>3, <1>4, <1>5 DEF Passes
<1>7. Pass(n)
  <2>1. /\ n.op = "fetch" /\ n.base = reg /\ n.mine = reg /\ n.claimed = ClaimsOf(reg)
        /\ n.seen = [b \in {} |-> plane[b]] /\ n.degraded = FALSE /\ n.next = 1
    OBVIOUS
  <2>2. DOMAIN n.seen = {}
    BY <2>1
  <2> HIDE DEF n
  <2>3. Claims(n)
    BY <2>1, <1>1, ClaimsOfIs DEF Claims, Boards
  <2>4. \A i \in DOMAIN Sorted : ~(i < n.next)
    <3>1. DOMAIN Sorted \subseteq Nat \ {0}
      BY Separate
    <3> QED BY <3>1, <2>1
  <2> QED BY <2>1, <2>2, <2>3, <2>4, <1>1 DEF Pass, SeenUnique, Verdict
<1>8. cmd' = [cmd EXCEPT ![c] = n]
  BY DEF Load
<1>9. n \notin Links
  BY <1>6, KindOf DEF Inv
<1> HIDE DEF n
<1> QED BY <1>6, <1>7, <1>8, <1>9, OthersStand DEF Load, Inv, TypeOK, Outside

LEMMA FetchKeeps ==
  ASSUME Inv, NEW c \in Commands, NEW lost, Fetch(c, lost)
  PROVE  Inv'
<1> DEFINE k == cmd[c]
           D == UNION {BoardsIn(w) : w \in k.where \ lost}
           sight == [b \in D |-> plane[b]]
           n == [k EXCEPT !.op = "judge", !.seen = sight, !.degraded = (lost # {}),
                          !.errors = (lost # {})]
<1>1. k \in Passes /\ Pass(k) /\ k.op = "fetch"
  BY KindOf DEF Fetch, Inv, At
<1>2. sight \in UNION {[S -> Facts] : S \in SUBSET Plane}
  <2>1. D \in SUBSET Plane
    BY DEF BoardsIn
  <2>2. sight \in [D -> Facts]
    <3> HIDE DEF D
    <3> QED BY <2>1 DEF Inv, TypeOK
  <2> HIDE DEF sight, D
  <2> QED BY <2>1, <2>2
<1>3. n \in Passes
  <2> HIDE DEF k, sight
  <2> QED BY <1>1, <1>2 DEF Passes
<1>4. /\ n.op = "judge" /\ n.scope = k.scope /\ n.base = k.base /\ n.mine = k.mine
      /\ n.claimed = k.claimed /\ n.seen = sight /\ n.degraded = (lost # {}) /\ n.next = k.next
      /\ n.errors = (lost # {})
  <2> HIDE DEF k, sight
  <2> QED BY <1>1 DEF Passes
<1>5. cmd' = [cmd EXCEPT ![c] = n]
  <2>1. cmd \in [Commands -> {Idle} \cup Passes \cup Links]
    BY DEF Inv, TypeOK
  <2> QED BY <2>1, <1>1, PassFields DEF Fetch
<1>6. Pass(n)
  <2>1. SeenUnique(n)
    <3>1. \A b \in DOMAIN n.seen : b \in Plane /\ n.seen[b] = plane[b]
      BY <1>4 DEF BoardsIn
    <3> HIDE DEF n
    <3> QED BY <3>1 DEF SeenUnique, KeysUnique, Inv, Outside
  <2>2. k.next = 1 /\ k.mine = k.base
    BY <1>1 DEF Pass
  <2>3. \A i \in DOMAIN Sorted : ~(i < k.next)
    <3>1. DOMAIN Sorted \subseteq Nat \ {0}
      BY Separate
    <3> HIDE DEF k
    <3> QED BY <3>1, <2>2
  <2> HIDE DEF n, k, sight
  <2> QED BY <1>1, <1>4, <2>1, <2>2, <2>3 DEF Pass, Verdict, Claims
<1>7. n \notin Links
  BY <1>3, KindOf DEF Inv
<1>8. faults' \in Nat
  <2>1. faults \in Nat
    BY DEF Inv, TypeOK
  <2>2. faults' = IF lost = {} THEN faults ELSE faults + 1
    BY DEF Fetch
  <2> QED BY <2>1, <2>2
<1> HIDE DEF n
<1> QED BY <1>3, <1>5, <1>6, <1>7, <1>8, OthersStand DEF Fetch, Inv, TypeOK, Outside

\* A record that is judged rightly leaves the pass as it should be.
LEMMA JudgedKeeps ==
  ASSUME Inv, NEW c \in Commands, InTurn(c), NEW r, NEW claim, NEW bad,
         Judged(c, r, claim, bad), Judgement(cmd[c], Turn(c), r, claim, bad)
  PROVE  /\ cmd' \in [Commands -> {Idle} \cup Passes \cup Links]
         /\ \A d \in Commands :
              /\ cmd'[d] \in Passes => Pass(cmd'[d])
              /\ cmd'[d] \in Links => OwnBoards(cmd'[d].base)
<1> DEFINE n == After(cmd[c], Turn(c), r, claim, bad)
<1>1. bad \in BOOLEAN
  BY DEF Judgement
<1>2. cmd' = [cmd EXCEPT ![c] = n]
  BY <1>1, JudgedIsAfter DEF Inv
<1>3. n \in Passes /\ Pass(n)
  BY AfterKeepsPass
<1>4. n \notin Links
  BY <1>3, KindOf DEF Inv
<1> HIDE DEF n
<1> QED BY <1>2, <1>3, <1>4, OthersStand

LEMMA PassOverKeeps ==
  ASSUME Inv, NEW c \in Commands, PassOver(c)
  PROVE  /\ cmd' \in [Commands -> {Idle} \cup Passes \cup Links]
         /\ \A d \in Commands :
              /\ cmd'[d] \in Passes => Pass(cmd'[d])
              /\ cmd'[d] \in Links => OwnBoards(cmd'[d].base)
<1> DEFINE k == cmd[c]
           n == [k EXCEPT !.next = k.next + 1]
<1>1. k \in Passes /\ Pass(k) /\ k.op = "judge"
  BY KindOf DEF PassOver, Inv, At
<1>2. Sorted \in Seq(Slugs) /\ Len(Sorted) \in Nat /\ k.next \in 1 .. Len(Sorted) + 1
      /\ DOMAIN Sorted = 1 .. Len(Sorted) /\ k.next <= Len(Sorted)
  BY <1>1, PassFields, Separate DEF PassOver
<1>3. cmd' = [cmd EXCEPT ![c] = n]
  <2>1. cmd \in [Commands -> {Idle} \cup Passes \cup Links]
    BY DEF Inv, TypeOK
  <2> QED BY <2>1 DEF PassOver
<1>4. n \in Passes
  <2>1. k.next + 1 \in 1 .. Len(Sorted) + 1
    BY <1>2
  <2> HIDE DEF k
  <2> QED BY <1>1, <2>1 DEF Passes
<1>5. /\ n.op = k.op /\ n.scope = k.scope /\ n.base = k.base /\ n.mine = k.mine
      /\ n.claimed = k.claimed /\ n.seen = k.seen /\ n.degraded = k.degraded
      /\ n.next = k.next + 1 /\ n.errors = k.errors
  <2> HIDE DEF k
  <2> QED BY <1>1 DEF Passes
<1>6. Sorted[k.next] \notin k.scope
  BY DEF PassOver, Turn
<1>7. Pass(n)
  <2> HIDE DEF n
  <2>1. \A p \in Slugs : Verdict(n, p) <=> Verdict(k, p)
    BY <1>5 DEF Verdict, Demoted, OwnedKey
  <2>2. \A p \in Slugs : Settled(n, p) <=> Settled(k, p)
    BY <1>5 DEF Settled, OwnedKey
  <2>3. SeenUnique(n) /\ Claims(n) /\ OwnBoards(n.base) /\ OwnBoards(n.mine)
        /\ (n.degraded => n.errors) /\ n.op # "fetch"
    BY <1>1, <1>5 DEF Pass, SeenUnique, Claims
  <2>4. \A i \in DOMAIN Sorted : i >= n.next => n.mine[Sorted[i]] = n.base[Sorted[i]]
    <3>1. \A i \in DOMAIN Sorted : i >= n.next => i >= k.next
      BY <1>2, <1>5
    <3> QED BY <3>1, <1>1, <1>5 DEF Pass
  <2>5. ASSUME ~n.errors, NEW i \in DOMAIN Sorted, i < n.next, Sorted[i] \in n.scope
        PROVE  Settled(n, Sorted[i])
    <3>1. i # k.next
      BY <2>5, <1>5, <1>6
    <3>2. i < k.next
      BY <2>5, <1>2, <1>5, <3>1
    <3>3. Sorted[i] \in Slugs
      BY <1>2
    <3> QED BY <2>2, <2>5, <3>2, <3>3, <1>1, <1>5 DEF Pass
  <2> QED BY <2>1, <2>3, <2>4, <2>5, <1>1 DEF Pass
<1>8. n \notin Links
  BY <1>4, KindOf DEF Inv
<1> HIDE DEF n
<1> QED BY <1>3, <1>4, <1>7, <1>8, OthersStand

LEMMA JudgeKeeps ==
  ASSUME Inv, NEW c \in Commands, Judge(c)
  PROVE  Inv'
<1> DEFINE k == cmd[c]
           p == Turn(c)
           Good == /\ cmd' \in [Commands -> {Idle} \cup Passes \cup Links]
                   /\ \A d \in Commands :
                        /\ cmd'[d] \in Passes => Pass(cmd'[d])
                        /\ cmd'[d] \in Links => OwnBoards(cmd'[d].base)
<1>1. CASE PassOver(c)
  <2>1. Good
    BY <1>1, PassOverKeeps
  <2> QED BY <2>1, <1>1 DEF PassOver, Judge, Inv, TypeOK, Outside
<1>2. ASSUME InTurn(c) PROVE /\ \A b \in Plane : k.claimed[b] = p => k.mine[p].board = b
                             /\ k \in Passes /\ p \in Slugs
  BY <1>2, InPass
<1>3. CASE Park(c)
  <2>1. InTurn(c) /\ Judged(c, k.mine[p], None, FALSE) /\ cmd[c].degraded
    BY <1>3 DEF Park
  <2>2. Judgement(k, p, k.mine[p], None, FALSE)
    BY <2>1, <1>2, ParkJudges
  <2>3. Good
    BY <2>1, <2>2, JudgedKeeps
  <2> QED BY <2>3, <1>3 DEF Park, Judge, Inv, TypeOK, Outside
<1>4. CASE Refuse(c)
  <2>1. InTurn(c) /\ MayHint(k, p) /\ Judged(c, Demoted(k, k.mine[p]), None, TRUE)
    BY <1>4 DEF Refuse, HintRefused
  <2>2. \A b \in Plane : k.claimed[b] # p
    BY <2>1, ClaimIsTarget
  <2>3. Judgement(k, p, Demoted(k, k.mine[p]), None, TRUE)
    BY <2>1, <2>2, DemotionJudges
  <2>4. Good
    BY <2>1, <2>3, JudgedKeeps
  <2> QED BY <2>4, <1>4 DEF Refuse, Judge, Inv, TypeOK, Outside
<1>5. CASE Unbind(c)
  <2>1. InTurn(c) /\ TargetBoard(k, p) = None /\ Judged(c, Demoted(k, k.mine[p]), None, FALSE)
    BY <1>5 DEF Unbind
  <2>2. \A b \in Plane : k.claimed[b] # p
    BY <2>1, ClaimIsTarget
  <2>3. Judgement(k, p, Demoted(k, k.mine[p]), None, FALSE)
    BY <2>1, <2>2, DemotionJudges
  <2>4. Good
    BY <2>1, <2>3, JudgedKeeps
  <2> QED BY <2>4, <1>5 DEF Unbind, Judge, Inv, TypeOK, Outside
<1>6. CASE Confirm(c)
  <2> DEFINE b == TargetBoard(k, p)
  <2>1. /\ InTurn(c) /\ TypeOf[p] = "plane" /\ b \in DOMAIN k.seen
        /\ Judged(c, Stamped(c, k.mine[p], PlaneLink(b, k.seen[b])), b, k.seen[b].archived)
    BY <1>6 DEF Confirm
  <2>2. Judgement(k, p, Stamped(c, k.mine[p], PlaneLink(b, k.seen[b])), b, k.seen[b].archived)
    BY <2>1, ConfirmJudges
  <2>3. Good
    BY <2>1, <2>2, JudgedKeeps
  <2> QED BY <2>3, <1>6 DEF Confirm, Judge, Inv, TypeOK, Outside
<1>7. CASE Preserve(c)
  <2>1. InTurn(c) /\ Judged(c, k.mine[p], None, TRUE)
    BY <1>7 DEF Preserve
  <2>2. Judgement(k, p, k.mine[p], None, TRUE)
    BY <2>1, <1>2, ParkJudges
  <2>3. Good
    BY <2>1, <2>2, JudgedKeeps
  <2> QED BY <2>3, <1>7 DEF Preserve, Judge, Inv, TypeOK, Outside
<1>8. CASE TrelloSilent(c)
  <2>1. InTurn(c) /\ Judged(c, k.mine[p], None, TRUE)
    BY <1>8 DEF TrelloSilent, TrelloTurn
  <2>2. Judgement(k, p, k.mine[p], None, TRUE)
    BY <2>1, <1>2, ParkJudges
  <2>3. Good
    BY <2>1, <2>2, JudgedKeeps
  <2>4. faults' \in Nat
    <3>1. faults \in Nat
      BY DEF Inv, TypeOK
    <3> QED BY <3>1, <1>8 DEF TrelloSilent
  <2> QED BY <2>3, <2>4, <1>8 DEF Judge, Inv, TypeOK, Outside
<1>9. CASE TrelloConfirm(c)
  <2> DEFINE b == TargetBoard(k, p)
             r == IF k.mine[p].key = None THEN Demoted(k, k.mine[p])
                  ELSE TrelloLink(c, k.mine[p], b)
  <2>1. TrelloTurn(c) /\ InTurn(c) /\ Judged(c, r, b, FALSE)
    BY <1>9 DEF TrelloConfirm, TrelloTurn
  <2>2. /\ b \in Trello /\ b \in BoardsOf(p) /\ k.claimed[b] \in {None, p}
        /\ \A a \in Plane : k.claimed[a] # p
        /\ k.mine[p].key # None => Judgement(k, p, TrelloLink(c, k.mine[p], b), b, FALSE)
    BY <2>1, TrelloJudges
  <2>3. Judgement(k, p, r, b, FALSE)
    <3>1. CASE k.mine[p].key = None
      <4>1. Judgement(k, p, Demoted(k, k.mine[p]), b, FALSE)
        BY <2>1, <2>2, DemotionJudges
      <4> QED BY <3>1, <4>1
    <3>2. CASE k.mine[p].key # None
      BY <2>2, <3>2
    <3> QED BY <3>1, <3>2
  <2> HIDE DEF r
  <2>4. Good
    BY <2>1, <2>3, JudgedKeeps
  <2> QED BY <2>4, <1>9 DEF TrelloConfirm, Judge, Inv, TypeOK, Outside
<1>10. CASE TrelloClosed(c)
  <2> DEFINE b == TargetBoard(k, p)
  <2>1. TrelloTurn(c) /\ InTurn(c) /\ Judged(c, Demoted(k, k.mine[p]), None, FALSE)
    BY <1>10 DEF TrelloClosed, TrelloTurn
  <2>2. /\ b \in Trello /\ b \in BoardsOf(p) /\ k.claimed[b] \in {None, p}
        /\ \A a \in Plane : k.claimed[a] # p
        /\ k.mine[p].key # None => Judgement(k, p, TrelloLink(c, k.mine[p], b), b, FALSE)
    BY <2>1, TrelloJudges
  <2>3. Judgement(k, p, Demoted(k, k.mine[p]), None, FALSE)
    BY <2>1, <2>2, DemotionJudges
  <2>4. Good
    BY <2>1, <2>3, JudgedKeeps
  <2> QED BY <2>4, <1>10 DEF TrelloClosed, Judge, Inv, TypeOK, Outside
<1> QED BY <1>1, <1>3, <1>4, <1>5, <1>6, <1>7, <1>8, <1>9, <1>10 DEF Judge

LEMMA IdleIsPlain ==
  ASSUME TypeOK
  PROVE  Idle \in {Idle} \cup Passes \cup Links /\ Idle \notin Passes /\ Idle \notin Links
<1>1. Idle.op = "idle" /\ (\A k \in Passes : k.op \in {"fetch", "judge"})
      /\ (\A k \in Links : k.op = "link")
  BY PassFields DEF Idle, Links
<1> QED BY <1>1

LEMMA DoneIsPass ==
  ASSUME Inv, NEW c \in Commands, Done(c)
  PROVE  cmd[c] \in Passes /\ Pass(cmd[c]) /\ cmd[c].op = "judge"
         /\ cmd[c].base \in Registries /\ cmd[c].mine \in Registries
         /\ OwnBoards(cmd[c].base) /\ OwnBoards(cmd[c].mine)
<1>1. cmd[c] \in Passes /\ cmd[c].op = "judge"
  BY KindOf DEF Done, Inv, At
<1>2. Pass(cmd[c])
  BY <1>1 DEF Inv
<1> QED BY <1>1, <1>2, PassFields DEF Pass

LEMMA FinishKeeps ==
  ASSUME Inv, NEW c \in Commands, Finish(c)
  PROVE  Inv'
<1> DEFINE k == cmd[c]
<1>1. /\ k \in Passes /\ k.base \in Registries /\ k.mine \in Registries
      /\ OwnBoards(k.mine)
  BY DoneIsPass DEF Finish
<1>2. /\ reg' \in Registries /\ man' \in Registries /\ OwnBoards(reg') /\ OwnBoards(man')
      /\ service => reg' = man'
  <2>1. CASE k.mine = k.base
    BY <2>1 DEF Finish, Inv, TypeOK, Outside
  <2>2. CASE k.mine # k.base
    <3>1. Save(k.base, k.mine)
      BY <2>2 DEF Finish
    <3> QED BY <3>1, <1>1, SaveIs DEF Inv
  <2> QED BY <2>1, <2>2
<1>3. fleet' \in [Slugs -> Keys \cup {None}]
  <2>1. fleet \in [Slugs -> Keys \cup {None}]
    BY DEF Inv, TypeOK
  <2>2. \A b \in DOMAIN k.seen : k.seen[b].key \in Keys
    BY <1>1, SeenIsPlane
  <2> QED BY <2>1, <2>2 DEF Finish, Projected
<1>4. /\ cmd' \in [Commands -> {Idle} \cup Passes \cup Links]
      /\ \A d \in Commands :
           /\ cmd'[d] \in Passes => Pass(cmd'[d])
           /\ cmd'[d] \in Links => OwnBoards(cmd'[d].base)
  <2>1. cmd' = [cmd EXCEPT ![c] = Idle]
    BY DEF Finish
  <2> QED BY <2>1, IdleIsPlain, OthersStand DEF Inv
<1> QED BY <1>2, <1>3, <1>4 DEF Finish, Inv, TypeOK, Outside

LEMMA LinkLoadKeeps ==
  ASSUME Inv, NEW c \in Commands, NEW p \in Slugs, NEW b \in Boards, LinkLoad(c, p, b)
  PROVE  Inv'
<1> DEFINE n == [op |-> "link", slug |-> p, board |-> b, base |-> reg, expected |-> man[p]]
<1>1. n \in Links /\ n.base = reg
  BY DEF LinkLoad, Links, Inv, TypeOK, Registries
<1>2. cmd' = [cmd EXCEPT ![c] = n]
  BY DEF LinkLoad
<1>3. n \notin Passes
  BY <1>1, KindOf DEF Inv
<1>4. edits' \in Nat
  <2>1. edits \in Nat
    BY DEF Inv, TypeOK
  <2> QED BY <2>1 DEF LinkLoad
<1> HIDE DEF n
<1>5. /\ cmd' \in [Commands -> {Idle} \cup Passes \cup Links]
      /\ \A d \in Commands :
           /\ cmd'[d] \in Passes => Pass(cmd'[d])
           /\ cmd'[d] \in Links => OwnBoards(cmd'[d].base)
  BY <1>1, <1>2, <1>3, OthersStand DEF Inv, Outside
<1> QED BY <1>4, <1>5 DEF LinkLoad, Inv, TypeOK, Outside

LEMMA LinkFinishKeeps ==
  ASSUME Inv, NEW c \in Commands, LinkFinish(c)
  PROVE  Inv'
<1> DEFINE k == cmd[c]
           p == cmd[c].slug
           ours == [k.base EXCEPT ![p] = LinkBlock(c)]
<1>1. k \in Links /\ OwnBoards(k.base) /\ TypeOK /\ Outside
  BY KindOf DEF LinkFinish, Inv
<1>2. /\ p \in Slugs /\ k.base \in Registries
      /\ LinkBlock(c) \in Bindings /\ LinkBlock(c).board \in BoardsOf(p)
  BY <1>1, LinkBlockIs
<1>3. ours \in Registries /\ OwnBoards(ours)
  BY <1>1, <1>2 DEF Registries, OwnBoards
<1>4. /\ reg' \in Registries /\ man' \in Registries /\ OwnBoards(reg') /\ OwnBoards(man')
      /\ service => reg' = man'
  <2>1. CASE UNCHANGED <<reg, man>>
    BY <2>1, <1>1 DEF TypeOK, Outside
  <2>2. CASE service /\ Save(k.base, ours)
    BY <2>2, <1>1, <1>2, <1>3, SaveIs
  <2>3. CASE ~service /\ man' = [man EXCEPT ![p] = LinkBlock(c)]
             /\ reg' = IF LegalRegistry(ours) THEN ours ELSE reg
    <3>1. man \in Registries /\ reg \in Registries /\ OwnBoards(man) /\ OwnBoards(reg)
      BY <1>1 DEF TypeOK, Outside
    <3>2. man' \in Registries /\ OwnBoards(man')
      BY <2>3, <3>1, <1>2 DEF Registries, OwnBoards
    <3> HIDE DEF ours
    <3> QED BY <2>3, <3>1, <3>2, <1>3
  <2> QED BY <2>1, <2>2, <2>3 DEF LinkFinish
<1>5. /\ cmd' \in [Commands -> {Idle} \cup Passes \cup Links]
      /\ \A d \in Commands :
           /\ cmd'[d] \in Passes => Pass(cmd'[d])
           /\ cmd'[d] \in Links => OwnBoards(cmd'[d].base)
  <2>1. cmd' = [cmd EXCEPT ![c] = Idle]
    BY DEF LinkFinish
  <2> QED BY <2>1, IdleIsPlain, OthersStand DEF Inv
<1> QED BY <1>4, <1>5 DEF LinkFinish, Inv, TypeOK, Outside

LEMMA WorldKeeps ==
  ASSUME Inv, World
  PROVE  Inv'
<1>1. ASSUME NEW p \in Slugs, NEW e \in Edits[p], Edit(p, e) PROVE Inv'
  <2>1. e \in Bindings /\ e.board \in BoardsOf(p) \cup {None}
    BY <1>1, BindingsOnly DEF Edit, LegalRecord
  <2>2. man' \in Registries /\ OwnBoards(man')
    BY <1>1, <2>1 DEF Edit, Inv, TypeOK, Outside, Registries, OwnBoards
  <2>3. reg' \in Registries /\ OwnBoards(reg') /\ (service => reg' = man')
    BY <1>1, <2>2 DEF Edit, Inv, TypeOK, Outside
  <2>4. edits' \in Nat
    <3>1. edits \in Nat
      BY DEF Inv, TypeOK
    <3> QED BY <3>1, <1>1 DEF Edit
  <2> QED BY <1>1, <2>2, <2>3, <2>4 DEF Edit, Inv, TypeOK, Outside
<1>2. ASSUME NEW b \in Plane, NEW f \in Facts, PlaneChanges(b, f) PROVE Inv'
  <2>1. plane' \in [Plane -> Facts] /\ KeysUnique(plane')
    BY <1>2 DEF PlaneChanges, Inv, TypeOK
  <2>2. changes' \in Nat
    <3>1. changes \in Nat
      BY DEF Inv, TypeOK
    <3> QED BY <3>1, <1>2 DEF PlaneChanges
  <2> QED BY <1>2, <2>1, <2>2 DEF PlaneChanges, Inv, TypeOK, Outside
<1>3. ASSUME NEW b \in Trello, TrelloChanges(b) PROVE Inv'
  <2>1. trello' \in [Trello -> BOOLEAN]
    BY <1>3 DEF TrelloChanges, Inv, TypeOK
  <2>2. changes' \in Nat
    <3>1. changes \in Nat
      BY DEF Inv, TypeOK
    <3> QED BY <3>1, <1>3 DEF TrelloChanges
  <2> QED BY <1>3, <2>1, <2>2 DEF TrelloChanges, Inv, TypeOK, Outside
<1> QED BY <1>1, <1>2, <1>3 DEF World

LEMMA NextKeeps ==
  ASSUME Inv, [Next]_vars
  PROVE  Inv'
<1>1. CASE UNCHANGED vars
  BY <1>1 DEF vars, Inv, TypeOK, Outside
<1>2. CASE World
  BY <1>2, WorldKeeps
<1>3. ASSUME NEW c \in Commands, Command(c) PROVE Inv'
  BY <1>3, LoadKeeps, FetchKeeps, JudgeKeeps, FinishKeeps, LinkLoadKeeps, LinkFinishKeeps
     DEF Command
<1> QED BY <1>1, <1>2, <1>3 DEF Next

LEMMA Invariance == Spec => []Inv
<1>1. Init => Inv
  BY InitHolds
<1>2. Inv /\ [Next]_vars => Inv'
  BY NextKeeps
<1> QED BY <1>1, <1>2, PTL DEF Spec

----------------------------------------------------------------------------
(* The theorems *)

\* Types, for every set of projects, boards and commands.
THEOREM TypeCorrect == Spec => []TypeOK
BY Invariance, PTL DEF Inv

\* No pass loses the only pointer to a board of Plane (PointerKept).
THEOREM PointersStay == Spec => []PointerKept
<1>1. Inv => PointerKept
  <2> SUFFICES ASSUME Inv, NEW c \in Commands, At(c, "judge"), NEW p \in Slugs,
                      cmd[c].base[p].board \in Plane
               PROVE  \E q \in Slugs : cmd[c].mine[q].board = cmd[c].base[p].board
    BY DEF PointerKept
  <2> DEFINE k == cmd[c]
             b == k.base[p].board
  <2>1. k \in Passes /\ Pass(k)
    BY KindOf DEF Inv
  <2>2. k.claimed[b] # None /\ k.mine[k.claimed[b]].board = b
    BY <2>1 DEF Pass, Claims
  <2>3. k.claimed[b] \in Slugs
    BY <2>1, <2>2, PassFields DEF Boards
  <2> QED BY <2>2, <2>3
<1> QED BY <1>1, Invariance, PTL

\* Two settled records of one scope share no key.
LEMMA KeysApart ==
  ASSUME NEW k \in Passes, NEW p \in Slugs, NEW q \in Slugs, p # q,
         Settled(k, p), Settled(k, q), SeenUnique(k), LegalRegistry(k.base),
         OwnBoards(k.mine), SameScope(p, k.mine[p], q, k.mine[q]),
         k.mine[p].key = k.mine[q].key, k.mine[p].key # None
  PROVE  FALSE
<1>1. k.mine[p].ws = k.mine[q].ws /\ TypeOf[p] = TypeOf[q]
  BY DEF SameScope
<1>2. CASE k.mine[p].board \in Plane /\ k.mine[q].board \in Plane
  <2>1. k.mine[p].board = k.mine[q].board
    BY <1>1, <1>2 DEF Settled, SeenUnique
  <2> QED BY <2>1, <1>2, NoneIsApart DEF Settled
<1>3. ASSUME NEW s \in Slugs, NEW t \in Slugs, Settled(k, s), Settled(k, t),
             k.mine[s].ws = k.mine[t].ws, TypeOf[s] = TypeOf[t],
             k.mine[s].key = k.mine[t].key, k.mine[s].key # None,
             k.mine[s].board \in Plane, k.mine[t].board \notin Plane
      PROVE  FALSE
  <2>1. k.mine[t].board = None
    <3>1. TypeOf[s] = "plane"
      BY <1>3, OwnAreBoards, NoneIsApart DEF OwnBoards
    <3> QED BY <3>1, <1>3, OwnAreBoards DEF OwnBoards
  <2>2. OwnedKey(k, k.mine[t])
    BY <1>3 DEF Settled, OwnedKey
  <2> QED BY <1>3, <2>1, <2>2 DEF Settled
<1>4. CASE k.mine[p].board \notin Plane /\ k.mine[q].board \notin Plane
  <2>1. k.mine[p].key = k.base[p].key /\ k.mine[p].ws = k.base[p].ws
    BY <1>4 DEF Settled
  <2>2. k.mine[q].key = k.base[q].key /\ k.mine[q].ws = k.base[q].ws
    BY <1>4 DEF Settled
  <2>3. SameScope(p, k.base[p], q, k.base[q])
    BY <2>1, <2>2, <1>1 DEF SameScope
  <2> QED BY <2>1, <2>2, <2>3 DEF LegalRegistry
<1> QED BY <1>1, <1>2, <1>3, <1>4

\* What a pass over all records says it repaired is repaired (RepairIsSound).
THEOREM RepairsHold == Spec => []RepairIsSound
<1>1. Inv => RepairIsSound
  <2> SUFFICES ASSUME Inv, NEW c \in Commands, Done(c), cmd[c].scope = Slugs, ~cmd[c].errors
               PROVE
      LET ours == cmd[c].mine
      IN  /\ \A p, q \in Slugs :
               p # q /\ ours[p].board = ours[q].board => ours[p].board = None
          /\ \A p \in Slugs :
               TypeOf[p] = "plane" =>
                 IF ours[p].board = None THEN ours[p].key = None \/ ~OwnedKey(cmd[c], ours[p])
                 ELSE ours[p].key = cmd[c].seen[ours[p].board].key
          /\ LegalRegistry(cmd[c].base) => LegalRegistry(ours)
    BY DEF RepairIsSound
  <2> DEFINE k == cmd[c]
  <2>1. k \in Passes /\ Pass(k) /\ OwnBoards(k.mine)
    BY DoneIsPass
  <2>2. \A p \in Slugs : Settled(k, p)
    <3> SUFFICES ASSUME NEW p \in Slugs PROVE Settled(k, p)
      OBVIOUS
    <3>1. PICK i \in DOMAIN Sorted : Sorted[i] = p
      BY Separate
    <3>2. DOMAIN Sorted = 1 .. Len(Sorted) /\ Len(Sorted) \in Nat /\ k.next \in Nat
      BY <2>1, Separate, PassFields
    <3>3. i < k.next
      BY <3>1, <3>2 DEF Done
    <3> QED BY <3>1, <3>3, <2>1 DEF Pass
  <2>3. \A p, q \in Slugs :
          p # q /\ k.mine[p].board = k.mine[q].board => k.mine[p].board = None
    BY <2>2 DEF Settled
  <2>4. ASSUME NEW p \in Slugs, TypeOf[p] = "plane"
        PROVE  IF k.mine[p].board = None THEN k.mine[p].key = None \/ ~OwnedKey(k, k.mine[p])
               ELSE k.mine[p].key = k.seen[k.mine[p].board].key
    <3>1. k.mine[p].board = None \/ k.mine[p].board \in Plane
      BY <2>1, <2>4, OwnAreBoards DEF OwnBoards
    <3> QED BY <3>1, <2>2 DEF Settled
  <2>5. ASSUME LegalRegistry(k.base) PROVE LegalRegistry(k.mine)
    <3>1. \A p \in Slugs : LegalRecord(p, k.mine[p])
      BY <2>2 DEF Settled
    <3>2. ASSUME NEW p \in Slugs, NEW q \in Slugs, p # q,
                 SameScope(p, k.mine[p], q, k.mine[q]),
                 k.mine[p].key = k.mine[q].key
          PROVE  k.mine[p].key = None
      BY <3>2, <2>1, <2>2, <2>5, KeysApart DEF Pass
    <3> QED BY <3>1, <3>2, <2>3 DEF LegalRegistry
  <2> QED BY <2>3, <2>4, <2>5
<1> QED BY <1>1, Invariance, PTL

\* Only its own last step ends a pass that has judged every record.
LEMMA EndsByFinish ==
  ASSUME Inv, [Next]_vars, NEW c \in Commands, Done(c), cmd'[c] = Idle
  PROVE  Finish(c)
<1>1. cmd[c] \in Passes /\ cmd[c].op = "judge" /\ cmd[c] # Idle
      /\ ~(cmd[c].next <= Len(Sorted)) /\ cmd \in [Commands -> {Idle} \cup Passes \cup Links]
  <2>1. cmd[c] \in Passes /\ cmd[c].op = "judge"
    BY DoneIsPass
  <2>2. cmd[c].next \in Nat /\ Len(Sorted) \in Nat
    BY <2>1, PassFields, Separate
  <2>3. ~(cmd[c].next <= Len(Sorted))
    BY <2>2 DEF Done
  <2> QED BY <2>1, <2>3, IdleIsPlain DEF Inv, TypeOK
<1>2. cmd' # cmd
  BY <1>1
<1>3. PICK d \in Commands : Command(d)
  BY <1>2 DEF Next, World, Edit, PlaneChanges, TrelloChanges, vars
<1>4. CASE d # c
  <2>1. \A n : cmd' = [cmd EXCEPT ![d] = n] => cmd'[c] = cmd[c]
    BY <1>1, <1>4
  <2>2. (\E scope \in Scopes : Load(d, scope)) => cmd'[c] = cmd[c]
    BY <2>1 DEF Load
  <2>3. (\E lost \in SUBSET Workspaces : Fetch(d, lost)) => cmd'[c] = cmd[c]
    BY <1>1, <1>4 DEF Fetch
  <2>4. Judge(d) => cmd'[c] = cmd[c]
    <3>1. PassOver(d) => cmd'[c] = cmd[c]
      BY <1>1, <1>4 DEF PassOver
    <3>2. \A r, claim, bad : Judged(d, r, claim, bad) => cmd'[c] = cmd[c]
      BY <1>1, <1>4 DEF Judged
    <3> QED BY <3>1, <3>2 DEF Judge, Park, Refuse, Unbind, Confirm, Preserve, TrelloSilent,
                              TrelloConfirm, TrelloClosed
  <2>5. Finish(d) \/ LinkFinish(d) => cmd'[c] = cmd[c]
    BY <2>1 DEF Finish, LinkFinish
  <2>6. (\E p \in Slugs, b \in Boards : LinkLoad(d, p, b)) => cmd'[c] = cmd[c]
    BY <2>1 DEF LinkLoad
  <2> QED BY <1>1, <1>3, <2>2, <2>3, <2>4, <2>5, <2>6 DEF Command
<1>5. CASE d = c
  <2>1. ~Judge(c)
    BY <1>1 DEF Judge, PassOver, InTurn, Park, Refuse, Unbind, Confirm, Preserve, TrelloSilent,
                TrelloTurn, TrelloConfirm, TrelloClosed
  <2>2. ~At(c, "idle") /\ ~At(c, "fetch") /\ ~At(c, "link")
    BY <1>1 DEF At
  <2> QED BY <1>3, <1>5, <2>1, <2>2 DEF Command, Load, Fetch, LinkLoad, LinkFinish
<1> QED BY <1>4, <1>5

\* A conflict anywhere refuses the save as a whole.
LEMMA ConflictKeeps ==
  ASSUME Inv, service, NEW base, NEW ours, Save(base, ours), Conflict(base, ours)
  PROVE  man' = man
BY DEF Save, Inv, Outside

LEMMA MergeLeavesLinks ==
  ASSUME Inv, service, NEW c \in Commands, Done(c), Finish(c), NEW p \in Slugs,
         NEW old, NEW new, old = cmd[c].base[p], new = cmd[c].mine[p],
         man[p].state = "linked", man[p].board # old.board,
         man[p].stamp \notin {old.stamp, new.stamp},
         LegalRecord(p, old), LegalRecord(p, man[p])
  PROVE  /\ \A f \in {"board", "ws", "state", "stamp"} : man'[p][f] = man[p][f]
         /\ \/ man'[p] = man[p]
            \/ /\ new # old /\ new.stamp = old.stamp
               /\ TypeOf[p] = "plane" => old.source = None
<1> DEFINE k == cmd[c]
<1>1. /\ k \in Passes /\ Pass(k) /\ k.base \in Registries /\ k.mine \in Registries
  BY DoneIsPass
<1>2. man \in Registries /\ old \in Bindings /\ new \in Bindings /\ man[p] \in Bindings
  BY <1>1 DEF Inv, TypeOK, Registries
<1>3. CASE man' = man
  BY <1>3
<1>4. CASE man' # man
  <2>1. Save(k.base, k.mine) /\ ~Conflict(k.base, k.mine)
    BY <1>4, ConflictKeeps DEF Finish
  <2>2. man' = Merged(k.base, k.mine)
    BY <2>1 DEF Save
  <2>3. man' \in Registries /\ man'[p] \in Bindings
    BY <1>1, <1>2, <2>2, MergedIs DEF Registries
  <2>4. \A f \in Fields : man'[p][f] = IF new[f] = old[f] THEN man[p][f] ELSE new[f]
    BY <1>1, <1>2, <2>2, MergedIs
  <2>5. \A f \in Fields : new[f] = old[f] \/ man[p][f] = old[f] \/ new[f] = man[p][f]
    BY <2>1 DEF Conflict
  <2>6. /\ new.board = old.board \/ man[p].board = old.board \/ new.board = man[p].board
        /\ new.source = old.source \/ man[p].source = old.source \/ new.source = man[p].source
        /\ new.stamp = old.stamp \/ man[p].stamp = old.stamp \/ new.stamp = man[p].stamp
    BY <2>5 DEF Fields
  <2>7. new.stamp = old.stamp
    BY <2>6
  <2>8. /\ man'[p].board = IF new.board = old.board THEN man[p].board ELSE new.board
        /\ man'[p].ws = IF new.ws = old.ws THEN man[p].ws ELSE new.ws
        /\ man'[p].key = IF new.key = old.key THEN man[p].key ELSE new.key
        /\ man'[p].source = IF new.source = old.source THEN man[p].source ELSE new.source
        /\ man'[p].state = IF new.state = old.state THEN man[p].state ELSE new.state
        /\ man'[p].stamp = IF new.stamp = old.stamp THEN man[p].stamp ELSE new.stamp
    BY <2>4 DEF Fields
  <2>9. CASE new = old
    BY <2>3, <2>8, <2>9, <1>2, SameBlock
  <2>10. CASE new # old /\ TypeOf[p] = "trello" /\ new = [old EXCEPT !.source = "proposed"]
    <3>1. new.board = old.board /\ new.ws = old.ws /\ new.state = old.state
      BY <2>10, <1>2, BlockFields
    <3> QED BY <3>1, <2>7, <2>8, <2>10
  <2>11. CASE new # old /\ new = Demoted(k, old)
    <3>1. /\ new.board = None /\ new.stamp = None /\ new.ws = old.ws
          /\ new.key \in {None, old.key}
          /\ new.source = (IF new.key = None THEN None ELSE "proposed")
          /\ new.state = (IF old.state = "skipped" THEN "skipped" ELSE "planned")
      BY <1>2, <2>11, DemotedIs
    <3>2. old.stamp = None
      BY <2>7, <3>1
    <3>3. old.state # "linked" /\ old.source # "provider"
      BY <3>2 DEF LegalRecord
    <3>4. new.state = old.state
      BY <3>1, <3>3, <1>2, BlockFields DEF States
    <3>5. man[p].board # None
      BY DEF LegalRecord
    <3>6. old.board = None
      BY <2>6, <3>1, <3>5
    <3>7. TypeOf[p] = "plane" => old.source = None
      <4> SUFFICES ASSUME TypeOf[p] = "plane" PROVE old.source = None
        OBVIOUS
      <4>1. man[p].source = "provider"
        BY DEF LegalRecord
      <4>2. old.source \in {"proposed", None}
        BY <1>2, <3>3, BlockFields DEF Sources
      <4>3. new.source = old.source
        BY <2>6, <3>1, <3>3, <4>1, Separate
      <4>4. old.source = "proposed" => new.key # None
        BY <3>1, <4>3, Separate
      <4>5. old.source = "proposed" => new.key = old.key
        BY <3>1, <4>4
      <4>6. old.source = "proposed" => new = old
        BY <4>3, <4>5, <3>1, <3>2, <3>4, <3>6, <1>2, SameBlock
      <4> QED BY <4>2, <4>6, <2>11
    <3> QED BY <2>7, <2>8, <2>11, <3>1, <3>4, <3>6, <3>7
  <2>12. Verdict(k, p)
    BY <1>1 DEF Pass
  <2> QED BY <2>7, <2>9, <2>10, <2>11, <2>12 DEF Verdict
<1> QED BY <1>3, <1>4

\* A reconcile leaves a link alone that was made since it loaded (LinkKept).
THEOREM LinksStay == Spec => LinkKept
<1>1. Inv /\ [Next]_vars =>
        [\A c \in Commands, p \in Slugs :
           LET base == cmd[c].base[p]
               ours == cmd[c].mine[p]
               relabelled == /\ ours # base /\ ours.stamp = base.stamp
                             /\ TypeOf[p] = "plane" => base.source = None
           IN  /\ service /\ Done(c) /\ cmd'[c] = Idle
               /\ man[p].state = "linked" /\ man[p].board # base.board
               /\ man[p].stamp \notin {base.stamp, ours.stamp}
               /\ LegalRecord(p, base) /\ LegalRecord(p, man[p])
               => /\ \A f \in {"board", "ws", "state", "stamp"} : man'[p][f] = man[p][f]
                  /\ man'[p] = man[p] \/ relabelled]_vars
  BY EndsByFinish, MergeLeavesLinks
<1> QED BY <1>1, Invariance, PTL DEF Spec, LinkKept
=============================================================================

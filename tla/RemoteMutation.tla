--------------------------- MODULE RemoteMutation ---------------------------
(***************************************************************************)
(* How a note or a notebook is created at most once on a remote service    *)
(* that offers nothing but a plain POST and a list                         *)
(* (src/notebook/reconcile.ts, remote-mutation-journal.ts and the POST of  *)
(* open-notebook-client.ts).                                               *)
(*                                                                         *)
(* One logical marker is modelled: the journal of its operation, the       *)
(* copies of it the service has, the POSTs on their way, and the workers   *)
(* (hooks, command lines, services) that reconcile it.  A change of the    *)
(* journal is made under the project's admission lock, so it is one step.  *)
(*                                                                         *)
(* Abstractions.  The digests of the title and the content are the input   *)
(* itself.  A transition is refused unless the journal file still is what  *)
(* the worker holds, and updated_at never repeats: "current" is the set of *)
(* the workers whose copy is the file as it is.  A committed journal is    *)
(* never looked at again, so it is the same as none.  Journals written     *)
(* before dispatch digests existed (v1.14) are left out.                   *)
(***************************************************************************)
EXTENDS Naturals, FiniteSets

CONSTANTS
    Workers,
    Kind,       \* "note.create" or "notebook.create"
    Inputs,     \* titles and contents to be written
    Ids,        \* ids the service gives
    Nil,        \* no journal, no id
    Faults,     \* what may go wrong besides a crash
    CrashAt,    \* where a worker may stop: killed, out of time, lease lost
    MaxCrashes  \* bound on workers stopping

VARIABLES
    journal,   \* the operation's journal, Nil once committed
    notes,     \* copies on the service
    wire,      \* POSTs the service has not dealt with yet
    pc,        \* where each worker stands
    want,      \* the input each worker came with
    held,      \* the journal as each worker knows it
    current,   \* the workers for which that is the journal as it is
    seen,      \* the copies each worker listed
    post,      \* the id of the POST each worker awaits
    crashes    \* spent budget

mutationVars == <<journal, notes, wire, pc, want, held, current, seen, post, crashes>>
remote == <<notes, wire>>
local == <<want, seen, post>>   \* what a worker keeps to itself

Steps == {"idle", "list", "record", "update", "rearm", "latch", "send", "await",
          "mark", "relist", "rerecord", "commit"}
Journals == [state : {"prepared", "possibly-dispatched", "reconciled"}, input : Inputs,
             rejected : BOOLEAN, candidates : SUBSET Ids]
Copies == [id : Ids, input : Inputs]

ASSUME MutationAssumption ==
    /\ Kind \in {"note.create", "notebook.create"}
    /\ Nil \notin Ids \cup Inputs \cup Journals
    /\ Faults \subseteq {"no connection", "lost request", "lost refusal", "deletion"}
    /\ MaxCrashes \in Nat

MutationTypeOK ==
    /\ journal \in Journals \cup {Nil}
    /\ notes \subseteq Copies /\ wire \subseteq Copies
    /\ pc \in [Workers -> Steps]
    /\ want \in [Workers -> Inputs \cup {Nil}]
    /\ held \in [Workers -> Journals \cup {Nil}]
    /\ current \subseteq Workers
    /\ seen \in [Workers -> SUBSET Copies]
    /\ post \in [Workers -> Ids \cup {Nil}]
    /\ crashes \in 0..MaxCrashes

MutationInit ==
    /\ journal = Nil /\ notes = {} /\ wire = {}
    /\ pc = [w \in Workers |-> "idle"]
    /\ held = [w \in Workers |-> Nil] /\ current = {}
    /\ want = held /\ post = held /\ seen = [w \in Workers |-> {}]
    /\ crashes = 0

IdsOf(S) == {c.id : c \in S}
Go(w, to) == pc' = [pc EXCEPT ![w] = to]

\* The call is over, by its result or an error.
Out(w) ==
    /\ Go(w, "idle")
    /\ want' = [want EXCEPT ![w] = Nil]
    /\ held' = [held EXCEPT ![w] = Nil]
    /\ seen' = [seen EXCEPT ![w] = {}]
    /\ post' = [post EXCEPT ![w] = Nil]

\* The journal as worker w leaves it.
WriteJournal(w, j) ==
    /\ journal' = j
    /\ held' = [held EXCEPT ![w] = j]
    /\ current' = {w}

-----------------------------------------------------------------------------
(* reconcileManagedNote() and reconcileProjectNotebook().                  *)

Prepared(i) ==
    [state |-> "prepared", input |-> i, rejected |-> FALSE, candidates |-> {}]

Prepare(w) ==
    /\ pc[w] = "idle"
    /\ \E i \in Inputs :
        /\ want' = [want EXCEPT ![w] = i]
        /\ IF journal = Nil \/ (journal.state = "prepared" /\ journal.input # i)
           THEN WriteJournal(w, Prepared(i))
           ELSE /\ held' = [held EXCEPT ![w] = journal]
                /\ current' = current \cup {w}
                /\ UNCHANGED journal
    /\ Go(w, "list")
    /\ UNCHANGED <<remote, seen, post, crashes>>

List(w) ==
    /\ pc[w] \in {"list", "relist"}
    /\ seen' = [seen EXCEPT ![w] = notes]
    /\ Go(w, IF pc[w] = "list" THEN "record" ELSE "rerecord")
    /\ UNCHANGED <<journal, remote, want, held, current, post, crashes>>

\* What the list calls for: adopt the one copy, create it, or fail: there are several,
\* or the one just created is missing or has been changed.
Onward(w, state) ==
    IF pc[w] = "record" /\ seen[w] = {} THEN IF state = "prepared" THEN "latch" ELSE "rearm"
    ELSE IF pc[w] = "record" /\ Cardinality(seen[w]) = 1 THEN "update"
    ELSE IF pc[w] = "rerecord" /\ \E i \in Ids : seen[w] = {[id |-> i, input |-> want[w]]}
    THEN "commit"
    ELSE "idle"

Proceed(w, j) ==
    LET to == Onward(w, j.state)
    IN  IF to = "idle"
        THEN Out(w)
        ELSE Go(w, to) /\ held' = [held EXCEPT ![w] = j] /\ UNCHANGED local

\* recordReconciliation: what was listed is written down, or is what was.
Record(w) ==
    /\ pc[w] \in {"record", "rerecord"}
    /\ LET h     == held[w]
           ids   == IdsOf(seen[w])
           found == [h EXCEPT !.state = "reconciled", !.rejected = FALSE, !.candidates = ids]
           known == h.state = "reconciled"
       IN  \/ /\ ~known /\ ids # {} /\ w \in current
              /\ journal' = found /\ current' = {w}
              /\ Proceed(w, found)
           \/ /\ IF known THEN ids = h.candidates ELSE ids = {}
              /\ Proceed(w, h) /\ UNCHANGED <<journal, current>>
           \/ /\ IF known THEN ids # h.candidates ELSE ids # {} /\ w \notin current
              /\ Out(w) /\ UNCHANGED <<journal, current>>
    /\ UNCHANGED <<remote, crashes>>

\* The copy is brought up to date, unless it is already; it may be gone by now.
Update(w) ==
    /\ pc[w] = "update"
    /\ \/ /\ \A s \in seen[w] : s.input = want[w]
          /\ Go(w, "commit") /\ UNCHANGED <<notes, held, local>>
       \/ /\ \A s \in seen[w] : s.input # want[w] /\ s.id \in IdsOf(notes)
          /\ notes' = {IF c.id \in IdsOf(seen[w]) THEN [c EXCEPT !.input = want[w]] ELSE c : c \in notes}
          /\ Go(w, "commit") /\ UNCHANGED <<held, local>>
       \/ /\ \A s \in seen[w] : s.input # want[w] /\ s.id \notin IdsOf(notes)
          /\ Out(w) /\ UNCHANGED notes
    /\ UNCHANGED <<journal, wire, current, crashes>>

\* Faulty: a dispatch in doubt is taken for one that was refused.
RearmAnyway(w) ==
    /\ pc[w] = "rearm"
    /\ IF /\ Kind = "note.create" /\ w \in current
          /\ held[w].state = "possibly-dispatched" /\ held[w].candidates = {}
          /\ held[w].input # want[w]
       THEN WriteJournal(w, Prepared(want[w])) /\ Go(w, "latch") /\ UNCHANGED local
       ELSE Out(w) /\ UNCHANGED <<journal, current>>
    /\ UNCHANGED <<remote, crashes>>

\* Only what the service refused may be sent again, corrected.
Rearm(w) ==
    /\ pc[w] = "rearm"
    /\ IF /\ Kind = "note.create" /\ w \in current
          /\ held[w].state = "possibly-dispatched" /\ held[w].candidates = {}
          /\ held[w].rejected /\ held[w].input # want[w]
       THEN WriteJournal(w, Prepared(want[w])) /\ Go(w, "latch") /\ UNCHANGED local
       ELSE Out(w) /\ UNCHANGED <<journal, current>>
    /\ UNCHANGED <<remote, crashes>>

\* Faulty: the journal is not compared before the POST.
LatchAnyway(w) ==
    /\ pc[w] = "latch"
    /\ WriteJournal(w, [held[w] EXCEPT !.state = "possibly-dispatched"])
    /\ Go(w, "send")
    /\ UNCHANGED <<remote, local, crashes>>

\* possiblyDispatched: the last thing before the request leaves.
Latch(w) ==
    /\ pc[w] = "latch"
    /\ IF w \in current
       THEN /\ WriteJournal(w, [held[w] EXCEPT !.state = "possibly-dispatched"])
            /\ Go(w, "send")
            /\ UNCHANGED local
       ELSE Out(w) /\ UNCHANGED <<journal, current>>
    /\ UNCHANGED <<remote, crashes>>

InUse == IdsOf(notes \cup wire) \cup {post[w] : w \in Workers}
    \cup UNION ({IdsOf(seen[w]) : w \in Workers} \cup {j.candidates : j \in
        ({journal} \cup {held[w] : w \in Workers}) \ {Nil}})

Send(w) ==
    /\ pc[w] = "send"
    /\ \E n \in Ids \ InUse :
        /\ wire' = wire \cup {[id |-> n, input |-> want[w]]}
        /\ post' = [post EXCEPT ![w] = n]
    /\ Go(w, "await")
    /\ UNCHANGED <<journal, notes, want, held, current, seen, crashes>>

\* The service cannot be reached, or it takes too long.
GiveUp(w) ==
    /\ \/ pc[w] = "send" /\ "no connection" \in Faults
       \/ pc[w] = "await"
    /\ Out(w)
    /\ UNCHANGED <<journal, remote, current, crashes>>

\* definitivelyRejected, given for notes only; the call fails either way.
Mark(w) ==
    /\ pc[w] = "mark"
    /\ IF Kind = "note.create" /\ w \in current
       THEN journal' = [journal EXCEPT !.rejected = TRUE] /\ current' = {}
       ELSE UNCHANGED <<journal, current>>
    /\ Out(w)
    /\ UNCHANGED <<remote, crashes>>

\* Faulty: the journal that is there is committed, whatever it has become.
CommitAnyway(w) ==
    /\ pc[w] = "commit"
    /\ journal' = Nil /\ current' = {}
    /\ Out(w)
    /\ UNCHANGED <<remote, crashes>>

\* The caller has made its ownership durable: a receipt, or the project's manifest.
Commit(w) ==
    /\ pc[w] = "commit"
    /\ IF w \in current
       THEN journal' = Nil /\ current' = {}
       ELSE UNCHANGED <<journal, current>>
    /\ Out(w)
    /\ UNCHANGED <<remote, crashes>>

Crash(w) ==
    /\ pc[w] \in CrashAt
    /\ crashes < MaxCrashes /\ crashes' = crashes + 1
    /\ Out(w)
    /\ UNCHANGED <<journal, remote, current>>

-----------------------------------------------------------------------------
(* The service.                                                            *)

Awaits(w, m) == pc[w] = "await" /\ post[w] = m.id

\* The answer reaches the worker, if it still waits, or is lost.
Land(m) ==
    /\ wire' = wire \ {m} /\ notes' = notes \cup {m}
    /\ \/ \E w \in Workers : Awaits(w, m) /\ Go(w, "relist")
       \/ UNCHANGED pc
    /\ UNCHANGED <<journal, held, current, local, crashes>>

\* HTTP 400 or 422: nothing was created.
RefuseRequest(m) ==
    /\ wire' = wire \ {m}
    /\ \/ \E w \in Workers : Awaits(w, m) /\ Go(w, "mark")
       \/ "lost refusal" \in Faults /\ UNCHANGED pc
    /\ UNCHANGED <<journal, notes, held, current, local, crashes>>

Lose(m) ==
    /\ "lost request" \in Faults
    /\ wire' = wire \ {m}
    /\ UNCHANGED <<journal, notes, pc, held, current, local, crashes>>

\* Someone removes the copy on the service.
Delete(c) ==
    /\ "deletion" \in Faults
    /\ notes' = notes \ {c}
    /\ UNCHANGED <<journal, wire, pc, held, current, local, crashes>>

Service == \E m \in wire : Land(m) \/ RefuseRequest(m) \/ Lose(m)

Step(w) ==
    \/ Prepare(w) \/ List(w) \/ Record(w) \/ Update(w) \/ Rearm(w) \/ Latch(w)
    \/ Send(w) \/ GiveUp(w) \/ Mark(w) \/ Commit(w)

MutationNext ==
    \/ \E w \in Workers : Step(w) \/ Crash(w)
    \/ Service
    \/ \E c \in notes : Delete(c)

MutationSpec == MutationInit /\ [][MutationNext]_mutationVars

\* Workers run, sessions keep coming, and the service answers in the end.
FairSpec == MutationSpec /\ WF_mutationVars(Service) /\ \A w \in Workers : WF_mutationVars(Step(w))

-----------------------------------------------------------------------------
(* What should be true of it.                                              *)

\* "A timeout or process crash never silently creates a duplicate": there is never
\* more than one copy, counting the POSTs that may still make one.
OneCopy == \A i, j \in IdsOf(notes \cup wire) : i = j

\* "A different corrected input may dispatch once only after zero candidates": the
\* journal is armed again only when there is nothing and nothing can still come.
NeverRearmedInDoubt ==
    [][journal # Nil /\ journal' # Nil
       /\ journal.state = "possibly-dispatched" /\ journal'.state = "prepared"
        => notes = {} /\ wire = {} /\ \A w \in Workers : pc[w] # "send"]_mutationVars

\* The operation is closed only by one who owns whatever copy there is.
ClosedByOwner ==
    [][journal # Nil /\ journal' = Nil
        => /\ wire = {}
           /\ \E w \in Workers : pc[w] = "commit" /\ IdsOf(notes) \subseteq IdsOf(seen[w])]_mutationVars

\* An operation does not stay in doubt: what became of the POST is found out.
InDoubt == journal # Nil /\ journal.state = "possibly-dispatched" /\ ~journal.rejected
DoubtResolves == InDoubt ~> ~InDoubt
=============================================================================

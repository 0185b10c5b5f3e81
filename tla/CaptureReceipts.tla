--------------------------- MODULE CaptureReceipts ---------------------------
(***************************************************************************)
(* The capture of ended sessions: what a session leaves behind at its      *)
(* start, the receipt admitted when it ends, and the leased workers that   *)
(* process receipts (src/notebook/state.ts, capture.ts, hooks.ts).         *)
(*                                                                         *)
(* Every change of a receipt is made under the project's admission lock    *)
(* (module AdmissionLock), so each is one step.  A session's start takes   *)
(* no lock, so the file it leaves is first there empty and then filled.    *)
(*                                                                         *)
(* Abstractions.  Times are what the code asks of them: a baseline past    *)
(* its grace, a lease that lapsed, a success past its retention.  A worker *)
(* changes a receipt only if that still has the state, updated_at and      *)
(* owner it knows, and updated_at never repeats: "current" is the set of   *)
(* the workers for which it has.  The remote work of one attempt is any    *)
(* number of renewals, each followed by a call that may leave a journal    *)
(* open (module RemoteMutation).  Caps count receipts, not bytes.  The     *)
(* marker that tells of a refusal is only reported, and left out.          *)
(***************************************************************************)
EXTENDS Naturals, FiniteSets

CONSTANTS
    Sessions,
    Workers,      \* processes that may run runCaptureWorker()
    None,
    MaxCount,     \* unresolved_receipt_max_count
    Limit,        \* automatic_attempt_limit
    MaxRetries,   \* bound on "capture retry" per receipt
    MaxFaults     \* bound on processes dying and on "worker capture" runs by hand

ASSUME CaptureAssumption ==
    /\ MaxCount \in Nat /\ Limit \in Nat
    /\ MaxRetries \in Nat /\ MaxFaults \in Nat

VARIABLES
    baseline,   \* what each session's start left
    starting,   \* sessions whose start is between creating and filling it
    receipt,    \* each session's receipt
    journals,   \* sessions an open remote mutation journal refers to
    pc, at,     \* where each worker stands, and on whose receipt
    current,    \* workers that know their receipt as it is
    faults      \* of MaxFaults, those that happened

vars == <<baseline, starting, receipt, journals, pc, at, current, faults>>
state == <<baseline, starting, receipt, journals>>
workers == <<pc, at, current>>

Baselines == [is : {"torn", "incomplete", "complete"}, old : BOOLEAN]
Unresolved == {"queued", "processing", "failed", "retry-exhausted", "blocked-missing-baseline"}
Receipts ==
    [state : Unresolved \cup {"succeeded"}, origin : {"automatic", "operator"},
     used : 0..Limit, manual : 0..MaxRetries,
     ref : {"none", "start", "operator"},     \* baseline_ref, manual_baseline_ref
     retryable : BOOLEAN, owner : Workers \cup {None}, lapsed : BOOLEAN, old : BOOLEAN]

\* None is null: no process and nothing that a file holds.
ASSUME NoneIsApart == None \notin Workers \cup Baselines \cup Receipts

Steps == {"idle", "claim", "begin", "work", "failed", "retryable", "requeue", "commit"}

TypeOK ==
    /\ baseline \in [Sessions -> Baselines \cup {None}]
    /\ starting \subseteq Sessions /\ journals \subseteq Sessions
    /\ receipt \in [Sessions -> Receipts \cup {None}]
    /\ pc \in [Workers -> Steps] /\ at \in [Workers -> Sessions \cup {None}]
    /\ current \subseteq Workers
    /\ faults \in 0..MaxFaults

Init ==
    /\ baseline = [s \in Sessions |-> None] /\ receipt = baseline
    /\ starting = {} /\ journals = {}
    /\ pc = [w \in Workers |-> "idle"] /\ at = [w \in Workers |-> None]
    /\ current = {} /\ faults = 0

Has(f, s) == f[s] # None
IsIn(s, states) == Has(receipt, s) /\ receipt[s].state \in states
UnresolvedCount == Cardinality({s \in Sessions : IsIn(s, Unresolved)})

\* scanReceipts, scanAuxiliaryState: entries that do not parse, sessions referred to.
IntegrityFindings == {s \in Sessions : Has(baseline, s) /\ baseline[s].is = "torn"}
Referenced == {s \in Sessions : Has(receipt, s)} \cup journals

-----------------------------------------------------------------------------
(* Sessions: runSessionStartHook() and runSessionCloseHook().              *)

\* createSessionBaseline: O_EXCL, then the contents.
StartCreate(s) ==
    /\ ~Has(baseline, s)
    /\ baseline' = [baseline EXCEPT ![s] = [is |-> "torn", old |-> FALSE]]
    /\ starting' = starting \cup {s}
    /\ UNCHANGED <<receipt, journals, workers, faults>>

StartWrite(s) ==
    /\ s \in starting
    /\ starting' = starting \ {s}
    /\ \E is \in {"incomplete", "complete"} :
        baseline' = [baseline EXCEPT ![s] = IF @ = None THEN None ELSE [@ EXCEPT !.is = is]]
    /\ UNCHANGED <<receipt, journals, workers, faults>>

\* A worker process is started on s.
Spawn(s) ==
    \E w \in Workers :
        /\ pc[w] = "idle"
        /\ pc' = [pc EXCEPT ![w] = "claim"] /\ at' = [at EXCEPT ![w] = s]

\* The grace is over and nothing refers to it: forgotten at the session's end.
Expired(s) ==
    /\ Has(baseline, s) /\ baseline[s].old
    /\ s \notin Referenced /\ IntegrityFindings = {}

Candidate(kept) ==
    [state |-> "queued", origin |-> "automatic", used |-> 0, manual |-> 0,
     ref |-> IF kept THEN "start" ELSE "none",
     retryable |-> FALSE, owner |-> None, lapsed |-> FALSE, old |-> FALSE]

Deduplicated(s) ==
    /\ Has(receipt, s)
    /\ UNCHANGED vars

Forget(s) ==
    baseline' = IF Expired(s) THEN [baseline EXCEPT ![s] = None] ELSE baseline

\* "state-integrity: this session was not captured".
IntegrityRefused(s) ==
    /\ ~Has(receipt, s) /\ IntegrityFindings # {}
    /\ UNCHANGED vars

Fits == UnresolvedCount + 1 <= MaxCount

\* "retention-pressure: this session was not captured".
PressureRefused(s) ==
    /\ ~Has(receipt, s) /\ IntegrityFindings = {} /\ ~Fits
    /\ Forget(s)
    /\ UNCHANGED <<starting, receipt, journals, workers, faults>>

\* The receipt is durable before a worker is started for it.
Admit(s) ==
    /\ ~Has(receipt, s) /\ IntegrityFindings = {} /\ Fits
    /\ Forget(s)
    /\ receipt' = [receipt EXCEPT ![s] = Candidate(Has(baseline, s) /\ ~Expired(s))]
    /\ Spawn(s)
    /\ UNCHANGED <<starting, journals, current, faults>>

\* The close dies, or cannot start the worker, once the receipt is durable.
AdmitAndDie(s) ==
    /\ ~Has(receipt, s) /\ IntegrityFindings = {} /\ Fits
    /\ faults < MaxFaults
    /\ Forget(s)
    /\ receipt' = [receipt EXCEPT ![s] = Candidate(Has(baseline, s) /\ ~Expired(s))]
    /\ faults' = faults + 1
    /\ UNCHANGED <<starting, journals, workers>>

-----------------------------------------------------------------------------
(* Workers: runCaptureWorker(), which "capture retry" also runs.           *)

On(s) == {w \in Workers : at[w] = s}
Go(w, to) == pc' = [pc EXCEPT ![w] = to]
Leave(w) == Go(w, "idle") /\ at' = [at EXCEPT ![w] = None]
Out(w) == Leave(w) /\ current' = current \ {w}

\* The receipt of s as w writes it.
WriteReceipt(w, s, r) ==
    /\ receipt' = [receipt EXCEPT ![s] = r]
    /\ current' = (current \ On(s)) \cup {w}

\* authorizeCaptureRetry(): one attempt of the operator's own.
Retry(s) ==
    /\ IsIn(s, {"failed", "retry-exhausted", "blocked-missing-baseline"})
    /\ receipt[s].manual < MaxRetries
    /\ receipt' = [receipt EXCEPT ![s] = [receipt[s] EXCEPT
           !.state = "queued", !.origin = "operator", !.manual = @ + 1, !.retryable = FALSE,
           !.owner = None, !.lapsed = FALSE,
           !.ref = IF receipt[s].state = "blocked-missing-baseline" THEN "operator" ELSE @]]
    /\ current' = current \ On(s)
    /\ Spawn(s)
    /\ UNCHANGED <<baseline, starting, journals, faults>>

\* "worker capture --receipt-id", run by hand.
Restart(s) ==
    /\ Has(receipt, s)
    /\ faults < MaxFaults /\ faults' = faults + 1
    /\ Spawn(s)
    /\ UNCHANGED <<state, current>>

Resumable(r) == r.state = "processing" /\ r.lapsed
Claimable(r) ==
    \/ r.state = "queued" \/ Resumable(r)
    \/ r.state = "failed" /\ r.origin = "automatic" /\ r.retryable /\ r.used < Limit

Spent(r) == r.origin = "automatic" /\ r.used >= Limit

\* claimCaptureReceipt(), which refuses what is not claimable or spent; of a
\* success, runCaptureWorker() commits the journals that are left.
Claim(w) ==
    LET s == at[w]
        r == receipt[s]
    IN  /\ pc[w] = "claim"
        /\ \/ /\ Has(receipt, s) /\ Claimable(r) /\ ~Spent(r)
              /\ WriteReceipt(w, s, [r EXCEPT !.state = "processing", !.owner = w, !.lapsed = FALSE,
                     !.used = IF r.origin = "automatic" THEN @ + 1 ELSE @])
              /\ Go(w, "begin") /\ UNCHANGED <<journals, at>>
           \/ /\ Has(receipt, s) /\ Resumable(r) /\ Spent(r)
              /\ receipt' = [receipt EXCEPT ![s] = [r EXCEPT !.state = "retry-exhausted",
                     !.owner = None, !.lapsed = FALSE, !.retryable = FALSE]]
              /\ Leave(w) /\ current' = current \ On(s) /\ UNCHANGED journals
           \/ /\ ~(Has(receipt, s) /\ Claimable(r) /\ (Spent(r) => Resumable(r)))
              /\ Out(w) /\ UNCHANGED <<receipt, journals>>
           \/ /\ IsIn(s, {"succeeded"})
              /\ journals' = journals \ {s}
              /\ Out(w) /\ UNCHANGED receipt
        /\ UNCHANGED <<baseline, starting, faults>>

\* Faulty: the receipt is written whoever has it.
TransitionAnyway(w, to, retryable, next) ==
    LET s == at[w]
    IN  /\ Has(receipt, s)
        /\ WriteReceipt(w, s, [receipt[s] EXCEPT !.state = to, !.retryable = retryable,
                                                !.owner = None, !.lapsed = FALSE])
        /\ IF next = "idle" THEN Leave(w) ELSE Go(w, next) /\ UNCHANGED at

\* transitionCaptureReceipt(): by a worker that knows the receipt as it is.
Transition(w, to, retryable, next) ==
    LET s == at[w]
    IN  /\ w \in current
        /\ WriteReceipt(w, s, [receipt[s] EXCEPT !.state = to, !.retryable = retryable,
                                                !.owner = None, !.lapsed = FALSE])
        /\ IF next = "idle" THEN Leave(w) ELSE Go(w, next) /\ UNCHANGED at

\* "stale worker transition rejected": it ends without another write.
Rejected(w) == w \notin current /\ Out(w) /\ UNCHANGED receipt

\* processClaimed(): is there a boundary to compare with?
Begin(w) ==
    LET s        == at[w]
        boundary == \/ Has(baseline, s) /\ baseline[s].is = "complete"
                    \/ Has(receipt, s) /\ receipt[s].ref = "operator"
    IN  /\ pc[w] = "begin"
        /\ \/ /\ boundary \/ w \notin current
              /\ Go(w, "work") /\ UNCHANGED <<receipt, at, current>>
           \/ ~boundary /\ Transition(w, "blocked-missing-baseline", FALSE, "idle")
        /\ UNCHANGED <<baseline, starting, journals, faults>>

\* renewCaptureReceiptLease(), and the remote call it is for.
Renew(w) ==
    LET s == at[w]
    IN  /\ pc[w] = "work"
        /\ IF w \in current
           THEN /\ WriteReceipt(w, s, [receipt[s] EXCEPT !.lapsed = FALSE])
                /\ journals' = journals \cup {s}
                /\ UNCHANGED <<pc, at>>
           ELSE Go(w, "failed") /\ UNCHANGED <<receipt, journals, at, current>>
        /\ UNCHANGED <<baseline, starting, faults>>

\* Something goes wrong: configuration, Git evidence, the service.
Fail(w) ==
    /\ pc[w] \in {"begin", "work"}
    /\ pc' \in {[pc EXCEPT ![w] = to] : to \in {"failed", "retryable"}}
    /\ UNCHANGED <<state, at, current, faults>>

Succeed(w) ==
    /\ pc[w] = "work"
    /\ IF w \in current
       THEN Transition(w, "succeeded", FALSE, "commit")
       ELSE Go(w, "failed") /\ UNCHANGED <<receipt, at, current>>
    /\ UNCHANGED <<baseline, starting, journals, faults>>

\* Its journals are committed, until one that another worker committed is met.
Commit(w) ==
    /\ pc[w] = "commit"
    /\ journals' \in {journals \ {at[w]}, journals}
    /\ Out(w)
    /\ UNCHANGED <<baseline, starting, receipt, faults>>

\* Faulty: an operator's attempt that failed is repeated like an automatic one.
SettleAsAutomatic(w) ==
    LET r       == receipt[at[w]]
        remains == pc[w] = "retryable" /\ r.used < Limit
    IN  /\ pc[w] \in {"failed", "retryable"}
        /\ \/ Rejected(w)
           \/ remains /\ Transition(w, "failed", TRUE, "requeue")
           \/ ~remains /\ Transition(w, "retry-exhausted", FALSE, "idle")
        /\ UNCHANGED <<baseline, starting, journals, faults>>

\* An attempt failed: what becomes of the receipt, and of the worker.
Settle(w) ==
    LET r       == receipt[at[w]]
        again   == pc[w] = "retryable"
        remains == again /\ r.used < Limit
    IN  /\ pc[w] \in {"failed", "retryable"}
        /\ \/ Rejected(w)
           \/ /\ w \in current /\ r.origin = "operator"
              /\ Transition(w, "retry-exhausted", again, "idle")
           \/ /\ w \in current /\ r.origin = "automatic" /\ remains
              /\ Transition(w, "failed", TRUE, "requeue")
           \/ /\ w \in current /\ r.origin = "automatic" /\ ~remains
              /\ Transition(w, IF r.used >= Limit THEN "retry-exhausted" ELSE "failed", again, "idle")
        /\ UNCHANGED <<baseline, starting, journals, faults>>

Requeue(w) ==
    /\ pc[w] = "requeue"
    /\ Rejected(w) \/ Transition(w, "queued", TRUE, "claim")
    /\ UNCHANGED <<baseline, starting, journals, faults>>

-----------------------------------------------------------------------------
(* Clean-up, time and crashes.                                             *)

\* Faulty: the open journals are not looked at.
NeededByReceipts(kept) == kept

\* Sessions whose baseline is still needed when the receipts "kept" are.
Needed(kept) == kept \cup journals

\* pruneNotebookState()
Prune ==
    LET gone == {s \in Sessions : IsIn(s, {"succeeded"}) /\ receipt[s].old}
        kept == {s \in Sessions : Has(receipt, s)} \ gone
        past == {s \in Sessions : Has(baseline, s) /\ baseline[s].old} \ Needed(kept)
    IN  /\ IntegrityFindings = {} /\ gone \cup past # {}
        /\ receipt' = [s \in Sessions |-> IF s \in gone THEN None ELSE receipt[s]]
        /\ baseline' = [s \in Sessions |-> IF s \in past THEN None ELSE baseline[s]]
        /\ UNCHANGED <<starting, journals, workers, faults>>

\* The grace of a baseline and the retention of a success go by, a lease lapses.
Age(s) ==
    /\ \/ /\ Has(baseline, s) /\ ~baseline[s].old
          /\ baseline' = [baseline EXCEPT ![s].old = TRUE] /\ UNCHANGED receipt
       \/ /\ IsIn(s, {"succeeded"}) /\ ~receipt[s].old
          /\ receipt' = [receipt EXCEPT ![s].old = TRUE] /\ UNCHANGED baseline
    /\ UNCHANGED <<starting, journals, workers, faults>>

Lapse(s) ==
    /\ IsIn(s, {"processing"}) /\ ~receipt[s].lapsed
    /\ receipt' = [receipt EXCEPT ![s].lapsed = TRUE]
    /\ UNCHANGED <<baseline, starting, journals, workers, faults>>

\* A worker dies; one that was to be started never runs is the same.
Crash(w) ==
    /\ pc[w] # "idle" /\ faults < MaxFaults
    /\ Out(w)
    /\ faults' = faults + 1
    /\ UNCHANGED <<state>>

\* A session's start dies with its file unfilled.
CrashStart(s) ==
    /\ s \in starting /\ faults < MaxFaults
    /\ starting' = starting \ {s}
    /\ faults' = faults + 1
    /\ UNCHANGED <<baseline, receipt, journals, workers>>

-----------------------------------------------------------------------------

Worker(w) ==
    Claim(w) \/ Begin(w) \/ Renew(w) \/ Fail(w) \/ Succeed(w) \/ Commit(w) \/ Settle(w) \/ Requeue(w)

Close(s) == Deduplicated(s) \/ IntegrityRefused(s) \/ PressureRefused(s) \/ Admit(s) \/ AdmitAndDie(s)

Next ==
    \/ \E s \in Sessions : \/ StartCreate(s) \/ StartWrite(s) \/ Close(s)
                           \/ Retry(s) \/ Restart(s)
                           \/ Age(s) \/ Lapse(s) \/ CrashStart(s)
    \/ \E w \in Workers : Worker(w) \/ Crash(w)
    \/ Prune

Spec == Init /\ [][Next]_vars

\* Workers run, and finish: the documents of a session are finitely many.  The
\* operator retries whatever "capture retry" accepts.
FairSpec ==
    /\ Spec
    /\ \A w \in Workers : WF_vars(Worker(w)) /\ WF_vars(Succeed(w) \/ Fail(w))
    /\ \A s \in Sessions : WF_vars(Retry(s)) /\ WF_vars(Lapse(s))

-----------------------------------------------------------------------------
(* Properties.                                                             *)

\* A capture that succeeded stays so until its retention is over: no worker
\* that lost its lease meanwhile, and no retry, reopens it.
SuccessIsFinal ==
    [][\A s \in Sessions : IsIn(s, {"succeeded"}) =>
           \/ Has(receipt', s) /\ receipt'[s].state = "succeeded"
           \/ receipt[s].old /\ ~Has(receipt', s)]_vars

\* A retry is one attempt: an operator's receipt is not queued again but by
\* another retry, whatever its worker meets.
OneAttemptPerRetry ==
    [][\A s \in Sessions :
           Has(receipt, s) /\ receipt[s].origin = "operator" /\ receipt[s].state # "queued"
               /\ Has(receipt', s) /\ receipt'[s].state = "queued"
           => receipt'[s].manual = receipt[s].manual + 1]_vars

\* What a session left at its start is forgotten only when no receipt that
\* stays and no open journal refers to the session.
EvidenceKept ==
    [][\A s \in Sessions : Has(baseline, s) /\ ~Has(baseline', s) =>
           s \notin journals /\ (Has(receipt, s) => ~Has(receipt', s))]_vars

\* "Crashes and concurrent workers converge without abandoned receipts": every
\* receipt admitted is finished by a worker, or is where "capture retry" accepts it.
Pending(s) == IsIn(s, {"queued", "processing"})
ComesToRest == \A s \in Sessions : Pending(s) ~> ~Pending(s)
=============================================================================

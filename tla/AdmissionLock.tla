--------------------------- MODULE AdmissionLock ---------------------------
(***************************************************************************)
(* The lock under which every change of a project's notebook state is made *)
(* (acquireLock and withNotebookStateLock, src/notebook/state.ts).         *)
(*                                                                         *)
(* The lock is the file admission.lock, created with O_EXCL and then       *)
(* filled with the creator's token and an expiry time.  A process that     *)
(* finds a lock whose time has passed recovers it: it claims the right to  *)
(* by creating recovery-<token>.lock, looks again, renames the lock away   *)
(* and withdraws its claim.                                                *)
(*                                                                         *)
(* Abstractions.  A token is a fresh value, a lock file its token and what *)
(* a reader can tell of it: not yet written, live, lapsed.  The contents   *)
(* of a recovery file are never read here, so it is only there or not.     *)
(*                                                                         *)
(* The names differ from those of RemoteMutation, whose every change of a  *)
(* journal is made under this lock, so that one module can speak of both.  *)
(***************************************************************************)
EXTENDS Naturals

CONSTANTS
    Procs,       \* processes: hooks, workers, command lines
    Tokens,      \* tokens of acquireLock() calls
    NoToken,
    Slow,        \* a live owner may outlast its lease (at least 5 seconds)
    MayDie,      \* where a process may die
    MaxDeaths    \* bound on processes dying

ASSUME LockAssumption ==
    /\ NoToken \notin Tokens
    /\ Slow \in BOOLEAN
    /\ MaxDeaths \in Nat

VARIABLES
    lock,     \* admission.lock
    claims,   \* tokens whose recovery-<token>.lock exists
    place,    \* where each process stands in acquireLock() and its release
    mine,     \* its own token
    stale,    \* the token it read in the lock and found lapsed
    fallen,   \* spent budget
    died      \* auxiliary: where processes died

lockVars == <<lock, claims, place, mine, stale, fallen, died>>
deaths == <<fallen, died>>

NoFile == [token |-> NoToken, is |-> "gone"]
Files  == [token : Tokens, is : {"empty", "live", "lapsed"}]

Places == {"idle", "try", "write", "read", "claim", "verify", "take", "unclaim",
          "fail", "in", "check", "drop"}

LockTypeOK ==
    /\ lock \in Files \cup {NoFile}
    /\ claims \subseteq Tokens
    /\ place \in [Procs -> Places]
    /\ mine \in [Procs -> Tokens \cup {NoToken}]
    /\ stale \in [Procs -> Tokens \cup {NoToken}]
    /\ fallen \in 0..MaxDeaths /\ died \subseteq MayDie

LockInit ==
    /\ lock = NoFile /\ claims = {}
    /\ place = [p \in Procs |-> "idle"]
    /\ mine = [p \in Procs |-> NoToken] /\ stale = mine
    /\ fallen = 0 /\ died = {}

TokensInUse == {lock.token} \cup claims \cup {mine[p] : p \in Procs} \cup {stale[p] : p \in Procs}

GoTo(p, to) == place' = [place EXCEPT ![p] = to]

\* Out of acquireLock(), by an error or after the release.
Leave(p) ==
    /\ GoTo(p, "idle")
    /\ mine' = [mine EXCEPT ![p] = NoToken]
    /\ stale' = [stale EXCEPT ![p] = NoToken]

-----------------------------------------------------------------------------
(* acquireLock().                                                          *)

Call(p) ==
    /\ place[p] = "idle"
    /\ \E t \in Tokens \ TokensInUse : mine' = [mine EXCEPT ![p] = t]
    /\ GoTo(p, "try")
    /\ UNCHANGED <<lock, claims, stale, deaths>>

\* exclusiveWrite: the file is created empty, or is there already.
Create(p) ==
    /\ place[p] = "try"
    /\ IF lock = NoFile
       THEN lock' = [token |-> mine[p], is |-> "empty"] /\ GoTo(p, "write")
       ELSE GoTo(p, "read") /\ UNCHANGED lock
    /\ UNCHANGED <<claims, mine, stale, deaths>>

\* The rest of it: the record goes to the file opened, wherever that is by now.
Write(p) ==
    /\ place[p] = "write"
    /\ lock' = IF lock.token = mine[p] THEN [lock EXCEPT !.is = "live"] ELSE lock
    /\ GoTo(p, "in")
    /\ UNCHANGED <<claims, mine, stale, deaths>>

\* The lock cannot be read as a lock: CONFLICT, "has an integrity finding".
Unreadable(p) ==
    /\ place[p] = "read"
    /\ lock.is \in {"gone", "empty"}
    /\ Leave(p)
    /\ UNCHANGED <<lock, claims, deaths>>

\* Someone is busy with it: wait and try again, until TIMEOUT.
Busy(p) ==
    /\ \/ place[p] = "read" /\ lock.is = "live"
       \/ place[p] = "claim" /\ stale[p] \in claims
    /\ \/ /\ GoTo(p, "try")
          /\ stale' = [stale EXCEPT ![p] = NoToken] /\ UNCHANGED mine
       \/ Leave(p)
    /\ UNCHANGED <<lock, claims, deaths>>

SeeLapsed(p) ==
    /\ place[p] = "read"
    /\ lock.is = "lapsed"
    /\ stale' = [stale EXCEPT ![p] = lock.token]
    /\ GoTo(p, "claim")
    /\ UNCHANGED <<lock, claims, mine, deaths>>

\* Faulty: recovery is not serialized.
ClaimAnyway(p) ==
    /\ place[p] = "claim"
    /\ claims' = claims \cup {stale[p]}
    /\ GoTo(p, "verify")
    /\ UNCHANGED <<lock, mine, stale, deaths>>

Claim(p) ==
    /\ place[p] = "claim"
    /\ stale[p] \notin claims
    /\ claims' = claims \cup {stale[p]}
    /\ GoTo(p, "verify")
    /\ UNCHANGED <<lock, mine, stale, deaths>>

\* Faulty: what was read before the claim is taken to hold after it.
VerifyNothing(p) ==
    /\ place[p] = "verify"
    /\ GoTo(p, "take")
    /\ UNCHANGED <<lock, claims, mine, stale, deaths>>

\* Faulty: the lock is compared with the recoverer's own token.
VerifyOwn(p) ==
    /\ place[p] = "verify"
    /\ GoTo(p, IF lock.token = mine[p] /\ lock.is = "lapsed" THEN "take" ELSE "unclaim")
    /\ UNCHANGED <<lock, claims, mine, stale, deaths>>

Verify(p) ==
    /\ place[p] = "verify"
    /\ GoTo(p, IF lock.token = stale[p] /\ lock.is = "lapsed" THEN "take" ELSE "unclaim")
    /\ UNCHANGED <<lock, claims, mine, stale, deaths>>

\* The rename moves whatever is at the path; with nothing there it throws.
Take(p) ==
    /\ place[p] = "take"
    /\ lock' = NoFile
    /\ GoTo(p, IF lock = NoFile THEN "fail" ELSE "unclaim")
    /\ UNCHANGED <<claims, mine, stale, deaths>>

Unclaim(p) ==
    /\ place[p] \in {"unclaim", "fail"}
    /\ claims' = claims \ {stale[p]}
    /\ IF place[p] = "fail"
       THEN Leave(p)
       ELSE GoTo(p, "try") /\ stale' = [stale EXCEPT ![p] = NoToken] /\ UNCHANGED mine
    /\ UNCHANGED <<lock, deaths>>

-----------------------------------------------------------------------------
(* withNotebookStateLock(): the operation, and the release.                *)

Operate(p) ==
    /\ place[p] = "in"
    /\ GoTo(p, "check")
    /\ UNCHANGED <<lock, claims, mine, stale, deaths>>

Check(p) ==
    /\ place[p] = "check"
    /\ IF lock.token = mine[p]
       THEN GoTo(p, "drop") /\ UNCHANGED <<mine, stale>>
       ELSE Leave(p)
    /\ UNCHANGED <<lock, claims, deaths>>

Drop(p) ==
    /\ place[p] = "drop"
    /\ lock' = NoFile
    /\ Leave(p)
    /\ UNCHANGED <<claims, deaths>>

-----------------------------------------------------------------------------
(* Time passes and processes die.                                          *)

Owner(p) == place[p] \in {"write", "in", "check", "drop"} /\ mine[p] = lock.token

Lapse ==
    /\ lock.is = "live"
    /\ Slow \/ \A p \in Procs : ~Owner(p)
    /\ lock' = [lock EXCEPT !.is = "lapsed"]
    /\ UNCHANGED <<claims, place, mine, stale, deaths>>

Die(p) ==
    /\ place[p] \in MayDie
    /\ fallen < MaxDeaths /\ fallen' = fallen + 1
    /\ died' = died \cup {place[p]}
    /\ Leave(p)
    /\ UNCHANGED <<lock, claims>>

LockStep(p) ==
    \/ Call(p) \/ Create(p) \/ Write(p)
    \/ Unreadable(p) \/ Busy(p) \/ SeeLapsed(p)
    \/ Claim(p) \/ Verify(p) \/ Take(p) \/ Unclaim(p)
    \/ Operate(p) \/ Check(p) \/ Drop(p)

LockNext == Lapse \/ \E p \in Procs : LockStep(p) \/ Die(p)

LockSpec == LockInit /\ [][LockNext]_lockVars

\* Time passes, processes run, and sessions keep ending.
LockFairSpec == LockSpec /\ WF_lockVars(Lapse) /\ \A p \in Procs : WF_lockVars(LockStep(p))

-----------------------------------------------------------------------------
(* What should be true of it.                                              *)

\* No two processes change the state at a time, provided that no operation outlasts
\* its lease (Slow = FALSE): whoever enters finds nobody inside.
Inside == {p \in Procs : place[p] = "in"}
Abstract == INSTANCE Mutex WITH inside <- Inside
ImplementsMutex == Abstract!Spec

\* "Contenders never remove a lock whose token differs from the one they proved
\* stale": what is renamed away is what the claim was for.
OnlyStaleRemoved ==
    [][\A p \in Procs : place[p] = "take" /\ place'[p] = "unclaim" => lock.token = stale[p]]_lockVars

\* "A crashed owner can no longer leave admission permanently blocked": no lock file
\* stays for ever.
CrashNeverBlocks ==
    \A t \in Tokens : (lock.token = t) ~> (lock.token # t)

\* That much is true: a lock stays for ever only if a process died before its lock was
\* written, or holding a recovery claim with the lock not yet renamed away.
Blocking == {"write", "verify", "take"}
OwnerRecovered ==
    \A t \in Tokens : (lock.token = t) ~> (lock.token # t \/ died \cap Blocking # {})
=============================================================================

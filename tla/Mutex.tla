------------------------------- MODULE Mutex -------------------------------
(***************************************************************************)
(* What the notebook's state operations take withNotebookStateLock() for:  *)
(* at most one process at a time is inside, and a process leaves, by       *)
(* finishing or by dying, before the next one enters.                      *)
(***************************************************************************)
CONSTANT Procs
VARIABLE inside

Init == inside = {}

Enter(p) == inside = {} /\ inside' = {p}
Leave(p) == inside = {p} /\ inside' = {}

Next == \E p \in Procs : Enter(p) \/ Leave(p)

Spec == Init /\ [][Next]_inside
=============================================================================

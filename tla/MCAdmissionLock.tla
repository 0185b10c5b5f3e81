-------------------------- MODULE MCAdmissionLock --------------------------
(* Small instances of the notebook's admission lock for TLC. *)
EXTENDS AdmissionLock, TLC

CONSTANTS a, b, c, t1, t2, t3, t4

Anywhere == Places \ {"idle"}
=============================================================================

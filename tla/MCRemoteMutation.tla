-------------------------- MODULE MCRemoteMutation --------------------------
(* Small instances of the remote mutation journal for TLC, and the registry stores'
   promises (MCRegistryStores), which its run evaluates. *)
EXTENDS RemoteMutation, TLC, MCRegistryStores

CONSTANTS a, b, n1, n2, n3, n4, n5, old, new

Anywhere == Steps \ {"idle"}
AnyFault == {"no connection", "lost request", "lost refusal", "deletion"}

MutationSymmetry == Permutations(Workers) \cup Permutations(Ids) \cup Permutations(Inputs)
=============================================================================

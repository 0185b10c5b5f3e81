-------------------------- MODULE MCManifestIndex --------------------------
(* Instances of ManifestIndex for TLC. *)
EXTENDS ManifestIndex, TLC

CONSTANTS v1, v2, here, there, c1, c2

\* No field has a default, or each one has (as status, name, agents do).
NoDefaults == [f \in Fields |-> NoVal]
Defaulted  == [f \in Fields |-> v1]

\* Only live, current-spelling manifests to begin with (merging).
PlainInit == /\ Init
             /\ \A x \in Paths : file[x] \in Manifests /\ ~file[x].legacy
PlainSpec == PlainInit /\ [][Next]_vars
PlainFairSpec == PlainInit /\ FairSpec

PathSymmetry == Permutations({here, there})
MergeSymmetry == Permutations({v1, v2}) \cup Permutations({c1, c2})
=============================================================================

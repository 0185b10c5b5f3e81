------------------------------ MODULE MCRename ------------------------------
(* Small instances of Rename. *)
EXTENDS Rename

CONSTANTS k_old, k_new, k_towe, p1, p2

MCKeys == {k_old, k_new, k_towe}
MCGuesses == {k_towe}
MCCommands == {<<k_old, k_new>>, <<k_new, k_new>>}
MCProcs == {p1, p2}
MCHandKeys == {k_towe}
MCOthers == {}
MCTaken == {}
=============================================================================

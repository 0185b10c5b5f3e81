----------------------------- MODULE MCBmadUpdate -----------------------------
EXTENDS BmadUpdate, TLC

CONSTANTS fa, fk, fs, fb, fo, here, there, away, u1, u2, u3

MCSymmetry == Permutations(Updates)
===============================================================================

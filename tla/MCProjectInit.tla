--------------------------- MODULE MCProjectInit ---------------------------
EXTENDS ProjectInit, MCCopierPreflight, MCSkillInstall

CONSTANTS b1, b2, other, none, n0, n1, nothing

MCBoards == {b1, b2}
MCNotes == {n0, n1}
MCRequests == Request
=============================================================================

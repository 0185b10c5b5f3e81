SPECIFICATION FairSpec
CONSTANTS
    b1 = b1
    b2 = b2
    other = other
    none = none
    n0 = n0
    n1 = n1
    nothing = nothing
    Boards <- MCBoards
    Other = other
    NoBoard = none
    Notes <- MCNotes
    Blank = n0
    Nothing = nothing
    Requests <- MCRequests
    MaxAgain = 1
    MaxEdits = 1
    MaxFaults = 2
INVARIANTS
    OkMeansInited
PROPERTIES
    KeepsEvidence
    Converges
CHECK_DEADLOCK FALSE

SPECIFICATION Spec
CONSTANTS
    Ids = {1, 2}
    Paths = {here, there}
    Fields = {}
    Keys = {}
    here = here
    there = there
    c1 = c1
    c2 = c2
    v1 = v1
    v2 = v2
    Vals = {v1}
    NoVal = NoVal
    Default <- NoDefaults
    Clients = {c1}
    Nobody = Nobody
    MaxEdits = 2
    MaxAsks = 2
    MaxFaults = 0
INVARIANTS
    IndexIsInjective
    AnswerIsCurrent
PROPERTIES
    MovesOnlyWhenGone
SYMMETRY PathSymmetry
CHECK_DEADLOCK FALSE

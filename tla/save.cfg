SPECIFICATION PlainFairSpec
CONSTANTS
    Ids = {1}
    Paths = {here}
    Fields = {f}
    Keys = {k}
    here = here  there = there  c1 = c1  c2 = c2  v1 = v1  v2 = v2
    Vals = {v1, v2}
    NoVal = NoVal
    Default <- NoDefaults
    Clients = {c1}
    Nobody = Nobody
    MaxEdits = 1
    MaxAsks = 2
    MaxFaults = 1
PROPERTIES
    NoLostUpdate StaleIsReported Settles
CHECK_DEADLOCK FALSE

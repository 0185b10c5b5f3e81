\* Two workers on one note; requests, refusals and copies are lost.
SPECIFICATION MutationSpec
CONSTANTS
    a = a  b = b  n1 = n1  n2 = n2  n3 = n3  n4 = n4  n5 = n5  old = old  new = new
    Workers = {a, b}
    Kind = "note.create"
    Inputs = {old, new}
    Ids = {n1, n2, n3, n4, n5}
    Nil = Nil
    Faults <- AnyFault
    CrashAt <- Anywhere
    MaxCrashes = 2
SYMMETRY MutationSymmetry
INVARIANT OneCopy
PROPERTIES NeverRearmedInDoubt ClosedByOwner

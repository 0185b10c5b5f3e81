CONSTANTS
  None = None
  pa = pa
  pb = pb
  pt = pt
  b1 = b1
  b2 = b2
  b3 = b3
  w1 = w1
  w2 = w2
  k1 = k1
  k2 = k2
  Slugs = {pa, pb, pt}
  Listed <- MCListed
  Sorted <- MCSorted
  Plane = {b1, b2}
  Trello = {b3}
  TypeOf <- MCTypeOf
  Workspaces = {w1, w2}
  DefaultWs = w1
  Home <- MCHome
  Named <- MCNamed
  Agent <- MCAgent
  Keys = {k1, k2}
  Commands = {m1, m2}
  Linkers = {m2}
  Scopes <- MCScopes
  Records <- MCRecords
  Edits <- MCEdits
  InitialKey <- MCInitialKey
  MaxEdits = 1
  MaxChanges = 1
  MaxFaults = 1
SPECIFICATION Spec
PROPERTIES Settles LinkKept
INVARIANTS PointerKept RepairIsSound

CONSTANTS
  fa = fa
  fk = fk
  fs = fs
  fb = fb
  fo = fo
  here = here
  there = there
  away = away
  u1 = u1
  u2 = u2
  u3 = u3
  Surface = {fa, fk}
  Kept = {fk}
  Scripts = {fa}
  Owned = {fb}
  Outside = {fo}
  From = here
  To = there
  Away = away
  Updates = {u1}
  MaxRuns = 1
  MaxEdits = 1
  MaxFaults = 1
SPECIFICATION Spec
INVARIANTS
  Restored
PROPERTIES
  NothingLost
  LockFreed

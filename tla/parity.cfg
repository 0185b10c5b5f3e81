SPECIFICATION ParitySpec
CONSTANTS
  Deviations <- MCDeviations
  InParity <- MCInParity
  MaxWrong = 2
  MaxFailures = 2
INVARIANTS Settles Honest
PROPERTIES HandsKept NothingUndone
CHECK_DEADLOCK FALSE

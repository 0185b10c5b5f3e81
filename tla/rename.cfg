CONSTANTS
  k_old = k_old
  k_new = k_new
  k_towe = k_towe
  p1 = p1
  p2 = p2
  Keys <- MCKeys
  NoKey = NoKey
  First = k_old
  Guesses <- MCGuesses
  HandKeys <- MCHandKeys
  Others <- MCOthers
  Taken <- MCTaken
  Commands <- MCCommands
  Procs <- MCProcs
  Idle = Idle
  MaxRuns = 2
  MaxFaults = 2
  MaxHand = 1
SPECIFICATION Spec
INVARIANTS NeverAhead OkMeansRenamed Resumable
PROPERTIES Converges
CHECK_DEADLOCK FALSE

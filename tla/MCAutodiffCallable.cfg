CONSTANTS
  Programs <- MCCallablePrograms
  Lanes = {l1, l2}
  StrictUntracked = FALSE
  NaN = NaN
SPECIFICATION CSpec
INVARIANTS
  CallerReadsCalleeGradients
CHECK_DEADLOCK FALSE

CONSTANTS
  Programs <- MCPrograms
  Lanes = {l1, l2}
  StrictUntracked = FALSE
  NaN = NaN
SPECIFICATION Spec
PROPERTY
  ScopeRefinement
CHECK_DEADLOCK FALSE

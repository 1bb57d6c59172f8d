CONSTANTS
  Programs <- TestPrograms
  Lanes = {l1}
  StrictUntracked = TRUE
  NaN = NaN
SPECIFICATION Spec
INVARIANT ScopeBodiesLegal
CHECK_DEADLOCK FALSE

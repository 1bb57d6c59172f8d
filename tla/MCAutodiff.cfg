CONSTANTS
  Programs <- MCPrograms
  Lanes = {l1, l2}
  StrictUntracked = FALSE
  NaN = NaN
SYMMETRY MCLaneSymmetry
SPECIFICATION Spec
INVARIANTS
  TypeOK
  GradientsAsAsserted
CHECK_DEADLOCK FALSE

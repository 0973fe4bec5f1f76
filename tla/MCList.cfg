SPECIFICATION Spec
CONSTANTS
  NULL = NULL
  Data = {d1, d2, d3, d4}
  UINT_MAX = 15
  Amounts = {0, 1, 3, 4}
  MaxSize = 4
  PopsEmpty = FALSE
  PopsTail = FALSE
SYMMETRY PointerSymmetry
INVARIANTS
  TypeOK
  RingsOK
  BackwardsIsReverse
PROPERTIES
  RefinesListSpec

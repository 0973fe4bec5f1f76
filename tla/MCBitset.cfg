SPECIFICATION Spec
CONSTANTS
  W = 4
  SIZE_MAX = 15
  Sizes = {0, 1, 3, 4, 5, 9}
  NULL = NULL
INVARIANTS
  TypeOK
PROPERTIES
  RefinesBitsetSpec

SPECIFICATION Spec
CONSTANTS
  Keys = {1, 2, 3, 4, 5, 6}
  Capacities = {2, 3, 6}
  MaxNodes = 6
  MaxAdds = 6
  MaxRemoves = 1
  Removes = "kept"
  AllocFails = TRUE
  NULL = NULL
INVARIANTS
  TypeOK
  Balanced
  SearchOrder
  IteratesInOrder
  RemoveKeepsOthers
CHECK_DEADLOCK FALSE

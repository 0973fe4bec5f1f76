SPECIFICATION Spec
CONSTANTS
  NULL = NULL
  UINT_MAX = 15
  foo = foo
  bar = bar
  c1 = c1
  c2 = c2
  c3 = c3
  Names = {foo, bar}
  Callbacks = {c1, c2, c3}
  Uses <- TwoNames
  MayRun = {"call", "remove_other", "add"}
  Removals = TRUE
  MaxCalls = 1
  MaxDepth = 2
  MaxSize = 4
INVARIANTS
  TypeOK
  BucketsInOrder
  CallsEachOnce
PROPERTIES
  CallsReturn

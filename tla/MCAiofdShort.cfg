SPECIFICATION Spec
CONSTANTS
  empty = empty
  one = one
  two = two
  three = three
  Buffers = {one, three}
  Size <- Pair
  SIZE_MAX = 7
  ShortWrites = TRUE
  MaxDepth = 2
  MaxSent = 6
INVARIANTS
  WrittenWhole

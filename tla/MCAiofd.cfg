SPECIFICATION Spec
CONSTANTS
  empty = empty
  one = one
  two = two
  three = three
  Buffers = {empty, one, two, three}
  Size <- Sizes
  SIZE_MAX = 7
  ShortWrites = FALSE
  MaxDepth = 3
  MaxSent = 6
INVARIANTS
  TypeOK
  AllOrNothing
  QueueInOrder
PROPERTIES
  EveryBufferReported

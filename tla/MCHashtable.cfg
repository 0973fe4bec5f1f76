SPECIFICATION Spec
CONSTANTS
  one = one
  uno = uno
  two = two
  three = three
  four = four
  five = five
  NULL = NULL
  Data = {one, uno, two, three, four, five}
  Key <- Keys
  Hash <- Hashes
  PRIMES <- Sizes
  LIMIT = 1
  Initials = {0, 2}
  MayFail = {"lists", "push"}
INVARIANTS
  TypeOK
  FindsEveryItem
  LoadBounded
  WalksMeetAll
PROPERTIES
  RefinesHashSpec

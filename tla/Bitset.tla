------------------------------- MODULE Bitset -------------------------------
(***************************************************************************)
(* The bit set of src/bitset.c, word by word.  A uint32_t is the set of    *)
(* its bits that are 1 and bits is the array that CALLOC gave, or NULL.    *)
(*                                                                         *)
(* DWORDS_NEEDED and DWORD_INDEX round to a multiple of the word width     *)
(* where one would expect a division by it, so most words are never used;  *)
(* what matters is that the two agree.                                     *)
(***************************************************************************)
EXTENDS Integers

CONSTANTS W,           \* bits of a word: 32 in the code
          SIZE_MAX,    \* the largest size_t
          Sizes,       \* the sizes that callers ask for
          NULL

ASSUME WidthAssumption == W \in Nat \ {0} /\ SIZE_MAX \in Nat

(* The rounding of DWORDS_NEEDED wraps for the last W - 1 sizes, for which *)
(* CALLOC gives an array of no words.  No machine has room for those.      *)
ASSUME SizesAssumption == Sizes \subseteq 0 .. SIZE_MAX - (W - 1)

ASSUME NullAssumption == \A n \in 0 .. SIZE_MAX : NULL \notin [0 .. n - 1 -> SUBSET (0 .. W - 1)]

VARIABLES num_bits,    \* of the bitset_t
          bits,        \* of the bitset_t
          ret          \* the answer of the last call

vars == <<num_bits, bits, ret>>

(* Clearing the bits of 0x1f rounds down to a multiple of the word width. *)
RoundDown(x) == x - (x % W)

(* Mutant of DWORDS_NEEDED: rounds down. *)
DWORDS_NEEDED_Down(x) == RoundDown(x)

DWORDS_NEEDED(x) == RoundDown((x + W - 1) % (SIZE_MAX + 1))

DWORD_INDEX(x) == RoundDown(x)

(* Mutant of BIT: the bits of a word are numbered from 1. *)
BIT_FromOne(x) == {((x % W) + 1) % (W + 1)}

BIT(x) == {x % W}

(* A bitset_t before it is initialized, zeroed, as bset_new makes it and   *)
(* bset_deinitialize leaves it.                                            *)
Init == num_bits = 0 /\ bits = NULL /\ ret = FALSE

-----------------------------------------------------------------------------
(* bset_initialize.  Nothing is allocated for a size of 0, and a failure   *)
(* leaves num_bits as it was.                                              *)
bset_initialize(n, alloc) ==
  /\ num_bits = 0
  /\ IF n > 0 /\ ~alloc
       THEN bits' = NULL /\ ret' = FALSE /\ UNCHANGED num_bits
       ELSE /\ bits' = IF n > 0 THEN [i \in 0 .. DWORDS_NEEDED(n) - 1 |-> {}] ELSE NULL
            /\ num_bits' = n
            /\ ret' = TRUE

(* bset_new is bset_initialize on a new bitset_t, of which there is none   *)
(* for a size of 0; its answer is whether it is not NULL.                  *)
bset_new(n, alloc) ==
  \/ n > 0 /\ bset_initialize(n, alloc)
  \/ n = 0 /\ num_bits = 0 /\ ret' = FALSE /\ UNCHANGED <<num_bits, bits>>

(* bset_deinitialize, and bset_delete, which calls it. *)
bset_deinitialize ==
  IF num_bits > 0 /\ bits # NULL
    THEN num_bits' = 0 /\ bits' = NULL /\ ret' = TRUE
    ELSE ret' = FALSE /\ UNCHANGED <<num_bits, bits>>

(* The three operations on one bit refuse a bit that is out of range. *)
InRange(bit) == bit < num_bits

bset_set(bit) ==
  /\ IF InRange(bit)
       THEN bits' = [bits EXCEPT ![DWORD_INDEX(bit)] = @ \cup BIT(bit)] /\ ret' = TRUE
       ELSE ret' = FALSE /\ UNCHANGED bits
  /\ UNCHANGED num_bits

bset_clear(bit) ==
  /\ IF InRange(bit)
       THEN bits' = [bits EXCEPT ![DWORD_INDEX(bit)] = @ \ BIT(bit)] /\ ret' = TRUE
       ELSE ret' = FALSE /\ UNCHANGED bits
  /\ UNCHANGED num_bits

Holds(bit) == bits[DWORD_INDEX(bit)] \cap BIT(bit) # {}

bset_test(bit) ==
  /\ ret' = (InRange(bit) /\ Holds(bit))
  /\ UNCHANGED <<num_bits, bits>>

(* bset_clear_all and bset_set_all write every word. *)
WriteAll(word) ==
  /\ IF num_bits > 0 /\ bits # NULL
       THEN /\ bits' = [i \in DOMAIN bits |-> IF i < DWORDS_NEEDED(num_bits) THEN word ELSE bits[i]]
            /\ ret' = TRUE
       ELSE ret' = FALSE /\ UNCHANGED bits
  /\ UNCHANGED num_bits

bset_clear_all == WriteAll({})

(* Mutant of bset_set_all: the last bit of a word stays clear. *)
bset_set_all_Short == WriteAll(0 .. W - 2)

bset_set_all == WriteAll(0 .. W - 1)

Next ==
  \/ \E n \in Sizes, alloc \in BOOLEAN : bset_initialize(n, alloc) \/ bset_new(n, alloc)
  \/ bset_deinitialize
  \/ \E bit \in 0 .. SIZE_MAX : bset_set(bit) \/ bset_clear(bit) \/ bset_test(bit)
  \/ bset_clear_all
  \/ bset_set_all

Spec == Init /\ [][Next]_vars

-----------------------------------------------------------------------------
(* A bitset_t has a size and an array of words, or neither. *)
TypeOK ==
  /\ num_bits \in Sizes \cup {0}
  /\ ret \in BOOLEAN
  /\ IF num_bits = 0 THEN bits = NULL
     ELSE bits \in [0 .. DWORDS_NEEDED(num_bits) - 1 -> SUBSET (0 .. W - 1)]

(* The bitset_t behaves as a set of numbers below its size, whatever mix   *)
(* of calls on single bits and on all of them is made.                     *)
Members == {b \in 0 .. num_bits - 1 : Holds(b)}

BS == INSTANCE BitsetSpec WITH size <- num_bits, members <- Members
RefinesBitsetSpec == BS!Spec
=============================================================================

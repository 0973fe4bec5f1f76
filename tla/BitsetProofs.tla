---------------------------- MODULE BitsetProofs ----------------------------
(***************************************************************************)
(* The bit set is a set of numbers, for every width of a word and every    *)
(* size: Bitset implements BitsetSpec.                                     *)
(*                                                                         *)
(* The argument: DWORDS_NEEDED rounds up where DWORD_INDEX rounds down, so *)
(* every bit below the size has its word in the array (WordInArray), and   *)
(* no two bits have the same word and the same bit of it (PlacesApart).    *)
(* Writing one place then changes one member (SetMembers, ClearMembers),   *)
(* and writing all words all of them.                                      *)
(***************************************************************************)
EXTENDS Bitset, TLAPS

USE WidthAssumption

Words(n) == [0 .. DWORDS_NEEDED(n) - 1 -> SUBSET (0 .. W - 1)]

LEMMA BitOfWord == ASSUME NEW x \in Nat PROVE x % W \in 0 .. W - 1 /\ x % W <= x
<1>1. x % W \in 0 .. W - 1
  OBVIOUS
<1>2. x % W <= x
  <2>1. CASE x < W
    BY <2>1
  <2> QED
    BY <1>1, <2>1
<1> QED
  BY <1>1, <1>2

LEMMA SmallModulus == ASSUME NEW m \in Nat \ {0}, NEW a \in 0 .. m - 1 PROVE a % m = a
OBVIOUS

(* The rounding of DWORDS_NEEDED does not wrap for the sizes asked for. *)
LEMMA WordsNeeded ==
  ASSUME NEW n \in Sizes
  PROVE  n \in Nat /\ DWORDS_NEEDED(n) \in n .. SIZE_MAX
<1>1. n \in Nat /\ n + W - 1 \in 0 .. (SIZE_MAX + 1) - 1
  BY SizesAssumption
<1>2. (n + W - 1) % (SIZE_MAX + 1) = n + W - 1
  BY <1>1, SmallModulus
<1>3. (n + W - 1) % W \in 0 .. W - 1
  BY <1>1, BitOfWord
<1> QED
  BY <1>1, <1>2, <1>3 DEF DWORDS_NEEDED, RoundDown

LEMMA WordInArray ==
  ASSUME NEW n \in Sizes, NEW bit \in 0 .. n - 1
  PROVE  DWORD_INDEX(bit) \in 0 .. DWORDS_NEEDED(n) - 1
BY WordsNeeded, BitOfWord DEF DWORD_INDEX, RoundDown

LEMMA PlacesApart ==
  ASSUME NEW a \in Nat, NEW b \in Nat, DWORD_INDEX(a) = DWORD_INDEX(b), a % W = b % W
  PROVE  a = b
BY BitOfWord DEF DWORD_INDEX, RoundDown

LEMMA BitInWord == ASSUME NEW x \in Nat PROVE BIT(x) \subseteq 0 .. W - 1
<1>1. x % W \in 0 .. W - 1
  BY BitOfWord
<1> QED
  BY <1>1, Zenon DEF BIT

LEMMA ArrayIsNotNull == ASSUME NEW n \in Sizes, NEW w \in Words(n) PROVE w # NULL
BY WordsNeeded, NullAssumption DEF Words
-----------------------------------------------------------------------------
(* The three that change words change them within the array. *)
LEMMA TypeInductive == TypeOK /\ [Next]_vars => TypeOK'
<1> SUFFICES ASSUME TypeOK, [Next]_vars PROVE TypeOK'
  OBVIOUS
<1> USE DEF TypeOK
<1>0. num_bits \in Nat /\ \A n \in Sizes : n \in Nat /\ DWORDS_NEEDED(n) \in Nat
  BY WordsNeeded
<1>1. ASSUME NEW n \in Sizes, NEW alloc \in BOOLEAN, bset_initialize(n, alloc)
      PROVE  TypeOK'
  <2>1. CASE n > 0 /\ ~alloc
    BY <1>1, <2>1 DEF bset_initialize
  <2>2. CASE n = 0
    BY <1>1, <2>2 DEF bset_initialize
  <2>3. CASE n > 0 /\ alloc
    <3>1. bits' = [i \in 0 .. DWORDS_NEEDED(n) - 1 |-> {}] /\ num_bits' = n /\ ret' = TRUE
      BY <1>1, <2>3 DEF bset_initialize
    <3>2. bits' \in [0 .. DWORDS_NEEDED(n) - 1 -> SUBSET (0 .. W - 1)]
      BY <3>1
    <3> QED
      BY <3>1, <3>2, <2>3
  <2> QED
    BY <1>0, <2>1, <2>2, <2>3
<1>2. ASSUME NEW n \in Sizes, NEW alloc \in BOOLEAN, bset_new(n, alloc)
      PROVE  TypeOK'
  BY <1>0, <1>1, <1>2 DEF bset_new
<1>3. CASE bset_deinitialize
  BY <1>3 DEF bset_deinitialize
<1>4. ASSUME NEW bit \in 0 .. SIZE_MAX, bset_set(bit) PROVE TypeOK'
  <2>1. CASE InRange(bit)
    <3>1. /\ bits' = [bits EXCEPT ![DWORD_INDEX(bit)] = @ \cup BIT(bit)]
          /\ ret' = TRUE /\ num_bits' = num_bits
      BY <1>4, <2>1 DEF bset_set
    <3>2. num_bits # 0
      BY <1>0, <2>1 DEF InRange
    <3>w. BIT(bit) \subseteq 0 .. W - 1
      BY BitInWord
    <3>3. bits' \in [0 .. DWORDS_NEEDED(num_bits) - 1 -> SUBSET (0 .. W - 1)]
      BY <3>1, <3>2, <3>w
    <3> QED
      BY <3>1, <3>2, <3>3
  <2>2. CASE ~InRange(bit)
    BY <1>4, <2>2 DEF bset_set
  <2> QED
    BY <2>1, <2>2
<1>5. ASSUME NEW bit \in 0 .. SIZE_MAX, bset_clear(bit) PROVE TypeOK'
  <2>1. CASE InRange(bit)
    <3>1. /\ bits' = [bits EXCEPT ![DWORD_INDEX(bit)] = @ \ BIT(bit)]
          /\ ret' = TRUE /\ num_bits' = num_bits
      BY <1>5, <2>1 DEF bset_clear
    <3>2. num_bits # 0
      BY <1>0, <2>1 DEF InRange
    <3>w. BIT(bit) \subseteq 0 .. W - 1
      BY BitInWord
    <3>3. bits' \in [0 .. DWORDS_NEEDED(num_bits) - 1 -> SUBSET (0 .. W - 1)]
      BY <3>1, <3>2, <3>w
    <3> QED
      BY <3>1, <3>2, <3>3
  <2>2. CASE ~InRange(bit)
    BY <1>5, <2>2 DEF bset_clear
  <2> QED
    BY <2>1, <2>2
<1>6. ASSUME NEW bit \in 0 .. SIZE_MAX, bset_test(bit) PROVE TypeOK'
  BY <1>6 DEF bset_test
<1>7. ASSUME NEW word \in SUBSET (0 .. W - 1), WriteAll(word) PROVE TypeOK'
  BY <1>0, <1>7 DEF WriteAll
<1>8. CASE bset_clear_all
  BY <1>7, <1>8 DEF bset_clear_all
<1>9. CASE bset_set_all
  BY <1>7, <1>9 DEF bset_set_all
<1>10. CASE UNCHANGED vars
  BY <1>10 DEF vars
<1> QED
  BY <1>1, <1>2, <1>3, <1>4, <1>5, <1>6, <1>8, <1>9, <1>10 DEF Next

(* A bitset_t has a size and an array of that many words, or neither, for  *)
(* every word width and every size that does not wrap.                     *)
THEOREM TypeCorrect == Spec => []TypeOK
<1>1. Init => TypeOK
  BY DEF Init, TypeOK
<1> QED
  BY <1>1, TypeInductive, PTL DEF Spec

-----------------------------------------------------------------------------
(* What a call does to the words, as it is seen by the members. *)
LEMMA SetMembers ==
  ASSUME TypeOK, NEW bit \in 0 .. num_bits - 1,
         bits' = [bits EXCEPT ![DWORD_INDEX(bit)] = @ \cup BIT(bit)], num_bits' = num_bits
  PROVE  Members' = Members \cup {bit}
<1>0. num_bits \in Sizes /\ num_bits \in Nat
      /\ bits \in [0 .. DWORDS_NEEDED(num_bits) - 1 -> SUBSET (0 .. W - 1)]
  BY WordsNeeded DEF TypeOK
<1>1. ASSUME NEW b \in 0 .. num_bits - 1 PROVE Holds(b)' <=> Holds(b) \/ b = bit
  <2>1. DWORD_INDEX(b) \in DOMAIN bits
    BY <1>0, WordInArray
  <2>2. CASE DWORD_INDEX(b) # DWORD_INDEX(bit)
    <3>1. bits'[DWORD_INDEX(b)] = bits[DWORD_INDEX(b)]
      BY <2>1, <2>2, Zenon
    <3> QED
      BY <2>2, <3>1, Zenon DEF Holds
  <2>3. CASE DWORD_INDEX(b) = DWORD_INDEX(bit)
    <3>1. bits'[DWORD_INDEX(b)] = bits[DWORD_INDEX(b)] \cup {bit % W}
      BY <2>1, <2>3, Zenon DEF BIT
    <3>2. b % W = bit % W => b = bit
      BY <1>0, <2>3, PlacesApart
    <3> QED
      BY <3>1, <3>2, Zenon DEF Holds, BIT
  <2> QED
    BY <2>2, <2>3
<1> QED
  BY <1>1, Zenon DEF Members

LEMMA ClearMembers ==
  ASSUME TypeOK, NEW bit \in 0 .. num_bits - 1,
         bits' = [bits EXCEPT ![DWORD_INDEX(bit)] = @ \ BIT(bit)], num_bits' = num_bits
  PROVE  Members' = Members \ {bit}
<1>0. num_bits \in Sizes /\ num_bits \in Nat
      /\ bits \in [0 .. DWORDS_NEEDED(num_bits) - 1 -> SUBSET (0 .. W - 1)]
  BY WordsNeeded DEF TypeOK
<1>1. ASSUME NEW b \in 0 .. num_bits - 1 PROVE Holds(b)' <=> Holds(b) /\ b # bit
  <2>1. DWORD_INDEX(b) \in DOMAIN bits
    BY <1>0, WordInArray
  <2>2. CASE DWORD_INDEX(b) # DWORD_INDEX(bit)
    <3>1. bits'[DWORD_INDEX(b)] = bits[DWORD_INDEX(b)]
      BY <2>1, <2>2, Zenon
    <3> QED
      BY <2>2, <3>1, Zenon DEF Holds
  <2>3. CASE DWORD_INDEX(b) = DWORD_INDEX(bit)
    <3>1. bits'[DWORD_INDEX(b)] = bits[DWORD_INDEX(b)] \ {bit % W}
      BY <2>1, <2>3, Zenon DEF BIT
    <3>2. b % W = bit % W => b = bit
      BY <1>0, <2>3, PlacesApart
    <3> QED
      BY <3>1, <3>2, Zenon DEF Holds, BIT
  <2> QED
    BY <2>2, <2>3
<1> QED
  BY <1>1, Zenon DEF Members

LEMMA WriteAllMembers ==
  ASSUME TypeOK, num_bits # 0, NEW word \in SUBSET (0 .. W - 1),
         bits' = [i \in DOMAIN bits |-> IF i < DWORDS_NEEDED(num_bits) THEN word ELSE bits[i]],
         num_bits' = num_bits
  PROVE  /\ word = {} => Members' = {}
         /\ word = 0 .. W - 1 => Members' = 0 .. num_bits - 1
<1>0. num_bits \in Sizes /\ num_bits \in Nat /\ DWORDS_NEEDED(num_bits) \in Nat
      /\ bits \in [0 .. DWORDS_NEEDED(num_bits) - 1 -> SUBSET (0 .. W - 1)]
  BY WordsNeeded DEF TypeOK
<1>1. ASSUME NEW b \in 0 .. num_bits - 1
      PROVE  bits'[DWORD_INDEX(b)] = word /\ b % W \in 0 .. W - 1
  <2>1. DWORD_INDEX(b) \in 0 .. DWORDS_NEEDED(num_bits) - 1
    BY <1>0, WordInArray
  <2>2. DWORD_INDEX(b) \in DOMAIN bits /\ DWORD_INDEX(b) < DWORDS_NEEDED(num_bits)
    BY <1>0, <2>1
  <2>3. b \in Nat
    BY <1>0
  <2>4. b % W \in 0 .. W - 1
    BY <2>3, BitOfWord
  <2> QED
    BY <2>2, <2>4, Zenon
<1>2. ASSUME NEW b \in 0 .. num_bits - 1 PROVE Holds(b)' <=> b % W \in word
  BY <1>1, Zenon DEF Holds, BIT
<1> QED
  BY <1>1, <1>2, Zenon DEF Members

(* Every step of the bitset_t is a step of the set or leaves it alone. *)
LEMMA StepRefines ==
  ASSUME TypeOK, TypeOK', [Next]_vars
  PROVE  [BS!Next]_<<num_bits, Members, ret>>
<1>0. num_bits \in Nat /\ (num_bits > 0 => num_bits \in Sizes /\ bits # NULL)
  BY WordsNeeded, ArrayIsNotNull DEF TypeOK, Words
<1>s. ASSUME UNCHANGED <<num_bits, bits>> PROVE Members' = Members
  BY <1>s, Zenon DEF Members, Holds
<1>z. num_bits = 0 => Members = {}
  BY DEF Members
<1>r. ASSUME ret' = FALSE, UNCHANGED <<num_bits, bits>> PROVE BS!Next
  BY <1>r, <1>s DEF BS!Next, BS!Refused
<1>1. ASSUME NEW n \in Sizes, NEW alloc \in BOOLEAN, bset_initialize(n, alloc)
      PROVE  BS!Next
  <2>1. CASE n > 0 /\ ~alloc
    BY <1>1, <1>r, <2>1 DEF bset_initialize, TypeOK
  <2>2. CASE ~(n > 0 /\ ~alloc)
    <3>1. num_bits = 0 /\ num_bits' = n /\ ret' = TRUE
          /\ bits' = IF n > 0 THEN [i \in 0 .. DWORDS_NEEDED(n) - 1 |-> {}] ELSE NULL
      BY <1>1, <2>2 DEF bset_initialize
    <3>2. ASSUME NEW b \in 0 .. n - 1 PROVE ~Holds(b)'
      <4>1. n > 0 /\ DWORD_INDEX(b) \in 0 .. DWORDS_NEEDED(n) - 1
        BY WordsNeeded, WordInArray
      <4> QED
        BY <3>1, <4>1, Zenon DEF Holds
    <3>3. Members' = {}
      BY <3>1, <3>2, Zenon DEF Members
    <3>4. BS!Make(n)
      BY <3>1, <3>3, Zenon DEF BS!Make
    <3> QED
      BY <3>4, Zenon DEF BS!Next
  <2> QED
    BY <2>1, <2>2
<1>2. ASSUME NEW n \in Sizes, NEW alloc \in BOOLEAN, bset_new(n, alloc)
      PROVE  BS!Next
  BY <1>1, <1>2, <1>r DEF bset_new
<1>3. CASE bset_deinitialize
  <2>1. CASE num_bits > 0 /\ bits # NULL
    <3>1. num_bits' = 0 /\ ret' = TRUE /\ Members' = {}
      BY <1>3, <2>1 DEF bset_deinitialize, Members
    <3> QED
      BY <2>1, <3>1 DEF BS!Next, BS!Drop
  <2> QED
    BY <1>3, <1>r, <2>1 DEF bset_deinitialize
<1>4. ASSUME NEW bit \in 0 .. SIZE_MAX, bset_set(bit) PROVE BS!Next
  <2>1. CASE InRange(bit)
    <3>1. bit \in 0 .. num_bits - 1
      BY <1>0, <2>1 DEF InRange
    <3>2. Members' = Members \cup {bit}
      BY <1>4, <2>1, <3>1, SetMembers DEF bset_set
    <3>3. BS!Add(bit)
      BY <1>4, <2>1, <3>2 DEF bset_set, BS!Add, InRange
    <3> QED
      BY <3>1, <3>3, Zenon DEF BS!Next
  <2> QED
    BY <1>4, <1>r, <2>1 DEF bset_set
<1>5. ASSUME NEW bit \in 0 .. SIZE_MAX, bset_clear(bit) PROVE BS!Next
  <2>1. CASE InRange(bit)
    <3>1. bit \in 0 .. num_bits - 1
      BY <1>0, <2>1 DEF InRange
    <3>2. Members' = Members \ {bit}
      BY <1>5, <2>1, <3>1, ClearMembers DEF bset_clear
    <3>3. BS!Remove(bit)
      BY <1>5, <2>1, <3>2 DEF bset_clear, BS!Remove, InRange
    <3> QED
      BY <3>1, <3>3, Zenon DEF BS!Next
  <2> QED
    BY <1>5, <1>r, <2>1 DEF bset_clear
<1>6. ASSUME NEW bit \in 0 .. SIZE_MAX, bset_test(bit) PROVE BS!Next
  <2>1. CASE InRange(bit)
    <3>1. bit \in 0 .. num_bits - 1
      BY <1>0, <2>1 DEF InRange
    <3>2. ret' = (bit \in Members) /\ UNCHANGED <<num_bits, Members>>
      <4>1. Holds(bit) <=> bit \in Members
        BY <3>1, Zenon DEF Members
      <4>2. ret' = (bit \in Members)
        BY <1>6, <2>1, <4>1 DEF bset_test, Holds
      <4> QED
        BY <1>6, <1>s, <4>2 DEF bset_test
    <3>3. BS!Test(bit)
      BY <2>1, <3>2, Zenon DEF BS!Test, InRange
    <3> QED
      BY <3>1, <3>3, Zenon DEF BS!Next
  <2> QED
    BY <1>6, <1>r, <2>1 DEF bset_test
<1>7. ASSUME NEW word \in SUBSET (0 .. W - 1), WriteAll(word), word = {} \/ word = 0 .. W - 1
      PROVE  BS!Next
  <2>1. CASE num_bits > 0 /\ bits # NULL
    <3>1. ret' = TRUE /\ num_bits' = num_bits
          /\ (word = {} => Members' = {}) /\ (word = 0 .. W - 1 => Members' = 0 .. num_bits - 1)
      BY <1>7, <2>1, WriteAllMembers DEF WriteAll
    <3> QED
      BY <1>7, <2>1, <3>1 DEF BS!Next, BS!Fill, BS!Empty
  <2> QED
    BY <1>7, <1>r, <2>1 DEF WriteAll
<1>8. CASE bset_clear_all \/ bset_set_all
  BY <1>7, <1>8 DEF bset_clear_all, bset_set_all
<1>9. CASE UNCHANGED vars
  BY <1>9, <1>s DEF vars
<1> QED
  BY <1>1, <1>2, <1>3, <1>4, <1>5, <1>6, <1>8, <1>9 DEF Next

(* src/bitset.c keeps what bitset.h promises, for every word width and     *)
(* every size that does not wrap: no call on one bit touches another, none *)
(* writes outside the array, and bset_set_all sets exactly the members.    *)
THEOREM ImplementsSet == Spec => RefinesBitsetSpec
<1>1. Init => BS!Init
  BY DEF Init, BS!Init, Members
<1> QED
  BY <1>1, StepRefines, TypeCorrect, PTL DEF Spec, RefinesBitsetSpec, BS!Spec

=============================================================================

----------------------------- MODULE BitsetSpec -----------------------------
(***************************************************************************)
(* What src/bitset.h promises: a set of numbers below a size that is fixed *)
(* when the set is made.  Every call answers TRUE if it did what it was    *)
(* asked, and testing tells whether a number is in the set.                *)
(***************************************************************************)
EXTENDS Integers

CONSTANT Sizes         \* the sizes that are asked for

VARIABLES size,        \* the numbers are below it
          members,     \* the set
          ret          \* the answer of the last call

Init == size = 0 /\ members = {} /\ ret = FALSE

Refused == ret' = FALSE /\ UNCHANGED <<size, members>>

Make(n) == size = 0 /\ size' = n /\ members' = {} /\ ret' = TRUE

Drop == size > 0 /\ size' = 0 /\ members' = {} /\ ret' = TRUE

Add(b)    == b < size /\ members' = members \cup {b} /\ ret' = TRUE /\ UNCHANGED size
Remove(b) == b < size /\ members' = members \ {b} /\ ret' = TRUE /\ UNCHANGED size
Test(b)   == b < size /\ ret' = (b \in members) /\ UNCHANGED <<size, members>>

Fill  == size > 0 /\ members' = 0 .. size - 1 /\ ret' = TRUE /\ UNCHANGED size
Empty == size > 0 /\ members' = {} /\ ret' = TRUE /\ UNCHANGED size

Next == \/ \E n \in Sizes : Make(n)
        \/ \E b \in 0 .. size - 1 : Add(b) \/ Remove(b) \/ Test(b)
        \/ Drop \/ Fill \/ Empty \/ Refused

Spec == Init /\ [][Next]_<<size, members, ret>>
=============================================================================

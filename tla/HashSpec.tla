------------------------------ MODULE HashSpec ------------------------------
(***************************************************************************)
(* What a ht_t promises its caller: a set of data with at most one of each *)
(* key.  A call that needs memory may fail; it then keeps what is stored,  *)
(* except for a failing clear, which has already dropped it.               *)
(***************************************************************************)
EXTENDS FiniteSets

CONSTANTS Data,  \* the pointers a caller stores
          Key,   \* Data -> the key of each; data of one key match
          NULL

VARIABLES live,     \* has the table been created and not deleted?
          contents, \* the data in it
          out       \* the last call, what it returned, which data it deleted

specVars == <<live, contents, out>>

Result(call, ret, deleted) == [call |-> call, ret |-> ret, deleted |-> deleted]

Init == /\ ~live
        /\ contents = {}
        /\ out = Result(<<"none">>, TRUE, {})

Matching(d) == {e \in contents : Key[e] = Key[d]}

New == /\ ~live
       /\ live' \in BOOLEAN
       /\ out' = Result(<<"new">>, live', {})
       /\ UNCHANGED contents

Delete == /\ live
          /\ live' = FALSE
          /\ contents' = {}
          /\ out' = Result(<<"delete">>, TRUE, contents)

Insert(d) ==
  /\ live
  /\ \/ /\ Matching(d) = {}
        /\ contents' = contents \cup {d}
        /\ out' = Result(<<"insert", d>>, TRUE, {})
     \/ /\ out' = Result(<<"insert", d>>, FALSE, {})
        /\ UNCHANGED contents
  /\ UNCHANGED live

Find(d) ==
  /\ live
  /\ out' = Result(<<"find", d>>,
                   IF Matching(d) = {} THEN NULL ELSE CHOOSE e \in Matching(d) : TRUE, {})
  /\ UNCHANGED <<live, contents>>

Remove(d) ==
  /\ live
  /\ contents' = contents \ Matching(d)
  /\ out' = Result(<<"remove", d>>, Matching(d) # {}, {})
  /\ UNCHANGED live

Clear ==
  /\ live
  /\ contents' = {}
  /\ \E ret \in BOOLEAN : out' = Result(<<"clear">>, ret, contents)
  /\ UNCHANGED live

Count ==
  /\ live
  /\ out' = Result(<<"count">>, Cardinality(contents), {})
  /\ UNCHANGED <<live, contents>>

Next == \/ New \/ Delete \/ Clear \/ Count
        \/ \E d \in Data : Insert(d) \/ Find(d) \/ Remove(d)

Spec == Init /\ [][Next]_specVars
=============================================================================

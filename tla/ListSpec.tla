------------------------------ MODULE ListSpec ------------------------------
(***************************************************************************)
(* What a list_t promises its caller: a sequence of pointers that owns     *)
(* them when it was given a delete function.  Iterators are positions,     *)
(* 0 standing for list_itr_end_t.  Any operation that allocates may fail,  *)
(* and then changes nothing.                                               *)
(***************************************************************************)
EXTENDS Integers, SequencesExt

CONSTANTS Data

VARIABLES live,  \* has the list been created and not deleted?
          owns,  \* does it have a delete function?
          seq,   \* its contents
          out    \* the last call, what it returned and which data it deleted

specVars == <<live, owns, seq, out>>

Result(call, ret, at, deleted) ==
  [call |-> call, ret |-> ret, at |-> at, deleted |-> deleted]

Init == /\ ~live
        /\ ~owns
        /\ seq = <<>>
        /\ out = Result(<<"none">>, TRUE, 0, <<>>)

(* No memory for the call: it says so. *)
Refuse(call) == /\ out' = Result(call, FALSE, 0, <<>>)
                /\ UNCHANGED <<live, owns, seq>>

New(dfn) == /\ ~live
            /\ \/ /\ live' = TRUE
                  /\ owns' = dfn
                  /\ seq' = <<>>
                  /\ out' = Result(<<"new", dfn>>, TRUE, 0, <<>>)
               \/ Refuse(<<"new", dfn>>)

(* p = 0 appends, otherwise d goes in front of position p. *)
Push(d, p) == /\ live
              /\ \/ /\ seq' = IF p = 0 THEN Append(seq, d) ELSE InsertAt(seq, p, d)
                    /\ out' = Result(<<"push", d, p>>, TRUE, 0, <<>>)
                    /\ UNCHANGED <<live, owns>>
                 \/ Refuse(<<"push", d, p>>)

(* The answer is the position of the item after the removed one, and the   *)
(* end when the tail was popped or nothing was, as list.c:314-317 says.    *)
Pop(p) == /\ live
          /\ seq' = IF p = 0 THEN seq ELSE RemoveAt(seq, p)
          /\ out' = Result(<<"pop", p>>, TRUE, IF p = Len(seq) THEN 0 ELSE p, <<>>)
          /\ UNCHANGED <<live, owns>>

Reserve == /\ live
           /\ \/ /\ out' = Result(<<"reserve">>, TRUE, 0, <<>>)
                 /\ UNCHANGED <<live, owns, seq>>
              \/ Refuse(<<"reserve">>)

Deleted == IF owns THEN seq ELSE <<>>

Clear == /\ live
         /\ seq' = <<>>
         /\ out' = Result(<<"clear">>, TRUE, 0, Deleted)
         /\ UNCHANGED <<live, owns>>

Delete == /\ live
          /\ live' = FALSE
          /\ owns' = FALSE
          /\ seq' = <<>>
          /\ out' = Result(<<"delete">>, TRUE, 0, Deleted)

Next == \/ \E dfn \in BOOLEAN : New(dfn)
        \/ \E d \in Data, p \in 0 .. Len(seq) : Push(d, p)
        \/ \E p \in 0 .. Len(seq) : Pop(p)
        \/ Reserve
        \/ Clear
        \/ Delete

Spec == Init /\ [][Next]_specVars
=============================================================================

-------------------------------- MODULE List --------------------------------
(***************************************************************************)
(* One heap allocated list of src/list.c and a caller that makes every     *)
(* call of list.h on it in any order, with any allocation failing.  The    *)
(* iterators the caller passes to list_push are End or items of the list;  *)
(* list_pop checks its argument and gets any index, in range or not.       *)
(***************************************************************************)
EXTENDS ListOps, Sequences

CONSTANTS Data,        \* the pointers a caller stores
          Amounts,     \* the capacities a caller asks for
          MaxSize,     \* bound: no call grows the array beyond this
          PopsEmpty,   \* does the caller pop the tail of a list without items?
          PopsTail     \* does the caller pop the last of several items by its iterator?

ASSUME DataAssumption == NULL \notin Data
ASSUME SizeAssumption == MaxSize \in Nat /\ UINT_MAX \in Nat /\ MaxSize < UINT_MAX
ASSUME AmountsAssumption == Amounts \subseteq 0 .. MaxSize
ASSUME CallerAssumption == PopsEmpty \in BOOLEAN /\ PopsTail \in BOOLEAN

VARIABLES live,   \* between list_new and list_delete
          list,   \* the list_t
          out     \* the last call, its return value, iterator and deleted data

vars == <<live, list, out>>

Result(call, ret, at, deleted) ==
  [call |-> call, ret |-> ret, at |-> at, deleted |-> deleted]

Init == /\ live = FALSE
        /\ list = EmptyList(FALSE)
        /\ out = Result(<<"none">>, TRUE, End, <<>>)

Used == {i \in Indices(list) : list.items[i].used}

(* Data is in the list at most once: two live allocations differ. *)
Stored == {list.items[i].data : i \in Used}

(* Where in the list an iterator is, from 1; 0 where it is not in it. *)
PositionOf(itr) ==
  LET p == Position(list, itr) IN IF p = {} THEN 0 ELSE 1 + CHOOSE k \in p : TRUE

(* list_new: on failure the struct is freed and the caller has no list. *)
New(capacity, dfn, alloc) ==
  LET made == list_init(capacity, dfn, alloc)
  IN  /\ ~live
      /\ live' = made.ret
      /\ list' = IF made.ret THEN made.list ELSE EmptyList(FALSE)
      /\ out' = Result(<<"new", dfn>>, made.ret, End, <<>>)

Push(d, itr, alloc) ==
  LET pushed == list_push(list, d, itr, alloc)
  IN  /\ live
      /\ list.count = list.size => GrownSize(list.size, 1) <= MaxSize
      /\ list' = pushed.list
      /\ out' = Result(<<"push", d, PositionOf(itr)>>, pushed.ret, End, <<>>)
      /\ UNCHANGED live

(* What list_pop may read in front of the array, where it reads there. *)
Garbage(itr) == IF itr = End /\ list.count = 0 THEN BOOLEAN ELSE {FALSE}

(* The iterator after the tail is read from the ring (list.c:348), where   *)
(* the head follows the tail: a caller that pops the tail by its iterator  *)
(* goes on at the head, although list.c:314-317 and 346-347 say it gets    *)
(* the end.  PopsTail says whether a caller does that.                     *)
Pop(itr, garbage) ==
  LET popped == list_pop(list, itr, garbage)
  IN  /\ live
      /\ itr = End /\ list.count = 0 => PopsEmpty
      /\ itr # End /\ list.count > 1 /\ PositionOf(itr) = list.count => PopsTail
      /\ list' = popped.list
      /\ out' = Result(<<"pop", IF itr = End THEN list.count ELSE PositionOf(itr)>>,
                      TRUE, popped.ret, <<>>)
      /\ UNCHANGED live

Reserve(amount, alloc) ==
  LET reserved == list_reserve(list, amount, alloc)
  IN  /\ live
      /\ amount > list.size => GrownSize(list.size, amount - list.size) <= MaxSize
      /\ list' = reserved.list
      /\ out' = Result(<<"reserve">>, reserved.ret, End, <<>>)
      /\ UNCHANGED live

Clear ==
  LET cleared == list_clear(list)
  IN  /\ live
      /\ list' = cleared.list
      /\ out' = Result(<<"clear">>, TRUE, End, cleared.deleted)
      /\ UNCHANGED live

(* list_delete: list_deinit, then the struct itself is freed. *)
Delete ==
  /\ live
  /\ live' = FALSE
  /\ list' = EmptyList(FALSE)
  /\ out' = Result(<<"delete">>, TRUE, End, list_deinit(list).deleted)

Next ==
  \/ \E capacity \in Amounts, dfn, alloc \in BOOLEAN : New(capacity, dfn, alloc)
  \/ \E d \in Data \ Stored, itr \in Used \cup {End}, alloc \in BOOLEAN : Push(d, itr, alloc)
  \/ \E itr \in -2 .. list.size : \E garbage \in Garbage(itr) : Pop(itr, garbage)
  \/ \E amount \in Amounts, alloc \in BOOLEAN : Reserve(amount, alloc)
  \/ Clear
  \/ Delete

Spec == Init /\ [][Next]_vars

-----------------------------------------------------------------------------
(* Every field has its type: links are indices or -1, and the counts are   *)
(* within what is allocated.                                               *)
Items(n) == [0 .. n - 1 -> [next : {End} \cup 0 .. n - 1, prev : {End} \cup 0 .. n - 1,
                            used : BOOLEAN, data : Data \cup {NULL}]]

IsList(l) ==
  /\ l = [dfn |-> l.dfn, size |-> l.size, count |-> l.count,
          used_head |-> l.used_head, free_head |-> l.free_head, items |-> l.items]
  /\ l.dfn \in BOOLEAN
  /\ l.size \in 0 .. MaxSize
  /\ l.count \in 0 .. l.size
  /\ l.used_head \in {End} \cup Indices(l)
  /\ l.free_head \in {End} \cup Indices(l)
  /\ l.items \in Items(l.size)

TypeOK == /\ live \in BOOLEAN
          /\ IsList(list)
          /\ out.ret \in BOOLEAN /\ out.at \in Int

(* s goes once through the whole ring that starts at head: n items, linked *)
(* both ways, closed at the ends.                                          *)
IsRing(items, head, n, s) ==
  /\ \A j, k \in 0 .. n - 1 : s[j] = s[k] => j = k
  /\ \A k \in 0 .. n - 1 : /\ items[s[k]].next = s[After(0, n - 1, k)]
                           /\ items[s[k]].prev = s[Before(0, n - 1, k)]
  /\ head = IF n = 0 THEN End ELSE s[0]

UsedRing(l, u) ==
  /\ u \in [0 .. l.count - 1 -> Indices(l)]
  /\ IsRing(l.items, l.used_head, l.count, u)
  /\ \A k \in 0 .. l.count - 1 : l.items[u[k]].used /\ l.items[u[k]].data # NULL
  /\ \A i \in Indices(l) : l.items[i].used => \E k \in 0 .. l.count - 1 : u[k] = i

FreeRing(l, f) ==
  /\ f \in [0 .. l.size - l.count - 1 -> Indices(l)]
  /\ IsRing(l.items, l.free_head, l.size - l.count, f)
  /\ \A k \in 0 .. l.size - l.count - 1 : ~l.items[f[k]].used
  /\ \A i \in Indices(l) : ~l.items[i].used => \E k \in 0 .. l.size - l.count - 1 : f[k] = i

WellFormed(l) ==
  /\ \E u \in [0 .. l.count - 1 -> Indices(l)] : UsedRing(l, u)
  /\ \E f \in [0 .. l.size - l.count - 1 -> Indices(l)] : FreeRing(l, f)

(* list_push and list_pop keep every slot of the array on exactly one of   *)
(* the two rings: the ring at used_head has exactly count items, all       *)
(* marked used and holding data, the ring at free_head has all the others, *)
(* none of them marked used.  A slot that got lost, or sat on both rings,  *)
(* would be handed out twice or never again.                               *)
RingsOK == WellFormed(list)

(* Iterating backwards (list_itr_tail, list_itr_rnext) visits the items    *)
(* of the forward iteration (list_itr_begin, list_itr_next) in reverse.    *)
BackwardsIsReverse ==
  LET b[k \in 0 .. list.size] == IF k = 0 THEN list_itr_tail(list)
                                          ELSE list_itr_rnext(list, b[k - 1])
      w == Walk(list)
      n == WalkLength(list)
  IN  /\ \A k \in 0 .. n - 1 : b[k] = w[n - 1 - k]
      /\ b[n] = End

(* The list is a sequence: iterators are positions in it, and the         *)
(* allocation, growth and recycling of slots cannot be seen.               *)
Abstract == INSTANCE ListSpec WITH
              owns <- list.dfn, seq <- Contents(list),
              out  <- [out EXCEPT !.at = PositionOf(out.at)]

(* Every call does to the sequence of stored pointers what ListSpec says,  *)
(* including the growth that moves every item to another slot: the list_   *)
(* functions implement a sequence that owns its elements.  It holds for    *)
(* callers that pop the tail with the end iterator; for one that names the *)
(* tail (PopsTail) the code answers the head where list.c:314-317 promises *)
(* the end, and the property fails.                                        *)
RefinesListSpec == Abstract!Spec
=============================================================================

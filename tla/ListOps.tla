------------------------------ MODULE ListOps ------------------------------
(***************************************************************************)
(* The operations of src/list.c as operators on a list_t.                  *)
(*                                                                         *)
(* A list_t is a record [dfn, size, count, used_head, free_head, items].   *)
(* items is the array of list_item_s: a function from 0 .. size-1 to       *)
(* records [next, prev, used, data].  Two circular doubly linked lists are *)
(* threaded through it by index: the used items, in list order, starting   *)
(* at used_head, and the free items, starting at free_head.  dfn only says *)
(* whether the list has a delete function.                                 *)
(*                                                                         *)
(* An operation that changes the list returns a record with the new list   *)
(* (or items) and what the C function returns.                             *)
(***************************************************************************)
EXTENDS Integers, FiniteSets

CONSTANTS NULL,      \* the null pointer
          UINT_MAX   \* the largest uint_t: what 0 - 1 wraps to

(* list_itr_end_t *)
End == -1

(* What the zeroed struct of list_init or list_deinit holds. *)
EmptyList(dfn) ==
  [dfn |-> dfn, size |-> 0, count |-> 0, used_head |-> End, free_head |-> End,
   items |-> [i \in {} |-> NULL]]

Indices(l) == 0 .. l.size - 1

-----------------------------------------------------------------------------
(* The two primitives every ring operation is made of. *)

remove_item(items, itr) ==
  LET n      == items[itr].next
      p      == items[itr].prev
      single == n = itr \/ p = itr
      linked == IF single THEN items
                          ELSE [items EXCEPT ![p].next = n, ![n].prev = p]
  IN  IF itr = End
        THEN [items |-> items, itr |-> End]
        ELSE [items |-> [linked EXCEPT ![itr].next = End, ![itr].prev = End],
              itr   |-> IF single THEN End ELSE n]

(* Mutant of insert_item: the item in front of which the new one goes      *)
(* keeps its old prev link.                                                *)
insert_item_NoBackLink(items, itr, item) ==
  LET p == items[itr].prev
  IN  IF item = End
        THEN [items |-> items, itr |-> End]
      ELSE IF itr = End
        THEN [items |-> [items EXCEPT ![item].prev = item, ![item].next = item],
              itr   |-> item]
      ELSE [items |-> [items EXCEPT ![item].next = itr, ![p].next = item,
                                    ![item].prev = p],
            itr   |-> itr]

insert_item(items, itr, item) ==
  LET p == items[itr].prev
  IN  IF item = End
        THEN [items |-> items, itr |-> End]
      ELSE IF itr = End
        THEN [items |-> [items EXCEPT ![item].prev = item, ![item].next = item],
              itr   |-> item]
      ELSE [items |-> [items EXCEPT ![item].next = itr, ![p].next = item,
                                    ![item].prev = p,   ![itr].prev = item],
            itr   |-> itr]

(* The data pointer and the used flag of an item are assigned together. *)
Marked(items, item, data, used) ==
  [items EXCEPT ![item].data = data, ![item].used = used]

-----------------------------------------------------------------------------
(* Iterators. *)

list_itr_begin(l) == IF l.count = 0 THEN End ELSE l.used_head

list_itr_tail(l) == IF l.count = 0 THEN End ELSE l.items[l.used_head].prev

list_itr_next(l, itr) ==
  IF itr = End \/ l.items[itr].next = l.used_head THEN End ELSE l.items[itr].next

(* Mutant of list_itr_rnext: it goes on past the head. *)
list_itr_rnext_PastHead(l, itr) == IF itr = End THEN End ELSE l.items[itr].prev

list_itr_rnext(l, itr) ==
  IF itr = End \/ itr = l.used_head THEN End ELSE l.items[itr].prev

list_get(l, itr) ==
  IF itr \in Indices(l) /\ l.items[itr].used THEN l.items[itr].data ELSE NULL

(* The iterators that the loop  for (itr = begin; itr != end; itr = next)  *)
(* goes through, by step; End once the loop is over.  A list has at most   *)
(* size items, so the loop of a well-formed list ends within size steps.   *)
Walk(l) ==
  LET w[k \in 0 .. l.size] == IF k = 0 THEN list_itr_begin(l)
                                       ELSE list_itr_next(l, w[k - 1])
  IN  w

(* How many items that loop visits. *)
WalkLength(l) ==
  LET w == Walk(l)
  IN  CHOOSE n \in 0 .. l.size : w[n] = End /\ \A m \in 0 .. n - 1 : w[m] # End

-----------------------------------------------------------------------------
(* The ring lo -> lo+1 -> ... -> hi -> lo. *)
(* (AfterOpen, a mutant of After, leaves the ring open at hi.)             *)
AfterOpen(lo, hi, k) == k + 1
After(lo, hi, k)  == IF k = hi THEN lo ELSE k + 1
Before(lo, hi, k) == IF k = lo THEN hi ELSE k - 1

(* The capacity list_grow allocates: size doubled, at least once, until    *)
(* there is enough room.                                                   *)
Doubled(size, amount) ==
  LET d[k \in 0 .. amount] == IF k = 0 THEN size ELSE 2 * d[k - 1] IN d

GrownSize(size, amount) ==
  LET d      == Doubled(size, amount)
      Enough == {k \in 1 .. amount : d[k] >= size + amount}
  IN  IF size = 0 THEN amount ELSE d[CHOOSE k \in Enough : \A j \in Enough : k <= j]

(* list_grow once the new array is allocated: the used items move, in list *)
(* order, to the first indices of the new array, and the rest is free.     *)
(* Every iterator the caller holds is stale afterwards.                    *)
Regrown(l, amount) ==
  LET n == GrownSize(l.size, amount)
      w == Walk(l)
      c == WalkLength(l)
      Slot(k) == IF k < c
        THEN [next |-> After(0, c - 1, k), prev |-> Before(0, c - 1, k),
              used |-> l.items[w[k]].used, data |-> l.items[w[k]].data]
        ELSE [next |-> After(c, n - 1, k), prev |-> Before(c, n - 1, k),
              used |-> FALSE, data |-> NULL]
  IN  [l EXCEPT !.items = [k \in 0 .. n - 1 |-> Slot(k)], !.size = n,
                !.used_head = IF c = 0 THEN End ELSE 0,
                !.free_head = IF c = n THEN End ELSE c]

(* alloc says whether the CALLOC succeeds. *)
list_grow(l, amount, alloc) ==
  IF amount = 0 THEN [list |-> l, ret |-> TRUE]
  ELSE IF alloc THEN [list |-> Regrown(l, amount), ret |-> TRUE]
  ELSE [list |-> l, ret |-> FALSE]

list_init(capacity, dfn, alloc) == list_grow(EmptyList(dfn), capacity, alloc)

list_reserve(l, amount, alloc) ==
  IF amount > l.size THEN list_grow(l, amount - l.size, alloc)
                     ELSE [list |-> l, ret |-> TRUE]

(* What the delete function is called on, in order; the list afterwards. *)
list_deinit(l) ==
  [list    |-> IF l.size = 0 THEN l ELSE EmptyList(FALSE),
   deleted |-> LET w == Walk(l)
               IN  IF l.dfn THEN [k \in 1 .. WalkLength(l) |-> l.items[w[k - 1]].data]
                            ELSE <<>>]

list_clear(l) == [list_deinit(l) EXCEPT !.list = EmptyList(l.dfn)]

-----------------------------------------------------------------------------
(* list_push in front of itr, or at the tail when itr is End.  When the    *)
(* array is full the position of itr is remembered across list_grow.       *)
Position(l, itr) ==
  LET w == Walk(l) IN {k \in 0 .. WalkLength(l) - 1 : w[k] = itr}

(* Mutant of Relocated: the iterator from before the growth is used. *)
RelocatedStale(l, g, itr) == itr

(* The iterator, in the grown list g, of the item that itr was in l. *)
Relocated(l, g, itr) == Walk(g)[CHOOSE k \in Position(l, itr) : TRUE]

list_push(l, data, itr, alloc) ==
  LET full   == l.count = l.size
      moved  == full /\ l.count > 0 /\ itr # End
      grown  == list_grow(l, 1, alloc)
      g      == IF full THEN grown.list ELSE l
      before == IF moved THEN Relocated(l, g, itr) ELSE itr
      item   == g.free_head
      taken  == remove_item(g.items, item)
      stored == Marked(taken.items, item, data, TRUE)
      target == IF l.count > 0 /\ itr \in {End, l.used_head} THEN g.used_head ELSE before
      linked == insert_item(stored, target, item)
      head   == IF l.count = 0 THEN linked.itr
                ELSE IF itr # End /\ itr = l.used_head THEN item
                ELSE g.used_head
  IN  IF (moved /\ Position(l, itr) = {}) \/ (full /\ ~grown.ret)
        THEN [list |-> l, ret |-> FALSE]
        ELSE [list |-> [g EXCEPT !.items = linked.items, !.used_head = head,
                                 !.free_head = taken.itr, !.count = @ + 1],
              ret  |-> TRUE]

list_push_head(l, data, alloc) == list_push(l, data, list_itr_begin(l), alloc)
list_push_tail(l, data, alloc) == list_push(l, data, End, alloc)

(* list_pop of the item at itr, or of the tail when itr is End.  On an     *)
(* empty list with capacity the tail is -1 and the code reads, and then    *)
(* may write, items[-1]: garbage is what it finds in the used field there. *)
list_pop(l, itr, garbage) ==
  LET item    == IF itr = End THEN list_itr_tail(l) ELSE itr
      refused == \/ l.size = 0
                 \/ itr # End /\ itr \notin Indices(l)
                 \/ ~(IF item = End THEN garbage ELSE l.items[item].used)
      removed == remove_item(l.items, item)
      cleared == IF item = End THEN l.items
                 ELSE Marked(removed.items, item, NULL, FALSE)
      freed   == insert_item(cleared, l.free_head, item)
  IN  IF refused
        THEN [list |-> l, ret |-> End]
        ELSE [list |-> [l EXCEPT !.items = freed.items, !.free_head = freed.itr,
                                 !.used_head = IF item = @ THEN removed.itr ELSE @,
                                 !.count = IF @ = 0 THEN UINT_MAX ELSE @ - 1],
              ret  |-> IF itr = End THEN End ELSE removed.itr]

list_pop_head(l, garbage) == list_pop(l, list_itr_begin(l), garbage)

-----------------------------------------------------------------------------
(* The data of the list in order, as the iteration of a caller sees it. *)
Contents(l) ==
  LET w == Walk(l) IN [k \in 1 .. WalkLength(l) |-> list_get(l, w[k - 1])]
=============================================================================

------------------------------ MODULE CbProofs ------------------------------
(***************************************************************************)
(* The registry keeps its buckets in order, and a cb_call meets every      *)
(* callback that it owes a call exactly once, for every set of names and   *)
(* callbacks, any depth of calls in calls and any size of the buckets.     *)
(*                                                                         *)
(* The argument: a bucket is a well-formed list, so what ListProofs shows  *)
(* of the list_ functions holds of it (L is ListProofs with the callbacks  *)
(* for data).  A list_push_tail that finds a free slot, and a list_pop of  *)
(* another item, leave every iterator at the item it was at.  So the loop  *)
(* of a cb_call always stands at a place p of its bucket, with everything  *)
(* it owes either called or at p or behind it, and nothing behind p called *)
(* already (Stands).                                                       *)
(***************************************************************************)
EXTENDS Cb, TLAPS, SequenceTheorems, FiniteSetTheorems

(* The list_ functions of a bucket; the variables of ListProofs play no    *)
(* part in the lemmas about these functions.                               *)
L == INSTANCE ListProofs WITH
       Data <- Callbacks, Amounts <- {}, PopsEmpty <- FALSE, PopsTail <- FALSE,
       live <- FALSE, list <- EmptyList(FALSE), out <- out

LEMMA ListAssumptions ==
  /\ NULL \notin Callbacks
  /\ MaxSize \in Nat /\ UINT_MAX \in Nat /\ MaxSize < UINT_MAX
  /\ {} \subseteq 0 .. MaxSize
  /\ FALSE \in BOOLEAN
BY CallbacksAssumption, BoundsAssumption

(* The operators of ListOps are the same in both.                          *)
LEMMA SameConstants == /\ End = L!End /\ \A b : EmptyList(b) = L!EmptyList(b)
                       /\ \A l : Indices(l) = L!Indices(l)
BY DEF End, L!End, EmptyList, L!EmptyList, Indices, L!Indices

LEMMA SameWalk == \A l : Walk(l) = L!Walk(l) /\ WalkLength(l) = L!WalkLength(l)
BY DEF Walk, L!Walk, list_itr_begin, L!list_itr_begin, list_itr_next, L!list_itr_next,
       End, L!End, WalkLength, L!WalkLength

LEMMA SameIterators ==
  \A l, itr : /\ list_itr_begin(l) = L!list_itr_begin(l)
              /\ list_itr_next(l, itr) = L!list_itr_next(l, itr)
              /\ list_get(l, itr) = L!list_get(l, itr)
              /\ Position(l, itr) = L!Position(l, itr)
BY SameWalk, SameConstants
   DEF list_itr_begin, L!list_itr_begin, list_itr_next, L!list_itr_next,
       End, L!End, list_get, L!list_get, Position, L!Position

LEMMA SameContents == \A l : Contents(l) = L!Contents(l)
BY SameWalk, SameIterators DEF Contents, L!Contents

LEMMA SameGrowth ==
  ASSUME NEW l, NEW n, NEW a
  PROVE  list_grow(l, n, a) = L!list_grow(l, n, a)
BY DEF list_grow, L!list_grow, Regrown, L!Regrown, GrownSize, L!GrownSize,
       Doubled, L!Doubled, After, L!After, Before, L!Before, End, L!End,
       Walk, L!Walk, WalkLength, L!WalkLength, list_itr_begin, L!list_itr_begin,
       list_itr_next, L!list_itr_next

LEMMA SameRemove ==
  ASSUME NEW items, NEW itr
  PROVE  remove_item(items, itr) = L!remove_item(items, itr)
BY DEF remove_item, L!remove_item, End, L!End

LEMMA SameInsert ==
  ASSUME NEW items, NEW itr, NEW item
  PROVE  insert_item(items, itr, item) = L!insert_item(items, itr, item)
BY DEF insert_item, L!insert_item, End, L!End

LEMMA SameMarked ==
  ASSUME NEW items, NEW item, NEW d, NEW b
  PROVE  Marked(items, item, d, b) = L!Marked(items, item, d, b)
BY DEF Marked, L!Marked

(* list_pop and list_push, given what the calls they make return. *)
PoppedBy(l, itr, garbage, item, removed, freed) ==
  LET refused == \/ l.size = 0
                 \/ itr # End /\ itr \notin Indices(l)
                 \/ ~(IF item = End THEN garbage ELSE l.items[item].used)
  IN  IF refused
        THEN [list |-> l, ret |-> End]
        ELSE [list |-> [l EXCEPT !.items = freed.items, !.free_head = freed.itr,
                                 !.used_head = IF item = @ THEN removed.itr ELSE @,
                                 !.count = IF @ = 0 THEN UINT_MAX ELSE @ - 1],
              ret  |-> IF itr = End THEN End ELSE removed.itr]

LEMMA SamePop ==
  ASSUME NEW l, NEW itr, NEW garbage
  PROVE  list_pop(l, itr, garbage) = L!list_pop(l, itr, garbage)
<1> DEFINE item     == IF itr = End THEN list_itr_tail(l) ELSE itr
           cleared  == IF item = End THEN l.items
                       ELSE Marked(remove_item(l.items, item).items, item, NULL, FALSE)
           item2    == IF itr = L!End THEN L!list_itr_tail(l) ELSE itr
           cleared2 == IF item2 = L!End THEN l.items
                       ELSE L!Marked(L!remove_item(l.items, item2).items, item2, NULL, FALSE)
<1>1. list_pop(l, itr, garbage) = PoppedBy(l, itr, garbage, item, remove_item(l.items, item),
                                           insert_item(cleared, l.free_head, item))
  BY DEF list_pop, PoppedBy, End, L!End
<1>2. L!list_pop(l, itr, garbage) = PoppedBy(l, itr, garbage, item2, L!remove_item(l.items, item2),
                                             L!insert_item(cleared2, l.free_head, item2))
  BY DEF L!list_pop, PoppedBy, End, L!End, Indices, L!Indices
<1>3. item = item2
  BY DEF list_itr_tail, L!list_itr_tail, End, L!End
<1> HIDE DEF item, item2
<1>4. remove_item(l.items, item) = L!remove_item(l.items, item2)
  BY <1>3, SameRemove
<1>5. cleared = cleared2
  BY <1>3, <1>4, SameMarked DEF End, L!End
<1> HIDE DEF cleared, cleared2
<1>6. insert_item(cleared, l.free_head, item) = L!insert_item(cleared2, l.free_head, item2)
  BY <1>3, <1>5, SameInsert
<1> QED
  BY <1>1, <1>2, <1>3, <1>4, <1>6, Zenon

PushedBy(l, itr, grown, places, taken, linked) ==
  LET full   == l.count = l.size
      moved  == full /\ l.count > 0 /\ itr # End
      g      == IF full THEN grown.list ELSE l
      head   == IF l.count = 0 THEN linked.itr
                ELSE IF itr # End /\ itr = l.used_head THEN g.free_head
                ELSE g.used_head
  IN  IF (moved /\ places = {}) \/ (full /\ ~grown.ret)
        THEN [list |-> l, ret |-> FALSE]
        ELSE [list |-> [g EXCEPT !.items = linked.items, !.used_head = head,
                                 !.free_head = taken.itr, !.count = @ + 1],
              ret  |-> TRUE]
LEMMA SamePush ==
  ASSUME NEW l, NEW d, NEW alloc
  PROVE  list_push_tail(l, d, alloc) = L!list_push(l, d, L!End, alloc)
<1> DEFINE full    == l.count = l.size
           moved   == full /\ l.count > 0 /\ End # End
           grown   == list_grow(l, 1, alloc)
           g       == IF full THEN grown.list ELSE l
           taken   == remove_item(g.items, g.free_head)
           before  == IF moved THEN Relocated(l, g, End) ELSE End
           target  == IF l.count > 0 /\ End \in {End, l.used_head} THEN g.used_head ELSE before
           stored  == Marked(taken.items, g.free_head, d, TRUE)
           linked  == insert_item(stored, target, g.free_head)
           grown2  == L!list_grow(l, 1, alloc)
           g2      == IF full THEN grown2.list ELSE l
           taken2  == L!remove_item(g2.items, g2.free_head)
           before2 == IF moved THEN L!Relocated(l, g2, End) ELSE End
           target2 == IF l.count > 0 /\ End \in {End, l.used_head} THEN g2.used_head ELSE before2
           stored2 == L!Marked(taken2.items, g2.free_head, d, TRUE)
           linked2 == L!insert_item(stored2, target2, g2.free_head)
<1>1. list_push_tail(l, d, alloc) = PushedBy(l, End, grown, Position(l, End), taken, linked)
  BY DEF list_push_tail, list_push, PushedBy
<1>2. L!list_push(l, d, L!End, alloc) = PushedBy(l, End, grown2, L!Position(l, End), taken2, linked2)
  BY DEF L!list_push, PushedBy, End, L!End
<1>3. grown = grown2
  BY SameGrowth
<1> HIDE DEF grown, grown2
<1>4. g = g2
  BY <1>3
<1> HIDE DEF g, g2
<1>5. taken = taken2
  BY <1>4, SameRemove
<1> HIDE DEF taken, taken2
<1>6. stored = stored2
  BY <1>4, <1>5, SameMarked
<1> HIDE DEF stored, stored2
<1>7. target = target2
  <2>1. before = before2
    OBVIOUS
  <2> QED
    BY <1>4, <2>1
<1> HIDE DEF target, target2
<1>8. linked = linked2
  BY <1>4, <1>6, <1>7, SameInsert
<1> HIDE DEF linked, linked2
<1>9. Position(l, End) = L!Position(l, End)
  BY DEF Position, L!Position, Walk, L!Walk, list_itr_begin, L!list_itr_begin, list_itr_next,
         L!list_itr_next, End, L!End, WalkLength, L!WalkLength
<1> QED
  BY <1>1, <1>2, <1>3, <1>5, <1>8, <1>9, Zenon
-----------------------------------------------------------------------------
(* What a bucket is, and what the list_ functions do to it.                *)
IsRecord(l) == l = [dfn |-> l.dfn, size |-> l.size, count |-> l.count,
                    used_head |-> l.used_head, free_head |-> l.free_head, items |-> l.items]

(* The size of the array after list_push, whatever is in the list.         *)
PushesSize(l, alloc, pushed) ==
  IF l.count = l.size /\ ~alloc
    THEN pushed.list = l /\ pushed.ret = FALSE
    ELSE /\ pushed.list.size = IF l.count = l.size THEN GrownSize(l.size, 1) ELSE l.size
         /\ pushed.ret = TRUE

LEMMA PushSize ==
  ASSUME NEW l, IsRecord(l), NEW d, NEW alloc \in BOOLEAN,
         NEW pushed, pushed = list_push_tail(l, d, alloc)
  PROVE  PushesSize(l, alloc, pushed)
<1> DEFINE full    == l.count = l.size
           moved   == full /\ l.count > 0 /\ End # End
           grown   == list_grow(l, 1, alloc)
           g       == IF full THEN grown.list ELSE l
           taken   == remove_item(g.items, g.free_head)
           before  == IF moved THEN Relocated(l, g, End) ELSE End
           target  == IF l.count > 0 /\ End \in {End, l.used_head} THEN g.used_head ELSE before
           stored  == Marked(taken.items, g.free_head, d, TRUE)
           linked  == insert_item(stored, target, g.free_head)
<1>1. pushed = PushedBy(l, End, grown, Position(l, End), taken, linked)
  BY DEF list_push_tail, list_push, PushedBy
<1>2. full /\ ~alloc => grown.list = l /\ grown.ret = FALSE
  BY DEF list_grow
<1>3. ~full \/ alloc => /\ g.size = IF full THEN GrownSize(l.size, 1) ELSE l.size
                        /\ IsRecord(g)
                        /\ full => grown.ret = TRUE
  <2>1. CASE ~full
    BY <2>1
  <2>2. CASE full /\ alloc
    <3>1. g = Regrown(l, 1) /\ grown.ret = TRUE
      BY <2>2 DEF list_grow
    <3>2. PICK n, c, it : Regrown(l, 1) = [l EXCEPT !.items = it, !.size = n,
                !.used_head = IF c = 0 THEN End ELSE 0,
                !.free_head = IF c = n THEN End ELSE c] /\ n = GrownSize(l.size, 1)
      BY Zenon DEF Regrown
    <3>3. g = [dfn |-> l.dfn, size |-> n, count |-> l.count, used_head |-> IF c = 0 THEN End ELSE 0,
               free_head |-> IF c = n THEN End ELSE c, items |-> it]
      BY <3>1, <3>2 DEF IsRecord
    <3> HIDE DEF g
    <3> QED
      BY <2>2, <3>1, <3>2, <3>3 DEF IsRecord
  <2> QED
    BY <2>1, <2>2
<1> HIDE DEF grown, g, linked, taken
<1> QED
  BY <1>1, <1>2, <1>3 DEF PushedBy, PushesSize, IsRecord, g
Bucket(l) == L!IsList(l) /\ L!WellFormed(l)

(* The loops over a bucket l with the callbacks s: list_itr_begin is at    *)
(* the first, list_itr_next goes one on, list_get gets what is there.      *)
Loops(l, s) ==
  /\ s \in Seq(Callbacks) /\ l.count = Len(s) /\ WalkLength(l) = Len(s)
  /\ IF s = <<>> THEN list_itr_begin(l) = End ELSE Position(l, list_itr_begin(l)) = {0}
  /\ \A itr : \A p \in 1 .. Len(s) : Position(l, itr) = {p - 1} =>
       /\ itr \in Indices(l)
       /\ list_get(l, itr) = s[p]
       /\ IF p = Len(s) THEN list_itr_next(l, itr) = End
                        ELSE Position(l, list_itr_next(l, itr)) = {p}
  /\ \A p \in 1 .. Len(s) : /\ Position(l, Walk(l)[p - 1]) = {p - 1}
                            /\ list_get(l, Walk(l)[p - 1]) = s[p]

LEMMA BucketLoops ==
  ASSUME NEW l, Bucket(l), NEW s, s = Contents(l)
  PROVE  Loops(l, s)
<1>1. L!Iterates(l)
  BY L!IteratorsMove, ListAssumptions DEF Bucket
<1>2. PICK u \in [0 .. l.count - 1 -> L!Indices(l)] : L!UsedRing(l, u)
  BY DEF Bucket, L!WellFormed
<1>3. s \in Seq(Callbacks) /\ Len(s) = l.count /\ l.count \in Nat
  <2>1. L!Contents(l) = L!Along(l, u) /\ L!Contents(l) \in Seq(Callbacks) /\ Len(L!Contents(l)) = l.count
    BY <1>2, L!ContentsAlong, ListAssumptions DEF Bucket
  <2> QED
    BY <2>1, SameContents DEF Bucket, L!IsList
<1>4. /\ WalkLength(l) = l.count
      /\ IF l.count = 0 THEN list_itr_begin(l) = End ELSE Position(l, list_itr_begin(l)) = {0}
  BY <1>1, SameWalk, SameIterators, SameConstants DEF L!Iterates
<1>5. s = <<>> <=> l.count = 0
  BY <1>3
<1>6. ASSUME NEW itr, NEW p \in 1 .. Len(s), Position(l, itr) = {p - 1}
      PROVE  /\ itr \in Indices(l)
             /\ list_get(l, itr) = s[p]
             /\ IF p = Len(s) THEN list_itr_next(l, itr) = End
                              ELSE Position(l, list_itr_next(l, itr)) = {p}
  <2>1. PICK q \in 0 .. l.count - 1 : q = p - 1 /\ q + 1 = p /\ (q = l.count - 1 <=> p = Len(s))
    BY <1>3
  <2>2. L!Position(l, itr) = {q}
    BY <1>6, <2>1, SameIterators
  <2>3. /\ itr \in L!Indices(l)
        /\ L!list_get(l, itr) = L!Contents(l)[q + 1]
        /\ IF q = l.count - 1 THEN L!list_itr_next(l, itr) = L!End
                              ELSE L!Position(l, L!list_itr_next(l, itr)) = {q + 1}
    BY <1>1, <2>2 DEF L!Iterates
  <2> QED
    BY <2>1, <2>3, SameIterators, SameContents, SameConstants
<1>7. ASSUME NEW p \in 1 .. Len(s)
      PROVE  /\ Position(l, Walk(l)[p - 1]) = {p - 1}
             /\ list_get(l, Walk(l)[p - 1]) = s[p]
  <2>1. PICK q \in 0 .. l.count - 1 : q = p - 1 /\ q + 1 = p
    BY <1>3
  <2>2. L!Position(l, L!Walk(l)[q]) = {q} /\ L!list_get(l, L!Walk(l)[q]) = L!Contents(l)[q + 1]
    BY <1>1 DEF L!Iterates
  <2> QED
    BY <2>1, <2>2, SameIterators, SameContents, SameWalk
<1> QED
  BY <1>3, <1>4, <1>5, <1>6, <1>7 DEF Loops

(* get_cb_itr finds a callback that is in the bucket, and no other.        *)
LEMMA Finds ==
  ASSUME NEW l, Bucket(l), NEW s, s = Contents(l), IsInjective(s), NEW c \in Callbacks
  PROVE  \/ get_cb_itr(l, c) = End /\ \A k \in 1 .. Len(s) : s[k] # c
         \/ /\ get_cb_itr(l, c) # End /\ get_cb_itr(l, c) \in Indices(l)
            /\ \E k \in 1 .. Len(s) : s[k] = c /\ Position(l, get_cb_itr(l, c)) = {k - 1}
<1> DEFINE w     == Walk(l)
           found == {k \in 0 .. WalkLength(l) - 1 : list_get(l, w[k]) = c}
<1>1. Loops(l, s)
  BY BucketLoops
<1>2. /\ s \in Seq(Callbacks) /\ WalkLength(l) = Len(s) /\ Len(s) \in Nat
      /\ \A k \in 1 .. Len(s) : list_get(l, w[k - 1]) = s[k]
  BY <1>1 DEF Loops
<1>3. \A k \in 0 .. Len(s) - 1 : k \in found <=> s[k + 1] = c
  <2> TAKE k \in 0 .. Len(s) - 1
  <2>1. k + 1 \in 1 .. Len(s) /\ (k + 1) - 1 = k
    BY <1>2
  <2> QED
    BY <1>2, <2>1
<1>4. found \subseteq 0 .. Len(s) - 1
  BY <1>2
<1>5. get_cb_itr(l, c) = IF found = {} THEN End ELSE w[CHOOSE k \in found : \A j \in found : k <= j]
  BY DEF get_cb_itr
<1> HIDE DEF found, w
<1>6. CASE found = {}
  <2>1. ASSUME NEW k \in 1 .. Len(s) PROVE s[k] # c
    <3>1. k - 1 \in 0 .. Len(s) - 1 /\ (k - 1) + 1 = k
      BY <1>2
    <3> QED
      BY <1>3, <1>6, <3>1
  <2> QED
    BY <1>5, <1>6, <2>1
<1>7. CASE found # {}
  <2>1. PICK k \in found : TRUE
    BY <1>7
  <2>2. k \in 0 .. Len(s) - 1 /\ s[k + 1] = c /\ k + 1 \in 1 .. Len(s) /\ (k + 1) - 1 = k
    BY <1>2, <1>3, <1>4, <2>1
  <2>3. ASSUME NEW j \in found PROVE j = k
    <3>1. j \in 0 .. Len(s) - 1 /\ s[j + 1] = c /\ j + 1 \in 1 .. Len(s)
      BY <1>2, <1>3, <1>4
    <3>2. j + 1 = k + 1
      BY <1>2, <2>2, <3>1 DEF IsInjective
    <3> QED
      BY <2>2, <3>1, <3>2
  <2>4. k = CHOOSE i \in found : \A j \in found : i <= j
    <3>1. \A j \in found : k <= j
      BY <2>2, <2>3
    <3> QED
      BY <2>1, <2>3, <3>1
  <2>5. get_cb_itr(l, c) = w[k]
    BY <1>5, <1>7, <2>4
  <2>6. Position(l, w[k]) = {k}
    BY <1>1, <2>2 DEF Loops, w
  <2>7. w[k] \in Indices(l)
    BY <1>1, <2>2, <2>6 DEF Loops
  <2>8. w[k] # End
    BY <2>7 DEF Bucket, L!IsList, Indices, End
  <2> QED
    BY <2>2, <2>5, <2>6, <2>7, <2>8
<1> QED
  BY <1>6, <1>7
(* What list_push_tail and list_pop do to a bucket l with the callbacks s, *)
(* and to the iterators into it.                                           *)
Adds(l, s, c, pushed) ==
  \/ pushed.ret = FALSE /\ pushed.list = l
  \/ /\ pushed.ret = TRUE /\ Bucket(pushed.list)
     /\ Contents(pushed.list) = Append(s, c)
     /\ pushed.list.size >= l.size
     /\ l.count < l.size =>
          \A x : Position(l, x) # {} => Position(pushed.list, x) = Position(l, x)

LEMMA BucketAdds ==
  ASSUME NEW l, Bucket(l), NEW s, s = Contents(l), NEW c \in Callbacks, NEW alloc \in BOOLEAN,
         NEW pushed, pushed = list_push_tail(l, c, alloc),
         pushed.ret => pushed.list.size <= MaxSize
  PROVE  Adds(l, s, c, pushed)
<1>1. IsRecord(l) /\ l.count \in 0 .. l.size /\ l.size \in Nat
  BY DEF Bucket, L!IsList, IsRecord
<1>0. PushesSize(l, alloc, pushed)
  BY <1>1, PushSize
<1>2. CASE l.count = l.size /\ ~alloc
  BY <1>0, <1>2 DEF Adds, PushesSize
<1>3. CASE l.count # l.size \/ alloc
  <2>1. l.count = l.size => GrownSize(l.size, 1) <= MaxSize
    BY <1>0, <1>3 DEF PushesSize
  <2>2. GrownSize(l.size, 1) = L!GrownSize(l.size, 1)
    BY DEF GrownSize, L!GrownSize, Doubled, L!Doubled
  <2>3. pushed = L!list_push(l, c, L!End, alloc)
    BY SamePush
  <2>4. PICK itr : itr = L!End
    OBVIOUS
  <2>5. /\ L!IsList(pushed.list) /\ L!WellFormed(pushed.list) /\ pushed.ret \in BOOLEAN
        /\ L!Pushes(l, c, itr, pushed)
    BY <2>1, <2>2, <2>3, <2>4, L!PushRings, ListAssumptions DEF Bucket
  <2>6. CASE pushed.ret = FALSE /\ pushed.list = l
    BY <2>6 DEF Adds
  <2>7. CASE ~(pushed.ret = FALSE /\ pushed.list = l)
    <3>1. /\ pushed.ret = TRUE
          /\ L!Contents(pushed.list) = L!SeqWith(L!Contents(l), l.count, l.count, c)
          /\ pushed.list.size >= l.size
          /\ l.count < l.size => L!KeepsPlaces(l, pushed.list)
      BY <2>4, <2>5, <2>7 DEF L!Pushes
    <3>2. s \in Seq(Callbacks) /\ l.count = Len(s) /\ l.count \in Nat
      BY <1>1, BucketLoops DEF Loops
    <3>3. PICK n \in Nat : n = l.count
      BY <1>1
    <3>4. Append(s, c) = L!SeqWith(s, n, n, c)
      BY <3>2, <3>3, L!AppendIndices, ListAssumptions
    <3>5. Contents(pushed.list) = Append(s, c)
      BY <3>1, <3>3, <3>4, SameContents
    <3>6. ASSUME l.count < l.size, NEW x, Position(l, x) # {}
          PROVE  Position(pushed.list, x) = Position(l, x)
      BY <3>1, <3>6, SameIterators DEF L!KeepsPlaces
    <3> QED
      BY <2>5, <3>1, <3>5, <3>6 DEF Adds, Bucket
  <2> QED
    BY <2>6, <2>7
<1> QED
  BY <1>2, <1>3

(* The bucket that cb_add makes: a list of one slot, with the callback.    *)
LEMMA NewBucket ==
  ASSUME NEW c \in Callbacks,
         NEW pushed, pushed = list_push_tail(list_init(1, TRUE, TRUE).list, c, TRUE),
         pushed.ret => pushed.list.size <= MaxSize
  PROVE  pushed.ret = TRUE /\ Bucket(pushed.list) /\ Contents(pushed.list) = Append(<<>>, c)
<1>1. PICK e : e = EmptyList(TRUE)
  OBVIOUS
<1>2. Bucket(e) /\ Contents(e) = <<>> /\ e.size = 0 /\ e.count = 0
  <2>1. PICK t \in BOOLEAN : t = TRUE
    OBVIOUS
  <2>2. L!IsList(L!EmptyList(t)) /\ L!WellFormed(L!EmptyList(t)) /\ L!Contents(L!EmptyList(t)) = <<>>
    BY L!EmptyRings, ListAssumptions
  <2>3. e = L!EmptyList(t)
    BY <1>1, <2>1, SameConstants
  <2>4. e.size = 0 /\ e.count = 0
    BY <1>1 DEF EmptyList
  <2> QED
    BY <2>2, <2>3, <2>4, SameContents DEF Bucket
<1>3. PICK res : res = list_grow(e, 1, TRUE)
  OBVIOUS
<1>4. PICK l : l = res.list
  OBVIOUS
<1>5. pushed = list_push_tail(l, c, TRUE)
  BY <1>1, <1>3, <1>4 DEF list_init
<1>6. GrownSize(e.size, 1) = 1 /\ L!GrownSize(e.size, 1) = 1
  BY <1>2 DEF GrownSize, L!GrownSize
<1>7. IsRecord(l) /\ l.size = 1 /\ l.count = 0
  <2>1. l = Regrown(e, 1)
    BY <1>3, <1>4 DEF list_grow
  <2>2. PICK n, k, it : Regrown(e, 1) = [e EXCEPT !.items = it, !.size = n,
              !.used_head = IF k = 0 THEN End ELSE 0,
              !.free_head = IF k = n THEN End ELSE k] /\ n = GrownSize(e.size, 1)
    BY Zenon DEF Regrown
  <2>3. IsRecord(e)
    BY <1>2 DEF Bucket, L!IsList, IsRecord
  <2>4. l = [dfn |-> e.dfn, size |-> n, count |-> e.count, used_head |-> IF k = 0 THEN End ELSE 0,
             free_head |-> IF k = n THEN End ELSE k, items |-> it]
    BY <2>1, <2>2, <2>3 DEF IsRecord
  <2> QED
    BY <1>2, <1>6, <2>2, <2>4 DEF IsRecord
<1>8. PICK alloc \in BOOLEAN : alloc = TRUE
  OBVIOUS
<1>9. pushed.ret = TRUE /\ pushed.list.size = 1
  <2>1. PushesSize(l, alloc, pushed)
    BY <1>5, <1>7, <1>8, PushSize
  <2>2. ~(l.count = l.size)
    BY <1>7
  <2>3. pushed.list.size = l.size /\ pushed.ret = TRUE
    BY <2>1, <2>2, Zenon DEF PushesSize
  <2> QED
    BY <1>7, <2>3
<1>10. Bucket(l) /\ Contents(l) = <<>>
  <2>1. PICK amount \in Nat : amount = 1
    OBVIOUS
  <2>2. res = L!list_grow(e, amount, alloc)
    BY <1>3, <1>8, <2>1, SameGrowth
  <2>3. L!GrownSize(e.size, amount) <= MaxSize
    BY <1>6, <1>9, <2>1
  <2>4. L!IsList(res.list) /\ L!WellFormed(res.list) /\ L!Grows(e, res)
    BY <1>2, <2>2, <2>3, L!GrowRings, ListAssumptions DEF Bucket
  <2> QED
    BY <1>2, <1>4, <2>4, SameContents DEF Bucket, L!Grows
<1>11. PICK s : s = Contents(l) /\ s = <<>>
  BY <1>10
<1>12. Adds(l, s, c, pushed)
  BY <1>5, <1>8, <1>10, <1>11, BucketAdds
<1> QED
  BY <1>9, <1>11, <1>12 DEF Adds
(* s without its k-th element. *)
Without(s, k, r) == /\ r \in Seq(Callbacks) /\ Len(r) = Len(s) - 1
                    /\ \A i \in 1 .. Len(s) - 1 : r[i] = IF i < k THEN s[i] ELSE s[i + 1]

LEMMA RemovesFirst ==
  ASSUME NEW s \in Seq(Callbacks), IsInjective(s), NEW k \in 1 .. Len(s), NEW c, s[k] = c
  PROVE  /\ RemoveFirst(s, c) = L!SeqWithout(s, Len(s), k - 1)
         /\ Without(s, k, RemoveFirst(s, c))
<1>1. Len(s) \in Nat /\ DOMAIN s = 1 .. Len(s)
  OBVIOUS
<1>2. \A i \in 1 .. Len(s) : s[i] = c => i = k
  BY <1>1 DEF IsInjective
<1>3. {i \in 1 .. Len(s) : s[i] = c} = {k}
  BY <1>2
<1>4. Min({k}) = k
  BY DEF Min
<1>5. SelectInSeq(s, LAMBDA v : v = c) = k
  BY <1>3, <1>4 DEF SelectInSeq
<1>6. RemoveFirst(s, c) = RemoveAt(s, k)
  BY <1>5 DEF RemoveFirst
<1>7. PICK n \in Nat : n = Len(s)
  BY <1>1
<1>8. PICK j \in 0 .. n - 1 : j = k - 1 /\ j + 1 = k
  BY <1>7
<1>9. L!Abstract!RemoveAt(s, j + 1) = L!SeqWithout(s, n, j)
  BY <1>7, L!RemoveIndices, ListAssumptions
<1>10. RemoveAt(s, k) = L!Abstract!RemoveAt(s, k)
  BY DEF RemoveAt, L!Abstract!RemoveAt
<1>11. RemoveFirst(s, c) = L!SeqWithout(s, n, j)
  BY <1>6, <1>8, <1>9, <1>10
<1>12. PICK r : r = RemoveFirst(s, c)
  OBVIOUS
<1>13. r = [i \in 1 .. n - 1 |-> IF i <= j THEN s[i] ELSE s[i + 1]]
  BY <1>11, <1>12 DEF L!SeqWithout
<1>14. \A i \in 1 .. n - 1 : /\ r[i] = IF i < k THEN s[i] ELSE s[i + 1]
                             /\ r[i] \in Callbacks
  BY <1>1, <1>7, <1>8, <1>13
<1>15. PICK m \in Nat : m = n - 1
  BY <1>7, <1>8
<1>16. r \in Seq(Callbacks) /\ Len(r) = n - 1
  <2>1. DOMAIN r = 1 .. m
    BY <1>13, <1>15
  <2>2. r \in [1 .. m -> Callbacks]
    BY <1>13, <1>14, <1>15, <2>1
  <2>3. r \in Seq(Callbacks) /\ Len(r) = m
    BY <2>2
  <2> QED
    BY <1>15, <2>3
<1> QED
  BY <1>7, <1>8, <1>11, <1>12, <1>14, <1>16 DEF Without

Removes(l, s, c, k, m) ==
  /\ Bucket(m)
  /\ Contents(m) = RemoveFirst(s, c)
  /\ m.size = l.size
  /\ \A x : \A p \in 1 .. Len(s) :
       p # k /\ Position(l, x) = {p - 1} => Position(m, x) = {IF p < k THEN p - 1 ELSE p - 2}

LEMMA BucketRemoves ==
  ASSUME NEW l, Bucket(l), NEW s, s = Contents(l), IsInjective(s), NEW c \in Callbacks,
         NEW k \in 1 .. Len(s), s[k] = c, NEW m, m = remove_cb(l, c)
  PROVE  Removes(l, s, c, k, m)
<1>1. Loops(l, s)
  BY BucketLoops
<1>2. s \in Seq(Callbacks) /\ l.count = Len(s) /\ Len(s) \in Nat /\ DOMAIN s = 1 .. Len(s)
  BY <1>1 DEF Loops
<1>3. PICK itr : itr = get_cb_itr(l, c)
  OBVIOUS
<1>4. itr # End /\ itr \in Indices(l) /\ itr \in Int /\ Position(l, itr) = {k - 1}
  <2>1. PICK i \in 1 .. Len(s) : s[i] = c /\ Position(l, itr) = {i - 1} /\ itr # End /\ itr \in Indices(l)
    BY <1>3, Finds
  <2>2. i = k
    BY <1>2, <2>1 DEF IsInjective
  <2> QED
    BY <2>1, <2>2 DEF Indices
<1>5. PICK garbage \in BOOLEAN : garbage = FALSE
  OBVIOUS
<1>6. PICK popped : popped = L!list_pop(l, itr, garbage)
  OBVIOUS
<1>7. m = popped.list
  BY <1>3, <1>5, <1>6, SamePop DEF remove_cb
<1>8. itr # L!End /\ L!Position(l, itr) = {k - 1}
  BY <1>4, SameConstants, SameIterators
<1>9. L!IsList(popped.list) /\ L!WellFormed(popped.list) /\ L!Pops(l, itr, popped)
  BY <1>4, <1>6, <1>8, L!PopRings, ListAssumptions DEF Bucket
<1>10. PICK j \in 0 .. l.count - 1 :
         /\ L!Position(l, itr) = {j}
         /\ L!Contents(popped.list) = L!SeqWithout(L!Contents(l), l.count, j)
         /\ popped.list.size = l.size
         /\ L!ShiftsPlaces(l, popped.list, j)
  BY <1>8, <1>9 DEF L!Pops
<1>11. j = k - 1
  BY <1>8, <1>10
<1>12. Contents(m) = RemoveFirst(s, c)
  BY <1>2, <1>7, <1>10, <1>11, RemovesFirst, SameContents
<1>13. ASSUME NEW x, NEW p \in 1 .. Len(s), p # k, Position(l, x) = {p - 1}
       PROVE  Position(m, x) = {IF p < k THEN p - 1 ELSE p - 2}
  <2>1. PICK q \in 0 .. l.count - 1 : /\ q = p - 1 /\ q # j /\ q - 1 = p - 2 /\ (q < j <=> p < k)
    BY <1>2, <1>11, <1>13
  <2>2. L!Position(l, x) = {q}
    BY <1>13, <2>1, SameIterators
  <2>3. L!Position(popped.list, x) = {IF q < j THEN q ELSE q - 1}
    BY <1>10, <2>1, <2>2 DEF L!ShiftsPlaces
  <2> QED
    BY <1>7, <2>1, <2>3, SameIterators
<1> QED
  BY <1>7, <1>9, <1>10, <1>12, <1>13 DEF Removes, Bucket
-----------------------------------------------------------------------------
(* The registry: what is under a name, and what the calls do to it.        *)
Holds(l, s) == /\ s \in Seq(Callbacks) /\ IsInjective(s)
               /\ IF l = NULL THEN s = <<>> ELSE Bucket(l) /\ Contents(l) = s

BucketsOK == /\ bucket = [n \in Names |-> bucket[n]]
             /\ registered = [n \in Names |-> registered[n]]
             /\ \A n \in Names : Holds(bucket[n], registered[n])

LEMMA BucketType ==
  ASSUME NEW l, Bucket(l)
  PROVE  l \in ListT(l.size) /\ l.size \in 0 .. MaxSize /\ l # NULL
<1>1. /\ IsRecord(l) /\ l.size \in 0 .. MaxSize /\ l.count \in 0 .. l.size
      /\ l.dfn \in BOOLEAN /\ l.used_head \in Links(l.size) /\ l.free_head \in Links(l.size)
      /\ l.items \in [0 .. l.size - 1 -> [next : Links(l.size), prev : Links(l.size),
                                          used : BOOLEAN, data : Callbacks \cup {NULL}]]
  BY DEF Bucket, L!IsList, L!Items, L!Indices, L!End, IsRecord, Links, End
<1>2. l \in ListT(l.size)
  BY <1>1 DEF IsRecord, ListT
<1> QED
  BY <1>1, <1>2, NullAssumption

(* cb_add adds c at the end of what is under name, or changes nothing.     *)
AddsAtEnd(l, s, c, added) ==
  /\ added.ret = TRUE /\ Bucket(added.list)
  /\ Contents(added.list) = Append(s, c)
  /\ \A k \in 1 .. Len(s) : s[k] # c
  /\ l # NULL => /\ added.list.size >= l.size
                 /\ l.count < l.size =>
                      \A x : Position(l, x) # {} => Position(added.list, x) = Position(l, x)

LEMMA CbAdded ==
  ASSUME BucketsOK, NEW name \in Names, NEW c \in Callbacks, NEW fail \in AddFailures,
         NEW added, added = cb_added(name, c, fail), added.ret => added.list.size <= MaxSize
  PROVE  \/ added.ret = FALSE /\ added.list = bucket[name]
         \/ AddsAtEnd(bucket[name], registered[name], c, added)
<1>1. PICK l, s : l = bucket[name] /\ s = registered[name]
  OBVIOUS
<1>2. Holds(l, s)
  BY <1>1 DEF BucketsOK
<1>3. CASE find_bucket(name, fail # "find") = NULL /\ l # NULL
  BY <1>1, <1>3 DEF cb_added
<1>4. CASE l = NULL
  <2>1. find_bucket(name, fail # "find") = NULL
    BY <1>1, <1>4 DEF find_bucket
  <2>2. CASE fail \in {"name", "list", "bucket", "pair", "insert"}
    BY <1>1, <2>1, <2>2 DEF cb_added
  <2>3. CASE fail \notin {"name", "list", "bucket", "pair", "insert"}
    <3>1. added = list_push_tail(list_init(1, TRUE, TRUE).list, c, TRUE)
      BY <1>1, <1>4, <2>1, <2>3 DEF cb_added
    <3>2. added.ret = TRUE /\ Bucket(added.list) /\ Contents(added.list) = Append(<<>>, c)
      BY <3>1, NewBucket
    <3>3. s = <<>> /\ \A k \in 1 .. Len(s) : s[k] # c
      BY <1>2, <1>4 DEF Holds
    <3> QED
      BY <1>1, <1>4, <3>2, <3>3 DEF AddsAtEnd
  <2> QED
    BY <2>2, <2>3
<1>5. CASE l # NULL /\ find_bucket(name, fail # "find") # NULL
  <2>1. find_bucket(name, fail # "find") = l /\ Bucket(l) /\ s = Contents(l) /\ IsInjective(s)
    BY <1>1, <1>2, <1>5 DEF find_bucket, Holds
  <2>2. CASE get_cb_itr(l, c) # End \/ fail = "pair"
    BY <1>1, <1>5, <2>1, <2>2 DEF cb_added
  <2>3. CASE ~(get_cb_itr(l, c) # End \/ fail = "pair")
    <3>1. PICK alloc \in BOOLEAN : alloc = (fail # "push")
      OBVIOUS
    <3>2. added = list_push_tail(l, c, alloc)
      BY <1>1, <1>5, <2>1, <2>3, <3>1 DEF cb_added
    <3>3. Adds(l, s, c, added)
      BY <2>1, <3>2, BucketAdds
    <3>4. \A k \in 1 .. Len(s) : s[k] # c
      BY <2>1, <2>3, Finds
    <3> QED
      BY <1>1, <3>3, <3>4 DEF Adds, AddsAtEnd
  <2> QED
    BY <2>2, <2>3
<1> QED
  BY <1>3, <1>4, <1>5

(* The three ways in which the calls change the registry, apart from       *)
(* cb_delete.                                                              *)
Kept(n) == bucket'[n] = bucket[n] /\ registered'[n] = registered[n]

Gone(n) == /\ bucket'[n] = NULL /\ registered'[n] = <<>>
           /\ \A i \in DOMAIN stack : stack[i].name # n

Losing(names) == /\ bucket' = [n \in Names |-> bucket'[n]]
                 /\ registered' = [n \in Names |-> registered'[n]]
                 /\ \A n \in names : Kept(n) \/ Gone(n)

Others(name) == Losing(Names \ {name})

AddedTo(name, c) ==
  /\ Others(name)
  /\ AddsAtEnd(bucket[name], registered[name], c, [list |-> bucket'[name], ret |-> TRUE])
  /\ registered'[name] = Append(registered[name], c)

RemovedFrom(name, c) ==
  /\ Others(name)
  /\ bucket[name] # NULL
  /\ \E k \in 1 .. Len(registered[name]) :
       registered[name][k] = c /\ Removes(bucket[name], registered[name], c, k, bucket'[name])
  /\ registered'[name] = RemoveFirst(registered[name], c)

LEMMA StillThere ==
  ASSUME BucketsOK, UNCHANGED <<bucket, registered>>
  PROVE  Losing(Names)
BY DEF BucketsOK, Losing, Kept

LEMMA AddChanges ==
  ASSUME BucketsOK, NEW name \in Names, NEW c \in Callbacks, NEW fail \in AddFailures,
         NEW lost \in SUBSET Losable(name, fail), cb_add(name, c, fail, lost)
  PROVE  /\ \/ Losing(Names)
            \/ AddedTo(name, c)
         /\ out'.ret \in BOOLEAN
<1>1. PICK added : added = cb_added(name, c, fail)
  OBVIOUS
<1>2. /\ added.ret => added.list.size <= MaxSize
      /\ bucket' = [n \in Names |-> IF n = name THEN added.list
                                    ELSE IF n \in lost THEN NULL ELSE bucket[n]]
      /\ registered' = [n \in Names |-> IF n = name /\ added.ret THEN Append(registered[n], c)
                                        ELSE IF n \in lost THEN <<>> ELSE registered[n]]
      /\ out' = Answer(added.ret)
  BY <1>1 DEF cb_add
<1>l. name \notin lost /\ \A n \in lost : \A i \in DOMAIN stack : stack[i].name # n
  <2>1. ASSUME NEW n \in lost
        PROVE  bucket[name] = NULL /\ bucket[n] # NULL /\ n \notin {g.name : g \in Range(stack)}
    BY DEF Losable
  <2>2. ASSUME NEW i \in DOMAIN stack PROVE stack[i] \in Range(stack)
    BY DEF Range
  <2> QED
    BY <2>1, <2>2
<1>o. Losing(Names \ {name})
  <2>1. ASSUME NEW n \in Names \ {name} PROVE Kept(n) \/ Gone(n)
    <3>1. CASE n \in lost
      BY <1>2, <1>l, <3>1 DEF Gone
    <3>2. CASE n \notin lost
      BY <1>2, <3>2 DEF Kept
    <3> QED
      BY <3>1, <3>2
  <2>2. bucket' = [n \in Names |-> bucket'[n]] /\ registered' = [n \in Names |-> registered'[n]]
    BY <1>2
  <2> QED
    BY <2>1, <2>2 DEF Losing
<1>3. CASE added.ret = FALSE /\ added.list = bucket[name]
  <2>1. Kept(name)
    BY <1>2, <1>3, <1>l DEF Kept
  <2>2. Losing(Names)
    BY <1>o, <2>1 DEF Losing
  <2> QED
    BY <1>2, <1>3, <2>2 DEF Answer
<1>4. CASE AddsAtEnd(bucket[name], registered[name], c, added)
  <2>1. added.ret = TRUE
    BY <1>4 DEF AddsAtEnd
  <2>2. /\ bucket'[name] = added.list
        /\ registered'[name] = Append(registered[name], c)
    BY <1>2, <2>1
  <2>3. Others(name)
    BY <1>o DEF Others
  <2>4. AddsAtEnd(bucket[name], registered[name], c, [list |-> bucket'[name], ret |-> TRUE])
    BY <1>4, <2>2 DEF AddsAtEnd
  <2> QED
    BY <1>2, <2>1, <2>2, <2>3, <2>4 DEF AddedTo, Answer
<1> QED
  BY <1>1, <1>2, <1>3, <1>4, CbAdded

LEMMA RemoveChanges ==
  ASSUME BucketsOK, NEW name \in Names, NEW c \in Callbacks, NEW alloc \in BOOLEAN,
         cb_remove(name, c, alloc)
  PROVE  /\ \/ UNCHANGED <<bucket, registered>> /\ stack' = Charged
            \/ RemovedFrom(name, c) /\ stack' = Excused(name, c)
         /\ out'.ret \in BOOLEAN
<1>1. PICK l, s : l = bucket[name] /\ s = registered[name]
  OBVIOUS
<1>2. Holds(l, s)
  BY <1>1 DEF BucketsOK
<1> DEFINE found == find_bucket(name, alloc) # NULL /\ get_cb_itr(find_bucket(name, alloc), c) # End
<1>3. out'.ret \in BOOLEAN
  BY DEF cb_remove, Answer
<1>4. CASE ~found
  BY <1>3, <1>4 DEF cb_remove
<1>5. CASE found
  <2>1. find_bucket(name, alloc) = l /\ l # NULL /\ get_cb_itr(l, c) # End
    BY <1>1, <1>5 DEF find_bucket
  <2>2. /\ bucket' = [bucket EXCEPT ![name] = remove_cb(l, c)]
        /\ registered' = [registered EXCEPT ![name] = RemoveFirst(@, c)]
        /\ stack' = Excused(name, c)
    BY <1>5, <2>1 DEF cb_remove
  <2>3. Bucket(l) /\ s = Contents(l) /\ IsInjective(s)
    BY <1>2, <2>1 DEF Holds
  <2>4. PICK k \in 1 .. Len(s) : s[k] = c
    BY <2>1, <2>3, Finds
  <2>5. PICK m : m = remove_cb(l, c)
    OBVIOUS
  <2>6. Removes(l, s, c, k, m)
    BY <2>3, <2>4, <2>5, BucketRemoves
  <2>7. bucket'[name] = m /\ registered'[name] = RemoveFirst(s, c) /\ Others(name)
    BY <1>1, <2>2, <2>5 DEF Others, Losing, Kept, BucketsOK
  <2>8. RemovedFrom(name, c)
    BY <1>1, <2>1, <2>4, <2>6, <2>7 DEF RemovedFrom
  <2> QED
    BY <1>3, <2>2, <2>8
<1> QED
  BY <1>4, <1>5
(* The registry stays in order, and no bucket shrinks or goes, save in     *)
(* cb_delete.                                                              *)
Lasting(l, m) == l # NULL => m # NULL /\ m.size >= l.size

LEMMA BucketAfter ==
  ASSUME BucketsOK, NEW name \in Names, NEW c \in Callbacks,
         AddedTo(name, c) \/ RemovedFrom(name, c)
  PROVE  Holds(bucket'[name], registered'[name]) /\ Lasting(bucket[name], bucket'[name])
<1>1. PICK l, s, m, r : /\ l = bucket[name] /\ s = registered[name]
                        /\ m = bucket'[name] /\ r = registered'[name]
  OBVIOUS
<1>2. Holds(l, s)
  BY <1>1 DEF BucketsOK
<1>3. s \in Seq(Callbacks) /\ IsInjective(s) /\ DOMAIN s = 1 .. Len(s) /\ Len(s) \in Nat
  BY <1>2 DEF Holds
<1>4. CASE AddedTo(name, c)
  <2>1. /\ Bucket(m) /\ Contents(m) = r /\ r = Append(s, c)
        /\ \A k \in 1 .. Len(s) : s[k] # c
        /\ l # NULL => m.size >= l.size
    BY <1>1, <1>4 DEF AddedTo, AddsAtEnd
  <2>2. r \in Seq(Callbacks) /\ DOMAIN r = 1 .. Len(s) + 1 /\ r[Len(s) + 1] = c
        /\ \A k \in 1 .. Len(s) : r[k] = s[k]
    BY <1>3, <2>1
  <2>3. IsInjective(r)
    BY <1>3, <2>1, <2>2 DEF IsInjective
  <2>4. m # NULL
    BY <2>1, BucketType
  <2> QED
    BY <1>1, <2>1, <2>2, <2>3, <2>4 DEF Holds, Lasting
<1>5. CASE RemovedFrom(name, c)
  <2>1. PICK k \in 1 .. Len(s) : s[k] = c /\ Removes(l, s, c, k, m)
    BY <1>1, <1>5 DEF RemovedFrom
  <2>2. Bucket(m) /\ Contents(m) = r /\ m.size = l.size /\ r = RemoveFirst(s, c) /\ l # NULL
    BY <1>1, <1>5, <2>1 DEF RemovedFrom, Removes
  <2>3. Without(s, k, r)
    BY <1>3, <2>1, <2>2, RemovesFirst
  <2>4. r \in Seq(Callbacks) /\ DOMAIN r = 1 .. Len(s) - 1
    BY <1>3, <2>3 DEF Without
  <2>5. IsInjective(r)
    <3> SUFFICES ASSUME NEW a \in 1 .. Len(s) - 1, NEW b \in 1 .. Len(s) - 1, r[a] = r[b]
                 PROVE  a = b
      BY <2>4 DEF IsInjective
    <3>1. r[a] = (IF a < k THEN s[a] ELSE s[a + 1]) /\ r[b] = (IF b < k THEN s[b] ELSE s[b + 1])
      BY <2>3 DEF Without
    <3>2. PICK i, j : i = (IF a < k THEN a ELSE a + 1) /\ j = (IF b < k THEN b ELSE b + 1)
      OBVIOUS
    <3>3. i \in 1 .. Len(s) /\ j \in 1 .. Len(s)
      BY <1>3, <3>2
    <3>4. r[a] = s[i] /\ r[b] = s[j]
      BY <3>1, <3>2
    <3>5. i = j
      BY <1>3, <3>3, <3>4 DEF IsInjective
    <3> QED
      BY <3>2, <3>5
  <2>6. m # NULL /\ m.size \in Nat
    BY <2>2, BucketType
  <2> QED
    BY <1>1, <2>2, <2>4, <2>5, <2>6 DEF Holds, Lasting
<1> QED
  BY <1>4, <1>5

(* Every step leaves the registry as it is, adds or removes one callback,  *)
(* or starts anew with no cb_call active.                                  *)
LEMMA RegistryAfter ==
  ASSUME BucketsOK,
         \/ Losing(Names)
         \/ \E n \in Names, c \in Callbacks : AddedTo(n, c) \/ RemovedFrom(n, c)
  PROVE  BucketsOK' /\ \A n \in Names : Lasting(bucket[n], bucket'[n]) \/ Gone(n)
<1>0. ASSUME NEW n \in Names PROVE Lasting(bucket[n], bucket[n])
  <2>1. Holds(bucket[n], registered[n])
    BY DEF BucketsOK
  <2>2. bucket[n] # NULL => bucket[n].size \in Nat
    BY <2>1, BucketType DEF Holds
  <2> QED
    BY <2>2 DEF Lasting
<1>k. ASSUME NEW n \in Names, Kept(n) \/ Gone(n)
      PROVE  Holds(bucket'[n], registered'[n]) /\ (Lasting(bucket[n], bucket'[n]) \/ Gone(n))
  <2>1. CASE Kept(n)
    BY <1>0, <2>1 DEF BucketsOK, Kept
  <2>2. CASE Gone(n)
    <3>1. Holds(NULL, <<>>)
      BY DEF Holds, IsInjective
    <3> QED
      BY <2>2, <3>1 DEF Gone
  <2> QED
    BY <1>k, <2>1, <2>2
<1>1. CASE Losing(Names)
  BY <1>1, <1>k DEF BucketsOK, Losing
<1>2. ASSUME NEW name \in Names, NEW c \in Callbacks, AddedTo(name, c) \/ RemovedFrom(name, c)
      PROVE  BucketsOK' /\ \A n \in Names : Lasting(bucket[n], bucket'[n]) \/ Gone(n)
  <2>1. Holds(bucket'[name], registered'[name]) /\ Lasting(bucket[name], bucket'[name])
    BY <1>2, BucketAfter
  <2>2. Others(name)
    BY <1>2 DEF AddedTo, RemovedFrom
  <2>3. ASSUME NEW n \in Names
        PROVE  Holds(bucket'[n], registered'[n]) /\ (Lasting(bucket[n], bucket'[n]) \/ Gone(n))
    <3>1. CASE n = name
      BY <2>1, <3>1
    <3>2. CASE n # name
      BY <1>k, <2>2, <3>2 DEF Others, Losing
    <3> QED
      BY <3>1, <3>2
  <2> QED
    BY <2>2, <2>3 DEF BucketsOK, Others, Losing
<1> QED
  BY <1>1, <1>2

-----------------------------------------------------------------------------
(* The active cb_calls: their buckets are there, and their iterators in    *)
(* the array, even where the callbacks do what makes an iterator stale.    *)
StackOK == /\ stack \in Seq(Frame)
           /\ \A i \in 1 .. Len(stack) : /\ bucket[stack[i].name] # NULL
                                         /\ stack[i].itr < bucket[stack[i].name].size

(* t is the stack after the running callback made a call: only how many    *)
(* calls it has left differs, and what the cb_calls of name owe to c.      *)
Alike(f, g) == /\ f \in Frame /\ f.name = g.name /\ f.itr = g.itr
               /\ f.callback = g.callback /\ f.called = g.called

SameStack(t) == /\ t \in Seq(Frame) /\ Len(t) = Len(stack)
                /\ \A i \in 1 .. Len(stack) : Alike(t[i], stack[i]) /\ t[i].owed = stack[i].owed

LEMMA ChargedStack ==
  ASSUME StackOK, stack = <<>> \/ Last(stack).calls > 0
  PROVE  SameStack(Charged)
<1>1. CASE stack = <<>>
  BY <1>1 DEF Charged, SameStack
<1>2. CASE stack # <<>>
  <2>1. stack \in Seq(Frame) /\ Len(stack) \in 1 .. Len(stack) /\ Len(stack) \in Nat
    BY <1>2 DEF StackOK
  <2>2. PICK n \in 1 .. Len(stack) : n = Len(stack)
    BY <2>1
  <2>3. PICK f \in Frame : f = stack[n]
    BY <2>1
  <2>4. f.calls \in 1 .. MaxCalls /\ f.calls - 1 \in 0 .. MaxCalls
    BY <1>2, <2>2, <2>3, BoundsAssumption DEF Last, Frame
  <2>5. PICK g : g = [f EXCEPT !.calls = f.calls - 1]
    OBVIOUS
  <2>6. g \in Frame /\ Alike(g, f) /\ g.owed = f.owed
    BY <2>3, <2>4, <2>5 DEF Frame, Alike
  <2>7. Charged = [stack EXCEPT ![n] = g]
    BY <1>2, <2>2, <2>3, <2>5 DEF Charged
  <2>8. /\ Charged \in Seq(Frame) /\ Len(Charged) = Len(stack)
        /\ \A i \in 1 .. Len(stack) : Charged[i] = IF i = n THEN g ELSE stack[i]
    BY <2>1, <2>2, <2>6, <2>7
  <2>9. ASSUME NEW i \in 1 .. Len(stack) PROVE Alike(Charged[i], stack[i]) /\ Charged[i].owed = stack[i].owed
    <3>1. stack[i] \in Frame
      BY <2>1
    <3> QED
      BY <2>3, <2>6, <2>8, <3>1 DEF Alike
  <2> QED
    BY <2>8, <2>9 DEF SameStack
<1> QED
  BY <1>1, <1>2
ExcusedFrames(t, name, c) ==
  /\ t \in Seq(Frame) /\ Len(t) = Len(stack)
  /\ \A i \in 1 .. Len(stack) :
       /\ Alike(t[i], stack[i])
       /\ t[i].owed = IF stack[i].name = name THEN stack[i].owed \ {c} ELSE stack[i].owed

LEMMA ExcusedStack ==
  ASSUME StackOK, stack = <<>> \/ Last(stack).calls > 0, NEW name, NEW c,
         NEW t, t = Excused(name, c)
  PROVE  ExcusedFrames(t, name, c)
<1>1. SameStack(Charged)
  BY ChargedStack
<1>2. PICK u : u = Charged
  OBVIOUS
<1>3. u \in Seq(Frame) /\ Len(u) = Len(stack) /\ DOMAIN u = 1 .. Len(stack) /\ Len(stack) \in Nat
  BY <1>1, <1>2 DEF SameStack, StackOK
<1>4. t = [i \in 1 .. Len(stack) |-> IF u[i].name = name THEN [u[i] EXCEPT !.owed = @ \ {c}] ELSE u[i]]
  BY <1>2, <1>3 DEF Excused
<1>5. ASSUME NEW i \in 1 .. Len(stack)
      PROVE  /\ Alike(t[i], stack[i])
             /\ t[i].owed = IF stack[i].name = name THEN stack[i].owed \ {c} ELSE stack[i].owed
  <2>1. PICK f \in Frame : f = u[i]
    BY <1>3
  <2>2. Alike(f, stack[i]) /\ f.owed = stack[i].owed
    BY <1>1, <1>2, <2>1 DEF SameStack
  <2>3. t[i] = IF f.name = name THEN [f EXCEPT !.owed = f.owed \ {c}] ELSE f
    BY <1>4, <2>1
  <2>4. CASE f.name = name
    <3>1. t[i] = [f EXCEPT !.owed = f.owed \ {c}]
      BY <2>3, <2>4
    <3>2. t[i] \in Frame /\ Alike(t[i], f) /\ t[i].owed = f.owed \ {c}
      BY <2>1, <3>1 DEF Frame, Alike
    <3> QED
      BY <2>2, <2>4, <3>2 DEF Alike
  <2>5. CASE f.name # name
    BY <2>2, <2>3, <2>5 DEF Alike
  <2> QED
    BY <2>4, <2>5
<1>6. t \in Seq(Frame) /\ Len(t) = Len(stack)
  <2>1. PICK n \in Nat : n = Len(stack)
    BY <1>3
  <2>2. t \in [1 .. n -> Frame]
    BY <1>4, <1>5, <2>1 DEF Alike
  <2> QED
    BY <2>1, <2>2
<1> QED
  BY <1>5, <1>6 DEF ExcusedFrames

(* Frames that are alike are as good, in buckets that last.                *)
LEMMA StackAfter ==
  ASSUME StackOK, \A n \in Names : Lasting(bucket[n], bucket'[n]) \/ Gone(n),
         BucketsOK, BucketsOK',
         stack' \in Seq(Frame), Len(stack') <= Len(stack),
         \A i \in 1 .. Len(stack') : Alike(stack'[i], stack[i])
  PROVE  StackOK'
<1>1. ASSUME NEW i \in 1 .. Len(stack')
      PROVE  bucket'[stack'[i].name] # NULL /\ stack'[i].itr < bucket'[stack'[i].name].size
  <2>1. i \in 1 .. Len(stack) /\ stack[i] \in Frame
    BY DEF StackOK
  <2>2. PICK n \in Names : n = stack[i].name
    BY <2>1 DEF Frame
  <2>3. bucket[n] # NULL /\ stack[i].itr < bucket[n].size /\ stack'[i].itr = stack[i].itr
        /\ stack'[i].name = n
    BY <2>1, <2>2 DEF StackOK, Alike
  <2>4. stack[i].itr \in Int
    <3>1. Links(MaxSize) \subseteq Int
      BY BoundsAssumption DEF Links, End
    <3> QED
      BY <2>1, <3>1 DEF Frame
  <2>5. bucket'[n] # NULL /\ bucket'[n].size >= bucket[n].size
    <3>1. ~Gone(n)
      BY <2>1, <2>2 DEF Gone, StackOK
    <3> QED
      BY <2>3, <3>1 DEF Lasting
  <2>6. bucket[n].size \in Nat /\ bucket'[n].size \in Nat
    BY <2>3, <2>5, BucketType DEF BucketsOK, Holds
  <2> QED
    BY <2>3, <2>4, <2>5, <2>6
<1> QED
  BY <1>1 DEF StackOK

(* A step changes no more than the last frame of the stack. *)
LEMMA LastFrame ==
  ASSUME NEW t \in Seq(Frame), t # <<>>, NEW g \in Frame, NEW u, u = [t EXCEPT ![Len(t)] = g]
  PROVE  /\ u \in Seq(Frame) /\ Len(u) = Len(t) /\ Len(t) \in 1 .. Len(t)
         /\ \A i \in 1 .. Len(t) : u[i] = IF i = Len(t) THEN g ELSE t[i]
OBVIOUS

SafeInv == BucketsOK /\ StackOK /\ out.ret \in BOOLEAN

LEMMA InitSafe == Init => SafeInv
<1> SUFFICES ASSUME Init PROVE SafeInv
  OBVIOUS
<1>1. stack = <<>> /\ out.ret \in BOOLEAN
  BY DEF Init
<1>2. StackOK
  BY <1>1 DEF StackOK
<1>3. \A n \in Names : bucket[n] = NULL /\ registered[n] = <<>>
  BY DEF Init
<1>4. IsInjective(<<>>) /\ <<>> \in Seq(Callbacks)
  BY DEF IsInjective
<1>5. BucketsOK
  BY <1>3, <1>4 DEF Init, BucketsOK, Holds
<1> QED
  BY <1>1, <1>2, <1>5 DEF SafeInv

(* The steps of a loop, which leave the registry alone.                    *)
LEMMA LoopSafe ==
  ASSUME SafeInv, UNCHANGED <<bucket, registered>>, out'.ret \in BOOLEAN,
         stack # <<>>, NEW g \in Frame, g.name = Last(stack).name,
         g.itr < bucket[g.name].size, stack' = [stack EXCEPT ![Len(stack)] = g]
  PROVE  SafeInv'
<1>1. stack \in Seq(Frame)
  BY DEF SafeInv, StackOK
<1>2. /\ stack' \in Seq(Frame) /\ Len(stack') = Len(stack) /\ Len(stack) \in 1 .. Len(stack)
      /\ \A i \in 1 .. Len(stack) : stack'[i] = IF i = Len(stack) THEN g ELSE stack[i]
  BY <1>1, LastFrame
<1>3. BucketsOK'
  BY DEF SafeInv, BucketsOK
<1>4. ASSUME NEW i \in 1 .. Len(stack)
      PROVE  bucket[stack'[i].name] # NULL /\ stack'[i].itr < bucket[stack'[i].name].size
  <2>1. CASE i = Len(stack)
    BY <1>2, <2>1 DEF SafeInv, StackOK, Last
  <2>2. CASE i # Len(stack)
    BY <1>2, <2>2 DEF SafeInv, StackOK
  <2> QED
    BY <2>1, <2>2
<1>5. StackOK'
  BY <1>2, <1>4 DEF StackOK
<1> QED
  BY <1>3, <1>5 DEF SafeInv
(* Where list_itr_next leads: an index of the array, or End.               *)
LEMMA NextInArray ==
  ASSUME NEW l, Bucket(l), NEW itr \in Links(MaxSize), itr < l.size
  PROVE  /\ list_itr_next(l, itr) \in Links(MaxSize) /\ list_itr_next(l, itr) < l.size
         /\ list_itr_begin(l) \in Links(MaxSize) /\ list_itr_begin(l) < l.size
<1>1. /\ l.size \in 0 .. MaxSize /\ MaxSize \in Nat
      /\ l.used_head \in Links(l.size)
      /\ l.items \in [0 .. l.size - 1 -> [next : Links(l.size), prev : Links(l.size),
                                          used : BOOLEAN, data : Callbacks \cup {NULL}]]
  BY BoundsAssumption DEF Bucket, L!IsList, L!Items, L!Indices, L!End, Links, End
<1>2. itr # End => l.items[itr].next \in Links(l.size)
  BY <1>1 DEF Links, End
<1>3. list_itr_next(l, itr) \in Links(l.size) /\ list_itr_begin(l) \in Links(l.size)
  BY <1>1, <1>2 DEF list_itr_next, list_itr_begin, Links
<1>4. \A x \in Links(l.size) : x \in Links(MaxSize) /\ x < l.size
  BY <1>1 DEF Links, End
<1> QED
  BY <1>3, <1>4

LEMMA GotCallback ==
  ASSUME NEW l, Bucket(l), NEW itr
  PROVE  list_get(l, itr) \in Callbacks \cup {NULL}
<1>1. l.items \in [0 .. l.size - 1 -> [next : Links(l.size), prev : Links(l.size),
                                       used : BOOLEAN, data : Callbacks \cup {NULL}]]
  BY DEF Bucket, L!IsList, L!Items, L!End, Links, End
<1> QED
  BY <1>1 DEF list_get, Indices

(* A call that a callback may make is one it has left.                     *)
LEMMA CallsLeft ==
  ASSUME NEW kind, MayCall(kind)
  PROVE  /\ stack = <<>> \/ Last(stack).calls > 0
         /\ stack # <<>> => kind \in MayRun /\ Last(stack).callback # NULL
BY DEF MayCall

(* The calls into the registry, cb_delete apart.                           *)
LEMMA CallSafe ==
  ASSUME SafeInv, out'.ret \in BOOLEAN,
         \/ Losing(Names)
         \/ \E n \in Names, c \in Callbacks : AddedTo(n, c) \/ RemovedFrom(n, c),
         stack' \in Seq(Frame), Len(stack') <= Len(stack),
         \A i \in 1 .. Len(stack') : Alike(stack'[i], stack[i])
  PROVE  SafeInv'
<1>1. BucketsOK' /\ \A n \in Names : Lasting(bucket[n], bucket'[n]) \/ Gone(n)
  BY RegistryAfter DEF SafeInv
<1>2. StackOK'
  BY <1>1, StackAfter DEF SafeInv
<1> QED
  BY <1>1, <1>2 DEF SafeInv

LEMMA ChargedSafe ==
  ASSUME SafeInv, out'.ret \in BOOLEAN, stack' = Charged,
         stack = <<>> \/ Last(stack).calls > 0,
         \/ Losing(Names)
         \/ \E n \in Names, c \in Callbacks : AddedTo(n, c) \/ RemovedFrom(n, c)
  PROVE  SafeInv'
<1>1. SameStack(stack')
  BY ChargedStack DEF SafeInv
<1>2. /\ stack' \in Seq(Frame) /\ Len(stack') <= Len(stack)
      /\ \A i \in 1 .. Len(stack') : Alike(stack'[i], stack[i])
  BY <1>1 DEF SameStack, SafeInv, StackOK
<1> QED
  BY <1>2, CallSafe

LEMMA RemoveSafe ==
  ASSUME SafeInv, NEW name \in Names, NEW c \in Callbacks, NEW alloc \in BOOLEAN,
         cb_remove(name, c, alloc)
  PROVE  SafeInv'
<1>1. stack = <<>> \/ Last(stack).calls > 0
  BY DEF cb_remove, MayCall
<1>2. /\ \/ UNCHANGED <<bucket, registered>> /\ stack' = Charged
         \/ RemovedFrom(name, c) /\ stack' = Excused(name, c)
      /\ out'.ret \in BOOLEAN
  BY RemoveChanges DEF SafeInv
<1>3. CASE UNCHANGED <<bucket, registered>> /\ stack' = Charged
  BY <1>1, <1>2, <1>3, ChargedSafe, StillThere DEF SafeInv
<1>4. CASE RemovedFrom(name, c) /\ stack' = Excused(name, c)
  <2>1. /\ stack' \in Seq(Frame) /\ Len(stack') = Len(stack)
        /\ \A i \in 1 .. Len(stack) : Alike(stack'[i], stack[i])
    <3>1. ExcusedFrames(stack', name, c)
      BY <1>1, <1>4, ExcusedStack DEF SafeInv
    <3> QED
      BY <3>1 DEF ExcusedFrames
  <2>2. Len(stack') <= Len(stack)
    BY <2>1 DEF SafeInv, StackOK
  <2> QED
    BY <1>2, <1>4, <2>1, <2>2, CallSafe
<1> QED
  BY <1>2, <1>3, <1>4

(* The frame that cb_call pushes. *)
NewFrame(name) ==
  [name |-> name, itr |-> list_itr_begin(bucket[name]), callback |-> NULL, calls |-> 0,
   called |-> <<>>, owed |-> Range(registered[name])]

LEMMA CallPushes ==
  ASSUME SafeInv, NEW name \in Names, NEW alloc \in BOOLEAN, cb_call(name, alloc)
  PROVE  /\ UNCHANGED <<bucket, registered>>
         /\ stack = <<>> \/ (Last(stack).calls > 0 /\ Last(stack).callback # NULL)
         /\ SameStack(Charged)
         /\ \/ stack' = Charged /\ out' = Answer(FALSE)
            \/ /\ bucket[name] # NULL /\ NewFrame(name) \in Frame /\ UNCHANGED out
               /\ stack' = Append(Charged, NewFrame(name))
<1>1. MayCall("call") /\ UNCHANGED <<bucket, registered>>
  BY DEF cb_call
<1>2. stack = <<>> \/ (Last(stack).calls > 0 /\ Last(stack).callback # NULL)
  BY <1>1, CallsLeft
<1>3. SameStack(Charged)
  BY <1>2, ChargedStack DEF SafeInv
<1>4. CASE find_bucket(name, alloc) = NULL
  BY <1>1, <1>2, <1>3, <1>4 DEF cb_call
<1>5. CASE find_bucket(name, alloc) # NULL
  <2>1. PICK l : l = bucket[name] /\ l = find_bucket(name, alloc) /\ l # NULL
    BY <1>5 DEF find_bucket
  <2>2. stack' = Append(Charged, NewFrame(name)) /\ UNCHANGED out
    BY <1>5, <2>1 DEF cb_call, NewFrame
  <2>3. Bucket(l) /\ registered[name] \in Seq(Callbacks)
    BY <2>1 DEF SafeInv, BucketsOK, Holds
  <2>4. End \in Links(MaxSize) /\ End < l.size
    BY <2>3, BucketType DEF Links, End
  <2>5. list_itr_begin(l) \in Links(MaxSize)
    BY <2>3, <2>4, NextInArray
  <2>6. Range(registered[name]) \subseteq Callbacks
    BY <2>3 DEF Range
  <2>7. NewFrame(name) \in Frame
    BY <2>1, <2>5, <2>6, BoundsAssumption DEF NewFrame, Frame
  <2> QED
    BY <1>1, <1>2, <1>3, <2>1, <2>2, <2>7
<1> QED
  BY <1>4, <1>5

LEMMA CallStartSafe ==
  ASSUME SafeInv, NEW name \in Names, NEW alloc \in BOOLEAN, cb_call(name, alloc)
  PROVE  SafeInv'
<1>1. /\ UNCHANGED <<bucket, registered>>
      /\ stack = <<>> \/ Last(stack).calls > 0
      /\ SameStack(Charged)
  BY CallPushes
<1>2. CASE stack' = Charged /\ out' = Answer(FALSE)
  <2>1. out'.ret \in BOOLEAN
    BY <1>2 DEF Answer
  <2> QED
    BY <1>1, <1>2, <2>1, ChargedSafe, StillThere DEF SafeInv
<1>3. CASE /\ bucket[name] # NULL /\ NewFrame(name) \in Frame /\ UNCHANGED out
           /\ stack' = Append(Charged, NewFrame(name))
  <2>1. PICK u, g : u = Charged /\ g = NewFrame(name)
    OBVIOUS
  <2>2. u \in Seq(Frame) /\ g \in Frame /\ Len(u) = Len(stack)
    BY <1>1, <1>3, <2>1 DEF SameStack
  <2>3. /\ stack' \in Seq(Frame) /\ Len(stack') = Len(stack) + 1 /\ Len(stack) \in Nat
        /\ stack'[Len(stack) + 1] = g
        /\ \A i \in 1 .. Len(stack) : stack'[i] = u[i]
    BY <1>3, <2>1, <2>2
  <2>4. g.name = name /\ g.itr < bucket[name].size
    <3>1. Bucket(bucket[name])
      BY <1>3 DEF SafeInv, BucketsOK, Holds
    <3>2. PICK l : l = bucket[name]
      OBVIOUS
    <3>3. End \in Links(MaxSize) /\ End < l.size
      BY <3>1, <3>2, BucketType DEF Links, End
    <3>4. list_itr_begin(l) < l.size
      BY <3>1, <3>2, <3>3, NextInArray
    <3> QED
      BY <2>1, <3>2, <3>4 DEF NewFrame
  <2>5. ASSUME NEW i \in 1 .. Len(stack')
        PROVE  bucket[stack'[i].name] # NULL /\ stack'[i].itr < bucket[stack'[i].name].size
    <3>1. CASE i \in 1 .. Len(stack)
      <4>1. Alike(stack'[i], stack[i])
        BY <1>1, <2>1, <2>3, <3>1 DEF SameStack
      <4> QED
        BY <3>1, <4>1 DEF Alike, SafeInv, StackOK
    <3>2. CASE i = Len(stack) + 1
      BY <1>3, <2>3, <2>4, <3>2
    <3> QED
      BY <2>3, <3>1, <3>2
  <2>6. StackOK'
    BY <1>1, <2>3, <2>5 DEF StackOK
  <2> QED
    BY <1>1, <1>3, <2>6 DEF SafeInv, BucketsOK
<1> QED
  BY <1>2, <1>3, CallPushes
(* The frame of the loop before and after a step. *)
Top(f, l) == /\ stack # <<>> /\ f = Last(stack) /\ f \in Frame /\ l = bucket[f.name]
             /\ Bucket(l) /\ l # NULL /\ f.itr < l.size

LEMMA TopFrame ==
  ASSUME SafeInv, stack # <<>>, NEW f, f = Last(stack), NEW l, l = bucket[f.name]
  PROVE  Top(f, l)
<1>1. stack \in Seq(Frame) /\ Len(stack) \in 1 .. Len(stack)
  BY DEF SafeInv, StackOK
<1>2. f \in Frame /\ f.name \in Names /\ bucket[f.name] # NULL /\ f.itr < bucket[f.name].size
  <2>1. PICK n \in 1 .. Len(stack) : n = Len(stack) /\ f = stack[n]
    BY <1>1 DEF Last
  <2>2. f \in Frame
    BY <1>1, <2>1
  <2>3. f.name \in Names
    BY <2>2 DEF Frame
  <2>4. bucket[f.name] # NULL /\ f.itr < bucket[f.name].size
    BY <2>1 DEF SafeInv, StackOK
  <2> QED
    BY <2>2, <2>3, <2>4
<1>3. Bucket(l)
  BY <1>2 DEF SafeInv, BucketsOK, Holds
<1> QED
  BY <1>2, <1>3 DEF Top

LEMMA EnterSafe == ASSUME SafeInv, EnterCallback PROVE SafeInv'
<1>1. PICK f, l, c : f = Last(stack) /\ l = bucket[f.name] /\ c = list_get(l, f.itr)
  OBVIOUS
<1>2. PICK g : g = IF c # NULL
                   THEN [f EXCEPT !.callback = c, !.called = Append(@, c), !.calls = MaxCalls]
                   ELSE [f EXCEPT !.itr = list_itr_next(l, @)]
  OBVIOUS
<1>3. /\ stack # <<>> /\ UNCHANGED <<bucket, out, registered>>
      /\ stack' = [stack EXCEPT ![Len(stack)] = g]
  BY <1>1, <1>2 DEF EnterCallback, InLoop
<1>4. Top(f, l)
  BY <1>1, <1>3, TopFrame
<1>5. f \in Frame /\ f.itr \in Links(MaxSize) /\ f.called \in Seq(Callbacks)
  BY <1>4 DEF Top, Frame
<1>6. g \in Frame /\ g.name = f.name /\ g.itr < l.size
  <2>1. CASE c # NULL
    <3>1. c \in Callbacks
      BY <1>1, <1>4, <2>1, GotCallback DEF Top
    <3>2. Append(f.called, c) \in Seq(Callbacks) /\ MaxCalls \in 0 .. MaxCalls
      BY <1>5, <3>1, BoundsAssumption
    <3>3. g = [f EXCEPT !.callback = c, !.called = Append(f.called, c), !.calls = MaxCalls]
      BY <1>2, <2>1
    <3>4. PICK a \in Seq(Callbacks) : a = Append(f.called, c)
      BY <3>2
    <3> QED
      BY <1>4, <1>5, <3>1, <3>2, <3>3, <3>4 DEF Frame, Top
  <2>2. CASE c = NULL
    <3>1. PICK x : x = list_itr_next(l, f.itr)
      OBVIOUS
    <3>2. x \in Links(MaxSize) /\ x < l.size
      BY <1>4, <1>5, <3>1, NextInArray DEF Top
    <3>3. g = [f EXCEPT !.itr = x]
      BY <1>2, <2>2, <3>1
    <3> QED
      BY <1>5, <3>2, <3>3 DEF Frame
  <2> QED
    BY <2>1, <2>2
<1> QED
  BY <1>1, <1>3, <1>6, LoopSafe DEF SafeInv

LEMMA ReturnSafe == ASSUME SafeInv, CallbackReturn PROVE SafeInv'
<1>1. PICK f, l : f = Last(stack) /\ l = bucket[f.name]
  OBVIOUS
<1>2. PICK x, g : x = list_itr_next(l, f.itr)
                  /\ g = [f EXCEPT !.itr = x, !.callback = NULL, !.calls = 0]
  OBVIOUS
<1>3. /\ stack # <<>> /\ UNCHANGED <<bucket, out, registered>>
      /\ stack' = [stack EXCEPT ![Len(stack)] = g]
  BY <1>1, <1>2 DEF CallbackReturn
<1>4. Top(f, l)
  BY <1>1, <1>3, TopFrame
<1>5. f \in Frame /\ f.itr \in Links(MaxSize)
  BY <1>4 DEF Top, Frame
<1>6. x \in Links(MaxSize) /\ x < l.size
  BY <1>2, <1>4, <1>5, NextInArray DEF Top
<1>7. g \in Frame /\ g.name = f.name /\ g.itr < l.size
  <2>1. 0 \in 0 .. MaxCalls /\ NULL \in Callbacks \cup {NULL}
    BY BoundsAssumption
  <2>2. PICK z \in 0 .. MaxCalls : z = 0
    BY <2>1
  <2>3. g = [f EXCEPT !.itr = x, !.callback = NULL, !.calls = z]
    BY <1>2, <2>2
  <2> QED
    BY <1>5, <1>6, <2>3 DEF Frame
<1> QED
  BY <1>1, <1>3, <1>7, LoopSafe DEF SafeInv

(* The stack without its last frame. *)
LEMMA FrontFrames ==
  ASSUME NEW t \in Seq(Frame), t # <<>>, NEW u, u = Front(t)
  PROVE  /\ u \in Seq(Frame) /\ Len(u) = Len(t) - 1 /\ Len(t) \in Nat
         /\ \A i \in 1 .. Len(t) - 1 : u[i] = t[i]
<1>1. Len(t) \in Nat \ {0} /\ Len(t) - 1 \in Nat
  OBVIOUS
<1>2. PICK m \in Nat : m = Len(t) - 1
  BY <1>1
<1>3. PICK o \in Nat : o = 1
  OBVIOUS
<1>4. \A i \in o .. m : t[i] \in Frame
  BY <1>2, <1>3
<1>5. /\ SubSeq(t, o, m) \in Seq(Frame)
      /\ Len(SubSeq(t, o, m)) = IF o <= m THEN m - o + 1 ELSE 0
      /\ \A i \in 1 .. m - o + 1 : SubSeq(t, o, m)[i] = t[o + i - 1]
  BY <1>2, <1>3, <1>4, SubSeqProperties
<1>6. u = SubSeq(t, o, m)
  BY <1>2, <1>3 DEF Front
<1> QED
  BY <1>1, <1>2, <1>3, <1>5, <1>6

LEMMA CallEndSafe == ASSUME SafeInv, CallReturn PROVE SafeInv'
<1>1. /\ stack # <<>> /\ stack' = Front(stack) /\ UNCHANGED <<bucket, registered>>
      /\ out'.ret \in BOOLEAN
  BY DEF CallReturn, InLoop
<1>2. stack \in Seq(Frame)
  BY DEF SafeInv, StackOK
<1>3. /\ stack' \in Seq(Frame) /\ Len(stack') = Len(stack) - 1 /\ Len(stack) \in Nat
      /\ \A i \in 1 .. Len(stack) - 1 : stack'[i] = stack[i]
  BY <1>1, <1>2, FrontFrames
<1>4. Len(stack') <= Len(stack) /\ \A i \in 1 .. Len(stack') : Alike(stack'[i], stack[i])
  BY <1>2, <1>3 DEF Alike
<1> QED
  BY <1>1, <1>3, <1>4, CallSafe, StillThere DEF SafeInv

LEMMA DeleteSafe == ASSUME SafeInv, cb_delete PROVE SafeInv'
<1>1. /\ stack' = <<>> /\ out'.ret \in BOOLEAN
      /\ bucket' = [n \in Names |-> NULL] /\ registered' = [n \in Names |-> <<>>]
  BY DEF cb_delete, Answer
<1>2. StackOK'
  BY <1>1 DEF StackOK
<1>3. \A n \in Names : bucket'[n] = NULL /\ registered'[n] = <<>>
  BY <1>1
<1>4. IsInjective(<<>>) /\ <<>> \in Seq(Callbacks)
  BY DEF IsInjective
<1>5. BucketsOK'
  BY <1>1, <1>3, <1>4 DEF BucketsOK, Holds
<1> QED
  BY <1>1, <1>2, <1>5 DEF SafeInv

LEMMA NextSafe == SafeInv /\ [Next]_vars => SafeInv'
<1> SUFFICES ASSUME SafeInv, [Next]_vars PROVE SafeInv'
  OBVIOUS
<1>1. ASSUME NEW n \in Names, NEW c \in Callbacks, NEW fail \in AddFailures,
             NEW lost \in SUBSET Losable(n, fail), cb_add(n, c, fail, lost)
      PROVE  SafeInv'
  <2>1. stack' = Charged /\ (stack = <<>> \/ Last(stack).calls > 0)
    BY <1>1 DEF cb_add, MayCall
  <2>2. out'.ret \in BOOLEAN /\ (Losing(Names) \/ AddedTo(n, c))
    BY <1>1, AddChanges DEF SafeInv
  <2> QED
    BY <2>1, <2>2, ChargedSafe
<1>2. ASSUME NEW n \in Names, NEW c \in Callbacks, NEW alloc \in BOOLEAN, cb_remove(n, c, alloc)
      PROVE  SafeInv'
  BY <1>2, RemoveSafe
<1>3. ASSUME NEW n \in Names, NEW alloc \in BOOLEAN, cb_has(n, alloc) PROVE SafeInv'
  <2>1. /\ stack' = Charged /\ (stack = <<>> \/ Last(stack).calls > 0)
        /\ UNCHANGED <<bucket, registered>> /\ out'.ret \in BOOLEAN
    BY <1>3 DEF cb_has, MayCall, Answer
  <2> QED
    BY <2>1, ChargedSafe, StillThere DEF SafeInv
<1>4. CASE cb_delete
  BY <1>4, DeleteSafe
<1>5. ASSUME NEW n \in Names, NEW alloc \in BOOLEAN, cb_call(n, alloc) PROVE SafeInv'
  BY <1>5, CallStartSafe
<1>6. CASE EnterCallback
  BY <1>6, EnterSafe
<1>7. CASE CallbackReturn
  BY <1>7, ReturnSafe
<1>8. CASE CallReturn
  BY <1>8, CallEndSafe
<1>9. CASE UNCHANGED vars
  BY <1>9 DEF SafeInv, BucketsOK, StackOK, vars
<1> QED
  BY <1>1, <1>2, <1>3, <1>4, <1>5, <1>6, <1>7, <1>8, <1>9, UsesAssumption DEF Next

LEMMA AlwaysSafe == Spec => []SafeInv
<1>1. Init => SafeInv
  BY InitSafe
<1>2. SafeInv /\ [Next]_vars => SafeInv'
  BY NextSafe
<1> QED
  BY <1>1, <1>2, PTL DEF Spec

(* Frames, answers and buckets have their types, whatever the callbacks    *)
(* do: even an iterator that list_grow in a callback made stale, or whose  *)
(* item a callback removed, stays within the array of src/list.c that      *)
(* cb_call goes on to read.                                                *)
THEOREM TypeCorrect == Spec => []TypeOK
<1>1. SafeInv => TypeOK
  <2> SUFFICES ASSUME SafeInv PROVE TypeOK
    OBVIOUS
  <2>1. ASSUME NEW n \in Names, bucket[n] # NULL
        PROVE  \E m \in 0 .. MaxSize : bucket[n] \in ListT(m)
    <3>1. Bucket(bucket[n])
      BY <2>1 DEF SafeInv, BucketsOK, Holds
    <3> QED
      BY <3>1, BucketType
  <2>2. ASSUME NEW i \in DOMAIN stack
        PROVE  stack[i] \in Frame /\ stack[i].itr < bucket[stack[i].name].size
    <3>1. stack \in Seq(Frame) /\ i \in 1 .. Len(stack)
      BY <2>2 DEF SafeInv, StackOK
    <3> QED
      BY <3>1 DEF SafeInv, StackOK
  <2> QED
    BY <2>1, <2>2 DEF TypeOK, SafeInv
<1> QED
  BY <1>1, AlwaysSafe, PTL

(* A bucket lists the callbacks added and not removed, in order and none   *)
(* twice, for every number of names and callbacks, whichever allocation of *)
(* cb_add fails and whatever the callbacks do while cb_call runs them.     *)
THEOREM BucketsOrdered == Spec => []BucketsInOrder
<1>1. SafeInv => BucketsInOrder
  BY DEF SafeInv, BucketsOK, Holds, BucketsInOrder
<1> QED
  BY <1>1, AlwaysSafe, PTL
-----------------------------------------------------------------------------
(* Callbacks neither add to a bucket that has no room nor remove one whose *)
(* cb_call is at it: these are the calls that make an iterator stale.      *)
IteratorsSafe == {"grow", "remove_running"} \cap MayRun = {}

(* The loop of the frame f over a bucket l with the callbacks s stands at  *)
(* place p of s, or behind its end: what it owes is called already or at p *)
(* or behind it; what is behind p is not called yet, and what is at p only *)
(* if it is running.                                                       *)
StandsAt(f, l, s, p) ==
  /\ IF p = Len(s) + 1 THEN f.itr = End /\ f.callback = NULL ELSE Position(l, f.itr) = {p - 1}
  /\ f.callback # NULL => s[p] = f.callback /\ f.callback \in Range(f.called)
  /\ \A c \in f.owed : c \in Range(f.called) \/ \E k \in p .. Len(s) : s[k] = c
  /\ \A k \in p .. Len(s) : s[k] \in Range(f.called) => k = p /\ f.callback # NULL
  /\ IsInjective(f.called)

Stands(f, l, s) == \E p \in 1 .. Len(s) + 1 : StandsAt(f, l, s, p)

LoopsOK == /\ \A i \in 1 .. Len(stack) :
                Stands(stack[i], bucket[stack[i].name], registered[stack[i].name])
           /\ \A i \in 1 .. Len(stack) - 1 : stack[i].callback # NULL

AnswerOK == out.owed \subseteq Range(out.called) /\ IsInjective(out.called)

LEMMA StandsAlike ==
  ASSUME NEW f, NEW g, Alike(g, f), g.owed = f.owed, NEW l, NEW s, Stands(f, l, s)
  PROVE  Stands(g, l, s)
BY DEF Alike, Stands, StandsAt

(* Behind the place of a running callback one more is added. *)
LEMMA StandsAdded ==
  ASSUME NEW f, NEW g, Alike(g, f), g.owed = f.owed, f.callback # NULL,
         NEW l, NEW s \in Seq(Callbacks), Stands(f, l, s),
         NEW c \in Callbacks, c \notin Range(f.called), NEW r, r = Append(s, c),
         NEW m, \A x : Position(l, x) # {} => Position(m, x) = Position(l, x)
  PROVE  Stands(g, m, r)
<1>1. PICK p \in 1 .. Len(s) + 1 : StandsAt(f, l, s, p)
  BY DEF Stands
<1>2. g.itr = f.itr /\ g.callback = f.callback /\ g.called = f.called
  BY DEF Alike
<1>3. /\ Len(s) \in Nat /\ Len(r) = Len(s) + 1 /\ r[Len(s) + 1] = c
      /\ \A k \in 1 .. Len(s) : r[k] = s[k]
  OBVIOUS
<1>4. p \in 1 .. Len(s) /\ p # Len(r) + 1 /\ p \in 1 .. Len(r) + 1 /\ r[p] = s[p]
  BY <1>1, <1>3 DEF StandsAt
<1>5. Position(l, f.itr) = {p - 1} /\ Position(m, g.itr) = {p - 1}
  BY <1>1, <1>2, <1>4 DEF StandsAt
<1>6. g.callback # NULL /\ r[p] = g.callback /\ g.callback \in Range(g.called)
  BY <1>1, <1>2, <1>4 DEF StandsAt
<1>7. ASSUME NEW d \in g.owed PROVE d \in Range(g.called) \/ \E k \in p .. Len(r) : r[k] = d
  <2>1. d \in Range(g.called) \/ \E k \in p .. Len(s) : s[k] = d
    BY <1>1, <1>2 DEF StandsAt
  <2>2. ASSUME NEW k \in p .. Len(s) PROVE k \in p .. Len(r) /\ r[k] = s[k]
    BY <1>3, <1>4
  <2> QED
    BY <2>1, <2>2
<1>8. ASSUME NEW k \in p .. Len(r), r[k] \in Range(g.called) PROVE k = p
  <2>1. k # Len(s) + 1
    BY <1>2, <1>3, <1>8
  <2>2. k \in p .. Len(s) /\ r[k] = s[k]
    BY <1>3, <1>4, <2>1
  <2> QED
    BY <1>1, <1>2, <1>8, <2>2 DEF StandsAt
<1>9. IsInjective(g.called)
  BY <1>1, <1>2 DEF StandsAt
<1>10. StandsAt(g, m, r, p)
  BY <1>4, <1>5, <1>6, <1>7, <1>8, <1>9 DEF StandsAt
<1> QED
  BY <1>4, <1>10 DEF Stands

(* A callback goes that is not the running one. *)
LEMMA StandsRemoved ==
  ASSUME NEW f, NEW g, NEW c \in Callbacks, Alike(g, f), g.owed = f.owed \ {c},
         f.callback # NULL, f.callback # c,
         NEW l, NEW s \in Seq(Callbacks), IsInjective(s), Stands(f, l, s),
         NEW k \in 1 .. Len(s), s[k] = c, NEW m, Removes(l, s, c, k, m),
         NEW r, r = RemoveFirst(s, c)
  PROVE  Stands(g, m, r)
<1>1. PICK p \in 1 .. Len(s) + 1 : StandsAt(f, l, s, p)
  BY DEF Stands
<1>2. g.itr = f.itr /\ g.callback = f.callback /\ g.called = f.called
  BY DEF Alike
<1>3. /\ Len(s) \in Nat /\ DOMAIN s = 1 .. Len(s)
      /\ \A a, b \in 1 .. Len(s) : s[a] = s[b] => a = b
  BY DEF IsInjective
<1>4. Len(r) = Len(s) - 1 /\ \A i \in 1 .. Len(s) - 1 : r[i] = IF i < k THEN s[i] ELSE s[i + 1]
  <2>1. Without(s, k, r)
    BY RemovesFirst
  <2> QED
    BY <2>1 DEF Without
<1>5. p \in 1 .. Len(s) /\ s[p] = f.callback /\ f.callback \in Range(f.called) /\ p # k
  BY <1>1, <1>3 DEF StandsAt
<1>6. PICK q : q = IF p < k THEN p ELSE p - 1
  OBVIOUS
<1>7. q \in 1 .. Len(r) /\ q \in 1 .. Len(r) + 1 /\ q # Len(r) + 1 /\ r[q] = s[p]
  <2>1. CASE p < k
    <3>1. q = p /\ q \in 1 .. Len(s) - 1 /\ q < k
      BY <1>3, <1>5, <1>6, <2>1
    <3>2. r[q] = s[q]
      BY <1>4, <3>1
    <3>3. Len(r) \in Int /\ q <= Len(r)
      BY <1>3, <1>4, <3>1
    <3> QED
      BY <3>1, <3>2, <3>3
  <2>2. CASE p > k
    <3>1. q = p - 1 /\ q \in 1 .. Len(s) - 1 /\ ~(q < k) /\ q + 1 = p
      BY <1>3, <1>5, <1>6, <2>2
    <3> QED
      BY <1>3, <1>4, <3>1
  <2> QED
    BY <1>5, <2>1, <2>2
<1>8. Position(m, g.itr) = {q - 1}
  <2>1. Position(l, f.itr) = {p - 1}
    BY <1>1, <1>3, <1>5 DEF StandsAt
  <2>2. Position(m, f.itr) = {IF p < k THEN p - 1 ELSE p - 2}
    BY <1>5, <2>1 DEF Removes
  <2>3. (IF p < k THEN p - 1 ELSE p - 2) = q - 1
    BY <1>5, <1>6
  <2> QED
    BY <1>2, <2>2, <2>3
<1>9. ASSUME NEW d \in g.owed PROVE d \in Range(g.called) \/ \E j \in q .. Len(r) : r[j] = d
  <2>1. d \in f.owed /\ d # c
    OBVIOUS
  <2>2. d \in Range(g.called) \/ \E i \in p .. Len(s) : s[i] = d
    BY <1>1, <1>2, <2>1 DEF StandsAt
  <2>3. ASSUME NEW i \in p .. Len(s), s[i] = d PROVE \E j \in q .. Len(r) : r[j] = d
    <3>1. i # k
      BY <2>1, <2>3
    <3>2. PICK j : j = IF i < k THEN i ELSE i - 1
      OBVIOUS
    <3>3. j \in q .. Len(r) /\ j \in 1 .. Len(s) - 1
      BY <1>3, <1>4, <1>5, <1>6, <3>1, <3>2
    <3>4. (i < k => j < k /\ j = i) /\ (~(i < k) => ~(j < k) /\ j + 1 = i)
      BY <1>3, <1>5, <3>1, <3>2
    <3>5. r[j] = s[i]
      BY <1>4, <3>3, <3>4
    <3> QED
      BY <2>3, <3>3, <3>5
  <2> QED
    BY <2>2, <2>3
<1>10. ASSUME NEW j \in q .. Len(r), r[j] \in Range(g.called) PROVE j = q
  <2>1. PICK i : i = IF j < k THEN j ELSE j + 1
    OBVIOUS
  <2>2. j \in 1 .. Len(s) - 1 /\ i \in p .. Len(s)
    <3>1. j \in 1 .. Len(s) - 1 /\ j >= q
      <4>1. Len(r) = Len(s) - 1 /\ q >= 1 /\ q \in Int
        BY <1>4, <1>7
      <4> QED
        BY <1>3, <4>1
    <3>2. CASE p < k
      BY <1>3, <1>5, <1>6, <2>1, <3>1, <3>2
    <3>3. CASE p > k
      BY <1>3, <1>5, <1>6, <2>1, <3>1, <3>3
    <3> QED
      BY <1>5, <3>1, <3>2, <3>3
  <2>3. r[j] = s[i]
    BY <1>4, <2>1, <2>2
  <2>4. i = p
    BY <1>1, <1>2, <1>10, <2>2, <2>3 DEF StandsAt
  <2> QED
    BY <1>5, <1>6, <2>1, <2>2, <2>4
<1>11. IsInjective(g.called)
  BY <1>1, <1>2 DEF StandsAt
<1>12. StandsAt(g, m, r, q)
  BY <1>2, <1>5, <1>7, <1>8, <1>9, <1>10, <1>11 DEF StandsAt
<1> QED
  BY <1>7, <1>12 DEF Stands
(* A callback that makes a call is running, and so are all the callbacks   *)
(* whose cb_calls are under way.                                           *)
LEMMA AllRunning ==
  ASSUME SafeInv, LoopsOK, stack = <<>> \/ Last(stack).callback # NULL
  PROVE  \A i \in 1 .. Len(stack) : stack[i].callback # NULL
<1> TAKE i \in 1 .. Len(stack)
<1>1. Len(stack) \in Nat /\ stack # <<>>
  BY DEF SafeInv, StackOK
<1>2. CASE i = Len(stack)
  BY <1>1, <1>2 DEF Last
<1>3. CASE i # Len(stack)
  BY <1>1, <1>3 DEF LoopsOK
<1> QED
  BY <1>2, <1>3

LEMMA LoopsAfter ==
  ASSUME SafeInv, Len(stack') = Len(stack),
         \A i \in 1 .. Len(stack) : stack[i].callback # NULL,
         \A i \in 1 .. Len(stack) :
           /\ Alike(stack'[i], stack[i])
           /\ Stands(stack'[i], bucket'[stack[i].name], registered'[stack[i].name])
  PROVE  LoopsOK'
<1>1. Len(stack) \in Nat
  BY DEF SafeInv, StackOK
<1>2. ASSUME NEW i \in 1 .. Len(stack')
      PROVE  Stands(stack'[i], bucket'[stack'[i].name], registered'[stack'[i].name])
  BY DEF Alike
<1>3. ASSUME NEW i \in 1 .. Len(stack') - 1 PROVE stack'[i].callback # NULL
  <2>1. i \in 1 .. Len(stack)
    BY <1>1
  <2> QED
    BY <2>1 DEF Alike
<1> QED
  BY <1>2, <1>3 DEF LoopsOK

(* A call that changes nothing under any name that is being called.        *)
LEMMA LoopsIdle ==
  ASSUME SafeInv, LoopsOK, stack = <<>> \/ Last(stack).callback # NULL,
         Losing(Names), SameStack(stack')
  PROVE  LoopsOK'
<1>1. \A i \in 1 .. Len(stack) : stack[i].callback # NULL
  BY AllRunning
<1>2. ASSUME NEW i \in 1 .. Len(stack)
      PROVE  /\ Alike(stack'[i], stack[i])
             /\ Stands(stack'[i], bucket'[stack[i].name], registered'[stack[i].name])
  <2>1. PICK f, g, l, s : /\ f = stack[i] /\ g = stack'[i]
                          /\ l = bucket[stack[i].name] /\ s = registered[stack[i].name]
    OBVIOUS
  <2>2. Alike(g, f) /\ g.owed = f.owed /\ Stands(f, l, s)
    BY <2>1 DEF SameStack, LoopsOK
  <2>3. Stands(g, l, s)
    BY <2>2, StandsAlike
  <2>4. Kept(stack[i].name)
    <3>1. i \in DOMAIN stack /\ stack[i] \in Frame
      BY DEF SafeInv, StackOK
    <3>2. stack[i].name \in Names
      BY <3>1 DEF Frame
    <3> QED
      BY <3>1, <3>2 DEF Losing, Gone
  <2> QED
    BY <2>1, <2>2, <2>3, <2>4 DEF Kept
<1>3. Len(stack') = Len(stack)
  BY DEF SameStack
<1> QED
  BY <1>1, <1>2, <1>3, LoopsAfter

LEMMA LoopsAdd ==
  ASSUME SafeInv, LoopsOK, stack = <<>> \/ Last(stack).callback # NULL, SameStack(stack'),
         NEW name \in Names, NEW c \in Callbacks, AddedTo(name, c),
         stack # <<>> /\ bucket[name] # NULL => bucket[name].count # bucket[name].size,
         \A i \in DOMAIN stack : c \notin Range(stack[i].called)
  PROVE  LoopsOK'
<1>1. \A i \in 1 .. Len(stack) : stack[i].callback # NULL
  BY AllRunning
<1>2. ASSUME NEW i \in 1 .. Len(stack)
      PROVE  /\ Alike(stack'[i], stack[i])
             /\ Stands(stack'[i], bucket'[stack[i].name], registered'[stack[i].name])
  <2>1. PICK f, g, n : f = stack[i] /\ g = stack'[i] /\ n = stack[i].name
    OBVIOUS
  <2>2. PICK l, s : l = bucket[n] /\ s = registered[n]
    OBVIOUS
  <2>3. Alike(g, f) /\ g.owed = f.owed /\ Stands(f, l, s)
    BY <2>1, <2>2 DEF SameStack, LoopsOK
  <2>4. n \in Names /\ l # NULL /\ i \in DOMAIN stack /\ stack # <<>>
    <3>1. f \in Frame /\ i \in DOMAIN stack /\ stack # <<>>
      BY <2>1 DEF SafeInv, StackOK
    <3> QED
      BY <2>1, <2>2, <3>1 DEF SafeInv, StackOK, Frame
  <2>5. CASE n # name
    <3>1. bucket'[n] = l /\ registered'[n] = s
      <4>1. ~Gone(n) /\ n \in Names \ {name}
        BY <2>1, <2>4, <2>5 DEF Gone
      <4> QED
        BY <2>2, <4>1 DEF AddedTo, Others, Losing, Kept
    <3>2. Stands(g, l, s)
      BY <2>3, StandsAlike
    <3> QED
      BY <2>1, <2>3, <3>1, <3>2
  <2>6. CASE n = name
    <3>1. Bucket(l) /\ s \in Seq(Callbacks)
      BY <2>2, <2>4 DEF SafeInv, BucketsOK, Holds
    <3>2. l.count < l.size
      <4>1. l.count \in 0 .. l.size /\ l.size \in Nat
        BY <3>1 DEF Bucket, L!IsList
      <4>2. l.count # l.size
        BY <2>2, <2>4, <2>6
      <4> QED
        BY <4>1, <4>2
    <3>3. PICK m, r : m = bucket'[n] /\ r = registered'[n]
      OBVIOUS
    <3>4. r = Append(s, c) /\ \A x : Position(l, x) # {} => Position(m, x) = Position(l, x)
      BY <2>2, <2>4, <2>6, <3>2, <3>3 DEF AddedTo, AddsAtEnd
    <3>5. f.callback # NULL /\ c \notin Range(f.called)
      BY <1>1, <2>1, <2>4
    <3>6. Stands(g, m, r)
      BY <2>3, <3>1, <3>4, <3>5, StandsAdded
    <3> QED
      BY <2>1, <2>3, <3>3, <3>6
  <2> QED
    BY <2>5, <2>6
<1>3. Len(stack') = Len(stack)
  BY DEF SameStack
<1> QED
  BY <1>1, <1>2, <1>3, LoopsAfter

LEMMA LoopsRemove ==
  ASSUME SafeInv, LoopsOK, stack = <<>> \/ (Last(stack).callback # NULL /\ Last(stack).calls > 0),
         NEW name \in Names, NEW c \in Callbacks, RemovedFrom(name, c),
         stack' = Excused(name, c), c \notin Running
  PROVE  LoopsOK'
<1>1. \A i \in 1 .. Len(stack) : stack[i].callback # NULL
  BY AllRunning
<1>2. PICK t : t = Excused(name, c)
  OBVIOUS
<1>3. /\ t \in Seq(Frame) /\ Len(t) = Len(stack)
      /\ \A i \in 1 .. Len(stack) :
           /\ Alike(t[i], stack[i])
           /\ t[i].owed = IF stack[i].name = name THEN stack[i].owed \ {c} ELSE stack[i].owed
  <2>1. StackOK /\ (stack = <<>> \/ Last(stack).calls > 0)
    BY DEF SafeInv
  <2>2. ExcusedFrames(t, name, c)
    BY <1>2, <2>1, ExcusedStack
  <2> QED
    BY <2>2 DEF ExcusedFrames
<1>4. ASSUME NEW i \in 1 .. Len(stack)
      PROVE  /\ Alike(stack'[i], stack[i])
             /\ Stands(stack'[i], bucket'[stack[i].name], registered'[stack[i].name])
  <2>1. PICK f, g, n : f = stack[i] /\ g = stack'[i] /\ n = stack[i].name
    OBVIOUS
  <2>2. PICK l, s : l = bucket[n] /\ s = registered[n]
    OBVIOUS
  <2>3. Alike(g, f) /\ Stands(f, l, s) /\ g.owed = IF n = name THEN f.owed \ {c} ELSE f.owed
    BY <1>2, <1>3, <2>1, <2>2 DEF LoopsOK
  <2>4. n \in Names /\ i \in DOMAIN stack
    <3>1. f \in Frame /\ i \in DOMAIN stack
      BY <2>1 DEF SafeInv, StackOK
    <3> QED
      BY <2>1, <3>1 DEF Frame
  <2>5. CASE n # name
    <3>1. bucket'[n] = l /\ registered'[n] = s
      <4>1. ~Gone(n) /\ n \in Names \ {name}
        BY <2>1, <2>4, <2>5 DEF Gone
      <4> QED
        BY <2>2, <4>1 DEF RemovedFrom, Others, Losing, Kept
    <3>2. Stands(g, l, s)
      BY <2>3, <2>5, StandsAlike
    <3> QED
      BY <2>1, <2>3, <3>1, <3>2
  <2>6. CASE n = name
    <3>1. s \in Seq(Callbacks) /\ IsInjective(s)
      BY <2>2, <2>4 DEF SafeInv, BucketsOK, Holds
    <3>2. PICK m, r : m = bucket'[n] /\ r = registered'[n]
      OBVIOUS
    <3>3. PICK k \in 1 .. Len(s) : s[k] = c /\ Removes(l, s, c, k, m)
      BY <2>2, <2>6, <3>2 DEF RemovedFrom
    <3>4. r = RemoveFirst(s, c)
      BY <2>2, <2>6, <3>2 DEF RemovedFrom
    <3>5. f.callback # NULL /\ f.callback # c
      BY <1>1, <2>1, <2>4 DEF Running, Range
    <3>6. Stands(g, m, r)
      BY <2>3, <2>6, <3>1, <3>3, <3>4, <3>5, StandsRemoved
    <3> QED
      BY <2>1, <2>3, <3>2, <3>6
  <2> QED
    BY <2>5, <2>6
<1> QED
  BY <1>1, <1>2, <1>3, <1>4, LoopsAfter
(* A new frame stands at the first place and owes everything.              *)
LEMMA LoopsStart ==
  ASSUME SafeInv, LoopsOK, NEW name \in Names, NEW alloc \in BOOLEAN, cb_call(name, alloc)
  PROVE  LoopsOK'
<1>1. /\ UNCHANGED <<bucket, registered>>
      /\ stack = <<>> \/ Last(stack).callback # NULL
      /\ SameStack(Charged)
  BY CallPushes
<1>2. CASE stack' = Charged
  BY <1>1, <1>2, LoopsIdle, StillThere DEF SafeInv
<1>3. CASE /\ bucket[name] # NULL /\ NewFrame(name) \in Frame
           /\ stack' = Append(Charged, NewFrame(name))
  <2>1. PICK u, g, l, s : /\ u = Charged /\ g = NewFrame(name)
                          /\ l = bucket[name] /\ s = registered[name]
    OBVIOUS
  <2>2. u \in Seq(Frame) /\ g \in Frame /\ Len(u) = Len(stack)
    BY <1>1, <1>3, <2>1 DEF SameStack
  <2>3. /\ Len(stack') = Len(stack) + 1 /\ Len(stack) \in Nat
        /\ stack'[Len(stack) + 1] = g
        /\ \A i \in 1 .. Len(stack) : stack'[i] = u[i]
    BY <1>3, <2>1, <2>2
  <2>4. Bucket(l) /\ s = Contents(l)
    BY <1>3, <2>1 DEF SafeInv, BucketsOK, Holds
  <2>5. Loops(l, s)
    BY <2>4, BucketLoops
  <2>6. /\ g.name = name /\ g.itr = list_itr_begin(l) /\ g.callback = NULL
        /\ g.called = <<>> /\ g.owed = Range(s)
    BY <2>1 DEF NewFrame
  <2>7. Stands(g, l, s)
    <3>1. s \in Seq(Callbacks) /\ Len(s) \in Nat /\ 1 \in 1 .. Len(s) + 1 /\ DOMAIN s = 1 .. Len(s)
      BY <2>5 DEF Loops
    <3>2. PICK p \in 1 .. Len(s) + 1 : p = 1
      BY <3>1
    <3>3. IF p = Len(s) + 1 THEN g.itr = End /\ g.callback = NULL ELSE Position(l, g.itr) = {p - 1}
      <4>1. p = Len(s) + 1 <=> s = <<>>
        BY <3>1, <3>2
      <4>2. p - 1 = 0
        BY <3>2
      <4> QED
        BY <2>5, <2>6, <4>1, <4>2 DEF Loops
    <3>4. Range(g.called) = {} /\ IsInjective(g.called)
      BY <2>6 DEF Range, IsInjective
    <3>5. \A c \in g.owed : \E k \in p .. Len(s) : s[k] = c
      BY <2>6, <3>1, <3>2 DEF Range
    <3>6. StandsAt(g, l, s, p)
      BY <2>6, <3>3, <3>4, <3>5 DEF StandsAt
    <3> QED
      BY <3>6 DEF Stands
  <2>8. ASSUME NEW i \in 1 .. Len(stack)
        PROVE  /\ Stands(stack'[i], bucket'[stack'[i].name], registered'[stack'[i].name])
               /\ stack'[i].callback # NULL
    <3>1. PICK f, h, n : f = stack[i] /\ h = stack'[i] /\ n = stack[i].name
      OBVIOUS
    <3>2. Alike(h, f) /\ h.owed = f.owed
      BY <1>1, <2>1, <2>3, <3>1 DEF SameStack
    <3>3. PICK m, r : m = bucket[n] /\ r = registered[n]
      OBVIOUS
    <3>4. Stands(f, m, r)
      BY <3>1, <3>3 DEF LoopsOK
    <3>5. Stands(h, m, r)
      BY <3>2, <3>4, StandsAlike
    <3>6. f.callback # NULL
      BY <1>1, <3>1, AllRunning
    <3> QED
      BY <1>1, <3>1, <3>2, <3>3, <3>5, <3>6 DEF Alike
  <2>9. ASSUME NEW i \in 1 .. Len(stack')
        PROVE  Stands(stack'[i], bucket'[stack'[i].name], registered'[stack'[i].name])
    <3>1. CASE i \in 1 .. Len(stack)
      BY <2>8, <3>1
    <3>2. CASE i = Len(stack) + 1
      BY <1>1, <2>1, <2>3, <2>6, <2>7, <3>2
    <3> QED
      BY <2>3, <3>1, <3>2
  <2>10. ASSUME NEW i \in 1 .. Len(stack') - 1 PROVE stack'[i].callback # NULL
    BY <2>3, <2>8
  <2> QED
    BY <2>9, <2>10 DEF LoopsOK
<1> QED
  BY <1>2, <1>3, CallPushes

(* A step of the innermost loop. *)
LEMMA LoopsTop ==
  ASSUME SafeInv, LoopsOK, stack # <<>>, UNCHANGED <<bucket, registered>>,
         NEW f, f = Last(stack), NEW g \in Frame, g.name = f.name,
         stack' = [stack EXCEPT ![Len(stack)] = g],
         Stands(g, bucket[f.name], registered[f.name])
  PROVE  LoopsOK'
<1>1. stack \in Seq(Frame)
  BY DEF SafeInv, StackOK
<1>2. /\ Len(stack') = Len(stack) /\ Len(stack) \in 1 .. Len(stack)
      /\ \A i \in 1 .. Len(stack) : stack'[i] = IF i = Len(stack) THEN g ELSE stack[i]
  BY <1>1, LastFrame
<1>3. ASSUME NEW i \in 1 .. Len(stack')
      PROVE  Stands(stack'[i], bucket'[stack'[i].name], registered'[stack'[i].name])
  <2>1. CASE i = Len(stack)
    BY <1>2, <2>1
  <2>2. CASE i # Len(stack)
    BY <1>2, <2>2 DEF LoopsOK
  <2> QED
    BY <2>1, <2>2
<1>4. ASSUME NEW i \in 1 .. Len(stack') - 1 PROVE stack'[i].callback # NULL
  <2>1. i \in 1 .. Len(stack) /\ i # Len(stack) /\ i \in 1 .. Len(stack) - 1
    <3>1. Len(stack) \in Nat
      BY <1>1
    <3>2. i \in 1 .. Len(stack) - 1
      BY <1>2, Zenon
    <3> QED
      BY <3>1, <3>2
  <2> QED
    BY <1>2, <2>1 DEF LoopsOK
<1> QED
  BY <1>3, <1>4 DEF LoopsOK

LEMMA TopStands ==
  ASSUME SafeInv, LoopsOK, stack # <<>>, NEW f, f = Last(stack),
         NEW l, l = bucket[f.name], NEW s, s = registered[f.name]
  PROVE  Top(f, l) /\ Loops(l, s) /\ IsInjective(s) /\ Stands(f, l, s)
<1>1. Top(f, l)
  BY TopFrame
<1>2. f.name \in Names /\ Bucket(l) /\ l # NULL
  BY <1>1 DEF Top, Frame
<1>3. Contents(l) = s /\ IsInjective(s)
  BY <1>2 DEF SafeInv, BucketsOK, Holds
<1>4. Loops(l, s)
  BY <1>2, <1>3, BucketLoops
<1>5. stack \in Seq(Frame) /\ Len(stack) \in 1 .. Len(stack)
  BY DEF SafeInv, StackOK
<1>6. PICK n \in 1 .. Len(stack) : n = Len(stack) /\ f = stack[n]
  BY <1>5 DEF Last
<1>7. Stands(f, l, s)
  BY <1>6 DEF LoopsOK
<1> QED
  BY <1>1, <1>3, <1>4, <1>7

(* A sequence without duplicates has none after a new element is appended, *)
(* as the callback that a cb_call enters is to the ones it called.         *)
LEMMA AppendsNew ==
  ASSUME NEW a \in Seq(Callbacks), IsInjective(a), NEW c \in Callbacks, c \notin Range(a)
  PROVE  Range(Append(a, c)) = Range(a) \cup {c} /\ IsInjective(Append(a, c))
<1>1. PICK n \in Nat : n = Len(a)
  OBVIOUS
<1>2. PICK d : d = Append(a, c)
  OBVIOUS
<1>3. DOMAIN a = 1 .. n /\ DOMAIN d = 1 .. n + 1
  BY <1>1, <1>2
<1>4. d[n + 1] = c /\ \A k \in 1 .. n : d[k] = a[k]
  BY <1>1, <1>2
<1>5. Range(d) = Range(a) \cup {c}
  BY <1>3, <1>4 DEF Range
<1>6. \A k \in 1 .. n : d[k] # c
  BY <1>3, <1>4 DEF Range
<1>7. \A k, m \in 1 .. n : a[k] = a[m] => k = m
  BY <1>3 DEF IsInjective
<1>8. ASSUME NEW k \in 1 .. n + 1, NEW m \in 1 .. n + 1, d[k] = d[m]  PROVE k = m
  <2>1. (k \in 1 .. n \/ k = n + 1) /\ (m \in 1 .. n \/ m = n + 1)
    OBVIOUS
  <2>2. CASE k \in 1 .. n /\ m \in 1 .. n
    BY <1>4, <1>7, <1>8, <2>2
  <2>3. CASE k = n + 1 \/ m = n + 1
    BY <1>4, <1>6, <1>8, <2>1, <2>3
  <2> QED
    BY <2>1, <2>2, <2>3
<1>9. IsInjective(d)
  BY <1>3, <1>8 DEF IsInjective
<1> QED
  BY <1>2, <1>5, <1>9

LEMMA LoopsEnter == ASSUME SafeInv, LoopsOK, EnterCallback PROVE LoopsOK'
<1>1. PICK f, l, s : f = Last(stack) /\ l = bucket[f.name] /\ s = registered[f.name]
  OBVIOUS
<1>2. PICK c : c = list_get(l, f.itr)
  OBVIOUS
<1>3. /\ stack # <<>> /\ UNCHANGED <<bucket, registered>> /\ f.callback = NULL /\ f.itr # End
      /\ c # NULL => stack' = [stack EXCEPT ![Len(stack)] =
                       [f EXCEPT !.callback = c, !.called = Append(@, c), !.calls = MaxCalls]]
  BY <1>1, <1>2 DEF EnterCallback, InLoop
<1>4. Top(f, l) /\ Loops(l, s) /\ IsInjective(s) /\ Stands(f, l, s)
  BY <1>1, <1>3, TopStands
<1>5. PICK p \in 1 .. Len(s) + 1 : StandsAt(f, l, s, p)
  BY <1>4 DEF Stands
<1>6. /\ s \in Seq(Callbacks) /\ Len(s) \in Nat /\ DOMAIN s = 1 .. Len(s)
      /\ \A a, b \in 1 .. Len(s) : s[a] = s[b] => a = b
  BY <1>4 DEF Loops, IsInjective
<1>7. p # Len(s) + 1 /\ p \in 1 .. Len(s) /\ Position(l, f.itr) = {p - 1}
  BY <1>3, <1>5, <1>6 DEF StandsAt
<1>8. c = s[p] /\ c \in Callbacks /\ c # NULL
  <2>1. c = s[p]
    BY <1>2, <1>4, <1>7 DEF Loops
  <2> QED
    BY <1>6, <1>7, <2>1, CallbacksAssumption
<1>9. f \in Frame /\ f.called \in Seq(Callbacks)
  BY <1>4 DEF Top, Frame
<1>10. PICK d \in Seq(Callbacks) : d = Append(f.called, c)
  <2>1. PICK a \in Seq(Callbacks) : a = f.called
    BY <1>9
  <2>2. Append(a, c) \in Seq(Callbacks)
    BY <1>8
  <2> QED
    BY <2>1, <2>2
<1>11. c \notin Range(f.called)
  BY <1>3, <1>5, <1>6, <1>7, <1>8 DEF StandsAt
<1>12. Range(d) = Range(f.called) \cup {c} /\ IsInjective(d)
  <2>1. IsInjective(f.called)
    BY <1>5 DEF StandsAt
  <2> QED
    BY <1>8, <1>9, <1>10, <1>11, <2>1, AppendsNew
<1>13. PICK g : g = [f EXCEPT !.callback = c, !.called = d, !.calls = MaxCalls]
  OBVIOUS
<1>14. /\ g.name = f.name /\ g.itr = f.itr /\ g.callback = c /\ g.called = d /\ g.owed = f.owed
       /\ g \in Frame
  <2>1. PICK z \in 0 .. MaxCalls : z = MaxCalls
    BY BoundsAssumption
  <2>2. g = [f EXCEPT !.callback = c, !.called = d, !.calls = z]
    BY <1>13, <2>1
  <2> QED
    BY <1>8, <1>9, <2>2 DEF Frame
<1>15. ASSUME NEW e \in g.owed PROVE e \in Range(g.called) \/ \E k \in p .. Len(s) : s[k] = e
  BY <1>5, <1>12, <1>14 DEF StandsAt
<1>16. ASSUME NEW k \in p .. Len(s), s[k] \in Range(g.called) PROVE k = p /\ g.callback # NULL
  <2>1. CASE s[k] = c
    BY <1>6, <1>7, <1>8, <1>14, <2>1
  <2>2. CASE s[k] \in Range(f.called)
    BY <1>3, <1>5, <2>2 DEF StandsAt
  <2> QED
    BY <1>12, <1>14, <1>16, <2>1, <2>2
<1>17. StandsAt(g, l, s, p)
  BY <1>7, <1>8, <1>12, <1>14, <1>15, <1>16 DEF StandsAt
<1>18. Stands(g, l, s)
  BY <1>17 DEF Stands
<1>19. stack' = [stack EXCEPT ![Len(stack)] = g]
  BY <1>3, <1>8, <1>10, <1>13
<1> QED
  BY <1>1, <1>3, <1>14, <1>18, <1>19, LoopsTop

LEMMA LoopsReturn == ASSUME SafeInv, LoopsOK, CallbackReturn PROVE LoopsOK'
<1>1. PICK f, l, s : f = Last(stack) /\ l = bucket[f.name] /\ s = registered[f.name]
  OBVIOUS
<1>2. PICK x, g : x = list_itr_next(l, f.itr)
                  /\ g = [f EXCEPT !.itr = x, !.callback = NULL, !.calls = 0]
  OBVIOUS
<1>3. /\ stack # <<>> /\ UNCHANGED <<bucket, registered>> /\ f.callback # NULL
      /\ stack' = [stack EXCEPT ![Len(stack)] = g]
  BY <1>1, <1>2 DEF CallbackReturn
<1>4. Top(f, l) /\ Loops(l, s) /\ IsInjective(s) /\ Stands(f, l, s)
  BY <1>1, <1>3, TopStands
<1>5. PICK p \in 1 .. Len(s) + 1 : StandsAt(f, l, s, p)
  BY <1>4 DEF Stands
<1>6. s \in Seq(Callbacks) /\ Len(s) \in Nat
  BY <1>4 DEF Loops
<1>7. /\ p \in 1 .. Len(s) /\ p # Len(s) + 1 /\ Position(l, f.itr) = {p - 1}
      /\ s[p] = f.callback /\ f.callback \in Range(f.called)
  BY <1>3, <1>5, <1>6 DEF StandsAt
<1>8. PICK q \in 1 .. Len(s) + 1 : q = p + 1 /\ q - 1 = p /\ (q = Len(s) + 1 <=> p = Len(s))
  BY <1>6, <1>7
<1>9. IF p = Len(s) THEN x = End ELSE Position(l, x) = {p}
  BY <1>2, <1>4, <1>7 DEF Loops
<1>10. f \in Frame /\ f.itr \in Links(MaxSize) /\ f.itr < l.size /\ Bucket(l)
  BY <1>4 DEF Top, Frame
<1>11. x \in Links(MaxSize)
  BY <1>2, <1>10, NextInArray
<1>12. /\ g.name = f.name /\ g.itr = x /\ g.callback = NULL /\ g.called = f.called
       /\ g.owed = f.owed /\ g \in Frame
  <2>1. PICK z \in 0 .. MaxCalls : z = 0
    BY BoundsAssumption
  <2>2. g = [f EXCEPT !.itr = x, !.callback = NULL, !.calls = z]
    BY <1>2, <2>1
  <2> QED
    BY <1>10, <1>11, <2>2 DEF Frame
<1>13. IF q = Len(s) + 1 THEN g.itr = End /\ g.callback = NULL ELSE Position(l, g.itr) = {q - 1}
  BY <1>8, <1>9, <1>12
<1>14. ASSUME NEW e \in g.owed PROVE e \in Range(g.called) \/ \E k \in q .. Len(s) : s[k] = e
  <2>1. e \in Range(f.called) \/ \E k \in p .. Len(s) : s[k] = e
    BY <1>5, <1>12 DEF StandsAt
  <2>2. ASSUME NEW k \in p .. Len(s), s[k] = e PROVE e \in Range(f.called) \/ k \in q .. Len(s)
    BY <1>6, <1>7, <1>8, <2>2
  <2> QED
    BY <1>12, <2>1, <2>2
<1>15. ASSUME NEW k \in q .. Len(s), s[k] \in Range(g.called) PROVE FALSE
  <2>1. k \in p .. Len(s) /\ k # p
    BY <1>6, <1>7, <1>8
  <2> QED
    BY <1>5, <1>12, <1>15, <2>1 DEF StandsAt
<1>16. StandsAt(g, l, s, q)
  BY <1>5, <1>12, <1>13, <1>14, <1>15 DEF StandsAt
<1>17. Stands(g, l, s)
  BY <1>16 DEF Stands
<1> QED
  BY <1>1, <1>3, <1>12, <1>17, LoopsTop

LEMMA LoopsEnd == ASSUME SafeInv, LoopsOK, CallReturn PROVE LoopsOK' /\ AnswerOK'
<1>1. PICK f, l, s : f = Last(stack) /\ l = bucket[f.name] /\ s = registered[f.name]
  OBVIOUS
<1>2. /\ stack # <<>> /\ UNCHANGED <<bucket, registered>> /\ f.itr = End
      /\ stack' = Front(stack)
      /\ out' = [ret |-> f.called # <<>>, owed |-> f.owed, called |-> f.called]
  BY <1>1 DEF CallReturn, InLoop
<1>3. Top(f, l) /\ Loops(l, s) /\ Stands(f, l, s)
  BY <1>1, <1>2, TopStands
<1>4. PICK p \in 1 .. Len(s) + 1 : StandsAt(f, l, s, p)
  BY <1>3 DEF Stands
<1>5. s \in Seq(Callbacks) /\ Len(s) \in Nat
  BY <1>3 DEF Loops
<1>6. p = Len(s) + 1
  <2>1. ASSUME p # Len(s) + 1 PROVE FALSE
    <3>1. p \in 1 .. Len(s) /\ Position(l, f.itr) = {p - 1}
      BY <1>4, <1>5, <2>1 DEF StandsAt
    <3>2. f.itr \in Indices(l)
      BY <1>3, <3>1 DEF Loops
    <3>3. l.size \in Nat
      BY <1>3 DEF Top, Bucket, L!IsList
    <3> QED
      BY <1>2, <3>2, <3>3 DEF Indices, End
  <2> QED
    BY <2>1
<1>7. AnswerOK'
  <2>1. \A c \in f.owed : c \in Range(f.called)
    BY <1>4, <1>5, <1>6 DEF StandsAt
  <2>2. IsInjective(f.called)
    BY <1>4 DEF StandsAt
  <2>3. out'.owed = f.owed /\ out'.called = f.called
    BY <1>2
  <2> QED
    BY <2>1, <2>2, <2>3 DEF AnswerOK
<1>8. stack \in Seq(Frame)
  BY DEF SafeInv, StackOK
<1>9. /\ Len(stack') = Len(stack) - 1 /\ Len(stack) \in Nat
      /\ \A i \in 1 .. Len(stack) - 1 : stack'[i] = stack[i]
  BY <1>2, <1>8, FrontFrames
<1>10. LoopsOK'
  <2>1. \A i \in 1 .. Len(stack) - 1 : i \in 1 .. Len(stack)
    BY <1>9
  <2>2. ASSUME NEW i \in 1 .. Len(stack')
        PROVE  Stands(stack'[i], bucket'[stack'[i].name], registered'[stack'[i].name])
    BY <1>2, <1>9, <2>1 DEF LoopsOK
  <2>3. ASSUME NEW i \in 1 .. Len(stack') - 1 PROVE stack'[i].callback # NULL
    <3>1. i \in 1 .. Len(stack) - 1
      BY <1>9
    <3> QED
      BY <1>9, <3>1 DEF LoopsOK
  <2> QED
    BY <2>2, <2>3 DEF LoopsOK
<1> QED
  BY <1>7, <1>10
LoopInv == SafeInv /\ LoopsOK /\ AnswerOK

LEMMA AnswersOK ==
  ASSUME NEW ret, out' = Answer(ret)
  PROVE  AnswerOK'
<1>1. out'.owed = {} /\ out'.called = <<>>
  BY DEF Answer
<1> QED
  BY <1>1 DEF AnswerOK, IsInjective

LEMMA InitLoops == Init => LoopInv
<1> SUFFICES ASSUME Init PROVE LoopInv
  OBVIOUS
<1>1. stack = <<>> /\ out.owed = {} /\ out.called = <<>>
  BY DEF Init
<1>2. LoopsOK
  BY <1>1 DEF LoopsOK
<1>3. AnswerOK
  BY <1>1 DEF AnswerOK, IsInjective
<1> QED
  BY <1>2, <1>3, InitSafe DEF LoopInv

LEMMA NextLoops == IteratorsSafe /\ LoopInv /\ [Next]_vars => LoopInv'
<1> SUFFICES ASSUME IteratorsSafe, LoopInv, [Next]_vars PROVE LoopsOK' /\ AnswerOK'
  BY NextSafe DEF LoopInv
<1>0. SafeInv /\ LoopsOK /\ AnswerOK /\ StackOK
  BY DEF LoopInv, SafeInv
<1>1. ASSUME NEW n \in Names, NEW c \in Callbacks, NEW fail \in AddFailures,
             NEW lost \in SUBSET Losable(n, fail), cb_add(n, c, fail, lost)
      PROVE  LoopsOK' /\ AnswerOK'
  <2> DEFINE full == bucket[n] # NULL /\ bucket[n].count = bucket[n].size
  <2>1. /\ MayCall(IF full THEN "grow" ELSE "add") /\ stack' = Charged
        /\ \A i \in DOMAIN stack : c \notin Range(stack[i].called)
        /\ out' = Answer(cb_added(n, c, fail).ret)
    BY <1>1 DEF cb_add
  <2>2. /\ stack = <<>> \/ Last(stack).callback # NULL
        /\ stack = <<>> \/ Last(stack).calls > 0
        /\ stack # <<>> => ~full
    BY <2>1 DEF MayCall, IteratorsSafe
  <2>3. SameStack(stack')
    BY <1>0, <2>1, <2>2, ChargedStack
  <2>4. AnswerOK'
    BY <2>1, AnswersOK
  <2>5. Losing(Names) \/ AddedTo(n, c)
    BY <1>1, AddChanges DEF LoopInv, SafeInv
  <2>6. CASE Losing(Names)
    BY <1>0, <2>2, <2>3, <2>4, <2>6, LoopsIdle
  <2>7. CASE AddedTo(n, c)
    <3>1. stack # <<>> /\ bucket[n] # NULL => bucket[n].count # bucket[n].size
      BY <2>2
    <3> QED
      BY <1>0, <2>1, <2>2, <2>3, <2>4, <2>7, <3>1, LoopsAdd
  <2> QED
    BY <2>5, <2>6, <2>7
<1>2. ASSUME NEW n \in Names, NEW c \in Callbacks, NEW alloc \in BOOLEAN, cb_remove(n, c, alloc)
      PROVE  LoopsOK' /\ AnswerOK'
  <2>1. stack # <<>> => MayCall(IF c \in Running THEN "remove_running" ELSE "remove_other")
    BY <1>2 DEF cb_remove
  <2>2. /\ stack = <<>> \/ (Last(stack).callback # NULL /\ Last(stack).calls > 0)
        /\ stack # <<>> => c \notin Running
    BY <2>1 DEF MayCall, IteratorsSafe
  <2>3. c \notin Running
    BY <2>2 DEF Running, Range
  <2>4. AnswerOK'
    <3>1. PICK ret : out' = Answer(ret)
      BY <1>2 DEF cb_remove
    <3> QED
      BY <3>1, AnswersOK
  <2>5. \/ UNCHANGED <<bucket, registered>> /\ stack' = Charged
        \/ RemovedFrom(n, c) /\ stack' = Excused(n, c)
    BY <1>2, RemoveChanges DEF LoopInv, SafeInv
  <2>6. CASE UNCHANGED <<bucket, registered>> /\ stack' = Charged
    <3>1. SameStack(stack')
      BY <1>0, <2>2, <2>6, ChargedStack
    <3> QED
      BY <1>0, <2>2, <2>4, <2>6, <3>1, LoopsIdle, StillThere DEF SafeInv
  <2>7. CASE RemovedFrom(n, c) /\ stack' = Excused(n, c)
    BY <1>0, <2>2, <2>3, <2>4, <2>7, LoopsRemove
  <2> QED
    BY <2>5, <2>6, <2>7
<1>3. ASSUME NEW n \in Names, NEW alloc \in BOOLEAN, cb_has(n, alloc) PROVE LoopsOK' /\ AnswerOK'
  <2>1. MayCall("call") /\ stack' = Charged /\ UNCHANGED <<bucket, registered>>
    BY <1>3 DEF cb_has
  <2>2. stack = <<>> \/ (Last(stack).callback # NULL /\ Last(stack).calls > 0)
    BY <2>1 DEF MayCall
  <2>3. PICK ret : out' = Answer(ret)
    BY <1>3 DEF cb_has
  <2>4. SameStack(stack')
    BY <1>0, <2>1, <2>2, ChargedStack
  <2>5. LoopsOK'
    BY <1>0, <2>1, <2>2, <2>4, LoopsIdle, StillThere DEF SafeInv
  <2> QED
    BY <2>3, <2>5, AnswersOK
<1>4. CASE cb_delete
  <2>1. stack' = <<>> /\ out' = Answer(TRUE)
    BY <1>4 DEF cb_delete
  <2>2. PICK ret : out' = Answer(ret)
    BY <2>1
  <2>3. LoopsOK'
    BY <2>1 DEF LoopsOK
  <2> QED
    BY <2>2, <2>3, AnswersOK
<1>5. ASSUME NEW n \in Names, NEW alloc \in BOOLEAN, cb_call(n, alloc) PROVE LoopsOK' /\ AnswerOK'
  <2>1. LoopsOK'
    BY <1>0, <1>5, LoopsStart
  <2>2. UNCHANGED out \/ \E ret : out' = Answer(ret)
    BY <1>5 DEF cb_call
  <2>3. AnswerOK'
    <3>1. CASE UNCHANGED out
      BY <1>0, <3>1 DEF AnswerOK
    <3>2. ASSUME NEW ret, out' = Answer(ret) PROVE AnswerOK'
      BY <3>2, AnswersOK
    <3> QED
      BY <2>2, <3>1, <3>2
  <2> QED
    BY <2>1, <2>3
<1>6. CASE EnterCallback
  <2>1. LoopsOK'
    BY <1>0, <1>6, LoopsEnter
  <2> QED
    BY <1>0, <1>6, <2>1 DEF EnterCallback, AnswerOK
<1>7. CASE CallbackReturn
  <2>1. LoopsOK'
    BY <1>0, <1>7, LoopsReturn
  <2> QED
    BY <1>0, <1>7, <2>1 DEF CallbackReturn, AnswerOK
<1>8. CASE CallReturn
  BY <1>0, <1>8, LoopsEnd
<1>9. CASE UNCHANGED vars
  BY <1>0, <1>9 DEF LoopsOK, AnswerOK, vars
<1> QED
  BY <1>1, <1>2, <1>3, <1>4, <1>5, <1>6, <1>7, <1>8, <1>9, UsesAssumption DEF Next

(* cb_call calls every callback that stays under its name exactly once,    *)
(* however deep calls are nested and whatever is added behind, removed or  *)
(* called meanwhile, as long as no callback grows a bucket or removes one  *)
(* that is running: the iterators of src/list.c stay good across the rest. *)
THEOREM EachCalledOnce == IteratorsSafe => (Spec => []CallsEachOnce)
<1>1. LoopInv => CallsEachOnce
  <2> SUFFICES ASSUME LoopInv, NEW c \in out.owed
               PROVE  Cardinality({i \in DOMAIN out.called : out.called[i] = c}) = 1
    BY DEF CallsEachOnce
  <2>1. c \in Range(out.called) /\ IsInjective(out.called)
    BY DEF LoopInv, AnswerOK
  <2>2. PICK k \in DOMAIN out.called : out.called[k] = c
    BY <2>1 DEF Range
  <2>3. {i \in DOMAIN out.called : out.called[i] = c} = {k}
    BY <2>1, <2>2 DEF IsInjective
  <2> QED
    BY <2>3, FS_Singleton
<1>2. ASSUME IteratorsSafe PROVE LoopInv /\ [Next]_vars => LoopInv'
  BY <1>2, NextLoops
<1> SUFFICES ASSUME IteratorsSafe PROVE Spec => []CallsEachOnce
  OBVIOUS
<1>3. LoopInv /\ [Next]_vars => LoopInv'
  BY <1>2
<1> QED
  BY <1>1, <1>3, InitLoops, PTL DEF Spec
=============================================================================

----------------------------- MODULE ListProofs -----------------------------
(***************************************************************************)
(* The rings of a list_t stay intact, for every array size, every set of   *)
(* pointers and every sequence of calls.                                   *)
(*                                                                         *)
(* The argument: a ring is a sequence s of distinct slots whose links are  *)
(* the neighbours in s.  remove_item and insert_item change the links of   *)
(* at most three slots (RemoveFields, InsertFields), so one ring becomes a *)
(* sequence with one slot less or more (RingRemove, RingInsert) and the    *)
(* other, which shares no slot with it, is not touched (RingFrame).        *)
(* list_push and list_pop are one removal and one insertion (PlacedRings,  *)
(* PoppedRings); list_grow copies the walk along the used ring, which is s *)
(* (WalkOfRing), into the first slots of a larger array (RegrownRings).    *)
(*                                                                         *)
(* What the list promises follows along the used ring: the data along it   *)
(* are the contents (ContentsAlong), each call does to them one step of    *)
(* ListSpec (PushRings, PopRings, GrowRings), and the backward iterators   *)
(* follow its prev links (BackOfRing).                                     *)
(***************************************************************************)
EXTENDS List, TLAPS, WellFoundedInduction, SequenceTheorems

(* The order of the naturals as a set of pairs, so that induction can be   *)
(* argued with sets: a non-empty set of naturals has a least element.      *)
LessThan == {ss \in Nat \X Nat : ss[1] < ss[2]}

LEMMA LessThanWellFounded == IsWellFoundedOn(LessThan, Nat)
<1>1. LessThan = OpToRel(<, Nat)
  BY Zenon DEF LessThan, OpToRel
<1> QED
  BY <1>1, NatLessThanWellFounded, Zenon

LEMMA LeastElement ==
  ASSUME NEW T \in SUBSET Nat, T # {}
  PROVE  \E x \in T : \A y \in T : x <= y
<1>1. PICK x \in T : \A y \in T : ~ (<<y, x>> \in LessThan)
  BY LessThanWellFounded, WFMin
<1>2. ASSUME NEW y \in T PROVE x <= y
  <2>1. x \in Nat /\ y \in Nat
    OBVIOUS
  <2>2. y < x => <<y, x>> \in LessThan
    BY <2>1 DEF LessThan
  <2> QED
    BY <1>1, <2>1, <2>2
<1> QED
  BY <1>2

LEMMA SetInduction ==
  ASSUME NEW n \in Nat, NEW S, 0 \in S, \A k \in 0 .. n - 1 : k \in S => k + 1 \in S
  PROVE  0 .. n \subseteq S
<1> DEFINE T == (0 .. n) \ S
<1> SUFFICES ASSUME T # {} PROVE FALSE
  OBVIOUS
<1>1. PICK m \in T : \A y \in T : m <= y
  <2>1. T \in SUBSET Nat
    OBVIOUS
  <2> HIDE DEF T
  <2> QED
    BY <2>1, LeastElement
<1>2. m \in 1 .. n
  OBVIOUS
<1>3. m - 1 \in 0 .. n - 1 /\ m - 1 \notin T
  BY <1>1, <1>2
<1> QED
  BY <1>2, <1>3

-----------------------------------------------------------------------------
LEMMA WalkOfRing ==
  ASSUME NEW l, IsList(l), NEW u, UsedRing(l, u)
  PROVE  /\ Walk(l) \in [0 .. l.size -> {End} \cup Indices(l)]
         /\ \A k \in 0 .. l.count - 1 : Walk(l)[k] = u[k]
         /\ Walk(l)[l.count] = End
         /\ WalkLength(l) = l.count
<1> DEFINE w == Walk(l)
           F(v) == [k \in 0 .. l.size |-> IF k = 0 THEN list_itr_begin(l)
                                          ELSE list_itr_next(l, v[k - 1])]
           v0 == [k \in 0 .. l.size |-> IF k < l.count THEN u[k] ELSE End]
<1>0. /\ l.size \in Nat /\ l.count \in 0 .. l.size
      /\ u \in [0 .. l.count - 1 -> 0 .. l.size - 1]
      /\ l.count > 0 => l.used_head = u[0]
      /\ l.items \in Items(l.size)
  BY SizeAssumption DEF IsList, UsedRing, IsRing, Indices
<1>1. list_itr_begin(l) = v0[0]
  BY <1>0 DEF list_itr_begin
<1>2. ASSUME NEW k \in 1 .. l.size
      PROVE  list_itr_next(l, v0[k - 1]) = v0[k]
  <2>1. CASE k - 1 < l.count
    <3>0. k - 1 \in 0 .. l.count - 1 /\ k - 1 \in 0 .. l.size
      BY <1>0, <2>1
    <3>1. v0[k - 1] = u[k - 1] /\ u[k - 1] # End /\ k - 1 \in 0 .. l.count - 1
      <4>1. u[k - 1] \in 0 .. l.size - 1
        BY <1>0, <3>0
      <4> QED
        BY <1>0, <2>1, <3>0, <4>1 DEF End
    <3>2. l.items[u[k - 1]].next = u[After(0, l.count - 1, k - 1)]
      BY <3>1 DEF UsedRing, IsRing
    <3>3. CASE k = l.count
      <4>1. l.items[u[k - 1]].next = l.used_head
        BY <1>0, <3>2, <3>3 DEF After
      <4> QED
        BY <1>0, <3>1, <4>1, <3>3 DEF list_itr_next
    <3>4. CASE k # l.count
      <4>1. k \in 0 .. l.count - 1 /\ l.items[u[k - 1]].next = u[k]
        BY <1>0, <3>2, <3>4, <2>1 DEF After
      <4>2. u[k] # l.used_head
        BY <1>0, <4>1 DEF UsedRing, IsRing
      <4> QED
        BY <1>0, <3>1, <4>1, <4>2 DEF list_itr_next
    <3> QED
      BY <3>3, <3>4
  <2>2. CASE ~ (k - 1 < l.count)
    <3>1. v0[k - 1] = End /\ v0[k] = End
      BY <1>0, <2>2
    <3> QED
      BY <3>1 DEF list_itr_next
  <2> QED
    BY <2>1, <2>2
<1>3. v0 = F(v0)
  <2>1. ASSUME NEW k \in 0 .. l.size
        PROVE  v0[k] = IF k = 0 THEN list_itr_begin(l) ELSE list_itr_next(l, v0[k - 1])
    <3> HIDE DEF v0
    <3>1. CASE k = 0
      BY <1>1, <3>1
    <3>2. CASE k # 0
      <4>1. k \in 1 .. l.size
        BY <1>0, <3>2
      <4> QED
        BY <1>2, <3>2, <4>1
    <3> QED
      BY <3>1, <3>2
  <2>2. v0 = [k \in 0 .. l.size |-> v0[k]]
    OBVIOUS
  <2> HIDE DEF v0
  <2> QED
    BY <2>1, <2>2
<1>4. w = F(w)
  <2>1. w = CHOOSE v : v = F(v)
    BY DEF Walk
  <2> HIDE DEF w, v0, F
  <2> QED
    BY <1>3, <2>1
<1>5. w[0] = v0[0] /\ \A k \in 1 .. l.size : w[k] = list_itr_next(l, w[k - 1])
  <2> HIDE DEF w
  <2> QED
    BY <1>0, <1>1, <1>4
<1>6. \A k \in 0 .. l.size : w[k] = v0[k]
  <2> DEFINE S == {k \in 0 .. l.size : w[k] = v0[k]}
  <2>1. 0 \in S
    BY <1>0, <1>5
  <2>2. ASSUME NEW k \in 0 .. l.size - 1, k \in S
        PROVE  k + 1 \in S
    <3> HIDE DEF v0, w
    <3>1. k + 1 \in 1 .. l.size /\ (k + 1) - 1 = k
      BY <1>0
    <3>2. w[k + 1] = list_itr_next(l, w[k])
      BY <1>5, <3>1
    <3>3. v0[k + 1] = list_itr_next(l, v0[k])
      BY <1>2, <3>1
    <3> QED
      BY <2>2, <3>1, <3>2, <3>3
  <2> HIDE DEF S
  <2>3. 0 .. l.size \subseteq S
    BY <1>0, <2>1, <2>2, SetInduction
  <2> QED
    BY <2>3 DEF S
<1>7. w = v0
  <2> HIDE DEF w
  <2> QED
    BY <1>4, <1>6
<1>8. WalkLength(l) = l.count
  <2>1. \A n \in 0 .. l.size :
          (w[n] = End /\ \A m \in 0 .. n - 1 : w[m] # End) <=> n = l.count
    <3> HIDE DEF w, v0
    <3>1. ASSUME NEW m \in 0 .. l.count - 1  PROVE w[m] # End
      <4>1. m \in 0 .. l.size /\ m < l.count /\ u[m] \in 0 .. l.size - 1
        BY <1>0
      <4>2. w[m] = u[m]
        BY <1>7, <4>1 DEF v0
      <4> QED
        BY <1>0, <4>1, <4>2 DEF End
    <3>2. \A m \in l.count .. l.size : w[m] = End
      BY <1>0, <1>7 DEF v0
    <3> QED
      BY <1>0, <3>1, <3>2
  <2>2. WalkLength(l) = CHOOSE n \in 0 .. l.size : w[n] = End /\ \A m \in 0 .. n - 1 : w[m] # End
    BY DEF WalkLength
  <2> HIDE DEF w
  <2> QED
    BY <1>0, <2>1, <2>2
<1> QED
  <2> HIDE DEF w
  <2>1. w \in [0 .. l.size -> {End} \cup Indices(l)]
    BY <1>0, <1>7 DEF Indices
  <2>2. (\A k \in 0 .. l.count - 1 : w[k] = u[k]) /\ w[l.count] = End
    BY <1>0, <1>7
  <2> QED
    BY <1>8, <2>1, <2>2 DEF w

(* The data along a ring; a sequence of n data with d put in behind the    *)
(* first j, and without the one behind the first j.                        *)
Along(l, u) == [k \in 1 .. l.count |-> l.items[u[k - 1]].data]

SeqWith(s, n, j, d) ==
  [k \in 1 .. n + 1 |-> IF k <= j THEN s[k] ELSE IF k = j + 1 THEN d ELSE s[k - 1]]

SeqWithout(s, n, j) == [k \in 1 .. n - 1 |-> IF k <= j THEN s[k] ELSE s[k + 1]]

LEMMA ContentsAlong ==
  ASSUME NEW l, IsList(l), NEW u, UsedRing(l, u)
  PROVE  Contents(l) = Along(l, u) /\ Contents(l) \in Seq(Data) /\ Len(Contents(l)) = l.count
<1>0. /\ l.size \in Nat /\ l.count \in Nat /\ l.items \in Items(l.size)
      /\ u \in [0 .. l.count - 1 -> 0 .. l.size - 1]
      /\ \A k \in 0 .. l.count - 1 : l.items[u[k]].used /\ l.items[u[k]].data # NULL
  BY SizeAssumption DEF IsList, UsedRing, Indices
<1>1. WalkLength(l) = l.count /\ \A k \in 0 .. l.count - 1 : Walk(l)[k] = u[k]
  BY WalkOfRing
<1>2. Contents(l) = [k \in 1 .. l.count |-> list_get(l, Walk(l)[k - 1])]
  BY <1>1 DEF Contents
<1>3. ASSUME NEW k \in 1 .. l.count
      PROVE  list_get(l, Walk(l)[k - 1]) = l.items[u[k - 1]].data /\ l.items[u[k - 1]].data \in Data
  <2>1. k - 1 \in 0 .. l.count - 1
    BY <1>0
  <2>2. PICK i \in 0 .. l.size - 1 : i = u[k - 1]
    BY <1>0, <2>1
  <2>3. l.items[i].used /\ l.items[i].data # NULL /\ Walk(l)[k - 1] = i
    BY <1>0, <1>1, <2>1, <2>2
  <2>4. l.items[i].data \in Data
    BY <1>0, <2>3 DEF Items
  <2>5. list_get(l, i) = l.items[i].data
    BY <2>3 DEF list_get, Indices
  <2> QED
    BY <2>2, <2>3, <2>4, <2>5
<1>4. Contents(l) = Along(l, u)
  BY <1>2, <1>3 DEF Along
<1>5. Along(l, u) \in Seq(Data) /\ Len(Along(l, u)) = l.count
  <2>1. Along(l, u) \in [1 .. l.count -> Data]
    BY <1>3 DEF Along
  <2> QED
    BY <1>0, <2>1
<1> QED
  BY <1>4, <1>5
-----------------------------------------------------------------------------
Links(n) == {End} \cup 0 .. n - 1

(* r is items with x taken out of its ring ... *)
Unlinked(n, items, x, r) ==
  \A i \in 0 .. n - 1 :
    /\ r[i].next = IF i = x THEN End
                   ELSE IF i = items[x].prev THEN items[x].next ELSE items[i].next
    /\ r[i].prev = IF i = x THEN End
                   ELSE IF i = items[x].next THEN items[x].prev ELSE items[i].prev

(* ... with item put into the ring of itr, in front of it ... *)
LinkedBefore(n, items, itr, item, r) ==
  \A i \in 0 .. n - 1 :
    /\ r[i].next = IF i = item THEN itr
                   ELSE IF i = items[itr].prev THEN item ELSE items[i].next
    /\ r[i].prev = IF i = item THEN items[itr].prev
                   ELSE IF i = itr THEN item ELSE items[i].prev

(* ... and with item as a ring of its own. *)
LinkedAlone(n, items, item, r) ==
  \A i \in 0 .. n - 1 : /\ r[i].next = IF i = item THEN item ELSE items[i].next
                        /\ r[i].prev = IF i = item THEN item ELSE items[i].prev

SameContents(n, items, r) ==
  \A i \in 0 .. n - 1 : r[i].used = items[i].used /\ r[i].data = items[i].data

SameLinks(n, items, r) ==
  \A i \in 0 .. n - 1 : r[i].next = items[i].next /\ r[i].prev = items[i].prev

(* A ring of m items without, or with another, item at position j. *)
RemovedAt(s, m, j) == [k \in 0 .. (m - 1) - 1 |-> IF k < j THEN s[k] ELSE s[k + 1]]

InsertedAt(s, m, j, item) ==
  [k \in 0 .. (m + 1) - 1 |-> IF k < j THEN s[k] ELSE IF k = j THEN item ELSE s[k - 1]]

LEMMA RemoveFields ==
  ASSUME NEW n \in Nat, NEW items \in Items(n), NEW itr \in 0 .. n - 1,
         items[itr].next \in 0 .. n - 1, items[itr].prev \in 0 .. n - 1,
         items[itr].next = itr <=> items[itr].prev = itr,
         NEW res, res = remove_item(items, itr), NEW r, r = res.items
  PROVE  /\ r \in Items(n) /\ SameContents(n, items, r) /\ Unlinked(n, items, itr, r)
         /\ res.itr = IF items[itr].next = itr THEN End ELSE items[itr].next
<1> DEFINE nx == items[itr].next
           pv == items[itr].prev
           a == [items EXCEPT ![pv].next = nx]
           b == [a EXCEPT ![nx].prev = pv]
           linked == IF nx = itr THEN items ELSE b
           c == [linked EXCEPT ![itr].next = End]
           z == [c EXCEPT ![itr].prev = End]
<1>1. itr # End /\ End \in Links(n) /\ nx \in Links(n) /\ pv \in Links(n)
  BY DEF End, Links
<1>2. remove_item(items, itr) = [items |-> z, itr |-> IF nx = itr THEN End ELSE nx]
  BY <1>1 DEF remove_item
<1>3. r = z /\ res.itr = IF nx = itr THEN End ELSE nx
  <2> HIDE DEF z, nx
  <2> QED
    BY <1>2
<1> HIDE DEF nx, pv
<1>a. a \in Items(n) /\ \A i \in 0 .. n - 1 :
        /\ a[i].used = items[i].used /\ a[i].data = items[i].data
        /\ a[i].prev = items[i].prev /\ a[i].next = IF i = pv THEN nx ELSE items[i].next
  BY <1>1 DEF Items, Links, nx, pv
<1> HIDE DEF a
<1>b. b \in Items(n) /\ \A i \in 0 .. n - 1 :
        /\ b[i].used = items[i].used /\ b[i].data = items[i].data
        /\ b[i].prev = IF i = nx THEN pv ELSE items[i].prev
        /\ b[i].next = IF i = pv THEN nx ELSE items[i].next
  <2>1. nx \in 0 .. n - 1
    BY DEF nx
  <2>t. a \in Items(n)
    BY <1>a
  <2>s. /\ b \in Items(n)
        /\ \A i \in 0 .. n - 1 :
             /\ b[i].next = a[i].next
             /\ b[i].prev = IF i = nx THEN pv ELSE a[i].prev
             /\ b[i].used = a[i].used
             /\ b[i].data = a[i].data
    BY <1>1, <2>1, <2>t DEF Items, Links
  <2> HIDE DEF b
  <2> QED
    BY <2>s, <1>a
<1> HIDE DEF b
<1>l. linked \in Items(n) /\ \A i \in 0 .. n - 1 :
        /\ linked[i].used = items[i].used /\ linked[i].data = items[i].data
        /\ i # itr => linked[i].prev = IF i = nx THEN pv ELSE items[i].prev
        /\ i # itr => linked[i].next = IF i = pv THEN nx ELSE items[i].next
  BY <1>b DEF nx, pv
<1> HIDE DEF linked
<1>c. c \in Items(n) /\ \A i \in 0 .. n - 1 :
        /\ c[i].used = items[i].used /\ c[i].data = items[i].data
        /\ c[i].prev = linked[i].prev
        /\ c[i].next = IF i = itr THEN End ELSE IF i = pv THEN nx ELSE items[i].next
  <2>t. linked \in Items(n)
    BY <1>l
  <2>s. /\ c \in Items(n)
        /\ \A i \in 0 .. n - 1 :
             /\ c[i].next = IF i = itr THEN End ELSE linked[i].next
             /\ c[i].prev = linked[i].prev
             /\ c[i].used = linked[i].used
             /\ c[i].data = linked[i].data
    BY <1>1, <2>t DEF Items, Links
  <2> HIDE DEF c
  <2> QED
    BY <2>s, <1>l
<1> HIDE DEF c
<1>r. z \in Items(n) /\ \A i \in 0 .. n - 1 :
        /\ z[i].used = items[i].used /\ z[i].data = items[i].data
        /\ z[i].prev = IF i = itr THEN End ELSE IF i = nx THEN pv ELSE items[i].prev
        /\ z[i].next = IF i = itr THEN End ELSE IF i = pv THEN nx ELSE items[i].next
  <2>t. c \in Items(n)
    BY <1>c
  <2>s. /\ z \in Items(n)
        /\ \A i \in 0 .. n - 1 :
             /\ z[i].next = c[i].next
             /\ z[i].prev = IF i = itr THEN End ELSE c[i].prev
             /\ z[i].used = c[i].used
             /\ z[i].data = c[i].data
    BY <1>1, <2>t DEF Items, Links
  <2> HIDE DEF z
  <2> QED
    BY <2>s, <1>c, <1>l
<1> HIDE DEF z
<1> QED
  BY <1>3, <1>r DEF nx, pv, SameContents, Unlinked

LEMMA InsertFields ==
  ASSUME NEW n \in Nat, NEW items \in Items(n),
         NEW itr \in 0 .. n - 1, NEW item \in 0 .. n - 1, item # itr,
         items[itr].prev \in 0 .. n - 1, items[itr].prev # item,
         NEW res, res = insert_item(items, itr, item), NEW r, r = res.items
  PROVE  /\ r \in Items(n) /\ SameContents(n, items, r)
         /\ LinkedBefore(n, items, itr, item, r)
         /\ res.itr = itr
<1> DEFINE pv == items[itr].prev
           a == [items EXCEPT ![item].next = itr]
           b == [a EXCEPT ![pv].next = item]
           c == [b EXCEPT ![item].prev = pv]
           z == [c EXCEPT ![itr].prev = item]
<1>1. itr # End /\ item # End /\ itr \in Links(n) /\ item \in Links(n) /\ pv \in Links(n)
  BY DEF End, Links
<1>2. insert_item(items, itr, item) = [items |-> z, itr |-> itr]
  BY <1>1 DEF insert_item
<1>3. r = z /\ res.itr = itr
  <2> HIDE DEF z
  <2> QED
    BY <1>2
<1>p. pv \in 0 .. n - 1 /\ pv # item
  OBVIOUS
<1> HIDE DEF pv
<1>a. a \in Items(n) /\ \A i \in 0 .. n - 1 :
        /\ a[i].used = items[i].used /\ a[i].data = items[i].data
        /\ a[i].prev = items[i].prev /\ a[i].next = IF i = item THEN itr ELSE items[i].next
  BY <1>1 DEF Items, Links
<1> HIDE DEF a
<1>b. b \in Items(n) /\ \A i \in 0 .. n - 1 :
        /\ b[i].used = items[i].used /\ b[i].data = items[i].data
        /\ b[i].prev = items[i].prev
        /\ b[i].next = IF i = item THEN itr ELSE IF i = pv THEN item ELSE items[i].next
  <2>t. a \in Items(n)
    BY <1>a
  <2>s. /\ b \in Items(n)
        /\ \A i \in 0 .. n - 1 :
             /\ b[i].next = IF i = pv THEN item ELSE a[i].next
             /\ b[i].prev = a[i].prev
             /\ b[i].used = a[i].used
             /\ b[i].data = a[i].data
    BY <1>1, <1>p, <2>t DEF Items, Links
  <2> HIDE DEF b
  <2> QED
    BY <2>s, <1>a, <1>p
<1> HIDE DEF b
<1>c. c \in Items(n) /\ \A i \in 0 .. n - 1 :
        /\ c[i].used = items[i].used /\ c[i].data = items[i].data
        /\ c[i].prev = IF i = item THEN pv ELSE items[i].prev
        /\ c[i].next = b[i].next
  <2>t. b \in Items(n)
    BY <1>b
  <2>s. /\ c \in Items(n)
        /\ \A i \in 0 .. n - 1 :
             /\ c[i].next = b[i].next
             /\ c[i].prev = IF i = item THEN pv ELSE b[i].prev
             /\ c[i].used = b[i].used
             /\ c[i].data = b[i].data
    BY <1>1, <2>t DEF Items, Links
  <2> HIDE DEF c
  <2> QED
    BY <2>s, <1>b
<1> HIDE DEF c
<1>r. z \in Items(n) /\ \A i \in 0 .. n - 1 :
        /\ z[i].used = items[i].used /\ z[i].data = items[i].data
        /\ z[i].prev = IF i = item THEN pv ELSE IF i = itr THEN item ELSE items[i].prev
        /\ z[i].next = IF i = item THEN itr ELSE IF i = pv THEN item ELSE items[i].next
  <2>t. c \in Items(n)
    BY <1>c
  <2>s. /\ z \in Items(n)
        /\ \A i \in 0 .. n - 1 :
             /\ z[i].next = c[i].next
             /\ z[i].prev = IF i = itr THEN item ELSE c[i].prev
             /\ z[i].used = c[i].used
             /\ z[i].data = c[i].data
    BY <1>1, <2>t DEF Items, Links
  <2> HIDE DEF z
  <2> QED
    BY <2>s, <1>b, <1>c
<1> HIDE DEF z
<1> QED
  BY <1>3, <1>r DEF pv, SameContents, LinkedBefore

LEMMA InsertFirstFields ==
  ASSUME NEW n \in Nat, NEW items \in Items(n), NEW item \in 0 .. n - 1,
         NEW res, res = insert_item(items, End, item), NEW r, r = res.items
  PROVE  /\ r \in Items(n) /\ SameContents(n, items, r) /\ LinkedAlone(n, items, item, r)
         /\ res.itr = item
<1> DEFINE a == [items EXCEPT ![item].prev = item]
           z == [a EXCEPT ![item].next = item]
<1>1. item # End /\ item \in Links(n)
  BY DEF End, Links
<1>2. insert_item(items, End, item) = [items |-> z, itr |-> item]
  BY <1>1 DEF insert_item
<1>3. r = z /\ res.itr = item
  <2> HIDE DEF z
  <2> QED
    BY <1>2
<1>a. a \in Items(n) /\ \A i \in 0 .. n - 1 :
        /\ a[i].used = items[i].used /\ a[i].data = items[i].data
        /\ a[i].prev = IF i = item THEN item ELSE items[i].prev
        /\ a[i].next = items[i].next
  BY <1>1 DEF Items, Links
<1> HIDE DEF a
<1>r. z \in Items(n) /\ \A i \in 0 .. n - 1 :
        /\ z[i].used = items[i].used /\ z[i].data = items[i].data
        /\ z[i].prev = IF i = item THEN item ELSE items[i].prev
        /\ z[i].next = IF i = item THEN item ELSE items[i].next
  BY <1>1, <1>a DEF Items, Links
<1> HIDE DEF z
<1> QED
  BY <1>3, <1>r DEF SameContents, LinkedAlone

IsMarked(n, items, item, d, b, r) ==
  /\ r \in Items(n) /\ SameLinks(n, items, r)
  /\ b => r[item].used
  /\ ~b => ~r[item].used
  /\ r[item].data = d
  /\ \A i \in 0 .. n - 1 : i # item => /\ r[i].used = items[i].used
                                       /\ r[i].data = items[i].data

LEMMA StoreFields ==
  ASSUME NEW n \in Nat, NEW items \in Items(n), NEW item \in 0 .. n - 1,
         NEW d \in Data \cup {NULL}, NEW b \in BOOLEAN
  PROVE  IsMarked(n, items, item, d, b, Marked(items, item, d, b))
<1> DEFINE a == [items EXCEPT ![item].data = d]
           z == [a EXCEPT ![item].used = b]
<1>a. a \in Items(n) /\ \A i \in 0 .. n - 1 :
        /\ a[i].used = items[i].used /\ a[i].prev = items[i].prev
        /\ a[i].next = items[i].next /\ a[i].data = IF i = item THEN d ELSE items[i].data
  BY DEF Items, Links
<1>1. Marked(items, item, d, b) = z
  BY DEF Marked
<1> HIDE DEF a
<1>r. z \in Items(n) /\ \A i \in 0 .. n - 1 :
        /\ z[i].used = IF i = item THEN b ELSE items[i].used
        /\ z[i].data = IF i = item THEN d ELSE items[i].data
        /\ z[i].next = items[i].next /\ z[i].prev = items[i].prev
  BY <1>a DEF Items, Links
<1> HIDE DEF z
<1>2. IsMarked(n, items, item, d, b, z)
  BY <1>r DEF SameLinks, IsMarked
<1> QED
  BY <1>1, <1>2

-----------------------------------------------------------------------------
LEMMA RingFrame ==
  ASSUME NEW items, NEW items2, NEW head, NEW m \in Nat, NEW s,
         IsRing(items, head, m, s),
         \A k \in 0 .. m - 1 : /\ items2[s[k]].next = items[s[k]].next
                               /\ items2[s[k]].prev = items[s[k]].prev
  PROVE  IsRing(items2, head, m, s)
BY DEF IsRing

(* Positions in a ring of m items, when the one at position j goes. *)
LEMMA RemovePositions ==
  ASSUME NEW m \in Nat, NEW j \in 0 .. m - 1, NEW k \in 0 .. (m - 1) - 1,
         NEW q, q = IF k < j THEN k ELSE k + 1,
         NEW y, y = After(0, (m - 1) - 1, k), NEW z, z = Before(0, (m - 1) - 1, k)
  PROVE  /\ y \in 0 .. (m - 1) - 1 /\ z \in 0 .. (m - 1) - 1
         /\ (IF y < j THEN y ELSE y + 1) = IF q = Before(0, m - 1, j) THEN After(0, m - 1, j)
                                           ELSE After(0, m - 1, q)
         /\ (IF z < j THEN z ELSE z + 1) = IF q = After(0, m - 1, j) THEN Before(0, m - 1, j)
                                           ELSE Before(0, m - 1, q)
<1>1. CASE k = 0
  BY <1>1 DEF After, Before
<1>2. CASE k # 0
  BY <1>2 DEF After, Before
<1> QED
  BY <1>1, <1>2

(* items2 is items without the item at position j of the ring s. *)
Removal(n, items, head, m, s, j, items2, h2, s2) ==
  /\ n \in Nat /\ items \in Items(n) /\ m \in Nat
  /\ s \in [0 .. m - 1 -> 0 .. n - 1] /\ IsRing(items, head, m, s)
  /\ j \in 0 .. m - 1
  /\ Unlinked(n, items, s[j], items2)
  /\ s2 = RemovedAt(s, m, j)
  /\ h2 = IF head # s[j] THEN head
          ELSE IF items[s[j]].next = s[j] THEN End ELSE items[s[j]].next

LEMMA RingRemove ==
  ASSUME NEW n, NEW items, NEW head, NEW m, NEW s, NEW j, NEW items2, NEW h2, NEW s2,
         Removal(n, items, head, m, s, j, items2, h2, s2)
  PROVE  /\ s2 \in [0 .. (m - 1) - 1 -> 0 .. n - 1]
         /\ \A k \in 0 .. (m - 1) - 1 : s2[k] # s[j] /\ \E q \in 0 .. m - 1 : s2[k] = s[q]
         /\ \A q \in 0 .. m - 1 : q # j => \E k \in 0 .. (m - 1) - 1 : s2[k] = s[q]
         /\ IsRing(items2, h2, m - 1, s2)
<1> DEFINE c == m - 1
<1>0. /\ n \in Nat /\ items \in Items(n) /\ m \in Nat
      /\ s \in [0 .. m - 1 -> 0 .. n - 1] /\ IsRing(items, head, m, s)
      /\ j \in 0 .. m - 1
      /\ Unlinked(n, items, s[j], items2)
      /\ s2 = RemovedAt(s, m, j)
      /\ h2 = IF head # s[j] THEN head
              ELSE IF items[s[j]].next = s[j] THEN End ELSE items[s[j]].next
  BY DEF Removal
<1> USE <1>0
<1>1. /\ \A a, b \in 0 .. m - 1 : s[a] = s[b] => a = b
      /\ \A k \in 0 .. m - 1 : /\ items[s[k]].next = s[After(0, m - 1, k)]
                               /\ items[s[k]].prev = s[Before(0, m - 1, k)]
      /\ head = s[0]
      /\ c \in Nat
  BY DEF IsRing
<1>2. /\ s2 \in [0 .. c - 1 -> 0 .. n - 1]
      /\ \A k \in 0 .. c - 1 : s2[k] # s[j] /\ \E q \in 0 .. m - 1 : s2[k] = s[q]
      /\ \A a, b \in 0 .. c - 1 : s2[a] = s2[b] => a = b
  BY <1>1 DEF RemovedAt
<1>3. /\ items[s[j]].next = s[After(0, m - 1, j)]
      /\ items[s[j]].prev = s[Before(0, m - 1, j)]
      /\ After(0, m - 1, j) \in 0 .. m - 1 /\ Before(0, m - 1, j) \in 0 .. m - 1
  <2>1. After(0, m - 1, j) \in 0 .. m - 1 /\ Before(0, m - 1, j) \in 0 .. m - 1
    BY DEF After, Before
  <2> QED
    BY <1>1, <2>1
<1>4. ASSUME NEW k \in 0 .. c - 1
      PROVE  /\ items2[s2[k]].next = s2[After(0, c - 1, k)]
             /\ items2[s2[k]].prev = s2[Before(0, c - 1, k)]
  <2> DEFINE q == IF k < j THEN k ELSE k + 1
             a == After(0, m - 1, q)
             b == Before(0, m - 1, q)
  <2>1. q \in 0 .. m - 1 /\ q # j /\ s2[k] = s[q] /\ s[q] # s[j] /\ s[q] \in 0 .. n - 1
    BY <1>1 DEF RemovedAt
  <2>2. items[s[q]].next = s[a] /\ items[s[q]].prev = s[b]
    BY <1>1, <2>1
  <2>u. Unlinked(n, items, s[j], items2) /\ m \in Nat /\ j \in 0 .. m - 1
    OBVIOUS
  <2>v. /\ s[q] = s[Before(0, m - 1, j)] <=> q = Before(0, m - 1, j)
        /\ s[q] = s[After(0, m - 1, j)] <=> q = After(0, m - 1, j)
    BY <1>1, <1>3, <2>1
  <2> HIDE <1>0
  <2>3. items2[s[q]].next = IF q = Before(0, m - 1, j) THEN s[After(0, m - 1, j)] ELSE s[a]
    <3> HIDE DEF q, a, b
    <3> QED
      BY <1>3, <2>1, <2>2, <2>u, <2>v DEF Unlinked
  <2>4. items2[s[q]].prev = IF q = After(0, m - 1, j) THEN s[Before(0, m - 1, j)] ELSE s[b]
    <3> HIDE DEF q, a, b
    <3> QED
      BY <1>3, <2>1, <2>2, <2>u, <2>v DEF Unlinked
  <2> DEFINE y == After(0, c - 1, k)
             z == Before(0, c - 1, k)
  <2>5. /\ y \in 0 .. c - 1 /\ z \in 0 .. c - 1
        /\ (IF y < j THEN y ELSE y + 1) = IF q = Before(0, m - 1, j) THEN After(0, m - 1, j) ELSE a
        /\ (IF z < j THEN z ELSE z + 1) = IF q = After(0, m - 1, j) THEN Before(0, m - 1, j) ELSE b
    <3>1. m \in Nat /\ j \in 0 .. m - 1 /\ k \in 0 .. (m - 1) - 1
      BY <2>u
    <3>2. /\ q = (IF k < j THEN k ELSE k + 1)
          /\ y = After(0, (m - 1) - 1, k) /\ z = Before(0, (m - 1) - 1, k)
      OBVIOUS
    <3> HIDE DEF q, y, z
    <3> QED
      BY <3>1, <3>2, RemovePositions
  <2>6. /\ s2[y] = IF q = Before(0, m - 1, j) THEN s[After(0, m - 1, j)] ELSE s[a]
        /\ s2[z] = IF q = After(0, m - 1, j) THEN s[Before(0, m - 1, j)] ELSE s[b]
    <3> HIDE DEF y, z, a, b, q
    <3>1. /\ s2[y] = s[IF y < j THEN y ELSE y + 1]
          /\ s2[z] = s[IF z < j THEN z ELSE z + 1]
      BY <1>0, <2>5 DEF RemovedAt
    <3> QED
      BY <2>5, <3>1
  <2> QED
    BY <2>1, <2>3, <2>4, <2>6
<1>5. h2 = IF c = 0 THEN End ELSE s2[0]
  <2>1. c # 0 => s2[0] = IF j = 0 THEN s[1] ELSE s[0]
    BY <1>1 DEF RemovedAt
  <2>2. j = 0 => After(0, m - 1, j) = IF c = 0 THEN 0 ELSE 1
    BY <1>1 DEF After
  <2>3. s[0] = s[j] <=> j = 0
    BY <1>1
  <2>4. c # 0 => s[1] # s[0]
    BY <1>1
  <2> QED
    BY <1>1, <1>3, <2>1, <2>2, <2>3, <2>4
<1>6. ASSUME NEW q \in 0 .. m - 1, q # j
      PROVE  \E k \in 0 .. c - 1 : s2[k] = s[q]
  <2> DEFINE k == IF q < j THEN q ELSE q - 1
  <2>1. k \in 0 .. c - 1 /\ s2[k] = s[q]
    BY <1>6 DEF RemovedAt
  <2> QED
    BY <2>1
<1> QED
  BY <1>2, <1>4, <1>5, <1>6 DEF IsRing

(* Insertion at position j of the ring, in front of the item that is there *)
(* or, at the end, in front of the head.                                   *)
Insertion(n, items, head, m, s, j, itr, item, items2, h2, s2) ==
  /\ n \in Nat /\ items \in Items(n) /\ m \in Nat \ {0}
  /\ s \in [0 .. m - 1 -> 0 .. n - 1] /\ IsRing(items, head, m, s)
  /\ j \in 0 .. m /\ itr = s[IF j = m THEN 0 ELSE j]
  /\ item \in 0 .. n - 1 /\ \A k \in 0 .. m - 1 : s[k] # item
  /\ LinkedBefore(n, items, itr, item, items2)
  /\ s2 = InsertedAt(s, m, j, item)
  /\ h2 = IF j = 0 THEN item ELSE head

RingWith(n, m, s, item, items2, h2, s2) ==
  /\ s2 \in [0 .. (m + 1) - 1 -> 0 .. n - 1]
  /\ \A k \in 0 .. (m + 1) - 1 : s2[k] = item \/ \E q \in 0 .. m - 1 : s2[k] = s[q]
  /\ \A q \in 0 .. m - 1 : \E k \in 0 .. (m + 1) - 1 : s2[k] = s[q]
  /\ \E k \in 0 .. (m + 1) - 1 : s2[k] = item
  /\ IsRing(items2, h2, m + 1, s2)

LEMMA RingInsert ==
  ASSUME NEW n, NEW items, NEW head, NEW m, NEW s, NEW j, NEW itr, NEW item,
         NEW items2, NEW h2, NEW s2,
         Insertion(n, items, head, m, s, j, itr, item, items2, h2, s2)
  PROVE  RingWith(n, m, s, item, items2, h2, s2)
<1>0. /\ n \in Nat /\ items \in Items(n) /\ m \in Nat \ {0}
      /\ s \in [0 .. m - 1 -> 0 .. n - 1] /\ IsRing(items, head, m, s)
      /\ j \in 0 .. m /\ itr = s[IF j = m THEN 0 ELSE j]
      /\ item \in 0 .. n - 1 /\ \A k \in 0 .. m - 1 : s[k] # item
      /\ LinkedBefore(n, items, itr, item, items2)
      /\ s2 = InsertedAt(s, m, j, item)
      /\ h2 = IF j = 0 THEN item ELSE head
  BY DEF Insertion
<1> USE <1>0
<1>1. /\ \A a, b \in 0 .. m - 1 : s[a] = s[b] => a = b
      /\ \A k \in 0 .. m - 1 : /\ items[s[k]].next = s[After(0, m - 1, k)]
                               /\ items[s[k]].prev = s[Before(0, m - 1, k)]
      /\ head = s[0]
  BY DEF IsRing
<1>2. /\ s2 \in [0 .. (m + 1) - 1 -> 0 .. n - 1]
      /\ \A k \in 0 .. (m + 1) - 1 : s2[k] = item \/ \E q \in 0 .. m - 1 : s2[k] = s[q]
      /\ \A a, b \in 0 .. (m + 1) - 1 : s2[a] = s2[b] => a = b
  <2>1. /\ m \in Nat \ {0} /\ j \in 0 .. m /\ s \in [0 .. m - 1 -> 0 .. n - 1]
        /\ s2 = InsertedAt(s, m, j, item) /\ item \in 0 .. n - 1
        /\ \A k \in 0 .. m - 1 : s[k] # item
    OBVIOUS
  <2> HIDE <1>0
  <2>2. ASSUME NEW k \in 0 .. (m + 1) - 1
        PROVE  \/ k = j /\ s2[k] = item
               \/ /\ k # j /\ (IF k < j THEN k ELSE k - 1) \in 0 .. m - 1
                  /\ s2[k] = s[IF k < j THEN k ELSE k - 1]
    BY <2>1 DEF InsertedAt
  <2>3. s2 \in [0 .. (m + 1) - 1 -> 0 .. n - 1]
    BY <2>1 DEF InsertedAt
  <2>4. ASSUME NEW a \in 0 .. (m + 1) - 1, NEW b \in 0 .. (m + 1) - 1, s2[a] = s2[b]
        PROVE  a = b
    <3> DEFINE x(k) == IF k < j THEN k ELSE k - 1
    <3>1. a = j <=> b = j
      BY <2>1, <2>2, <2>4
    <3>2. CASE a # j /\ b # j
      <4>1. x(a) \in 0 .. m - 1 /\ x(b) \in 0 .. m - 1 /\ s[x(a)] = s[x(b)]
        BY <2>2, <2>4, <3>2
      <4>2. x(a) = x(b)
        <5> HIDE DEF x
        <5> QED
          BY <1>1, <4>1
      <4> QED
        BY <2>1, <3>2, <4>2
    <3> QED
      BY <3>1, <3>2
  <2> QED
    BY <2>2, <2>3, <2>4
<1> DEFINE t == IF j = m THEN 0 ELSE j
           p == Before(0, m - 1, t)
<1>3. t \in 0 .. m - 1 /\ p \in 0 .. m - 1 /\ itr = s[t] /\ items[itr].prev = s[p]
  BY <1>1 DEF Before
<1>4. ASSUME NEW k \in 0 .. (m + 1) - 1
      PROVE  /\ items2[s2[k]].next = s2[After(0, (m + 1) - 1, k)]
             /\ items2[s2[k]].prev = s2[Before(0, (m + 1) - 1, k)]
  <2>1. CASE k = j
    <3>1. s2[k] = item /\ items2[item].next = s[t] /\ items2[item].prev = s[p]
      BY <1>3, <2>1 DEF InsertedAt, LinkedBefore
    <3>2. s2[After(0, (m + 1) - 1, j)] = s[t] /\ s2[Before(0, (m + 1) - 1, j)] = s[p]
      <4> DEFINE y == After(0, (m + 1) - 1, j)
                 z == Before(0, (m + 1) - 1, j)
      <4>1. /\ y \in 0 .. (m + 1) - 1 /\ y # j /\ (IF y < j THEN y ELSE y - 1) = t
            /\ z \in 0 .. (m + 1) - 1 /\ z # j /\ (IF z < j THEN z ELSE z - 1) = p
        BY DEF After, Before
      <4> HIDE DEF y, z, t, p
      <4>2. /\ s2[y] = s[IF y < j THEN y ELSE y - 1]
            /\ s2[z] = s[IF z < j THEN z ELSE z - 1]
        BY <4>1 DEF InsertedAt
      <4> QED
        BY <4>1, <4>2 DEF y, z
    <3> QED
      BY <2>1, <3>1, <3>2
  <2>2. CASE k # j
    <3> DEFINE q == IF k < j THEN k ELSE k - 1
               a == After(0, m - 1, q)
               b == Before(0, m - 1, q)
    <3>1. q \in 0 .. m - 1 /\ s2[k] = s[q] /\ s[q] # item /\ s[q] \in 0 .. n - 1
      BY <2>2 DEF InsertedAt
    <3>2. items[s[q]].next = s[a] /\ items[s[q]].prev = s[b]
      BY <1>1, <3>1
    <3>3. items2[s[q]].next = IF q = p THEN item ELSE s[a]
      BY <1>1, <1>3, <3>1, <3>2 DEF LinkedBefore
    <3>4. items2[s[q]].prev = IF q = t THEN item ELSE s[b]
      <4>1. s[q] = itr <=> q = t
        BY <1>1, <1>3, <3>1
      <4> QED
        BY <3>1, <3>2, <4>1 DEF LinkedBefore
    <3>5. s2[After(0, (m + 1) - 1, k)] = IF q = p THEN item ELSE s[a]
      <4> DEFINE z == After(0, (m + 1) - 1, k)
      <4>1. z \in 0 .. (m + 1) - 1
        BY DEF After
      <4>2. z = j <=> q = p
        BY <2>2 DEF After, Before
      <4>3. z # j => (IF z < j THEN z ELSE z - 1) = a
        BY <2>2 DEF After, Before
      <4>4. s2[z] = IF z = j THEN item ELSE s[IF z < j THEN z ELSE z - 1]
        BY <4>1 DEF InsertedAt
      <4> QED
        BY <4>2, <4>3, <4>4
    <3>6. s2[Before(0, (m + 1) - 1, k)] = IF q = t THEN item ELSE s[b]
      BY <2>2 DEF After, Before, InsertedAt
    <3> QED
      BY <3>1, <3>3, <3>4, <3>5, <3>6
  <2> QED
    BY <2>1, <2>2
<1>5. h2 = s2[0]
  BY <1>1 DEF InsertedAt
<1>6. ASSUME NEW q \in 0 .. m - 1
      PROVE  \E k \in 0 .. (m + 1) - 1 : s2[k] = s[q]
  <2> DEFINE k == IF q < j THEN q ELSE q + 1
  <2>1. k \in 0 .. (m + 1) - 1 /\ s2[k] = s[q]
    BY DEF InsertedAt
  <2> QED
    BY <2>1
<1>7. j \in 0 .. (m + 1) - 1 /\ s2[j] = item
  BY DEF InsertedAt
<1>8. IsRing(items2, h2, m + 1, s2)
  BY <1>2, <1>4, <1>5 DEF IsRing
<1> QED
  BY <1>2, <1>6, <1>7, <1>8 DEF RingWith
-----------------------------------------------------------------------------
LEMMA DoublingExists ==
  ASSUME NEW size \in Nat, NEW amount \in Nat
  PROVE  /\ Doubled(size, amount) \in [0 .. amount -> Nat]
         /\ Doubled(size, amount)[0] = size
         /\ \A k \in 1 .. amount :
              Doubled(size, amount)[k] = 2 * Doubled(size, amount)[k - 1]
<1> DEFINE D(n, f) == f[0] = size /\ \A k \in 1 .. n : f[k] = 2 * f[k - 1]
           S == {n \in 0 .. amount : \E f \in [0 .. n -> Nat] : D(n, f)}
           G(f) == [k \in 0 .. amount |-> IF k = 0 THEN size ELSE 2 * f[k - 1]]
<1>1. 0 \in S
  <2> DEFINE f == [k \in 0 .. 0 |-> size]
  <2>1. f \in [0 .. 0 -> Nat] /\ D(0, f) /\ 0 \in 0 .. amount
    OBVIOUS
  <2> HIDE DEF f, D
  <2> QED
    BY <2>1
<1>2. ASSUME NEW n \in 0 .. amount - 1, n \in S
      PROVE  n + 1 \in S
  <2>1. PICK f \in [0 .. n -> Nat] : D(n, f)
    BY <1>2
  <2> DEFINE g == [k \in 0 .. n + 1 |-> IF k = n + 1 THEN 2 * f[n] ELSE f[k]]
  <2>2. g \in [0 .. n + 1 -> Nat]
    OBVIOUS
  <2>3. D(n + 1, g)
    <3>1. g[0] = size
      BY <2>1
    <3>2. ASSUME NEW k \in 1 .. n + 1
          PROVE  g[k] = 2 * g[k - 1]
      <4>1. CASE k = n + 1
        BY <4>1
      <4>2. CASE k # n + 1
        <5>1. k \in 1 .. n /\ g[k] = f[k] /\ g[k - 1] = f[k - 1]
          BY <4>2
        <5> QED
          BY <2>1, <5>1
      <4> QED
        BY <4>1, <4>2
    <3> QED
      BY <3>1, <3>2
  <2> HIDE DEF g, D
  <2> QED
    BY <2>2, <2>3
<1>3. amount \in S
  <2> HIDE DEF S
  <2> QED
    BY <1>1, <1>2, SetInduction
<1>4. PICK f \in [0 .. amount -> Nat] : D(amount, f)
  BY <1>3
<1>5. f = G(f)
  <2>1. \A k \in 0 .. amount : f[k] = IF k = 0 THEN size ELSE 2 * f[k - 1]
    BY <1>4
  <2> QED
    BY <2>1
<1> DEFINE d == Doubled(size, amount)
<1>6. d = G(d)
  <2>1. d = CHOOSE h : h = G(h)
    BY DEF Doubled
  <2> HIDE DEF d, G
  <2> QED
    BY <1>5, <2>1
<1>7. \A k \in 0 .. amount : d[k] = IF k = 0 THEN size ELSE 2 * d[k - 1]
  <2> HIDE DEF d
  <2> QED
    BY <1>6
<1>8. \A k \in 0 .. amount : d[k] = f[k]
  <2> DEFINE T == {k \in 0 .. amount : d[k] = f[k]}
  <2> HIDE DEF d
  <2>1. 0 \in T
    BY <1>4, <1>7
  <2>2. ASSUME NEW k \in 0 .. amount - 1, k \in T
        PROVE  k + 1 \in T
    <3>1. k + 1 \in 1 .. amount /\ (k + 1) - 1 = k
      OBVIOUS
    <3>2. d[k + 1] = 2 * d[k] /\ f[k + 1] = 2 * f[k]
      BY <1>4, <1>7, <3>1
    <3> QED
      BY <2>2, <3>1, <3>2
  <2> HIDE DEF T
  <2>3. 0 .. amount \subseteq T
    BY <2>1, <2>2, SetInduction
  <2> QED
    BY <2>3 DEF T
<1>9. d = f
  <2> HIDE DEF d
  <2> QED
    BY <1>6, <1>8
<1> QED
  <2> HIDE DEF d
  <2>1. /\ d \in [0 .. amount -> Nat]
        /\ d[0] = size
        /\ \A k \in 1 .. amount : d[k] = 2 * d[k - 1]
    BY <1>4, <1>9
  <2> QED
    BY <2>1 DEF d

LEMMA GrownSizeLarge ==
  ASSUME NEW size \in Nat, NEW amount \in Nat \ {0}
  PROVE  GrownSize(size, amount) \in Nat /\ GrownSize(size, amount) >= size + amount
<1>1. CASE size = 0
  BY <1>1 DEF GrownSize
<1>2. CASE size # 0
  <2> DEFINE d == Doubled(size, amount)
             Enough == {k \in 1 .. amount : d[k] >= size + amount}
             k0 == CHOOSE k \in Enough : \A j \in Enough : k <= j
  <2>1. GrownSize(size, amount) = d[k0]
    BY <1>2 DEF GrownSize
  <2>2. /\ d \in [0 .. amount -> Nat]
        /\ d[0] = size
        /\ \A k \in 1 .. amount : d[k] = 2 * d[k - 1]
    BY DoublingExists
  <2> HIDE DEF d
  <2>3. d[amount] >= size + amount
    <3> DEFINE T == {k \in 0 .. amount : d[k] >= size + k}
    <3>1. 0 \in T
      BY <2>2
    <3>2. ASSUME NEW k \in 0 .. amount - 1, k \in T
          PROVE  k + 1 \in T
      <4>1. k + 1 \in 1 .. amount /\ (k + 1) - 1 = k /\ d[k] \in Nat
        BY <2>2
      <4>2. d[k + 1] = 2 * d[k]
        BY <2>2, <4>1
      <4> QED
        BY <1>2, <3>2, <4>1, <4>2
    <3> HIDE DEF T
    <3>3. 0 .. amount \subseteq T
      BY <3>1, <3>2, SetInduction
    <3> QED
      BY <3>3 DEF T
  <2>4. Enough \in SUBSET Nat /\ Enough # {}
    BY <2>3
  <2>5. k0 \in Enough
    <3> HIDE DEF Enough
    <3>1. \E k \in Enough : \A j \in Enough : k <= j
      BY <2>4, LeastElement
    <3> QED
      BY <3>1
  <2> HIDE DEF k0
  <2> QED
    BY <2>1, <2>2, <2>5
<1> QED
  BY <1>1, <1>2

(* list_grow: the items keep their order, in slots 0, 1, 2, ... of the new *)
(* array.                                                                  *)
LEMMA RegrownRings ==
  ASSUME NEW l, IsList(l), WellFormed(l), NEW amount \in Nat \ {0},
         GrownSize(l.size, amount) <= MaxSize
  PROVE  LET g == Regrown(l, amount) IN
         /\ IsList(g)
         /\ g.count = l.count /\ g.size >= l.size + amount
         /\ UsedRing(g, [k \in 0 .. g.count - 1 |-> k])
         /\ WellFormed(g)
         /\ g.dfn = l.dfn /\ Along(g, [k \in 0 .. g.count - 1 |-> k]) = Contents(l)
<1> DEFINE g == Regrown(l, amount)
           n == GrownSize(l.size, amount)
           c == l.count
           w == Walk(l)
           Slot(k) == IF k < c
             THEN [next |-> After(0, c - 1, k), prev |-> Before(0, c - 1, k),
                   used |-> l.items[w[k]].used, data |-> l.items[w[k]].data]
             ELSE [next |-> After(c, n - 1, k), prev |-> Before(c, n - 1, k),
                   used |-> FALSE, data |-> NULL]
           items == [k \in 0 .. n - 1 |-> Slot(k)]
           u2 == [k \in 0 .. c - 1 |-> k]
           f2 == [k \in 0 .. n - c - 1 |-> c + k]
<1>1. PICK u \in [0 .. l.count - 1 -> Indices(l)] : UsedRing(l, u)
  BY DEF WellFormed
<1>2. /\ l.size \in Nat /\ c \in 0 .. l.size /\ l.items \in Items(l.size)
      /\ n \in Nat /\ n >= l.size + amount /\ n \in 0 .. MaxSize /\ c < n
  BY SizeAssumption, GrownSizeLarge DEF IsList
<1>3. WalkLength(l) = c /\ \A k \in 0 .. c - 1 : w[k] = u[k]
  BY <1>1, WalkOfRing
<1>4. \A k \in 0 .. c - 1 : /\ l.items[w[k]].used = TRUE
                            /\ l.items[w[k]].data \in Data
  <2>1. \A k \in 0 .. c - 1 : u[k] \in 0 .. l.size - 1
    BY <1>1 DEF Indices
  <2> QED
    BY <1>1, <1>2, <1>3, <2>1 DEF UsedRing, Items
<1>5. g = [l EXCEPT !.items = items, !.size = n,
                    !.used_head = IF c = 0 THEN End ELSE 0,
                    !.free_head = IF c = n THEN End ELSE c]
  BY <1>3 DEF Regrown
<1> HIDE DEF g, n, w
<1>6. /\ g.dfn = l.dfn /\ g.size = n /\ g.count = c /\ g.items = items
      /\ g.used_head = (IF c = 0 THEN End ELSE 0) /\ g.free_head = c
      /\ g = [dfn |-> g.dfn, size |-> g.size, count |-> g.count,
              used_head |-> g.used_head, free_head |-> g.free_head, items |-> g.items]
  <2>1. c # n
    BY <1>2
  <2>2. l = [dfn |-> l.dfn, size |-> l.size, count |-> l.count,
             used_head |-> l.used_head, free_head |-> l.free_head, items |-> l.items]
    BY DEF IsList
  <2> HIDE DEF items
  <2> QED
    BY <1>5, <2>1, <2>2
<1>7. items \in Items(n)
  <2>1. ASSUME NEW k \in 0 .. n - 1, k < c
        PROVE  /\ After(0, c - 1, k) \in 0 .. n - 1 /\ Before(0, c - 1, k) \in 0 .. n - 1
               /\ l.items[w[k]].used \in BOOLEAN /\ l.items[w[k]].data \in Data
    <3>1. k \in 0 .. c - 1
      BY <1>2, <2>1
    <3>2. After(0, c - 1, k) \in 0 .. n - 1 /\ Before(0, c - 1, k) \in 0 .. n - 1
      BY <1>2, <3>1 DEF After, Before
    <3> QED
      BY <1>4, <3>1, <3>2
  <2>2. ASSUME NEW k \in 0 .. n - 1, ~(k < c)
        PROVE  After(c, n - 1, k) \in 0 .. n - 1 /\ Before(c, n - 1, k) \in 0 .. n - 1
    BY <1>2, <2>2 DEF After, Before
  <2> QED
    BY <1>2, <2>1, <2>2 DEF Items
<1>8. IsList(g)
  BY <1>2, <1>6, <1>7 DEF IsList, Indices
<1>9. UsedRing(g, u2)
  <2>1. IsRing(items, g.used_head, c, u2)
    BY <1>2, <1>6 DEF IsRing, After, Before
  <2>2. \A k \in 0 .. c - 1 : items[u2[k]].used /\ items[u2[k]].data # NULL
    BY <1>2, <1>4, DataAssumption
  <2>3. \A i \in 0 .. n - 1 : items[i].used => \E k \in 0 .. c - 1 : u2[k] = i
    <3>1. \A i \in 0 .. n - 1 : items[i].used => i \in 0 .. c - 1
      BY <1>2
    <3> QED
      BY <3>1
  <2>4. u2 \in [0 .. c - 1 -> 0 .. n - 1]
    BY <1>2
  <2> HIDE DEF items
  <2> QED
    BY <1>2, <1>6, <2>1, <2>2, <2>3, <2>4 DEF UsedRing, Indices
<1>10. FreeRing(g, f2)
  <2>1. IsRing(items, g.free_head, n - c, f2)
    <3>1. g.free_head = f2[0] /\ n - c # 0
      BY <1>2, <1>6
    <3>2. \A j, k \in 0 .. n - c - 1 : f2[j] = f2[k] => j = k
      BY <1>2
    <3>3. ASSUME NEW k \in 0 .. n - c - 1
          PROVE  /\ items[f2[k]].next = f2[After(0, n - c - 1, k)]
                 /\ items[f2[k]].prev = f2[Before(0, n - c - 1, k)]
      <4>1. /\ f2[k] = c + k /\ c + k \in 0 .. n - 1 /\ ~(c + k < c)
            /\ f2[After(0, n - c - 1, k)] = After(c, n - 1, c + k)
            /\ f2[Before(0, n - c - 1, k)] = Before(c, n - 1, c + k)
        <5>1. f2[k] = c + k /\ c + k \in 0 .. n - 1 /\ ~(c + k < c)
          BY <1>2
        <5>2. After(0, n - c - 1, k) \in 0 .. n - c - 1 /\ Before(0, n - c - 1, k) \in 0 .. n - c - 1
          BY <1>2 DEF After, Before
        <5> HIDE DEF f2, items, Slot
        <5>3. /\ c + After(0, n - c - 1, k) = After(c, n - 1, c + k)
              /\ c + Before(0, n - c - 1, k) = Before(c, n - 1, c + k)
          <6>1. n \in Int /\ c \in Int /\ k \in Int
            BY <1>2
          <6> HIDE DEF c
          <6> QED
            BY <6>1 DEF After, Before
        <5> QED
          BY <5>1, <5>2, <5>3 DEF f2
      <4> QED
        BY <4>1
    <3> HIDE DEF items, f2
    <3> QED
      BY <3>1, <3>2, <3>3 DEF IsRing
  <2>2. \A k \in 0 .. n - c - 1 : ~items[f2[k]].used
    BY <1>2
  <2>3. \A i \in 0 .. n - 1 : ~items[i].used => \E k \in 0 .. n - c - 1 : f2[k] = i
    <3>1. ASSUME NEW i \in 0 .. n - 1, ~items[i].used
          PROVE  i - c \in 0 .. n - c - 1 /\ f2[i - c] = i
      BY <1>2, <1>4, <3>1
    <3> QED
      BY <3>1
  <2>4. f2 \in [0 .. n - c - 1 -> 0 .. n - 1]
    BY <1>2
  <2> HIDE DEF items
  <2> QED
    BY <1>2, <1>6, <2>1, <2>2, <2>3, <2>4 DEF FreeRing, Indices
<1>11. WellFormed(g)
  <2>1. u2 \in [0 .. g.count - 1 -> Indices(g)] /\ f2 \in [0 .. g.size - g.count - 1 -> Indices(g)]
    BY <1>9, <1>10 DEF UsedRing, FreeRing
  <2> QED
    BY <1>9, <1>10, <2>1 DEF WellFormed
<1>12. Along(g, u2) = Contents(l)
  <2>1. Contents(l) = Along(l, u)
    BY <1>1, ContentsAlong
  <2>2. ASSUME NEW k \in 1 .. c PROVE g.items[u2[k - 1]].data = l.items[u[k - 1]].data
    <3>1. k - 1 \in 0 .. c - 1 /\ k - 1 \in 0 .. n - 1 /\ k - 1 < c
      BY <1>2
    <3>2. u2[k - 1] = k - 1
      BY <3>1
    <3>3. items[k - 1].data = l.items[w[k - 1]].data
      BY <3>1
    <3>4. w[k - 1] = u[k - 1]
      BY <1>3, <3>1
    <3> HIDE DEF items
    <3> QED
      BY <1>6, <3>2, <3>3, <3>4
  <2>3. Along(g, u2) = [k \in 1 .. c |-> g.items[u2[k - 1]].data]
    BY <1>6 DEF Along
  <2>4. Along(l, u) = [k \in 1 .. c |-> l.items[u[k - 1]].data]
    BY DEF Along
  <2> HIDE DEF items, u2, c
  <2> QED
    BY <2>1, <2>2, <2>3, <2>4
<1> QED
  BY <1>2, <1>6, <1>8, <1>9, <1>11, <1>12 DEF g
-----------------------------------------------------------------------------
(* What list_push does once there is room: the first free slot becomes the *)
(* item at position j of the list.                                         *)
Placed(g, d, target, head) ==
  LET item   == g.free_head
      taken  == remove_item(g.items, item)
      stored == Marked(taken.items, item, d, TRUE)
      linked == insert_item(stored, target, item)
  IN  [g EXCEPT !.items = linked.items, !.used_head = head,
                !.free_head = taken.itr, !.count = @ + 1]
LEMMA PlacedRings ==
  ASSUME NEW g, IsList(g), WellFormed(g), g.count < g.size, NEW d \in Data,
         NEW u, UsedRing(g, u), NEW j \in 0 .. g.count, NEW target, NEW head,
         target = IF g.count = 0 THEN End ELSE u[IF j = g.count THEN 0 ELSE j],
         head = IF j = 0 THEN g.free_head ELSE g.used_head
  PROVE  /\ IsList(Placed(g, d, target, head))
         /\ WellFormed(Placed(g, d, target, head))
         /\ Placed(g, d, target, head).count = g.count + 1
         /\ UsedRing(Placed(g, d, target, head), InsertedAt(u, g.count, j, g.free_head))
         /\ Placed(g, d, target, head).dfn = g.dfn
         /\ Along(Placed(g, d, target, head), InsertedAt(u, g.count, j, g.free_head))
              = SeqWith(Along(g, u), g.count, j, d)
<1> DEFINE item   == g.free_head
           n      == g.size
           c      == g.count
           m      == n - c
           taken  == remove_item(g.items, item)
           T      == taken.items
           stored == Marked(T, item, d, TRUE)
           linked == insert_item(stored, target, item)
           L      == linked.items
           r      == Placed(g, d, target, head)
           u2     == InsertedAt(u, c, j, item)
<1>1. /\ n \in Nat /\ n <= MaxSize /\ c \in Nat /\ c < n /\ m \in Nat \ {0} /\ m = n - c
      /\ g.items \in Items(n)
      /\ u \in [0 .. c - 1 -> 0 .. n - 1]
  BY SizeAssumption DEF IsList, UsedRing, Indices
<1>2. PICK f \in [0 .. m - 1 -> 0 .. n - 1] : FreeRing(g, f)
  BY DEF WellFormed, Indices
<1>3. /\ IsRing(g.items, item, m, f)
      /\ \A k \in 0 .. m - 1 : ~g.items[f[k]].used
      /\ \A i \in 0 .. n - 1 : ~g.items[i].used => \E k \in 0 .. m - 1 : f[k] = i
  BY <1>2 DEF FreeRing, Indices
<1>4. /\ IsRing(g.items, g.used_head, c, u)
      /\ \A k \in 0 .. c - 1 : g.items[u[k]].used /\ g.items[u[k]].data # NULL
      /\ \A i \in 0 .. n - 1 : g.items[i].used => \E k \in 0 .. c - 1 : u[k] = i
  BY DEF UsedRing, Indices
<1>5. /\ item = f[0] /\ item \in 0 .. n - 1 /\ 0 \in 0 .. m - 1 /\ ~g.items[item].used
      /\ g.items[item].next = f[After(0, m - 1, 0)]
      /\ g.items[item].prev = f[Before(0, m - 1, 0)]
      /\ g.items[item].next \in 0 .. n - 1 /\ g.items[item].prev \in 0 .. n - 1
      /\ g.items[item].next = item <=> g.items[item].prev = item
  <2>1. item = f[0] /\ 0 \in 0 .. m - 1 /\ item \in 0 .. n - 1
    BY <1>1, <1>3 DEF IsRing
  <2>2. After(0, m - 1, 0) \in 0 .. m - 1 /\ Before(0, m - 1, 0) \in 0 .. m - 1
    BY <1>1 DEF After, Before
  <2>3. g.items[item].next = f[After(0, m - 1, 0)] /\ g.items[item].prev = f[Before(0, m - 1, 0)]
    BY <1>3, <2>1 DEF IsRing
  <2>4. \A a, b \in 0 .. m - 1 : f[a] = f[b] => a = b
    BY <1>3 DEF IsRing
  <2>5. After(0, m - 1, 0) = 0 <=> Before(0, m - 1, 0) = 0
    BY <1>1 DEF After, Before
  <2> QED
    BY <1>3, <2>1, <2>2, <2>3, <2>4, <2>5
<1> DEFINE f2 == RemovedAt(f, m, 0)
<1> HIDE DEF item, n, c, m, T, stored, L, f2
<1>6. /\ T \in Items(n) /\ SameContents(n, g.items, T) /\ Unlinked(n, g.items, item, T)
      /\ taken.itr = IF g.items[item].next = item THEN End ELSE g.items[item].next
  <2>1. taken = remove_item(g.items, item) /\ T = taken.items
    BY DEF T
  <2> HIDE DEF taken
  <2>2. n \in Nat /\ g.items \in Items(n)
    BY <1>1
  <2> QED
    BY <1>5, <2>1, <2>2, RemoveFields
<1> HIDE DEF taken
<1>7. /\ f2 \in [0 .. (m - 1) - 1 -> 0 .. n - 1]
      /\ \A k \in 0 .. (m - 1) - 1 : f2[k] # item /\ \E q \in 0 .. m - 1 : f2[k] = f[q]
      /\ \A q \in 0 .. m - 1 : q # 0 => \E k \in 0 .. (m - 1) - 1 : f2[k] = f[q]
      /\ IsRing(T, taken.itr, m - 1, f2)
  <2>1. Unlinked(n, g.items, f[0], T) /\ item = f[0] /\ 0 \in 0 .. m - 1 /\ m \in Nat
    BY <1>1, <1>5, <1>6
  <2>2. taken.itr = IF item # f[0] THEN item
                    ELSE IF g.items[f[0]].next = f[0] THEN End ELSE g.items[f[0]].next
    BY <1>5, <1>6
  <2>3. /\ f2 \in [0 .. (m - 1) - 1 -> 0 .. n - 1]
        /\ \A k \in 0 .. (m - 1) - 1 : f2[k] # f[0] /\ \E q \in 0 .. m - 1 : f2[k] = f[q]
        /\ \A q \in 0 .. m - 1 : q # 0 => \E k \in 0 .. (m - 1) - 1 : f2[k] = f[q]
        /\ IsRing(T, taken.itr, m - 1, f2)
    <3>1. n \in Nat /\ g.items \in Items(n) /\ f2 = RemovedAt(f, m, 0)
      BY <1>1 DEF f2
    <3>2. IsRing(g.items, item, m, f) /\ f \in [0 .. m - 1 -> 0 .. n - 1]
      BY <1>2, <1>3
    <3> QED
      <4>1. Removal(n, g.items, item, m, f, 0, T, taken.itr, f2)
        BY <2>1, <2>2, <3>1, <3>2 DEF Removal
      <4> QED
        BY <4>1, RingRemove
  <2> QED
    BY <2>1, <2>3
<1>8. /\ stored \in Items(n) /\ SameLinks(n, T, stored)
      /\ stored[item].used /\ stored[item].data = d
      /\ \A i \in 0 .. n - 1 : i # item => /\ stored[i].used = T[i].used
                                           /\ stored[i].data = T[i].data
  <2>1. stored = Marked(T, item, d, TRUE)
    BY DEF stored
  <2>2. n \in Nat /\ item \in 0 .. n - 1 /\ T \in Items(n)
    BY <1>1, <1>5, <1>6
  <2> QED
    <3>1. IsMarked(n, T, item, d, TRUE, stored)
      BY <2>1, <2>2, StoreFields, Zenon
    <3> QED
      BY <3>1 DEF IsMarked
(* the used ring is not touched by the removal of a free slot *)
<1>9. \A k \in 0 .. c - 1 :
        /\ u[k] \in 0 .. n - 1 /\ u[k] # item
        /\ stored[u[k]].next = g.items[u[k]].next /\ stored[u[k]].prev = g.items[u[k]].prev
  <2> TAKE k \in 0 .. c - 1
  <2>1. u[k] \in 0 .. n - 1 /\ g.items[u[k]].used
    BY <1>1, <1>4
  <2>2. u[k] # item /\ u[k] # g.items[item].next /\ u[k] # g.items[item].prev
    <3>1. After(0, m - 1, 0) \in 0 .. m - 1 /\ Before(0, m - 1, 0) \in 0 .. m - 1
      BY <1>1 DEF After, Before
    <3> QED
      BY <1>3, <1>5, <2>1, <3>1
  <2> QED
    BY <1>6, <1>8, <2>1, <2>2 DEF Unlinked, SameLinks
<1>10. IsRing(stored, g.used_head, c, u)
  BY <1>1, <1>4, <1>9, RingFrame
<1>11. IsRing(stored, taken.itr, m - 1, f2)
  <2>a. m \in Nat \ {0}
    BY <1>1
  <2>b. m - 1 \in Nat
    BY <2>a
  <2>c. f2 \in [0 .. (m - 1) - 1 -> 0 .. n - 1]
    BY <1>7
  <2>d. \A k \in 0 .. (m - 1) - 1 : f2[k] \in 0 .. n - 1
    BY <2>c
  <2>1. m - 1 \in Nat /\ \A k \in 0 .. (m - 1) - 1 : f2[k] \in 0 .. n - 1
    BY <2>b, <2>d
  <2>2. \A k \in 0 .. (m - 1) - 1 : /\ stored[f2[k]].next = T[f2[k]].next
                                     /\ stored[f2[k]].prev = T[f2[k]].prev
    BY <1>8, <2>1 DEF SameLinks
  <2> QED
    BY <1>7, <2>1, <2>2, RingFrame
(* the slot goes into the used ring *)
<1>12. /\ L \in Items(n) /\ SameContents(n, stored, L)
       /\ \A i \in 0 .. n - 1 :
            (i # item /\ \A k \in 0 .. c - 1 : u[k] # i) =>
                 L[i].next = stored[i].next /\ L[i].prev = stored[i].prev
       /\ u2 \in [0 .. (c + 1) - 1 -> 0 .. n - 1]
       /\ \A k \in 0 .. (c + 1) - 1 : u2[k] = item \/ \E q \in 0 .. c - 1 : u2[k] = u[q]
       /\ \A q \in 0 .. c - 1 : \E k \in 0 .. (c + 1) - 1 : u2[k] = u[q]
       /\ \E k \in 0 .. (c + 1) - 1 : u2[k] = item
       /\ IsRing(L, head, c + 1, u2)
  <2>1. CASE c = 0
    <3>1. target = End /\ head = item /\ j = 0
      BY <1>1, <2>1 DEF item, c
    <3>2. L \in Items(n) /\ SameContents(n, stored, L) /\ LinkedAlone(n, stored, item, L)
      BY <1>1, <1>5, <1>8, <3>1, InsertFirstFields DEF L
    <3>3. u2 = [k \in 0 .. 0 |-> item]
      BY <2>1, <3>1 DEF InsertedAt
    <3> HIDE DEF u2, linked
    <3>4. IsRing(L, head, 1, u2)
      BY <1>5, <3>1, <3>2, <3>3 DEF IsRing, After, Before, LinkedAlone
    <3> QED
      BY <1>5, <2>1, <3>2, <3>3, <3>4 DEF LinkedAlone
  <2>2. CASE c # 0
    <3> DEFINE t == IF j = c THEN 0 ELSE j
               p == Before(0, c - 1, t)
    <3>1. t \in 0 .. c - 1 /\ p \in 0 .. c - 1 /\ target = u[t]
      BY <1>1, <2>2 DEF Before, c
    <3>2. stored[target].prev = u[p] /\ target \in 0 .. n - 1 /\ u[p] \in 0 .. n - 1
      BY <1>1, <1>10, <3>1 DEF IsRing
    <3>3. item # target /\ u[p] # item
      BY <1>9, <3>1
    <3>4. L \in Items(n) /\ SameContents(n, stored, L) /\ LinkedBefore(n, stored, target, item, L)
      <4>1. stored[target].prev \in 0 .. n - 1 /\ stored[target].prev # item
        BY <3>2, <3>3
      <4> QED
        BY <1>1, <1>5, <1>8, <3>2, <3>3, <4>1, InsertFields DEF L
    <3> HIDE DEF linked
    <3>5. /\ u2 \in [0 .. (c + 1) - 1 -> 0 .. n - 1]
          /\ \A k \in 0 .. (c + 1) - 1 : u2[k] = item \/ \E q \in 0 .. c - 1 : u2[k] = u[q]
          /\ \A q \in 0 .. c - 1 : \E k \in 0 .. (c + 1) - 1 : u2[k] = u[q]
          /\ \E k \in 0 .. (c + 1) - 1 : u2[k] = item
          /\ IsRing(L, head, c + 1, u2)
      <4>1. head = IF j = 0 THEN item ELSE g.used_head
        BY DEF item
      <4>2. c \in Nat \ {0} /\ j \in 0 .. c /\ target = u[IF j = c THEN 0 ELSE j]
        BY <1>1, <2>2 DEF c
      <4>3. \A k \in 0 .. c - 1 : u[k] # item
        BY <1>9
      <4> QED
        <5>1. /\ n \in Nat /\ stored \in Items(n) /\ u \in [0 .. c - 1 -> 0 .. n - 1]
              /\ item \in 0 .. n - 1 /\ u2 = InsertedAt(u, c, j, item)
          BY <1>1, <1>5, <1>8
        <5> HIDE DEF u2
        <5> QED
          <6>1. Insertion(n, stored, g.used_head, c, u, j, target, item, L, head, u2)
            BY <5>1, <1>10, <3>4, <4>1, <4>2, <4>3 DEF Insertion
          <6> QED
            BY <6>1, RingInsert DEF RingWith
    <3> HIDE DEF u2
    <3> QED
      BY <3>1, <3>2, <3>4, <3>5 DEF LinkedBefore
  <2> QED
    BY <2>1, <2>2
<1> HIDE DEF linked, u2
(* and the free ring does not see it *)
<1>13. IsRing(L, taken.itr, m - 1, f2)
  <2>1. m - 1 \in Nat
    BY <1>1
  <2>2. \A k \in 0 .. (m - 1) - 1 : /\ L[f2[k]].next = stored[f2[k]].next
                                     /\ L[f2[k]].prev = stored[f2[k]].prev
    <3> TAKE k \in 0 .. (m - 1) - 1
    <3>1. f2[k] \in 0 .. n - 1 /\ f2[k] # item /\ ~g.items[f2[k]].used
      BY <1>3, <1>7
    <3>2. \A q \in 0 .. c - 1 : u[q] # f2[k]
      BY <1>4, <3>1
    <3> QED
      BY <1>12, <3>1, <3>2
  <2> QED
    BY <1>11, <2>1, <2>2, RingFrame
<1>14. /\ r.dfn = g.dfn /\ r.size = n /\ r.count = c + 1 /\ r.items = L
       /\ r.used_head = head /\ r.free_head = taken.itr
       /\ r = [dfn |-> r.dfn, size |-> r.size, count |-> r.count,
               used_head |-> r.used_head, free_head |-> r.free_head, items |-> r.items]
  <2>1. g = [dfn |-> g.dfn, size |-> g.size, count |-> g.count,
             used_head |-> g.used_head, free_head |-> g.free_head, items |-> g.items]
    BY DEF IsList
  <2>2. r = [g EXCEPT !.items = L, !.used_head = head,
                      !.free_head = taken.itr, !.count = @ + 1]
    BY DEF Placed, L, linked, stored, T, taken, item
  <2> HIDE DEF r
  <2> QED
    BY <2>1, <2>2 DEF n, c
<1> HIDE DEF r
<1>15. IsList(r)
  <2>1. head \in 0 .. n - 1
    BY <1>1, <1>12 DEF IsRing
  <2>2. taken.itr \in {End} \cup 0 .. n - 1
    BY <1>5, <1>6
  <2>3. g.dfn \in BOOLEAN
    BY DEF IsList
  <2>4. L \in Items(n)
    BY <1>12
  <2>5. n \in 0 .. MaxSize /\ c + 1 \in 0 .. n
    BY <1>1, SizeAssumption
  <2> QED
    BY <1>14, <2>1, <2>2, <2>3, <2>4, <2>5 DEF IsList, Indices
<1>c. /\ L[item].used /\ L[item].data = d
      /\ \A i \in 0 .. n - 1 : i # item => /\ L[i].used = g.items[i].used
                                           /\ L[i].data = g.items[i].data
  BY <1>5, <1>6, <1>8, <1>12 DEF SameContents
<1>16. UsedRing(r, u2)
  <2>1. \A k \in 0 .. (c + 1) - 1 : L[u2[k]].used /\ L[u2[k]].data # NULL
    <3> TAKE k \in 0 .. (c + 1) - 1
    <3>1. CASE u2[k] = item
      BY <1>c, <3>1, DataAssumption
    <3>2. CASE u2[k] # item
      <4>1. PICK q \in 0 .. c - 1 : u2[k] = u[q]
        BY <1>12, <3>2
      <4>2. u[q] \in 0 .. n - 1 /\ g.items[u[q]].used /\ g.items[u[q]].data # NULL
        BY <1>4, <1>9
      <4> QED
        BY <1>c, <3>2, <4>1, <4>2
    <3> QED
      BY <3>1, <3>2
  <2>2. ASSUME NEW i \in 0 .. n - 1, L[i].used
        PROVE  \E k \in 0 .. (c + 1) - 1 : u2[k] = i
    <3>1. CASE i = item
      BY <1>12, <3>1
    <3>2. CASE i # item
      <4>1. PICK q \in 0 .. c - 1 : u[q] = i
        BY <1>4, <1>c, <2>2, <3>2
      <4> QED
        BY <1>12, <4>1
    <3> QED
      BY <3>1, <3>2
  <2> QED
    BY <1>12, <1>14, <2>1, <2>2 DEF UsedRing, Indices
<1>17. FreeRing(r, f2)
  <2>1. ASSUME NEW k \in 0 .. (m - 1) - 1
        PROVE  ~L[f2[k]].used
    <3>1. PICK q \in 0 .. m - 1 : f2[k] = f[q]
      BY <1>7
    <3>2. f2[k] # item /\ f2[k] \in 0 .. n - 1 /\ ~g.items[f2[k]].used
      BY <1>3, <1>7, <3>1
    <3> QED
      BY <1>c, <3>2
  <2>2. ASSUME NEW i \in 0 .. n - 1, ~L[i].used
        PROVE  \E k \in 0 .. (m - 1) - 1 : f2[k] = i
    <3>1. i # item /\ ~g.items[i].used
      BY <1>c, <2>2
    <3>2. PICK q \in 0 .. m - 1 : f[q] = i
      BY <1>3, <3>1
    <3>3. q # 0
      BY <1>5, <3>1, <3>2
    <3> QED
      BY <1>7, <3>2, <3>3
  <2>3. r.size - r.count = m - 1
    BY <1>1, <1>14
  <2> QED
    BY <1>7, <1>13, <1>14, <2>1, <2>2, <2>3 DEF FreeRing, Indices
<1>18. WellFormed(r)
  BY <1>16, <1>17 DEF WellFormed, UsedRing, FreeRing
<1>19. Along(r, u2) = SeqWith(Along(g, u), c, j, d)
  <2>1. Along(r, u2) = [k \in 1 .. c + 1 |-> L[u2[k - 1]].data]
    BY <1>14 DEF Along
  <2>2. Along(g, u) = [k \in 1 .. c |-> g.items[u[k - 1]].data]
    BY DEF Along, c
  <2>3. j \in 0 .. c
    BY DEF c
  <2>4. ASSUME NEW q \in 0 .. c - 1 PROVE L[u[q]].data = g.items[u[q]].data
    BY <1>9, <1>c
  <2>5. ASSUME NEW k \in 1 .. c + 1
        PROVE  L[u2[k - 1]].data = IF k <= j THEN Along(g, u)[k] ELSE IF k = j + 1 THEN d ELSE Along(g, u)[k - 1]
    <3>0. k - 1 \in 0 .. (c + 1) - 1
      BY <1>1
    <3>i. u2[k - 1] = IF k - 1 < j THEN u[k - 1] ELSE IF k - 1 = j THEN item ELSE u[(k - 1) - 1]
      BY <3>0 DEF u2, InsertedAt
    <3>1. CASE k <= j
      <4>1. k - 1 \in 0 .. c - 1 /\ k \in 1 .. c /\ k - 1 < j
        BY <1>1, <2>3, <3>1
      <4>2. L[u[k - 1]].data = g.items[u[k - 1]].data
        BY <2>4, <4>1
      <4> QED
        BY <2>2, <3>1, <3>i, <4>1, <4>2
    <3>2. CASE k = j + 1
      <4>1. ~(k <= j) /\ ~(k - 1 < j) /\ k - 1 = j
        BY <2>3, <3>2
      <4> QED
        BY <1>c, <3>2, <3>i, <4>1
    <3>3. CASE k > j + 1
      <4>1. /\ (k - 1) - 1 \in 0 .. c - 1 /\ k - 1 \in 1 .. c /\ ~(k - 1 < j) /\ k - 1 # j
            /\ ~(k <= j) /\ k # j + 1
        BY <1>1, <2>3, <3>3
      <4>2. PICK q \in 0 .. c - 1 : q = (k - 1) - 1
        BY <4>1
      <4>3. L[u[q]].data = g.items[u[q]].data /\ u2[k - 1] = u[q]
        BY <2>4, <3>i, <4>1, <4>2
      <4>4. Along(g, u)[k - 1] = g.items[u[q]].data
        BY <2>2, <4>1, <4>2
      <4> QED
        BY <4>1, <4>3, <4>4
    <3> QED
      BY <1>1, <2>3, <3>1, <3>2, <3>3
  <2> QED
    BY <2>1, <2>5 DEF SeqWith
<1> QED
  BY <1>14, <1>15, <1>16, <1>18, <1>19 DEF r, u2, item, c
-----------------------------------------------------------------------------
(* What list_pop does to a list that has an item there: the slot leaves    *)
(* the used ring and becomes the last one of the free ring.                *)
Popped(l, item) ==
  LET removed == remove_item(l.items, item)
      cleared == Marked(removed.items, item, NULL, FALSE)
      freed   == insert_item(cleared, l.free_head, item)
  IN  [l EXCEPT !.items = freed.items, !.free_head = freed.itr,
                !.used_head = IF item = @ THEN removed.itr ELSE @,
                !.count = @ - 1]

(* The item at position j of the used ring u is gone from it, and the      *)
(* iterator is at the item that followed.                                  *)
PoppedFrom(l, u, j, item) ==
  LET after == remove_item(l.items, item).itr
      r     == Popped(l, item)
  IN  /\ IsList(r) /\ WellFormed(r)
      /\ after \in {End} \cup Indices(l)
      /\ after = IF l.count = 1 THEN End ELSE u[After(0, l.count - 1, j)]
      /\ r.count = l.count - 1 /\ r.dfn = l.dfn
      /\ UsedRing(r, RemovedAt(u, l.count, j))
      /\ Along(r, RemovedAt(u, l.count, j)) = SeqWithout(Along(l, u), l.count, j)

LEMMA PoppedRings ==
  ASSUME NEW l, IsList(l), WellFormed(l), NEW u, UsedRing(l, u),
         NEW j \in 0 .. l.count - 1, NEW item, item = u[j]
  PROVE  PoppedFrom(l, u, j, item)
<1> DEFINE n       == l.size
           c       == l.count
           m       == n - c
           removed == remove_item(l.items, item)
           R       == removed.items
           cleared == Marked(R, item, NULL, FALSE)
           freed   == insert_item(cleared, l.free_head, item)
           F       == freed.items
           r       == Popped(l, item)
           u2      == RemovedAt(u, c, j)
           uh      == IF item = l.used_head THEN removed.itr ELSE l.used_head
<1>1. /\ n \in Nat /\ n <= MaxSize /\ c \in Nat \ {0} /\ c <= n /\ m \in Nat /\ m = n - c
      /\ l.items \in Items(n) /\ j \in 0 .. c - 1
      /\ u \in [0 .. c - 1 -> 0 .. n - 1]
  BY SizeAssumption DEF IsList, UsedRing, Indices
<1>2. PICK f \in [0 .. m - 1 -> 0 .. n - 1] : FreeRing(l, f)
  BY DEF WellFormed, Indices
<1>3. /\ IsRing(l.items, l.free_head, m, f)
      /\ \A k \in 0 .. m - 1 : ~l.items[f[k]].used
      /\ \A i \in 0 .. n - 1 : ~l.items[i].used => \E k \in 0 .. m - 1 : f[k] = i
  BY <1>2 DEF FreeRing, Indices
<1>4. /\ IsRing(l.items, l.used_head, c, u)
      /\ \A k \in 0 .. c - 1 : l.items[u[k]].used /\ l.items[u[k]].data # NULL
      /\ \A i \in 0 .. n - 1 : l.items[i].used => \E k \in 0 .. c - 1 : u[k] = i
  BY DEF UsedRing, Indices
<1>5. /\ item \in 0 .. n - 1 /\ l.items[item].used
      /\ l.items[item].next = u[After(0, c - 1, j)]
      /\ l.items[item].prev = u[Before(0, c - 1, j)]
      /\ After(0, c - 1, j) \in 0 .. c - 1 /\ Before(0, c - 1, j) \in 0 .. c - 1
      /\ l.items[item].next \in 0 .. n - 1 /\ l.items[item].prev \in 0 .. n - 1
      /\ l.items[item].next = item <=> l.items[item].prev = item
  <2>1. item \in 0 .. n - 1 /\ l.items[item].used
    BY <1>1, <1>4
  <2>2. After(0, c - 1, j) \in 0 .. c - 1 /\ Before(0, c - 1, j) \in 0 .. c - 1
    BY <1>1 DEF After, Before
  <2>3. l.items[item].next = u[After(0, c - 1, j)] /\ l.items[item].prev = u[Before(0, c - 1, j)]
    BY <1>4 DEF IsRing
  <2>4. \A a, b \in 0 .. c - 1 : u[a] = u[b] => a = b
    BY <1>4 DEF IsRing
  <2>5. After(0, c - 1, j) = j <=> Before(0, c - 1, j) = j
    BY <1>1 DEF After, Before
  <2>6. l.items[item].next \in 0 .. n - 1 /\ l.items[item].prev \in 0 .. n - 1
    BY <1>1, <2>2, <2>3
  <2>7. l.items[item].next = item <=> l.items[item].prev = item
    BY <1>1, <2>2, <2>3, <2>4, <2>5
  <2> QED
    BY <2>1, <2>2, <2>3, <2>6, <2>7
<1> DEFINE f2 == InsertedAt(f, m, m, item)
<1>h. /\ R = removed.items /\ F = freed.items /\ u2 = RemovedAt(u, c, j)
      /\ f2 = InsertedAt(f, m, m, item)
  OBVIOUS
<1>g. /\ freed = insert_item(cleared, l.free_head, item)
      /\ uh = IF item = l.used_head THEN removed.itr ELSE l.used_head
  OBVIOUS
<1> HIDE DEF n, c, m, R, cleared, F, f2, u2, freed, uh
<1>6. /\ R \in Items(n) /\ SameContents(n, l.items, R) /\ Unlinked(n, l.items, item, R)
      /\ removed.itr = IF l.items[item].next = item THEN End ELSE l.items[item].next
  <2>1. removed = remove_item(l.items, item)
    OBVIOUS
  <2> HIDE DEF removed
  <2>2. n \in Nat /\ l.items \in Items(n)
    BY <1>1
  <2> QED
    BY <1>5, <1>h, <2>1, <2>2, RemoveFields
<1> HIDE DEF removed
<1>7. /\ u2 \in [0 .. (c - 1) - 1 -> 0 .. n - 1]
      /\ \A k \in 0 .. (c - 1) - 1 : u2[k] # item /\ \E q \in 0 .. c - 1 : u2[k] = u[q]
      /\ \A q \in 0 .. c - 1 : q # j => \E k \in 0 .. (c - 1) - 1 : u2[k] = u[q]
      /\ IsRing(R, uh, c - 1, u2)
  <2>1. Unlinked(n, l.items, u[j], R)
    BY <1>6
  <2>2. uh = IF l.used_head # u[j] THEN l.used_head
             ELSE IF l.items[u[j]].next = u[j] THEN End ELSE l.items[u[j]].next
    BY <1>6, <1>g
  <2>3. Removal(n, l.items, l.used_head, c, u, j, R, uh, u2)
    BY <1>1, <1>4, <1>h, <2>1, <2>2 DEF Removal
  <2> QED
    BY <2>3, RingRemove
<1>8. /\ cleared \in Items(n) /\ SameLinks(n, R, cleared)
      /\ ~cleared[item].used
      /\ \A i \in 0 .. n - 1 : i # item => /\ cleared[i].used = R[i].used
                                           /\ cleared[i].data = R[i].data
  <2>1. cleared = Marked(R, item, NULL, FALSE)
    BY DEF cleared
  <2>2. n \in Nat /\ item \in 0 .. n - 1 /\ R \in Items(n) /\ NULL \in Data \cup {NULL}
    BY <1>1, <1>5, <1>6
  <2>3. IsMarked(n, R, item, NULL, FALSE, cleared)
    BY <2>1, <2>2, StoreFields, Zenon
  <2> QED
    BY <2>3 DEF IsMarked
(* the free ring is not touched by the removal of a used slot *)
<1>9. \A k \in 0 .. m - 1 :
        /\ f[k] \in 0 .. n - 1 /\ f[k] # item
        /\ cleared[f[k]].next = l.items[f[k]].next /\ cleared[f[k]].prev = l.items[f[k]].prev
  <2> TAKE k \in 0 .. m - 1
  <2>1. f[k] \in 0 .. n - 1 /\ ~l.items[f[k]].used
    BY <1>2, <1>3
  <2>2. f[k] # item /\ f[k] # l.items[item].next /\ f[k] # l.items[item].prev
    BY <1>4, <1>5, <2>1
  <2> QED
    BY <1>6, <1>8, <2>1, <2>2 DEF Unlinked, SameLinks
<1>10. IsRing(cleared, l.free_head, m, f)
  BY <1>1, <1>3, <1>9, RingFrame
<1>11. IsRing(cleared, uh, c - 1, u2)
  <2>1. c - 1 \in Nat
    BY <1>1
  <2>2. \A k \in 0 .. (c - 1) - 1 : u2[k] \in 0 .. n - 1
    BY <1>7
  <2>3. \A k \in 0 .. (c - 1) - 1 : /\ cleared[u2[k]].next = R[u2[k]].next
                                    /\ cleared[u2[k]].prev = R[u2[k]].prev
    BY <1>8, <2>2 DEF SameLinks
  <2> QED
    BY <1>7, <2>1, <2>3, RingFrame
(* the slot goes to the end of the free ring *)
<1>12. /\ F \in Items(n) /\ SameContents(n, cleared, F)
       /\ \A i \in 0 .. n - 1 :
            (i # item /\ \A k \in 0 .. m - 1 : f[k] # i) =>
                 F[i].next = cleared[i].next /\ F[i].prev = cleared[i].prev
       /\ f2 \in [0 .. (m + 1) - 1 -> 0 .. n - 1]
       /\ \A k \in 0 .. (m + 1) - 1 : f2[k] = item \/ \E q \in 0 .. m - 1 : f2[k] = f[q]
       /\ \A q \in 0 .. m - 1 : \E k \in 0 .. (m + 1) - 1 : f2[k] = f[q]
       /\ \E k \in 0 .. (m + 1) - 1 : f2[k] = item
       /\ IsRing(F, freed.itr, m + 1, f2)
  <2>1. CASE m = 0
    <3>1. l.free_head = End
      BY <1>3, <2>1 DEF IsRing
    <3>2. F \in Items(n) /\ SameContents(n, cleared, F) /\ LinkedAlone(n, cleared, item, F) /\ freed.itr = item
      BY <1>1, <1>5, <1>8, <1>g, <1>h, <3>1, InsertFirstFields
    <3>3. f2 = [k \in 0 .. 0 |-> item]
      BY <1>h, <2>1 DEF InsertedAt
    <3>4. IsRing(F, freed.itr, 1, f2)
      BY <1>5, <3>2, <3>3 DEF IsRing, After, Before, LinkedAlone
    <3> QED
      BY <1>5, <2>1, <3>2, <3>3, <3>4 DEF LinkedAlone
  <2>2. CASE m # 0
    <3> DEFINE p == Before(0, m - 1, 0)
    <3>1. p \in 0 .. m - 1 /\ l.free_head = f[0] /\ 0 \in 0 .. m - 1
      BY <1>1, <1>3, <2>2 DEF Before, IsRing
    <3>2. cleared[l.free_head].prev = f[p] /\ l.free_head \in 0 .. n - 1 /\ f[p] \in 0 .. n - 1
      BY <1>1, <1>2, <1>10, <3>1 DEF IsRing
    <3>3. item # l.free_head /\ f[p] # item
      BY <1>9, <3>1
    <3>4. /\ F \in Items(n) /\ SameContents(n, cleared, F)
          /\ LinkedBefore(n, cleared, l.free_head, item, F)
          /\ freed.itr = l.free_head
      <4>1. cleared[l.free_head].prev \in 0 .. n - 1 /\ cleared[l.free_head].prev # item
        BY <3>2, <3>3
      <4>2. n \in Nat /\ item \in 0 .. n - 1 /\ cleared \in Items(n)
        BY <1>1, <1>5, <1>8
      <4>3. l.free_head \in 0 .. n - 1 /\ item # l.free_head
        BY <3>2, <3>3
      <4> QED
        BY <1>g, <1>h, <4>1, <4>2, <4>3, InsertFields
    <3>5. /\ f2 \in [0 .. (m + 1) - 1 -> 0 .. n - 1]
          /\ \A k \in 0 .. (m + 1) - 1 : f2[k] = item \/ \E q \in 0 .. m - 1 : f2[k] = f[q]
          /\ \A q \in 0 .. m - 1 : \E k \in 0 .. (m + 1) - 1 : f2[k] = f[q]
          /\ \E k \in 0 .. (m + 1) - 1 : f2[k] = item
          /\ IsRing(F, freed.itr, m + 1, f2)
      <4>1. /\ m \in Nat \ {0} /\ m \in 0 .. m /\ l.free_head = f[IF m = m THEN 0 ELSE m]
            /\ freed.itr = IF m = 0 THEN item ELSE l.free_head
        BY <1>1, <2>2, <3>1, <3>4
      <4>2. \A k \in 0 .. m - 1 : f[k] # item
        BY <1>9
      <4>3. Insertion(n, cleared, l.free_head, m, f, m, l.free_head, item, F, freed.itr, f2)
        BY <1>1, <1>2, <1>5, <1>8, <1>10, <1>h, <3>4, <4>1, <4>2 DEF Insertion
      <4>4. RingWith(n, m, f, item, F, freed.itr, f2)
        BY <4>3, RingInsert, Zenon
      <4> QED
        BY <4>4 DEF RingWith
    <3> QED
      BY <3>1, <3>2, <3>4, <3>5 DEF LinkedBefore
  <2> QED
    BY <2>1, <2>2
(* and the used ring does not see it *)
<1>13. IsRing(F, uh, c - 1, u2)
  <2>1. c - 1 \in Nat
    BY <1>1
  <2>2. \A k \in 0 .. (c - 1) - 1 : /\ F[u2[k]].next = cleared[u2[k]].next
                                     /\ F[u2[k]].prev = cleared[u2[k]].prev
    <3> TAKE k \in 0 .. (c - 1) - 1
    <3>1. u2[k] \in 0 .. n - 1 /\ u2[k] # item /\ l.items[u2[k]].used
      BY <1>4, <1>7
    <3>2. \A q \in 0 .. m - 1 : f[q] # u2[k]
      BY <1>3, <3>1
    <3> QED
      BY <1>12, <3>1, <3>2
  <2> QED
    BY <1>11, <2>1, <2>2, RingFrame
<1>14. /\ r.dfn = l.dfn /\ r.size = n /\ r.count = c - 1 /\ r.items = F
       /\ r.used_head = uh /\ r.free_head = freed.itr
       /\ r = [dfn |-> r.dfn, size |-> r.size, count |-> r.count,
               used_head |-> r.used_head, free_head |-> r.free_head, items |-> r.items]
  <2>1. l = [dfn |-> l.dfn, size |-> l.size, count |-> l.count,
             used_head |-> l.used_head, free_head |-> l.free_head, items |-> l.items]
    BY DEF IsList
  <2>2. r = [l EXCEPT !.items = F, !.free_head = freed.itr,
                      !.used_head = IF item = @ THEN removed.itr ELSE @,
                      !.count = @ - 1]
    BY DEF Popped, F, freed, cleared, R, removed
  <2> HIDE DEF r
  <2> QED
    BY <1>g, <2>1, <2>2 DEF n, c
<1> HIDE DEF r
<1>15. removed.itr \in {End} \cup 0 .. n - 1
  BY <1>5, <1>6
<1>16. IsList(r)
  <2>1. uh \in {End} \cup 0 .. n - 1
    BY <1>15, <1>g DEF IsList, Indices, n
  <2>2. freed.itr \in 0 .. n - 1
    <3>1. IsRing(F, freed.itr, m + 1, f2) /\ f2 \in [0 .. (m + 1) - 1 -> 0 .. n - 1]
      BY <1>12
    <3>2. m + 1 # 0 /\ 0 \in 0 .. (m + 1) - 1
      BY <1>1
    <3> QED
      BY <3>1, <3>2 DEF IsRing
  <2>3. l.dfn \in BOOLEAN
    BY DEF IsList
  <2>4. F \in Items(n)
    BY <1>12
  <2>5. n \in 0 .. MaxSize /\ c - 1 \in 0 .. n
    BY <1>1, SizeAssumption
  <2> QED
    BY <1>14, <2>1, <2>2, <2>3, <2>4, <2>5 DEF IsList, Indices
<1>c. /\ ~F[item].used
      /\ \A i \in 0 .. n - 1 : i # item => /\ F[i].used = l.items[i].used
                                           /\ F[i].data = l.items[i].data
  <2>1. \A i \in 0 .. n - 1 : /\ F[i].used = cleared[i].used /\ F[i].data = cleared[i].data
                               /\ R[i].used = l.items[i].used /\ R[i].data = l.items[i].data
    BY <1>6, <1>12 DEF SameContents
  <2>2. /\ ~cleared[item].used /\ item \in 0 .. n - 1
        /\ \A i \in 0 .. n - 1 : i # item => /\ cleared[i].used = R[i].used
                                             /\ cleared[i].data = R[i].data
    BY <1>5, <1>8
  <2> QED
    BY <2>1, <2>2
<1>17. UsedRing(r, u2)
  <2>1. \A k \in 0 .. (c - 1) - 1 : F[u2[k]].used /\ F[u2[k]].data # NULL
    <3> TAKE k \in 0 .. (c - 1) - 1
    <3>1. PICK q \in 0 .. c - 1 : u2[k] = u[q]
      BY <1>7
    <3>2. u2[k] # item /\ u2[k] \in 0 .. n - 1 /\ l.items[u2[k]].used /\ l.items[u2[k]].data # NULL
      BY <1>4, <1>7, <3>1
    <3> QED
      BY <1>c, <3>2
  <2>2. ASSUME NEW i \in 0 .. n - 1, F[i].used
        PROVE  \E k \in 0 .. (c - 1) - 1 : u2[k] = i
    <3>1. i # item /\ l.items[i].used
      BY <1>c, <2>2
    <3>2. PICK q \in 0 .. c - 1 : u[q] = i
      BY <1>4, <3>1
    <3> QED
      BY <1>7, <3>1, <3>2
  <2> QED
    BY <1>7, <1>13, <1>14, <2>1, <2>2 DEF UsedRing, Indices
<1>18. FreeRing(r, f2)
  <2>1. ASSUME NEW k \in 0 .. (m + 1) - 1
        PROVE  ~F[f2[k]].used
    <3>1. CASE f2[k] = item
      BY <1>c, <3>1
    <3>2. CASE f2[k] # item
      <4>1. PICK q \in 0 .. m - 1 : f2[k] = f[q]
        BY <1>12, <3>2
      <4>2. f[q] \in 0 .. n - 1 /\ ~l.items[f[q]].used
        BY <1>3, <1>9
      <4> QED
        BY <1>c, <3>2, <4>1, <4>2
    <3> QED
      BY <3>1, <3>2
  <2>2. ASSUME NEW i \in 0 .. n - 1, ~F[i].used
        PROVE  \E k \in 0 .. (m + 1) - 1 : f2[k] = i
    <3>1. CASE i = item
      BY <1>12, <3>1
    <3>2. CASE i # item
      <4>1. PICK q \in 0 .. m - 1 : f[q] = i
        BY <1>3, <1>c, <2>2, <3>2
      <4> QED
        BY <1>12, <4>1
    <3> QED
      BY <3>1, <3>2
  <2>3. r.size - r.count = m + 1
    BY <1>1, <1>14
  <2> QED
    BY <1>12, <1>14, <2>1, <2>2, <2>3 DEF FreeRing, Indices
<1>19. WellFormed(r)
  BY <1>17, <1>18 DEF WellFormed, UsedRing, FreeRing
<1>20. removed.itr = IF c = 1 THEN End ELSE u[After(0, c - 1, j)]
  <2>1. \A a, b \in 0 .. c - 1 : u[a] = u[b] => a = b
    BY <1>4 DEF IsRing
  <2>2. After(0, c - 1, j) = j <=> c = 1
    BY <1>1 DEF After
  <2>3. l.items[item].next = item <=> c = 1
    BY <1>1, <1>5, <2>1, <2>2
  <2> QED
    BY <1>5, <1>6, <2>3
<1>21. Along(r, u2) = SeqWithout(Along(l, u), c, j)
  <2>1. Along(r, u2) = [k \in 1 .. c - 1 |-> F[u2[k - 1]].data]
    BY <1>14 DEF Along
  <2>2. Along(l, u) = [k \in 1 .. c |-> l.items[u[k - 1]].data]
    BY DEF Along, c
  <2>3. \A a, b \in 0 .. c - 1 : u[a] = u[b] => a = b
    BY <1>4 DEF IsRing
  <2>4. ASSUME NEW q \in 0 .. c - 1, q # j PROVE F[u[q]].data = l.items[u[q]].data
    <3>1. u[q] # item /\ u[q] \in 0 .. n - 1
      BY <1>1, <2>3, <2>4
    <3> QED
      BY <1>c, <3>1
  <2>5. ASSUME NEW k \in 1 .. c - 1
        PROVE  F[u2[k - 1]].data = IF k <= j THEN Along(l, u)[k] ELSE Along(l, u)[k + 1]
    <3>0. k - 1 \in 0 .. (c - 1) - 1
      BY <1>1
    <3>i. u2[k - 1] = IF k - 1 < j THEN u[k - 1] ELSE u[(k - 1) + 1]
      BY <1>h, <3>0 DEF RemovedAt
    <3>1. CASE k <= j
      <4>1. k - 1 \in 0 .. c - 1 /\ k \in 1 .. c /\ k - 1 < j /\ k - 1 # j
        BY <1>1, <3>1
      <4>2. F[u[k - 1]].data = l.items[u[k - 1]].data
        BY <2>4, <4>1
      <4> QED
        BY <2>2, <3>1, <3>i, <4>1, <4>2
    <3>2. CASE ~(k <= j)
      <4>1. /\ (k - 1) + 1 = k /\ (k + 1) - 1 = k /\ k \in 0 .. c - 1 /\ k + 1 \in 1 .. c
            /\ ~(k - 1 < j) /\ k # j
        BY <1>1, <3>2
      <4>2. PICK q \in 0 .. c - 1 : q = k
        BY <4>1
      <4>3. F[u[q]].data = l.items[u[q]].data /\ u2[k - 1] = u[q]
        BY <2>4, <3>i, <4>1, <4>2
      <4>4. Along(l, u)[k + 1] = l.items[u[q]].data
        BY <2>2, <4>1, <4>2
      <4> QED
        BY <3>2, <4>3, <4>4
    <3> QED
      BY <3>1, <3>2
  <2> QED
    BY <2>1, <2>5 DEF SeqWithout
<1>22. /\ IsList(r) /\ WellFormed(r) /\ removed.itr \in {End} \cup Indices(l)
       /\ removed.itr = IF l.count = 1 THEN End ELSE u[After(0, l.count - 1, j)]
       /\ r.count = l.count - 1 /\ r.dfn = l.dfn
       /\ UsedRing(r, RemovedAt(u, l.count, j))
       /\ Along(r, RemovedAt(u, l.count, j)) = SeqWithout(Along(l, u), l.count, j)
  BY <1>14, <1>15, <1>16, <1>17, <1>19, <1>20, <1>21, <1>h DEF n, c, Indices
<1> QED
  BY <1>22, Zenon DEF PoppedFrom, r, removed
-----------------------------------------------------------------------------
(* The iterator that list_push inserts in front of stands for the same     *)
(* item after the array was grown.                                         *)
SameWalk(l, u, g, v) ==
  \A q \in 0 .. l.count - 1 : Relocated(l, g, u[q]) = v[q] /\ Position(l, u[q]) = {q}

LEMMA RelocatedItem ==
  ASSUME NEW l, IsList(l), NEW u, UsedRing(l, u), NEW g, IsList(g),
         NEW v, UsedRing(g, v), g.count = l.count
  PROVE  SameWalk(l, u, g, v)
<1>1. /\ WalkLength(l) = l.count /\ l.count \in Nat
      /\ \A k \in 0 .. l.count - 1 : Walk(l)[k] = u[k]
  BY WalkOfRing DEF IsList
<1>2. \A k \in 0 .. l.count - 1 : Walk(g)[k] = v[k]
  BY WalkOfRing
<1>3. \A a, b \in 0 .. l.count - 1 : u[a] = u[b] => a = b
  BY DEF UsedRing, IsRing
<1> SUFFICES ASSUME NEW q \in 0 .. l.count - 1
             PROVE  Relocated(l, g, u[q]) = v[q] /\ Position(l, u[q]) = {q}
  BY DEF SameWalk
<1>4. Position(l, u[q]) = {q}
  <2>1. Position(l, u[q]) = {k \in 0 .. l.count - 1 : Walk(l)[k] = u[q]}
    BY <1>1 DEF Position
  <2> QED
    BY <1>1, <1>3, <2>1
<1>5. (CHOOSE k \in Position(l, u[q]) : TRUE) = q
  BY <1>4
<1> QED
  BY <1>2, <1>4, <1>5 DEF Relocated

(* Where an iterator is in the list. *)
Positions(l, u) == \A itr : Position(l, itr) = {k \in 0 .. l.count - 1 : u[k] = itr}

LEMMA PositionAlong ==
  ASSUME NEW l, IsList(l), NEW u, UsedRing(l, u)
  PROVE  Positions(l, u)
<1>1. WalkLength(l) = l.count /\ \A k \in 0 .. l.count - 1 : Walk(l)[k] = u[k]
  BY WalkOfRing
<1> SUFFICES ASSUME NEW itr
             PROVE  Position(l, itr) = {k \in 0 .. l.count - 1 : u[k] = itr}
  BY DEF Positions
<1>2. Position(l, itr) = {k \in 0 .. l.count - 1 : Walk(l)[k] = itr}
  BY <1>1 DEF Position
<1> QED
  BY <1>1, <1>2

(* What the iterators do, by position: list_itr_begin is at the first      *)
(* item, list_itr_next goes one on, and list_get gets what is there.       *)
Iterates(l) ==
  /\ IF l.count = 0 THEN list_itr_begin(l) = End ELSE Position(l, list_itr_begin(l)) = {0}
  /\ \A itr : \A q \in 0 .. l.count - 1 : Position(l, itr) = {q} =>
       /\ itr \in Indices(l)
       /\ list_get(l, itr) = Contents(l)[q + 1]
       /\ IF q = l.count - 1 THEN list_itr_next(l, itr) = End
                             ELSE Position(l, list_itr_next(l, itr)) = {q + 1}
  /\ WalkLength(l) = l.count
  /\ \A k \in 0 .. l.count - 1 : /\ Position(l, Walk(l)[k]) = {k}
                                 /\ list_get(l, Walk(l)[k]) = Contents(l)[k + 1]

LEMMA IteratorsMove ==
  ASSUME NEW l, IsList(l), WellFormed(l)
  PROVE  Iterates(l)
<1> DEFINE c == l.count
<1>1. PICK u \in [0 .. l.count - 1 -> Indices(l)] : UsedRing(l, u)
  BY DEF WellFormed
<1>2. /\ l.size \in Nat /\ c \in Nat
      /\ \A a, b \in 0 .. c - 1 : u[a] = u[b] => a = b
      /\ \A k \in 0 .. c - 1 : l.items[u[k]].next = u[After(0, c - 1, k)] /\ l.items[u[k]].used
      /\ c # 0 => l.used_head = u[0]
  BY <1>1 DEF IsList, UsedRing, IsRing
<1>3. Positions(l, u)
  BY <1>1, PositionAlong
<1>4. WalkLength(l) = c /\ \A k \in 0 .. c - 1 : Walk(l)[k] = u[k]
  BY <1>1, WalkOfRing
<1>5. ASSUME NEW k \in 0 .. c - 1 PROVE Position(l, u[k]) = {k}
  <2>1. PICK x : x = u[k]
    OBVIOUS
  <2>2. Position(l, x) = {i \in 0 .. c - 1 : u[i] = x}
    BY <1>3, Zenon DEF Positions
  <2> QED
    BY <1>2, <2>1, <2>2
<1>6. ASSUME NEW k \in 0 .. c - 1 PROVE list_get(l, u[k]) = Contents(l)[k + 1]
  <2>1. Contents(l) = Along(l, u)
    BY <1>1, ContentsAlong
  <2>2. k + 1 \in 1 .. c /\ (k + 1) - 1 = k
    BY <1>2
  <2>3. Along(l, u)[k + 1] = l.items[u[k]].data
    BY <2>2 DEF Along
  <2>4. u[k] \in Indices(l) /\ l.items[u[k]].used
    BY <1>1, <1>2
  <2> QED
    BY <2>1, <2>3, <2>4 DEF list_get
<1>7. ASSUME NEW itr, NEW q \in 0 .. c - 1, Position(l, itr) = {q} PROVE itr = u[q]
  <2>1. Position(l, itr) = {i \in 0 .. c - 1 : u[i] = itr}
    BY <1>3, Zenon DEF Positions
  <2> QED
    BY <1>7, <2>1
<1>8. ASSUME NEW q \in 0 .. c - 1
      PROVE  IF q = c - 1 THEN list_itr_next(l, u[q]) = End ELSE list_itr_next(l, u[q]) = u[q + 1]
  <2>1. u[q] # End /\ 0 \in 0 .. c - 1 /\ c # 0
    BY <1>1, <1>2 DEF Indices, End
  <2>2. l.items[u[q]].next = u[After(0, c - 1, q)] /\ l.used_head = u[0]
    BY <1>2, <2>1
  <2>3. CASE q = c - 1
    BY <2>1, <2>2, <2>3 DEF After, list_itr_next
  <2>4. CASE q # c - 1
    <3>1. q + 1 \in 0 .. c - 1 /\ q + 1 # 0
      BY <1>2, <2>4
    <3>2. u[q + 1] # u[0]
      BY <1>2, <2>1, <3>1
    <3> QED
      BY <2>1, <2>2, <2>4, <3>2 DEF After, list_itr_next
  <2> QED
    BY <2>3, <2>4
<1>9. IF c = 0 THEN list_itr_begin(l) = End ELSE Position(l, list_itr_begin(l)) = {0}
  <2>1. CASE c = 0
    BY <2>1 DEF list_itr_begin
  <2>2. CASE c # 0
    <3>1. 0 \in 0 .. c - 1 /\ list_itr_begin(l) = u[0]
      BY <1>2, <2>2 DEF list_itr_begin
    <3> QED
      BY <1>5, <2>2, <3>1
  <2> QED
    BY <2>1, <2>2
<1>10. ASSUME NEW itr, NEW q \in 0 .. c - 1, Position(l, itr) = {q}
       PROVE  /\ itr \in Indices(l)
              /\ list_get(l, itr) = Contents(l)[q + 1]
              /\ IF q = c - 1 THEN list_itr_next(l, itr) = End
                              ELSE Position(l, list_itr_next(l, itr)) = {q + 1}
  <2>1. itr = u[q]
    BY <1>7, <1>10
  <2>2. itr \in Indices(l)
    BY <1>1, <2>1
  <2>3. list_get(l, itr) = Contents(l)[q + 1]
    BY <1>6, <2>1
  <2>4. CASE q = c - 1
    BY <1>8, <2>1, <2>2, <2>3, <2>4
  <2>5. CASE q # c - 1
    <3>1. q + 1 \in 0 .. c - 1 /\ list_itr_next(l, itr) = u[q + 1]
      BY <1>2, <1>8, <2>1, <2>5
    <3>2. Position(l, list_itr_next(l, itr)) = {q + 1}
      BY <1>5, <3>1
    <3> QED
      BY <2>2, <2>3, <2>5, <3>2
  <2> QED
    BY <2>4, <2>5
<1>11. ASSUME NEW k \in 0 .. c - 1
       PROVE  Position(l, Walk(l)[k]) = {k} /\ list_get(l, Walk(l)[k]) = Contents(l)[k + 1]
  <2>1. Walk(l)[k] = u[k]
    BY <1>4
  <2> QED
    BY <1>5, <1>6, <2>1
<1> QED
  BY <1>4, <1>9, <1>10, <1>11 DEF Iterates

(* The iterators a caller holds into l are good for m as well, where an    *)
(* item was added behind them, or the one at position j is gone.           *)
KeepsPlaces(l, m) == \A x : Position(l, x) # {} => Position(m, x) = Position(l, x)

ShiftsPlaces(l, m, j) ==
  \A x : \A q \in 0 .. l.count - 1 :
    q # j /\ Position(l, x) = {q} => Position(m, x) = {IF q < j THEN q ELSE q - 1}

(* What list_push does to the sequence that the list stands for. *)
Pushes(l, d, itr, pushed) ==
  \/ pushed.ret = FALSE /\ pushed.list = l
  \/ /\ pushed.ret = TRUE /\ pushed.list.dfn = l.dfn
     /\ \E j \in 0 .. l.count :
          /\ IF itr = End THEN j = l.count ELSE Position(l, itr) = {j} /\ j < l.count
          /\ Contents(pushed.list) = SeqWith(Contents(l), l.count, j, d)
     /\ pushed.list.size >= l.size
     /\ itr = End /\ l.count < l.size => KeepsPlaces(l, pushed.list)

LEMMA PushRings ==
  ASSUME NEW l, IsList(l), WellFormed(l), NEW d \in Data, NEW alloc \in BOOLEAN,
         NEW itr, itr = End \/ (itr \in Indices(l) /\ l.items[itr].used),
         l.count = l.size => GrownSize(l.size, 1) <= MaxSize,
         NEW pushed, pushed = list_push(l, d, itr, alloc)
  PROVE  /\ IsList(pushed.list) /\ WellFormed(pushed.list) /\ pushed.ret \in BOOLEAN
         /\ Pushes(l, d, itr, pushed)
<1> DEFINE full   == l.count = l.size
           moved  == full /\ l.count > 0 /\ itr # End
           grown  == list_grow(l, 1, alloc)
           g      == IF full THEN grown.list ELSE l
           before == IF moved THEN Relocated(l, g, itr) ELSE itr
           item   == g.free_head
           stored == Marked(remove_item(g.items, item).items, item, d, TRUE)
           target == IF l.count > 0 /\ itr \in {End, l.used_head} THEN g.used_head ELSE before
           linked == insert_item(stored, target, item)
           head   == IF l.count = 0 THEN linked.itr
                     ELSE IF itr # End /\ itr = l.used_head THEN item
                     ELSE g.used_head
           refused == (moved /\ Position(l, itr) = {}) \/ (full /\ ~grown.ret)
<1>1. /\ refused => pushed = [list |-> l, ret |-> FALSE]
      /\ ~refused => pushed = [list |-> Placed(g, d, target, head), ret |-> TRUE]
  BY DEF list_push, Placed
<1>2. PICK u \in [0 .. l.count - 1 -> Indices(l)] : UsedRing(l, u)
  BY DEF WellFormed
<1>3. l.size \in Nat /\ l.count \in 0 .. l.size
  BY DEF IsList
<1>4. CASE refused
  <2>1. pushed.list = l /\ pushed.ret = FALSE
    BY <1>1, <1>4
  <2> QED
    BY <2>1 DEF Pushes
<1>5. CASE ~refused
  <2>1. /\ IsList(g) /\ WellFormed(g) /\ g.count = l.count /\ g.count < g.size /\ g.dfn = l.dfn
        /\ full => /\ UsedRing(g, [k \in 0 .. g.count - 1 |-> k])
                   /\ Along(g, [k \in 0 .. g.count - 1 |-> k]) = Contents(l)
    <3>1. CASE full
      <4>1. alloc /\ g = Regrown(l, 1)
        BY <1>5, <3>1 DEF list_grow
      <4>2. 1 \in Nat \ {0} /\ GrownSize(l.size, 1) <= MaxSize
        BY <3>1
      <4> HIDE DEF g
      <4>3. /\ IsList(g) /\ g.count = l.count /\ g.size >= l.size + 1
            /\ UsedRing(g, [k \in 0 .. g.count - 1 |-> k]) /\ WellFormed(g)
            /\ g.dfn = l.dfn /\ Along(g, [k \in 0 .. g.count - 1 |-> k]) = Contents(l)
        BY <4>1, <4>2, RegrownRings
      <4>4. g.size \in Nat
        BY <4>3 DEF IsList
      <4> QED
        BY <1>3, <3>1, <4>3, <4>4
    <3>2. CASE ~full
      <4>1. g = l
        BY <3>2
      <4> HIDE DEF g
      <4> QED
        BY <1>3, <3>2, <4>1
    <3> QED
      BY <3>1, <3>2
  <2>2. ~full => g = l
    OBVIOUS
  <2> HIDE DEF g
  <2>3. PICK v : /\ UsedRing(g, v) /\ Along(g, v) = Contents(l)
                 /\ \A q \in 0 .. l.count - 1 : itr = u[q] => before = v[q]
    <3>1. CASE full
      <4> DEFINE v == [k \in 0 .. g.count - 1 |-> k]
      <4>1. UsedRing(g, v) /\ Along(g, v) = Contents(l)
        BY <2>1, <3>1
      <4> HIDE DEF v
      <4>r. \A q \in 0 .. l.count - 1 : Relocated(l, g, u[q]) = v[q]
        <5>1. IsList(g) /\ g.count = l.count /\ UsedRing(l, u)
          BY <1>2, <2>1
        <5> QED
          <6>1. SameWalk(l, u, g, v)
            BY <4>1, <5>1, RelocatedItem, Zenon
          <6> QED
            BY <6>1 DEF SameWalk
      <4>2. ASSUME NEW q \in 0 .. l.count - 1, itr = u[q]
            PROVE  before = v[q]
        <5>1. itr # End /\ l.count > 0
          BY <1>2, <1>3, <4>2 DEF Indices, End
        <5>2. Relocated(l, g, itr) = v[q]
          BY <4>r, <4>2
        <5> QED
          BY <3>1, <5>1, <5>2
      <4> HIDE DEF before
      <4> QED
        BY <4>1, <4>2
    <3>2. CASE ~full
      <4>1. UsedRing(g, u) /\ before = itr /\ Along(g, u) = Contents(l)
        BY <1>2, <2>2, <3>2, ContentsAlong
      <4> HIDE DEF before
      <4> QED
        BY <4>1
    <3> QED
      BY <3>1, <3>2
  <2>4. /\ v \in [0 .. l.count - 1 -> Indices(g)]
        /\ g.used_head = (IF l.count = 0 THEN End ELSE v[0])
        /\ l.used_head = (IF l.count = 0 THEN End ELSE u[0])
        /\ \A a, b \in 0 .. l.count - 1 : u[a] = u[b] => a = b
    BY <1>2, <2>1, <2>3 DEF UsedRing, IsRing
  <2>5. itr # End => \E q \in 0 .. l.count - 1 : itr = u[q]
    BY <1>2 DEF UsedRing
  <2>6. item # End
    <3>1. PICK f \in [0 .. g.size - g.count - 1 -> Indices(g)] : FreeRing(g, f)
      BY <2>1 DEF WellFormed
    <3>2. g.size - g.count # 0 /\ 0 \in 0 .. g.size - g.count - 1
      BY <2>1 DEF IsList
    <3>3. item = f[0]
      BY <3>1, <3>2 DEF FreeRing, IsRing
    <3> QED
      BY <3>1, <3>2, <3>3 DEF Indices, End
  <2>p. \A q \in 0 .. l.count - 1 : Position(l, u[q]) = {q}
    <3>1. Positions(l, u)
      BY <1>2, PositionAlong
    <3>2. ASSUME NEW q \in 0 .. l.count - 1 PROVE Position(l, u[q]) = {q}
      <4>1. Position(l, u[q]) = {k \in 0 .. l.count - 1 : u[k] = u[q]}
        BY <3>1, Zenon DEF Positions
      <4> QED
        BY <2>4, <4>1
    <3> QED
      BY <3>2
  <2>7. \E j \in 0 .. g.count :
          /\ IF itr = End THEN j = l.count ELSE Position(l, itr) = {j} /\ j < l.count
          /\ target = IF g.count = 0 THEN End ELSE v[IF j = g.count THEN 0 ELSE j]
          /\ head = IF j = 0 THEN g.free_head ELSE g.used_head
    <3>1. CASE l.count = 0
      <4>1. itr = End
        BY <2>5, <3>1
      <4>2. target = End
        BY <3>1, <4>1
      <4> HIDE DEF target, stored, item
      <4>3. linked.itr = item
        BY <2>6, <4>2 DEF insert_item
      <4>4. head = item
        BY <3>1, <4>3
      <4> HIDE DEF head
      <4>5. 0 \in 0 .. g.count /\ g.count = 0
        BY <2>1, <3>1
      <4> QED
        BY <3>1, <4>1, <4>2, <4>4, <4>5 DEF item
    <3> HIDE DEF linked, stored
    <3>2. CASE l.count # 0 /\ itr = End
      <4>1. target = v[0] /\ head = g.used_head
        BY <1>3, <2>4, <3>2
      <4>2. g.count \in 0 .. g.count /\ g.count # 0
        BY <1>3, <2>1, <3>2
      <4> HIDE DEF target, head
      <4> QED
        BY <2>1, <3>2, <4>1, <4>2
    <3>3. CASE l.count # 0 /\ itr # End
      <4>1. PICK q \in 0 .. l.count - 1 : itr = u[q]
        BY <2>5, <3>3
      <4>2. l.count > 0 /\ 0 \in 0 .. l.count - 1 /\ g.count # 0 /\ q \in 0 .. g.count /\ q # g.count
        BY <1>3, <2>1, <3>3
      <4>3. itr = l.used_head <=> q = 0
        BY <2>4, <3>3, <4>1, <4>2
      <4>4. before = v[q]
        BY <2>3, <4>1
      <4> HIDE DEF before
      <4>5. target = v[q] /\ head = IF q = 0 THEN item ELSE g.used_head
        BY <2>4, <3>3, <4>2, <4>3, <4>4
      <4> HIDE DEF target, head
      <4>6. Position(l, itr) = {q} /\ q < l.count
        <5>1. Position(l, itr) = {q}
          BY <2>p, <4>1, Zenon
        <5>2. q < l.count
          BY <1>3
        <5> QED
          BY <5>1, <5>2
      <4> QED
        BY <3>3, <4>2, <4>5, <4>6 DEF item
    <3> QED
      BY <3>1, <3>2, <3>3
  <2>8. PICK j \in 0 .. g.count :
          /\ IF itr = End THEN j = l.count ELSE Position(l, itr) = {j} /\ j < l.count
          /\ target = IF g.count = 0 THEN End ELSE v[IF j = g.count THEN 0 ELSE j]
          /\ head = IF j = 0 THEN g.free_head ELSE g.used_head
    BY <2>7
  <2> HIDE DEF target, head
  <2>9. /\ IsList(Placed(g, d, target, head)) /\ WellFormed(Placed(g, d, target, head))
        /\ Placed(g, d, target, head).count = g.count + 1
        /\ UsedRing(Placed(g, d, target, head), InsertedAt(v, g.count, j, g.free_head))
        /\ Placed(g, d, target, head).dfn = g.dfn
        /\ Along(Placed(g, d, target, head), InsertedAt(v, g.count, j, g.free_head))
             = SeqWith(Along(g, v), g.count, j, d)
    BY <2>1, <2>3, <2>8, PlacedRings
  <2>10. pushed.list = Placed(g, d, target, head) /\ pushed.ret = TRUE
    <3> HIDE DEF refused
    <3> QED
      BY <1>1, <1>5
  <2>11. Contents(pushed.list) = SeqWith(Contents(l), l.count, j, d)
    BY <2>1, <2>3, <2>9, <2>10, ContentsAlong
  <2>12. pushed.list.size >= l.size
    <3>1. g.size >= l.size /\ g.size \in Nat
      BY <1>3, <2>1, <2>2 DEF IsList
    <3>2. Placed(g, d, target, head).size = g.size
      BY <2>1 DEF IsList, Placed
    <3> QED
      BY <2>10, <3>1, <3>2
  <2>13. ASSUME itr = End, l.count < l.size PROVE KeepsPlaces(l, pushed.list)
    <3> DEFINE s == InsertedAt(v, g.count, j, g.free_head)
               c == l.count
    <3>1. g = l /\ j = c /\ c \in Nat
      BY <1>3, <2>2, <2>8, <2>13
    <3>2. UsedRing(l, v) /\ UsedRing(pushed.list, s) /\ pushed.list.count = c + 1
      BY <2>3, <2>9, <2>10, <3>1
    <3>3. /\ \A a, b \in 0 .. c : s[a] = s[b] => a = b
          /\ \A k \in 0 .. c - 1 : s[k] = v[k]
          /\ \A a, b \in 0 .. c - 1 : v[a] = v[b] => a = b
      <4>1. \A k \in 0 .. c - 1 : s[k] = v[k]
        BY <3>1 DEF InsertedAt
      <4> HIDE DEF s
      <4>2. \A a, b \in 0 .. (c + 1) - 1 : s[a] = s[b] => a = b
        BY <3>2 DEF UsedRing, IsRing
      <4>3. (c + 1) - 1 = c
        BY <3>1
      <4>4. \A a, b \in 0 .. c - 1 : v[a] = v[b] => a = b
        BY <3>2 DEF UsedRing, IsRing
      <4> QED
        BY <4>1, <4>2, <4>3, <4>4
    <3> HIDE DEF s
    <3>4. Positions(l, v)
      BY <3>2, PositionAlong
    <3>5. Positions(pushed.list, s)
      <4>1. PICK m : m = pushed.list
        OBVIOUS
      <4>2. IsList(m) /\ UsedRing(m, s)
        BY <2>9, <2>10, <3>2, <4>1
      <4>3. Positions(m, s)
        BY <4>2, PositionAlong
      <4> QED
        BY <4>1, <4>3
    <3> SUFFICES ASSUME NEW x, Position(l, x) # {}
                 PROVE  Position(pushed.list, x) = Position(l, x)
      BY DEF KeepsPlaces
    <3>6. Position(l, x) = {k \in 0 .. c - 1 : v[k] = x}
      BY <3>4, Zenon DEF Positions
    <3>7. Position(pushed.list, x) = {k \in 0 .. c : s[k] = x}
      <4>1. Position(pushed.list, x) = {k \in 0 .. pushed.list.count - 1 : s[k] = x}
        BY <3>5, Zenon DEF Positions
      <4>2. pushed.list.count - 1 = c
        BY <3>1, <3>2
      <4> QED
        BY <4>1, <4>2
    <3>8. PICK q \in 0 .. c - 1 : v[q] = x
      BY <3>6
    <3>9. Position(l, x) = {q}
      BY <3>3, <3>6, <3>8
    <3>10. s[q] = x /\ q \in 0 .. c
      BY <3>1, <3>3, <3>8
    <3>11. Position(pushed.list, x) = {q}
      BY <3>3, <3>7, <3>10
    <3> QED
      BY <3>9, <3>11
  <2>14. Pushes(l, d, itr, pushed)
    BY <2>1, <2>8, <2>9, <2>10, <2>11, <2>12, <2>13 DEF Pushes
  <2> QED
    BY <2>9, <2>10, <2>14
<1> QED
  BY <1>4, <1>5
-----------------------------------------------------------------------------
LEMMA EmptyRings ==
  ASSUME NEW dfn \in BOOLEAN
  PROVE  /\ IsList(EmptyList(dfn)) /\ WellFormed(EmptyList(dfn))
         /\ Contents(EmptyList(dfn)) = <<>> /\ EmptyList(dfn).dfn = dfn
<1> DEFINE l == EmptyList(dfn)
           e == [k \in 0 .. -1 |-> 0]
<1>1. /\ l.dfn = dfn /\ l.size = 0 /\ l.count = 0 /\ l.used_head = End /\ l.free_head = End
      /\ l.items = [i \in {} |-> NULL]
      /\ l = [dfn |-> l.dfn, size |-> l.size, count |-> l.count,
              used_head |-> l.used_head, free_head |-> l.free_head, items |-> l.items]
  BY DEF EmptyList
<1> HIDE DEF l
<1>2. 0 .. -1 = {} /\ 0 - 1 = -1 /\ 0 - 0 - 1 = -1
  OBVIOUS
<1>3. l.items \in Items(0)
  BY <1>1, <1>2 DEF Items
<1>4. IsList(l)
  BY <1>1, <1>3, SizeAssumption DEF IsList
<1>5. e \in [0 .. l.count - 1 -> Indices(l)] /\ e \in [0 .. l.size - l.count - 1 -> Indices(l)]
  BY <1>1, <1>2
<1>6. IsRing(l.items, End, 0, e)
  BY <1>2 DEF IsRing
<1>7. UsedRing(l, e) /\ FreeRing(l, e)
  BY <1>1, <1>2, <1>5, <1>6 DEF UsedRing, FreeRing, Indices
<1>8. WellFormed(l)
  BY <1>5, <1>7 DEF WellFormed
<1>9. Contents(l) = <<>>
  <2>1. Contents(l) \in Seq(Data) /\ Len(Contents(l)) = 0
    BY <1>1, <1>4, <1>7, ContentsAlong
  <2> QED
    BY <2>1
<1> QED
  BY <1>1, <1>4, <1>8, <1>9 DEF l

Grows(l, res) == /\ res.list.dfn = l.dfn /\ Contents(res.list) = Contents(l)
                 /\ res.ret = FALSE => res.list = l

LEMMA GrowRings ==
  ASSUME NEW l, IsList(l), WellFormed(l), NEW amount \in Nat, NEW alloc \in BOOLEAN,
         amount # 0 => GrownSize(l.size, amount) <= MaxSize,
         NEW res, res = list_grow(l, amount, alloc)
  PROVE  IsList(res.list) /\ WellFormed(res.list) /\ res.ret \in BOOLEAN /\ Grows(l, res)
<1>1. CASE amount = 0 \/ ~alloc
  <2>1. res.list = l /\ res.ret \in BOOLEAN
    BY <1>1 DEF list_grow
  <2> QED
    BY <2>1 DEF Grows
<1>2. CASE amount # 0 /\ alloc
  <2>1. res.list = Regrown(l, amount) /\ res.ret = TRUE
    BY <1>2 DEF list_grow
  <2>2. amount \in Nat \ {0} /\ GrownSize(l.size, amount) <= MaxSize
    BY <1>2
  <2>3. PICK g : g = Regrown(l, amount)
    OBVIOUS
  <2>4. /\ IsList(g) /\ WellFormed(g) /\ UsedRing(g, [k \in 0 .. g.count - 1 |-> k])
        /\ g.dfn = l.dfn /\ Along(g, [k \in 0 .. g.count - 1 |-> k]) = Contents(l)
    BY <2>2, <2>3, RegrownRings
  <2>5. Contents(g) = Contents(l)
    BY <2>4, ContentsAlong
  <2> QED
    BY <2>1, <2>3, <2>4, <2>5 DEF Grows
<1> QED
  BY <1>1, <1>2

(* What list_pop does to the sequence, and where the iterator it returns   *)
(* is in the new one.                                                      *)
Pops(l, itr, popped) ==
  \/ popped.list = l /\ popped.ret = End /\ itr # End /\ Position(l, itr) = {}
  \/ \E j \in 0 .. l.count - 1 :
       /\ IF itr = End THEN j = l.count - 1 ELSE Position(l, itr) = {j}
       /\ popped.list.dfn = l.dfn
       /\ Contents(popped.list) = SeqWithout(Contents(l), l.count, j)
       /\ IF itr = End \/ l.count = 1 THEN popped.ret = End
          ELSE Position(popped.list, popped.ret) = {IF j = l.count - 1 THEN 0 ELSE j}
       /\ popped.list.size = l.size
       /\ ShiftsPlaces(l, popped.list, j)

LEMMA PopRings ==
  ASSUME NEW l, IsList(l), WellFormed(l), NEW itr \in Int, itr = End => l.count > 0,
         NEW garbage \in BOOLEAN,
         NEW popped, popped = list_pop(l, itr, garbage)
  PROVE  /\ IsList(popped.list) /\ WellFormed(popped.list) /\ popped.ret \in Int
         /\ Pops(l, itr, popped)
<1> DEFINE item    == IF itr = End THEN list_itr_tail(l) ELSE itr
           refused == \/ l.size = 0
                      \/ itr # End /\ itr \notin Indices(l)
                      \/ ~(IF item = End THEN garbage ELSE l.items[item].used)
           after   == remove_item(l.items, item).itr
<1>1. l.size \in Nat /\ l.count \in 0 .. l.size
  BY DEF IsList
<1>2. PICK u \in [0 .. l.count - 1 -> Indices(l)] : UsedRing(l, u)
  BY DEF WellFormed
<1>3. item # End /\ (itr = End => item \in Indices(l) /\ item = u[l.count - 1])
  <2>1. CASE itr = End
    <3>1. /\ l.count # 0 /\ 0 \in 0 .. l.count - 1 /\ Before(0, l.count - 1, 0) \in 0 .. l.count - 1
          /\ Before(0, l.count - 1, 0) = l.count - 1
      BY <1>1, <2>1 DEF Before
    <3>2. l.used_head = u[0] /\ l.items[u[0]].prev = u[Before(0, l.count - 1, 0)]
      BY <1>2, <3>1 DEF UsedRing, IsRing
    <3>3. item = u[Before(0, l.count - 1, 0)]
      BY <2>1, <3>1, <3>2 DEF list_itr_tail
    <3> QED
      BY <1>1, <1>2, <3>1, <3>3 DEF Indices, End
  <2>2. CASE itr # End
    BY <2>2
  <2> QED
    BY <2>1, <2>2
<1>4. CASE refused
  <2>1. popped = [list |-> l, ret |-> End]
    BY <1>4 DEF list_pop
  <2>2. popped.list = l /\ popped.ret = End
    BY <2>1
  <2>3. itr # End
    <3>1. CASE itr = End
      <4>1. l.count - 1 \in 0 .. l.count - 1 /\ l.size # 0
        BY <1>1, <3>1
      <4>2. l.items[u[l.count - 1]].used
        BY <1>2, <4>1 DEF UsedRing
      <4> QED
        BY <1>3, <1>4, <3>1, <4>1, <4>2
    <3> QED
      BY <3>1
  <2>4. Position(l, itr) = {}
    <3>1. ASSUME NEW k \in 0 .. l.count - 1, u[k] = itr PROVE FALSE
      <4>1. itr \in Indices(l) /\ l.items[itr].used /\ l.size # 0
        BY <1>1, <1>2, <3>1 DEF UsedRing
      <4> QED
        BY <1>4, <2>3, <4>1
    <3>2. Position(l, itr) = {k \in 0 .. l.count - 1 : u[k] = itr}
      <4>1. Positions(l, u)
        BY <1>2, PositionAlong
      <4> QED
        BY <4>1, Zenon DEF Positions
    <3> QED
      BY <3>1, <3>2
  <2> QED
    BY <2>2, <2>3, <2>4 DEF End, Pops
<1>5. CASE ~refused
  <2>1. l.items[item].used /\ item \in Indices(l)
    BY <1>3, <1>5
  <2>2. PICK j \in 0 .. l.count - 1 : u[j] = item
    BY <1>2, <2>1 DEF UsedRing
  <2>3. l.count # 0
    BY <1>1, <2>2
  <2>4. popped = [list |-> Popped(l, item), ret |-> IF itr = End THEN End ELSE after]
    <3>1. popped = [list |-> [l EXCEPT
                      !.items = insert_item(Marked(remove_item(l.items, item).items, item, NULL, FALSE),
                                            l.free_head, item).items,
                      !.free_head = insert_item(Marked(remove_item(l.items, item).items, item, NULL, FALSE),
                                                l.free_head, item).itr,
                      !.used_head = IF item = @ THEN remove_item(l.items, item).itr ELSE @,
                      !.count = IF @ = 0 THEN UINT_MAX ELSE @ - 1],
                    ret |-> IF itr = End THEN End ELSE after]
      BY <1>3, <1>5 DEF list_pop
    <3> HIDE DEF item, after
    <3> QED
      BY <2>3, <3>1 DEF Popped
  <2> HIDE DEF item
  <2>5. /\ IsList(Popped(l, item)) /\ WellFormed(Popped(l, item)) /\ after \in {End} \cup Indices(l)
        /\ after = IF l.count = 1 THEN End ELSE u[After(0, l.count - 1, j)]
        /\ Popped(l, item).count = l.count - 1 /\ Popped(l, item).dfn = l.dfn
        /\ UsedRing(Popped(l, item), RemovedAt(u, l.count, j))
        /\ Along(Popped(l, item), RemovedAt(u, l.count, j)) = SeqWithout(Along(l, u), l.count, j)
    <3>1. PICK x : x = item
      OBVIOUS
    <3>2. x = u[j]
      BY <2>2, <3>1
    <3>3. PoppedFrom(l, u, j, x)
      BY <1>2, <3>2, PoppedRings
    <3> QED
      BY <3>1, <3>3, Zenon DEF PoppedFrom
  <2> HIDE DEF after
  <2>6. popped.list = Popped(l, item) /\ popped.ret = IF itr = End THEN End ELSE after
    BY <2>4
  <2>7. after \in Int /\ End \in Int
    BY <1>1, <2>5 DEF End, Indices
  <2>8. Contents(popped.list) = SeqWithout(Contents(l), l.count, j)
    BY <1>2, <2>5, <2>6, ContentsAlong
  <2>9. \A a, b \in 0 .. l.count - 1 : u[a] = u[b] => a = b
    BY <1>2 DEF UsedRing, IsRing
  <2>10. IF itr = End THEN j = l.count - 1 ELSE Position(l, itr) = {j}
    <3>1. CASE itr = End
      <4>1. u[j] = u[l.count - 1] /\ l.count - 1 \in 0 .. l.count - 1
        BY <1>1, <1>3, <2>2, <3>1
      <4> QED
        BY <2>9, <3>1, <4>1
    <3>2. CASE itr # End
      <4>1. itr = u[j]
        BY <2>2, <3>2 DEF item
      <4>2. Position(l, itr) = {k \in 0 .. l.count - 1 : u[k] = itr}
        <5>1. Positions(l, u)
          BY <1>2, PositionAlong
        <5> QED
          BY <5>1, Zenon DEF Positions
      <4> QED
        BY <2>9, <3>2, <4>1, <4>2
    <3> QED
      BY <3>1, <3>2
  <2>11. ASSUME l.count # 1
         PROVE  Position(Popped(l, item), after) = {IF j = l.count - 1 THEN 0 ELSE j}
    <3> DEFINE u2 == RemovedAt(u, l.count, j)
               c  == l.count
               p  == IF j = c - 1 THEN 0 ELSE j
    <3>1. c \in Nat /\ c > 1 /\ j \in 0 .. c - 1 /\ p \in 0 .. (c - 1) - 1
      BY <1>1, <2>3, <2>11
    <3>2. \A k \in 0 .. (c - 1) - 1 : u2[k] = IF k < j THEN u[k] ELSE u[k + 1]
      BY DEF RemovedAt
    <3>3. Position(Popped(l, item), after) = {k \in 0 .. (c - 1) - 1 : u2[k] = after}
      <4>1. Position(Popped(l, item), after) = {k \in 0 .. Popped(l, item).count - 1 : u2[k] = after}
        <5>1. PICK r : r = Popped(l, item)
          OBVIOUS
        <5>2. Positions(r, u2)
          BY <2>5, <5>1, PositionAlong
        <5> QED
          BY <5>1, <5>2, Zenon DEF Positions
      <4> QED
        BY <2>5, <4>1
    <3>4. after = u[After(0, c - 1, j)] /\ After(0, c - 1, j) \in 0 .. c - 1
          /\ (IF p < j THEN p ELSE p + 1) = After(0, c - 1, j)
      BY <2>5, <2>11, <3>1 DEF After
    <3>5. u2[p] = after
      <4> HIDE DEF u2, p
      <4> QED
        BY <3>1, <3>2, <3>4
    <3>6. ASSUME NEW k \in 0 .. (c - 1) - 1, u2[k] = after PROVE k = p
      <4> DEFINE q == IF k < j THEN k ELSE k + 1
      <4>1. q \in 0 .. c - 1 /\ u[q] = after
        BY <3>1, <3>2, <3>6
      <4>2. q = After(0, c - 1, j)
        <5> HIDE DEF q
        <5> QED
          BY <2>9, <3>4, <4>1
      <4>3. (IF k < j THEN k ELSE k + 1) = (IF p < j THEN p ELSE p + 1)
        BY <3>4, <4>2
      <4>4. k \in Int /\ p \in Int /\ j \in Int
        BY <3>1
      <4> HIDE DEF p
      <4> QED
        BY <4>3, <4>4
    <3> HIDE DEF u2, p
    <3>7. Position(Popped(l, item), after) = {p}
      BY <3>1, <3>3, <3>5, <3>6
    <3> QED
      BY <3>7 DEF p
  <2>12. popped.list.size = l.size
    BY <2>6 DEF IsList, Popped
  <2>13. ShiftsPlaces(l, popped.list, j)
    <3> DEFINE s == RemovedAt(u, l.count, j)
               c == l.count
    <3>1. c \in Nat /\ j \in 0 .. c - 1 /\ popped.list.count = c - 1
      BY <1>1, <2>2, <2>5, <2>6
    <3>2. /\ \A a, b \in 0 .. (c - 1) - 1 : s[a] = s[b] => a = b
          /\ \A k \in 0 .. (c - 1) - 1 : s[k] = IF k < j THEN u[k] ELSE u[k + 1]
      <4>1. \A k \in 0 .. (c - 1) - 1 : s[k] = IF k < j THEN u[k] ELSE u[k + 1]
        BY DEF RemovedAt
      <4> HIDE DEF s
      <4>2. UsedRing(popped.list, s)
        BY <2>5, <2>6 DEF s
      <4>3. \A a, b \in 0 .. (c - 1) - 1 : s[a] = s[b] => a = b
        BY <3>1, <4>2 DEF UsedRing, IsRing
      <4> QED
        BY <4>1, <4>3
    <3>3. Positions(l, u)
      BY <1>2, PositionAlong
    <3>4. Positions(popped.list, s)
      <4>1. PICK m : m = popped.list
        OBVIOUS
      <4>2. IsList(m) /\ UsedRing(m, s)
        BY <2>5, <2>6, <4>1
      <4> HIDE DEF s
      <4>3. Positions(m, s)
        BY <4>2, PositionAlong
      <4> QED
        BY <4>1, <4>3
    <3> HIDE DEF s
    <3> SUFFICES ASSUME NEW x, NEW q \in 0 .. c - 1, q # j, Position(l, x) = {q}
                 PROVE  Position(popped.list, x) = {IF q < j THEN q ELSE q - 1}
      BY DEF ShiftsPlaces
    <3>5. u[q] = x
      <4>1. Position(l, x) = {k \in 0 .. c - 1 : u[k] = x}
        BY <3>3, Zenon DEF Positions
      <4> QED
        BY <4>1
    <3>6. Position(popped.list, x) = {k \in 0 .. (c - 1) - 1 : s[k] = x}
      <4>1. Position(popped.list, x) = {k \in 0 .. popped.list.count - 1 : s[k] = x}
        BY <3>4, Zenon DEF Positions
      <4> QED
        BY <3>1, <4>1
    <3>7. PICK p \in Int : p = IF q < j THEN q ELSE q - 1
      BY <3>1
    <3>8. p \in 0 .. (c - 1) - 1 /\ s[p] = x
      <4>1. p \in 0 .. (c - 1) - 1 /\ (IF p < j THEN p ELSE p + 1) = q
        BY <3>1, <3>7
      <4>2. s[p] = u[IF p < j THEN p ELSE p + 1]
        BY <3>2, <4>1
      <4> QED
        BY <3>5, <4>1, <4>2
    <3>9. Position(popped.list, x) = {p}
      BY <3>2, <3>6, <3>8
    <3> QED
      BY <3>7, <3>9
  <2>14. Pops(l, itr, popped)
    BY <2>5, <2>6, <2>8, <2>10, <2>11, <2>12, <2>13 DEF Pops
  <2> QED
    BY <2>5, <2>6, <2>7, <2>14
<1> QED
  BY <1>4, <1>5
-----------------------------------------------------------------------------
(* The inductive invariant. *)
ListInv == TypeOK /\ RingsOK

LEMMA InitInv == Init => ListInv
<1> SUFFICES ASSUME Init PROVE ListInv
  OBVIOUS
<1>1. list = EmptyList(FALSE) /\ IsList(list) /\ WellFormed(list)
  BY EmptyRings DEF Init
<1>2. live \in BOOLEAN /\ out.ret \in BOOLEAN /\ out.at \in Int
  <2>1. live = FALSE /\ out = [call |-> <<"none">>, ret |-> TRUE, at |-> End, deleted |-> <<>>]
    BY DEF Init, Result
  <2>2. out.ret = TRUE /\ out.at = End
    BY <2>1
  <2>3. TRUE \in BOOLEAN /\ FALSE \in BOOLEAN /\ End \in Int
    BY DEF End
  <2> QED
    BY <2>1, <2>2, <2>3, Zenon
<1> QED
  BY <1>1, <1>2 DEF ListInv, TypeOK, RingsOK

(* One call keeps the rings, unless it pops the tail of an empty list. *)
LEMMA NextInv ==
  ASSUME ListInv, Next, ~PopsEmpty
  PROVE  ListInv'
<1> USE DEF ListInv
<1>1. IsList(list) /\ WellFormed(list) /\ live \in BOOLEAN /\ list.size \in Nat
  BY DEF TypeOK, RingsOK, IsList
<1>2. SUFFICES /\ IsList(list') /\ WellFormed(list') /\ live' \in BOOLEAN
               /\ out'.ret \in BOOLEAN /\ out'.at \in Int
  BY DEF TypeOK, RingsOK
<1>e. End \in Int
  BY DEF End
<1>3. ASSUME NEW capacity \in Amounts, NEW dfn \in BOOLEAN, NEW alloc \in BOOLEAN,
             New(capacity, dfn, alloc)
      PROVE  /\ IsList(list') /\ WellFormed(list') /\ live' \in BOOLEAN
             /\ out'.ret \in BOOLEAN /\ out'.at \in Int
  <2> DEFINE made == list_init(capacity, dfn, alloc)
  <2>1. /\ live' = made.ret /\ list' = IF made.ret THEN made.list ELSE EmptyList(FALSE)
        /\ out' = Result(<<"new", dfn>>, made.ret, End, <<>>)
    BY <1>3 DEF New
  <2>2. capacity \in Nat /\ capacity <= MaxSize
    BY AmountsAssumption, SizeAssumption
  <2>3. GrownSize(EmptyList(dfn).size, capacity) <= MaxSize
    BY <2>2 DEF GrownSize, EmptyList
  <2>4. IsList(EmptyList(dfn)) /\ WellFormed(EmptyList(dfn))
    BY EmptyRings
  <2>5. IsList(EmptyList(FALSE)) /\ WellFormed(EmptyList(FALSE))
    BY EmptyRings
  <2>6. made = list_grow(EmptyList(dfn), capacity, alloc)
    BY DEF list_init
  <2> HIDE DEF made
  <2>7. IsList(made.list) /\ WellFormed(made.list) /\ made.ret \in BOOLEAN
    BY <2>2, <2>3, <2>4, <2>6, GrowRings
  <2> QED
    BY <1>e, <2>1, <2>5, <2>7 DEF Result
<1>4. ASSUME NEW d \in Data \ Stored, NEW itr \in Used \cup {End}, NEW alloc \in BOOLEAN,
             Push(d, itr, alloc)
      PROVE  /\ IsList(list') /\ WellFormed(list') /\ live' \in BOOLEAN
             /\ out'.ret \in BOOLEAN /\ out'.at \in Int
  <2> DEFINE pushed == list_push(list, d, itr, alloc)
  <2>1. /\ live' = live /\ list' = pushed.list /\ out' = Result(<<"push", d, PositionOf(itr)>>, pushed.ret, End, <<>>)
        /\ list.count = list.size => GrownSize(list.size, 1) <= MaxSize
    BY <1>4 DEF Push
  <2>2. itr = End \/ (itr \in Indices(list) /\ list.items[itr].used)
    BY DEF Used
  <2>3. pushed = list_push(list, d, itr, alloc)
    OBVIOUS
  <2> HIDE DEF pushed
  <2>4. IsList(pushed.list) /\ WellFormed(pushed.list) /\ pushed.ret \in BOOLEAN
    BY <1>1, <2>1, <2>2, <2>3, PushRings
  <2> QED
    BY <1>1, <1>e, <2>1, <2>4 DEF Result
<1>5. ASSUME NEW itr \in -2 .. list.size, NEW garbage \in Garbage(itr), Pop(itr, garbage)
      PROVE  /\ IsList(list') /\ WellFormed(list') /\ live' \in BOOLEAN
             /\ out'.ret \in BOOLEAN /\ out'.at \in Int
  <2> DEFINE popped == list_pop(list, itr, garbage)
  <2>1. live' = live /\ list' = popped.list /\ out'.ret = TRUE /\ out'.at = popped.ret
    BY <1>5 DEF Pop, Result
  <2>2. itr \in Int /\ garbage \in BOOLEAN
    <3>1. itr \in Int
      BY <1>1
    <3>2. Garbage(itr) \subseteq BOOLEAN
      BY Zenon DEF Garbage
    <3> QED
      BY <3>1, <3>2, Zenon
  <2>3. itr = End => list.count > 0
    <3>1. ~(itr = End /\ list.count = 0)
      BY <1>5 DEF Pop
    <3>2. list.count \in Nat
      BY <1>1 DEF IsList
    <3> QED
      BY <3>1, <3>2
  <2>4. popped = list_pop(list, itr, garbage)
    OBVIOUS
  <2> HIDE DEF popped
  <2>5. IsList(popped.list) /\ WellFormed(popped.list) /\ popped.ret \in Int
    BY <1>1, <2>2, <2>3, <2>4, PopRings
  <2> QED
    BY <1>1, <2>1, <2>5 DEF Result
<1>6. ASSUME NEW amount \in Amounts, NEW alloc \in BOOLEAN, Reserve(amount, alloc)
      PROVE  /\ IsList(list') /\ WellFormed(list') /\ live' \in BOOLEAN
             /\ out'.ret \in BOOLEAN /\ out'.at \in Int
  <2> DEFINE reserved == list_reserve(list, amount, alloc)
  <2>1. /\ live' = live /\ list' = reserved.list /\ out' = Result(<<"reserve">>, reserved.ret, End, <<>>)
        /\ amount > list.size => GrownSize(list.size, amount - list.size) <= MaxSize
    BY <1>6 DEF Reserve
  <2>2. amount \in Nat
    BY AmountsAssumption, SizeAssumption
  <2>3. IsList(reserved.list) /\ WellFormed(reserved.list) /\ reserved.ret \in BOOLEAN
    <3>1. CASE amount > list.size
      <4>1. amount - list.size \in Nat /\ GrownSize(list.size, amount - list.size) <= MaxSize
        BY <1>1, <2>1, <2>2, <3>1
      <4>2. reserved = list_grow(list, amount - list.size, alloc)
        BY <3>1 DEF list_reserve
      <4> HIDE DEF reserved
      <4> QED
        BY <1>1, <4>1, <4>2, GrowRings
    <3>2. CASE ~(amount > list.size)
      <4>1. reserved.list = list /\ reserved.ret = TRUE
        BY <3>2 DEF list_reserve
      <4> HIDE DEF reserved
      <4> QED
        BY <1>1, <4>1
    <3> QED
      BY <3>1, <3>2
  <2> HIDE DEF reserved
  <2> QED
    BY <1>1, <1>e, <2>1, <2>3 DEF Result
<1>7. ASSUME Clear
      PROVE  /\ IsList(list') /\ WellFormed(list') /\ live' \in BOOLEAN
             /\ out'.ret \in BOOLEAN /\ out'.at \in Int
  <2>1. /\ live' = live /\ list' = list_clear(list).list
        /\ out' = Result(<<"clear">>, TRUE, End, list_clear(list).deleted)
    BY <1>7 DEF Clear
  <2>2. list_clear(list).list = EmptyList(list.dfn)
    BY DEF list_clear, list_deinit
  <2>3. list.dfn \in BOOLEAN
    BY <1>1 DEF IsList
  <2>4. IsList(EmptyList(list.dfn)) /\ WellFormed(EmptyList(list.dfn))
    BY <2>3, EmptyRings
  <2> QED
    BY <1>1, <1>e, <2>1, <2>2, <2>4 DEF Result
<1>8. ASSUME Delete
      PROVE  /\ IsList(list') /\ WellFormed(list') /\ live' \in BOOLEAN
             /\ out'.ret \in BOOLEAN /\ out'.at \in Int
  <2>1. /\ live' = FALSE /\ list' = EmptyList(FALSE)
        /\ out' = Result(<<"delete">>, TRUE, End, list_deinit(list).deleted)
    BY <1>8 DEF Delete
  <2>2. IsList(EmptyList(FALSE)) /\ WellFormed(EmptyList(FALSE))
    BY EmptyRings
  <2> QED
    BY <1>e, <2>1, <2>2 DEF Result
<1> QED
  BY <1>3, <1>4, <1>5, <1>6, <1>7, <1>8 DEF Next

LEMMA InvInductive ==
  ASSUME ~PopsEmpty
  PROVE  Spec => []ListInv
<1>1. ListInv /\ [Next]_vars => ListInv'
  <2> SUFFICES ASSUME ListInv, [Next]_vars PROVE ListInv'
    OBVIOUS
  <2>1. CASE Next
    BY <2>1, NextInv
  <2>2. CASE UNCHANGED vars
    BY <2>2 DEF ListInv, TypeOK, RingsOK, vars
  <2> QED
    BY <2>1, <2>2
<1> QED
  BY <1>1, InitInv, PTL DEF Spec

(* Whatever a caller does that does not pop the tail of an empty list, and *)
(* whichever allocations fail, the fields of the list_t keep their types:  *)
(* links are -1 or indices of the array, the count is within the size.     *)
THEOREM TypeCorrect == ~PopsEmpty => (Spec => []TypeOK)
<1> SUFFICES ASSUME ~PopsEmpty PROVE Spec => []TypeOK
  OBVIOUS
<1> QED
  BY InvInductive, PTL DEF ListInv

(* Under the same condition list_push, list_pop, list_reserve, list_grow   *)
(* and list_clear keep every slot of the array on exactly one of the used  *)
(* and the free ring, for every array size and every set of pointers.      *)
THEOREM RingsIntact == ~PopsEmpty => (Spec => []RingsOK)
<1> SUFFICES ASSUME ~PopsEmpty PROVE Spec => []RingsOK
  OBVIOUS
<1> QED
  BY InvInductive, PTL DEF ListInv
-----------------------------------------------------------------------------
(* The backward walk is along the same ring.                               *)
Back(l) ==
  LET b[k \in 0 .. l.size] == IF k = 0 THEN list_itr_tail(l) ELSE list_itr_rnext(l, b[k - 1])
  IN  b

LEMMA BackOfRing ==
  ASSUME NEW l, IsList(l), NEW u, UsedRing(l, u)
  PROVE  /\ \A k \in 0 .. l.count - 1 : Back(l)[k] = u[l.count - 1 - k]
         /\ Back(l)[l.count] = End
<1> DEFINE c == l.count
           w == Back(l)
           F(v) == [k \in 0 .. l.size |-> IF k = 0 THEN list_itr_tail(l)
                                          ELSE list_itr_rnext(l, v[k - 1])]
           v0 == [k \in 0 .. l.size |-> IF k < c THEN u[c - 1 - k] ELSE End]
<1>0. /\ l.size \in Nat /\ c \in 0 .. l.size
      /\ u \in [0 .. c - 1 -> 0 .. l.size - 1]
      /\ c > 0 => l.used_head = u[0]
      /\ l.items \in Items(l.size)
      /\ \A a, b \in 0 .. c - 1 : u[a] = u[b] => a = b
      /\ \A k \in 0 .. c - 1 : l.items[u[k]].prev = u[Before(0, c - 1, k)]
  BY SizeAssumption DEF IsList, UsedRing, IsRing, Indices
<1>u. \A k \in 0 .. c - 1 : u[k] # End
  BY <1>0 DEF End
<1>1. list_itr_tail(l) = v0[0]
  <2>1. CASE c = 0
    BY <1>0, <2>1 DEF list_itr_tail
  <2>2. CASE c # 0
    <3>1. 0 \in 0 .. c - 1 /\ Before(0, c - 1, 0) = c - 1
      BY <1>0, <2>2 DEF Before
    <3>2. l.items[l.used_head].prev = u[c - 1]
      BY <1>0, <3>1
    <3> QED
      BY <1>0, <2>2, <3>1, <3>2 DEF list_itr_tail
  <2> QED
    BY <2>1, <2>2
<1>2. ASSUME NEW k \in 1 .. l.size
      PROVE  list_itr_rnext(l, v0[k - 1]) = v0[k]
  <2>1. CASE k - 1 < c
    <3> DEFINE q == c - 1 - (k - 1)
    <3>1. q \in 0 .. c - 1 /\ k - 1 \in 0 .. l.size /\ v0[k - 1] = u[q]
      BY <1>0, <2>1
    <3>2. u[q] # End /\ l.items[u[q]].prev = u[Before(0, c - 1, q)] /\ (u[q] = u[0] <=> q = 0)
          /\ l.used_head = u[0]
      <4>1. 0 \in 0 .. c - 1
        BY <1>0, <2>1
      <4> HIDE DEF q, c
      <4> QED
        BY <1>0, <1>u, <3>1, <4>1 DEF c
    <3>3. CASE k = c
      <4>1. q = 0 /\ v0[k] = End
        BY <1>0, <3>3
      <4> QED
        BY <3>1, <3>2, <4>1 DEF list_itr_rnext
    <3>4. CASE k # c
      <4>1. q # 0 /\ Before(0, c - 1, q) = c - 1 - k /\ v0[k] = u[c - 1 - k]
        BY <1>0, <2>1, <3>4 DEF Before
      <4> QED
        BY <3>1, <3>2, <4>1 DEF list_itr_rnext
    <3> QED
      BY <3>3, <3>4
  <2>2. CASE ~ (k - 1 < c)
    <3>1. v0[k - 1] = End /\ v0[k] = End
      BY <1>0, <2>2
    <3> QED
      BY <3>1 DEF list_itr_rnext
  <2> QED
    BY <2>1, <2>2
<1>3. v0 = F(v0)
  <2>1. ASSUME NEW k \in 0 .. l.size
        PROVE  v0[k] = IF k = 0 THEN list_itr_tail(l) ELSE list_itr_rnext(l, v0[k - 1])
    <3> HIDE DEF v0
    <3>1. CASE k = 0
      BY <1>1, <3>1
    <3>2. CASE k # 0
      <4>1. k \in 1 .. l.size
        BY <1>0, <3>2
      <4> QED
        BY <1>2, <3>2, <4>1
    <3> QED
      BY <3>1, <3>2
  <2>2. v0 = [k \in 0 .. l.size |-> v0[k]]
    OBVIOUS
  <2> HIDE DEF v0
  <2> QED
    BY <2>1, <2>2
<1>4. w = F(w)
  <2>1. w = CHOOSE v : v = F(v)
    BY DEF Back
  <2> HIDE DEF w, v0, F
  <2> QED
    BY <1>3, <2>1
<1>5. w[0] = v0[0] /\ \A k \in 1 .. l.size : w[k] = list_itr_rnext(l, w[k - 1])
  <2> HIDE DEF w
  <2> QED
    BY <1>0, <1>1, <1>4
<1>6. \A k \in 0 .. l.size : w[k] = v0[k]
  <2> DEFINE S == {k \in 0 .. l.size : w[k] = v0[k]}
  <2>1. 0 \in S
    BY <1>0, <1>5
  <2>2. ASSUME NEW k \in 0 .. l.size - 1, k \in S
        PROVE  k + 1 \in S
    <3> HIDE DEF v0, w
    <3>1. k + 1 \in 1 .. l.size /\ (k + 1) - 1 = k
      BY <1>0
    <3>2. w[k + 1] = list_itr_rnext(l, w[k])
      BY <1>5, <3>1
    <3>3. v0[k + 1] = list_itr_rnext(l, v0[k])
      BY <1>2, <3>1
    <3> QED
      BY <2>2, <3>1, <3>2, <3>3
  <2> HIDE DEF S
  <2>3. 0 .. l.size \subseteq S
    BY <1>0, <2>1, <2>2, SetInduction
  <2> QED
    BY <2>3 DEF S
<1> HIDE DEF w
<1>7. ASSUME NEW k \in 0 .. c - 1 PROVE w[k] = u[c - 1 - k]
  <2>1. k \in 0 .. l.size /\ k < c
    BY <1>0
  <2>2. v0[k] = u[c - 1 - k]
    BY <2>1
  <2> HIDE DEF v0
  <2> QED
    BY <1>6, <2>1, <2>2
<1>8. w[c] = End
  <2>1. c \in 0 .. l.size /\ ~(c < c)
    BY <1>0
  <2>2. v0[c] = End
    BY <2>1
  <2> HIDE DEF v0, c
  <2> QED
    BY <1>6, <2>1, <2>2
<1> QED
  BY <1>7, <1>8 DEF w

(* Under the same condition iterating backwards from list_itr_tail with    *)
(* list_itr_rnext meets the items of the forward iteration in reverse, and *)
(* then ends.                                                              *)
THEOREM ReadsBackwards == ~PopsEmpty => (Spec => []BackwardsIsReverse)
<1> SUFFICES ASSUME ~PopsEmpty PROVE Spec => []BackwardsIsReverse
  OBVIOUS
<1>1. ListInv => BackwardsIsReverse
  <2> SUFFICES ASSUME ListInv PROVE BackwardsIsReverse
    OBVIOUS
  <2>0. IsList(list) /\ WellFormed(list)
    BY DEF ListInv, TypeOK, RingsOK
  <2>1. PICK u \in [0 .. list.count - 1 -> Indices(list)] : UsedRing(list, u)
    BY <2>0 DEF WellFormed
  <2>2. /\ \A k \in 0 .. list.count - 1 : Back(list)[k] = u[list.count - 1 - k]
        /\ Back(list)[list.count] = End
    BY <2>0, <2>1, BackOfRing
  <2>3. (\A k \in 0 .. list.count - 1 : Walk(list)[k] = u[k]) /\ WalkLength(list) = list.count
    BY <2>0, <2>1, WalkOfRing
  <2>4. list.count \in Nat
    BY <2>0 DEF IsList
  <2>5. ASSUME NEW k \in 0 .. list.count - 1
        PROVE  Back(list)[k] = Walk(list)[list.count - 1 - k]
    <3>1. list.count - 1 - k \in 0 .. list.count - 1
      BY <2>4
    <3> QED
      BY <2>2, <2>3, <3>1
  <2> QED
    BY <2>2, <2>3, <2>5 DEF BackwardsIsReverse, Back
<1> QED
  BY <1>1, InvInductive, PTL
-----------------------------------------------------------------------------
(* The sequence operators of ListSpec, by index.                           *)
IsPiece(b, s, m, n) == /\ b \in Seq(Data) /\ Len(b) = n - m + 1
                       /\ \A i \in 1 .. n - m + 1 : b[i] = s[m + i - 1]

LEMMA Piece ==
  ASSUME NEW s \in Seq(Data), NEW m \in Nat \ {0}, NEW n \in Nat, m <= n + 1, n <= Len(s),
         NEW b, b = SubSeq(s, m, n)
  PROVE  IsPiece(b, s, m, n)
<1>1. \A i \in m .. n : s[i] \in Data
  BY LenProperties
<1>2. /\ SubSeq(s, m, n) \in Seq(Data)
      /\ Len(SubSeq(s, m, n)) = IF m <= n THEN n - m + 1 ELSE 0
      /\ \A i \in 1 .. n - m + 1 : SubSeq(s, m, n)[i] = s[m + i - 1]
  BY <1>1, SubSeqProperties
<1> QED
  BY <1>2 DEF IsPiece

IsJoin(r, a, b) == /\ r \in Seq(Data) /\ Len(r) = Len(a) + Len(b)
                   /\ \A i \in 1 .. Len(a) + Len(b) : r[i] = IF i <= Len(a) THEN a[i] ELSE b[i - Len(a)]

LEMMA Join ==
  ASSUME NEW a \in Seq(Data), NEW b \in Seq(Data), NEW r, r = a \o b
  PROVE  IsJoin(r, a, b)
BY ConcatProperties DEF IsJoin

LEMMA ByIndex ==
  ASSUME NEW s \in Seq(Data)
  PROVE  s = [k \in 1 .. Len(s) |-> s[k]]
BY LenProperties

LEMMA AppendIndices ==
  ASSUME NEW s \in Seq(Data), NEW n \in Nat, n = Len(s), NEW d \in Data
  PROVE  Append(s, d) = SeqWith(s, n, n, d)
<1>1. /\ Append(s, d) \in Seq(Data) /\ Len(Append(s, d)) = n + 1
      /\ \A k \in 1 .. n : Append(s, d)[k] = s[k]
      /\ Append(s, d)[n + 1] = d
  OBVIOUS
<1>2. PICK a \in Seq(Data) : a = Append(s, d)
  BY <1>1
<1>3. a = [k \in 1 .. n + 1 |-> a[k]]
  BY <1>1, <1>2, ByIndex
<1>4. ASSUME NEW k \in 1 .. n + 1
      PROVE  a[k] = IF k <= n THEN s[k] ELSE IF k = n + 1 THEN d ELSE s[k - 1]
  BY <1>1, <1>2
<1> QED
  BY <1>2, <1>3, <1>4 DEF SeqWith

LEMMA InsertIndices ==
  ASSUME NEW s \in Seq(Data), NEW n \in Nat, n = Len(s), NEW q \in 0 .. n - 1, NEW d \in Data
  PROVE  Abstract!InsertAt(s, q + 1, d) = SeqWith(s, n, q, d)
<1>1. PICK a \in Seq(Data) : a = SubSeq(s, 1, q) /\ Len(a) = q /\ \A k \in 1 .. q : a[k] = s[k]
  <2>1. PICK m \in Nat \ {0} : m = 1
    OBVIOUS
  <2>2. PICK a : a = SubSeq(s, m, q)
    OBVIOUS
  <2>3. m <= q + 1 /\ q \in Nat /\ q <= Len(s)
    BY <2>1
  <2>4. IsPiece(a, s, m, q)
    BY <2>2, <2>3, Piece
  <2>5. q - m + 1 = q /\ \A k \in 1 .. q : m + k - 1 = k
    BY <2>1
  <2> QED
    BY <2>1, <2>2, <2>4, <2>5 DEF IsPiece
<1>2. PICK b \in Seq(Data) : /\ b = SubSeq(s, q + 1, n) /\ Len(b) = n - q
                             /\ \A k \in 1 .. n - q : b[k] = s[q + k]
  <2>1. PICK m \in Nat \ {0} : m = q + 1
    OBVIOUS
  <2>2. PICK b : b = SubSeq(s, m, n)
    OBVIOUS
  <2>3. m <= n + 1 /\ n <= Len(s)
    BY <2>1
  <2>4. IsPiece(b, s, m, n)
    BY <2>2, <2>3, Piece
  <2>5. b \in Seq(Data) /\ Len(b) = n - q
    BY <2>1, <2>4 DEF IsPiece
  <2>6. ASSUME NEW k \in 1 .. n - q PROVE b[k] = s[q + k]
    <3>1. k \in 1 .. n - m + 1 /\ m + k - 1 = q + k
      BY <2>1
    <3>2. b[k] = s[m + k - 1]
      BY <2>4, <3>1 DEF IsPiece
    <3> QED
      BY <3>1, <3>2
  <2>7. b = SubSeq(s, q + 1, n)
    BY <2>1, <2>2, Zenon
  <2> QED
    BY <2>5, <2>6, <2>7, Zenon
<1>3. PICK e \in Seq(Data) : /\ e = a \o <<d>> /\ Len(e) = q + 1 /\ e[q + 1] = d
                             /\ \A k \in 1 .. q : e[k] = s[k]
  <2>1. PICK o : o = <<d>>
    OBVIOUS
  <2>o. o \in Seq(Data) /\ Len(o) = 1 /\ o[1] = d
    BY <2>1
  <2>2. PICK e : e = a \o o
    OBVIOUS
  <2>3. IsJoin(e, a, o)
    BY <2>o, <2>2, Join
  <2>4. Len(a) = q /\ \A k \in 1 .. q : a[k] = s[k]
    BY <1>1, Zenon
  <2>5. e \in Seq(Data) /\ Len(e) = q + 1
    BY <2>3, <2>4, <2>o DEF IsJoin
  <2>6. e[q + 1] = d
    <3>1. q + 1 \in 1 .. Len(a) + Len(o) /\ ~(q + 1 <= Len(a)) /\ q + 1 - Len(a) = 1
      BY <2>4, <2>o
    <3>2. e[q + 1] = o[q + 1 - Len(a)]
      BY <2>3, <3>1 DEF IsJoin
    <3> QED
      BY <2>o, <3>1, <3>2
  <2>7. ASSUME NEW k \in 1 .. q PROVE e[k] = s[k]
    <3>1. k \in 1 .. Len(a) + Len(o) /\ k <= Len(a)
      BY <2>4, <2>o
    <3> QED
      BY <2>3, <2>4, <3>1 DEF IsJoin
  <2>8. e = a \o <<d>>
    BY <2>1, <2>2, Zenon
  <2> QED
    BY <2>5, <2>6, <2>7, <2>8, Zenon
<1>4. PICK r \in Seq(Data) : /\ r = e \o b /\ Len(r) = n + 1
                             /\ \A k \in 1 .. q + 1 : r[k] = e[k]
                             /\ \A k \in q + 2 .. n + 1 : r[k] = b[k - (q + 1)]
  <2>1. PICK r : r = e \o b
    OBVIOUS
  <2>2. IsJoin(r, e, b)
    BY <2>1, Join
  <2>3. Len(e) = q + 1 /\ Len(b) = n - q
    BY <1>2, <1>3, Zenon
  <2>4. Len(e) + Len(b) = n + 1
    BY <2>3
  <2>5. r \in Seq(Data) /\ Len(r) = n + 1
    BY <2>2, <2>4 DEF IsJoin
  <2>6. ASSUME NEW k \in 1 .. q + 1 PROVE r[k] = e[k]
    <3>1. k \in 1 .. n + 1 /\ k <= q + 1
      OBVIOUS
    <3>2. k \in 1 .. Len(e) + Len(b) /\ k <= Len(e)
      BY <2>3, <2>4, <3>1, Zenon
    <3> QED
      BY <2>2, <3>2 DEF IsJoin
  <2>7. ASSUME NEW k \in q + 2 .. n + 1 PROVE r[k] = b[k - (q + 1)]
    <3>1. k \in 1 .. n + 1 /\ ~(k <= q + 1)
      OBVIOUS
    <3>2. k \in 1 .. Len(e) + Len(b) /\ ~(k <= Len(e))
      BY <2>3, <2>4, <3>1, Zenon
    <3>3. r[k] = b[k - Len(e)]
      BY <2>2, <3>2 DEF IsJoin
    <3> QED
      BY <2>3, <3>3, Zenon
  <2> QED
    BY <2>1, <2>5, <2>6, <2>7, Zenon
<1>5. Abstract!InsertAt(s, q + 1, d) = r
  <2>1. (q + 1) - 1 = q
    OBVIOUS
  <2> QED
    BY <1>1, <1>2, <1>3, <1>4, <2>1 DEF Abstract!InsertAt
<1>6. r = [k \in 1 .. n + 1 |-> r[k]]
  BY <1>4, ByIndex
<1>7. ASSUME NEW k \in 1 .. n + 1
      PROVE  r[k] = IF k <= q THEN s[k] ELSE IF k = q + 1 THEN d ELSE s[k - 1]
  <2>1. CASE k <= q + 1
    BY <1>3, <1>4, <2>1
  <2>2. CASE k > q + 1
    <3>1. k \in q + 2 .. n + 1 /\ k - (q + 1) \in 1 .. n - q /\ q + (k - (q + 1)) = k - 1
      BY <2>2
    <3>2. r[k] = s[q + (k - (q + 1))]
      BY <1>2, <1>4, <3>1
    <3> QED
      BY <2>2, <3>1, <3>2
  <2> QED
    BY <2>1, <2>2
<1> QED
  BY <1>5, <1>6, <1>7 DEF SeqWith

LEMMA RemoveIndices ==
  ASSUME NEW s \in Seq(Data), NEW n \in Nat, n = Len(s), NEW j \in 0 .. n - 1
  PROVE  Abstract!RemoveAt(s, j + 1) = SeqWithout(s, n, j)
<1>1. PICK a \in Seq(Data) : a = SubSeq(s, 1, j) /\ Len(a) = j /\ \A k \in 1 .. j : a[k] = s[k]
  <2>1. PICK m \in Nat \ {0} : m = 1
    OBVIOUS
  <2>2. PICK a : a = SubSeq(s, m, j)
    OBVIOUS
  <2>3. m <= j + 1 /\ j \in Nat /\ j <= Len(s)
    BY <2>1
  <2>4. IsPiece(a, s, m, j)
    BY <2>2, <2>3, Piece
  <2>5. j - m + 1 = j /\ \A k \in 1 .. j : m + k - 1 = k
    BY <2>1
  <2> QED
    BY <2>1, <2>2, <2>4, <2>5 DEF IsPiece
<1>2. PICK b \in Seq(Data) : /\ b = SubSeq(s, j + 2, n) /\ Len(b) = n - 1 - j
                             /\ \A k \in 1 .. n - 1 - j : b[k] = s[j + 1 + k]
  <2>1. PICK m \in Nat \ {0} : m = j + 2
    OBVIOUS
  <2>2. PICK b : b = SubSeq(s, m, n)
    OBVIOUS
  <2>3. m <= n + 1 /\ n <= Len(s)
    BY <2>1
  <2>4. IsPiece(b, s, m, n)
    BY <2>2, <2>3, Piece
  <2>5. b \in Seq(Data) /\ Len(b) = n - 1 - j
    BY <2>1, <2>4 DEF IsPiece
  <2>6. ASSUME NEW k \in 1 .. n - 1 - j PROVE b[k] = s[j + 1 + k]
    <3>1. k \in 1 .. n - m + 1 /\ m + k - 1 = j + 1 + k
      BY <2>1
    <3>2. b[k] = s[m + k - 1]
      BY <2>4, <3>1 DEF IsPiece
    <3> QED
      BY <3>1, <3>2
  <2>7. b = SubSeq(s, j + 2, n)
    BY <2>1, <2>2, Zenon
  <2> QED
    BY <2>5, <2>6, <2>7, Zenon
<1>4. PICK r \in Seq(Data) : /\ r = a \o b /\ Len(r) = n - 1
                             /\ \A k \in 1 .. j : r[k] = a[k]
                             /\ \A k \in j + 1 .. n - 1 : r[k] = b[k - j]
  <2>1. PICK r : r = a \o b
    OBVIOUS
  <2>2. IsJoin(r, a, b)
    BY <2>1, Join
  <2>3. Len(a) = j /\ Len(b) = n - 1 - j
    BY <1>1, <1>2, Zenon
  <2>4. Len(a) + Len(b) = n - 1
    BY <2>3
  <2>5. r \in Seq(Data) /\ Len(r) = n - 1
    BY <2>2, <2>4 DEF IsJoin
  <2>6. ASSUME NEW k \in 1 .. j PROVE r[k] = a[k]
    BY <2>2, <2>3, <2>4 DEF IsJoin
  <2>7. ASSUME NEW k \in j + 1 .. n - 1 PROVE r[k] = b[k - j]
    BY <2>2, <2>3, <2>4 DEF IsJoin
  <2> QED
    BY <2>1, <2>5, <2>6, <2>7, Zenon
<1>5. Abstract!RemoveAt(s, j + 1) = r
  <2>1. (j + 1) - 1 = j /\ (j + 1) + 1 = j + 2
    OBVIOUS
  <2> QED
    BY <1>1, <1>2, <1>4, <2>1 DEF Abstract!RemoveAt
<1>6. r = [k \in 1 .. n - 1 |-> r[k]]
  BY <1>4, ByIndex
<1>7. ASSUME NEW k \in 1 .. n - 1
      PROVE  r[k] = IF k <= j THEN s[k] ELSE s[k + 1]
  <2>1. CASE k <= j
    BY <1>1, <1>4, <2>1
  <2>2. CASE k > j
    <3>1. k \in j + 1 .. n - 1 /\ k - j \in 1 .. n - 1 - j /\ j + 1 + (k - j) = k + 1
      BY <2>2
    <3>2. r[k] = s[j + 1 + (k - j)]
      BY <1>2, <1>4, <3>1
    <3> QED
      BY <2>2, <3>1, <3>2
  <2> QED
    BY <2>1, <2>2
<1> QED
  BY <1>5, <1>6, <1>7 DEF SeqWithout
-----------------------------------------------------------------------------
(* What list_deinit calls the delete function on, and where iterators are. *)
LEMMA DeletedData ==
  ASSUME NEW l, IsList(l), WellFormed(l)
  PROVE  list_deinit(l).deleted = IF l.dfn THEN Contents(l) ELSE <<>>
<1>1. PICK u \in [0 .. l.count - 1 -> Indices(l)] : UsedRing(l, u)
  BY DEF WellFormed
<1>2. WalkLength(l) = l.count /\ l.count \in Nat /\ \A k \in 0 .. l.count - 1 : Walk(l)[k] = u[k]
  BY <1>1, WalkOfRing DEF IsList
<1>3. Contents(l) = Along(l, u)
  BY <1>1, ContentsAlong
<1>4. [k \in 1 .. WalkLength(l) |-> l.items[Walk(l)[k - 1]].data] = Along(l, u)
  <2>1. ASSUME NEW k \in 1 .. l.count PROVE l.items[Walk(l)[k - 1]].data = l.items[u[k - 1]].data
    <3>1. k - 1 \in 0 .. l.count - 1
      BY <1>2
    <3> QED
      BY <1>2, <3>1
  <2> QED
    BY <1>2, <2>1 DEF Along
<1>5. list_deinit(l).deleted = IF l.dfn THEN [k \in 1 .. WalkLength(l) |-> l.items[Walk(l)[k - 1]].data]
                               ELSE <<>>
  BY DEF list_deinit
<1> QED
  BY <1>3, <1>4, <1>5

PositionIn(l, itr) ==
  LET p == Position(l, itr) IN IF p = {} THEN 0 ELSE 1 + CHOOSE k \in p : TRUE

LEMMA PositionCases ==
  ASSUME NEW l, NEW itr
  PROVE  /\ Position(l, itr) = {} => PositionIn(l, itr) = 0
         /\ \A k \in Int : Position(l, itr) = {k} => PositionIn(l, itr) = k + 1
<1>1. ASSUME NEW k \in Int, Position(l, itr) = {k} PROVE PositionIn(l, itr) = k + 1
  <2>1. (CHOOSE i \in {k} : TRUE) = k
    OBVIOUS
  <2>2. PositionIn(l, itr) = 1 + CHOOSE i \in {k} : TRUE
    BY <1>1 DEF PositionIn
  <2> QED
    BY <2>1, <2>2
<1>2. ASSUME Position(l, itr) = {} PROVE PositionIn(l, itr) = 0
  BY <1>2 DEF PositionIn
<1> QED
  BY <1>1, <1>2

LEMMA EndIsZero ==
  ASSUME NEW l, IsList(l), WellFormed(l)
  PROVE  PositionIn(l, End) = 0
<1>1. PICK u \in [0 .. l.count - 1 -> Indices(l)] : UsedRing(l, u)
  BY DEF WellFormed
<1>2. \A k \in 0 .. l.count - 1 : u[k] # End
  BY <1>1 DEF Indices, End
<1>3. Positions(l, u)
  BY <1>1, PositionAlong
<1>4. Position(l, End) = {k \in 0 .. l.count - 1 : u[k] = End}
  BY <1>3, Zenon DEF Positions
<1>5. Position(l, End) = {}
  BY <1>2, <1>4
<1> QED
  BY <1>5, PositionCases

LEMMA ItemPosition ==
  ASSUME NEW l, IsList(l), WellFormed(l), NEW itr \in Indices(l), l.items[itr].used
  PROVE  \E q \in 0 .. l.count - 1 : Position(l, itr) = {q}
<1>1. PICK u \in [0 .. l.count - 1 -> Indices(l)] : UsedRing(l, u)
  BY DEF WellFormed
<1>2. PICK q \in 0 .. l.count - 1 : u[q] = itr
  BY <1>1 DEF UsedRing
<1>3. \A a, b \in 0 .. l.count - 1 : u[a] = u[b] => a = b
  BY <1>1 DEF UsedRing, IsRing
<1>4. Positions(l, u)
  BY <1>1, PositionAlong
<1>5. Position(l, itr) = {k \in 0 .. l.count - 1 : u[k] = itr}
  BY <1>4, Zenon DEF Positions
<1>6. Position(l, itr) = {q}
  BY <1>2, <1>3, <1>5
<1> QED
  BY <1>6

LEMMA Mapped ==
  ASSUME NEW o, NEW call, NEW ret, NEW at, NEW deleted, NEW p,
         o = Result(call, ret, at, deleted)
  PROVE  [o EXCEPT !.at = p] = Abstract!Result(call, ret, p, deleted)
BY DEF Result, Abstract!Result
-----------------------------------------------------------------------------
(* Before list_new and after list_delete there is nothing left. *)
NothingLeft == ~live => list = EmptyList(FALSE)

LEMMA LeavesNothing == Spec => []NothingLeft
<1>1. Init => NothingLeft
  BY DEF Init, NothingLeft
<1>2. NothingLeft /\ [Next]_vars => NothingLeft'
  <2> SUFFICES ASSUME NothingLeft, [Next]_vars PROVE NothingLeft'
    OBVIOUS
  <2>1. CASE UNCHANGED vars
    BY <2>1 DEF vars, NothingLeft
  <2>2. ASSUME NEW capacity \in Amounts, NEW dfn \in BOOLEAN, NEW alloc \in BOOLEAN,
               New(capacity, dfn, alloc)
        PROVE  NothingLeft'
    BY <2>2, Zenon DEF New, NothingLeft
  <2>3. CASE live /\ live' = live
    BY <2>3 DEF NothingLeft
  <2>4. CASE Delete
    BY <2>4 DEF Delete, NothingLeft
  <2> QED
    BY <2>1, <2>2, <2>3, <2>4 DEF Next, Push, Pop, Reserve, Clear
<1> QED
  BY <1>1, <1>2, PTL DEF Spec

(* Every call is a step of the sequence.                                   *)
LEMMA StepRefines ==
  ASSUME ListInv, ListInv', NothingLeft, ~PopsEmpty, ~PopsTail, [Next]_vars
  PROVE  [Abstract!Next]_<<live, list.dfn, Contents(list), [out EXCEPT !.at = PositionOf(out.at)]>>
<1> DEFINE S == Contents(list)
           n == list.count
           O == [out EXCEPT !.at = PositionOf(out.at)]
<1>1. /\ IsList(list) /\ WellFormed(list) /\ live \in BOOLEAN
      /\ IsList(list') /\ WellFormed(list')
  BY DEF ListInv, TypeOK, RingsOK
<1>2. S \in Seq(Data) /\ n = Len(S) /\ n \in Nat /\ list.size \in Nat /\ list.dfn \in BOOLEAN
  <2>1. PICK u \in [0 .. list.count - 1 -> Indices(list)] : UsedRing(list, u)
    BY <1>1 DEF WellFormed
  <2>2. PICK l : l = list
    OBVIOUS
  <2>3. Contents(l) \in Seq(Data) /\ Len(Contents(l)) = l.count
    BY <1>1, <2>1, <2>2, ContentsAlong
  <2> QED
    BY <1>1, <2>2, <2>3 DEF IsList
<1>3. O' = [out' EXCEPT !.at = PositionIn(list', out'.at)]
  BY Zenon DEF PositionOf, PositionIn
<1>4. ASSUME NEW itr PROVE PositionOf(itr) = PositionIn(list, itr)
  BY Zenon DEF PositionOf, PositionIn
<1>5. PositionIn(list, End) = 0 /\ PositionIn(list', End) = 0
  <2>1. PICK l : l = list
    OBVIOUS
  <2>2. PICK m : m = list'
    OBVIOUS
  <2>3. PositionIn(l, End) = 0
    BY <1>1, <2>1, EndIsZero
  <2>4. PositionIn(m, End) = 0
    BY <1>1, <2>2, EndIsZero
  <2> QED
    BY <2>1, <2>2, <2>3, <2>4
<1>6. ASSUME NEW call, NEW ret, NEW deleted, out' = Result(call, ret, End, deleted)
      PROVE  O' = Abstract!Result(call, ret, 0, deleted)
  <2>1. PICK o : o = out'
    OBVIOUS
  <2>2. o.at = End
    BY <1>6, <2>1 DEF Result
  <2>3. O' = [o EXCEPT !.at = 0]
    BY <1>3, <1>5, <2>1, <2>2
  <2>4. [o EXCEPT !.at = 0] = Abstract!Result(call, ret, 0, deleted)
    BY <1>6, <2>1, Mapped
  <2> QED
    BY <2>3, <2>4
<1>7. ASSUME list' = list PROVE S' = S /\ (list.dfn)' = list.dfn
  BY <1>7
<1>8. Abstract!Deleted = list_deinit(list).deleted
  <2>1. PICK l : l = list
    OBVIOUS
  <2>2. list_deinit(l).deleted = IF l.dfn THEN Contents(l) ELSE <<>>
    BY <1>1, <2>1, DeletedData
  <2> QED
    BY <2>1, <2>2 DEF Abstract!Deleted
<1>s. ASSUME UNCHANGED vars
      PROVE  UNCHANGED <<live, list.dfn, Contents(list), [out EXCEPT !.at = PositionOf(out.at)]>>
  <2>1. live' = live /\ list' = list /\ out' = out
    BY <1>s DEF vars
  <2>2. O' = [out EXCEPT !.at = PositionIn(list, out.at)]
    BY <1>3, <2>1
  <2>3. O = [out EXCEPT !.at = PositionIn(list, out.at)]
    BY Zenon DEF PositionOf, PositionIn
  <2>4. O' = O
    BY <2>2, <2>3
  <2> QED
    BY <1>7, <2>1, <2>4
<1> HIDE DEF S, n, O
<1>a. ASSUME NEW capacity \in Amounts, NEW dfn \in BOOLEAN, NEW alloc \in BOOLEAN,
             New(capacity, dfn, alloc)
      PROVE  Abstract!Next
  <2>1. PICK made : made = list_init(capacity, dfn, alloc)
    OBVIOUS
  <2>2. /\ ~live /\ live' = made.ret /\ list' = IF made.ret THEN made.list ELSE EmptyList(FALSE)
        /\ out' = Result(<<"new", dfn>>, made.ret, End, <<>>)
    BY <1>a, <2>1 DEF New
  <2>3. PICK e : e = EmptyList(dfn)
    OBVIOUS
  <2>4. IsList(e) /\ WellFormed(e) /\ Contents(e) = <<>> /\ e.dfn = dfn /\ e.size = 0
    BY <2>3, EmptyRings DEF EmptyList
  <2>5. made = list_grow(e, capacity, alloc)
    BY <2>1, <2>3 DEF list_init
  <2>6. capacity \in Nat /\ GrownSize(e.size, capacity) <= MaxSize
    BY <2>4, AmountsAssumption, SizeAssumption DEF GrownSize
  <2>7. made.ret \in BOOLEAN /\ Grows(e, made)
    BY <2>4, <2>5, <2>6, GrowRings
  <2>8. O' = Abstract!Result(<<"new", dfn>>, made.ret, 0, <<>>)
    BY <1>6, <2>2
  <2>9. CASE made.ret = TRUE
    <3>1. live' = TRUE /\ list' = made.list /\ O' = Abstract!Result(<<"new", dfn>>, TRUE, 0, <<>>)
      BY <2>2, <2>8, <2>9
    <3>2. (list.dfn)' = dfn /\ S' = <<>>
      BY <2>4, <2>7, <3>1 DEF Grows, S
    <3>3. Abstract!New(dfn)
      BY <2>2, <3>1, <3>2 DEF Abstract!New, S, O
    <3> QED
      BY <3>3 DEF Abstract!Next
  <2>10. CASE made.ret = FALSE
    <3>1. live' = live /\ list' = list /\ O' = Abstract!Result(<<"new", dfn>>, FALSE, 0, <<>>)
      BY <1>1, <2>2, <2>8, <2>10 DEF NothingLeft
    <3>2. Abstract!New(dfn)
      BY <1>7, <2>2, <3>1 DEF Abstract!New, Abstract!Refuse, S, O
    <3> QED
      BY <3>2 DEF Abstract!Next
  <2> QED
    BY <2>7, <2>9, <2>10
<1>b. ASSUME NEW d \in Data \ Stored, NEW itr \in Used \cup {End}, NEW alloc \in BOOLEAN,
             Push(d, itr, alloc)
      PROVE  Abstract!Next
  <2>1. PICK pushed : pushed = list_push(list, d, itr, alloc)
    OBVIOUS
  <2>2. PICK p : p = PositionIn(list, itr)
    OBVIOUS
  <2>3. /\ live /\ live' = live /\ list' = pushed.list
        /\ out' = Result(<<"push", d, p>>, pushed.ret, End, <<>>)
        /\ list.count = list.size => GrownSize(list.size, 1) <= MaxSize
    BY <1>4, <1>b, <2>1, <2>2 DEF Push
  <2>4. itr = End \/ (itr \in Indices(list) /\ list.items[itr].used)
    BY DEF Used
  <2>5. Pushes(list, d, itr, pushed)
    <3>1. PICK l : l = list
      OBVIOUS
    <3>2. Pushes(l, d, itr, pushed)
      BY <1>1, <2>1, <2>3, <2>4, <3>1, PushRings
    <3> QED
      BY <3>1, <3>2
  <2>6. O' = Abstract!Result(<<"push", d, p>>, pushed.ret, 0, <<>>)
    BY <1>6, <2>3
  <2>7. PICK j \in 0 .. n : /\ itr = End => p = 0 /\ j = n
                            /\ itr # End => p = j + 1 /\ j < n /\ Position(list, itr) = {j}
    <3>1. CASE itr = End
      BY <1>2, <1>5, <2>2, <3>1 DEF n
    <3>2. CASE itr # End
      <4>1. PICK l : l = list
        OBVIOUS
      <4>2. PICK q \in 0 .. l.count - 1 : Position(l, itr) = {q}
        BY <1>1, <2>4, <3>2, <4>1, ItemPosition
      <4>3. q \in Int /\ q \in 0 .. n /\ q < n
        BY <1>2, <4>1 DEF n
      <4>4. PositionIn(l, itr) = q + 1
        BY <4>2, <4>3, PositionCases
      <4> QED
        BY <2>2, <3>2, <4>1, <4>2, <4>3, <4>4
    <3> QED
      BY <3>1, <3>2
  <2>8. p \in 0 .. Len(S)
    BY <1>2, <2>7
  <2>9. Abstract!Push(d, p)
    <3>1. CASE pushed.ret = FALSE /\ pushed.list = list
      <4>1. Abstract!Refuse(<<"push", d, p>>)
        BY <1>7, <2>3, <2>6, <3>1 DEF Abstract!Refuse, S, O
      <4> QED
        BY <2>3, <4>1 DEF Abstract!Push
    <3>2. CASE ~(pushed.ret = FALSE /\ pushed.list = list)
      <4>1. PICK i \in 0 .. list.count :
              /\ pushed.ret = TRUE /\ pushed.list.dfn = list.dfn
              /\ IF itr = End THEN i = list.count ELSE Position(list, itr) = {i} /\ i < list.count
              /\ Contents(pushed.list) = SeqWith(Contents(list), list.count, i, d)
        BY <2>5, <3>2 DEF Pushes
      <4>2. i = j
        BY <2>7, <4>1 DEF n
      <4>3. S' = SeqWith(S, n, j, d)
        BY <2>3, <4>1, <4>2 DEF S, n
      <4>4. S' = IF p = 0 THEN Append(S, d) ELSE Abstract!InsertAt(S, p, d)
        <5>1. CASE itr = End
          BY <1>2, <2>7, <4>3, <5>1, AppendIndices
        <5>2. CASE itr # End
          <6>1. p = j + 1 /\ j \in 0 .. n - 1 /\ p # 0
            BY <1>2, <2>7, <5>2
          <6>2. Abstract!InsertAt(S, j + 1, d) = SeqWith(S, n, j, d)
            BY <1>2, <6>1, InsertIndices
          <6> QED
            BY <4>3, <6>1, <6>2
        <5> QED
          BY <5>1, <5>2
      <4>5. (list.dfn)' = list.dfn /\ O' = Abstract!Result(<<"push", d, p>>, TRUE, 0, <<>>)
        BY <2>3, <2>6, <4>1
      <4> QED
        BY <2>3, <4>4, <4>5 DEF Abstract!Push, S, O
    <3> QED
      BY <3>1, <3>2
  <2> QED
    BY <2>8, <2>9 DEF Abstract!Next, S
<1>c. ASSUME NEW itr \in -2 .. list.size, NEW garbage \in Garbage(itr), Pop(itr, garbage)
      PROVE  Abstract!Next
  <2>1. PICK popped : popped = list_pop(list, itr, garbage)
    OBVIOUS
  <2>2. PICK p : p = IF itr = End THEN n ELSE PositionIn(list, itr)
    OBVIOUS
  <2>3. ~(itr # End /\ n > 1 /\ p = n)
    BY <1>4, <1>c, <2>2 DEF Pop, n
  <2>4. /\ live /\ live' = live /\ list' = popped.list
        /\ out' = Result(<<"pop", p>>, TRUE, popped.ret, <<>>)
    BY <1>4, <1>c, <2>1, <2>2, Zenon DEF Pop, n
  <2>5. itr \in Int /\ garbage \in BOOLEAN
    <3>1. itr \in Int
      BY <1>2
    <3>2. Garbage(itr) \subseteq BOOLEAN
      BY Zenon DEF Garbage
    <3> QED
      BY <3>1, <3>2, Zenon
  <2>6. itr = End => list.count > 0
    <3>1. ~(itr = End /\ list.count = 0)
      BY <1>c DEF Pop
    <3> QED
      BY <1>2, <3>1 DEF n
  <2>7. Pops(list, itr, popped)
    <3>1. PICK l : l = list
      OBVIOUS
    <3>2. Pops(l, itr, popped)
      BY <1>1, <2>1, <2>5, <2>6, <3>1, PopRings
    <3> QED
      BY <3>1, <3>2
  <2>8. ASSUME NEW at, PositionIn(list', popped.ret) = at
        PROVE  O' = Abstract!Result(<<"pop", p>>, TRUE, at, <<>>)
    <3>1. PICK o : o = out'
      OBVIOUS
    <3>2. o.at = popped.ret
      BY <2>4, <3>1 DEF Result
    <3>3. O' = [o EXCEPT !.at = at]
      BY <1>3, <2>8, <3>1, <3>2
    <3>4. [o EXCEPT !.at = at] = Abstract!Result(<<"pop", p>>, TRUE, at, <<>>)
      <4>1. PICK call : call = <<"pop", p>>
        OBVIOUS
      <4>2. PICK ret : ret = TRUE
        OBVIOUS
      <4>3. PICK none : none = <<>>
        OBVIOUS
      <4>4. PICK x : x = popped.ret
        OBVIOUS
      <4>5. o = Result(call, ret, x, none)
        BY <2>4, <3>1, <4>1, <4>2, <4>3, <4>4, Zenon
      <4>6. [o EXCEPT !.at = at] = Abstract!Result(call, ret, at, none)
        BY <4>5, Mapped
      <4> QED
        BY <4>1, <4>2, <4>3, <4>6, Zenon
    <3> QED
      BY <3>3, <3>4
  <2>9. CASE popped.list = list /\ popped.ret = End /\ itr # End /\ Position(list, itr) = {}
    <3>1. p = 0
      BY <2>2, <2>9, PositionCases
    <3>2. O' = Abstract!Result(<<"pop", p>>, TRUE, 0, <<>>)
      BY <1>5, <2>8, <2>9
    <3>3. S' = S /\ (list.dfn)' = list.dfn
      BY <1>7, <2>4, <2>9
    <3>4. Abstract!Pop(p)
      BY <2>4, <3>1, <3>2, <3>3 DEF Abstract!Pop, S, O
    <3>5. p \in 0 .. Len(S)
      BY <1>2, <3>1
    <3> QED
      BY <3>4, <3>5 DEF Abstract!Next, S
  <2>10. CASE ~(popped.list = list /\ popped.ret = End /\ itr # End /\ Position(list, itr) = {})
    <3>1. PICK j \in 0 .. list.count - 1 :
            /\ IF itr = End THEN j = list.count - 1 ELSE Position(list, itr) = {j}
            /\ popped.list.dfn = list.dfn
            /\ Contents(popped.list) = SeqWithout(Contents(list), list.count, j)
            /\ IF itr = End \/ list.count = 1 THEN popped.ret = End
               ELSE Position(popped.list, popped.ret) = {IF j = list.count - 1 THEN 0 ELSE j}
      BY <2>7, <2>10 DEF Pops
    <3>2. j \in 0 .. n - 1 /\ j \in Int /\ n > 0
      BY <1>2, <3>1 DEF n
    <3>3. p = j + 1
      <4>1. CASE itr = End
        BY <1>2, <2>2, <3>1, <4>1 DEF n
      <4>2. CASE itr # End
        BY <2>2, <3>1, <3>2, <4>2, PositionCases
      <4> QED
        BY <4>1, <4>2
    <3>4. S' = Abstract!RemoveAt(S, p) /\ (list.dfn)' = list.dfn
      <4>1. S' = SeqWithout(S, n, j) /\ (list.dfn)' = list.dfn
        BY <2>4, <3>1 DEF S, n
      <4>2. Abstract!RemoveAt(S, j + 1) = SeqWithout(S, n, j)
        BY <1>2, <3>2, RemoveIndices
      <4> QED
        BY <3>3, <4>1, <4>2
    <3>5. PICK at : at = IF p = n THEN 0 ELSE p
      OBVIOUS
    <3>6. at = IF itr = End \/ n = 1 THEN 0 ELSE j + 1
      <4>1. itr = End => p = n
        BY <2>2
      <4>2. itr # End /\ n # 1 => p # n
        BY <1>2, <2>3, <3>2
      <4>3. n = 1 => p = n
        BY <3>2, <3>3
      <4> QED
        BY <3>3, <3>5, <4>1, <4>2, <4>3
    <3>7. PositionIn(list', popped.ret) = at
      <4>1. CASE itr = End \/ n = 1
        BY <1>5, <3>1, <3>6, <4>1 DEF n
      <4>2. CASE ~(itr = End \/ n = 1)
        <5>1. PICK k \in Int : k = j /\ j # n - 1
          BY <1>2, <2>3, <3>2, <3>3, <4>2
        <5>2. Position(popped.list, popped.ret) = {k}
          BY <3>1, <4>2, <5>1 DEF n
        <5>3. PositionIn(popped.list, popped.ret) = k + 1
          BY <5>2, PositionCases
        <5>4. k + 1 = at
          BY <3>6, <4>2, <5>1
        <5> QED
          BY <2>4, <5>3, <5>4
      <4> QED
        BY <4>1, <4>2
    <3>8. O' = Abstract!Result(<<"pop", p>>, TRUE, at, <<>>)
      BY <2>8, <3>7
    <3>9. p # 0 /\ p \in 0 .. Len(S)
      BY <1>2, <3>2, <3>3
    <3>10. O' = Abstract!Result(<<"pop", p>>, TRUE,
                  IF p = Len(S) THEN 0 ELSE p, <<>>)
      BY <1>2, <3>5, <3>8
    <3>11. Abstract!Pop(p)
      BY <2>4, <3>4, <3>9, <3>10 DEF Abstract!Pop, S, O
    <3> QED
      BY <3>9, <3>11 DEF Abstract!Next, S
  <2> QED
    BY <2>9, <2>10
<1>d. ASSUME NEW amount \in Amounts, NEW alloc \in BOOLEAN, Reserve(amount, alloc)
      PROVE  Abstract!Next
  <2>1. PICK res : res = list_reserve(list, amount, alloc)
    OBVIOUS
  <2>2. /\ live /\ live' = live /\ list' = res.list /\ out' = Result(<<"reserve">>, res.ret, End, <<>>)
        /\ amount > list.size => GrownSize(list.size, amount - list.size) <= MaxSize
    BY <1>d, <2>1 DEF Reserve
  <2>3. amount \in Nat
    BY AmountsAssumption, SizeAssumption
  <2>4. Grows(list, res) /\ res.ret \in BOOLEAN
    <3>1. CASE amount > list.size
      <4>1. PICK l : l = list
        OBVIOUS
      <4>2. PICK a \in Nat : a = amount - list.size
        BY <1>2, <2>3, <3>1
      <4>3. res = list_grow(l, a, alloc) /\ GrownSize(l.size, a) <= MaxSize
        BY <2>1, <2>2, <3>1, <4>1, <4>2 DEF list_reserve
      <4>4. Grows(l, res) /\ res.ret \in BOOLEAN
        BY <1>1, <4>1, <4>3, GrowRings
      <4> QED
        BY <4>1, <4>4
    <3>2. CASE ~(amount > list.size)
      BY <2>1, <3>2 DEF list_reserve, Grows
    <3> QED
      BY <3>1, <3>2
  <2>5. S' = S /\ (list.dfn)' = list.dfn
    BY <2>2, <2>4 DEF Grows, S
  <2>6. O' = Abstract!Result(<<"reserve">>, res.ret, 0, <<>>)
    BY <1>6, <2>2
  <2>7. CASE res.ret = TRUE
    <3>1. Abstract!Reserve
      BY <2>2, <2>5, <2>6, <2>7 DEF Abstract!Reserve, S, O
    <3> QED
      BY <3>1 DEF Abstract!Next
  <2>8. CASE res.ret = FALSE
    <3>1. Abstract!Reserve
      BY <2>2, <2>5, <2>6, <2>8 DEF Abstract!Reserve, Abstract!Refuse, S, O
    <3> QED
      BY <3>1 DEF Abstract!Next
  <2> QED
    BY <2>4, <2>7, <2>8
<1>e. CASE Clear
  <2>1. /\ live /\ live' = live /\ list' = list_clear(list).list
        /\ out' = Result(<<"clear">>, TRUE, End, list_clear(list).deleted)
    BY <1>e DEF Clear
  <2>2. list_clear(list).list = EmptyList(list.dfn) /\ list_clear(list).deleted = list_deinit(list).deleted
    BY DEF list_clear, list_deinit
  <2>3. PICK b \in BOOLEAN : b = list.dfn
    BY <1>2
  <2>4. Contents(EmptyList(b)) = <<>> /\ EmptyList(b).dfn = b
    BY EmptyRings
  <2>5. S' = <<>> /\ (list.dfn)' = list.dfn
    BY <2>1, <2>2, <2>3, <2>4 DEF S
  <2>6. O' = Abstract!Result(<<"clear">>, TRUE, 0, Abstract!Deleted)
    BY <1>6, <1>8, <2>1, <2>2
  <2>7. Abstract!Clear
    BY <2>1, <2>5, <2>6 DEF Abstract!Clear, S, O
  <2> QED
    BY <2>7 DEF Abstract!Next
<1>f. CASE Delete
  <2>1. /\ live /\ live' = FALSE /\ list' = EmptyList(FALSE)
        /\ out' = Result(<<"delete">>, TRUE, End, list_deinit(list).deleted)
    BY <1>f DEF Delete
  <2>2. Contents(EmptyList(FALSE)) = <<>> /\ EmptyList(FALSE).dfn = FALSE
    BY EmptyRings
  <2>3. S' = <<>> /\ (list.dfn)' = FALSE
    BY <2>1, <2>2 DEF S
  <2>4. O' = Abstract!Result(<<"delete">>, TRUE, 0, Abstract!Deleted)
    BY <1>6, <1>8, <2>1
  <2>5. Abstract!Delete
    BY <2>1, <2>3, <2>4 DEF Abstract!Delete, S, O
  <2> QED
    BY <2>5 DEF Abstract!Next
<1>n. CASE Next
  <2>1. CASE \E capacity \in Amounts, dfn, alloc \in BOOLEAN : New(capacity, dfn, alloc)
    BY <1>a, <2>1
  <2>2. CASE \E d \in Data \ Stored, itr \in Used \cup {End}, alloc \in BOOLEAN : Push(d, itr, alloc)
    BY <1>b, <2>2
  <2>3. CASE \E itr \in -2 .. list.size : \E garbage \in Garbage(itr) : Pop(itr, garbage)
    BY <1>c, <2>3
  <2>4. CASE \E amount \in Amounts, alloc \in BOOLEAN : Reserve(amount, alloc)
    BY <1>d, <2>4
  <2> QED
    BY <1>e, <1>f, <1>n, <2>1, <2>2, <2>3, <2>4 DEF Next
<1>u. CASE UNCHANGED vars
  BY <1>s, <1>u
<1> QED
  BY <1>n, <1>u

(* For a caller that also never names the tail of several items by its     *)
(* iterator (there list.c:348 answers the head, not the end it promises),  *)
(* the calls of list.h implement ListSpec: every list_push, list_pop,      *)
(* list_reserve, list_clear and list_delete does to the sequence of stored *)
(* pointers, answers and deletes what is said there, whatever slots the    *)
(* items are in and however often the array has been grown.                *)
THEOREM ImplementsSequence == ~PopsEmpty /\ ~PopsTail => (Spec => RefinesListSpec)
<1> SUFFICES ASSUME ~PopsEmpty, ~PopsTail PROVE Spec => RefinesListSpec
  OBVIOUS
<1>1. Init => Abstract!Init
  <2> SUFFICES ASSUME Init PROVE Abstract!Init
    OBVIOUS
  <2>1. live = FALSE /\ list = EmptyList(FALSE) /\ out = Result(<<"none">>, TRUE, End, <<>>)
    BY DEF Init
  <2>2. PICK e : e = EmptyList(FALSE)
    OBVIOUS
  <2>3. IsList(e) /\ WellFormed(e) /\ Contents(e) = <<>> /\ e.dfn = FALSE
    BY <2>2, EmptyRings
  <2>4. PositionIn(e, End) = 0
    BY <2>3, EndIsZero
  <2>5. PositionOf(out.at) = 0
    <3>1. PositionOf(out.at) = PositionIn(list, out.at)
      BY Zenon DEF PositionOf, PositionIn
    <3>2. out.at = End
      BY <2>1 DEF Result
    <3> QED
      BY <2>1, <2>2, <2>4, <3>1, <3>2
  <2>6. [out EXCEPT !.at = PositionOf(out.at)] = Abstract!Result(<<"none">>, TRUE, 0, <<>>)
    <3>1. PICK o : o = out
      OBVIOUS
    <3>2. [o EXCEPT !.at = 0] = Abstract!Result(<<"none">>, TRUE, 0, <<>>)
      <4>1. PICK call : call = <<"none">>
        OBVIOUS
      <4>2. PICK ret : ret = TRUE
        OBVIOUS
      <4>3. PICK none : none = <<>>
        OBVIOUS
      <4>4. o = Result(call, ret, End, none)
        BY <2>1, <3>1, <4>1, <4>2, <4>3, Zenon
      <4>5. [o EXCEPT !.at = 0] = Abstract!Result(call, ret, 0, none)
        BY <4>4, Mapped
      <4> QED
        BY <4>1, <4>2, <4>3, <4>5, Zenon
    <3> QED
      BY <2>5, <3>1, <3>2
  <2> QED
    BY <2>1, <2>2, <2>3, <2>6 DEF Abstract!Init
<1>2. /\ ListInv /\ ListInv' /\ NothingLeft /\ [Next]_vars
      => [Abstract!Next]_<<live, list.dfn, Contents(list), [out EXCEPT !.at = PositionOf(out.at)]>>
  BY StepRefines
<1> QED
  BY <1>1, <1>2, InvInductive, LeavesNothing, PTL
     DEF Spec, RefinesListSpec, Abstract!Spec, Abstract!specVars
=============================================================================

------------------------------ MODULE Hashtable ------------------------------
(***************************************************************************)
(* The hash table of src/hashtable.c and a caller that makes every call of *)
(* hashtable.h on it.  The buckets are sequences, which is what List shows *)
(* a list_t to be, and a list iterator is a position in one of them.  The  *)
(* iterators a caller passes are the ones the table has just returned.     *)
(***************************************************************************)
EXTENDS Integers, Sequences, FiniteSetsExt, SequencesExt

CONSTANTS Data,     \* the pointers a caller stores
          Key,      \* Data -> key: the match function compares keys
          Hash,     \* Data -> Nat: the hash function
          PRIMES,   \* the sizes a table may have
          LIMIT,    \* default_load_limit
          Initials, \* the initial capacities a caller asks for
          MayFail,  \* the allocations that may fail: "lists", "push", "rehash"
          NULL

ASSUME HashAssumption ==
  /\ (\A d \in Data : Hash[d] \in Nat) /\ NULL \notin Data
  /\ \A d, e \in Data : Key[d] = Key[e] => Hash[d] = Hash[e]
ASSUME PrimesAssumption ==
  /\ PRIMES \in Seq(Nat \ {0}) /\ PRIMES # <<>>
  /\ \A i \in DOMAIN PRIMES : PRIMES[i] <= Last(PRIMES)
ASSUME LimitAssumption == LIMIT \in Nat \ {0} /\ Initials \subseteq Nat
ASSUME FailAssumption == MayFail \subseteq {"lists", "push", "rehash"}

VARIABLES live,  \* between ht_new and ht_delete
          ht,    \* the ht_t
          out    \* the last call, what it returned, which data it deleted

vars == <<live, ht, out>>

Result(call, ret, deleted) == [call |-> call, ret |-> ret, deleted |-> deleted]

(* A ht_t as MEMSET leaves it. *)
Zeroed == [initial |-> 0, count |-> 0, size |-> 0, lists |-> <<>>]

Init == /\ live = FALSE
        /\ ht = Zeroed
        /\ out = Result(<<"none">>, TRUE, {})

Buckets(t) == 0 .. t.size - 1

(* The data of a table, bucket after bucket. *)
Items(t) == FlattenSeq([i \in 1 .. t.size |-> t.lists[i - 1]])

-----------------------------------------------------------------------------
(* Iterators. *)
itr_end == -1
ht_itr_end_t == [idx |-> -1, itr |-> itr_end]

list_itr_begin(l) == IF l = <<>> THEN itr_end ELSE 1
list_itr_rbegin(l) == IF l = <<>> THEN itr_end ELSE Len(l)

Filled(t) == {i \in Buckets(t) : t.lists[i] # <<>>}

FirstIn(t, idxs) ==
  IF idxs = {} THEN ht_itr_end_t
  ELSE [idx |-> Min(idxs), itr |-> list_itr_begin(t.lists[Min(idxs)])]

LastIn(t, idxs) ==
  IF idxs = {} THEN ht_itr_end_t
  ELSE [idx |-> Max(idxs), itr |-> list_itr_rbegin(t.lists[Max(idxs)])]

ht_itr_begin(t) == IF t.count > 0 THEN FirstIn(t, Filled(t)) ELSE ht_itr_end_t
ht_itr_rbegin(t) == IF t.count > 0 THEN LastIn(t, Filled(t)) ELSE ht_itr_end_t

ht_itr_next(t, i) ==
  IF i.itr < Len(t.lists[i.idx])
    THEN [i EXCEPT !.itr = @ + 1]
    ELSE FirstIn(t, {j \in Filled(t) : j > i.idx})

(* Mutant of ht_itr_rnext: the previous bucket is entered at its head. *)
ht_itr_rnext_FromHead(t, i) ==
  LET before == {j \in Filled(t) : j < i.idx}
  IN  CASE i.itr > 1    -> [i EXCEPT !.itr = @ - 1]
        [] i.itr <= 1 /\ before = {} -> ht_itr_end_t
        [] OTHER -> [idx |-> Max(before), itr |-> 1]

ht_itr_rnext(t, i) ==
  IF i.itr > 1
    THEN [i EXCEPT !.itr = @ - 1]
    ELSE LastIn(t, {j \in Filled(t) : j < i.idx})

ht_get(t, i) ==
  IF i.idx \in Buckets(t) /\ i.itr \in DOMAIN t.lists[i.idx] THEN t.lists[i.idx][i.itr] ELSE NULL

(* Only defined for a table that has buckets: the code divides by size. *)
ht_find(t, d) ==
  LET idx == Hash[d] % t.size
      at  == {k \in DOMAIN t.lists[idx] : Key[t.lists[idx][k]] = Key[d]}
  IN  IF at = {} THEN ht_itr_end_t ELSE [idx |-> idx, itr |-> Min(at)]

-----------------------------------------------------------------------------
(* Growing. *)

(* Mutant of ht_get_new_size: the search stops one prime early. *)
ht_get_new_size_Early(count) ==
  LET fits == {i \in DOMAIN PRIMES : count <= LIMIT * PRIMES[i]}
  IN  IF Min(fits) = 1 THEN PRIMES[1] ELSE PRIMES[Min(fits) - 1]

(* The first prime with which the load is within the limit, else the last. *)
ht_get_new_size(count) ==
  LET fits == {i \in DOMAIN PRIMES : count <= LIMIT * PRIMES[i]}
  IN  IF fits = {} THEN Last(PRIMES) ELSE PRIMES[Min(fits)]

(* Mutant of Bucket: the index in the table as it was created. *)
Bucket_Initial(t, d) == Hash[d] % ht_get_new_size(t.initial)

(* The list that ht_insert adds an item to. *)
Bucket(t, d) == Hash[d] % t.size

Inserted(t, d) == [t EXCEPT !.lists[Bucket(t, d)] = Append(@, d), !.count = @ + 1]

(* Mutant of Absent: an item is only kept out by itself. *)
AbsentItself(t, d) == d \notin Range(Items(t))

Absent(t, d) == ht_find(t, d) = ht_itr_end_t

(* The loop of ht_grow: the items of the old lists, in their order, are    *)
(* put in the new ones with ht_insert.  lost are those for which it has no *)
(* memory, which nobody notices.  It does not grow the table again: the    *)
(* new size holds all the items, up to the bound of NotFull.               *)
Rehashed(t, items, lost) ==
  LET into[n \in 0 .. Len(items)] ==
        IF n = 0 THEN t
        ELSE IF items[n] \in lost \/ ~Absent(into[n - 1], items[n]) THEN into[n - 1]
        ELSE Inserted(into[n - 1], items[n])
  IN  into[Len(items)]

(* ht_grow, when there is memory for the new lists. *)
ht_grow(t, lost) ==
  LET size  == ht_get_new_size(IF t.count > 0 THEN t.count ELSE t.initial)
      empty == [t EXCEPT !.size = size, !.count = 0, !.lists = [i \in 0 .. size - 1 |-> <<>>]]
  IN  Rehashed(empty, Items(t), lost)

(* Mutant of ht_init: the size is set before the lists are there. *)
ht_init_SizeFirst(initial, alloc) ==
  LET t == [Zeroed EXCEPT !.initial = initial]
  IN  IF alloc THEN ht_grow(t, {}) ELSE [t EXCEPT !.size = ht_get_new_size(initial)]

(* ht_init: FALSE is returned with the table zeroed but for its members. *)
ht_init(initial, alloc) ==
  LET t == [Zeroed EXCEPT !.initial = initial]
  IN  IF alloc THEN ht_grow(t, {}) ELSE t

(* The outcomes of an allocation. *)
Alloc(kind) == IF kind \in MayFail THEN BOOLEAN ELSE {TRUE}

Full(t) == t.count \div t.size > LIMIT

(* Bound: no table outgrows the last prime. *)
NotFull(t) == ~(Full(t) /\ t.size = Last(PRIMES))

-----------------------------------------------------------------------------
(* ht_new frees the struct when ht_init fails. *)
ht_new(initial) ==
  /\ ~live
  /\ \E alloc \in Alloc("lists") :
       /\ live' = alloc
       /\ ht' = IF alloc THEN ht_init(initial, TRUE) ELSE Zeroed
       /\ out' = Result(<<"new">>, alloc, {})

(* The lists delete what is in them. *)
ht_delete ==
  /\ live
  /\ live' = FALSE
  /\ ht' = Zeroed
  /\ out' = Result(<<"delete">>, TRUE, Range(Items(ht)))

Rehashes == IF "rehash" \in MayFail THEN SUBSET Range(Items(ht)) ELSE {{}}

ht_insert(d) ==
  /\ live /\ ht.size > 0 /\ NotFull(ht)
  /\ \E lists \in Alloc("lists"), push \in Alloc("push"), lost \in Rehashes :
       LET grown == IF Full(ht) THEN ht_grow(ht, lost) ELSE ht
           ok    == Absent(ht, d) /\ (Full(ht) => lists) /\ push
       IN  /\ ht' = CASE ok -> Inserted(grown, d)
                      [] ~ok /\ Absent(ht, d) /\ lists -> grown
                      [] OTHER -> ht
           /\ out' = Result(<<"insert", d>>, ok, {})
  /\ UNCHANGED live

(* ht_get of ht_find. *)
Find(d) ==
  /\ live /\ ht.size > 0
  /\ out' = Result(<<"find", d>>, ht_get(ht, ht_find(ht, d)), {})
  /\ UNCHANGED <<live, ht>>

Removed(t, i) == [t EXCEPT !.lists[i.idx] = RemoveAt(@, i.itr), !.count = @ - 1]

(* ht_remove of ht_find. *)
ht_remove(d) ==
  LET i  == ht_find(ht, d)
      ok == i # ht_itr_end_t /\ ht.count > 0
  IN  /\ live /\ ht.size > 0
      /\ ht' = IF ok THEN Removed(ht, i) ELSE ht
      /\ out' = Result(<<"remove", d>>, ok, {})
      /\ UNCHANGED live

(* A caller may clear, count or delete a table that a failing ht_clear     *)
(* left without buckets; the other calls would divide by zero.             *)
ht_clear ==
  /\ live
  /\ \E alloc \in Alloc("lists") :
       /\ ht' = ht_init(ht.initial, alloc)
       /\ out' = Result(<<"clear">>, alloc, Range(Items(ht)))
  /\ UNCHANGED live

ht_count ==
  /\ live
  /\ out' = Result(<<"count">>, ht.count, {})
  /\ UNCHANGED <<live, ht>>

Next == \/ \E initial \in Initials : ht_new(initial)
        \/ ht_delete
        \/ ht_clear
        \/ ht_count
        \/ \E d \in Data : ht_insert(d)
        \/ \E d \in Data : Find(d)
        \/ \E d \in Data : ht_remove(d)

Spec == Init /\ [][Next]_vars

-----------------------------------------------------------------------------
(* Every variable has its type, and the buckets are those of the size. *)
TypeOK ==
  /\ live \in BOOLEAN
  /\ ht.count \in Nat /\ ht.initial \in Initials \cup {0}
  /\ ht.size \in {0} \cup Range(PRIMES)
  /\ DOMAIN ht.lists = Buckets(ht)
  /\ \A i \in Buckets(ht) : ht.lists[i] \in Seq(Data)

(* ht_find finds every stored item, where it is stored: each is in the     *)
(* bucket of its hash, whatever size the table had when it was inserted,   *)
(* and no other item has its key.                                          *)
FindsEveryItem ==
  \A i \in Buckets(ht) : \A k \in DOMAIN ht.lists[i] :
     ht_find(ht, ht.lists[i][k]) = [idx |-> i, itr |-> k]

(* count is the number of items, through ht_grow's reset and recount, and  *)
(* the load never goes further over the limit than the insert that grows   *)
(* the table lets it.                                                      *)
LoadBounded ==
  /\ ht.count = Len(Items(ht))
  /\ ht.count <= (LIMIT + 1) * ht.size

(* The iterators of a walk of n steps. *)
Walk(begin, step(_, _)) ==
  LET at[n \in 0 .. ht.count] ==
        IF n = 0 THEN begin
        ELSE IF at[n - 1] = ht_itr_end_t THEN ht_itr_end_t ELSE step(ht, at[n - 1])
  IN  at

Visited(walk) == [n \in 1 .. ht.count |-> ht_get(ht, walk[n - 1])]

(* A walk with ht_itr_next meets every item once and then ends, and a walk *)
(* with ht_itr_rnext meets them in the opposite order.                     *)
WalksMeetAll ==
  LET forth == Walk(ht_itr_begin(ht), ht_itr_next)
      back  == Walk(ht_itr_rbegin(ht), ht_itr_rnext)
  IN  /\ forth[ht.count] = ht_itr_end_t /\ Visited(forth) = Items(ht)
      /\ back[ht.count] = ht_itr_end_t /\ Visited(back) = Reverse(Items(ht))

Abstract == INSTANCE HashSpec WITH contents <- Range(Items(ht))

(* The table is a set of data with one of each key; a call that fails      *)
(* keeps what is stored, so that "hash the old data into the new table"    *)
(* loses none of it.                                                       *)
RefinesHashSpec == Abstract!Spec
=============================================================================

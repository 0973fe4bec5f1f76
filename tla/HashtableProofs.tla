-------------------------- MODULE HashtableProofs ---------------------------
(***************************************************************************)
(* The hash table, for any data, keys, hash function, table sizes and load *)
(* limit: Hashtable implements HashSpec, ht_find finds every item and the  *)
(* load is bounded.                                                        *)
(*                                                                         *)
(* The argument: in a Sound table every item is in the list of its hash,   *)
(* and no two items of a list have one key, so that what ht_find sees of   *)
(* the one list it looks in is what there is of a key in the whole table   *)
(* (FindOne, AbsentMeans).  Inserting an absent item and removing one keep *)
(* a table Sound (InsertedOK, RemovedOK); ht_grow does nothing but insert, *)
(* into an empty table, items whose keys differ (RehashedOK, GrownOK).     *)
(* An iterator is a place among the items, counted by the Offsets of the   *)
(* lists, and a step of a walk moves it by one (NextMoves, RnextMoves).    *)
(***************************************************************************)
EXTENDS Hashtable, TLAPS, FiniteSetTheorems, WellFoundedInduction

LEMMA LeastElement ==
  ASSUME NEW T \in SUBSET Nat, T # {}
  PROVE  \E x \in T : \A y \in T : x <= y
<1> DEFINE Less == {ss \in Nat \X Nat : ss[1] < ss[2]}
<1>1. IsWellFoundedOn(Less, Nat)
  <2>1. Less = OpToRel(<, Nat)
    BY Zenon DEF OpToRel
  <2> QED
    BY <2>1, NatLessThanWellFounded, Zenon
<1>2. PICK x \in T : \A y \in T : ~ (<<y, x>> \in Less)
  <2> HIDE DEF Less
  <2> QED
    BY <1>1, WFMin
<1>3. ASSUME NEW y \in T PROVE x <= y
  <2>1. x \in Nat /\ y \in Nat
    OBVIOUS
  <2>2. y < x => <<y, x>> \in Less
    BY <2>1
  <2> HIDE DEF Less
  <2> QED
    BY <1>2, <2>1, <2>2
<1> QED
  BY <1>3

(* Induction over the numbers up to n, for a set instead of a predicate. *)
LEMMA SetInduction ==
  ASSUME NEW n \in Nat, NEW S, 0 \in S, \A k \in 0 .. n - 1 : k \in S => k + 1 \in S
  PROVE  0 .. n \subseteq S
<1> DEFINE T == (0 .. n) \ S
<1> SUFFICES ASSUME T # {} PROVE FALSE
  OBVIOUS
<1>1. PICK m \in T : \A y \in T : m <= y
  <2>1. T \in SUBSET Nat
    OBVIOUS
  <2> HIDE DEF T
  <2> QED
    BY <2>1, LeastElement
<1>2. m \in 1 .. n
  OBVIOUS
<1>3. m - 1 \in 0 .. n - 1 /\ m - 1 \notin T
  BY <1>1, <1>2
<1> QED
  BY <1>2, <1>3

(* A function is defined by its first value and its steps. *)
Steps(f, n, base, g) == f[0] = base /\ \A k \in 1 .. n : f[k] = g[<<k, f[k - 1]>>]

LEMMA Recursion ==
  ASSUME NEW N \in Nat, NEW T, NEW base \in T, NEW g \in [(1 .. N) \X T -> T]
  PROVE  \E f \in [0 .. N -> T] : Steps(f, N, base, g)
<1> DEFINE S == {n \in 0 .. N : \E f \in [0 .. n -> T] : Steps(f, n, base, g)}
<1>1. 0 \in S
  <2> DEFINE f == [k \in 0 .. 0 |-> base]
  <2>1. f \in [0 .. 0 -> T] /\ Steps(f, 0, base, g) /\ 0 \in 0 .. N
    BY DEF Steps
  <2> HIDE DEF f
  <2> QED
    BY <2>1
<1>2. ASSUME NEW n \in 0 .. N - 1, n \in S PROVE n + 1 \in S
  <2>1. PICK f \in [0 .. n -> T] : Steps(f, n, base, g)
    BY <1>2
  <2> DEFINE x == g[<<n + 1, f[n]>>]
             h == [k \in 0 .. n + 1 |-> IF k = n + 1 THEN x ELSE f[k]]
  <2>2. x \in T
    <3>1. <<n + 1, f[n]>> \in (1 .. N) \X T
      OBVIOUS
    <3> QED
      BY <3>1
  <2>3. h \in [0 .. n + 1 -> T] /\ h[n + 1] = x /\ \A k \in 0 .. n : h[k] = f[k]
    BY <2>2
  <2>4. ASSUME NEW k \in 1 .. n + 1 PROVE h[k] = g[<<k, h[k - 1]>>]
    <3> HIDE DEF h
    <3>1. CASE k = n + 1
      <4>1. k - 1 = n /\ h[k - 1] = f[n]
        BY <2>3, <3>1
      <4> QED
        BY <2>3, <3>1, <4>1
    <3>2. CASE k # n + 1
      <4>1. k \in 1 .. n /\ h[k] = f[k] /\ h[k - 1] = f[k - 1]
        BY <2>3, <3>2
      <4> QED
        BY <2>1, <4>1 DEF Steps
    <3> QED
      BY <3>1, <3>2
  <2> HIDE DEF h
  <2>5. Steps(h, n + 1, base, g)
    BY <2>1, <2>3, <2>4 DEF Steps
  <2>6. n + 1 \in 0 .. N
    OBVIOUS
  <2> QED
    BY <2>3, <2>5, <2>6
<1>3. N \in S
  <2> HIDE DEF S
  <2> QED
    BY <1>1, <1>2, SetInduction
<1> QED
  BY <1>3

-----------------------------------------------------------------------------
(* The items of a table, list after list.                                  *)

(* F[i] is what the first i lists hold. *)
Flattens(F, seqs, n) ==
  /\ F[1] = seqs[1]
  /\ \A i \in 2 .. n : F[i] = F[i - 1] \o seqs[i]
  /\ FlattenSeq(seqs) = F[n]

LEMMA FlattenIs ==
  ASSUME NEW D, NEW n \in Nat \ {0}, NEW seqs \in [1 .. n -> Seq(D)]
  PROVE  \E F \in [1 .. n -> Seq(D)] : Flattens(F, seqs, n)
<1> DEFINE T == Seq(D)
           g == [p \in (1 .. n - 1) \X T |-> p[2] \o seqs[p[1] + 1]]
           G(f) == [i \in 1 .. n |-> IF i = 1 THEN seqs[i] ELSE f[i - 1] \o seqs[i]]
           F == CHOOSE f : f = G(f)
<1>1. seqs \in Seq(Seq(D)) /\ Len(seqs) = n
  OBVIOUS
<1>2. g \in [(1 .. n - 1) \X T -> T]
  OBVIOUS
<1>3. PICK h \in [0 .. n - 1 -> T] : Steps(h, n - 1, seqs[1], g)
  <2>1. n - 1 \in Nat /\ seqs[1] \in T
    OBVIOUS
  <2> HIDE DEF g, T
  <2> QED
    BY <1>2, <2>1, Recursion
<1> DEFINE f == [i \in 1 .. n |-> h[i - 1]]
<1>4. f = G(f)
  <2>1. ASSUME NEW i \in 1 .. n PROVE f[i] = IF i = 1 THEN seqs[i] ELSE f[i - 1] \o seqs[i]
    <3>1. CASE i = 1
      BY <1>3, <3>1 DEF Steps
    <3>2. CASE i # 1
      <4>1. i - 1 \in 1 .. n - 1 /\ i - 1 \in 1 .. n /\ (i - 1) + 1 = i /\ (i - 1) - 1 \in 0 .. n - 1
        BY <3>2
      <4>2. h[i - 1] = g[<<i - 1, h[(i - 1) - 1]>>]
        BY <1>3, <4>1 DEF Steps
      <4>3. h[(i - 1) - 1] \in T
        BY <1>3, <4>1
      <4>4. g[<<i - 1, h[(i - 1) - 1]>>] = h[(i - 1) - 1] \o seqs[(i - 1) + 1]
        BY <4>1, <4>3
      <4> QED
        BY <3>2, <4>1, <4>2, <4>4
    <3> QED
      BY <3>1, <3>2
  <2>2. f = [i \in 1 .. n |-> f[i]]
    OBVIOUS
  <2> HIDE DEF f
  <2> QED
    BY <2>1, <2>2
<1>5. F = G(F)
  <2> HIDE DEF f, G
  <2> QED
    BY <1>4
<1>6. FlattenSeq(seqs) = F[n]
  <2>1. FlattenSeq(seqs) = IF Len(seqs) = 0 THEN seqs ELSE
          LET fl[i \in 1 .. Len(seqs)] == IF i = 1 THEN seqs[i] ELSE fl[i - 1] \o seqs[i]
          IN  fl[Len(seqs)]
    BY DEF FlattenSeq
  <2> QED
    BY <1>1, <2>1
<1> HIDE DEF F
<1>7. F[1] = seqs[1] /\ \A i \in 2 .. n : F[i] = F[i - 1] \o seqs[i]
  <2>1. \A i \in 1 .. n : F[i] = IF i = 1 THEN seqs[i] ELSE F[i - 1] \o seqs[i]
    BY <1>5
  <2>2. F[1] = seqs[1]
    BY <2>1
  <2>3. ASSUME NEW i \in 2 .. n PROVE F[i] = F[i - 1] \o seqs[i]
    <3>1. i \in 1 .. n /\ i # 1
      OBVIOUS
    <3> QED
      BY <2>1, <3>1
  <2> QED
    BY <2>2, <2>3
<1>8. \A i \in 1 .. n : F[i] \in Seq(D)
  <2> DEFINE S == {k \in 0 .. n - 1 : F[k + 1] \in Seq(D)}
  <2>1. 0 \in S
    BY <1>7
  <2>2. ASSUME NEW k \in 0 .. (n - 1) - 1, k \in S PROVE k + 1 \in S
    <3>1. (k + 1) + 1 \in 2 .. n /\ ((k + 1) + 1) - 1 = k + 1 /\ F[k + 1] \in Seq(D)
      BY <2>2
    <3>2. F[(k + 1) + 1] = F[k + 1] \o seqs[(k + 1) + 1]
      BY <1>7, <3>1
    <3>3. F[(k + 1) + 1] \in Seq(D)
      BY <3>1, <3>2
    <3> QED
      BY <3>3
  <2> HIDE DEF S
  <2>3. 0 .. n - 1 \subseteq S
    <3>1. n - 1 \in Nat
      OBVIOUS
    <3> QED
      BY <2>1, <2>2, <3>1, SetInduction
  <2>4. ASSUME NEW i \in 1 .. n PROVE F[i] \in Seq(D)
    <3>1. i - 1 \in S
      BY <2>3
    <3>2. F[(i - 1) + 1] \in Seq(D)
      BY <3>1 DEF S
    <3> QED
      BY <3>2
  <2> QED
    BY <2>4
<1>9. F = [i \in 1 .. n |-> F[i]]
  BY <1>5
<1>10. F \in [1 .. n -> Seq(D)]
  BY <1>8, <1>9
<1> QED
  BY <1>6, <1>7, <1>10 DEF Flattens

LEMMA ConcatRange ==
  ASSUME NEW D, NEW s \in Seq(D), NEW t \in Seq(D)
  PROVE  Range(s \o t) = Range(s) \cup Range(t)
<1>1. /\ DOMAIN (s \o t) = 1 .. Len(s) + Len(t) /\ DOMAIN s = 1 .. Len(s) /\ DOMAIN t = 1 .. Len(t)
      /\ Len(s) \in Nat /\ Len(t) \in Nat
      /\ \A i \in 1 .. Len(s) + Len(t) : (s \o t)[i] = IF i <= Len(s) THEN s[i] ELSE t[i - Len(s)]
  OBVIOUS
<1>2. ASSUME NEW i \in DOMAIN (s \o t) PROVE (s \o t)[i] \in Range(s) \cup Range(t)
  <2>1. CASE i <= Len(s)
    BY <1>1, <2>1 DEF Range
  <2>2. CASE ~(i <= Len(s))
    <3>1. i - Len(s) \in DOMAIN t /\ (s \o t)[i] = t[i - Len(s)]
      BY <1>1, <2>2
    <3> QED
      BY <3>1 DEF Range
  <2> QED
    BY <2>1, <2>2
<1>3. ASSUME NEW i \in DOMAIN s PROVE s[i] \in Range(s \o t)
  <2>1. i \in DOMAIN (s \o t) /\ (s \o t)[i] = s[i]
    BY <1>1
  <2> QED
    BY <2>1 DEF Range
<1>4. ASSUME NEW i \in DOMAIN t PROVE t[i] \in Range(s \o t)
  <2>1. i + Len(s) \in 1 .. Len(s) + Len(t) /\ ~(i + Len(s) <= Len(s)) /\ (i + Len(s)) - Len(s) = i
    BY <1>1
  <2>2. i + Len(s) \in DOMAIN (s \o t) /\ (s \o t)[i + Len(s)] = t[i]
    BY <1>1, <2>1
  <2> QED
    BY <2>2 DEF Range
<1> QED
  BY <1>2, <1>3, <1>4 DEF Range

LEMMA FlattenRange ==
  ASSUME NEW D, NEW n \in Nat \ {0}, NEW seqs \in [1 .. n -> Seq(D)]
  PROVE  FlattenSeq(seqs) \in Seq(D) /\ Range(FlattenSeq(seqs)) = UNION {Range(seqs[i]) : i \in 1 .. n}
<1>1. PICK F \in [1 .. n -> Seq(D)] : Flattens(F, seqs, n)
  BY FlattenIs
<1> DEFINE S == {k \in 0 .. n - 1 : Range(F[k + 1]) = UNION {Range(seqs[i]) : i \in 1 .. k + 1}}
<1>2. 0 \in S
  <2>1. F[0 + 1] = seqs[1] /\ 1 .. 0 + 1 = {1}
    BY <1>1 DEF Flattens
  <2>2. UNION {Range(seqs[i]) : i \in {1}} = Range(seqs[1])
    OBVIOUS
  <2> QED
    BY <2>1, <2>2
<1>3. ASSUME NEW k \in 0 .. (n - 1) - 1, k \in S PROVE k + 1 \in S
  <2>1. (k + 1) + 1 \in 2 .. n /\ ((k + 1) + 1) - 1 = k + 1 /\ k + 1 \in 1 .. n
    OBVIOUS
  <2>2. F[(k + 1) + 1] = F[k + 1] \o seqs[(k + 1) + 1]
    BY <1>1, <2>1 DEF Flattens
  <2>3. Range(F[(k + 1) + 1]) = Range(F[k + 1]) \cup Range(seqs[(k + 1) + 1])
    BY <2>1, <2>2, ConcatRange
  <2>4. 1 .. (k + 1) + 1 = (1 .. k + 1) \cup {(k + 1) + 1}
    OBVIOUS
  <2>5. Range(F[k + 1]) = UNION {Range(seqs[i]) : i \in 1 .. k + 1}
    BY <1>3
  <2>6. Range(F[(k + 1) + 1]) = UNION {Range(seqs[i]) : i \in 1 .. (k + 1) + 1}
    BY <2>3, <2>4, <2>5
  <2> QED
    BY <2>1, <2>6
<1> HIDE DEF S
<1>4. n - 1 \in S
  <2>1. n - 1 \in Nat
    OBVIOUS
  <2>2. 0 .. n - 1 \subseteq S
    BY <1>2, <1>3, <2>1, SetInduction
  <2> QED
    BY <2>1, <2>2
<1>5. Range(F[n]) = UNION {Range(seqs[i]) : i \in 1 .. n}
  <2>1. (n - 1) + 1 = n
    OBVIOUS
  <2> QED
    BY <1>4, <2>1 DEF S
<1>6. FlattenSeq(seqs) = F[n] /\ F[n] \in Seq(D)
  BY <1>1 DEF Flattens
<1> QED
  BY <1>5, <1>6

(* Sums of numbers of which one grows by c. *)
Sums(f, a, n) == f[1] = a[1] /\ \A i \in 2 .. n : f[i] = f[i - 1] + a[i]

Larger(f, g, i, c) == g[i] = f[i] + c

LEMMA SumsShift ==
  ASSUME NEW n \in Nat \ {0}, NEW a \in [1 .. n -> Nat], NEW b \in [1 .. n -> Nat],
         NEW f \in [1 .. n -> Nat], NEW g \in [1 .. n -> Nat], Sums(f, a, n), Sums(g, b, n),
         NEW j \in 1 .. n, NEW c \in Int, Larger(a, b, j, c), \A i \in 1 .. n : i # j => b[i] = a[i]
  PROVE  Larger(f, g, n, c)
<1> USE DEF Larger
<1> DEFINE S == {k \in 0 .. n - 1 : IF k + 1 < j THEN g[k + 1] = f[k + 1] ELSE g[k + 1] = f[k + 1] + c}
<1>1. 0 \in S
  <2>1. 1 \in 1 .. n /\ 0 \in 0 .. n - 1 /\ f[1] = a[1] /\ g[1] = b[1]
    BY DEF Sums
  <2>2. CASE j = 1
    BY <2>1, <2>2
  <2>3. CASE j # 1
    BY <2>1, <2>3
  <2> QED
    BY <2>2, <2>3
<1>2. ASSUME NEW k \in 0 .. (n - 1) - 1, k \in S PROVE k + 1 \in S
  <2>1. PICK i \in 2 .. n : i = (k + 1) + 1
    OBVIOUS
  <2>2. i \in 1 .. n /\ i - 1 = k + 1 /\ i - 1 \in 1 .. n /\ k + 1 \in 0 .. n - 1
    BY <2>1
  <2>3. f[i] = f[i - 1] + a[i] /\ g[i] = g[i - 1] + b[i]
    BY DEF Sums
  <2>4. IF i - 1 < j THEN g[i - 1] = f[i - 1] ELSE g[i - 1] = f[i - 1] + c
    BY <1>2, <2>2
  <2>5. IF i < j THEN g[i] = f[i] ELSE g[i] = f[i] + c
    <3>1. f[i - 1] \in Nat /\ a[i] \in Nat /\ g[i - 1] \in Nat /\ b[i] \in Nat
      BY <2>2
    <3>2. CASE i < j
      <4>1. i - 1 < j /\ i # j
        BY <3>2
      <4> QED
        BY <2>2, <2>3, <2>4, <3>2, <4>1
    <3>3. CASE i = j
      <4>1. g[i - 1] = f[i - 1] /\ b[i] = a[i] + c
        BY <2>4, <3>3
      <4> QED
        BY <2>3, <3>1, <3>3, <4>1
    <3>4. CASE i > j
      <4>1. g[i - 1] = f[i - 1] + c /\ b[i] = a[i]
        BY <2>2, <2>4, <3>4
      <4>2. \A x, y \in Nat : (x + c) + y = (x + y) + c
        OBVIOUS
      <4>3. g[i] = (f[i - 1] + c) + a[i]
        BY <2>3, <4>1
      <4>4. g[i] = (f[i - 1] + a[i]) + c
        BY <3>1, <4>2, <4>3
      <4>5. g[i] = f[i] + c
        BY <2>3, <4>4
      <4> QED
        BY <3>4, <4>5
    <3> QED
      BY <3>2, <3>3, <3>4
  <2> QED
    BY <2>1, <2>2, <2>5
<1>3. n - 1 \in S
  <2> HIDE DEF S
  <2>1. n - 1 \in Nat
    OBVIOUS
  <2>2. 0 .. n - 1 \subseteq S
    BY <1>1, <1>2, <2>1, SetInduction
  <2> QED
    BY <2>1, <2>2
<1>4. (n - 1) + 1 = n /\ ~(n < j)
  OBVIOUS
<1> QED
  BY <1>3, <1>4

LongerBy(c, s, t) == Len(t) = Len(s) + c

(* One list gets longer or shorter by c. *)
LEMMA FlattenLen ==
  ASSUME NEW D, NEW n \in Nat \ {0}, NEW seqs \in [1 .. n -> Seq(D)], NEW new \in [1 .. n -> Seq(D)],
         NEW j \in 1 .. n, NEW c \in Int, LongerBy(c, seqs[j], new[j]),
         \A i \in 1 .. n : i # j => new[i] = seqs[i]
  PROVE  LongerBy(c, FlattenSeq(seqs), FlattenSeq(new))
<1> USE DEF LongerBy
<1> DEFINE a == [i \in 1 .. n |-> Len(seqs[i])]
           b == [i \in 1 .. n |-> Len(new[i])]
<1>1. ASSUME NEW x \in [1 .. n -> Seq(D)], NEW F \in [1 .. n -> Seq(D)], Flattens(F, x, n)
      PROVE  Sums([i \in 1 .. n |-> Len(F[i])], [i \in 1 .. n |-> Len(x[i])], n)
  <2>1. F[1] = x[1] /\ 1 \in 1 .. n
    BY <1>1 DEF Flattens
  <2>2. ASSUME NEW i \in 2 .. n PROVE Len(F[i]) = Len(F[i - 1]) + Len(x[i])
    <3>1. F[i] = F[i - 1] \o x[i]
      BY <1>1 DEF Flattens
    <3>2. F[i - 1] \in Seq(D) /\ x[i] \in Seq(D)
      OBVIOUS
    <3> QED
      BY <3>1, <3>2
  <2>3. \A i \in 2 .. n : i \in 1 .. n /\ i - 1 \in 1 .. n
    OBVIOUS
  <2> QED
    BY <2>1, <2>2, <2>3 DEF Sums
<1>2. PICK F \in [1 .. n -> Seq(D)] : Flattens(F, seqs, n)
  BY FlattenIs
<1>3. PICK G \in [1 .. n -> Seq(D)] : Flattens(G, new, n)
  BY FlattenIs
<1> DEFINE f == [i \in 1 .. n |-> Len(F[i])]
           g == [i \in 1 .. n |-> Len(G[i])]
<1>4. Sums(f, a, n) /\ Sums(g, b, n)
  BY <1>1, <1>2, <1>3
<1>5. /\ a \in [1 .. n -> Nat] /\ b \in [1 .. n -> Nat] /\ f \in [1 .. n -> Nat] /\ g \in [1 .. n -> Nat]
      /\ Larger(a, b, j, c)
  BY DEF Larger
<1>6. \A i \in 1 .. n : i # j => b[i] = a[i]
  OBVIOUS
<1>7. f[n] = Len(FlattenSeq(seqs)) /\ g[n] = Len(FlattenSeq(new))
  BY <1>2, <1>3 DEF Flattens
<1> HIDE DEF a, b, f, g
<1>8. Larger(f, g, n, c)
  BY <1>4, <1>5, <1>6, SumsShift
<1> QED
  BY <1>7, <1>8 DEF Larger

LEMMA FlattenEmpty ==
  ASSUME NEW n \in Nat \ {0}, NEW seqs, seqs = [i \in 1 .. n |-> <<>>]
  PROVE  FlattenSeq(seqs) = <<>>
<1>1. seqs \in [1 .. n -> Seq({})]
  OBVIOUS
<1>2. FlattenSeq(seqs) \in Seq({})
  BY <1>1, FlattenRange
<1> QED
  BY <1>2

-----------------------------------------------------------------------------
(* Tables.                                                                 *)

Sizes == {0} \cup Range(PRIMES)
Tables(n) == [initial : Initials \cup {0}, count : Nat, size : {n}, lists : [0 .. n - 1 -> Seq(Data)]]
IsTable(t) == t.size \in Sizes /\ t \in Tables(t.size)

Stored(t) == UNION {Range(t.lists[i]) : i \in Buckets(t)}

(* Every item is in the list of its hash, no two of a list have one key,   *)
(* and count is their number.                                              *)
Placed(t) == \A i \in Buckets(t) : \A k \in DOMAIN t.lists[i] : Hash[t.lists[i][k]] % t.size = i
Unique(t) == \A i \in Buckets(t) : \A k, m \in DOMAIN t.lists[i] :
                Key[t.lists[i][k]] = Key[t.lists[i][m]] => k = m
Counted(t) == /\ t.count = Len(Items(t))
              /\ IsFiniteSet(Stored(t)) /\ t.count = Cardinality(Stored(t))

Sound(t) == IsTable(t) /\ Placed(t) /\ Unique(t) /\ Counted(t)

LEMMA SizesNaturals == /\ \A n \in Sizes : n \in Nat
                       /\ \A n \in Range(PRIMES) : n \in Nat \ {0}
BY PrimesAssumption DEF Sizes, Range

LEMMA TableFields ==
  ASSUME NEW t, IsTable(t)
  PROVE  /\ t.size \in Nat /\ t.size \in Sizes /\ t.count \in Nat /\ t.initial \in Initials \cup {0}
         /\ t.lists \in [0 .. t.size - 1 -> Seq(Data)]
         /\ t = [initial |-> t.initial, count |-> t.count, size |-> t.size, lists |-> t.lists]
BY SizesNaturals DEF IsTable, Tables

LEMMA ItemsAreStored ==
  ASSUME NEW t, t.size \in Nat, t.lists \in [0 .. t.size - 1 -> Seq(Data)]
  PROVE  Items(t) \in Seq(Data) /\ Range(Items(t)) = Stored(t)
<1> DEFINE n == t.size
           seqs == [i \in 1 .. n |-> t.lists[i - 1]]
<1>1. seqs \in [1 .. n -> Seq(Data)] /\ Items(t) = FlattenSeq(seqs)
  BY DEF Items
<1>2. CASE n = 0
  <2>1. Len(seqs) = 0 /\ seqs = <<>>
    BY <1>2
  <2>2. Items(t) = <<>>
    BY <1>1, <2>1 DEF FlattenSeq
  <2>3. Buckets(t) = {}
    BY <1>2 DEF Buckets
  <2>4. Range(<<>>) = {}
    BY DEF Range
  <2> QED
    BY <2>2, <2>3, <2>4 DEF Stored
<1>3. CASE n # 0
  <2>1. n \in Nat \ {0}
    BY <1>3
  <2>2. FlattenSeq(seqs) \in Seq(Data) /\ Range(FlattenSeq(seqs)) = UNION {Range(seqs[i]) : i \in 1 .. n}
    <3> HIDE DEF seqs, n
    <3> QED
      BY <1>1, <2>1, FlattenRange
  <2>3. {Range(seqs[i]) : i \in 1 .. n} = {Range(t.lists[i]) : i \in 0 .. n - 1}
    <3>1. ASSUME NEW i \in 1 .. n PROVE i - 1 \in 0 .. n - 1 /\ seqs[i] = t.lists[i - 1]
      OBVIOUS
    <3>2. ASSUME NEW i \in 0 .. n - 1 PROVE i + 1 \in 1 .. n /\ seqs[i + 1] = t.lists[i]
      OBVIOUS
    <3> HIDE DEF seqs
    <3> QED
      BY <3>1, <3>2
  <2> QED
    BY <1>1, <2>2, <2>3 DEF Stored, Buckets
<1> QED
  BY <1>2, <1>3

(* One list changes its length by c. *)
LEMMA ItemsShift ==
  ASSUME NEW t, t.size \in Nat, t.lists \in [0 .. t.size - 1 -> Seq(Data)],
         NEW u, u.size = t.size, NEW j \in Buckets(t), NEW l \in Seq(Data), NEW c \in Int,
         u.lists = [t.lists EXCEPT ![j] = l], LongerBy(c, t.lists[j], l)
  PROVE  LongerBy(c, Items(t), Items(u))
<1> DEFINE n == t.size
           seqs == [i \in 1 .. n |-> t.lists[i - 1]]
           new == [i \in 1 .. n |-> u.lists[i - 1]]
<1>1. n \in Nat \ {0} /\ j \in 0 .. n - 1 /\ j + 1 \in 1 .. n
  BY DEF Buckets
<1>2. u.lists \in [0 .. n - 1 -> Seq(Data)] /\ \A i \in 0 .. n - 1 : u.lists[i] = IF i = j THEN l ELSE t.lists[i]
  OBVIOUS
<1>3. seqs \in [1 .. n -> Seq(Data)] /\ new \in [1 .. n -> Seq(Data)]
  <2>1. ASSUME NEW i \in 1 .. n PROVE i - 1 \in 0 .. n - 1
    OBVIOUS
  <2>2. ASSUME NEW i \in 1 .. n PROVE u.lists[i - 1] \in Seq(Data) /\ t.lists[i - 1] \in Seq(Data)
    BY <1>2, <2>1
  <2> QED
    BY <2>2
<1>4. new[j + 1] = l /\ seqs[j + 1] = t.lists[j]
  BY <1>1, <1>2
<1>5. ASSUME NEW i \in 1 .. n, i # j + 1 PROVE new[i] = seqs[i]
  <2>1. i - 1 \in 0 .. n - 1 /\ i - 1 # j
    BY <1>1, <1>5
  <2> QED
    BY <1>2, <2>1
<1>6. Items(t) = FlattenSeq(seqs) /\ Items(u) = FlattenSeq(new)
  BY DEF Items
<1>7. LongerBy(c, seqs[j + 1], new[j + 1])
  BY <1>4
<1> HIDE DEF n, seqs, new
<1>8. PICK p \in 1 .. n : p = j + 1
  BY <1>1
<1>9. LongerBy(c, seqs[p], new[p]) /\ \A i \in 1 .. n : i # p => new[i] = seqs[i]
  BY <1>5, <1>7, <1>8
<1>10. LongerBy(c, FlattenSeq(seqs), FlattenSeq(new))
  BY <1>1, <1>3, <1>9, FlattenLen
<1> QED
  BY <1>6, <1>10

LEMMA InStored ==
  ASSUME NEW t, NEW e
  PROVE  e \in Stored(t) <=> \E i \in Buckets(t) : \E k \in DOMAIN t.lists[i] : t.lists[i][k] = e
BY DEF Stored, Range

LEMMA StoredData == ASSUME NEW t, IsTable(t) PROVE Stored(t) \subseteq Data
<1>1. ASSUME NEW i \in Buckets(t), NEW k \in DOMAIN t.lists[i] PROVE t.lists[i][k] \in Data
  <2>1. t.lists[i] \in Seq(Data)
    BY TableFields DEF Buckets
  <2> QED
    BY <2>1
<1> QED
  BY <1>1, InStored

-----------------------------------------------------------------------------
(* ht_find. *)

LEMMA HashInTable ==
  ASSUME NEW t, t.size \in Nat, t.size > 0, NEW d \in Data
  PROVE  Hash[d] % t.size \in Buckets(t)
<1>1. Hash[d] \in Nat
  BY HashAssumption
<1> QED
  BY <1>1 DEF Buckets

LEMMA FindOne ==
  ASSUME NEW t, IsTable(t), Placed(t), Unique(t), t.size > 0,
         NEW i \in Buckets(t), NEW k \in DOMAIN t.lists[i], NEW d \in Data, Key[t.lists[i][k]] = Key[d]
  PROVE  ht_find(t, d) = [idx |-> i, itr |-> k]
<1> DEFINE e == t.lists[i][k]
           at == {m \in DOMAIN t.lists[i] : Key[t.lists[i][m]] = Key[d]}
<1>1. e \in Data
  BY StoredData, InStored
<1>2. Hash[d] % t.size = i
  BY <1>1, HashAssumption DEF Placed
<1>3. at = {k}
  BY DEF Unique
<1>4. Min({k}) = k
  <2>1. k \in Nat
    <3>1. t.lists[i] \in Seq(Data)
      BY TableFields DEF Buckets
    <3> QED
      BY <3>1
  <2> QED
    BY <2>1 DEF Min
<1> QED
  BY <1>2, <1>3, <1>4 DEF ht_find

LEMMA FindNone ==
  ASSUME NEW t, IsTable(t), t.size > 0, NEW d \in Data, \A e \in Stored(t) : Key[e] # Key[d]
  PROVE  ht_find(t, d) = ht_itr_end_t
<1>1. Hash[d] % t.size \in Buckets(t)
  BY TableFields, HashInTable
<1>2. {m \in DOMAIN t.lists[Hash[d] % t.size] : Key[t.lists[Hash[d] % t.size][m]] = Key[d]} = {}
  BY <1>1, InStored
<1> QED
  BY <1>2 DEF ht_find

LEMMA AbsentMeans ==
  ASSUME NEW t, IsTable(t), Placed(t), Unique(t), t.size > 0, NEW d \in Data
  PROVE  Absent(t, d) <=> \A e \in Stored(t) : Key[e] # Key[d]
<1>1. ASSUME NEW e \in Stored(t), Key[e] = Key[d] PROVE ~Absent(t, d)
  <2>1. PICK i \in Buckets(t) : \E k \in DOMAIN t.lists[i] : t.lists[i][k] = e
    BY InStored
  <2>2. PICK k \in DOMAIN t.lists[i] : t.lists[i][k] = e
    BY <2>1
  <2>3. ht_find(t, d) = [idx |-> i, itr |-> k]
    BY <1>1, <2>2, FindOne
  <2>4. i # -1
    BY TableFields DEF Buckets
  <2>5. ht_find(t, d).idx = i /\ ht_itr_end_t.idx = -1
    BY <2>3 DEF ht_itr_end_t
  <2> QED
    BY <2>4, <2>5 DEF Absent
<1>2. ASSUME \A e \in Stored(t) : Key[e] # Key[d] PROVE Absent(t, d)
  BY <1>2, FindNone DEF Absent
<1> QED
  BY <1>1, <1>2

(* What is stored under one key is one item. *)
LEMMA KeysDiffer ==
  ASSUME NEW t, IsTable(t), Placed(t), Unique(t), NEW a \in Stored(t), NEW b \in Stored(t), Key[a] = Key[b]
  PROVE  a = b
<1>1. PICK i \in Buckets(t) : \E k \in DOMAIN t.lists[i] : t.lists[i][k] = a
  BY InStored
<1>2. PICK k \in DOMAIN t.lists[i] : t.lists[i][k] = a
  BY <1>1
<1>3. PICK j \in Buckets(t) : \E m \in DOMAIN t.lists[j] : t.lists[j][m] = b
  BY InStored
<1>4. PICK m \in DOMAIN t.lists[j] : t.lists[j][m] = b
  BY <1>3
<1>5. a \in Data /\ b \in Data
  BY StoredData
<1>6. Hash[a] = Hash[b]
  BY <1>5, HashAssumption
<1>7. i = j
  BY <1>2, <1>4, <1>6 DEF Placed
<1> QED
  BY <1>2, <1>4, <1>7 DEF Unique

-----------------------------------------------------------------------------
(* Adding and removing.                                                    *)

(* u is t with other contents. *)
Becomes(t, u, contents) == /\ Sound(u) /\ Stored(u) = contents
                           /\ u.size = t.size /\ u.initial = t.initial

LEMMA InsertedOK ==
  ASSUME NEW t, Sound(t), t.size > 0, NEW d \in Data, Absent(t, d), NEW u, u = Inserted(t, d)
  PROVE  Becomes(t, u, Stored(t) \cup {d})
<1> DEFINE j == Hash[d] % t.size
           l == Append(t.lists[j], d)
           lists == [t.lists EXCEPT ![j] = l]
<1>1. /\ t.size \in Nat /\ t.size \in Sizes /\ t.count \in Nat /\ t.initial \in Initials \cup {0}
      /\ t.lists \in [0 .. t.size - 1 -> Seq(Data)]
      /\ t = [initial |-> t.initial, count |-> t.count, size |-> t.size, lists |-> t.lists]
  BY TableFields DEF Sound
<1>2. j \in Buckets(t) /\ j \in 0 .. t.size - 1
  BY <1>1, HashInTable DEF Buckets
<1>3. u = [t EXCEPT !.lists = lists, !.count = t.count + 1]
  BY <1>1 DEF Inserted, Bucket
<1>4. \A e \in Stored(t) : Key[e] # Key[d]
  BY AbsentMeans DEF Sound
<1> HIDE DEF j
<1>5. /\ t.lists[j] \in Seq(Data) /\ l \in Seq(Data) /\ Len(t.lists[j]) \in Nat
      /\ Len(l) = Len(t.lists[j]) + 1 /\ l[Len(t.lists[j]) + 1] = d
      /\ \A k \in 1 .. Len(t.lists[j]) : l[k] = t.lists[j][k]
  BY <1>1, <1>2
<1> HIDE DEF l
<1>6. lists \in [0 .. t.size - 1 -> Seq(Data)]
      /\ \A i \in 0 .. t.size - 1 : lists[i] = IF i = j THEN l ELSE t.lists[i]
  BY <1>1, <1>2, <1>5
<1>7. /\ u.size = t.size /\ u.initial = t.initial /\ u.lists = lists /\ u.count = t.count + 1
      /\ u = [initial |-> t.initial, count |-> t.count + 1, size |-> t.size, lists |-> lists]
  BY <1>1, <1>3
<1> HIDE DEF lists
<1>8. IsTable(u) /\ Buckets(u) = Buckets(t)
  BY <1>1, <1>6, <1>7 DEF IsTable, Tables, Buckets
<1>9. ASSUME NEW i \in Buckets(t)
      PROVE  u.lists[i] = IF i = j THEN l ELSE t.lists[i]
  BY <1>6, <1>7 DEF Buckets
<1>10. DOMAIN l = 1 .. Len(t.lists[j]) + 1 /\ DOMAIN t.lists[j] = 1 .. Len(t.lists[j])
  BY <1>5
<1>11. Range(l) = Range(t.lists[j]) \cup {d}
  BY <1>5, <1>10 DEF Range
<1>12. Stored(u) = Stored(t) \cup {d}
  <2>1. ASSUME NEW e \in Stored(u) PROVE e \in Stored(t) \cup {d}
    <3>1. PICK i \in Buckets(t) : e \in Range(u.lists[i])
      BY <1>8, <2>1 DEF Stored
    <3> QED
      BY <1>9, <1>11, <3>1 DEF Stored
  <2>2. ASSUME NEW e \in Stored(t) PROVE e \in Stored(u)
    <3>1. PICK i \in Buckets(t) : e \in Range(t.lists[i])
      BY <2>2 DEF Stored
    <3>2. e \in Range(u.lists[i])
      BY <1>9, <1>11, <3>1
    <3> QED
      BY <1>8, <3>2 DEF Stored
  <2>3. d \in Stored(u)
    BY <1>2, <1>8, <1>9, <1>11 DEF Stored
  <2> QED
    BY <2>1, <2>2, <2>3
<1>13. Placed(u)
  <2>1. ASSUME NEW i \in Buckets(t), NEW k \in DOMAIN u.lists[i] PROVE Hash[u.lists[i][k]] % t.size = i
    <3>1. CASE i # j
      BY <1>9, <2>1, <3>1 DEF Sound, Placed
    <3>2. CASE i = j /\ k = Len(t.lists[j]) + 1
      BY <1>5, <1>9, <3>2 DEF j
    <3>3. CASE i = j /\ k # Len(t.lists[j]) + 1
      <4>1. k \in DOMAIN t.lists[j] /\ u.lists[i][k] = t.lists[j][k]
        BY <1>5, <1>9, <1>10, <2>1, <3>3
      <4> QED
        BY <1>2, <3>3, <4>1 DEF Sound, Placed
    <3> QED
      BY <3>1, <3>2, <3>3
  <2> QED
    BY <1>7, <1>8, <2>1 DEF Placed
<1>14. Unique(u)
  <2>1. ASSUME NEW i \in Buckets(t), NEW k \in DOMAIN u.lists[i], NEW m \in DOMAIN u.lists[i],
               Key[u.lists[i][k]] = Key[u.lists[i][m]]
        PROVE  k = m
    <3>1. CASE i # j
      BY <1>9, <2>1, <3>1 DEF Sound, Unique
    <3>2. CASE i = j
      <4>1. u.lists[i] = l /\ k \in DOMAIN l /\ m \in DOMAIN l
        BY <1>9, <2>1, <3>2
      <4>2. ASSUME NEW x \in DOMAIN l, x # Len(t.lists[j]) + 1
            PROVE  /\ x \in DOMAIN t.lists[j] /\ l[x] = t.lists[j][x]
                   /\ Key[l[x]] # Key[d]
        <5>1. x \in DOMAIN t.lists[j] /\ l[x] = t.lists[j][x]
          BY <1>5, <1>10, <4>2
        <5>2. l[x] \in Stored(t)
          BY <1>2, <5>1, InStored
        <5> QED
          BY <1>4, <5>1, <5>2
      <4>3. CASE k # Len(t.lists[j]) + 1 /\ m # Len(t.lists[j]) + 1
        BY <1>2, <2>1, <4>1, <4>2, <4>3 DEF Sound, Unique
      <4>4. CASE k = Len(t.lists[j]) + 1 /\ m # Len(t.lists[j]) + 1
        BY <1>5, <2>1, <4>1, <4>2, <4>4
      <4>5. CASE k # Len(t.lists[j]) + 1 /\ m = Len(t.lists[j]) + 1
        BY <1>5, <2>1, <4>1, <4>2, <4>5
      <4> QED
        BY <4>3, <4>4, <4>5
    <3> QED
      BY <3>1, <3>2
  <2> QED
    BY <1>8, <2>1 DEF Unique
<1>15. Counted(u)
  <2>1. t.count = Len(Items(t)) /\ IsFiniteSet(Stored(t)) /\ t.count = Cardinality(Stored(t))
    BY DEF Sound, Counted
  <2>2. u.count = Len(Items(u))
    <3>0. PICK c \in Int : c = 1
      OBVIOUS
    <3>1. LongerBy(c, t.lists[j], l) /\ l \in Seq(Data) /\ u.size = t.size
      BY <1>5, <1>7, <3>0 DEF LongerBy
    <3>2. u.lists = [t.lists EXCEPT ![j] = l]
      BY <1>7 DEF lists
    <3>3. LongerBy(c, Items(t), Items(u))
      BY <1>1, <1>2, <3>1, <3>2, ItemsShift
    <3> QED
      BY <1>7, <2>1, <3>0, <3>3 DEF LongerBy
  <2>3. d \notin Stored(t)
    BY <1>4
  <2>4. IsFiniteSet(Stored(t) \cup {d}) /\ Cardinality(Stored(t) \cup {d}) = t.count + 1
    BY <2>1, <2>3, FS_AddElement
  <2> QED
    BY <1>7, <1>12, <2>2, <2>4 DEF Counted
<1> QED
  BY <1>7, <1>8, <1>12, <1>13, <1>14, <1>15 DEF Sound, Becomes

LEMMA RemoveAtIs ==
  ASSUME NEW D, NEW l \in Seq(D), NEW k \in 1 .. Len(l), NEW r, r = RemoveAt(l, k)
  PROVE  /\ r \in Seq(D) /\ Len(l) \in Nat /\ Len(r) = Len(l) - 1
         /\ \A m \in 1 .. Len(l) - 1 : r[m] = IF m < k THEN l[m] ELSE l[m + 1]
<1> DEFINE a == SubSeq(l, 1, k - 1)
           b == SubSeq(l, k + 1, Len(l))
<1>1. r = a \o b
  BY DEF RemoveAt
<1>2. /\ a \in Seq(D) /\ Len(a) = k - 1 /\ \A m \in 1 .. k - 1 : a[m] = l[m]
      /\ Len(l) \in Nat
  OBVIOUS
<1>3. b \in Seq(D) /\ Len(b) = Len(l) - k /\ \A m \in 1 .. Len(l) - k : b[m] = l[k + m]
  OBVIOUS
<1> HIDE DEF a, b
<1>4. r \in Seq(D) /\ Len(r) = Len(l) - 1
  BY <1>1, <1>2, <1>3
<1>5. ASSUME NEW m \in 1 .. Len(l) - 1 PROVE r[m] = IF m < k THEN l[m] ELSE l[m + 1]
  <2>1. CASE m < k
    <3>1. m \in 1 .. Len(a) /\ m \in 1 .. k - 1
      BY <1>2, <2>1
    <3> QED
      BY <1>1, <1>2, <1>3, <2>1, <3>1
  <2>2. CASE ~(m < k)
    <3>1. m - (k - 1) \in 1 .. Len(l) - k /\ k + (m - (k - 1)) = m + 1
      BY <1>2, <2>2
    <3>2. r[m] = b[m - Len(a)]
      BY <1>1, <1>2, <1>3, <2>2
    <3> QED
      BY <1>2, <1>3, <2>2, <3>1, <3>2
  <2> QED
    BY <2>1, <2>2
<1> QED
  BY <1>2, <1>4, <1>5

LEMMA RemovedOK ==
  ASSUME NEW t, Sound(t), NEW j \in Buckets(t), NEW x \in DOMAIN t.lists[j],
         NEW d, d = t.lists[j][x], NEW u, u = Removed(t, [idx |-> j, itr |-> x])
  PROVE  Becomes(t, u, Stored(t) \ {d})
<1> DEFINE l == RemoveAt(t.lists[j], x)
           n == Len(t.lists[j])
           lists == [t.lists EXCEPT ![j] = l]
           from(k) == IF k < x THEN k ELSE k + 1
<1>1. /\ t.size \in Nat /\ t.size \in Sizes /\ t.count \in Nat /\ t.initial \in Initials \cup {0}
      /\ t.lists \in [0 .. t.size - 1 -> Seq(Data)]
      /\ t = [initial |-> t.initial, count |-> t.count, size |-> t.size, lists |-> t.lists]
  BY TableFields DEF Sound
<1>2. j \in 0 .. t.size - 1 /\ t.lists[j] \in Seq(Data) /\ n \in Nat /\ DOMAIN t.lists[j] = 1 .. n
  BY <1>1 DEF Buckets
<1>3. u = [t EXCEPT !.lists = lists, !.count = t.count - 1]
  BY <1>1 DEF Removed
<1>4. l \in Seq(Data) /\ Len(l) = n - 1 /\ \A m \in 1 .. n - 1 : l[m] = IF m < x THEN t.lists[j][m] ELSE t.lists[j][m + 1]
  <2>1. PICK s : s = t.lists[j]
    OBVIOUS
  <2>2. s \in Seq(Data) /\ x \in 1 .. Len(s) /\ l = RemoveAt(s, x)
    BY <1>2, <2>1
  <2> HIDE DEF l
  <2>3. /\ l \in Seq(Data) /\ Len(l) = Len(s) - 1
        /\ \A m \in 1 .. Len(s) - 1 : l[m] = IF m < x THEN s[m] ELSE s[m + 1]
    BY <2>2, RemoveAtIs
  <2> QED
    BY <2>1, <2>3
<1>5. DOMAIN l = 1 .. n - 1
  BY <1>4
<1> HIDE DEF l
<1>6. ASSUME NEW m \in DOMAIN l PROVE from(m) \in DOMAIN t.lists[j] /\ from(m) # x /\ l[m] = t.lists[j][from(m)]
  BY <1>2, <1>4, <1>5
<1>7. ASSUME NEW k \in DOMAIN t.lists[j], k # x PROVE \E m \in DOMAIN l : l[m] = t.lists[j][k]
  <2>1. CASE k < x
    <3>1. k \in DOMAIN l /\ l[k] = t.lists[j][k]
      BY <1>2, <1>4, <1>5, <2>1
    <3> QED
      BY <3>1
  <2>2. CASE k > x
    <3>1. k - 1 \in DOMAIN l /\ l[k - 1] = t.lists[j][k]
      BY <1>2, <1>4, <1>5, <2>2
    <3> QED
      BY <3>1
  <2> QED
    BY <1>2, <1>7, <2>1, <2>2
<1>8. lists \in [0 .. t.size - 1 -> Seq(Data)]
      /\ \A i \in 0 .. t.size - 1 : lists[i] = IF i = j THEN l ELSE t.lists[i]
  BY <1>1, <1>2, <1>4
<1>9. d \in Stored(t)
  BY InStored
<1>10. /\ t.count = Len(Items(t)) /\ IsFiniteSet(Stored(t)) /\ t.count = Cardinality(Stored(t))
       /\ IsFiniteSet(Stored(t) \ {d}) /\ Cardinality(Stored(t) \ {d}) = t.count - 1
       /\ t.count - 1 \in Nat
  <2>1. t.count = Len(Items(t)) /\ IsFiniteSet(Stored(t)) /\ t.count = Cardinality(Stored(t))
    BY DEF Sound, Counted
  <2>2. IsFiniteSet(Stored(t) \ {d}) /\ Cardinality(Stored(t) \ {d}) = t.count - 1
    BY <1>9, <2>1, FS_RemoveElement
  <2>3. Cardinality(Stored(t) \ {d}) \in Nat
    BY <2>2, FS_CardinalityType
  <2> QED
    BY <2>1, <2>2, <2>3
<1>11. /\ u.size = t.size /\ u.initial = t.initial /\ u.lists = lists /\ u.count = t.count - 1
       /\ u = [initial |-> t.initial, count |-> t.count - 1, size |-> t.size, lists |-> lists]
  BY <1>1, <1>3
<1> HIDE DEF lists
<1>12. IsTable(u) /\ Buckets(u) = Buckets(t)
  BY <1>1, <1>8, <1>10, <1>11 DEF IsTable, Tables, Buckets
<1>13. ASSUME NEW i \in Buckets(t) PROVE u.lists[i] = IF i = j THEN l ELSE t.lists[i]
  BY <1>8, <1>11 DEF Buckets
<1> HIDE DEF from
<1>14. Placed(u)
  <2>1. ASSUME NEW i \in Buckets(t), NEW k \in DOMAIN u.lists[i] PROVE Hash[u.lists[i][k]] % t.size = i
    <3>1. CASE i # j
      BY <1>13, <2>1, <3>1 DEF Sound, Placed
    <3>2. CASE i = j
      <4>1. k \in DOMAIN l /\ u.lists[i] = l
        BY <1>13, <2>1, <3>2
      <4> QED
        BY <1>6, <3>2, <4>1 DEF Sound, Placed
    <3> QED
      BY <3>1, <3>2
  <2> QED
    BY <1>11, <1>12, <2>1 DEF Placed
<1>15. Unique(u)
  <2>1. ASSUME NEW i \in Buckets(t), NEW k \in DOMAIN u.lists[i], NEW m \in DOMAIN u.lists[i],
               Key[u.lists[i][k]] = Key[u.lists[i][m]]
        PROVE  k = m
    <3>1. CASE i # j
      BY <1>13, <2>1, <3>1 DEF Sound, Unique
    <3>2. CASE i = j
      <4>1. u.lists[i] = l /\ k \in DOMAIN l /\ m \in DOMAIN l
        BY <1>13, <2>1, <3>2
      <4>2. from(k) = from(m)
        BY <1>6, <2>1, <4>1 DEF Sound, Unique
      <4> QED
        <5>1. k \in Int /\ m \in Int /\ x \in Int
          BY <1>2, <1>5, <4>1
        <5>2. (IF k < x THEN k ELSE k + 1) = (IF m < x THEN m ELSE m + 1)
          BY <4>2 DEF from
        <5> QED
          BY <5>1, <5>2
    <3> QED
      BY <3>1, <3>2
  <2> QED
    BY <1>12, <2>1 DEF Unique
<1>16. Stored(u) = Stored(t) \ {d}
  <2>1. ASSUME NEW e \in Stored(u) PROVE e \in Stored(t) /\ e # d
    <3>1. PICK i \in Buckets(t) : \E k \in DOMAIN u.lists[i] : u.lists[i][k] = e
      BY <1>12, InStored
    <3>2. PICK k \in DOMAIN u.lists[i] : u.lists[i][k] = e
      BY <3>1
    <3>3. CASE i # j
      <4>1. k \in DOMAIN t.lists[i] /\ t.lists[i][k] = e
        BY <1>13, <3>2, <3>3
      <4>2. Hash[e] % t.size = i /\ Hash[d] % t.size = j
        BY <4>1 DEF Sound, Placed
      <4> QED
        BY <3>3, <4>1, <4>2, InStored
    <3>4. CASE i = j
      <4>1. k \in DOMAIN l /\ l[k] = e
        BY <1>13, <3>2, <3>4
      <4>2. from(k) \in DOMAIN t.lists[j] /\ t.lists[j][from(k)] = e /\ from(k) # x
        BY <1>6, <4>1
      <4>3. e # d
        BY <4>2 DEF Sound, Unique
      <4> QED
        BY <4>2, <4>3, InStored
    <3> QED
      BY <3>3, <3>4
  <2>2. ASSUME NEW e \in Stored(t), e # d PROVE e \in Stored(u)
    <3>1. PICK i \in Buckets(t) : \E k \in DOMAIN t.lists[i] : t.lists[i][k] = e
      BY InStored
    <3>2. PICK k \in DOMAIN t.lists[i] : t.lists[i][k] = e
      BY <3>1
    <3>3. \E m \in DOMAIN u.lists[i] : u.lists[i][m] = e
      <4>1. CASE i # j
        BY <1>13, <3>2, <4>1
      <4>2. CASE i = j
        BY <1>7, <1>13, <2>2, <3>2, <4>2
      <4> QED
        BY <4>1, <4>2
    <3> QED
      BY <1>12, <3>3, InStored
  <2> QED
    BY <2>1, <2>2
<1>17. Counted(u)
  <2>1. u.count = Len(Items(u))
    <3>0. PICK c \in Int : c = -1
      OBVIOUS
    <3>1. LongerBy(c, t.lists[j], l) /\ l \in Seq(Data) /\ u.size = t.size
      BY <1>2, <1>4, <1>11, <3>0 DEF LongerBy
    <3>2. u.lists = [t.lists EXCEPT ![j] = l]
      BY <1>11 DEF lists
    <3>3. LongerBy(c, Items(t), Items(u))
      BY <1>1, <3>1, <3>2, ItemsShift
    <3> QED
      BY <1>1, <1>10, <1>11, <3>0, <3>3 DEF LongerBy
  <2> QED
    BY <1>10, <1>11, <1>16, <2>1 DEF Counted
<1> QED
  BY <1>11, <1>12, <1>14, <1>15, <1>16, <1>17 DEF Sound, Becomes

-----------------------------------------------------------------------------
(* Growing.                                                                *)

(* into is the recursive function of Rehashed. *)
Moves(into, t, items, lost) ==
  /\ into[0] = t
  /\ \A n \in 1 .. Len(items) :
       into[n] = IF items[n] \in lost \/ ~Absent(into[n - 1], items[n]) THEN into[n - 1]
                 ELSE Inserted(into[n - 1], items[n])
  /\ Rehashed(t, items, lost) = into[Len(items)]

LEMMA RehashedIs ==
  ASSUME NEW t, IsTable(t), t.size > 0, NEW items \in Seq(Data), NEW lost
  PROVE  \E into : Moves(into, t, items, lost)
<1> DEFINE N == Len(items)
           T == Tables(t.size)
           Step(n, u) == IF items[n] \in lost \/ ~Absent(u, items[n]) THEN u ELSE Inserted(u, items[n])
           g == [p \in (1 .. N) \X T |-> Step(p[1], p[2])]
           G(f) == [n \in 0 .. N |-> IF n = 0 THEN t ELSE Step(n, f[n - 1])]
           into == CHOOSE f : f = G(f)
<1>1. N \in Nat /\ t \in T /\ t.size \in Nat
  BY TableFields DEF IsTable
<1>2. ASSUME NEW n \in 1 .. N, NEW u \in T PROVE Step(n, u) \in T
  <2>1. items[n] \in Data
    OBVIOUS
  <2>2. u.size = t.size /\ u.lists \in [0 .. t.size - 1 -> Seq(Data)] /\ u.count \in Nat
    BY DEF Tables
  <2>3. Hash[items[n]] % u.size \in 0 .. t.size - 1
    BY <1>1, <2>1, <2>2, HashInTable DEF Buckets
  <2>4. Inserted(u, items[n]) \in T
    <3> DEFINE j == Hash[items[n]] % u.size
               l == Append(u.lists[j], items[n])
    <3>1. l \in Seq(Data)
      <4> HIDE DEF j
      <4>1. u.lists[j] \in Seq(Data)
        BY <2>2, <2>3 DEF j
      <4> QED
        BY <2>1, <4>1
    <3>2. Inserted(u, items[n]) = [u EXCEPT !.lists = [u.lists EXCEPT ![j] = l], !.count = u.count + 1]
      BY DEF Inserted, Bucket, Tables
    <3> HIDE DEF l, j
    <3>3. [u.lists EXCEPT ![j] = l] \in [0 .. t.size - 1 -> Seq(Data)]
      BY <2>2, <3>1
    <3> DEFINE lists == [u.lists EXCEPT ![j] = l]
    <3>4. /\ u = [initial |-> u.initial, count |-> u.count, size |-> u.size, lists |-> u.lists]
          /\ u.initial \in Initials \cup {0} /\ u.size \in {t.size}
      BY DEF Tables
    <3> HIDE DEF lists
    <3>5. Inserted(u, items[n]) = [initial |-> u.initial, count |-> u.count + 1, size |-> u.size, lists |-> lists]
      BY <3>2, <3>4 DEF lists
    <3>6. lists \in [0 .. t.size - 1 -> Seq(Data)] /\ u.count + 1 \in Nat
      BY <2>2, <3>3 DEF lists
    <3> QED
      BY <3>4, <3>5, <3>6 DEF Tables
  <2> QED
    BY <2>4
<1> HIDE DEF T, Step
<1>3. g \in [(1 .. N) \X T -> T]
  BY <1>2
<1>4. PICK f \in [0 .. N -> T] : Steps(f, N, t, g)
  <2> HIDE DEF g, N
  <2> QED
    BY <1>1, <1>3, Recursion
<1>5. f = G(f)
  <2>1. ASSUME NEW n \in 0 .. N PROVE f[n] = IF n = 0 THEN t ELSE Step(n, f[n - 1])
    <3>1. CASE n = 0
      BY <1>4, <3>1 DEF Steps
    <3>2. CASE n # 0
      <4>1. n \in 1 .. N /\ f[n - 1] \in T
        BY <1>1, <3>2
      <4>2. f[n] = g[<<n, f[n - 1]>>]
        BY <1>4, <4>1 DEF Steps
      <4> QED
        BY <3>2, <4>1, <4>2
    <3> QED
      BY <3>1, <3>2
  <2>2. f = [n \in 0 .. N |-> f[n]]
    OBVIOUS
  <2> QED
    BY <2>1, <2>2
<1>6. into = G(into)
  <2> HIDE DEF G
  <2> QED
    BY <1>5
<1>7. Rehashed(t, items, lost) = into[N]
  BY DEF Rehashed, Step
<1> HIDE DEF into
<1>8. \A n \in 0 .. N : into[n] = IF n = 0 THEN t ELSE Step(n, into[n - 1])
  BY <1>6
<1>9. into[0] = t /\ \A n \in 1 .. N : into[n] = Step(n, into[n - 1])
  <2>1. into[0] = t
    BY <1>1, <1>8
  <2>2. ASSUME NEW n \in 1 .. N PROVE into[n] = Step(n, into[n - 1])
    <3>1. n \in 0 .. N /\ n # 0
      BY <1>1
    <3> QED
      BY <1>8, <3>1
  <2> QED
    BY <2>1, <2>2
<1> QED
  BY <1>7, <1>9 DEF Moves, Step

(* What is in the table after the first n items. *)
MovedTo(into, t, items, lost, n) ==
  Becomes(t, into[n], {items[m] : m \in 1 .. n} \ lost)

OneOfEach(S) == \A a, b \in S : Key[a] = Key[b] => a = b

LEMMA RehashedOK ==
  ASSUME NEW t, Sound(t), t.size > 0, Stored(t) = {},
         NEW items \in Seq(Data), OneOfEach(Range(items)), NEW lost, NEW r, r = Rehashed(t, items, lost)
  PROVE  Becomes(t, r, Range(items) \ lost)
<1> DEFINE N == Len(items)
<1>1. PICK into : Moves(into, t, items, lost)
  BY RehashedIs DEF Sound
<1> DEFINE S == {n \in 0 .. N : MovedTo(into, t, items, lost, n)}
<1>2. N \in Nat /\ DOMAIN items = 1 .. N
  OBVIOUS
<1>3. 0 \in S
  <2>1. into[0] = t /\ {items[m] : m \in 1 .. 0} \ lost = {}
    BY <1>1 DEF Moves
  <2> QED
    BY <1>2, <2>1 DEF MovedTo, Becomes
<1>4. ASSUME NEW k \in 0 .. N - 1, k \in S PROVE k + 1 \in S
  <2> DEFINE u == into[k]
             d == items[k + 1]
             A == {items[m] : m \in 1 .. k} \ lost
             B == {items[m] : m \in 1 .. k + 1} \ lost
  <2>1. k + 1 \in 1 .. N /\ k + 1 \in 0 .. N /\ (k + 1) - 1 = k /\ k \in Nat
    BY <1>2
  <2>2. into[k + 1] = IF d \in lost \/ ~Absent(u, d) THEN u ELSE Inserted(u, d)
    <3>1. \A n \in 1 .. N : into[n] = IF items[n] \in lost \/ ~Absent(into[n - 1], items[n]) THEN into[n - 1]
                                      ELSE Inserted(into[n - 1], items[n])
      BY <1>1 DEF Moves
    <3>2. PICK n \in 1 .. N : n = k + 1
      BY <2>1
    <3>3. n - 1 = k
      BY <2>1, <3>2
    <3> QED
      BY <3>1, <3>2, <3>3
  <2>3. Becomes(t, u, A)
    BY <1>4 DEF MovedTo
  <2>4. d \in Data /\ d \in Range(items)
    BY <1>2, <2>1 DEF Range
  <2>5. \A m \in 1 .. k : items[m] \in Range(items)
    BY <1>2, <2>1 DEF Range
  <2>6. B = A \cup ({d} \ lost)
    BY <2>1
  <2> HIDE DEF u, d, A, B
  <2>7. A \subseteq Range(items)
    BY <2>5 DEF A
  <2>8. Becomes(t, into[k + 1], B)
    <3>1. CASE d \in lost
      BY <2>2, <2>3, <2>6, <3>1
    <3>2. CASE d \notin lost /\ ~Absent(u, d)
      <4>1. PICK e \in A : Key[e] = Key[d]
        BY <2>3, <2>4, <3>2, AbsentMeans DEF Becomes, Sound
      <4>2. e = d
        BY <2>4, <2>7, <4>1 DEF OneOfEach
      <4>3. B = A
        BY <2>6, <3>2, <4>1, <4>2
      <4> QED
        BY <2>2, <2>3, <3>2, <4>3
    <3>3. CASE d \notin lost /\ Absent(u, d)
      <4>1. into[k + 1] = Inserted(u, d)
        BY <2>2, <3>3
      <4>2. Sound(u) /\ u.size > 0 /\ Stored(u) = A
        BY <2>3 DEF Becomes
      <4>3. Becomes(u, into[k + 1], Stored(u) \cup {d})
        BY <2>4, <3>3, <4>1, <4>2, InsertedOK
      <4>4. Stored(u) \cup {d} = B
        BY <2>6, <3>3, <4>2
      <4> QED
        BY <2>3, <4>3, <4>4 DEF Becomes
    <3> QED
      BY <3>1, <3>2, <3>3
  <2> QED
    BY <2>1, <2>8 DEF MovedTo, B
<1>5. 0 .. N \subseteq S
  <2> HIDE DEF S, N
  <2> QED
    BY <1>2, <1>3, <1>4, SetInduction
<1>6. MovedTo(into, t, items, lost, N)
  BY <1>2, <1>5
<1>7. Range(items) = {items[m] : m \in 1 .. N}
  BY <1>2 DEF Range
<1>8. r = into[N]
  BY <1>1 DEF Moves
<1> QED
  BY <1>6, <1>7, <1>8 DEF MovedTo

LEMMA EmptyOK ==
  ASSUME NEW n \in Sizes, NEW i0 \in Initials \cup {0}, NEW t,
         t = [initial |-> i0, count |-> 0, size |-> n, lists |-> [i \in 0 .. n - 1 |-> <<>>]]
  PROVE  Sound(t) /\ Stored(t) = {} /\ t.size = n /\ t.initial = i0
<1>1. n \in Nat
  BY SizesNaturals
<1>2. t.size = n /\ t.initial = i0 /\ t.count = 0 /\ t.lists = [i \in 0 .. n - 1 |-> <<>>]
  OBVIOUS
<1>3. \A i \in 0 .. n - 1 : t.lists[i] = <<>>
  BY <1>2
<1>4. t.lists \in [0 .. n - 1 -> Seq(Data)]
  BY <1>2
<1>5. IsTable(t)
  BY <1>2, <1>4 DEF IsTable, Tables
<1>6. \A i \in Buckets(t) : t.lists[i] = <<>> /\ DOMAIN t.lists[i] = {}
  BY <1>2, <1>3 DEF Buckets
<1>7. Placed(t) /\ Unique(t)
  BY <1>6 DEF Placed, Unique
<1>8. Stored(t) = {}
  <2>1. ASSUME NEW e \in Stored(t) PROVE FALSE
    BY <1>6, <2>1, InStored
  <2> QED
    BY <2>1
<1>9. Len(Items(t)) = 0
  <2>1. Items(t) \in Seq(Data) /\ Range(Items(t)) = {}
    BY <1>1, <1>2, <1>4, <1>8, ItemsAreStored
  <2>2. PICK s \in Seq(Data) : s = Items(t)
    BY <2>1
  <2>3. \A m \in DOMAIN s : s[m] \in Range(s)
    BY DEF Range
  <2>4. Range(s) = {} /\ DOMAIN s = 1 .. Len(s) /\ Len(s) \in Nat
    <3>1. Range(s) = {}
      BY <2>1, <2>2, Zenon
    <3>2. DOMAIN s = 1 .. Len(s) /\ Len(s) \in Nat
      OBVIOUS
    <3> QED
      BY <3>1, <3>2
  <2>5. 1 \notin 1 .. Len(s)
    BY <2>3, <2>4
  <2>6. Len(s) = 0
    BY <2>4, <2>5
  <2> QED
    BY <2>2, <2>6
<1>10. IsFiniteSet({}) /\ Cardinality({}) = 0
  BY FS_EmptySet
<1>11. Counted(t)
  BY <1>2, <1>8, <1>9, <1>10 DEF Counted
<1> QED
  BY <1>2, <1>5, <1>7, <1>8, <1>11 DEF Sound

LEMMA ZeroedOK == Sound(Zeroed) /\ Stored(Zeroed) = {} /\ Zeroed.size = 0 /\ Zeroed.count = 0
<1>1. [i \in 0 .. 0 - 1 |-> <<>>] = <<>>
  OBVIOUS
<1>2. Zeroed = [initial |-> 0, count |-> 0, size |-> 0, lists |-> [i \in 0 .. 0 - 1 |-> <<>>]]
  BY <1>1 DEF Zeroed
<1> QED
  BY <1>2, EmptyOK DEF Sizes, Zeroed

(* A size that ht_get_new_size finds for count. *)
Fits(n, count) == n \in Range(PRIMES) /\ (count <= LIMIT * n \/ n = Last(PRIMES))

LEMMA NewSizeOK ==
  ASSUME NEW count \in Nat
  PROVE  Fits(ht_get_new_size(count), count)
<1> DEFINE fits == {i \in DOMAIN PRIMES : count <= LIMIT * PRIMES[i]}
<1>1. /\ PRIMES \in Seq(Nat \ {0}) /\ Len(PRIMES) \in Nat /\ DOMAIN PRIMES = 1 .. Len(PRIMES)
      /\ PRIMES # <<>> /\ Len(PRIMES) # 0
  BY PrimesAssumption
<1>2. Last(PRIMES) \in Range(PRIMES)
  BY <1>1 DEF Last, Range
<1>3. CASE fits = {}
  BY <1>2, <1>3 DEF Fits, ht_get_new_size
<1>4. CASE fits # {}
  <2>1. fits \in SUBSET Nat
    BY <1>1
  <2>2. PICK x \in fits : \A y \in fits : x <= y
    BY <1>4, <2>1, LeastElement
  <2>3. Min(fits) \in fits
    <3> HIDE DEF fits
    <3> QED
      BY <2>2 DEF Min
  <2>4. ht_get_new_size(count) = PRIMES[Min(fits)]
    BY <1>4 DEF ht_get_new_size
  <2>5. count <= LIMIT * PRIMES[Min(fits)] /\ PRIMES[Min(fits)] \in Range(PRIMES)
    BY <2>3 DEF Range
  <2> QED
    BY <2>4, <2>5 DEF Fits
<1> QED
  BY <1>3, <1>4

LEMMA GrownOK ==
  ASSUME NEW t, Sound(t), NEW lost, NEW r, r = ht_grow(t, lost)
  PROVE  /\ Sound(r) /\ Stored(r) = Stored(t) \ lost /\ r.initial = t.initial
         /\ Fits(r.size, IF t.count > 0 THEN t.count ELSE t.initial)
<1> DEFINE c == IF t.count > 0 THEN t.count ELSE t.initial
           n == ht_get_new_size(c)
           lists == [i \in 0 .. n - 1 |-> <<>>]
           empty == [t EXCEPT !.size = n, !.count = 0, !.lists = lists]
<1>1. /\ t.size \in Nat /\ t.count \in Nat /\ t.initial \in Initials \cup {0} /\ t.initial \in Nat
      /\ t.lists \in [0 .. t.size - 1 -> Seq(Data)]
      /\ t = [initial |-> t.initial, count |-> t.count, size |-> t.size, lists |-> t.lists]
  BY TableFields, LimitAssumption DEF Sound
<1>2. c \in Nat
  BY <1>1
<1>3. r = Rehashed(empty, Items(t), lost)
  BY DEF ht_grow
<1> HIDE DEF c
<1>4. Fits(n, c)
  BY <1>2, NewSizeOK
<1>5. n \in Sizes /\ n \in Nat /\ n > 0
  BY <1>4, SizesNaturals DEF Fits, Sizes
<1> HIDE DEF n
<1>6. empty = [initial |-> t.initial, count |-> 0, size |-> n, lists |-> [i \in 0 .. n - 1 |-> <<>>]]
  <2> HIDE DEF lists
  <2>1. PICK i0 : i0 = t.initial
    OBVIOUS
  <2>2. PICK t1 : t1 = [t EXCEPT !.size = n]
    OBVIOUS
  <2>3. t1 = [initial |-> i0, count |-> t.count, size |-> n, lists |-> t.lists]
    BY <1>1, <2>1, <2>2
  <2>4. [t1 EXCEPT !.count = 0] = [initial |-> i0, count |-> 0, size |-> n, lists |-> t.lists]
    BY <2>3
  <2>5. empty = [[t1 EXCEPT !.count = 0] EXCEPT !.lists = lists]
    BY <2>2
  <2> HIDE DEF empty
  <2>6. empty = [initial |-> i0, count |-> 0, size |-> n, lists |-> lists]
    BY <2>4, <2>5
  <2> QED
    BY <2>1, <2>6 DEF lists
<1> HIDE DEF empty
<1>7. Sound(empty) /\ Stored(empty) = {} /\ empty.size = n /\ empty.initial = t.initial
  BY <1>1, <1>5, <1>6, EmptyOK
<1>8. Items(t) \in Seq(Data) /\ Range(Items(t)) = Stored(t)
  BY <1>1, ItemsAreStored
<1>9. OneOfEach(Range(Items(t)))
  BY <1>8, KeysDiffer DEF OneOfEach, Sound
<1>10. Becomes(empty, r, Range(Items(t)) \ lost)
  BY <1>3, <1>5, <1>7, <1>8, <1>9, RehashedOK
<1> QED
  BY <1>4, <1>7, <1>8, <1>10 DEF Becomes, c

-----------------------------------------------------------------------------
(* The inductive invariant.                                                *)

IInv == /\ live \in BOOLEAN /\ Sound(ht)
        /\ ht.count <= (LIMIT + 1) * ht.size
        /\ live = FALSE => Stored(ht) = {}

LEMMA Multiples ==
  ASSUME NEW L \in Nat, NEW a \in Nat, NEW b \in Nat, a < b
  PROVE  (L + 1) * a + 1 <= (L + 1) * b
<1>1. PICK c \in Nat : b = a + 1 + c
  <2>1. b - a - 1 \in Nat /\ b = a + 1 + (b - a - 1)
    OBVIOUS
  <2> QED
    BY <2>1
<1>2. (L + 1) * b = (L + 1) * a + (L + 1) + (L + 1) * c
  BY <1>1
<1>3. (L + 1) * c \in Nat /\ (L + 1) * a \in Nat
  OBVIOUS
<1> QED
  BY <1>2, <1>3

LEMMA Share ==
  ASSUME NEW c \in Nat, NEW n \in Nat \ {0}, NEW L \in Nat, ~(c \div n > L)
  PROVE  c + 1 <= (L + 1) * n
<1> DEFINE q == c \div n
<1>1. q \in Int /\ c < n * (q + 1)
  OBVIOUS
<1> HIDE DEF q
<1>2. q <= L
  BY <1>1 DEF q
<1>3. n * (q + 1) <= n * (L + 1)
  <2>1. PICK m \in Nat : L = q + m
    <3>1. L - q \in Nat /\ L = q + (L - q)
      BY <1>1, <1>2
    <3> QED
      BY <3>1
  <2>2. n * (L + 1) = n * (q + 1) + n * m /\ n * m \in Nat /\ n * (q + 1) \in Int
    BY <1>1, <2>1
  <2> QED
    BY <2>2
<1> QED
  BY <1>1, <1>3

(* After ht_grow there is room for one more item. *)
LEMMA GrownHasRoom ==
  ASSUME NEW t, Sound(t), t.size > 0, t.count <= (LIMIT + 1) * t.size,
         NotFull(t), Full(t), NEW lost, NEW r, r = ht_grow(t, lost)
  PROVE  r.count + 1 <= (LIMIT + 1) * r.size
<1>1. /\ Sound(r) /\ Stored(r) = Stored(t) \ lost
      /\ Fits(r.size, IF t.count > 0 THEN t.count ELSE t.initial)
  BY GrownOK
<1>2. /\ t.size \in Nat /\ t.size \in Sizes /\ t.count \in Nat /\ LIMIT \in Nat
      /\ r.size \in Nat \ {0} /\ r.count \in Nat
  BY <1>1, TableFields, SizesNaturals, LimitAssumption DEF Sound, Fits
<1>3. r.count <= t.count
  <2>1. IsFiniteSet(Stored(t)) /\ t.count = Cardinality(Stored(t)) /\ r.count = Cardinality(Stored(r))
    BY <1>1 DEF Sound, Counted
  <2> QED
    BY <1>1, <2>1, FS_Subset
<1>4. t.count > 0
  <2>1. CASE t.count = 0
    <3>1. 0 \div t.size = 0
      BY <1>2
    <3> QED
      BY <1>2, <2>1, <3>1 DEF Full
  <2> QED
    BY <1>2, <2>1
<1>5. CASE t.count <= LIMIT * r.size
  <2>1. (LIMIT + 1) * r.size = LIMIT * r.size + r.size /\ LIMIT * r.size \in Nat
    BY <1>2
  <2> QED
    BY <1>2, <1>3, <1>5, <2>1
<1>6. CASE r.size = Last(PRIMES)
  <2>1. t.size # Last(PRIMES)
    BY DEF NotFull
  <2>2. t.size <= Last(PRIMES)
    <3>1. t.size \in Range(PRIMES)
      BY <1>2 DEF Sizes
    <3> QED
      BY <3>1, PrimesAssumption DEF Range
  <2>3. t.size < r.size
    BY <1>2, <1>6, <2>1, <2>2
  <2>4. (LIMIT + 1) * t.size + 1 <= (LIMIT + 1) * r.size
    BY <1>2, <2>3, Multiples
  <2>5. (LIMIT + 1) * t.size \in Nat /\ (LIMIT + 1) * r.size \in Nat
    BY <1>2
  <2> QED
    BY <1>2, <1>3, <2>4, <2>5
<1> QED
  BY <1>1, <1>4, <1>5, <1>6 DEF Fits

(* The table as ht_init leaves it. *)
LEMMA InitOK ==
  ASSUME NEW i0 \in Initials \cup {0}, NEW alloc \in BOOLEAN, NEW r, r = ht_init(i0, alloc)
  PROVE  Sound(r) /\ Stored(r) = {} /\ r.count <= (LIMIT + 1) * r.size
<1> DEFINE t == [Zeroed EXCEPT !.initial = i0]
<1>1. t = [initial |-> i0, count |-> 0, size |-> 0, lists |-> [i \in 0 .. 0 - 1 |-> <<>>]]
  <2>1. [i \in 0 .. 0 - 1 |-> <<>>] = <<>>
    OBVIOUS
  <2>2. t = [initial |-> i0, count |-> 0, size |-> 0, lists |-> <<>>]
    BY DEF Zeroed
  <2> QED
    BY <2>1, <2>2
<1>2. r = IF alloc THEN ht_grow(t, {}) ELSE t
  BY DEF ht_init
<1> HIDE DEF t
<1>3. Sound(t) /\ Stored(t) = {}
  <2>1. PICK n \in Sizes : n = 0
    BY DEF Sizes
  <2>2. t = [initial |-> i0, count |-> 0, size |-> n, lists |-> [i \in 0 .. n - 1 |-> <<>>]]
    BY <1>1, <2>1
  <2> QED
    BY <2>2, EmptyOK
<1>4. Sound(r) /\ Stored(r) = {}
  BY <1>2, <1>3, GrownOK
<1>5. r.count = 0
  BY <1>4, FS_EmptySet DEF Sound, Counted
<1>6. r.size \in Nat /\ (LIMIT + 1) * r.size \in Nat
  BY <1>4, TableFields, LimitAssumption DEF Sound
<1> QED
  BY <1>4, <1>5, <1>6

(* What ht_insert leaves: the table with or without the item, less what    *)
(* the rehash lost.                                                        *)
LEMMA InsertOK ==
  ASSUME IInv, NEW d \in Data, ht_insert(d)
  PROVE  /\ live' = live /\ live = TRUE /\ Sound(ht)' /\ (ht.count <= (LIMIT + 1) * ht.size)'
         /\ \E lost \in Rehashes, kept \in BOOLEAN :
              \/ /\ (\A e \in Stored(ht) : Key[e] # Key[d])
                 /\ Stored(ht)' = (Stored(ht) \ lost) \cup {d}
                 /\ out' = Result(<<"insert", d>>, TRUE, {})
              \/ /\ Stored(ht)' = IF kept THEN Stored(ht) ELSE Stored(ht) \ lost
                 /\ out' = Result(<<"insert", d>>, FALSE, {})
<1>1. live /\ ht.size > 0 /\ NotFull(ht) /\ live' = live
  BY DEF ht_insert
<1>2. PICK lists \in Alloc("lists"), push \in Alloc("push"), lost \in Rehashes :
        LET grown == IF Full(ht) THEN ht_grow(ht, lost) ELSE ht
            ok    == Absent(ht, d) /\ (Full(ht) => lists) /\ push
        IN  /\ ht' = CASE ok -> Inserted(grown, d)
                       [] ~ok /\ Absent(ht, d) /\ lists -> grown
                       [] OTHER -> ht
            /\ out' = Result(<<"insert", d>>, ok, {})
  BY DEF ht_insert
<1> DEFINE grown == IF Full(ht) THEN ht_grow(ht, lost) ELSE ht
           ok    == Absent(ht, d) /\ (Full(ht) => lists) /\ push
<1>3. /\ ht' = CASE ok -> Inserted(grown, d)
                 [] ~ok /\ Absent(ht, d) /\ lists -> grown
                 [] OTHER -> ht
      /\ out' = Result(<<"insert", d>>, ok, {})
  BY <1>2
<1>4. live = TRUE /\ ok \in BOOLEAN
  BY <1>1 DEF IInv
<1>5. /\ ht.size \in Nat \ {0} /\ ht.count \in Nat /\ LIMIT \in Nat
      /\ IsTable(ht) /\ Placed(ht) /\ Unique(ht)
  BY <1>1, TableFields, LimitAssumption DEF IInv, Sound
<1>6. /\ Sound(grown) /\ grown.size > 0 /\ (Stored(grown) = Stored(ht) \/ Stored(grown) = Stored(ht) \ lost)
      /\ grown.count + 1 <= (LIMIT + 1) * grown.size
  <2>1. CASE Full(ht)
    <3>1. PICK r : r = ht_grow(ht, lost)
      OBVIOUS
    <3>2. Sound(r) /\ Stored(r) = Stored(ht) \ lost /\ r.size \in Range(PRIMES)
      BY <3>1, GrownOK DEF IInv, Fits
    <3>3. r.count + 1 <= (LIMIT + 1) * r.size
      BY <1>1, <2>1, <3>1, GrownHasRoom DEF IInv
    <3>4. r.size > 0
      BY <3>2, SizesNaturals
    <3> QED
      BY <2>1, <3>1, <3>2, <3>3, <3>4
  <2>2. CASE ~Full(ht)
    <3>1. ht.count + 1 <= (LIMIT + 1) * ht.size
      BY <1>5, <2>2, Share DEF Full
    <3> QED
      BY <1>1, <2>2, <3>1 DEF IInv
  <2> QED
    BY <2>1, <2>2
<1> HIDE DEF grown
<1>7. /\ grown.size \in Nat \ {0} /\ grown.count \in Nat /\ (LIMIT + 1) * grown.size \in Nat
      /\ IsTable(grown) /\ Placed(grown) /\ Unique(grown)
  BY <1>5, <1>6, TableFields DEF Sound
<1>8. CASE ok
  <2>1. ht' = Inserted(grown, d) /\ out' = Result(<<"insert", d>>, TRUE, {})
    BY <1>3, <1>8
  <2>2. \A e \in Stored(ht) : Key[e] # Key[d]
    BY <1>1, <1>5, <1>8, AbsentMeans
  <2>3. Absent(grown, d)
    BY <1>6, <1>7, <2>2, AbsentMeans
  <2>4. Becomes(grown, ht', Stored(grown) \cup {d})
    BY <1>6, <2>1, <2>3, InsertedOK
  <2>5. ht'.size = grown.size /\ Sound(ht') /\ Stored(ht') = Stored(grown) \cup {d}
    BY <2>4 DEF Becomes
  <2>6. ht'.count = grown.count + 1
    <3>1. IsFiniteSet(Stored(grown)) /\ grown.count = Cardinality(Stored(grown)) /\ ht'.count = Cardinality(Stored(ht'))
      BY <1>6, <2>5 DEF Sound, Counted
    <3>2. d \notin Stored(grown)
      BY <1>6, <2>2
    <3> QED
      BY <2>5, <3>1, <3>2, FS_AddElement
  <2>7. \E gone \in Rehashes : Stored(ht') = (Stored(ht) \ gone) \cup {d}
    <3>1. CASE Stored(grown) = Stored(ht) \ lost
      BY <2>5, <3>1
    <3>2. CASE Stored(grown) = Stored(ht)
      <4>1. {} \in Rehashes
        BY DEF Rehashes
      <4> QED
        BY <2>5, <3>2, <4>1
    <3> QED
      BY <1>6, <3>1, <3>2
  <2> QED
    BY <1>1, <1>4, <1>6, <2>1, <2>2, <2>5, <2>6, <2>7
<1>9. CASE ~ok
  <2>1. (ht' = grown \/ ht' = ht) /\ out' = Result(<<"insert", d>>, FALSE, {})
    BY <1>3, <1>9
  <2>2. Sound(ht') /\ ht'.count <= (LIMIT + 1) * ht'.size
    BY <1>6, <1>7, <2>1 DEF IInv
  <2>3. Stored(ht') = Stored(ht) \/ Stored(ht') = Stored(ht) \ lost
    BY <1>6, <2>1
  <2>4. \E kept \in BOOLEAN : Stored(ht') = IF kept THEN Stored(ht) ELSE Stored(ht) \ lost
    BY <2>3
  <2> QED
    BY <1>1, <1>4, <2>1, <2>2, <2>4
<1> QED
  BY <1>4, <1>8, <1>9

(* What ht_remove leaves. *)
LEMMA RemoveOK ==
  ASSUME IInv, NEW d \in Data, ht_remove(d)
  PROVE  /\ live' = live /\ live = TRUE /\ Sound(ht)' /\ (ht.count <= (LIMIT + 1) * ht.size)'
         /\ \/ /\ \A e \in Stored(ht) : Key[e] # Key[d]
               /\ ht' = ht /\ out' = Result(<<"remove", d>>, FALSE, {})
            \/ \E e \in Stored(ht) :
                 /\ Key[e] = Key[d] /\ Stored(ht)' = Stored(ht) \ {e}
                 /\ out' = Result(<<"remove", d>>, TRUE, {})
<1> DEFINE i == ht_find(ht, d)
           ok == i # ht_itr_end_t /\ ht.count > 0
<1>1. /\ live /\ ht.size > 0 /\ live' = live
      /\ ht' = IF ok THEN Removed(ht, i) ELSE ht
      /\ out' = Result(<<"remove", d>>, ok, {})
  BY DEF ht_remove
<1>2. live = TRUE /\ ok \in BOOLEAN
  BY <1>1 DEF IInv
<1>3. /\ ht.size \in Nat \ {0} /\ ht.count \in Nat /\ LIMIT \in Nat
      /\ IsTable(ht) /\ Placed(ht) /\ Unique(ht) /\ Sound(ht) /\ ht.count <= (LIMIT + 1) * ht.size
      /\ ht.count = Cardinality(Stored(ht)) /\ IsFiniteSet(Stored(ht))
  BY <1>1, TableFields, LimitAssumption DEF IInv, Sound, Counted
<1>4. CASE \A e \in Stored(ht) : Key[e] # Key[d]
  <2>1. i = ht_itr_end_t
    BY <1>1, <1>3, <1>4, FindNone
  <2>2. ht' = ht /\ out' = Result(<<"remove", d>>, FALSE, {})
    BY <1>1, <2>1
  <2> QED
    BY <1>1, <1>2, <1>3, <1>4, <2>2
<1>5. ASSUME NEW e \in Stored(ht), Key[e] = Key[d]
      PROVE  /\ Stored(ht)' = Stored(ht) \ {e} /\ Sound(ht)' /\ (ht.count <= (LIMIT + 1) * ht.size)'
             /\ out' = Result(<<"remove", d>>, TRUE, {})
  <2>1. PICK j \in Buckets(ht) : \E k \in DOMAIN ht.lists[j] : ht.lists[j][k] = e
    BY <1>5, InStored
  <2>2. PICK k \in DOMAIN ht.lists[j] : ht.lists[j][k] = e
    BY <2>1
  <2>3. i = [idx |-> j, itr |-> k]
    BY <1>1, <1>3, <1>5, <2>2, FindOne
  <2>4. i # ht_itr_end_t
    <3>1. j \in Int /\ j # -1
      BY <1>3 DEF Buckets
    <3> HIDE DEF i
    <3>2. i.idx = j /\ ht_itr_end_t.idx = -1
      BY <2>3 DEF ht_itr_end_t
    <3> QED
      BY <3>1, <3>2
  <2>5. ht.count > 0
    <3>1. ht.count # 0
      BY <1>3, <1>5, FS_EmptySet
    <3> QED
      BY <1>3, <3>1
  <2>6. ok
    BY <2>4, <2>5
  <2>7. ht' = Removed(ht, [idx |-> j, itr |-> k]) /\ out' = Result(<<"remove", d>>, TRUE, {})
    BY <1>1, <2>3, <2>6
  <2>8. Becomes(ht, ht', Stored(ht) \ {e})
    BY <1>3, <2>2, <2>7, RemovedOK
  <2>9. Sound(ht') /\ Stored(ht') = Stored(ht) \ {e} /\ ht'.size = ht.size
    BY <2>8 DEF Becomes
  <2>10. ht'.count = ht.count - 1
    <3>1. ht'.count = Cardinality(Stored(ht'))
      BY <2>9 DEF Sound, Counted
    <3> QED
      BY <1>3, <1>5, <2>9, <3>1, FS_RemoveElement
  <2>11. (LIMIT + 1) * ht.size \in Nat
    BY <1>3
  <2> QED
    BY <1>3, <2>7, <2>9, <2>10, <2>11
<1> QED
  BY <1>1, <1>2, <1>4, <1>5

LEMMA InitIInv == Init => IInv
<1> SUFFICES ASSUME Init PROVE IInv
  OBVIOUS
<1>1. 0 <= (LIMIT + 1) * 0
  BY LimitAssumption
<1> QED
  BY <1>1, ZeroedOK DEF Init, IInv

LEMMA StepIInv == IInv /\ [Next]_vars => IInv'
<1> SUFFICES ASSUME IInv, [Next]_vars PROVE IInv'
  OBVIOUS
<1>0. 0 <= (LIMIT + 1) * 0
  BY LimitAssumption
<1>z. ASSUME ht' = Zeroed PROVE Sound(ht') /\ Stored(ht') = {} /\ ht'.count <= (LIMIT + 1) * ht'.size
  BY <1>0, <1>z, ZeroedOK
<1>1. ASSUME NEW initial \in Initials, ht_new(initial) PROVE IInv'
  <2>1. PICK alloc \in Alloc("lists") : live' = alloc /\ ht' = IF alloc THEN ht_init(initial, TRUE) ELSE Zeroed
    BY <1>1 DEF ht_new
  <2>2. alloc \in BOOLEAN
    BY DEF Alloc
  <2>3. CASE alloc
    <3>1. ht' = ht_init(initial, TRUE)
      BY <2>1, <2>3
    <3>2. Sound(ht') /\ Stored(ht') = {} /\ ht'.count <= (LIMIT + 1) * ht'.size
      BY <3>1, InitOK
    <3> QED
      BY <2>1, <2>2, <3>2 DEF IInv
  <2>4. CASE ~alloc
    BY <1>z, <2>1, <2>2, <2>4 DEF IInv
  <2> QED
    BY <2>3, <2>4
<1>2. CASE ht_delete
  BY <1>2, <1>z DEF ht_delete, IInv
<1>3. CASE ht_clear
  <2>1. PICK alloc \in Alloc("lists") : live' = live /\ ht' = ht_init(ht.initial, alloc)
    BY <1>3 DEF ht_clear
  <2>2. alloc \in BOOLEAN /\ ht.initial \in Initials \cup {0}
    BY TableFields DEF Alloc, IInv, Sound
  <2>3. Sound(ht') /\ Stored(ht') = {} /\ ht'.count <= (LIMIT + 1) * ht'.size
    BY <2>1, <2>2, InitOK
  <2> QED
    BY <2>1, <2>3 DEF IInv
<1>4. CASE ht_count \/ \E d \in Data : Find(d)
  <2>1. UNCHANGED <<live, ht>>
    BY <1>4 DEF ht_count, Find
  <2> QED
    BY <2>1 DEF IInv
<1>5. ASSUME NEW d \in Data, ht_insert(d) PROVE IInv'
  BY <1>5, InsertOK DEF IInv
<1>6. ASSUME NEW d \in Data, ht_remove(d) PROVE IInv'
  BY <1>6, RemoveOK DEF IInv
<1>7. CASE UNCHANGED vars
  BY <1>7 DEF vars, IInv
<1> QED
  BY <1>1, <1>2, <1>3, <1>4, <1>5, <1>6, <1>7 DEF Next

LEMMA AlwaysIInv == Spec => []IInv
BY InitIInv, StepIInv, PTL DEF Spec

-----------------------------------------------------------------------------
(* Walking over a table.                                                   *)

(* o[i] is the number of items in the lists before the i-th. *)
Offsets(t, o) ==
  /\ o[0] = 0 /\ o[t.size] = Len(Items(t))
  /\ \A i \in Buckets(t) : /\ o[i + 1] = o[i] + Len(t.lists[i])
                           /\ \A k \in DOMAIN t.lists[i] : Items(t)[o[i] + k] = t.lists[i][k]

(* u is s followed by t. *)
Concats(s, t, u) ==
  /\ Len(s) \in Nat /\ Len(t) \in Nat /\ Len(u) = Len(s) + Len(t)
  /\ \A m \in 1 .. Len(s) : u[m] = s[m]
  /\ \A k \in 1 .. Len(t) : u[Len(s) + k] = t[k]

LEMMA ConcatIs ==
  ASSUME NEW D, NEW s \in Seq(D), NEW t \in Seq(D), NEW u, u = s \o t
  PROVE  Concats(s, t, u)
<1>1. /\ Len(s) \in Nat /\ Len(t) \in Nat /\ Len(s \o t) = Len(s) + Len(t)
      /\ \A i \in 1 .. Len(s) + Len(t) : (s \o t)[i] = IF i <= Len(s) THEN s[i] ELSE t[i - Len(s)]
  OBVIOUS
<1>2. ASSUME NEW m \in 1 .. Len(s) PROVE (s \o t)[m] = s[m]
  <2>1. m \in 1 .. Len(s) + Len(t) /\ m <= Len(s)
    BY <1>1
  <2> QED
    BY <1>1, <2>1
<1>3. ASSUME NEW k \in 1 .. Len(t) PROVE (s \o t)[Len(s) + k] = t[k]
  <2>1. Len(s) + k \in 1 .. Len(s) + Len(t) /\ ~(Len(s) + k <= Len(s)) /\ (Len(s) + k) - Len(s) = k
    BY <1>1
  <2> QED
    BY <1>1, <2>1
<1> QED
  BY <1>1, <1>2, <1>3 DEF Concats

(* s begins with p. *)
Begins(s, p) == Len(p) <= Len(s) /\ \A m \in 1 .. Len(p) : s[m] = p[m]

LEMMA FlattenPrefix ==
  ASSUME NEW D, NEW n \in Nat \ {0}, NEW seqs \in [1 .. n -> Seq(D)],
         NEW F \in [1 .. n -> Seq(D)], Flattens(F, seqs, n), NEW i \in 1 .. n
  PROVE  Begins(F[n], F[i])
<1> USE DEF Begins
<1> DEFINE P(j) == Begins(F[j], F[i])
           S == {k \in 0 .. n - i : P(i + k)}
<1>1. 0 \in S
  <2>1. i + 0 = i /\ 0 \in 0 .. n - i /\ Len(F[i]) \in Nat
    OBVIOUS
  <2> QED
    BY <2>1
<1>2. ASSUME NEW k \in 0 .. (n - i) - 1, k \in S PROVE k + 1 \in S
  <2>1. PICK j \in 2 .. n : j = i + (k + 1)
    OBVIOUS
  <2>2. j - 1 = i + k /\ j - 1 \in 1 .. n /\ j \in 1 .. n /\ k + 1 \in 0 .. n - i
    BY <2>1
  <2>3. F[j] = F[j - 1] \o seqs[j]
    BY DEF Flattens
  <2>4. P(j - 1)
    BY <1>2, <2>2
  <2>5. F[i] \in Seq(D) /\ F[j - 1] \in Seq(D) /\ seqs[j] \in Seq(D)
    BY <2>2
  <2>6. P(j)
    <3>1. PICK a \in Seq(D), b \in Seq(D), c \in Seq(D) : a = F[j - 1] /\ b = seqs[j] /\ c = F[i]
      BY <2>5
    <3>2. /\ Len(a) \in Nat /\ Len(b) \in Nat /\ Len(F[j]) = Len(a) + Len(b)
          /\ \A m \in 1 .. Len(a) : F[j][m] = a[m]
      <4>1. F[j] = a \o b
        BY <2>3, <3>1
      <4>2. Concats(a, b, F[j])
        BY <4>1, ConcatIs
      <4> QED
        BY <4>2 DEF Concats
    <3>3. Len(c) <= Len(a) /\ (\A m \in 1 .. Len(c) : a[m] = c[m]) /\ Len(c) \in Nat
      BY <2>4, <3>1
    <3>4. \A m \in 1 .. Len(c) : m \in 1 .. Len(a)
      BY <3>2, <3>3
    <3>5. Len(c) <= Len(F[j])
      BY <3>2, <3>3
    <3>6. \A m \in 1 .. Len(c) : F[j][m] = c[m]
      BY <3>2, <3>3, <3>4
    <3> QED
      BY <3>1, <3>5, <3>6
  <2> QED
    BY <2>1, <2>2, <2>6
<1>3. n - i \in S
  <2> HIDE DEF S
  <2>1. n - i \in Nat
    OBVIOUS
  <2>2. 0 .. n - i \subseteq S
    BY <1>1, <1>2, <2>1, SetInduction
  <2> QED
    BY <2>1, <2>2
<1>4. i + (n - i) = n
  OBVIOUS
<1> QED
  BY <1>3, <1>4

LEMMA HasOffsets ==
  ASSUME NEW t, t.size \in Nat, t.lists \in [0 .. t.size - 1 -> Seq(Data)]
  PROVE  \E o \in [0 .. t.size -> Nat] : Offsets(t, o)
<1> DEFINE n == t.size
           seqs == [i \in 1 .. n |-> t.lists[i - 1]]
<1>1. seqs \in [1 .. n -> Seq(Data)] /\ Items(t) = FlattenSeq(seqs)
  BY DEF Items
<1>2. CASE n = 0
  <2> DEFINE o == [i \in 0 .. n |-> 0]
  <2>1. Len(seqs) = 0 /\ seqs = <<>>
    BY <1>2
  <2>2. Items(t) = <<>>
    BY <1>1, <2>1 DEF FlattenSeq
  <2>3. Buckets(t) = {}
    BY <1>2 DEF Buckets
  <2>4. o \in [0 .. t.size -> Nat] /\ o[0] = 0 /\ o[t.size] = 0
    OBVIOUS
  <2>5. Len(Items(t)) = 0
    BY <2>2
  <2> HIDE DEF o
  <2>6. Offsets(t, o)
    BY <2>3, <2>4, <2>5 DEF Offsets
  <2> QED
    BY <2>4, <2>6
<1>3. CASE n # 0
  <2>1. n \in Nat \ {0}
    BY <1>3
  <2>2. PICK F \in [1 .. n -> Seq(Data)] : Flattens(F, seqs, n)
    <3> HIDE DEF seqs, n
    <3> QED
      BY <1>1, <2>1, FlattenIs
  <2> DEFINE o == [i \in 0 .. n |-> IF i = 0 THEN 0 ELSE Len(F[i])]
  <2>3. o \in [0 .. n -> Nat] /\ o[0] = 0 /\ \A i \in 1 .. n : o[i] = Len(F[i])
    BY <2>1
  <2>4. Items(t) = F[n] /\ o[n] = Len(Items(t))
    BY <1>1, <2>1, <2>2, <2>3 DEF Flattens
  <2>5. ASSUME NEW i \in Buckets(t)
        PROVE  /\ o[i + 1] = o[i] + Len(t.lists[i])
               /\ \A k \in DOMAIN t.lists[i] : F[i + 1][o[i] + k] = t.lists[i][k]
    <3>0. i \in 0 .. n - 1 /\ i + 1 \in 1 .. n /\ (i + 1) - 1 = i
      BY DEF Buckets
    <3>1. i \in 0 .. n - 1 /\ i + 1 \in 1 .. n /\ seqs[i + 1] = t.lists[i] /\ t.lists[i] \in Seq(Data)
      BY <3>0
    <3> HIDE DEF o, seqs
    <3>2. o[i + 1] = Len(F[i + 1])
      BY <2>3, <3>1
    <3>3. Len(t.lists[i]) \in Nat /\ DOMAIN t.lists[i] = 1 .. Len(t.lists[i])
      BY <3>1
    <3>4. CASE i = 0
      <4>1. F[i + 1] = t.lists[i] /\ o[i] = 0
        BY <2>2, <2>3, <3>1, <3>4 DEF Flattens
      <4>2. \A k \in DOMAIN t.lists[i] : 0 + k = k
        BY <3>3
      <4> QED
        BY <3>2, <3>3, <4>1, <4>2
    <3>5. CASE i # 0
      <4>1. i + 1 \in 2 .. n /\ (i + 1) - 1 = i /\ i \in 1 .. n
        BY <3>1, <3>5
      <4>2. F[i + 1] = F[(i + 1) - 1] \o seqs[i + 1]
        BY <2>2, <4>1 DEF Flattens
      <4>3. PICK a \in Seq(Data), b \in Seq(Data) : a = F[i] /\ b = t.lists[i]
        BY <3>1, <4>1
      <4>4. F[i + 1] = a \o b /\ o[i] = Len(a)
        BY <2>3, <3>1, <4>1, <4>2, <4>3
      <4>5. Concats(a, b, F[i + 1])
        BY <4>4, ConcatIs
      <4> QED
        BY <3>2, <3>3, <4>3, <4>4, <4>5 DEF Concats
    <3> QED
      BY <3>4, <3>5
  <2>6. ASSUME NEW i \in Buckets(t), NEW k \in DOMAIN t.lists[i] PROVE Items(t)[o[i] + k] = t.lists[i][k]
    <3>1. i \in 0 .. n /\ i + 1 \in 1 .. n /\ t.lists[i] \in Seq(Data)
      BY DEF Buckets
    <3> HIDE DEF o, seqs
    <3>2. /\ o[i + 1] = Len(F[i + 1]) /\ o[i] \in Nat /\ Len(t.lists[i]) \in Nat
          /\ k \in 1 .. Len(t.lists[i]) /\ o[i + 1] = o[i] + Len(t.lists[i])
      BY <2>3, <2>5, <3>1
    <3>3. o[i] + k \in 1 .. Len(F[i + 1])
      BY <3>2
    <3>4. F[n][o[i] + k] = F[i + 1][o[i] + k]
      <4>0. seqs \in [1 .. n -> Seq(Data)]
        BY <1>1
      <4> HIDE DEF n
      <4>1. PICK j \in 1 .. n : j = i + 1
        BY <3>1
      <4>2. Begins(F[n], F[j])
        BY <2>1, <2>2, <4>0, FlattenPrefix
      <4> QED
        BY <3>3, <4>1, <4>2 DEF Begins
    <3> QED
      BY <2>4, <2>5, <3>4
  <2> HIDE DEF o
  <2>7. Offsets(t, o)
    BY <2>3, <2>4, <2>5, <2>6 DEF Offsets
  <2> QED
    BY <2>3, <2>7
<1> QED
  BY <1>2, <1>3
(* Between two lists that hold items nothing is counted. *)
LEMMA NothingBetween ==
  ASSUME NEW t, t.size \in Nat, NEW o \in [0 .. t.size -> Nat], Offsets(t, o),
         NEW a \in 0 .. t.size, NEW b \in a .. t.size, \A j \in a .. b - 1 : t.lists[j] = <<>>
  PROVE  o[b] = o[a]
<1> DEFINE S == {k \in 0 .. b - a : o[a + k] = o[a]}
<1>1. 0 \in S
  <2>1. a + 0 = a /\ 0 \in 0 .. b - a
    OBVIOUS
  <2> QED
    BY <2>1
<1>2. ASSUME NEW k \in 0 .. (b - a) - 1, k \in S PROVE k + 1 \in S
  <2>1. PICK j \in a .. b - 1 : j = a + k
    OBVIOUS
  <2>2. j \in Buckets(t) /\ j \in 0 .. t.size /\ a + (k + 1) = j + 1 /\ k + 1 \in 0 .. b - a
    BY <2>1 DEF Buckets
  <2>3. o[j + 1] = o[j] + Len(t.lists[j])
    BY <2>2 DEF Offsets
  <2>4. Len(t.lists[j]) = 0 /\ o[j] \in Nat /\ o[j] = o[a]
    BY <1>2, <2>1, <2>2
  <2>5. o[j + 1] = o[a]
    BY <2>3, <2>4
  <2> QED
    BY <2>2, <2>5
<1>3. b - a \in S
  <2> HIDE DEF S
  <2>1. b - a \in Nat
    OBVIOUS
  <2>2. 0 .. b - a \subseteq S
    BY <1>1, <1>2, <2>1, SetInduction
  <2> QED
    BY <2>1, <2>2
<1>4. a + (b - a) = b
  OBVIOUS
<1> QED
  BY <1>3, <1>4

LEMMA OffsetsGrow ==
  ASSUME NEW t, t.size \in Nat, t.lists \in [0 .. t.size - 1 -> Seq(Data)],
         NEW o \in [0 .. t.size -> Nat], Offsets(t, o), NEW a \in 0 .. t.size, NEW b \in a .. t.size
  PROVE  o[a] <= o[b]
<1> DEFINE S == {k \in 0 .. b - a : o[a] <= o[a + k]}
<1>1. 0 \in S
  <2>1. a + 0 = a /\ 0 \in 0 .. b - a /\ o[a] \in Nat
    OBVIOUS
  <2> QED
    BY <2>1
<1>2. ASSUME NEW k \in 0 .. (b - a) - 1, k \in S PROVE k + 1 \in S
  <2>1. PICK j \in a .. b - 1 : j = a + k
    OBVIOUS
  <2>2. /\ j \in Buckets(t) /\ j \in 0 .. t.size /\ j \in 0 .. t.size - 1
        /\ a + (k + 1) = j + 1 /\ k + 1 \in 0 .. b - a
    BY <2>1 DEF Buckets
  <2>3. o[j + 1] = o[j] + Len(t.lists[j])
    BY <2>2 DEF Offsets
  <2>4. Len(t.lists[j]) \in Nat /\ o[j] \in Nat /\ o[a] \in Nat /\ o[a] <= o[j]
    BY <1>2, <2>1, <2>2
  <2>5. o[a] <= o[j + 1]
    BY <2>3, <2>4
  <2> QED
    BY <2>2, <2>5
<1>3. b - a \in S
  <2> HIDE DEF S
  <2>1. b - a \in Nat
    OBVIOUS
  <2>2. 0 .. b - a \subseteq S
    BY <1>1, <1>2, <2>1, SetInduction
  <2> QED
    BY <2>1, <2>2
<1>4. a + (b - a) = b
  OBVIOUS
<1> QED
  BY <1>3, <1>4

LEMMA LeastIs ==
  ASSUME NEW T \in SUBSET Nat, T # {}, NEW m, m = Min(T)
  PROVE  m \in T /\ \A y \in T : m <= y
<1>1. \E x \in T : \A y \in T : x <= y
  BY LeastElement
<1> QED
  BY <1>1 DEF Min

LEMMA GreatestIs ==
  ASSUME NEW n \in Nat, NEW T \in SUBSET (0 .. n), T # {}, NEW m, m = Max(T)
  PROVE  m \in T /\ \A y \in T : m >= y
<1> DEFINE U == {n - x : x \in T}
<1>1. U \in SUBSET Nat /\ U # {}
  <2>1. \A x \in T : n - x \in Nat
    OBVIOUS
  <2>2. PICK x \in T : TRUE
    OBVIOUS
  <2>3. n - x \in U
    OBVIOUS
  <2> QED
    BY <2>1, <2>3
<1>2. PICK u \in U : \A y \in U : u <= y
  <2> HIDE DEF U
  <2> QED
    BY <1>1, LeastElement
<1>3. PICK x \in T : u = n - x
  OBVIOUS
<1>4. ASSUME NEW y \in T PROVE x >= y
  <2>1. n - x <= n - y
    BY <1>2, <1>3
  <2>2. x \in Int /\ y \in Int
    OBVIOUS
  <2> QED
    BY <2>1, <2>2
<1>5. \E z \in T : \A y \in T : z >= y
  BY <1>4
<1> QED
  BY <1>5 DEF Max

(* The iterator x stands at the n-th item. *)
AtPlace(t, o, x, n) ==
  \E i \in Buckets(t) : \E k \in DOMAIN t.lists[i] : x = [idx |-> i, itr |-> k] /\ n = o[i] + k

(* The first item from list a on, and the last one before it. *)
LEMMA FirstFrom ==
  ASSUME NEW t, t.size \in Nat, t.lists \in [0 .. t.size - 1 -> Seq(Data)],
         NEW o \in [0 .. t.size -> Nat], Offsets(t, o), NEW a \in 0 .. t.size,
         NEW idxs, idxs = {j \in Filled(t) : j >= a}, NEW x, x = FirstIn(t, idxs)
  PROVE  IF o[a] = o[t.size] THEN x = ht_itr_end_t ELSE AtPlace(t, o, x, o[a] + 1)
<1>1. idxs \in SUBSET Nat /\ \A j \in idxs : j \in 0 .. t.size - 1 /\ j >= a /\ t.lists[j] # <<>>
  BY DEF Filled, Buckets
<1>2. \A j \in a .. t.size - 1 : j \in idxs \/ t.lists[j] = <<>>
  BY DEF Filled, Buckets
<1>3. CASE idxs = {}
  <2>1. \A j \in a .. t.size - 1 : t.lists[j] = <<>>
    BY <1>2, <1>3
  <2>2. t.size \in a .. t.size
    OBVIOUS
  <2>3. o[t.size] = o[a]
    BY <2>1, <2>2, NothingBetween
  <2> QED
    BY <1>3, <2>3 DEF FirstIn
<1>4. CASE idxs # {}
  <2>1. PICK m : m = Min(idxs)
    OBVIOUS
  <2>2. m \in idxs /\ \A y \in idxs : m <= y
    BY <1>1, <1>4, <2>1, LeastIs
  <2>3. m \in 0 .. t.size - 1 /\ m \in a .. t.size /\ m + 1 \in 0 .. t.size /\ t.size \in m + 1 .. t.size
    BY <1>1, <2>2
  <2>4. \A j \in a .. m - 1 : t.lists[j] = <<>>
    <3>1. ASSUME NEW j \in a .. m - 1 PROVE j \in a .. t.size - 1 /\ ~(m <= j)
      BY <2>3
    <3> QED
      BY <1>2, <2>2, <3>1
  <2>5. o[m] = o[a]
    BY <2>3, <2>4, NothingBetween
  <2>6. t.lists[m] \in Seq(Data) /\ t.lists[m] # <<>> /\ m \in Buckets(t)
    BY <1>1, <2>2, <2>3 DEF Buckets
  <2>7. Len(t.lists[m]) \in Nat /\ Len(t.lists[m]) # 0 /\ DOMAIN t.lists[m] = 1 .. Len(t.lists[m])
    BY <2>6
  <2>8. x = [idx |-> m, itr |-> 1] /\ 1 \in DOMAIN t.lists[m]
    BY <1>4, <2>1, <2>6, <2>7 DEF FirstIn, list_itr_begin
  <2>9. AtPlace(t, o, x, o[a] + 1)
    BY <2>5, <2>6, <2>8 DEF AtPlace
  <2>10. o[m + 1] = o[m] + Len(t.lists[m])
    BY <2>6 DEF Offsets
  <2>11. PICK p \in 0 .. t.size : p = m + 1
    BY <2>3
  <2>12. o[p] <= o[t.size]
    BY <2>3, <2>11, OffsetsGrow
  <2>13. o[a] \in Nat /\ o[t.size] \in Nat /\ o[p] \in Nat
    OBVIOUS
  <2>14. o[a] # o[t.size]
    BY <2>5, <2>7, <2>10, <2>11, <2>12, <2>13
  <2> QED
    BY <2>9, <2>14
<1> QED
  BY <1>3, <1>4

LEMMA LastBefore ==
  ASSUME NEW t, t.size \in Nat, t.lists \in [0 .. t.size - 1 -> Seq(Data)],
         NEW o \in [0 .. t.size -> Nat], Offsets(t, o), NEW a \in 0 .. t.size,
         NEW idxs, idxs = {j \in Filled(t) : j < a}, NEW x, x = LastIn(t, idxs)
  PROVE  IF o[a] = 0 THEN x = ht_itr_end_t ELSE AtPlace(t, o, x, o[a])
<1>1. idxs \in SUBSET (0 .. t.size) /\ \A j \in idxs : j \in 0 .. t.size - 1 /\ j < a /\ t.lists[j] # <<>>
  BY DEF Filled, Buckets
<1>2. \A j \in 0 .. a - 1 : j \in idxs \/ t.lists[j] = <<>>
  BY DEF Filled, Buckets
<1>3. CASE idxs = {}
  <2>1. \A j \in 0 .. a - 1 : t.lists[j] = <<>>
    BY <1>2, <1>3
  <2>2. a \in 0 .. t.size /\ 0 \in 0 .. t.size
    OBVIOUS
  <2>3. o[a] = o[0]
    BY <2>1, <2>2, NothingBetween
  <2> QED
    BY <1>3, <2>3 DEF LastIn, Offsets
<1>4. CASE idxs # {}
  <2>1. PICK m : m = Max(idxs)
    OBVIOUS
  <2>2. m \in idxs /\ \A y \in idxs : m >= y
    BY <1>1, <1>4, <2>1, GreatestIs
  <2>3. m \in 0 .. t.size - 1 /\ m + 1 \in 0 .. t.size /\ a \in m + 1 .. t.size
    BY <1>1, <2>2
  <2>4. PICK p \in 0 .. t.size : p = m + 1
    BY <2>3
  <2>5. \A j \in p .. a - 1 : t.lists[j] = <<>>
    <3>1. ASSUME NEW j \in p .. a - 1 PROVE j \in 0 .. a - 1 /\ ~(m >= j)
      BY <2>3, <2>4
    <3> QED
      BY <1>2, <2>2, <3>1
  <2>6. o[a] = o[p]
    BY <2>3, <2>4, <2>5, NothingBetween
  <2>7. t.lists[m] \in Seq(Data) /\ t.lists[m] # <<>> /\ m \in Buckets(t)
    BY <1>1, <2>2, <2>3 DEF Buckets
  <2>8. Len(t.lists[m]) \in Nat /\ Len(t.lists[m]) # 0 /\ DOMAIN t.lists[m] = 1 .. Len(t.lists[m])
    BY <2>7
  <2>9. x = [idx |-> m, itr |-> Len(t.lists[m])] /\ Len(t.lists[m]) \in DOMAIN t.lists[m]
    BY <1>4, <2>1, <2>7, <2>8 DEF LastIn, list_itr_rbegin
  <2>10. o[m + 1] = o[m] + Len(t.lists[m])
    BY <2>7 DEF Offsets
  <2>11. AtPlace(t, o, x, o[a])
    BY <2>4, <2>6, <2>7, <2>9, <2>10 DEF AtPlace
  <2>12. o[m] \in Nat
    BY <2>3
  <2>13. o[a] # 0
    BY <2>4, <2>6, <2>8, <2>10, <2>12
  <2> QED
    BY <2>11, <2>13
<1> QED
  BY <1>3, <1>4
(* The iterator y stands at the item after the n-th, or past the last. *)
Follows(t, o, y, n) == IF n = o[t.size] THEN y = ht_itr_end_t ELSE AtPlace(t, o, y, n + 1)

(* A step of a walk goes to the next item, or past the last one. *)
LEMMA NextMoves ==
  ASSUME NEW t, t.size \in Nat, t.lists \in [0 .. t.size - 1 -> Seq(Data)],
         NEW o \in [0 .. t.size -> Nat], Offsets(t, o), NEW x, NEW n, AtPlace(t, o, x, n),
         NEW y, y = ht_itr_next(t, x)
  PROVE  Follows(t, o, y, n)
<1>0. PICK i \in Buckets(t) : \E k \in DOMAIN t.lists[i] : x = [idx |-> i, itr |-> k] /\ n = o[i] + k
  BY DEF AtPlace
<1>1. PICK k \in DOMAIN t.lists[i] : x = [idx |-> i, itr |-> k] /\ n = o[i] + k
  BY <1>0
<1>2. i \in 0 .. t.size - 1 /\ i \in 0 .. t.size /\ i + 1 \in 0 .. t.size /\ t.size \in i + 1 .. t.size
  BY DEF Buckets
<1>3. t.lists[i] \in Seq(Data)
  BY <1>2
<1>4. Len(t.lists[i]) \in Nat /\ DOMAIN t.lists[i] = 1 .. Len(t.lists[i])
  BY <1>3
<1>5. PICK p \in 0 .. t.size : p = i + 1
  BY <1>2
<1>6. o[p] = o[i] + Len(t.lists[i])
  BY <1>5 DEF Offsets
<1>7. o[p] <= o[t.size]
  BY <1>2, <1>5, OffsetsGrow
<1>8. o[i] \in Nat /\ o[p] \in Nat /\ o[t.size] \in Nat
  BY <1>2
<1>9. k \in 1 .. Len(t.lists[i]) /\ n \in 1 .. o[t.size]
  <2>1. k \in 1 .. Len(t.lists[i])
    BY <1>4
  <2>2. n = o[i] + k /\ o[i] + Len(t.lists[i]) <= o[t.size]
    BY <1>1, <1>6, <1>7
  <2>3. PICK a \in Nat, l \in Nat, z \in Nat : a = o[i] /\ l = Len(t.lists[i]) /\ z = o[t.size]
    BY <1>4, <1>8
  <2>4. k \in 1 .. l /\ n = a + k /\ a + l <= z
    BY <2>1, <2>2, <2>3
  <2>5. n \in 1 .. z
    BY <2>4
  <2> QED
    BY <2>1, <2>3, <2>5
<1>10. x.idx = i /\ x.itr = k
  BY <1>1
<1>11. CASE k < Len(t.lists[i])
  <2>0. y = [x EXCEPT !.itr = @ + 1]
    BY <1>10, <1>11 DEF ht_itr_next
  <2>1. y = [idx |-> i, itr |-> k + 1] /\ k + 1 \in DOMAIN t.lists[i] /\ n + 1 = o[i] + (k + 1)
    <3>1. y = [idx |-> i, itr |-> k + 1]
      BY <1>1, <2>0
    <3>2. k + 1 \in 1 .. Len(t.lists[i])
      BY <1>4, <1>9, <1>11
    <3>3. n + 1 = o[i] + (k + 1)
      <4>1. PICK a \in Nat, b \in Nat : a = o[i] /\ b = k
        BY <1>4, <1>8, <1>9
      <4>2. n = a + b
        BY <1>1, <4>1
      <4>3. n + 1 = a + (b + 1)
        BY <4>2
      <4> QED
        BY <4>1, <4>3
    <3> QED
      BY <1>4, <3>1, <3>2, <3>3
  <2>2. AtPlace(t, o, y, n + 1)
    BY <2>1 DEF AtPlace
  <2>3. n # o[t.size]
    BY <1>1, <1>4, <1>6, <1>7, <1>8, <1>11
  <2> QED
    BY <2>2, <2>3 DEF Follows
<1>12. CASE ~(k < Len(t.lists[i]))
  <2>1. k = Len(t.lists[i]) /\ n = o[p]
    BY <1>1, <1>4, <1>6, <1>12
  <2>2. PICK idxs : idxs = {j \in Filled(t) : j > x.idx}
    OBVIOUS
  <2>3. y = FirstIn(t, idxs)
    BY <1>10, <1>12, <2>2 DEF ht_itr_next
  <2>4. idxs = {j \in Filled(t) : j >= p}
    <3>1. ASSUME NEW j \in Filled(t) PROVE j > x.idx <=> j >= p
      <4>1. j \in Int /\ i \in Int
        BY <1>2 DEF Filled, Buckets
      <4> QED
        BY <1>5, <1>10, <4>1
    <3> QED
      BY <2>2, <3>1
  <2>5. IF o[p] = o[t.size] THEN y = ht_itr_end_t ELSE AtPlace(t, o, y, o[p] + 1)
    BY <2>3, <2>4, FirstFrom
  <2> QED
    BY <2>1, <2>5 DEF Follows
<1> QED
  BY <1>11, <1>12

(* The iterator y stands at the item before the n-th, or past the first. *)
Precedes(t, o, y, n) == IF n = 1 THEN y = ht_itr_end_t ELSE AtPlace(t, o, y, n - 1)

LEMMA RnextMoves ==
  ASSUME NEW t, t.size \in Nat, t.lists \in [0 .. t.size - 1 -> Seq(Data)],
         NEW o \in [0 .. t.size -> Nat], Offsets(t, o), NEW x, NEW n, AtPlace(t, o, x, n),
         NEW y, y = ht_itr_rnext(t, x)
  PROVE  Precedes(t, o, y, n)
<1>0. PICK i \in Buckets(t) : \E k \in DOMAIN t.lists[i] : x = [idx |-> i, itr |-> k] /\ n = o[i] + k
  BY DEF AtPlace
<1>1. PICK k \in DOMAIN t.lists[i] : x = [idx |-> i, itr |-> k] /\ n = o[i] + k
  BY <1>0
<1>2. i \in 0 .. t.size - 1 /\ i \in 0 .. t.size
  BY DEF Buckets
<1>3. t.lists[i] \in Seq(Data)
  BY <1>2
<1>4. Len(t.lists[i]) \in Nat /\ DOMAIN t.lists[i] = 1 .. Len(t.lists[i])
  BY <1>3
<1>5. o[i] \in Nat
  BY <1>2
<1>6. x.idx = i /\ x.itr = k
  BY <1>1
<1>7. CASE k > 1
  <2>0. y = [x EXCEPT !.itr = @ - 1] /\ k \in 1 .. Len(t.lists[i])
    BY <1>4, <1>6, <1>7 DEF ht_itr_rnext
  <2>1. y = [idx |-> i, itr |-> k - 1] /\ k - 1 \in DOMAIN t.lists[i] /\ n - 1 = o[i] + (k - 1)
    <3>1. y = [idx |-> i, itr |-> k - 1]
      BY <1>1, <2>0
    <3>2. k - 1 \in 1 .. Len(t.lists[i])
      BY <1>4, <1>7, <2>0
    <3>3. n - 1 = o[i] + (k - 1)
      BY <1>1, <1>5, <2>0
    <3> QED
      BY <1>4, <3>1, <3>2, <3>3
  <2>2. AtPlace(t, o, y, n - 1)
    BY <2>1 DEF AtPlace
  <2>3. n # 1
    BY <1>1, <1>4, <1>5, <1>7
  <2> QED
    BY <2>2, <2>3 DEF Precedes
<1>8. CASE ~(k > 1)
  <2>1. k = 1 /\ n - 1 = o[i]
    BY <1>1, <1>4, <1>5, <1>8
  <2>2. y = LastIn(t, {j \in Filled(t) : j < i})
    BY <1>6, <1>8 DEF ht_itr_rnext
  <2>3. IF o[i] = 0 THEN y = ht_itr_end_t ELSE AtPlace(t, o, y, o[i])
    BY <1>2, <2>2, LastBefore
  <2>4. n = 1 <=> o[i] = 0
    BY <1>1, <1>5, <2>1
  <2> QED
    BY <2>1, <2>3, <2>4 DEF Precedes
<1> QED
  BY <1>7, <1>8

(* Where the walks begin. *)
LEMMA WalksBegin ==
  ASSUME NEW t, t.size \in Nat, t.lists \in [0 .. t.size - 1 -> Seq(Data)],
         NEW o \in [0 .. t.size -> Nat], Offsets(t, o), t.count = o[t.size],
         NEW x, x = ht_itr_begin(t), NEW y, y = ht_itr_rbegin(t)
  PROVE  IF t.count = 0 THEN x = ht_itr_end_t /\ y = ht_itr_end_t
         ELSE AtPlace(t, o, x, 1) /\ AtPlace(t, o, y, t.count)
<1>1. t.count \in Nat /\ o[0] = 0 /\ 0 \in 0 .. t.size /\ t.size \in 0 .. t.size
  BY DEF Offsets
<1>2. CASE t.count = 0
  BY <1>1, <1>2 DEF ht_itr_begin, ht_itr_rbegin
<1>3. CASE t.count # 0
  <2>1. x = FirstIn(t, Filled(t)) /\ y = LastIn(t, Filled(t))
    BY <1>1, <1>3 DEF ht_itr_begin, ht_itr_rbegin
  <2>2. \A j \in Filled(t) : j >= 0 /\ j < t.size
    BY DEF Filled, Buckets
  <2>3. Filled(t) = {j \in Filled(t) : j >= 0} /\ Filled(t) = {j \in Filled(t) : j < t.size}
    BY <2>2
  <2>4. IF o[0] = o[t.size] THEN x = ht_itr_end_t ELSE AtPlace(t, o, x, o[0] + 1)
    BY <1>1, <2>1, <2>3, FirstFrom
  <2>5. IF o[t.size] = 0 THEN y = ht_itr_end_t ELSE AtPlace(t, o, y, o[t.size])
    BY <1>1, <2>1, <2>3, LastBefore
  <2> QED
    BY <1>1, <1>3, <2>4, <2>5
<1> QED
  BY <1>2, <1>3

(* What an iterator gives, and that it is not the end. *)
LEMMA PlaceHolds ==
  ASSUME NEW t, t.size \in Nat, t.lists \in [0 .. t.size - 1 -> Seq(Data)],
         NEW o \in [0 .. t.size -> Nat], Offsets(t, o), NEW x, NEW n, AtPlace(t, o, x, n)
  PROVE  x # ht_itr_end_t /\ ht_get(t, x) = Items(t)[n]
<1>0. PICK i \in Buckets(t) : \E k \in DOMAIN t.lists[i] : x = [idx |-> i, itr |-> k] /\ n = o[i] + k
  BY DEF AtPlace
<1>1. PICK k \in DOMAIN t.lists[i] : x = [idx |-> i, itr |-> k] /\ n = o[i] + k
  BY <1>0
<1>2. x.idx = i /\ x.itr = k /\ i # -1
  BY <1>1 DEF Buckets
<1>3. Items(t)[o[i] + k] = t.lists[i][k]
  BY DEF Offsets
<1>4. ht_get(t, x) = t.lists[i][k]
  BY <1>2 DEF ht_get
<1>5. ht_itr_end_t.idx = -1
  BY DEF ht_itr_end_t
<1> QED
  BY <1>1, <1>2, <1>3, <1>4, <1>5
(* A walk with ht_itr_next. *)
LEMMA ForthMeetsAll ==
  ASSUME Sound(ht), NEW walk, walk = Walk(ht_itr_begin(ht), ht_itr_next)
  PROVE  walk[ht.count] = ht_itr_end_t /\ Visited(walk) = Items(ht)
<1> DEFINE N == ht.count
           Step(x) == IF x = ht_itr_end_t THEN ht_itr_end_t ELSE ht_itr_next(ht, x)
           G(f) == [n \in 0 .. N |-> IF n = 0 THEN ht_itr_begin(ht) ELSE Step(f[n - 1])]
<1>1. ht.size \in Nat /\ N \in Nat /\ ht.lists \in [0 .. ht.size - 1 -> Seq(Data)] /\ N = Len(Items(ht))
  BY TableFields DEF Sound, Counted
<1>2. Items(ht) \in Seq(Data)
  BY <1>1, ItemsAreStored
<1>3. PICK o \in [0 .. ht.size -> Nat] : Offsets(ht, o)
  BY <1>1, HasOffsets
<1>4. N = o[ht.size]
  BY <1>1, <1>3 DEF Offsets
<1> DEFINE Stands(x, n) == IF n = N THEN x = ht_itr_end_t ELSE AtPlace(ht, o, x, n + 1)
<1>5. Stands(ht_itr_begin(ht), 0)
  <2>1. PICK x, y : x = ht_itr_begin(ht) /\ y = ht_itr_rbegin(ht)
    OBVIOUS
  <2>2. IF ht.count = 0 THEN x = ht_itr_end_t /\ y = ht_itr_end_t
        ELSE AtPlace(ht, o, x, 1) /\ AtPlace(ht, o, y, ht.count)
    BY <1>1, <1>3, <1>4, <2>1, WalksBegin
  <2>3. 0 + 1 = 1 /\ N - 0 = N /\ (0 = N <=> N = 0)
    BY <1>1
  <2> QED
    BY <2>1, <2>2, <2>3
<1>6. ASSUME NEW n \in 0 .. N - 1, NEW x, Stands(x, n) PROVE Stands(Step(x), n + 1)
  <2>1. n # N /\ AtPlace(ht, o, x, n + 1)
    BY <1>1, <1>6
  <2>2. x # ht_itr_end_t
    BY <1>1, <1>3, <2>1, PlaceHolds
  <2>3. PICK y, z : y = ht_itr_next(ht, x) /\ z = n + 1
    OBVIOUS
  <2>4. Follows(ht, o, y, z)
    <3>1. AtPlace(ht, o, x, z)
      BY <2>1, <2>3
    <3> QED
      BY <1>1, <1>3, <2>3, <3>1, NextMoves
  <2>5. (z = o[ht.size] <=> n + 1 = N) /\ z + 1 = (n + 1) + 1
    BY <1>4, <2>3
  <2>6. Step(x) = y
    BY <2>2, <2>3
  <2> HIDE DEF Step
  <2> QED
    BY <2>4, <2>5, <2>6 DEF Follows
<1> DEFINE T == {ht_itr_end_t} \cup {x \in [idx : Int, itr : Int] : \E n \in 0 .. N - 1 : Stands(x, n)}
           g == [p \in (1 .. N) \X T |-> Step(p[2])]
<1>7. ASSUME NEW x, NEW n \in 0 .. N, Stands(x, n) PROVE x \in T
  <2>1. CASE n = N
    BY <1>7, <2>1
  <2>2. CASE n # N
    <3>1. n \in 0 .. N - 1 /\ AtPlace(ht, o, x, n + 1)
      BY <1>1, <1>7, <2>2
    <3>2. PICK i \in Buckets(ht) : \E k \in DOMAIN ht.lists[i] : x = [idx |-> i, itr |-> k]
      BY <3>1 DEF AtPlace
    <3>3. ht.lists[i] \in Seq(Data) /\ i \in Int
      BY <1>1 DEF Buckets
    <3>4. x \in [idx : Int, itr : Int]
      BY <3>2, <3>3
    <3> QED
      BY <1>7, <3>1, <3>4
  <2> QED
    BY <2>1, <2>2
<1> HIDE DEF Stands, Step
<1>8. ASSUME NEW x \in T PROVE Step(x) \in T
  <2>1. CASE x = ht_itr_end_t
    BY <2>1 DEF Step
  <2>2. CASE x # ht_itr_end_t
    <3>1. PICK n \in 0 .. N - 1 : Stands(x, n)
      BY <2>2
    <3>2. PICK m \in 0 .. N : m = n + 1
      BY <1>1
    <3>3. Stands(Step(x), m)
      BY <1>6, <3>1, <3>2
    <3> HIDE DEF T
    <3> QED
      BY <1>7, <3>3
  <2> QED
    BY <2>1, <2>2
<1>9. ht_itr_begin(ht) \in T
  <2> HIDE DEF T
  <2>1. 0 \in 0 .. N
    BY <1>1
  <2> QED
    BY <1>5, <1>7, <2>1
<1> HIDE DEF T
<1>10. PICK f \in [0 .. N -> T] : Steps(f, N, ht_itr_begin(ht), g)
  <2>1. g \in [(1 .. N) \X T -> T]
    BY <1>8
  <2> HIDE DEF g, N
  <2> QED
    BY <1>1, <1>9, <2>1, Recursion
<1>11. f = G(f)
  <2>1. ASSUME NEW n \in 0 .. N PROVE f[n] = IF n = 0 THEN ht_itr_begin(ht) ELSE Step(f[n - 1])
    <3>1. CASE n = 0
      BY <1>10, <3>1 DEF Steps
    <3>2. CASE n # 0
      <4>1. n \in 1 .. N /\ f[n - 1] \in T
        BY <1>1, <3>2
      <4>2. f[n] = g[<<n, f[n - 1]>>]
        BY <1>10, <4>1 DEF Steps
      <4> QED
        BY <3>2, <4>1, <4>2
    <3> QED
      BY <3>1, <3>2
  <2>2. f = [n \in 0 .. N |-> f[n]]
    OBVIOUS
  <2> QED
    BY <2>1, <2>2
<1>12. walk = G(walk)
  <2>1. walk = CHOOSE h : h = G(h)
    BY DEF Walk, Step
  <2> HIDE DEF G
  <2> QED
    BY <1>11, <2>1
<1>13. \A n \in 0 .. N : walk[n] = IF n = 0 THEN ht_itr_begin(ht) ELSE Step(walk[n - 1])
  BY <1>12
<1> DEFINE S == {n \in 0 .. N : Stands(walk[n], n)}
<1>14. 0 .. N \subseteq S
  <2>1. 0 \in S
    BY <1>1, <1>5, <1>13
  <2>2. ASSUME NEW n \in 0 .. N - 1, n \in S PROVE n + 1 \in S
    <3>1. n + 1 \in 0 .. N /\ n + 1 # 0 /\ (n + 1) - 1 = n
      BY <1>1
    <3>2. walk[n + 1] = Step(walk[n])
      BY <1>13, <3>1
    <3>3. Stands(walk[n + 1], n + 1)
      BY <1>6, <2>2, <3>2
    <3> QED
      BY <3>1, <3>3
  <2> HIDE DEF S, N
  <2> QED
    BY <1>1, <2>1, <2>2, SetInduction
<1>15. walk[N] = ht_itr_end_t
  <2>1. Stands(walk[N], N)
    BY <1>1, <1>14
  <2> QED
    BY <2>1 DEF Stands
<1>16. ASSUME NEW n \in 1 .. N PROVE ht_get(ht, walk[n - 1]) = Items(ht)[n]
  <2>1. n - 1 \in 0 .. N /\ n - 1 # N
    BY <1>1
  <2>2. Stands(walk[n - 1], n - 1)
    BY <1>14, <2>1
  <2>3. AtPlace(ht, o, walk[n - 1], n)
    <3>1. (n - 1) + 1 = n
      OBVIOUS
    <3> QED
      BY <2>1, <2>2, <3>1 DEF Stands
  <2> QED
    BY <1>1, <1>3, <2>3, PlaceHolds
<1>17. Visited(walk) = Items(ht)
  <2>1. Items(ht) = [n \in 1 .. N |-> Items(ht)[n]]
    BY <1>1, <1>2
  <2> QED
    BY <1>16, <2>1 DEF Visited
<1> QED
  BY <1>15, <1>17

(* A walk with ht_itr_rnext. *)
LEMMA BackMeetsAll ==
  ASSUME Sound(ht), NEW walk, walk = Walk(ht_itr_rbegin(ht), ht_itr_rnext)
  PROVE  walk[ht.count] = ht_itr_end_t /\ Visited(walk) = Reverse(Items(ht))
<1> DEFINE N == ht.count
           Step(x) == IF x = ht_itr_end_t THEN ht_itr_end_t ELSE ht_itr_rnext(ht, x)
           G(f) == [n \in 0 .. N |-> IF n = 0 THEN ht_itr_rbegin(ht) ELSE Step(f[n - 1])]
<1>1. ht.size \in Nat /\ N \in Nat /\ ht.lists \in [0 .. ht.size - 1 -> Seq(Data)] /\ N = Len(Items(ht))
  BY TableFields DEF Sound, Counted
<1>2. Items(ht) \in Seq(Data)
  BY <1>1, ItemsAreStored
<1>3. PICK o \in [0 .. ht.size -> Nat] : Offsets(ht, o)
  BY <1>1, HasOffsets
<1>4. N = o[ht.size]
  BY <1>1, <1>3 DEF Offsets
<1> DEFINE Stands(x, n) == IF n = N THEN x = ht_itr_end_t ELSE AtPlace(ht, o, x, N - n)
<1>5. Stands(ht_itr_rbegin(ht), 0)
  <2>1. PICK x, y : x = ht_itr_begin(ht) /\ y = ht_itr_rbegin(ht)
    OBVIOUS
  <2>2. IF ht.count = 0 THEN x = ht_itr_end_t /\ y = ht_itr_end_t
        ELSE AtPlace(ht, o, x, 1) /\ AtPlace(ht, o, y, ht.count)
    BY <1>1, <1>3, <1>4, <2>1, WalksBegin
  <2>3. 0 + 1 = 1 /\ N - 0 = N /\ (0 = N <=> N = 0)
    BY <1>1
  <2> QED
    BY <2>1, <2>2, <2>3
<1>6. ASSUME NEW n \in 0 .. N - 1, NEW x, Stands(x, n) PROVE Stands(Step(x), n + 1)
  <2>1. n # N /\ AtPlace(ht, o, x, N - n)
    BY <1>1, <1>6
  <2>2. x # ht_itr_end_t
    BY <1>1, <1>3, <2>1, PlaceHolds
  <2>3. PICK y, z : y = ht_itr_rnext(ht, x) /\ z = N - n
    OBVIOUS
  <2>4. Precedes(ht, o, y, z)
    <3>1. AtPlace(ht, o, x, z)
      BY <2>1, <2>3
    <3> QED
      BY <1>1, <1>3, <2>3, <3>1, RnextMoves
  <2>5. (z = 1 <=> n + 1 = N) /\ z - 1 = N - (n + 1)
    BY <1>1, <2>3
  <2>6. Step(x) = y
    BY <2>2, <2>3
  <2> HIDE DEF Step
  <2> QED
    BY <2>4, <2>5, <2>6 DEF Precedes
<1> DEFINE T == {ht_itr_end_t} \cup {x \in [idx : Int, itr : Int] : \E n \in 0 .. N - 1 : Stands(x, n)}
           g == [p \in (1 .. N) \X T |-> Step(p[2])]
<1>7. ASSUME NEW x, NEW n \in 0 .. N, Stands(x, n) PROVE x \in T
  <2>1. CASE n = N
    BY <1>7, <2>1
  <2>2. CASE n # N
    <3>1. n \in 0 .. N - 1 /\ AtPlace(ht, o, x, N - n)
      BY <1>1, <1>7, <2>2
    <3>2. PICK i \in Buckets(ht) : \E k \in DOMAIN ht.lists[i] : x = [idx |-> i, itr |-> k]
      BY <3>1 DEF AtPlace
    <3>3. ht.lists[i] \in Seq(Data) /\ i \in Int
      BY <1>1 DEF Buckets
    <3>4. x \in [idx : Int, itr : Int]
      BY <3>2, <3>3
    <3> QED
      BY <1>7, <3>1, <3>4
  <2> QED
    BY <2>1, <2>2
<1> HIDE DEF Stands, Step
<1>8. ASSUME NEW x \in T PROVE Step(x) \in T
  <2>1. CASE x = ht_itr_end_t
    BY <2>1 DEF Step
  <2>2. CASE x # ht_itr_end_t
    <3>1. PICK n \in 0 .. N - 1 : Stands(x, n)
      BY <2>2
    <3>2. PICK m \in 0 .. N : m = n + 1
      BY <1>1
    <3>3. Stands(Step(x), m)
      BY <1>6, <3>1, <3>2
    <3> HIDE DEF T
    <3> QED
      BY <1>7, <3>3
  <2> QED
    BY <2>1, <2>2
<1>9. ht_itr_rbegin(ht) \in T
  <2> HIDE DEF T
  <2>1. 0 \in 0 .. N
    BY <1>1
  <2> QED
    BY <1>5, <1>7, <2>1
<1> HIDE DEF T
<1>10. PICK f \in [0 .. N -> T] : Steps(f, N, ht_itr_rbegin(ht), g)
  <2>1. g \in [(1 .. N) \X T -> T]
    BY <1>8
  <2> HIDE DEF g, N
  <2> QED
    BY <1>1, <1>9, <2>1, Recursion
<1>11. f = G(f)
  <2>1. ASSUME NEW n \in 0 .. N PROVE f[n] = IF n = 0 THEN ht_itr_rbegin(ht) ELSE Step(f[n - 1])
    <3>1. CASE n = 0
      BY <1>10, <3>1 DEF Steps
    <3>2. CASE n # 0
      <4>1. n \in 1 .. N /\ f[n - 1] \in T
        BY <1>1, <3>2
      <4>2. f[n] = g[<<n, f[n - 1]>>]
        BY <1>10, <4>1 DEF Steps
      <4> QED
        BY <3>2, <4>1, <4>2
    <3> QED
      BY <3>1, <3>2
  <2>2. f = [n \in 0 .. N |-> f[n]]
    OBVIOUS
  <2> QED
    BY <2>1, <2>2
<1>12. walk = G(walk)
  <2>1. walk = CHOOSE h : h = G(h)
    BY DEF Walk, Step
  <2> HIDE DEF G
  <2> QED
    BY <1>11, <2>1
<1>13. \A n \in 0 .. N : walk[n] = IF n = 0 THEN ht_itr_rbegin(ht) ELSE Step(walk[n - 1])
  BY <1>12
<1> DEFINE S == {n \in 0 .. N : Stands(walk[n], n)}
<1>14. 0 .. N \subseteq S
  <2>1. 0 \in S
    BY <1>1, <1>5, <1>13
  <2>2. ASSUME NEW n \in 0 .. N - 1, n \in S PROVE n + 1 \in S
    <3>1. n + 1 \in 0 .. N /\ n + 1 # 0 /\ (n + 1) - 1 = n
      BY <1>1
    <3>2. walk[n + 1] = Step(walk[n])
      BY <1>13, <3>1
    <3>3. Stands(walk[n + 1], n + 1)
      BY <1>6, <2>2, <3>2
    <3> QED
      BY <3>1, <3>3
  <2> HIDE DEF S, N
  <2> QED
    BY <1>1, <2>1, <2>2, SetInduction
<1>15. walk[N] = ht_itr_end_t
  <2>1. Stands(walk[N], N)
    BY <1>1, <1>14
  <2> QED
    BY <2>1 DEF Stands
<1>16. ASSUME NEW n \in 1 .. N PROVE ht_get(ht, walk[n - 1]) = Reverse(Items(ht))[n]
  <2>1. n - 1 \in 0 .. N /\ n - 1 # N
    BY <1>1
  <2>2. Stands(walk[n - 1], n - 1)
    BY <1>14, <2>1
  <2>3. PICK z : z = N - (n - 1)
    OBVIOUS
  <2>4. AtPlace(ht, o, walk[n - 1], z)
    BY <2>1, <2>2, <2>3 DEF Stands
  <2>5. z = (N - n) + 1
    BY <1>1, <2>3
  <2>6. ht_get(ht, walk[n - 1]) = Items(ht)[z]
    BY <1>1, <1>3, <2>4, PlaceHolds
  <2> QED
    BY <1>1, <2>5, <2>6 DEF Reverse
<1>17. Visited(walk) = Reverse(Items(ht))
  <2>1. Reverse(Items(ht)) = [n \in 1 .. N |-> Reverse(Items(ht))[n]]
    BY <1>1 DEF Reverse
  <2> QED
    BY <1>16, <2>1 DEF Visited
<1> QED
  BY <1>15, <1>17

-----------------------------------------------------------------------------
(* The theorems.                                                           *)

(* The table that any sequence of calls leaves, failing allocations among  *)
(* them, has its type, with the lists of its size.                         *)
THEOREM TypeCorrect == Spec => []TypeOK
<1>1. IInv => TypeOK
  <2> SUFFICES ASSUME IInv PROVE TypeOK
    OBVIOUS
  <2>1. /\ ht.size \in Sizes /\ ht.count \in Nat /\ ht.initial \in Initials \cup {0}
        /\ ht.lists \in [0 .. ht.size - 1 -> Seq(Data)]
    BY TableFields DEF IInv, Sound
  <2> QED
    BY <2>1 DEF TypeOK, IInv, Sizes, Buckets
<1> QED
  BY <1>1, AlwaysIInv, PTL

(* ht_find finds every stored item where it is stored, through all grows   *)
(* and rehashes, for every hash function that agrees with the keys.        *)
THEOREM FindsAll == Spec => []FindsEveryItem
<1>1. IInv => FindsEveryItem
  <2> SUFFICES ASSUME IInv, NEW i \in Buckets(ht), NEW k \in DOMAIN ht.lists[i]
               PROVE  ht_find(ht, ht.lists[i][k]) = [idx |-> i, itr |-> k]
    BY DEF FindsEveryItem
  <2>1. IsTable(ht) /\ Placed(ht) /\ Unique(ht) /\ ht.size \in Nat
    BY TableFields DEF IInv, Sound
  <2>2. ht.size > 0
    BY <2>1 DEF Buckets
  <2>3. ht.lists[i][k] \in Data
    BY <2>1, StoredData, InStored
  <2> QED
    BY <2>1, <2>2, <2>3, FindOne
<1> QED
  BY <1>1, AlwaysIInv, PTL

(* count is the number of items stored, and the load stays within one of   *)
(* its limit: ht_insert grows the table in time, for every list of sizes   *)
(* whose last one is the largest.                                          *)
THEOREM LoadIsBounded == Spec => []LoadBounded
<1>1. IInv => LoadBounded
  BY DEF IInv, Sound, Counted, LoadBounded
<1> QED
  BY <1>1, AlwaysIInv, PTL

(* Iterating with ht_itr_next meets every item once and ends, iterating    *)
(* with ht_itr_rnext meets them in the opposite order, for every number of *)
(* lists, empty ones anywhere among them.                                  *)
THEOREM WalksMeetEverything == Spec => []WalksMeetAll
<1>1. IInv => WalksMeetAll
  <2> SUFFICES ASSUME IInv PROVE WalksMeetAll
    OBVIOUS
  <2>1. PICK forth, back : /\ forth = Walk(ht_itr_begin(ht), ht_itr_next)
                           /\ back = Walk(ht_itr_rbegin(ht), ht_itr_rnext)
    OBVIOUS
  <2>2. forth[ht.count] = ht_itr_end_t /\ Visited(forth) = Items(ht)
    BY <2>1, ForthMeetsAll DEF IInv
  <2>3. back[ht.count] = ht_itr_end_t /\ Visited(back) = Reverse(Items(ht))
    BY <2>1, BackMeetsAll DEF IInv
  <2> QED
    BY <2>1, <2>2, <2>3 DEF WalksMeetAll
<1> QED
  BY <1>1, AlwaysIInv, PTL

-----------------------------------------------------------------------------
(* The table as a set.                                                     *)

LEMMA ContentsAreStored == ASSUME NEW t, Sound(t) PROVE Range(Items(t)) = Stored(t)
BY TableFields, ItemsAreStored DEF Sound

(* Every step of the table is a step of the set, or leaves it alone. *)
LEMMA StepRefines ==
  ASSUME IInv, IInv', "rehash" \notin MayFail, [Next]_vars
  PROVE  [Abstract!Next]_<<live, Range(Items(ht)), out>>
<1> DEFINE C == Range(Items(ht))
<1>c. C = Stored(ht) /\ C' = Stored(ht')
  BY ContentsAreStored DEF IInv
<1>s. ASSUME ht' = ht PROVE C' = C
  BY <1>s
<1>m. ASSUME NEW d PROVE Abstract!Matching(d) = {e \in C : Key[e] = Key[d]}
  BY DEF Abstract!Matching
<1>u. ASSUME NEW d, NEW e \in Stored(ht), Key[e] = Key[d] PROVE Abstract!Matching(d) = {e}
  <2>1. \A x \in Stored(ht) : Key[x] = Key[d] => x = e
    BY <1>u, KeysDiffer DEF IInv, Sound
  <2> QED
    BY <1>c, <1>m, <1>u, <2>1
<1>n. ASSUME NEW d, \A e \in Stored(ht) : Key[e] # Key[d] PROVE Abstract!Matching(d) = {}
  BY <1>c, <1>m, <1>n
<1>r. ASSUME NEW call, NEW ret, NEW deleted PROVE Result(call, ret, deleted) = Abstract!Result(call, ret, deleted)
  BY DEF Result, Abstract!Result
<1> HIDE DEF C
<1>1. ASSUME NEW initial \in Initials, ht_new(initial) PROVE Abstract!Next
  <2>1. PICK alloc \in Alloc("lists") : /\ ~live /\ live' = alloc
                                        /\ ht' = IF alloc THEN ht_init(initial, TRUE) ELSE Zeroed
                                        /\ out' = Result(<<"new">>, alloc, {})
    BY <1>1 DEF ht_new
  <2>2. alloc \in BOOLEAN
    BY DEF Alloc
  <2>3. C = {}
    BY <1>c, <2>1 DEF IInv
  <2>4. C' = {}
    <3>1. CASE alloc
      <4>1. ht' = ht_init(initial, TRUE)
        BY <2>1, <3>1
      <4> QED
        BY <1>c, <4>1, InitOK
    <3>2. CASE ~alloc
      BY <1>c, <2>1, <3>2, ZeroedOK
    <3> QED
      BY <3>1, <3>2
  <2>5. Abstract!New
    BY <1>r, <2>1, <2>2, <2>3, <2>4 DEF Abstract!New, C
  <2> QED
    BY <2>5 DEF Abstract!Next
<1>2. CASE ht_delete
  <2>1. C' = {}
    BY <1>2, <1>c, ZeroedOK DEF ht_delete
  <2>2. Abstract!Delete
    BY <1>2, <1>r, <2>1 DEF ht_delete, Abstract!Delete, C
  <2> QED
    BY <2>2 DEF Abstract!Next
<1>3. CASE ht_clear
  <2>1. PICK alloc \in Alloc("lists") : /\ live /\ live' = live /\ ht' = ht_init(ht.initial, alloc)
                                        /\ out' = Result(<<"clear">>, alloc, C)
    BY <1>3 DEF ht_clear, C
  <2>2. alloc \in BOOLEAN /\ ht.initial \in Initials \cup {0}
    BY TableFields DEF Alloc, IInv, Sound
  <2>3. C' = {}
    BY <1>c, <2>1, <2>2, InitOK
  <2>4. Abstract!Clear
    BY <1>r, <2>1, <2>2, <2>3 DEF Abstract!Clear, C
  <2> QED
    BY <2>4 DEF Abstract!Next
<1>4. CASE ht_count
  <2>1. ht.count = Cardinality(C)
    BY <1>c DEF IInv, Sound, Counted
  <2>2. Cardinality(C) = Abstract!Cardinality(C)
    BY DEF Cardinality, Abstract!Cardinality
  <2>3. Abstract!Count
    BY <1>4, <1>r, <1>s, <2>1, <2>2 DEF ht_count, Abstract!Count, C
  <2> QED
    BY <2>3 DEF Abstract!Next
<1>5. ASSUME NEW d \in Data, ht_insert(d) PROVE Abstract!Next
  <2>0. Rehashes = {{}}
    BY DEF Rehashes
  <2>1. PICK lost \in Rehashes, kept \in BOOLEAN :
          \/ /\ (\A e \in Stored(ht) : Key[e] # Key[d])
             /\ Stored(ht)' = (Stored(ht) \ lost) \cup {d}
             /\ out' = Result(<<"insert", d>>, TRUE, {})
          \/ /\ Stored(ht)' = IF kept THEN Stored(ht) ELSE Stored(ht) \ lost
             /\ out' = Result(<<"insert", d>>, FALSE, {})
    BY <1>5, InsertOK
  <2>2. live /\ live' = live /\ lost = {}
    BY <1>5, <2>0, InsertOK
  <2>3. Abstract!Insert(d)
    <3>1. CASE (\A e \in Stored(ht) : Key[e] # Key[d]) /\ Stored(ht)' = (Stored(ht) \ lost) \cup {d}
               /\ out' = Result(<<"insert", d>>, TRUE, {})
      <4>1. Abstract!Matching(d) = {} /\ C' = C \cup {d}
        BY <1>c, <1>n, <2>2, <3>1
      <4> QED
        BY <1>r, <2>2, <3>1, <4>1 DEF Abstract!Insert, C
    <3>2. CASE Stored(ht)' = (IF kept THEN Stored(ht) ELSE Stored(ht) \ lost)
               /\ out' = Result(<<"insert", d>>, FALSE, {})
      <4>1. C' = C
        BY <1>c, <2>2, <3>2
      <4> QED
        BY <1>r, <2>2, <3>2, <4>1 DEF Abstract!Insert, C
    <3> QED
      BY <2>1, <3>1, <3>2
  <2> QED
    BY <2>3 DEF Abstract!Next
<1>6. ASSUME NEW d \in Data, Find(d) PROVE Abstract!Next
  <2>1. live /\ ht.size > 0 /\ live' = live /\ ht' = ht
        /\ out' = Result(<<"find", d>>, ht_get(ht, ht_find(ht, d)), {})
    BY <1>6 DEF Find
  <2>2. IsTable(ht) /\ Placed(ht) /\ Unique(ht) /\ ht.size \in Nat
    BY TableFields DEF IInv, Sound
  <2>3. ht_get(ht, ht_find(ht, d)) = IF Abstract!Matching(d) = {} THEN NULL ELSE CHOOSE e \in Abstract!Matching(d) : TRUE
    <3>1. CASE \A e \in Stored(ht) : Key[e] # Key[d]
      <4>1. ht_find(ht, d) = ht_itr_end_t
        BY <2>1, <2>2, <3>1, FindNone
      <4>2. -1 \notin Buckets(ht)
        BY <2>2 DEF Buckets
      <4>3. ht_get(ht, ht_itr_end_t) = NULL
        BY <4>2 DEF ht_get, ht_itr_end_t
      <4> QED
        BY <1>n, <3>1, <4>1, <4>3
    <3>2. ASSUME NEW e \in Stored(ht), Key[e] = Key[d]
          PROVE  ht_get(ht, ht_find(ht, d)) = CHOOSE x \in Abstract!Matching(d) : TRUE
      <4>1. PICK j \in Buckets(ht) : \E k \in DOMAIN ht.lists[j] : ht.lists[j][k] = e
        BY <3>2, InStored
      <4>2. PICK k \in DOMAIN ht.lists[j] : ht.lists[j][k] = e
        BY <4>1
      <4>3. ht_find(ht, d) = [idx |-> j, itr |-> k]
        BY <2>1, <2>2, <3>2, <4>2, FindOne
      <4>4. ht_get(ht, [idx |-> j, itr |-> k]) = e
        BY <4>2 DEF ht_get
      <4>5. Abstract!Matching(d) = {e}
        BY <1>u, <3>2
      <4> QED
        BY <4>3, <4>4, <4>5
    <3>3. ASSUME NEW e \in Stored(ht), Key[e] = Key[d] PROVE Abstract!Matching(d) # {}
      BY <1>u, <3>3
    <3> QED
      BY <1>n, <3>1, <3>2, <3>3
  <2>4. Abstract!Find(d)
    BY <1>r, <1>s, <2>1, <2>3 DEF Abstract!Find, C
  <2> QED
    BY <2>4 DEF Abstract!Next
<1>7. ASSUME NEW d \in Data, ht_remove(d) PROVE Abstract!Next
  <2>1. Abstract!Remove(d)
    <3>1. live /\ live' = live
      BY <1>7, RemoveOK
    <3>2. CASE (\A e \in Stored(ht) : Key[e] # Key[d]) /\ ht' = ht /\ out' = Result(<<"remove", d>>, FALSE, {})
      <4>1. Abstract!Matching(d) = {} /\ C' = C
        BY <1>n, <1>s, <3>2
      <4> QED
        BY <1>r, <3>1, <3>2, <4>1 DEF Abstract!Remove, C
    <3>3. ASSUME NEW e \in Stored(ht), Key[e] = Key[d], Stored(ht)' = Stored(ht) \ {e},
                 out' = Result(<<"remove", d>>, TRUE, {})
          PROVE  Abstract!Remove(d)
      <4>1. Abstract!Matching(d) = {e} /\ C' = C \ {e}
        BY <1>c, <1>u, <3>3
      <4> QED
        BY <1>r, <3>1, <3>3, <4>1 DEF Abstract!Remove, C
    <3> QED
      BY <1>7, <3>2, <3>3, RemoveOK
  <2> QED
    BY <2>1 DEF Abstract!Next
<1>8. CASE UNCHANGED vars
  BY <1>8, <1>s DEF vars, C
<1> QED
  BY <1>1, <1>2, <1>3, <1>4, <1>5, <1>6, <1>7, <1>8 DEF Next

(* src/hashtable.c is a set with one item of each key as long as no        *)
(* allocation fails within a rehash; one of the lists or of a push may.    *)
(* Every call returns what the set would, and a call that fails keeps what *)
(* is stored.                                                              *)
THEOREM ImplementsSet == "rehash" \notin MayFail => (Spec => RefinesHashSpec)
<1> SUFFICES ASSUME "rehash" \notin MayFail PROVE Spec => RefinesHashSpec
  OBVIOUS
<1>1. Init => Abstract!Init
  <2> SUFFICES ASSUME Init PROVE Abstract!Init
    OBVIOUS
  <2>1. Range(Items(ht)) = {}
    BY ZeroedOK, ContentsAreStored DEF Init
  <2> QED
    BY <2>1 DEF Init, Result, Abstract!Init, Abstract!Result
<1>2. IInv /\ IInv' /\ [Next]_vars => [Abstract!Next]_<<live, Range(Items(ht)), out>>
  BY StepRefines
<1> QED
  BY <1>1, <1>2, AlwaysIInv, PTL DEF Spec, RefinesHashSpec, Abstract!Spec, Abstract!specVars
=============================================================================

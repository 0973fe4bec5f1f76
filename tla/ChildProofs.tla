---------------------------- MODULE ChildProofs -----------------------------
(***************************************************************************)
(* Child processes, for any number of children, descriptors, users and     *)
(* groups.                                                                 *)
(*                                                                         *)
(* Credentials: a temporary drop changes the effective ids and, of root,   *)
(* the groups; the real and the saved ids stay, and since an effective id  *)
(* is always one of those two, restoring finds its way back (DropKeeps,    *)
(* RestoreGives).  A permanent drop that answers TRUE has tried to go back *)
(* and could not (DropForGood).                                            *)
(*                                                                         *)
(* Descriptors: in a parent that has standard error and one of the other   *)
(* two when it forks, three of the four ends of the pipes are not standard *)
(* descriptors, which is what the child's rewiring takes for granted       *)
(* (NewEndsApart, PipesApart).  Nothing is assumed of the descriptors that *)
(* a parent starts with, and any of them may be closed on the way.         *)
(*                                                                         *)
(* The environment: a string is copied to where the sum of the lengths     *)
(* before it ends, and the two passes add up the same lengths (BuiltFits). *)
(***************************************************************************)
EXTENDS Child, TLAPS, FiniteSetTheorems, SequenceTheorems, WellFoundedInduction

-----------------------------------------------------------------------------
(* The environment.                                                        *)

LEMMA LeastElement ==
  ASSUME NEW T \in SUBSET Nat, T # {}
  PROVE  \E x \in T : \A y \in T : x <= y
<1> DEFINE Less == {ss \in Nat \X Nat : ss[1] < ss[2]}
<1>1. IsWellFoundedOn(Less, Nat)
  <2>1. Less = OpToRel(<, Nat)
    BY Zenon DEF OpToRel
  <2> QED
    BY <2>1, NatLessThanWellFounded, Zenon
<1>2. PICK x \in T : \A y \in T : ~ (<<y, x>> \in Less)
  <2> HIDE DEF Less
  <2> QED
    BY <1>1, WFMin
<1>3. ASSUME NEW y \in T PROVE x <= y
  <2>1. x \in Nat /\ y \in Nat
    OBVIOUS
  <2>2. y < x => <<y, x>> \in Less
    BY <2>1
  <2> HIDE DEF Less
  <2> QED
    BY <1>2, <2>1, <2>2
<1> QED
  BY <1>3

(* Induction over the numbers up to n, for a set instead of a predicate. *)
LEMMA SetInduction ==
  ASSUME NEW n \in Nat, NEW S, 0 \in S, \A k \in 0 .. n - 1 : k \in S => k + 1 \in S
  PROVE  0 .. n \subseteq S
<1> DEFINE T == (0 .. n) \ S
<1> SUFFICES ASSUME T # {} PROVE FALSE
  OBVIOUS
<1>1. PICK m \in T : \A y \in T : m <= y
  <2>1. T \in SUBSET Nat
    OBVIOUS
  <2> HIDE DEF T
  <2> QED
    BY <2>1, LeastElement
<1>2. m \in 1 .. n
  OBVIOUS
<1>3. m - 1 \in 0 .. n - 1 /\ m - 1 \notin T
  BY <1>1, <1>2
<1> QED
  BY <1>2, <1>3

(* A loop: f[k] is what its first k rounds leave. *)
Rounds(f, n, base, g) == f[0] = base /\ \A k \in 1 .. n : f[k] = g[<<k, f[k - 1]>>]

LEMMA LoopEnds ==
  ASSUME NEW N \in Nat, NEW T, NEW base \in T, NEW g \in [(1 .. N) \X T -> T]
  PROVE  \E f \in [0 .. N -> T] : Rounds(f, N, base, g)
<1> DEFINE S == {n \in 0 .. N : \E f \in [0 .. n -> T] : Rounds(f, n, base, g)}
<1>1. 0 \in S
  <2> DEFINE f == [k \in 0 .. 0 |-> base]
  <2>1. f \in [0 .. 0 -> T] /\ Rounds(f, 0, base, g) /\ 0 \in 0 .. N
    BY DEF Rounds
  <2> HIDE DEF f
  <2> QED
    BY <2>1
<1>2. ASSUME NEW n \in 0 .. N - 1, n \in S PROVE n + 1 \in S
  <2>1. PICK f \in [0 .. n -> T] : Rounds(f, n, base, g)
    BY <1>2
  <2> DEFINE x == g[<<n + 1, f[n]>>]
             h == [k \in 0 .. n + 1 |-> IF k = n + 1 THEN x ELSE f[k]]
  <2>2. x \in T
    <3>1. <<n + 1, f[n]>> \in (1 .. N) \X T
      OBVIOUS
    <3> QED
      BY <3>1
  <2>3. h \in [0 .. n + 1 -> T] /\ h[n + 1] = x /\ \A k \in 0 .. n : h[k] = f[k]
    BY <2>2
  <2>4. ASSUME NEW k \in 1 .. n + 1 PROVE h[k] = g[<<k, h[k - 1]>>]
    <3> HIDE DEF h
    <3>1. CASE k = n + 1
      <4>1. k - 1 = n /\ h[k - 1] = f[n]
        BY <2>3, <3>1
      <4> QED
        BY <2>3, <3>1, <4>1
    <3>2. CASE k # n + 1
      <4>1. k \in 1 .. n /\ h[k] = f[k] /\ h[k - 1] = f[k - 1]
        BY <2>3, <3>2
      <4> QED
        BY <2>1, <4>1 DEF Rounds
    <3> QED
      BY <3>1, <3>2
  <2> HIDE DEF h
  <2>5. Rounds(h, n + 1, base, g)
    BY <2>1, <2>3, <2>4 DEF Rounds
  <2>6. n + 1 \in 0 .. N
    OBVIOUS
  <2> QED
    BY <2>3, <2>5, <2>6
<1>3. N \in S
  <2> HIDE DEF S
  <2> QED
    BY <1>1, <1>2, SetInduction
<1> QED
  BY <1>3

(* The variables that are set, out of any. *)
VarT == [name : Nat, value : Nat \cup {-1}]
SetT == [name : Nat, value : Nat]

LEMMA InEnvironType ==
  ASSUME NEW vs \in Seq(VarT)
  PROVE  InEnviron(vs) \in Seq(SetT)
<1> DEFINE N == Len(vs)
           T == Seq(SetT)
           Step(n, x) == IF vs[n].value >= 0 THEN Append(x, vs[n]) ELSE x
           g == [p \in (1 .. N) \X T |-> Step(p[1], p[2])]
           G(f) == [n \in 0 .. N |-> IF n = 0 THEN <<>>
                                     ELSE IF vs[n].value >= 0 THEN Append(f[n - 1], vs[n])
                                     ELSE f[n - 1]]
           kept == CHOOSE f : f = G(f)
<1>1. N \in Nat /\ <<>> \in T
  OBVIOUS
<1>2. ASSUME NEW n \in 1 .. N, NEW x \in T PROVE Step(n, x) \in T
  <2>1. vs[n] \in VarT
    OBVIOUS
  <2>2. CASE vs[n].value >= 0
    <3>1. vs[n] \in SetT
      BY <2>1, <2>2 DEF VarT, SetT
    <3>2. Append(x, vs[n]) \in T
      BY <3>1
    <3> QED
      BY <2>2, <3>2
  <2>3. CASE ~(vs[n].value >= 0)
    BY <2>3
  <2> QED
    BY <2>2, <2>3
<1> HIDE DEF T
<1>3. g \in [(1 .. N) \X T -> T]
  <2> HIDE DEF Step
  <2> QED
    BY <1>2
<1>4. PICK f \in [0 .. N -> T] : Rounds(f, N, <<>>, g)
  <2> HIDE DEF g, N
  <2> QED
    BY <1>1, <1>3, LoopEnds
<1>5. f = G(f)
  <2>1. ASSUME NEW n \in 0 .. N PROVE f[n] = IF n = 0 THEN <<>> ELSE Step(n, f[n - 1])
    <3> HIDE DEF Step
    <3>1. CASE n = 0
      BY <1>4, <3>1 DEF Rounds
    <3>2. CASE n # 0
      <4>1. n \in 1 .. N /\ f[n - 1] \in T
        BY <1>1, <3>2
      <4>2. f[n] = g[<<n, f[n - 1]>>]
        BY <1>4, <4>1 DEF Rounds
      <4> QED
        BY <3>2, <4>1, <4>2
    <3> QED
      BY <3>1, <3>2
  <2>2. f = [n \in 0 .. N |-> f[n]]
    OBVIOUS
  <2> QED
    BY <2>1, <2>2
<1>6. kept = G(kept)
  <2> HIDE DEF G
  <2> QED
    BY <1>5
<1>7. InEnviron(vs) = kept[N]
  BY DEF InEnviron
<1> HIDE DEF kept
<1>8. \A n \in 0 .. N : kept[n] = IF n = 0 THEN <<>> ELSE Step(n, kept[n - 1])
  BY <1>6
<1> DEFINE S == {n \in 0 .. N : kept[n] \in T}
<1>9. 0 .. N \subseteq S
  <2>1. 0 \in S
    BY <1>1, <1>8
  <2>2. ASSUME NEW n \in 0 .. N - 1, n \in S PROVE n + 1 \in S
    <3> HIDE DEF Step
    <3>1. n + 1 \in 0 .. N /\ n + 1 # 0 /\ (n + 1) - 1 = n /\ n + 1 \in 1 .. N
      BY <1>1
    <3>2. kept[n + 1] = Step(n + 1, kept[n])
      BY <1>8, <3>1
    <3>3. Step(n + 1, kept[n]) \in T
      BY <1>2, <2>2, <3>1
    <3> QED
      BY <3>1, <3>2, <3>3
  <2> HIDE DEF S, N
  <2> QED
    BY <1>1, <2>1, <2>2, SetInduction
<1>10. kept[N] \in T
  BY <1>1, <1>9
<1> QED
  BY <1>7, <1>10 DEF T

-----------------------------------------------------------------------------
(* Sums of lengths.                                                        *)

(* f[k] is the sum of the first k of s. *)
Adds(f, s, n) == f[0] = 0 /\ \A k \in 1 .. n : f[k] = f[k - 1] + s[k]

LEMMA TotalIs ==
  ASSUME NEW s \in Seq(Nat)
  PROVE  \E f \in [0 .. Len(s) -> Nat] : Adds(f, s, Len(s)) /\ Total(s) = f[Len(s)]
<1> DEFINE N == Len(s)
           g == [p \in (1 .. N) \X Nat |-> p[2] + s[p[1]]]
           G(f) == [n \in 0 .. N |-> IF n = 0 THEN 0 ELSE f[n - 1] + s[n]]
           sum == CHOOSE f : f = G(f)
<1>1. N \in Nat /\ \A n \in 1 .. N : s[n] \in Nat
  OBVIOUS
<1>2. g \in [(1 .. N) \X Nat -> Nat]
  BY <1>1
<1>3. PICK f \in [0 .. N -> Nat] : Rounds(f, N, 0, g)
  <2> HIDE DEF g, N
  <2> QED
    BY <1>1, <1>2, LoopEnds
<1>4. f = G(f)
  <2>1. ASSUME NEW n \in 0 .. N PROVE f[n] = IF n = 0 THEN 0 ELSE f[n - 1] + s[n]
    <3>1. CASE n = 0
      BY <1>3, <3>1 DEF Rounds
    <3>2. CASE n # 0
      <4>0. n \in 1 .. N /\ n - 1 \in 0 .. N
        BY <1>1, <3>2
      <4>1. n \in 1 .. N /\ f[n - 1] \in Nat
        <5> HIDE DEF N
        <5> QED
          BY <4>0
      <4>2. f[n] = g[<<n, f[n - 1]>>]
        BY <1>3, <4>1 DEF Rounds
      <4> QED
        BY <3>2, <4>1, <4>2
    <3> QED
      BY <3>1, <3>2
  <2>2. f = [n \in 0 .. N |-> f[n]]
    OBVIOUS
  <2> QED
    BY <2>1, <2>2
<1>5. sum = G(sum)
  <2> HIDE DEF G
  <2> QED
    BY <1>4
<1>6. Total(s) = sum[N]
  BY DEF Total
<1> HIDE DEF sum
<1>7. \A n \in 0 .. N : sum[n] = IF n = 0 THEN 0 ELSE sum[n - 1] + s[n]
  BY <1>5
<1> DEFINE S == {n \in 0 .. N : sum[n] \in Nat}
<1>8. 0 .. N \subseteq S
  <2>1. 0 \in S
    BY <1>1, <1>7
  <2>2. ASSUME NEW n \in 0 .. N - 1, n \in S PROVE n + 1 \in S
    <3>1. n + 1 \in 0 .. N /\ n + 1 # 0 /\ (n + 1) - 1 = n /\ n + 1 \in 1 .. N
      BY <1>1
    <3>2. sum[n + 1] = sum[n] + s[n + 1]
      BY <1>7, <3>1
    <3>3. sum[n + 1] \in Nat
      BY <1>1, <2>2, <3>1, <3>2
    <3> QED
      BY <3>1, <3>3
  <2> HIDE DEF S, N
  <2> QED
    BY <1>1, <2>1, <2>2, SetInduction
<1>9. sum \in [0 .. N -> Nat]
  <2>1. sum = [n \in 0 .. N |-> sum[n]]
    BY <1>5
  <2>2. \A n \in 0 .. N : sum[n] \in Nat
    BY <1>8
  <2> HIDE DEF N
  <2> QED
    BY <2>1, <2>2
<1>10. Adds(sum, s, N)
  <2>1. ASSUME NEW k \in 1 .. N PROVE sum[k] = sum[k - 1] + s[k]
    BY <1>1, <1>7
  <2> QED
    BY <1>1, <1>7, <2>1 DEF Adds
<1> QED
  BY <1>6, <1>9, <1>10

(* From equal sums on, equal lengths give equal differences. *)
Shifted(f, g, m, n) == f[m + n] = f[m] + g[n]

LEMMA SumsShift ==
  ASSUME NEW m \in Nat, NEW n \in Nat, NEW f \in [0 .. m + n -> Nat], NEW g \in [0 .. n -> Nat],
         NEW s, NEW t, Adds(f, s, m + n), Adds(g, t, n), \A k \in 1 .. n : s[m + k] = t[k],
         \A k \in 1 .. n : t[k] \in Nat
  PROVE  Shifted(f, g, m, n)
<1> DEFINE S == {k \in 0 .. n : Shifted(f, g, m, k)}
<1>1. 0 \in S
  <2>1. g[0] = 0 /\ m + 0 = m /\ m \in 0 .. m + n /\ f[m] \in Nat
    BY DEF Adds
  <2> QED
    BY <2>1 DEF Shifted
<1>2. ASSUME NEW k \in 0 .. n - 1, k \in S PROVE k + 1 \in S
  <2>1. PICK j \in 1 .. n : j = k + 1
    OBVIOUS
  <2>2. j - 1 = k /\ m + j \in 1 .. m + n /\ (m + j) - 1 = m + k
        /\ k \in 0 .. n /\ m \in 0 .. m + n /\ j \in 0 .. n
    BY <2>1
  <2>3. g[j] = g[k] + t[j]
    BY <2>2 DEF Adds
  <2>4. f[m + j] = f[m + k] + s[m + j]
    BY <2>2 DEF Adds
  <2>5. f[m + k] = f[m] + g[k]
    BY <1>2 DEF Shifted
  <2>6. PICK a \in Nat, b \in Nat, c \in Nat : a = f[m] /\ b = g[k] /\ c = t[j]
    BY <2>2
  <2>7. f[m + j] = (a + b) + c /\ g[j] = b + c
    BY <2>3, <2>4, <2>5, <2>6
  <2>8. (a + b) + c = a + (b + c)
    OBVIOUS
  <2>9. f[m + j] = f[m] + g[j]
    BY <2>6, <2>7, <2>8
  <2> QED
    BY <2>1, <2>2, <2>9 DEF Shifted
<1>3. n \in S
  <2> HIDE DEF S
  <2>1. 0 .. n \subseteq S
    BY <1>1, <1>2, SetInduction
  <2> QED
    BY <2>1
<1> QED
  BY <1>3

LEMMA SumsAgree ==
  ASSUME NEW n \in Nat, NEW N \in Nat, n <= N, NEW f \in [0 .. N -> Nat], NEW g \in [0 .. n -> Nat],
         NEW s, NEW t, Adds(f, s, N), Adds(g, t, n), \A k \in 1 .. n : s[k] = t[k]
  PROVE  f[n] = g[n]
<1> DEFINE S == {k \in 0 .. n : f[k] = g[k]}
<1>1. 0 \in S
  BY DEF Adds
<1>2. ASSUME NEW k \in 0 .. n - 1, k \in S PROVE k + 1 \in S
  <2>1. PICK j \in 1 .. n : j = k + 1
    OBVIOUS
  <2>2. j - 1 = k /\ j \in 1 .. N /\ j \in 0 .. n
    BY <2>1
  <2>3. f[j] = f[k] + s[j] /\ g[j] = g[k] + t[j]
    BY <2>2 DEF Adds
  <2>4. f[j] = g[j]
    BY <1>2, <2>3
  <2> QED
    BY <2>1, <2>2, <2>4
<1>3. n \in S
  <2> HIDE DEF S
  <2>1. 0 .. n \subseteq S
    BY <1>1, <1>2, SetInduction
  <2> QED
    BY <2>1
<1> QED
  BY <1>3

LEMMA TotalOfConcat ==
  ASSUME NEW s \in Seq(Nat), NEW t \in Seq(Nat)
  PROVE  Total(s \o t) = Total(s) + Total(t) /\ Total(s) \in Nat
<1>1. PICK m \in Nat, n \in Nat : m = Len(s) /\ n = Len(t)
  OBVIOUS
<1>2. PICK u \in Seq(Nat) : u = s \o t
  BY ConcatProperties
<1>3. /\ Len(u) = m + n /\ (\A k \in 1 .. m : u[k] = s[k])
      /\ \A i \in 1 .. m + n : u[i] = IF i <= m THEN s[i] ELSE t[i - m]
  BY <1>1, <1>2
<1>4. ASSUME NEW k \in 1 .. n PROVE u[m + k] = t[k] /\ t[k] \in Nat
  <2>1. m + k \in 1 .. m + n /\ ~(m + k <= m) /\ (m + k) - m = k
    OBVIOUS
  <2>2. t[k] \in Nat
    BY <1>1
  <2> QED
    BY <1>3, <2>1, <2>2
<1>5. PICK f \in [0 .. m + n -> Nat] : Adds(f, u, m + n) /\ Total(u) = f[m + n]
  BY <1>3, TotalIs
<1>6. PICK g \in [0 .. m -> Nat] : Adds(g, s, m) /\ Total(s) = g[m]
  BY <1>1, TotalIs
<1>7. PICK h \in [0 .. n -> Nat] : Adds(h, t, n) /\ Total(t) = h[n]
  BY <1>1, TotalIs
<1>8. f[m] = g[m]
  <2>1. PICK N \in Nat : N = m + n
    OBVIOUS
  <2>2. m <= N /\ f \in [0 .. N -> Nat] /\ Adds(f, u, N)
    BY <1>5, <2>1
  <2> QED
    BY <1>3, <1>6, <2>2, SumsAgree
<1>9. Shifted(f, h, m, n)
  BY <1>4, <1>5, <1>7, SumsShift
<1> QED
  BY <1>2, <1>5, <1>6, <1>7, <1>8, <1>9 DEF Shifted

(* A string begins where the strings before it end. *)
LEMMA TotalOfPrefix ==
  ASSUME NEW s \in Seq(Nat), NEW f \in [0 .. Len(s) -> Nat], Adds(f, s, Len(s)), NEW m \in 0 .. Len(s)
  PROVE  Total(SubSeq(s, 1, m)) = f[m]
<1>1. PICK N \in Nat : N = Len(s)
  OBVIOUS
<1>2. m \in Nat /\ m <= N
  BY <1>1
<1>3. PICK t \in Seq(Nat) : t = SubSeq(s, 1, m)
  OBVIOUS
<1>4. Len(t) = m /\ \A k \in 1 .. m : s[k] = t[k]
  BY <1>1, <1>2, <1>3
<1>5. PICK g \in [0 .. m -> Nat] : Adds(g, t, m) /\ Total(t) = g[m]
  BY <1>4, TotalIs
<1>6. f[m] = g[m]
  BY <1>1, <1>2, <1>4, <1>5, SumsAgree
<1> QED
  BY <1>3, <1>5, <1>6

(* The strings of e lie one behind the other behind its pointers and       *)
(* before the end of its memory.                                           *)
Fits(e) ==
  /\ Len(e.copied) + 1 = e.slots
  /\ \A i \in DOMAIN e.copied :
       /\ e.copied[i].at >= e.slots * PTR
       /\ e.copied[i].at + e.copied[i].len <= IF i = Len(e.copied) THEN e.size ELSE e.copied[i + 1].at

LEMMA OneMore ==
  ASSUME NEW s \in Seq(Nat), NEW t, t = [i \in DOMAIN s |-> s[i] + 1]
  PROVE  t \in Seq(Nat) /\ Len(t) = Len(s) /\ Len(s) \in Nat
<1>1. PICK n \in Nat : DOMAIN s = 1 .. n /\ Len(s) = n /\ s \in [1 .. n -> Nat]
  BY LenProperties
<1>2. t \in [1 .. n -> Nat]
  BY <1>1
<1> QED
  BY <1>1, <1>2

LEMMA BuiltFits ==
  ASSUME NEW clean \in Seq(Nat), NEW preserve \in Seq(VarT), NEW add \in Seq(Nat),
         NEW e, e = build_clean_environ(clean, preserve, add, PTR)
  PROVE  Fits(e)
<1>1. PICK ins \in Seq(SetT) : ins = InEnviron(preserve)
  BY InEnvironType
<1>0. ASSUME NEW i \in DOMAIN ins PROVE ins[i].name \in Nat /\ ins[i].value \in Nat
  <2>1. ins[i] \in SetT
    BY LenProperties
  <2> QED
    BY <2>1 DEF SetT
<1>2. PICK a : a = [i \in DOMAIN clean |-> clean[i] + 1]
  OBVIOUS
<1>3. PICK b : b = [i \in DOMAIN ins |-> ins[i].name + 1 + (ins[i].value + 1)]
  OBVIOUS
<1>4. PICK c : c = [i \in DOMAIN add |-> add[i] + 1]
  OBVIOUS
<1>5. a \in Seq(Nat) /\ Len(a) = Len(clean) /\ Len(clean) \in Nat
  BY <1>2, OneMore
<1>6. b \in Seq(Nat) /\ Len(b) = Len(ins) /\ Len(ins) \in Nat
  <2>1. ASSUME NEW i \in DOMAIN ins PROVE ins[i].name + 1 + (ins[i].value + 1) \in Nat
    BY <1>0
  <2>2. PICK n \in Nat : DOMAIN ins = 1 .. n /\ Len(ins) = n
    BY LenProperties
  <2>3. b \in [1 .. n -> Nat]
    BY <1>3, <2>1, <2>2
  <2> QED
    BY <2>2, <2>3
<1>7. c \in Seq(Nat) /\ Len(c) = Len(add) /\ Len(add) \in Nat
  BY <1>4, OneMore
<1>8. b = [i \in DOMAIN ins |-> SizeOf(ins[i])]
  <2>1. ASSUME NEW i \in DOMAIN ins PROVE ins[i].name + 1 + (ins[i].value + 1) = SizeOf(ins[i])
    <3>1. PICK x \in Nat, y \in Nat : x = ins[i].name /\ y = ins[i].value
      BY <1>0
    <3>2. x + 1 + (y + 1) = x + y + 2
      OBVIOUS
    <3> QED
      BY <3>1, <3>2 DEF SizeOf
  <2> QED
    BY <1>3, <2>1
<1>9. PICK ab \in Seq(Nat) : ab = a \o b /\ Len(ab) = Len(a) + Len(b)
  BY <1>5, <1>6, ConcatProperties
<1>l. PICK lengths \in Seq(Nat) : lengths = ab \o c /\ Len(lengths) = Len(ab) + Len(c)
  BY <1>7, ConcatProperties
<1>10. CopiedLengths(clean, preserve, add) = lengths
  BY <1>1, <1>2, <1>3, <1>4, <1>9, <1>l DEF CopiedLengths
<1>11. PICK slots : slots = CountedEntries(clean, preserve, add)
  OBVIOUS
<1>12. slots \in Nat /\ Len(lengths) + 1 = slots
  <2>1. Len(lengths) = (Len(a) + Len(b)) + Len(c)
    BY <1>9, <1>l
  <2>2. slots = 1 + Len(a) + Len(b) + Len(c)
    BY <1>1, <1>5, <1>6, <1>7, <1>11 DEF CountedEntries
  <2>3. Len(a) \in Nat /\ Len(b) \in Nat /\ Len(c) \in Nat
    BY <1>5, <1>6, <1>7
  <2> QED
    BY <2>1, <2>2, <2>3
<1>13. CountedSize(clean, preserve, add) = Total(lengths)
  <2>1. CountedSize(clean, preserve, add) = Total(a) + Total(b) + Total(c)
    BY <1>1, <1>2, <1>4, <1>8 DEF CountedSize
  <2>2. Total(a \o b) = Total(a) + Total(b)
    BY <1>5, <1>6, TotalOfConcat
  <2>3. Total(ab \o c) = Total(ab) + Total(c)
    BY <1>7, TotalOfConcat
  <2> QED
    BY <1>9, <1>l, <2>1, <2>2, <2>3
<1>14. PICK N \in Nat : N = Len(lengths)
  OBVIOUS
<1>15. PICK f \in [0 .. N -> Nat] : Adds(f, lengths, N) /\ Total(lengths) = f[N]
  BY <1>14, TotalIs
<1>16. PICK base \in Nat : base = slots * PTR
  BY <1>12, LengthsAssumption
<1>17. /\ e.size = f[N] + base /\ e.slots = slots
       /\ e.copied = [i \in 1 .. N |-> [at |-> base + Total(SubSeq(lengths, 1, i - 1)), len |-> lengths[i]]]
  <2>1. DOMAIN lengths = 1 .. N
    BY <1>14
  <2> QED
    BY <1>10, <1>11, <1>13, <1>15, <1>16, <2>1 DEF build_clean_environ
<1>18. ASSUME NEW i \in 1 .. N
       PROVE  e.copied[i].at = base + f[i - 1] /\ e.copied[i].at + e.copied[i].len = base + f[i]
              /\ f[i] \in Nat /\ f[i - 1] \in Nat
  <2>1. PICK m \in 0 .. N : m = i - 1
    OBVIOUS
  <2>2. Total(SubSeq(lengths, 1, m)) = f[m]
    BY <1>14, <1>15, TotalOfPrefix
  <2>3. f[i] = f[m] + lengths[i]
    BY <1>15, <2>1 DEF Adds
  <2>4. e.copied[i].at = base + f[m] /\ e.copied[i].len = lengths[i]
    BY <1>17, <2>1, <2>2
  <2>5. i \in 0 .. N
    OBVIOUS
  <2>6. f[m] \in Nat /\ lengths[i] \in Nat /\ f[i] \in Nat
    <3>1. lengths[i] \in Nat
      BY <1>14, ElementOfSeq
    <3> QED
      BY <2>5, <3>1
  <2>7. (base + f[m]) + lengths[i] = base + (f[m] + lengths[i])
    BY <2>6
  <2> QED
    BY <2>1, <2>3, <2>4, <2>6, <2>7
<1>19. Len(e.copied) = N /\ DOMAIN e.copied = 1 .. N
  BY <1>17
<1>20. ASSUME NEW i \in 1 .. N
       PROVE  /\ e.copied[i].at >= base
              /\ e.copied[i].at + e.copied[i].len <= IF i = N THEN e.size ELSE e.copied[i + 1].at
  <2>1. e.copied[i].at >= base
    <3>1. PICK x \in Nat : x = f[i - 1]
      BY <1>18
    <3>2. e.copied[i].at = base + x
      BY <1>18, <3>1
    <3>3. base + x >= base
      OBVIOUS
    <3> QED
      BY <3>2, <3>3
  <2>2. CASE i = N
    <3>1. e.size = base + f[N] /\ f[N] \in Nat
      BY <1>17
    <3> QED
      BY <1>18, <2>1, <2>2, <3>1
  <2>3. CASE i # N
    <3>1. PICK j \in 1 .. N : j = i + 1 /\ j - 1 = i
      BY <2>3
    <3>2. e.copied[j].at = base + f[i]
      BY <1>18, <3>1
    <3>3. f[i] \in Nat
      BY <1>18
    <3>4. e.copied[i].at + e.copied[i].len = base + f[i]
      BY <1>18
    <3>5. base + f[i] <= base + f[i]
      BY <3>3
    <3> QED
      BY <2>1, <2>3, <3>1, <3>2, <3>4, <3>5
  <2> QED
    BY <2>2, <2>3
<1> QED
  BY <1>12, <1>14, <1>16, <1>17, <1>19, <1>20 DEF Fits

-----------------------------------------------------------------------------
(* The types.                                                              *)

USE FDsAssumption, KidsAssumption

Which == {"uid", "gid"}
IdType == [r : Ids, e : Ids, s : Ids]
Creds == [uid : IdType, gid : IdType, groups : SUBSET Ids]

Answered(d) == d \in [ok : BOOLEAN, creds : Creds]

-----------------------------------------------------------------------------
(* The system calls.                                                       *)

LEMMA SetgroupsDoes ==
  ASSUME NEW c \in Creds, NEW g \in SUBSET Ids, NEW fail,
         NEW d, d = setgroups(c, g, fail)
  PROVE  /\ Answered(d)
         /\ d.creds.uid = c.uid /\ d.creds.gid = c.gid
         /\ d.creds.groups = IF d.ok THEN g ELSE c.groups
         /\ d.ok <=> Privileged(c) /\ "setgroups" \notin fail
<1>1. CASE Privileged(c) /\ "setgroups" \notin fail
  <2>1. d = [ok |-> TRUE, creds |-> [c EXCEPT !.groups = g]]
    BY <1>1 DEF setgroups, Did
  <2>2. [c EXCEPT !.groups = g] \in Creds
    BY DEF Creds
  <2> QED
    BY <1>1, <2>1, <2>2 DEF Answered, Creds
<1>2. CASE ~(Privileged(c) /\ "setgroups" \notin fail)
  BY <1>2 DEF setgroups, Failed, Answered
<1> QED
  BY <1>1, <1>2

LEMMA SeteDoes ==
  ASSUME NEW c \in Creds, NEW w \in Which, NEW e \in Ids, NEW fail,
         NEW d, d = sete(c, w, e, fail)
  PROVE  /\ Answered(d) /\ d.creds.groups = c.groups
         /\ \A v \in Which : d.creds[v].r = c[v].r /\ d.creds[v].s = c[v].s
         /\ \A v \in Which : d.creds[v].e = IF v = w /\ d.ok THEN e ELSE c[v].e
         /\ ~d.ok => d.creds = c
         /\ d.ok <=> (Privileged(c) \/ e \in {c[w].r, c[w].e, c[w].s}) /\ SETE[w] \notin fail
<1> DEFINE may == (Privileged(c) \/ e \in {c[w].r, c[w].e, c[w].s}) /\ SETE[w] \notin fail
           new == [c[w] EXCEPT !.e = e]
<1>1. d = IF may THEN [ok |-> TRUE, creds |-> [c EXCEPT ![w] = new]]
                                   ELSE [ok |-> FALSE, creds |-> c]
  BY DEF sete, Did, Failed
<1>2. /\ new \in IdType /\ new.r = c[w].r /\ new.s = c[w].s /\ new.e = e
  BY DEF Creds, IdType, Which
<1> HIDE DEF may, new
<1>3. /\ [c EXCEPT ![w] = new] \in Creds /\ [c EXCEPT ![w] = new].groups = c.groups
      /\ \A v \in Which : [c EXCEPT ![w] = new][v] = IF v = w THEN new ELSE c[v]
  BY <1>2 DEF Creds, Which
<1>4. CASE may
  BY <1>1, <1>2, <1>3, <1>4 DEF may, Answered
<1>5. CASE ~may
  BY <1>1, <1>5 DEF may, Answered
<1> QED
  BY <1>4, <1>5

(* setre, asked for the real id of the process. *)
ReDone(c, w, r, d) ==
  /\ Answered(d) /\ d.creds.groups = c.groups
  /\ \A v \in Which : d.creds[v].r = c[v].r
  /\ \A v \in Which : d.creds[v].e = IF v = w /\ d.ok THEN c[w].r ELSE c[v].e
  /\ \A v \in Which : d.creds[v].s = IF v = w /\ d.ok /\ r # LEAVE_UNCHANGED THEN c[w].r ELSE c[v].s

LEMMA SetreDoes ==
  ASSUME NEW c \in Creds, NEW w \in Which, NEW r \in {LEAVE_UNCHANGED, c[w].r}, NEW fail,
         NEW d, d = setre(c, w, r, c[w].r, fail)
  PROVE  ReDone(c, w, r, d)
<1> DEFINE may == SETRE[w] \notin fail
           new == [r |-> c[w].r, e |-> c[w].r, s |-> IF r # LEAVE_UNCHANGED THEN c[w].r ELSE c[w].s]
<1>0. c[w] \in IdType
  BY DEF Creds, Which
<1>1. d = IF may THEN [ok |-> TRUE, creds |-> [c EXCEPT ![w] = new]]
                                            ELSE [ok |-> FALSE, creds |-> c]
  BY DEF setre, Did, Failed
<1>2. new \in IdType
  BY <1>0 DEF IdType
<1> DEFINE n == new
<1>3. n.r = c[w].r /\ n.e = c[w].r /\ n.s = IF r # LEAVE_UNCHANGED THEN c[w].r ELSE c[w].s
  OBVIOUS
<1> HIDE DEF may, new, n
<1>4. /\ [c EXCEPT ![w] = new] \in Creds /\ [c EXCEPT ![w] = new].groups = c.groups
      /\ \A v \in Which : [c EXCEPT ![w] = new][v] = IF v = w THEN new ELSE c[v]
  BY <1>2 DEF Creds, Which
<1>5. CASE may
  BY <1>1, <1>3, <1>4, <1>5 DEF may, n, Answered, ReDone
<1>6. CASE ~may
  BY <1>1, <1>6 DEF may, Answered, ReDone
<1> QED
  BY <1>5, <1>6

(* The three stages of drop_privileges. *)
GroupsSet(c, fail) == IF c.uid.e = ROOT_UID THEN setgroups(c, {c.gid.r}, fail) ELSE Did(c)
GidsSet(c, permanent, fail) ==
  LET g == GroupsSet(c, fail)
  IN  IF g.ok /\ c.gid.r # c.gid.e
        THEN setre(g.creds, "gid", RealId(permanent, c.gid.r), c.gid.r, fail) ELSE g
UidsSet(c, permanent, fail) ==
  LET g == GidsSet(c, permanent, fail)
  IN  IF g.ok /\ c.uid.r # c.uid.e
        THEN setre(g.creds, "uid", RealId(permanent, c.uid.r), c.uid.r, fail) ELSE g

LEMMA DropStages ==
  ASSUME NEW c, NEW permanent \in BOOLEAN, NEW fail
  PROVE  drop_privileges(c, permanent, fail) =
           LET u == UidsSet(c, permanent, fail) IN
           CASE ~permanent /\ "getgroups" \in fail -> Failed(c)
             [] ~permanent /\ "getgroups" \notin fail ->
                  [u EXCEPT !.ok = @ /\ u.creds.gid.e = c.gid.r /\ u.creds.uid.e = c.uid.r]
             [] OTHER ->
                  VerifiedGone(VerifiedGone(u, "gid", c.gid.e, c.gid.r, fail), "uid", c.uid.e, c.uid.r, fail)
BY DEF drop_privileges, UidsSet, GidsSet, GroupsSet

LEMMA GroupsSetDoes ==
  ASSUME NEW c \in Creds, NEW fail,
         NEW d, d = GroupsSet(c, fail)
  PROVE  /\ Answered(d) /\ d.creds.uid = c.uid /\ d.creds.gid = c.gid
         /\ d.creds.groups \in {c.groups, {c.gid.r}}
         /\ c.uid.e # ROOT_UID => d.creds.groups = c.groups
<1>1. c.gid.r \in Ids
  BY DEF Creds, IdType
<1>2. CASE c.uid.e = ROOT_UID
  <2>1. d = setgroups(c, {c.gid.r}, fail) /\ {c.gid.r} \in SUBSET Ids
    BY <1>1, <1>2 DEF GroupsSet
  <2>2. /\ Answered(d) /\ d.creds.uid = c.uid /\ d.creds.gid = c.gid
        /\ d.creds.groups = IF d.ok THEN {c.gid.r} ELSE c.groups
    BY <2>1, SetgroupsDoes
  <2> QED
    BY <1>2, <2>2
<1>3. CASE c.uid.e # ROOT_UID
  BY <1>3 DEF GroupsSet, Did, Answered
<1> QED
  BY <1>2, <1>3

(* A later stage, for one of the ids. *)
Stage(c, w, permanent, g, d) ==
  /\ Answered(d) /\ d.creds.groups = g.creds.groups
  /\ d.ok => g.ok
  /\ \A v \in Which : v # w => d.creds[v] = g.creds[v]
  /\ d.creds[w].r = c[w].r /\ d.creds[w].e \in {c[w].e, c[w].r}
  /\ d.ok => d.creds[w].e = c[w].r
  /\ ~permanent => d.creds[w].s = c[w].s
  /\ permanent /\ d.ok => d.creds[w].s = IF c[w].r # c[w].e THEN c[w].r ELSE c[w].s

LEMMA StageDoes ==
  ASSUME NEW c \in Creds, NEW w \in Which, NEW permanent \in BOOLEAN, NEW fail, NEW g, Answered(g),
         g.creds[w] = c[w],
         NEW d, d = IF g.ok /\ c[w].r # c[w].e
                      THEN setre(g.creds, w, RealId(permanent, c[w].r), c[w].r, fail) ELSE g
  PROVE  Stage(c, w, permanent, g, d)
<1>0. g.creds \in Creds /\ g.ok \in BOOLEAN /\ c[w] \in IdType
  BY DEF Answered, Creds, Which
<1>1. CASE g.ok /\ c[w].r # c[w].e
  <2> DEFINE r == RealId(permanent, c[w].r)
  <2>1. r \in {LEAVE_UNCHANGED, g.creds[w].r} /\ (r # LEAVE_UNCHANGED <=> permanent)
    <3>1. c[w].r \in Ids /\ c[w].r # -1
      BY <1>0 DEF IdType
    <3> QED
      BY <3>1 DEF RealId, LEAVE_UNCHANGED
  <2> HIDE DEF r
  <2>2. d = setre(g.creds, w, r, g.creds[w].r, fail)
    BY <1>1 DEF r
  <2>3. /\ Answered(d) /\ d.creds.groups = g.creds.groups
        /\ \A v \in Which : d.creds[v].r = g.creds[v].r
        /\ \A v \in Which : d.creds[v].e = IF v = w /\ d.ok THEN g.creds[w].r ELSE g.creds[v].e
        /\ \A v \in Which : d.creds[v].s = IF v = w /\ d.ok /\ r # LEAVE_UNCHANGED
                                             THEN g.creds[w].r ELSE g.creds[v].s
    <3>1. ReDone(g.creds, w, r, d)
      BY <1>0, <2>1, <2>2, SetreDoes
    <3> QED
      BY <3>1 DEF ReDone
  <2>5. Answered(d) /\ d.creds \in Creds
    BY <2>3 DEF Answered
  <2>6. ASSUME NEW v \in Which, v # w PROVE d.creds[v] = g.creds[v]
    <3>1. d.creds[v] \in IdType /\ g.creds[v] \in IdType
      BY <1>0, <2>5 DEF Creds, Which
    <3>2. /\ d.creds[v].r = g.creds[v].r /\ d.creds[v].e = g.creds[v].e
          /\ d.creds[v].s = g.creds[v].s
      BY <2>3, <2>6
    <3> QED
      BY <3>1, <3>2 DEF IdType
  <2> QED
    BY <1>1, <2>1, <2>3, <2>5, <2>6 DEF Stage
<1>2. CASE ~(g.ok /\ c[w].r # c[w].e)
  BY <1>0, <1>2 DEF Stage
<1> QED
  BY <1>1, <1>2

(* All of them. *)
Stages(c, permanent, d) ==
  /\ Answered(d)
  /\ d.creds.groups \in {c.groups, {c.gid.r}}
  /\ c.uid.e # ROOT_UID => d.creds.groups = c.groups
  /\ \A v \in Which : /\ d.creds[v].r = c[v].r /\ d.creds[v].e \in {c[v].e, c[v].r}
                      /\ d.ok => d.creds[v].e = c[v].r
                      /\ ~permanent => d.creds[v].s = c[v].s
                      /\ permanent /\ d.ok =>
                           d.creds[v].s = IF c[v].r # c[v].e THEN c[v].r ELSE c[v].s

LEMMA StagesDo ==
  ASSUME NEW c \in Creds, NEW permanent \in BOOLEAN, NEW fail,
         NEW d, d = UidsSet(c, permanent, fail)
  PROVE  Stages(c, permanent, d)
<1> DEFINE a == GroupsSet(c, fail)
           g == GidsSet(c, permanent, fail)
<1>1. /\ Answered(a) /\ a.creds.uid = c.uid /\ a.creds.gid = c.gid
      /\ a.creds.groups \in {c.groups, {c.gid.r}}
      /\ c.uid.e # ROOT_UID => a.creds.groups = c.groups
  BY GroupsSetDoes
<1>2. g = IF a.ok /\ c.gid.r # c.gid.e
            THEN setre(a.creds, "gid", RealId(permanent, c.gid.r), c.gid.r, fail) ELSE a
  BY DEF GidsSet
<1>3. d = IF g.ok /\ c.uid.r # c.uid.e
            THEN setre(g.creds, "uid", RealId(permanent, c.uid.r), c.uid.r, fail) ELSE g
  BY DEF UidsSet
<1> HIDE DEF a, g
<1>4. "uid" \in Which /\ "gid" \in Which /\ \A v \in Which : v = "uid" \/ v = "gid"
  BY DEF Which
<1>5. Stage(c, "gid", permanent, a, g)
  BY <1>1, <1>2, <1>4, StageDoes
<1>6. Stage(c, "uid", permanent, g, d)
  <2>1. g.creds["uid"] = c["uid"] /\ Answered(g)
    BY <1>1, <1>4, <1>5 DEF Stage
  <2> QED
    BY <1>3, <1>4, <2>1, StageDoes
<1>7. \A v \in Which : /\ d.creds[v].r = c[v].r /\ d.creds[v].e \in {c[v].e, c[v].r}
                       /\ d.ok => d.creds[v].e = c[v].r
                       /\ ~permanent => d.creds[v].s = c[v].s
                       /\ permanent /\ d.ok =>
                            d.creds[v].s = IF c[v].r # c[v].e THEN c[v].r ELSE c[v].s
  BY <1>4, <1>5, <1>6 DEF Stage
<1> QED
  BY <1>1, <1>5, <1>6, <1>7 DEF Stage, Stages

LEMMA FailedAnswers ==
  ASSUME NEW c \in Creds, NEW d, d = Failed(c)
  PROVE  ~d.ok /\ d.creds = c /\ Answered(d)
BY DEF Failed, Answered

(* A temporary drop. *)
LEMMA DropKeeps ==
  ASSUME NEW c \in Creds, NEW fail, NEW d, d = drop_privileges(c, FALSE, fail)
  PROVE  /\ Answered(d) /\ (d.ok => "getgroups" \notin fail)
         /\ d.creds.groups \in {c.groups, {c.gid.r}}
         /\ c.uid.e # ROOT_UID => d.creds.groups = c.groups
         /\ \A v \in Which : /\ d.creds[v].r = c[v].r /\ d.creds[v].s = c[v].s
                             /\ d.creds[v].e \in {c[v].e, c[v].r}
<1> DEFINE u == UidsSet(c, FALSE, fail)
           ok == u.ok /\ u.creds.gid.e = c.gid.r /\ u.creds.uid.e = c.uid.r
<1>1. d = IF "getgroups" \in fail THEN Failed(c) ELSE [u EXCEPT !.ok = ok]
  BY DropStages
<1>2. Stages(c, FALSE, u)
  BY StagesDo
<1>3. u \in [ok : BOOLEAN, creds : Creds] /\ ok \in BOOLEAN
  BY <1>2 DEF Stages, Answered
<1> HIDE DEF u, ok
<1>4. CASE "getgroups" \in fail
  <2>1. d = Failed(c)
    BY <1>1, <1>4
  <2>2. ~d.ok /\ d.creds = c /\ Answered(d)
    BY <2>1, FailedAnswers
  <2> QED
    BY <2>2
<1>5. CASE "getgroups" \notin fail
  <2>1. d.creds = u.creds /\ Answered(d)
    BY <1>1, <1>3, <1>5 DEF Answered
  <2> QED
    BY <1>2, <1>5, <2>1 DEF Stages
<1> QED
  BY <1>4, <1>5

(* A permanent drop that answers TRUE of a process whose effective ids are *)
(* its saved ones.                                                         *)
Verified(d, g) == Answered(g) /\ (g.ok => d.ok /\ g.creds = d.creds)

LEMMA VerifiedGoneDoes ==
  ASSUME NEW d, Answered(d), NEW w \in Which, NEW old \in Ids, NEW new \in Ids, NEW fail,
         NEW g, g = VerifiedGone(d, w, old, new, fail)
  PROVE  Verified(d, g)
<1>1. CASE ~d.ok \/ new = old
  BY <1>1 DEF VerifiedGone, Verified
<1>2. CASE ~(~d.ok \/ new = old)
  <2> DEFINE back == sete(d.creds, w, old, fail)
             ok == ~back.ok /\ back.creds[w].e = new
  <2>1. Answered(back) /\ (~back.ok => back.creds = d.creds)
    BY SeteDoes DEF Answered
  <2>2. g = [ok |-> ok, creds |-> back.creds]
    BY <1>2 DEF VerifiedGone
  <2>3. back.creds \in Creds /\ ok \in BOOLEAN /\ (ok => ~back.ok)
    BY <2>1 DEF Answered
  <2> HIDE DEF back, ok
  <2> QED
    BY <1>2, <2>1, <2>2, <2>3 DEF Answered, Verified
<1> QED
  BY <1>1, <1>2

AllReal(id) == [f \in {"r", "e", "s"} |-> id]

GoneForGood(c, d) == /\ Answered(d)
                     /\ d.ok => \A v \in Which : c[v].e = c[v].s => d.creds[v] = AllReal(c[v].r)

LEMMA DropForGood ==
  ASSUME NEW c \in Creds, NEW fail, NEW d, d = drop_privileges(c, TRUE, fail)
  PROVE  GoneForGood(c, d)
<1> DEFINE u == UidsSet(c, TRUE, fail)
           g == VerifiedGone(u, "gid", c.gid.e, c.gid.r, fail)
<1>1. d = VerifiedGone(g, "uid", c.uid.e, c.uid.r, fail)
  BY DropStages
<1>2. Stages(c, TRUE, u)
  BY StagesDo
<1>3. c.gid.e \in Ids /\ c.gid.r \in Ids /\ c.uid.e \in Ids /\ c.uid.r \in Ids
  BY DEF Creds, IdType
<1>4. Answered(u)
  BY <1>2 DEF Stages
<1>8. g = VerifiedGone(u, "gid", c.gid.e, c.gid.r, fail) /\ "gid" \in Which /\ "uid" \in Which
  BY DEF Which
<1> HIDE DEF u, g
<1>5. Verified(u, g)
  BY <1>3, <1>4, <1>8, VerifiedGoneDoes
<1>9. Answered(g)
  BY <1>5 DEF Verified
<1>6. Verified(g, d)
  BY <1>1, <1>3, <1>8, <1>9, VerifiedGoneDoes
<1>7. ASSUME d.ok, NEW v \in Which, c[v].e = c[v].s
      PROVE  d.creds[v] = AllReal(c[v].r)
  <2>1. d.creds = u.creds /\ u.ok
    BY <1>5, <1>6, <1>7 DEF Verified
  <2>2. d.creds[v].r = c[v].r /\ d.creds[v].e = c[v].r /\ d.creds[v].s = c[v].r
    BY <1>2, <1>7, <2>1 DEF Stages
  <2>3. d.creds[v] \in IdType
    BY <1>6 DEF Verified, Answered, Creds, Which
  <2> QED
    BY <2>2, <2>3 DEF IdType, AllReal
<1> QED
  BY <1>6, <1>7 DEF Verified, GoneForGood

(* Restoring. *)
IdRestored(d, w, old, fail, g) ==
  /\ Answered(g) /\ g.creds.groups = d.creds.groups /\ (g.ok => d.ok)
  /\ \A v \in Which : g.creds[v].r = d.creds[v].r /\ g.creds[v].s = d.creds[v].s
  /\ \A v \in Which : v # w => g.creds[v].e = d.creds[v].e
  /\ g.creds[w].e \in {old, d.creds[w].e} /\ (g.ok => g.creds[w].e = old)
  /\ d.ok /\ fail = {} /\ old \in {d.creds[w].r, d.creds[w].e, d.creds[w].s} => g.ok

LEMMA RestoreIdDoes ==
  ASSUME NEW d, Answered(d), NEW w \in Which, NEW old \in Ids, NEW fail,
         NEW g, g = RestoreId(d, w, old, fail)
  PROVE  IdRestored(d, w, old, fail, g)
<1>0. d.creds \in Creds /\ d.ok \in BOOLEAN
  BY DEF Answered
<1>1. CASE d.ok /\ d.creds[w].e # old
  <2>1. g = sete(d.creds, w, old, fail)
    BY <1>1 DEF RestoreId
  <2> QED
    BY <1>0, <1>1, <2>1, SeteDoes DEF IdRestored
<1>2. CASE ~(d.ok /\ d.creds[w].e # old)
  BY <1>0, <1>2 DEF RestoreId, IdRestored
<1> QED
  BY <1>1, <1>2

LEMMA RestoreGroupsDoes ==
  ASSUME NEW d, Answered(d), NEW o, o.uid \in Ids, o.groups \in SUBSET Ids, NEW fail,
         NEW g, g = RestoreGroups(d, o, fail)
  PROVE  /\ Answered(g) /\ (g.ok => d.ok)
         /\ \A v \in Which : g.creds[v] = d.creds[v]
         /\ g.creds.groups = d.creds.groups \/ (g.creds.groups = o.groups /\ o.groups # {})
         /\ g.ok /\ o.uid = ROOT_UID => g.creds.groups = o.groups /\ o.groups # {}
         /\ o.uid # ROOT_UID => g.creds.groups = d.creds.groups
         /\ d.ok /\ fail = {} /\ (o.uid = ROOT_UID => o.groups # {} /\ d.creds.uid.e = ROOT_UID) => g.ok
<1>0. d.creds \in Creds /\ d.ok \in BOOLEAN
  BY DEF Answered
<1>1. CASE ~d.ok \/ o.uid # ROOT_UID
  BY <1>0, <1>1 DEF RestoreGroups
<1>2. CASE d.ok /\ o.uid = ROOT_UID /\ o.groups = {}
  <2>1. g = [ok |-> FALSE, creds |-> d.creds]
    BY <1>2 DEF RestoreGroups, Failed
  <2> QED
    BY <1>0, <1>2, <2>1 DEF Answered
<1>3. CASE d.ok /\ o.uid = ROOT_UID /\ o.groups # {}
  <2>1. g = setgroups(d.creds, o.groups, fail)
    BY <1>3 DEF RestoreGroups
  <2>2. /\ Answered(g) /\ g.creds.uid = d.creds.uid /\ g.creds.gid = d.creds.gid
        /\ g.creds.groups = IF g.ok THEN o.groups ELSE d.creds.groups
        /\ g.ok <=> Privileged(d.creds) /\ "setgroups" \notin fail
    BY <1>0, <2>1, SetgroupsDoes
  <2> QED
    BY <1>3, <2>2 DEF Which, Privileged
<1> QED
  BY <1>1, <1>2, <1>3

-----------------------------------------------------------------------------
(* The credentials of the parent.                                          *)

CredsOK == /\ creds \in Creds /\ creds.groups # {}
           /\ \A v \in Which : creds[v].e \in {creds[v].r, creds[v].s}

(* What is known of the last temporary drop until it is restored. *)
DropKnown == orig # NULL =>
  /\ before.creds \in Creds /\ before.creds.groups # {}
  /\ orig.uid = before.creds.uid.e /\ orig.gid = before.creds.gid.e
  /\ orig.groups \in {before.creds.groups, {}}
  /\ before.ok => orig.groups = before.creds.groups
  /\ before.creds.uid.e # ROOT_UID => creds.groups = before.creds.groups
  /\ \A v \in Which : /\ creds[v].r = before.creds[v].r /\ creds[v].s = before.creds[v].s
                      /\ before.creds[v].e \in {creds[v].r, creds[v].s}

LEMMA DropKnownInductive ==
  ASSUME CredsOK, DropKnown, NEW fail, DropTemporarily(fail)
  PROVE  CredsOK' /\ DropKnown'
<1> DEFINE d == drop_privileges(creds, FALSE, fail)
           saved == Saved(creds, fail)
<1>1. creds' = d.creds /\ orig' = saved /\ before' = [creds |-> creds, ok |-> d.ok]
  BY DEF DropTemporarily
<1>2. creds \in Creds /\ creds.groups # {} /\ \A v \in Which : creds[v].e \in {creds[v].r, creds[v].s}
  BY DEF CredsOK
<1>3. /\ Answered(d) /\ (d.ok => "getgroups" \notin fail)
      /\ d.creds.groups \in {creds.groups, {creds.gid.r}}
      /\ creds.uid.e # ROOT_UID => d.creds.groups = creds.groups
      /\ \A v \in Which : /\ d.creds[v].r = creds[v].r /\ d.creds[v].s = creds[v].s
                          /\ d.creds[v].e \in {creds[v].e, creds[v].r}
  BY <1>2, DropKeeps
<1>4. /\ saved.uid = creds.uid.e /\ saved.gid = creds.gid.e
      /\ saved.groups = IF "getgroups" \in fail THEN {} ELSE creds.groups
  BY DEF Saved
<1> HIDE DEF d, saved
<1>5. before'.creds = creds /\ before'.ok = d.ok
  BY <1>1
<1>6. CredsOK'
  <2>1. d.creds \in Creds
    BY <1>3 DEF Answered
  <2>2. \A v \in Which : d.creds[v].e \in {d.creds[v].r, d.creds[v].s}
    BY <1>2, <1>3
  <2> QED
    BY <1>1, <1>2, <1>3, <2>1, <2>2 DEF CredsOK
<1>7. before'.ok => "getgroups" \notin fail
  BY <1>3, <1>5
<1>8. DropKnown'
  BY <1>1, <1>2, <1>3, <1>4, <1>5, <1>7 DEF DropKnown
<1> QED
  BY <1>6, <1>8

(* What restoring does with what is known of the drop. *)
LEMMA RestoreGives ==
  ASSUME CredsOK, DropKnown, orig # NULL, NEW fail,
         NEW d, d = restore_privileges(creds, orig, fail)
  PROVE  /\ Answered(d) /\ d.creds.groups # {}
         /\ \A v \in Which : d.creds[v].e \in {d.creds[v].r, d.creds[v].s}
         /\ d.ok => /\ d.creds.groups = before.creds.groups
                    /\ \A v \in Which : d.creds[v].e = before.creds[v].e
         /\ before.ok /\ fail = {} => d.ok
<1> DEFINE a == Did(creds)
           b == RestoreId(a, "uid", orig.uid, fail)
           g == RestoreId(b, "gid", orig.gid, fail)
<1>1. d = RestoreGroups(g, orig, fail)
  BY DEF restore_privileges
<1>2. /\ creds \in Creds /\ creds.groups # {}
      /\ before.creds \in Creds /\ before.creds.groups # {}
      /\ orig.uid = before.creds.uid.e /\ orig.gid = before.creds.gid.e
      /\ orig.groups \in {before.creds.groups, {}}
      /\ before.ok => orig.groups = before.creds.groups
      /\ before.creds.uid.e # ROOT_UID => creds.groups = before.creds.groups
      /\ \A v \in Which : /\ creds[v].r = before.creds[v].r /\ creds[v].s = before.creds[v].s
                          /\ before.creds[v].e \in {creds[v].r, creds[v].s}
                          /\ creds[v].e \in {creds[v].r, creds[v].s}
  BY DEF CredsOK, DropKnown
<1>3. orig.uid \in Ids /\ orig.gid \in Ids /\ orig.groups \in SUBSET Ids
  BY <1>2 DEF Creds, IdType
<1>4. Answered(a) /\ a.creds = creds /\ a.ok
  BY <1>2 DEF Answered, Did
<1>5. "uid" \in Which /\ "gid" \in Which /\ \A v \in Which : v = "uid" \/ v = "gid"
  BY DEF Which
<1>6. IdRestored(a, "uid", orig.uid, fail, b)
  BY <1>3, <1>4, <1>5, RestoreIdDoes
<1>7. IdRestored(b, "gid", orig.gid, fail, g)
  <2>1. Answered(b)
    BY <1>6 DEF IdRestored
  <2> QED
    BY <1>3, <1>5, <2>1, RestoreIdDoes
<1> HIDE DEF a, b, g
<1>8. /\ Answered(d) /\ (d.ok => g.ok)
      /\ \A v \in Which : d.creds[v] = g.creds[v]
      /\ d.creds.groups = g.creds.groups \/ (d.creds.groups = orig.groups /\ orig.groups # {})
      /\ d.ok /\ orig.uid = ROOT_UID => d.creds.groups = orig.groups /\ orig.groups # {}
      /\ orig.uid # ROOT_UID => d.creds.groups = g.creds.groups
      /\ g.ok /\ fail = {} /\ (orig.uid = ROOT_UID => orig.groups # {} /\ g.creds.uid.e = ROOT_UID) => d.ok
  <2>1. Answered(g)
    BY <1>7 DEF IdRestored
  <2> QED
    BY <1>1, <1>3, <2>1, RestoreGroupsDoes
<1>9. /\ g.creds.groups = creds.groups /\ (g.ok => b.ok)
      /\ \A v \in Which : g.creds[v].r = creds[v].r /\ g.creds[v].s = creds[v].s
      /\ g.creds.uid.e \in {orig.uid, creds.uid.e} /\ g.creds.gid.e \in {orig.gid, creds.gid.e}
      /\ g.ok => g.creds.uid.e = orig.uid /\ g.creds.gid.e = orig.gid
  BY <1>4, <1>5, <1>6, <1>7 DEF IdRestored
<1>10. fail = {} => g.ok
  <2>1. orig.uid \in {creds.uid.r, creds.uid.s} /\ orig.gid \in {creds.gid.r, creds.gid.s}
    BY <1>2, <1>5
  <2>2. fail = {} => b.ok
    BY <1>4, <1>6, <2>1 DEF IdRestored
  <2>3. b.creds.gid.r = creds.gid.r /\ b.creds.gid.s = creds.gid.s
    BY <1>4, <1>5, <1>6 DEF IdRestored
  <2> QED
    BY <1>7, <2>1, <2>2, <2>3 DEF IdRestored
<1>11. before.ok /\ fail = {} => d.ok
  BY <1>2, <1>8, <1>9, <1>10
<1>12. d.ok => d.creds.groups = before.creds.groups
  BY <1>2, <1>8, <1>9
<1>13. d.ok => \A v \in Which : d.creds[v].e = before.creds[v].e
  BY <1>2, <1>5, <1>8, <1>9
<1>14. d.creds.groups # {}
  BY <1>2, <1>8, <1>9
<1>15. \A v \in Which : d.creds[v].e \in {d.creds[v].r, d.creds[v].s}
  <2>1. d.creds.uid = g.creds.uid /\ d.creds.gid = g.creds.gid
    BY <1>5, <1>8
  <2>2. g.creds.uid.e \in {g.creds.uid.r, g.creds.uid.s}
    BY <1>2, <1>5, <1>9
  <2>3. g.creds.gid.e \in {g.creds.gid.r, g.creds.gid.s}
    BY <1>2, <1>5, <1>9
  <2> QED
    BY <1>5, <2>1, <2>2, <2>3
<1> QED
  BY <1>8, <1>11, <1>12, <1>13, <1>14, <1>15

LEMMA CredsInductive ==
  ASSUME CredsOK, DropKnown, [Next]_vars
  PROVE  CredsOK' /\ DropKnown'
<1>1. ASSUME NEW fail, Restore(fail) PROVE CredsOK' /\ DropKnown'
  <2> DEFINE d == restore_privileges(creds, orig, fail)
  <2>1. orig # NULL /\ creds' = d.creds /\ orig' = NULL
    BY <1>1 DEF Restore
  <2>2. /\ Answered(d) /\ d.creds.groups # {}
        /\ \A v \in Which : d.creds[v].e \in {d.creds[v].r, d.creds[v].s}
    BY <2>1, RestoreGives
  <2> HIDE DEF d
  <2> QED
    BY <2>1, <2>2 DEF CredsOK, DropKnown, Answered
<1>2. CASE UNCHANGED <<creds, orig, before>>
  BY <1>2 DEF CredsOK, DropKnown
<1>3. ASSUME NEW p, NEW a, BuildEnviron(p, a) PROVE UNCHANGED <<creds, orig, before>>
  BY <1>3 DEF BuildEnviron
<1>4. ASSUME NEW k \in Kids,
             \/ \E drop \in BOOLEAN, fail \in StepsOfNew : child_process_new(k, drop, fail)
             \/ \E bad \in {0, 3}, fail \in Failures : ChildCleansUp(k, bad, fail)
             \/ \E ok \in BOOLEAN : ChildExecs(k, ok)
             \/ ChildExits(k)
             \/ ParentStarts(k)
             \/ Reap(k)
             \/ \E match \in BOOLEAN : sigchld_cb(k, match)
             \/ child_aiofd_read_evt_fn(k)
             \/ child_process_write(k)
             \/ child_aiofd_write_evt_fn(k)
             \/ \E wait \in BOOLEAN : child_process_delete(k, wait)
      PROVE  UNCHANGED <<creds, orig, before>>
  BY <1>4 DEF child_process_new, ChildCleansUp, ChildExecs, ChildExits, ParentStarts, Reap, sigchld_cb,
              child_aiofd_read_evt_fn, child_process_write, child_aiofd_write_evt_fn,
              child_process_delete
<1> QED
  BY <1>1, <1>2, <1>3, <1>4, DropKnownInductive DEF Next, vars

LEMMA CredsInvariant == Spec => [](CredsOK /\ DropKnown)
<1>1. Init => CredsOK /\ DropKnown
  <2> SUFFICES ASSUME Init PROVE CredsOK /\ DropKnown
    OBVIOUS
  <2>1. PICK start \in Starts :
          creds = [uid |-> Started(start.uid), gid |-> Started(start.gid), groups |-> Ids]
    BY DEF Init
  <2>2. start.uid \in [r : Ids, e : Ids] /\ start.gid \in [r : Ids, e : Ids]
    BY StartsAssumption
  <2>3. \A ids \in [r : Ids, e : Ids] : /\ Started(ids) \in IdType
                                        /\ Started(ids).e = Started(ids).s
    BY DEF Started, IdType
  <2>4. creds \in Creds
    BY <2>1, <2>2, <2>3 DEF Creds
  <2>5. \A v \in Which : creds[v].e = creds[v].s
    BY <2>1, <2>2, <2>3 DEF Which
  <2>6. creds.groups # {}
    BY <2>1, <2>2
  <2> QED
    BY <2>4, <2>5, <2>6 DEF CredsOK, DropKnown, Init
<1> QED
  BY <1>1, CredsInductive, PTL DEF Spec

(* restore_privileges after a temporary drop, whether that succeeded or    *)
(* failed on the way, gives back the effective ids and the groups if it    *)
(* answers TRUE, and it answers TRUE if no system call fails in either.    *)
(* Each of setregid, setreuid, setegid, seteuid and setgroups may fail by  *)
(* itself, also after those before it have succeeded.                      *)
THEOREM RestoreUndoesDrop == Spec => RestoreUndoes
<1>1. ASSUME CredsOK, DropKnown, NEW fail \in Failures, Restore(fail)
      PROVE  LET ok == restore_privileges(creds, orig, fail).ok IN
             /\ ok => /\ creds'.groups = before.creds.groups
                      /\ \A which \in {"uid", "gid"} : creds'[which].e = before.creds[which].e
             /\ before.ok /\ fail = {} => ok
  <2>1. orig # NULL /\ creds' = restore_privileges(creds, orig, fail).creds
    BY <1>1 DEF Restore
  <2> QED
    BY <1>1, <2>1, RestoreGives DEF Which
<1>2. CredsOK /\ DropKnown =>
        [\A fail \in Failures : Restore(fail) =>
           LET ok == restore_privileges(creds, orig, fail).ok IN
           /\ ok => /\ creds'.groups = before.creds.groups
                    /\ \A which \in {"uid", "gid"} : creds'[which].e = before.creds[which].e
           /\ before.ok /\ fail = {} => ok]_vars
  BY <1>1
<1> QED
  BY <1>2, CredsInvariant, PTL DEF RestoreUndoes

-----------------------------------------------------------------------------
(* Descriptors and pipes.                                                  *)

FileT == [name : {"closed", "std", "file", "null", "p2c", "c2p"}, kid : Kids \cup {NULL},
          end : {"-", "r", "w"}]
Table == [FDs -> FileT]
Unused(t) == {fd \in FDs : t[fd] = Closed}

LEMMA FDsNaturals == FDs \subseteq Nat /\ 0 \in FDs /\ 1 \in FDs /\ 2 \in FDs
BY FS_CardinalityType DEF Std

LEMMA LeastFd ==
  ASSUME NEW T \in SUBSET FDs, T # {}
  PROVE  Min(T) \in T /\ \A y \in T : Min(T) <= y
<1>1. T \in SUBSET Nat
  BY FDsNaturals
<1>2. \E x \in T : \A y \in T : x <= y
  BY <1>1, LeastElement
<1> QED
  BY <1>2 DEF Min

LEMMA UnusedFinite ==
  ASSUME NEW t
  PROVE  IsFiniteSet(Unused(t)) /\ Unused(t) \in SUBSET FDs /\ Free(t) = Cardinality(Unused(t))
BY FS_Subset DEF Unused, Free

Files(k) == {Pipe(k, name, end) : name \in {"p2c", "c2p"}, end \in {"r", "w"}}

LEMMA PipesAreFiles ==
  ASSUME NEW k \in Kids, NEW f \in Files(k)
  PROVE  f \in FileT /\ f # Closed
BY DEF Files, Pipe, FileT, Closed, Plain

(* pipe(2) with two descriptors free. *)
PipeMade(t, k, name, p) ==
  /\ p.r \in Unused(t) /\ p.w \in Unused(t) /\ p.r # p.w
  /\ \A fd \in Unused(t) : p.r <= fd
  /\ p.table = [t EXCEPT ![p.r] = Pipe(k, name, "r"), ![p.w] = Pipe(k, name, "w")]
  /\ p.table \in Table
  /\ Unused(p.table) = Unused(t) \ {p.r, p.w}
  /\ Free(p.table) = Free(t) - 2

LEMMA PipeTakes ==
  ASSUME NEW t \in Table, NEW k \in Kids, NEW name \in {"p2c", "c2p"}, Free(t) >= 2,
         NEW p, p = pipe(t, k, name)
  PROVE  PipeMade(t, k, name, p)
<1> DEFINE r == Min(Unused(t))
           w == Min(Unused(t) \ {r})
           u == [t EXCEPT ![r] = Pipe(k, name, "r"), ![w] = Pipe(k, name, "w")]
<1>1. p = [r |-> r, w |-> w, table |-> u]
  BY DEF pipe, Unused
<1>2. IsFiniteSet(Unused(t)) /\ Unused(t) \in SUBSET FDs /\ Free(t) = Cardinality(Unused(t))
  BY UnusedFinite
<1>3. Unused(t) # {}
  BY <1>2, FS_EmptySet
<1>4. r \in Unused(t) /\ \A fd \in Unused(t) : r <= fd
  BY <1>2, <1>3, LeastFd
<1> HIDE DEF r
<1>5. IsFiniteSet(Unused(t) \ {r}) /\ Cardinality(Unused(t) \ {r}) = Free(t) - 1
  BY <1>2, <1>4, FS_RemoveElement
<1>6. Free(t) \in Nat
  BY <1>2, FS_CardinalityType
<1>7. Unused(t) \ {r} # {}
  BY <1>5, <1>6, FS_EmptySet
<1>8. w \in Unused(t) \ {r}
  BY <1>2, <1>7, LeastFd
<1> HIDE DEF w
<1>9. IsFiniteSet((Unused(t) \ {r}) \ {w}) /\ Cardinality((Unused(t) \ {r}) \ {w}) = Free(t) - 1 - 1
  BY <1>5, <1>8, FS_RemoveElement
<1>10. /\ Pipe(k, name, "r") \in FileT /\ Pipe(k, name, "r") # Closed
       /\ Pipe(k, name, "w") \in FileT /\ Pipe(k, name, "w") # Closed
  BY PipesAreFiles DEF Files
<1>11. u \in Table /\ \A fd \in FDs : u[fd] = IF fd = w THEN Pipe(k, name, "w")
                                             ELSE IF fd = r THEN Pipe(k, name, "r") ELSE t[fd]
  BY <1>2, <1>4, <1>8, <1>10 DEF Table
<1>12. Unused(u) = Unused(t) \ {r, w}
  BY <1>10, <1>11 DEF Unused
<1>13. Free(u) = Free(t) - 2
  <2>1. Unused(t) \ {r, w} = (Unused(t) \ {r}) \ {w}
    OBVIOUS
  <2>2. Free(u) = Cardinality(Unused(u))
    BY UnusedFinite
  <2> HIDE DEF u
  <2>3. Free(u) = Free(t) - 1 - 1
    BY <1>9, <1>12, <2>1, <2>2
  <2> QED
    BY <1>6, <2>3
<1>14. p.r = r /\ p.w = w /\ p.table = u
  BY <1>1
<1> QED
  BY <1>4, <1>8, <1>11, <1>12, <1>13, <1>14 DEF PipeMade

(* Closing what was opened. *)
LEMMA CloseUndoesPipe ==
  ASSUME NEW t \in Table, NEW k \in Kids, NEW name \in {"p2c", "c2p"}, NEW p, PipeMade(t, k, name, p),
         NEW fds, p.r \in fds, p.w \in fds, \A fd \in fds : fd \in {p.r, p.w} \/ (fd \in FDs => t[fd] = Closed)
  PROVE  close(p.table, fds) = t
<1>1. p.r \in FDs /\ p.w \in FDs /\ t[p.r] = Closed /\ t[p.w] = Closed
  BY DEF PipeMade, Unused
<1>2. p.table \in Table /\ \A fd \in FDs : fd \notin {p.r, p.w} => p.table[fd] = t[fd]
  BY <1>1 DEF PipeMade, Table
<1>3. DOMAIN p.table = FDs /\ DOMAIN t = FDs
  BY <1>2 DEF Table
<1>4. \A fd \in FDs : (IF fd \in fds THEN Closed ELSE p.table[fd]) = t[fd]
  BY <1>1, <1>2
<1>5. t = [fd \in FDs |-> t[fd]]
  BY <1>3 DEF Table
<1> QED
  BY <1>3, <1>4, <1>5 DEF close

Distinct(c2p, p2c) == /\ c2p.r # c2p.w /\ c2p.r # p2c.r /\ c2p.r # p2c.w
                      /\ c2p.w # p2c.r /\ c2p.w # p2c.w /\ p2c.r # p2c.w

(* The two ways child_process_new ends. *)
LEMMA NewEnds ==
  ASSUME table \in Table, NEW k \in Kids, NEW drop, NEW fail \in StepsOfNew, child_process_new(k, drop, fail),
         NEW c2p, c2p = pipe(table, k, "c2p"), NEW p2c, p2c = pipe(c2p.table, k, "p2c")
  PROVE  \/ table' = table /\ kid' = kid
         \/ /\ PipeMade(table, k, "c2p", c2p) /\ PipeMade(c2p.table, k, "p2c", p2c)
            /\ table' = p2c.table
            /\ kid' = [kid EXCEPT ![k] = Forked(k, p2c.table, Ends(c2p), Ends(p2c), drop)]
<1> DEFINE failed == CASE fail = "calloc" -> "calloc"
                       [] fail # "calloc" /\ (fail = "pipe" \/ Free(table) < 2) -> "pipe"
                       [] fail \notin {"calloc", "pipe"} /\ Free(table) >= 2
                            /\ (fail = "pipe2" \/ Free(table) < 4) -> "pipe2"
                       [] OTHER -> fail
<1>1. /\ table' = CASE failed \in {"calloc", "pipe"} -> table
                    [] failed = "pipe2" -> close(c2p.table, {c2p.w, c2p.r})
                    [] failed = "fork"  -> AfterFailedFork(p2c.table, c2p, p2c)
                    [] OTHER            -> p2c.table
      /\ kid' = IF failed = "none"
                  THEN [kid EXCEPT ![k] = Forked(k, p2c.table, Ends(c2p), Ends(p2c), drop)]
                  ELSE kid
  BY DEF child_process_new
<1>2. Free(table) \in Nat
  BY UnusedFinite, FS_CardinalityType
<1>3. \/ failed \in {"calloc", "pipe"}
      \/ failed = "pipe2" /\ Free(table) >= 2
      \/ failed \in {"fork", "none"} /\ Free(table) >= 4
  BY <1>2 DEF StepsOfNew
<1> HIDE DEF failed
<1>4. Free(table) >= 2 => PipeMade(table, k, "c2p", c2p)
  BY PipeTakes
<1>5. Free(table) >= 4 => PipeMade(c2p.table, k, "p2c", p2c)
  <2> SUFFICES ASSUME Free(table) >= 4 PROVE PipeMade(c2p.table, k, "p2c", p2c)
    OBVIOUS
  <2>1. c2p.table \in Table /\ Free(c2p.table) = Free(table) - 2
    BY <1>2, <1>4 DEF PipeMade
  <2>2. Free(c2p.table) >= 2
    BY <1>2, <2>1
  <2> QED
    BY <2>1, <2>2, PipeTakes
<1>6. CASE failed \in {"calloc", "pipe"}
  BY <1>1, <1>6
<1>7. CASE failed = "pipe2" /\ Free(table) >= 2
  <2>1. close(c2p.table, {c2p.w, c2p.r}) = table
    BY <1>4, <1>7, CloseUndoesPipe
  <2> QED
    BY <1>1, <1>7, <2>1
<1>8. CASE failed = "fork" /\ Free(table) >= 4
  <2>1. PipeMade(table, k, "c2p", c2p) /\ PipeMade(c2p.table, k, "p2c", p2c) /\ c2p.table \in Table
    BY <1>2, <1>4, <1>5, <1>8 DEF PipeMade
  <2>2. close(p2c.table, {p2c.w, p2c.r}) = c2p.table
    BY <2>1, CloseUndoesPipe
  <2>3. close(c2p.table, {c2p.w, c2p.r}) = table
    BY <2>1, CloseUndoesPipe
  <2>4. AfterFailedFork(p2c.table, c2p, p2c) = close(close(p2c.table, {p2c.w, p2c.r}), {c2p.w, c2p.r})
    BY DEF AfterFailedFork, close
  <2> QED
    BY <1>1, <1>8, <2>2, <2>3, <2>4
<1>9. CASE failed = "none" /\ Free(table) >= 4
  BY <1>1, <1>2, <1>4, <1>5, <1>9
<1> QED
  BY <1>3, <1>6, <1>7, <1>8, <1>9

-----------------------------------------------------------------------------
(* The parent's descriptors and the children.                              *)

PipeEnds == [r : FDs, w : FDs]
KidT == [proc : {"none", "forked", "clean", "running", "zombie", "reaped"}, live : BOOLEAN,
         table : Table, creds : Creds \cup {NULL}, drop : {"no", "asked", "done", "failed"},
         from : Creds \cup {NULL}, blocked : BOOLEAN, ignored : SUBSET Ignored, rfd : FDs, wfd : FDs,
         ends : {<<>>} \cup (PipeEnds \X PipeEnds), handler : BOOLEAN, due : BOOLEAN,
         exited : BOOLEAN, told : Nat, reading : BOOLEAN, wbuf : 0 .. MaxQueue,
         fits : BOOLEAN, misread : BOOLEAN]

(* The exit callback is called once. *)
ToldOnce(c) == /\ c.exited => c.told = 1
               /\ c.due => c.told = 0 /\ ~c.exited
               /\ c.proc # "reaped" => c.told = 0 /\ ~c.exited /\ ~c.due

(* What the child does to its ids before it execs. *)
IdsKnown(c) ==
  /\ c.proc = "forked" => c.creds = c.from /\ c.creds \in Creds /\ c.drop \in {"no", "asked"}
  /\ c.drop = "done" =>
       \A v \in Which : c.from.uid.e = c.from.uid.s /\ c.from.gid.e = c.from.gid.s =>
          c.creds[v] = AllReal(c.from[v].r)

(* Before it execs it has both pipes, of whose ends three are not standard *)
(* descriptors if its parent had those it needs.                           *)
PipesApart(k, c) ==
  LET c2p == c.ends[1]   p2c == c.ends[2]
  IN  /\ Distinct(c2p, p2c)
      /\ c2p.r # 2 /\ c2p.w \notin Std /\ p2c.r \notin Std /\ p2c.w \notin Std
      /\ c.table[c2p.w] = Pipe(k, "c2p", "w") /\ c.table[p2c.r] = Pipe(k, "p2c", "r")
      /\ c.table[2] = Plain("std")

OnlyPipes(c) == \A fd \in FDs \ Std :
                  fd \notin {c.ends[1].r, c.ends[1].w, c.ends[2].r, c.ends[2].w} => c.table[fd] = Closed

Wired(k, c) == /\ c.table[0] = Pipe(k, "p2c", "r") /\ c.table[1] = Pipe(k, "c2p", "w")
               /\ c.table[2] = Plain("std") /\ \A fd \in FDs \ Std : c.table[fd] = Closed
               /\ ~c.blocked

KidOK(k, c) ==
  /\ c \in KidT /\ ToldOnce(c) /\ IdsKnown(c)
  /\ c.proc \in {"forked", "clean"} => /\ c.ends \in PipeEnds \X PipeEnds
                                       /\ c.fits => PipesApart(k, c)
  /\ c.proc = "clean" => OnlyPipes(c) /\ ~c.blocked
  /\ c.proc = "running" /\ c.fits => Wired(k, c)

ParentOK == table \in Table /\ \A fd \in FDs : table[fd].name # "null"

KidsOK == kid \in [Kids -> KidT] /\ \A k \in Kids : KidOK(k, kid[k])

-----------------------------------------------------------------------------
(* One child changes. *)
LEMMA KidsChanged ==
  ASSUME KidsOK, NEW k \in Kids, NEW c, KidOK(k, c), kid' = [kid EXCEPT ![k] = c]
  PROVE  KidsOK'
BY DEF KidsOK, KidOK

(* A child changes only as the parent knows it. *)
LEMMA KidAlike ==
  ASSUME NEW k, NEW c, KidOK(k, c), NEW d \in KidT,
         /\ d.proc = c.proc /\ d.table = c.table /\ d.creds = c.creds /\ d.drop = c.drop
         /\ d.from = c.from /\ d.blocked = c.blocked /\ d.ends = c.ends /\ d.fits = c.fits
         /\ d.exited = c.exited /\ d.told = c.told /\ (d.due => c.due)
  PROVE  KidOK(k, d)
BY DEF KidOK, ToldOnce, IdsKnown, PipesApart, OnlyPipes, Wired

LEMMA FilesOf == /\ Closed \in FileT /\ Plain("std") \in FileT /\ Plain("null") \in FileT
                 /\ Plain("file") \in FileT
                 /\ Closed.name = "closed" /\ Plain("std").name = "std" /\ Plain("file").name = "file"
                 /\ Plain("std") # Closed
BY DEF Closed, Plain, FileT

LEMMA CloseDoes ==
  ASSUME NEW t \in Table, NEW fds
  PROVE  close(t, fds) \in Table /\ \A fd \in FDs : close(t, fds)[fd] = IF fd \in fds THEN Closed ELSE t[fd]
BY FilesOf DEF close, Table

LEMMA SanitizeDoes ==
  ASSUME NEW t \in Table, NEW keep, NEW bad, NEW u, u = sanitize_files(t, keep, bad)
  PROVE  /\ u \in Table
         /\ \A fd \in FDs \ Std : u[fd] = IF fd \in keep THEN t[fd] ELSE Closed
         /\ \A fd \in Std : t[fd] # Closed => u[fd] = t[fd]
<1> DEFINE s == close(t, FDs \ (Std \cup keep))
<1>1. DOMAIN t = FDs
  BY DEF Table
<1>2. s \in Table /\ \A fd \in FDs : s[fd] = IF fd \in FDs \ (Std \cup keep) THEN Closed ELSE t[fd]
  BY CloseDoes
<1>3. u = open_devnull(s, bad)
  BY <1>1 DEF sanitize_files
<1> HIDE DEF s
<1>4. u = [fd \in FDs |-> IF fd \in Std /\ fd < bad /\ s[fd] = Closed THEN Plain("null") ELSE s[fd]]
  BY <1>2, <1>3 DEF open_devnull, Table
<1>5. u \in Table
  BY <1>2, <1>4, FilesOf DEF Table
<1> QED
  BY <1>2, <1>4, <1>5

LEMMA KidGone ==
  ASSUME NEW k, NEW c, KidOK(k, c), c.proc \in {"clean", "running"}
  PROVE  KidOK(k, Gone(c))
<1> DEFINE d == Gone(c)
           no == [fd \in FDs |-> Closed]
<1>1. no \in Table
  BY FilesOf DEF Table
<1>2. NoKid.table = no
  BY DEF NoKid
<1>3. d = [c EXCEPT !.proc = "zombie", !.table = no, !.creds = NULL, !.from = NULL,
                    !.drop = "no", !.ignored = {}, !.ends = <<>>]
  BY <1>2 DEF Gone
<1> HIDE DEF no
<1>4. d \in KidT /\ d.proc = "zombie" /\ d.drop = "no" /\ d.told = c.told /\ d.exited = c.exited
      /\ d.due = c.due
  BY <1>1, <1>3 DEF KidOK, KidT
<1> HIDE DEF d
<1>5. ToldOnce(d) /\ IdsKnown(d)
  BY <1>4 DEF KidOK, ToldOnce, IdsKnown
<1>6. KidOK(k, d)
  BY <1>4, <1>5 DEF KidOK
<1> QED
  BY <1>6 DEF d

LEMMA KidCleansUp ==
  ASSUME KidsOK, NEW k \in Kids, NEW bad, NEW fail, ChildCleansUp(k, bad, fail)
  PROVE  KidsOK'
<1> DEFINE c == kid[k]
           d == drop_privileges(c.creds, TRUE, fail)
           pipes == {c.ends[1].r, c.ends[1].w, c.ends[2].r, c.ends[2].w}
           t == sanitize_files(c.table, pipes, bad)
           ids == IF c.drop = "asked" THEN d.creds ELSE c.creds
           drop == IF c.drop = "asked" THEN (IF d.ok THEN "done" ELSE "failed") ELSE "no"
           ignored == c.ignored \ reset_signals_to_default(1 .. NSIG - 1)
           new == [c EXCEPT !.proc = "clean", !.table = t, !.creds = ids, !.drop = drop,
                            !.ignored = ignored, !.blocked = FALSE]
<1>1. c.proc = "forked" /\ kid' = [kid EXCEPT ![k] = new]
  BY DEF ChildCleansUp
<1>2. KidOK(k, c) /\ c \in KidT
  BY DEF KidsOK, KidOK
<1> HIDE DEF c
<1>3. /\ c.creds = c.from /\ c.creds \in Creds /\ (c.fits => PipesApart(k, c)) /\ ToldOnce(c)
      /\ c.ends \in PipeEnds \X PipeEnds
      /\ c.table \in Table /\ c.ignored \in SUBSET Ignored
  BY <1>1, <1>2 DEF KidOK, IdsKnown, KidT
<1>4. GoneForGood(c.creds, d)
  BY <1>3, DropForGood
<1>5. /\ t \in Table
      /\ \A fd \in FDs \ Std : t[fd] = IF fd \in pipes THEN c.table[fd] ELSE Closed
      /\ \A fd \in Std : c.table[fd] # Closed => t[fd] = c.table[fd]
  BY <1>3, SanitizeDoes
<1> HIDE DEF d, t
<1>6. /\ ids \in Creds /\ drop \in {"no", "done", "failed"} /\ ignored \in SUBSET Ignored
      /\ drop = "done" => ids = d.creds /\ d.ok
  BY <1>3, <1>4 DEF Answered, GoneForGood
<1> HIDE DEF ids, drop, ignored
<1>7. /\ new \in KidT /\ new.proc = "clean" /\ new.table = t /\ new.creds = ids /\ new.drop = drop
      /\ new.from = c.from /\ new.blocked = FALSE /\ new.ends = c.ends
      /\ new.told = c.told /\ new.exited = c.exited /\ new.due = c.due /\ new.fits = c.fits
  BY <1>2, <1>5, <1>6 DEF KidT
<1> HIDE DEF new
<1>8. IdsKnown(new)
  <2>1. ASSUME new.drop = "done", NEW v \in Which,
               new.from.uid.e = new.from.uid.s, new.from.gid.e = new.from.gid.s
        PROVE  new.creds[v] = AllReal(new.from[v].r)
    <3>1. d.ok /\ ids = d.creds
      BY <1>6, <1>7, <2>1
    <3>2. c.creds[v].e = c.creds[v].s
      BY <1>3, <1>7, <2>1 DEF Which
    <3>3. d.creds[v] = AllReal(c.creds[v].r)
      BY <1>4, <3>1, <3>2 DEF GoneForGood
    <3> QED
      BY <1>3, <1>7, <3>1, <3>3
  <2> QED
    BY <1>7, <2>1 DEF IdsKnown
<1>9. ASSUME new.fits PROVE PipesApart(k, new)
  <2>1. PipesApart(k, c)
    BY <1>3, <1>7, <1>9
  <2>2. /\ c.ends[1].w \in FDs \ Std /\ c.ends[2].r \in FDs \ Std
    BY <1>3, <2>1 DEF PipesApart, PipeEnds
  <2>3. t[2] = Plain("std")
    BY <1>5, <2>1, FilesOf DEF PipesApart, Std
  <2> QED
    BY <1>5, <1>7, <2>1, <2>2, <2>3 DEF PipesApart
<1>10. OnlyPipes(new)
  BY <1>5, <1>7 DEF OnlyPipes
<1>11. ToldOnce(new)
  BY <1>1, <1>3, <1>7 DEF ToldOnce
<1>12. KidOK(k, new)
  BY <1>3, <1>7, <1>8, <1>9, <1>10, <1>11 DEF KidOK
<1> QED
  BY <1>1, <1>12, KidsChanged

LEMMA Dup2Does ==
  ASSUME NEW t \in Table, NEW from \in FDs, NEW to \in FDs
  PROVE  dup2(t, from, to) \in Table
BY DEF dup2, Table

LEMMA RewiredIsTable ==
  ASSUME NEW t \in Table, NEW a \in PipeEnds, NEW b \in PipeEnds
  PROVE  Rewired(t, a, b) \in Table
<1> DEFINE shut == close(t, {0, 1, a.r, b.w})
           in1 == dup2(shut, b.r, 0)
           in2 == close(in1, {b.r})
           out1 == dup2(in2, a.w, 1)
<1>1. Rewired(t, a, b) = close(out1, {a.w})
  BY DEF Rewired
<1>2. a.w \in FDs /\ b.r \in FDs /\ 0 \in FDs /\ 1 \in FDs
  BY FDsNaturals DEF PipeEnds
<1>3. shut \in Table
  BY CloseDoes
<1> HIDE DEF shut
<1>4. in1 \in Table
  BY <1>2, <1>3, Dup2Does
<1> HIDE DEF in1
<1>5. in2 \in Table
  BY <1>4, CloseDoes
<1> HIDE DEF in2
<1>6. out1 \in Table
  BY <1>2, <1>5, Dup2Does
<1> HIDE DEF out1
<1> QED
  BY <1>1, <1>6, CloseDoes

LEMMA RewiredDoes ==
  ASSUME NEW k \in Kids, NEW c, c \in KidT, PipesApart(k, c), OnlyPipes(c), c.ends \in PipeEnds \X PipeEnds,
         NEW u, u = Rewired(c.table, c.ends[1], c.ends[2])
  PROVE  /\ u \in Table
         /\ u[0] = Pipe(k, "p2c", "r") /\ u[1] = Pipe(k, "c2p", "w") /\ u[2] = Plain("std")
         /\ \A fd \in FDs \ Std : u[fd] = Closed
<1> DEFINE t == c.table
           a == c.ends[1]
           b == c.ends[2]
           shut == close(t, {0, 1, a.r, b.w})
           in1 == dup2(shut, b.r, 0)
           in2 == close(in1, {b.r})
           out1 == dup2(in2, a.w, 1)
<1>1. u = close(out1, {a.w})
  BY DEF Rewired
<1>2. /\ t \in Table /\ a \in PipeEnds /\ b \in PipeEnds /\ Distinct(a, b)
      /\ a.r # 2 /\ a.w \notin Std /\ b.r \notin Std /\ b.w \notin Std
      /\ t[a.w] = Pipe(k, "c2p", "w") /\ t[b.r] = Pipe(k, "p2c", "r") /\ t[2] = Plain("std")
      /\ \A fd \in FDs \ Std : fd \notin {a.r, a.w, b.r, b.w} => t[fd] = Closed
  BY DEF PipesApart, OnlyPipes, KidT
<1>3. /\ 0 \in FDs /\ 1 \in FDs /\ 2 \in FDs /\ Std = {0, 1, 2}
      /\ a.r \in FDs /\ a.w \in FDs /\ b.r \in FDs /\ b.w \in FDs
  BY <1>2, FDsNaturals DEF Std, PipeEnds
<1>4. Pipe(k, "c2p", "w") # Closed /\ Pipe(k, "p2c", "r") # Closed
  BY PipesAreFiles DEF Files
<1>5. shut \in Table /\ \A fd \in FDs : shut[fd] = IF fd \in {0, 1, a.r, b.w} THEN Closed ELSE t[fd]
  BY <1>2, CloseDoes
<1> HIDE DEF t, a, b, shut
<1>6. shut[b.r] = Pipe(k, "p2c", "r")
  BY <1>2, <1>3, <1>5 DEF Distinct
<1>7. in1 \in Table /\ \A fd \in FDs : in1[fd] = IF fd = 0 THEN Pipe(k, "p2c", "r") ELSE shut[fd]
  <2>1. in1 = [shut EXCEPT ![0] = Pipe(k, "p2c", "r")]
    BY <1>4, <1>6 DEF dup2
  <2>2. Pipe(k, "p2c", "r") \in FileT
    BY PipesAreFiles DEF Files
  <2> HIDE DEF in1
  <2> QED
    BY <1>3, <1>5, <2>1, <2>2 DEF Table
<1> HIDE DEF in1
<1>8. in2 \in Table /\ \A fd \in FDs : in2[fd] = IF fd \in {b.r} THEN Closed ELSE in1[fd]
  BY <1>7, CloseDoes
<1> HIDE DEF in2
<1>9. in2[a.w] = Pipe(k, "c2p", "w")
  BY <1>2, <1>3, <1>5, <1>7, <1>8 DEF Distinct
<1>10. out1 \in Table /\ \A fd \in FDs : out1[fd] = IF fd = 1 THEN Pipe(k, "c2p", "w") ELSE in2[fd]
  <2>1. out1 = [in2 EXCEPT ![1] = Pipe(k, "c2p", "w")]
    BY <1>4, <1>9 DEF dup2
  <2>2. Pipe(k, "c2p", "w") \in FileT
    BY PipesAreFiles DEF Files
  <2> HIDE DEF out1
  <2> QED
    BY <1>3, <1>8, <2>1, <2>2 DEF Table
<1> HIDE DEF out1
<1>11. u \in Table /\ \A fd \in FDs : u[fd] = IF fd \in {a.w} THEN Closed ELSE out1[fd]
  BY <1>1, <1>10, CloseDoes
<1>12. u[0] = Pipe(k, "p2c", "r")
  BY <1>2, <1>3, <1>7, <1>8, <1>10, <1>11
<1>13. u[1] = Pipe(k, "c2p", "w")
  BY <1>2, <1>3, <1>10, <1>11
<1>14. u[2] = Plain("std")
  BY <1>2, <1>3, <1>5, <1>7, <1>8, <1>10, <1>11
<1>15. \A fd \in FDs \ Std : u[fd] = Closed
  BY <1>2, <1>3, <1>5, <1>7, <1>8, <1>10, <1>11
<1> QED
  BY <1>11, <1>12, <1>13, <1>14, <1>15

LEMMA KidExecs ==
  ASSUME KidsOK, NEW k \in Kids, NEW ok, ChildExecs(k, ok)
  PROVE  KidsOK'
<1> DEFINE c == kid[k]
           t == Rewired(c.table, c.ends[1], c.ends[2])
           new == [c EXCEPT !.proc = "running", !.ends = <<>>, !.table = t]
<1>1. c.proc = "clean" /\ kid' = [kid EXCEPT ![k] = IF ok THEN new ELSE Gone(c)]
  BY DEF ChildExecs
<1>2. KidOK(k, c) /\ c \in KidT
  BY DEF KidsOK, KidOK
<1> HIDE DEF c
<1>3. /\ c.fits => PipesApart(k, c)
      /\ OnlyPipes(c) /\ ~c.blocked /\ ToldOnce(c) /\ IdsKnown(c)
      /\ c.ends \in PipeEnds \X PipeEnds /\ c.table \in Table
  BY <1>1, <1>2 DEF KidOK, KidT
<1>4. /\ t \in Table
      /\ c.fits => /\ t[0] = Pipe(k, "p2c", "r") /\ t[1] = Pipe(k, "c2p", "w") /\ t[2] = Plain("std")
                   /\ \A fd \in FDs \ Std : t[fd] = Closed
  <2>1. c.ends[1] \in PipeEnds /\ c.ends[2] \in PipeEnds
    BY <1>3
  <2>2. t \in Table
    BY <1>3, <2>1, RewiredIsTable
  <2> QED
    BY <1>2, <1>3, <2>2, RewiredDoes
<1> HIDE DEF t
<1>5. /\ new \in KidT /\ new.proc = "running" /\ new.table = t /\ new.creds = c.creds
      /\ new.drop = c.drop /\ new.from = c.from /\ new.blocked = c.blocked
      /\ new.told = c.told /\ new.exited = c.exited /\ new.due = c.due /\ new.fits = c.fits
  BY <1>2, <1>4 DEF KidT
<1> HIDE DEF new
<1>6. new.fits => Wired(k, new)
  BY <1>3, <1>4, <1>5 DEF Wired
<1>7. ToldOnce(new) /\ IdsKnown(new)
  BY <1>1, <1>3, <1>5 DEF ToldOnce, IdsKnown
<1>8. KidOK(k, new)
  BY <1>5, <1>6, <1>7 DEF KidOK
<1>9. KidOK(k, Gone(c))
  BY <1>1, <1>2, KidGone
<1> QED
  BY <1>1, <1>8, <1>9, KidsChanged

LEMMA KidExits ==
  ASSUME KidsOK, NEW k \in Kids, ChildExits(k)
  PROVE  KidsOK'
<1>1. kid[k].proc = "running" /\ kid' = [kid EXCEPT ![k] = Gone(kid[k])]
  BY DEF ChildExits
<1>2. KidOK(k, kid[k])
  BY DEF KidsOK
<1>3. KidOK(k, Gone(kid[k]))
  BY <1>1, <1>2, KidGone
<1> QED
  BY <1>1, <1>3, KidsChanged

(* The loop reaps a child, and calls the handler of one it has reaped. *)
LEMMA KidReaped ==
  ASSUME KidsOK, NEW k \in Kids, Reap(k)
  PROVE  KidsOK'
<1> DEFINE c == kid[k]
           new == [c EXCEPT !.proc = "reaped", !.due = c.handler]
<1>1. c.proc = "zombie" /\ kid' = [kid EXCEPT ![k] = new]
  BY DEF Reap
<1>2. KidOK(k, c) /\ c \in KidT
  BY DEF KidsOK, KidOK
<1> HIDE DEF c
<1>3. IdsKnown(c) /\ c.told = 0 /\ ~c.exited
  BY <1>1, <1>2 DEF KidOK, ToldOnce
<1>4. /\ new \in KidT /\ new.proc = "reaped" /\ new.drop = c.drop /\ new.from = c.from
      /\ new.creds = c.creds /\ new.exited = c.exited /\ new.told = c.told
  BY <1>2 DEF KidT
<1> HIDE DEF new
<1>5. ToldOnce(new) /\ IdsKnown(new)
  BY <1>3, <1>4 DEF ToldOnce, IdsKnown
<1>6. KidOK(k, new)
  BY <1>4, <1>5 DEF KidOK
<1> QED
  BY <1>1, <1>6, KidsChanged

LEMMA KidTold ==
  ASSUME KidsOK, NEW k \in Kids, NEW match, sigchld_cb(k, match)
  PROVE  KidsOK'
<1> DEFINE c == kid[k]
           told == [c EXCEPT !.told = @ + 1, !.exited = TRUE]
           x == IF match THEN told ELSE [c EXCEPT !.misread = TRUE]
           new == [x EXCEPT !.due = FALSE]
<1>1. c.due /\ kid' = [kid EXCEPT ![k] = new]
  BY DEF sigchld_cb, Told
<1>2. KidOK(k, c) /\ c \in KidT
  BY DEF KidsOK, KidOK
<1> HIDE DEF c
<1>3. IdsKnown(c) /\ c.told = 0 /\ ~c.exited /\ c.proc = "reaped"
  BY <1>1, <1>2 DEF KidOK, ToldOnce
<1>4. told \in KidT /\ told.told = 1 /\ told.drop = c.drop /\ told.from = c.from
      /\ told.creds = c.creds /\ told.proc = c.proc
  <2>1. told = [c EXCEPT !.told = 1, !.exited = TRUE]
    BY <1>2, <1>3 DEF KidT
  <2> HIDE DEF told
  <2> QED
    BY <1>2, <2>1 DEF KidT
<1> HIDE DEF told
<1>5. /\ x \in KidT /\ x.drop = c.drop /\ x.from = c.from /\ x.creds = c.creds /\ x.proc = c.proc
      /\ x.exited => x.told = 1
  <2>1. CASE match
    BY <1>4, <2>1
  <2>2. CASE ~match
    <3>1. x = [c EXCEPT !.misread = TRUE]
      BY <2>2
    <3> HIDE DEF x
    <3> QED
      BY <1>2, <1>3, <3>1 DEF KidT
  <2> QED
    BY <2>1, <2>2
<1> HIDE DEF x
<1>6. /\ new \in KidT /\ new.proc = "reaped" /\ new.drop = c.drop /\ new.from = c.from
      /\ new.creds = c.creds /\ new.exited = x.exited /\ new.told = x.told /\ new.due = FALSE
  BY <1>3, <1>5 DEF KidT
<1> HIDE DEF new
<1>7. ToldOnce(new) /\ IdsKnown(new)
  BY <1>3, <1>5, <1>6 DEF ToldOnce, IdsKnown
<1>8. KidOK(k, new)
  BY <1>6, <1>7 DEF KidOK
<1> QED
  BY <1>1, <1>8, KidsChanged

(* The parent changes what it knows of a child. *)
LEMMA KidKnown ==
  ASSUME KidsOK, NEW k \in Kids,
         child_aiofd_read_evt_fn(k) \/ child_process_write(k) \/ child_aiofd_write_evt_fn(k)
  PROVE  KidsOK'
<1> DEFINE c == kid[k]
           off == [c EXCEPT !.reading = FALSE]
           more == [c EXCEPT !.wbuf = @ + 1]
           less == [c EXCEPT !.wbuf = @ - 1]
<1>1. \/ kid' = kid
      \/ kid' = [kid EXCEPT ![k] = off]
      \/ c.wbuf < MaxQueue /\ kid' = [kid EXCEPT ![k] = more]
      \/ c.wbuf > 0 /\ kid' = [kid EXCEPT ![k] = less]
  BY DEF child_aiofd_read_evt_fn, child_process_write, child_aiofd_write_evt_fn
<1>2. KidOK(k, c) /\ c \in KidT /\ kid \in [Kids -> KidT]
  BY DEF KidsOK, KidOK
<1>3. kid[k] = c
  OBVIOUS
<1> HIDE DEF c
<1>4. c.wbuf \in 0 .. MaxQueue
  BY <1>2 DEF KidT
<1>5. ASSUME NEW w \in 0 .. MaxQueue, NEW b \in BOOLEAN, NEW d,
             d = [c EXCEPT !.reading = b] \/ d = [c EXCEPT !.wbuf = w], kid' = [kid EXCEPT ![k] = d]
      PROVE  KidsOK'
  <2>1. /\ d \in KidT /\ d.proc = c.proc /\ d.table = c.table /\ d.creds = c.creds /\ d.drop = c.drop
        /\ d.from = c.from /\ d.blocked = c.blocked /\ d.ends = c.ends /\ d.fits = c.fits
        /\ d.exited = c.exited /\ d.told = c.told /\ d.due = c.due
    <3>1. CASE d = [c EXCEPT !.reading = b]
      BY <1>2, <3>1 DEF KidT
    <3>2. CASE d = [c EXCEPT !.wbuf = w]
      BY <1>2, <3>2 DEF KidT
    <3> QED
      BY <1>5, <3>1, <3>2
  <2>2. KidOK(k, d)
    BY <1>2, <2>1, KidAlike
  <2> QED
    BY <1>5, <2>2, KidsChanged
<1>6. CASE kid' = kid
  BY <1>6 DEF KidsOK
<1>7. CASE kid' = [kid EXCEPT ![k] = off]
  BY <1>4, <1>5, <1>7
<1>8. CASE c.wbuf < MaxQueue /\ kid' = [kid EXCEPT ![k] = more]
  <2>1. c.wbuf + 1 \in 0 .. MaxQueue /\ more = [c EXCEPT !.wbuf = c.wbuf + 1]
    BY <1>4, <1>8
  <2> HIDE DEF more
  <2> QED
    BY <1>5, <1>8, <2>1
<1>9. CASE c.wbuf > 0 /\ kid' = [kid EXCEPT ![k] = less]
  <2>1. c.wbuf - 1 \in 0 .. MaxQueue /\ less = [c EXCEPT !.wbuf = c.wbuf - 1]
    BY <1>4, <1>9
  <2> HIDE DEF less
  <2> QED
    BY <1>5, <1>9, <2>1
<1> QED
  BY <1>1, <1>6, <1>7, <1>8, <1>9

(* Closing descriptors of the parent. *)
LEMMA ParentCloses ==
  ASSUME ParentOK, NEW fds, table' = close(table, fds)
  PROVE  ParentOK'
<1>1. table \in Table /\ \A fd \in FDs : table[fd].name # "null"
  BY DEF ParentOK
<1>2. table' \in Table /\ \A fd \in FDs : table'[fd] = IF fd \in fds THEN Closed ELSE table[fd]
  BY <1>1, CloseDoes
<1>3. \A fd \in FDs : table'[fd].name # "null"
  BY <1>1, <1>2, FilesOf
<1> QED
  BY <1>2, <1>3 DEF ParentOK

(* The parent returns from the fork. *)
LEMMA KidStarted ==
  ASSUME ParentOK, KidsOK, NEW k \in Kids, ParentStarts(k)
  PROVE  ParentOK' /\ KidsOK'
<1> DEFINE c == kid[k]
           d == [c EXCEPT !.handler = TRUE, !.reading = TRUE]
<1>1. table' = close(table, {starting.p2c.r, starting.p2c.w}) /\ kid' = [kid EXCEPT ![k] = d]
  BY DEF ParentStarts, ParentTable, evt_start_event_handler
<1>2. KidOK(k, c) /\ c \in KidT
  BY DEF KidsOK, KidOK
<1> HIDE DEF c
<1>3. /\ d \in KidT /\ d.proc = c.proc /\ d.table = c.table /\ d.creds = c.creds /\ d.drop = c.drop
      /\ d.from = c.from /\ d.blocked = c.blocked /\ d.ends = c.ends /\ d.fits = c.fits
      /\ d.exited = c.exited /\ d.told = c.told /\ d.due = c.due
  BY <1>2 DEF KidT
<1> HIDE DEF d
<1>4. KidOK(k, d)
  BY <1>2, <1>3, KidAlike
<1> QED
  BY <1>1, <1>4, KidsChanged, ParentCloses

LEMMA KidDeleted ==
  ASSUME ParentOK, KidsOK, NEW k \in Kids, NEW wait, child_process_delete(k, wait)
  PROVE  ParentOK' /\ KidsOK'
<1> DEFINE c == kid[k]
           d == [c EXCEPT !.live = FALSE, !.handler = FALSE, !.due = FALSE, !.reading = FALSE, !.wbuf = 0]
           fds == {c.rfd, c.wfd}
<1>1. CASE UNCHANGED <<table, kid>>
  BY <1>1 DEF KidsOK, ParentOK
<1>2. CASE table' = close(table, fds) /\ kid' = [kid EXCEPT ![k] = d]
  <2>1. KidOK(k, c) /\ c \in KidT
    BY DEF KidsOK, KidOK
  <2> HIDE DEF c
  <2>2. d \in KidT
    <3>1. 0 \in 0 .. MaxQueue
      OBVIOUS
    <3> QED
      BY <2>1, <3>1 DEF KidT
  <2>3. /\ d.proc = c.proc /\ d.table = c.table /\ d.creds = c.creds /\ d.drop = c.drop
        /\ d.from = c.from
    BY <2>1 DEF KidT
  <2>4. /\ d.blocked = c.blocked /\ d.ends = c.ends /\ d.exited = c.exited /\ d.told = c.told
        /\ d.fits = c.fits /\ d.due = FALSE
    BY <2>1 DEF KidT
  <2> HIDE DEF d
  <2>5. KidOK(k, d)
    BY <2>1, <2>2, <2>3, <2>4, KidAlike
  <2> QED
    BY <1>2, <2>5, KidsChanged, ParentCloses
<1> QED
  BY <1>1, <1>2 DEF child_process_delete

LEMMA NoKidOK == ASSUME NEW k PROVE KidOK(k, NoKid)
<1> DEFINE no == [fd \in FDs |-> Closed]
<1>1. no \in Table /\ 0 \in FDs /\ 0 \in 0 .. MaxQueue
  BY FilesOf, FDsNaturals DEF Table
<1>2. /\ NoKid.table = no
      /\ NoKid = [proc |-> "none", live |-> FALSE, table |-> no, creds |-> NULL,
          drop |-> "no", from |-> NULL, blocked |-> FALSE, ignored |-> {}, rfd |-> 0, wfd |-> 0,
          ends |-> <<>>, handler |-> FALSE, due |-> FALSE, exited |-> FALSE, told |-> 0,
          reading |-> FALSE, wbuf |-> 0, fits |-> FALSE, misread |-> FALSE]
  BY DEF NoKid
<1> HIDE DEF no
<1>3. NoKid \in KidT
  BY <1>1, <1>2 DEF KidT
<1>4. /\ NoKid.proc = "none" /\ NoKid.told = 0 /\ NoKid.exited = FALSE /\ NoKid.drop = "no"
      /\ NoKid.due = FALSE
  BY DEF NoKid
<1> QED
  BY <1>3, <1>4 DEF KidOK, ToldOnce, IdsKnown

(* The ends of the pipes of a new child in a parent that has standard      *)
(* error and one of the other two.                                         *)
LEMMA NewEndsApart ==
  ASSUME table \in Table, NEW k \in Kids, NEW o \in {0, 1},
         table[o] # Closed, table[2] = Plain("std"),
         NEW c2p, PipeMade(table, k, "c2p", c2p), NEW p2c, PipeMade(c2p.table, k, "p2c", p2c)
  PROVE  /\ {c2p.r, c2p.w, p2c.r, p2c.w} \in SUBSET (FDs \ {o, 2})
         /\ Distinct(c2p, p2c)
         /\ c2p.w \notin Std /\ p2c.r \notin Std /\ p2c.w \notin Std
         /\ \A fd \in FDs : p2c.table[fd] = CASE fd = c2p.r -> Pipe(k, "c2p", "r")
                                              [] fd = c2p.w -> Pipe(k, "c2p", "w")
                                              [] fd = p2c.r -> Pipe(k, "p2c", "r")
                                              [] fd = p2c.w -> Pipe(k, "p2c", "w")
                                              [] OTHER      -> table[fd]
<1>1. /\ c2p.r \in Unused(table) /\ c2p.w \in Unused(table) /\ c2p.r # c2p.w
      /\ \A fd \in Unused(table) : c2p.r <= fd
      /\ c2p.table = [table EXCEPT ![c2p.r] = Pipe(k, "c2p", "r"), ![c2p.w] = Pipe(k, "c2p", "w")]
      /\ c2p.table \in Table /\ Unused(c2p.table) = Unused(table) \ {c2p.r, c2p.w}
  BY DEF PipeMade
<1>2. /\ p2c.r \in Unused(c2p.table) /\ p2c.w \in Unused(c2p.table) /\ p2c.r # p2c.w
      /\ p2c.table = [c2p.table EXCEPT ![p2c.r] = Pipe(k, "p2c", "r"), ![p2c.w] = Pipe(k, "p2c", "w")]
  BY DEF PipeMade
<1>3. Unused(table) \subseteq FDs /\ o \notin Unused(table) /\ 2 \notin Unused(table)
  BY FilesOf DEF Unused
<1>4. Distinct(c2p, p2c)
  BY <1>1, <1>2 DEF Distinct
<1>5. {c2p.r, c2p.w, p2c.r, p2c.w} \in SUBSET (FDs \ {o, 2})
  BY <1>1, <1>2, <1>3
<1>6. ASSUME NEW fd \in Unused(table), fd \in Std PROVE fd = c2p.r
  <2>1. fd \in {0, 1} \ {o} /\ c2p.r <= fd /\ c2p.r \in Nat /\ c2p.r # o
    BY <1>1, <1>3, <1>6, FDsNaturals DEF Std
  <2> QED
    BY <2>1
<1>7. c2p.w \notin Std /\ p2c.r \notin Std /\ p2c.w \notin Std
  BY <1>1, <1>2, <1>6
<1>8. ASSUME NEW fd \in FDs
      PROVE  p2c.table[fd] = CASE fd = c2p.r -> Pipe(k, "c2p", "r")
                               [] fd = c2p.w -> Pipe(k, "c2p", "w")
                               [] fd = p2c.r -> Pipe(k, "p2c", "r")
                               [] fd = p2c.w -> Pipe(k, "p2c", "w")
                               [] OTHER      -> table[fd]
  <2>1. c2p.table[fd] = IF fd = c2p.w THEN Pipe(k, "c2p", "w")
                        ELSE IF fd = c2p.r THEN Pipe(k, "c2p", "r") ELSE table[fd]
    BY <1>1, <1>3 DEF Table
  <2>2. p2c.table[fd] = IF fd = p2c.w THEN Pipe(k, "p2c", "w")
                        ELSE IF fd = p2c.r THEN Pipe(k, "p2c", "r") ELSE c2p.table[fd]
    BY <1>1, <1>2, <1>3 DEF Table
  <2> QED
    BY <1>4, <2>1, <2>2 DEF Distinct
<1> QED
  BY <1>4, <1>5, <1>7, <1>8

NewKid(k, c2p, p2c, drop) == Forked(k, p2c.table, Ends(c2p), Ends(p2c), drop)

LEMMA ForkedOK ==
  ASSUME ParentOK, CredsOK, NEW k \in Kids, NEW drop,
         NEW c2p, PipeMade(table, k, "c2p", c2p), NEW p2c, PipeMade(c2p.table, k, "p2c", p2c),
         NEW c, c = NewKid(k, c2p, p2c, drop)
  PROVE  KidOK(k, c)
<1> DEFINE asked == IF drop THEN "asked" ELSE "no"
           ends == <<Ends(c2p), Ends(p2c)>>
           t == p2c.table
           fits == Fit(table)
<1>1. c2p.r \in FDs /\ c2p.w \in FDs /\ p2c.r \in FDs /\ p2c.w \in FDs /\ Distinct(c2p, p2c)
  BY DEF PipeMade, Unused, Distinct
<1>2. t \in Table /\ creds \in Creds /\ asked \in {"no", "asked"} /\ fits \in BOOLEAN
  BY DEF PipeMade, CredsOK, Fit
<1>3. /\ Ends(c2p) \in PipeEnds /\ Ends(p2c) \in PipeEnds
      /\ Ends(c2p).r = c2p.r /\ Ends(c2p).w = c2p.w /\ Ends(p2c).r = p2c.r /\ Ends(p2c).w = p2c.w
  BY <1>1 DEF Ends, PipeEnds
<1>4. ends \in PipeEnds \X PipeEnds /\ ends[1] = Ends(c2p) /\ ends[2] = Ends(p2c)
  BY <1>3
<1>5. NoKid \in KidT /\ NoKid.told = 0 /\ NoKid.exited = FALSE /\ NoKid.due = FALSE
  <2>1. NoKid \in KidT
    BY NoKidOK DEF KidOK
  <2> QED
    BY <2>1 DEF NoKid
<1>6. c = [NoKid EXCEPT !.proc = "forked", !.live = TRUE, !.table = t, !.creds = creds,
             !.from = creds, !.drop = asked, !.blocked = TRUE, !.ignored = Ignored,
             !.ends = ends, !.rfd = c2p.r, !.wfd = p2c.w, !.fits = fits]
  BY <1>3 DEF Forked, NewKid
<1>7. ASSUME fits PROVE PipesApart(k, [table |-> t, ends |-> ends])
  <2>1. table \in Table /\ table[2] = Plain("std") /\ \E o \in {0, 1} : table[o] # Closed
    BY <1>7 DEF ParentOK, Fit
  <2>2. PICK o \in {0, 1} : table[o] # Closed
    BY <2>1
  <2>3. /\ {c2p.r, c2p.w, p2c.r, p2c.w} \in SUBSET (FDs \ {o, 2})
        /\ c2p.w \notin Std /\ p2c.r \notin Std /\ p2c.w \notin Std
        /\ \A fd \in FDs : t[fd] = CASE fd = c2p.r -> Pipe(k, "c2p", "r")
                                     [] fd = c2p.w -> Pipe(k, "c2p", "w")
                                     [] fd = p2c.r -> Pipe(k, "p2c", "r")
                                     [] fd = p2c.w -> Pipe(k, "p2c", "w")
                                     [] OTHER      -> table[fd]
    BY <2>1, <2>2, NewEndsApart
  <2> HIDE DEF t, ends
  <2>4. t[c2p.w] = Pipe(k, "c2p", "w") /\ t[p2c.r] = Pipe(k, "p2c", "r")
    BY <1>1, <2>3 DEF Distinct
  <2>5. t[2] = Plain("std")
    BY <2>1, <2>3, FDsNaturals
  <2> QED
    BY <1>1, <1>3, <1>4, <2>3, <2>4, <2>5 DEF PipesApart, Distinct
<1> HIDE DEF asked, ends, t, fits
<1>8. c \in KidT
  <2> DEFINE a == [NoKid EXCEPT !.proc = "forked", !.live = TRUE, !.table = t, !.creds = creds,
                                !.from = creds, !.drop = asked]
             b == [a EXCEPT !.blocked = TRUE, !.ignored = Ignored, !.ends = ends]
  <2>1. a \in KidT
    BY <1>2, <1>5 DEF KidT
  <2>2. c = [b EXCEPT !.rfd = c2p.r, !.wfd = p2c.w, !.fits = fits]
    BY <1>6
  <2> HIDE DEF a
  <2>3. b \in KidT
    BY <1>4, <2>1 DEF KidT
  <2> HIDE DEF b
  <2> QED
    BY <1>1, <1>2, <2>2, <2>3 DEF KidT
<1>9. /\ c.proc = "forked" /\ c.table = t /\ c.creds = creds /\ c.from = creds /\ c.drop = asked
      /\ c.ends = ends
  BY <1>5, <1>6 DEF KidT
<1>10. c.told = 0 /\ c.exited = FALSE /\ c.due = FALSE /\ c.fits = fits
  BY <1>5, <1>6 DEF KidT
<1>11. ToldOnce(c) /\ IdsKnown(c)
  BY <1>2, <1>9, <1>10 DEF ToldOnce, IdsKnown
<1>12. c.fits => PipesApart(k, c)
  BY <1>7, <1>9, <1>10 DEF PipesApart
<1> QED
  BY <1>4, <1>8, <1>9, <1>11, <1>12 DEF KidOK

LEMMA KidNew ==
  ASSUME ParentOK, KidsOK, CredsOK, NEW k \in Kids, NEW drop, NEW fail \in StepsOfNew,
         child_process_new(k, drop, fail)
  PROVE  ParentOK' /\ KidsOK'
<1> DEFINE c2p == pipe(table, k, "c2p")
           p2c == pipe(c2p.table, k, "p2c")
           c == Forked(k, p2c.table, Ends(c2p), Ends(p2c), drop)
<1>1. \/ table' = table /\ kid' = kid
      \/ /\ PipeMade(table, k, "c2p", c2p) /\ PipeMade(c2p.table, k, "p2c", p2c)
         /\ table' = p2c.table /\ kid' = [kid EXCEPT ![k] = c]
  BY NewEnds DEF ParentOK
<1>2. CASE table' = table /\ kid' = kid
  BY <1>2 DEF KidsOK, ParentOK
<1>3. CASE /\ PipeMade(table, k, "c2p", c2p) /\ PipeMade(c2p.table, k, "p2c", p2c)
           /\ table' = p2c.table /\ kid' = [kid EXCEPT ![k] = c]
  <2> HIDE DEF c2p, p2c
  <2>1. KidOK(k, c)
    <3>1. c = NewKid(k, c2p, p2c, drop)
      BY DEF NewKid
    <3> HIDE DEF c
    <3> QED
      BY <1>3, <3>1, ForkedOK
  <2> HIDE DEF c
  <2>2. KidsOK'
    BY <1>3, <2>1, KidsChanged
  <2>3. PipeMade(table, k, "c2p", c2p) /\ PipeMade(c2p.table, k, "p2c", p2c) /\ table' = p2c.table
    BY <1>3
  <2>4. ASSUME NEW name \in {"p2c", "c2p"}, NEW t \in Table, NEW p, PipeMade(t, k, name, p),
               \A fd \in FDs : t[fd].name # "null"
        PROVE  p.table \in Table /\ \A fd \in FDs : p.table[fd].name # "null"
    <3>1. /\ p.table = [t EXCEPT ![p.r] = Pipe(k, name, "r"), ![p.w] = Pipe(k, name, "w")]
          /\ p.table \in Table
      BY <2>4 DEF PipeMade
    <3>2. \A fd \in FDs : p.table[fd] \in {Pipe(k, name, "r"), Pipe(k, name, "w"), t[fd]}
      BY <3>1 DEF Table
    <3>3. Pipe(k, name, "r").name # "null" /\ Pipe(k, name, "w").name # "null"
      BY DEF Pipe
    <3> QED
      BY <2>4, <3>1, <3>2, <3>3
  <2>5. c2p.table \in Table /\ \A fd \in FDs : c2p.table[fd].name # "null"
    BY <2>3, <2>4 DEF ParentOK
  <2>6. p2c.table \in Table /\ \A fd \in FDs : p2c.table[fd].name # "null"
    BY <2>3, <2>4, <2>5
  <2> QED
    BY <2>2, <2>3, <2>6 DEF ParentOK
<1> QED
  BY <1>1, <1>2, <1>3

LEMMA Inductive ==
  ASSUME CredsOK, ParentOK, KidsOK, [Next]_vars
  PROVE  ParentOK' /\ KidsOK'
<1>1. CASE UNCHANGED <<table, kid>>
  BY <1>1 DEF KidsOK, ParentOK
<1>2. ASSUME table' = table PROVE ParentOK'
  BY <1>2 DEF ParentOK
<1>3. ASSUME NEW fail, DropTemporarily(fail) \/ Restore(fail) PROVE UNCHANGED <<table, kid>>
  BY <1>3 DEF DropTemporarily, Restore
<1>4. ASSUME NEW p, NEW a, BuildEnviron(p, a) PROVE UNCHANGED <<table, kid>>
  BY <1>4 DEF BuildEnviron
<1>5. ASSUME NEW k \in Kids, NEW drop, NEW fail \in StepsOfNew, child_process_new(k, drop, fail)
      PROVE  ParentOK' /\ KidsOK'
  BY <1>5, KidNew
<1>6. ASSUME NEW k \in Kids, ParentStarts(k) PROVE ParentOK' /\ KidsOK'
  BY <1>6, KidStarted
<1>7. ASSUME NEW k \in Kids, NEW bad, NEW fail, ChildCleansUp(k, bad, fail)
      PROVE  table' = table /\ KidsOK'
  BY <1>7, KidCleansUp DEF ChildCleansUp
<1>8. ASSUME NEW k \in Kids, NEW ok, ChildExecs(k, ok) PROVE table' = table /\ KidsOK'
  BY <1>8, KidExecs DEF ChildExecs
<1>9. ASSUME NEW k \in Kids, ChildExits(k) PROVE table' = table /\ KidsOK'
  BY <1>9, KidExits DEF ChildExits
<1>10. ASSUME NEW k \in Kids, Reap(k) PROVE table' = table /\ KidsOK'
  BY <1>10, KidReaped DEF Reap
<1>11. ASSUME NEW k \in Kids, NEW match, sigchld_cb(k, match) PROVE table' = table /\ KidsOK'
  BY <1>11, KidTold DEF sigchld_cb
<1>12. ASSUME NEW k \in Kids,
              child_aiofd_read_evt_fn(k) \/ child_process_write(k) \/ child_aiofd_write_evt_fn(k)
       PROVE  table' = table /\ KidsOK'
  <2>1. table' = table
    BY <1>12 DEF child_aiofd_read_evt_fn, child_process_write, child_aiofd_write_evt_fn
  <2> QED
    BY <1>12, <2>1, KidKnown
<1>13. ASSUME NEW k \in Kids, NEW wait, child_process_delete(k, wait) PROVE ParentOK' /\ KidsOK'
  BY <1>13, KidDeleted
<1>14. CASE Next
  BY <1>1, <1>2, <1>3, <1>4, <1>5, <1>6, <1>7, <1>8, <1>9, <1>10, <1>11, <1>12, <1>13, <1>14 DEF Next
<1>15. CASE UNCHANGED vars
  BY <1>1, <1>15 DEF vars
<1> QED
  BY <1>14, <1>15

LEMMA Initially == Init => ParentOK /\ KidsOK
<1> SUFFICES ASSUME Init PROVE ParentOK /\ KidsOK
  OBVIOUS
<1>1. kid = [k \in Kids |-> NoKid]
  BY DEF Init
<1>2. KidsOK
  BY <1>1, NoKidOK DEF KidsOK, KidOK
<1>3. PICK start \in Starts :
        table = [fd \in FDs |-> CASE fd \notin start.open -> Closed
                                  [] fd \in start.open \cap Std -> Plain("std")
                                  [] OTHER -> Plain("file")]
  BY DEF Init
<1>4. \A fd \in FDs : table[fd] \in {Plain("std"), Plain("file"), Closed}
  BY <1>3
<1>5. DOMAIN table = FDs /\ table = [fd \in FDs |-> table[fd]]
  BY <1>3
<1>6. table \in Table /\ \A fd \in FDs : table[fd].name # "null"
  BY <1>4, <1>5, FilesOf DEF Table
<1> QED
  BY <1>2, <1>6 DEF ParentOK

LEMMA Invariant == Spec => [](CredsOK /\ ParentOK /\ KidsOK)
<1>1. CredsOK /\ (ParentOK /\ KidsOK) /\ [Next]_vars => (ParentOK /\ KidsOK)'
  BY Inductive
<1> QED
  BY <1>1, Initially, CredsInvariant, PTL DEF Spec

(* The descriptors of the parent, its ids, the state of each child, the    *)
(* length of its queue and the count of calls of its exit callback are     *)
(* always well-typed, and that callback has been called exactly once when  *)
(* a child_process_t says that the child has exited.                       *)
THEOREM TypeCorrect == Spec => []TypeOK
<1>1. ASSUME CredsOK, ParentOK, KidsOK PROVE TypeOK
  <2>1. \A fd \in FDs : table[fd].name \in {"closed", "std", "file", "p2c", "c2p"}
    <3>1. ASSUME NEW fd \in FDs PROVE table[fd].name \in {"closed", "std", "file", "p2c", "c2p"}
      <4>1. table[fd] \in FileT /\ table[fd].name # "null"
        BY <1>1 DEF ParentOK, Table
      <4> QED
        BY <4>1 DEF FileT
    <3> QED
      BY <3>1
  <2>2. \A which \in {"uid", "gid"} : \A f \in {"r", "e", "s"} : creds[which][f] \in Ids
    <3>1. creds.uid \in IdType /\ creds.gid \in IdType
      BY <1>1 DEF CredsOK, Creds
    <3>2. \A i \in IdType : i.r \in Ids /\ i.e \in Ids /\ i.s \in Ids
      BY DEF IdType
    <3> QED
      BY <3>1, <3>2
  <2>3. ASSUME NEW k \in Kids
        PROVE  /\ kid[k].proc \in {"none", "forked", "clean", "running", "zombie", "reaped"}
               /\ kid[k].wbuf \in 0 .. MaxQueue
               /\ kid[k].exited => kid[k].told = 1
    <3>1. kid[k] \in KidT /\ ToldOnce(kid[k])
      BY <1>1 DEF KidsOK, KidOK
    <3>2. kid[k].exited => kid[k].told = 1
      BY <3>1 DEF ToldOnce
    <3> QED
      BY <3>1, <3>2 DEF KidT
  <2> QED
    BY <2>1, <2>2, <2>3 DEF TypeOK
<1> QED
  BY <1>1, Invariant, PTL

(* A program that child_process_new started reads from the pipe its parent *)
(* writes to, writes to the pipe its parent reads from, keeps the standard *)
(* error and has no other descriptor, if its parent had standard error and *)
(* one of the other two when it forked: whatever else the parent had open  *)
(* when it started, and however many children it started and deleted.      *)
THEOREM ProgramWired == Spec => []ChildWired
<1>1. ASSUME KidsOK PROVE ChildWired
  <2>1. ASSUME NEW k \in Kids, kid[k].proc = "running", kid[k].fits PROVE Wired(k, kid[k])
    BY <1>1, <2>1 DEF KidsOK, KidOK
  <2> QED
    BY <2>1 DEF Wired, ChildWired
<1> QED
  BY <1>1, Invariant, PTL

(* A child whose drop_privileges answered TRUE, forked by a parent that    *)
(* had not dropped its own, has its real ids for effective and saved ones. *)
THEOREM PrivilegesDropped == Spec => []ChildDropped
<1>1. ASSUME KidsOK PROVE ChildDropped
  <2>1. ASSUME NEW k \in Kids PROVE IdsKnown(kid[k])
    BY <1>1 DEF KidsOK, KidOK
  <2> QED
    BY <2>1 DEF ChildDropped, IdsKnown, Which, AllReal
<1> QED
  BY <1>1, Invariant, PTL

(* child_process_new that answers NULL leaves the parent's descriptors as  *)
(* they were, whichever of its steps failed.                               *)
THEOREM FailedNewClosesAll == Spec => FailedNewCloses
<1>1. ASSUME ParentOK, KidsOK, NEW k \in Kids, NEW drop \in BOOLEAN, NEW fail \in StepsOfNew,
             child_process_new(k, drop, fail), kid'[k] = NoKid
      PROVE  table' = table
  <2> DEFINE c2p == pipe(table, k, "c2p")
             p2c == pipe(c2p.table, k, "p2c")
             c == Forked(k, p2c.table, Ends(c2p), Ends(p2c), drop)
  <2>1. table' = table \/ kid' = [kid EXCEPT ![k] = c]
    BY <1>1, NewEnds DEF ParentOK
  <2>2. NoKid.proc = "none" /\ c.proc = "forked"
    BY DEF NoKid, Forked
  <2> HIDE DEF c
  <2> QED
    BY <1>1, <2>1, <2>2 DEF KidsOK
<1>2. ParentOK /\ KidsOK =>
        [\A k \in Kids, drop \in BOOLEAN, fail \in StepsOfNew :
           child_process_new(k, drop, fail) /\ kid'[k] = NoKid => table' = table]_vars
  BY <1>1
<1> QED
  BY <1>2, Invariant, PTL DEF FailedNewCloses

(* The strings that build_clean_environ copies lie one behind the other    *)
(* between the pointers and the end of the memory it allocated, whatever   *)
(* their number and their lengths and whichever variables are set.         *)
THEOREM EnvironmentFits == Spec => []EnvironFits
<1>1. Init => EnvironFits
  BY DEF Init, EnvironFits
<1>2. EnvironFits /\ [Next]_vars => EnvironFits'
  <2> SUFFICES ASSUME EnvironFits, [Next]_vars PROVE EnvironFits'
    OBVIOUS
  <2>1. CASE environ' = environ \/ environ' = NULL
    BY <2>1 DEF EnvironFits
  <2>2. ASSUME NEW p \in 1 .. Len(Variables), NEW a \in 0 .. Len(Added),
               BuildEnviron(SubSeq(Variables, 1, p), SubSeq(Added, 1, a))
        PROVE  EnvironFits'
    <3>1. PICK preserve \in Seq(VarT) : preserve = SubSeq(Variables, 1, p)
      <4>1. Variables \in Seq(VarT) /\ Len(Variables) \in Nat
        BY LengthsAssumption DEF VarT
      <4>2. \A i \in 1 .. p : Variables[i] \in VarT
        <5>1. \A i \in 1 .. p : i \in 1 .. Len(Variables)
          BY <4>1
        <5> QED
          BY <4>1, <5>1, ElementOfSeq
      <4>3. SubSeq(Variables, 1, p) \in Seq(VarT)
        BY <4>2, SubSeqProperties
      <4> QED
        BY <4>3
    <3>2. PICK add \in Seq(Nat) : add = SubSeq(Added, 1, a)
      <4>1. Added \in Seq(Nat) /\ Len(Added) \in Nat
        BY LengthsAssumption
      <4>2. \A i \in 1 .. a : Added[i] \in Nat
        <5>1. \A i \in 1 .. a : i \in 1 .. Len(Added)
          BY <4>1
        <5> QED
          BY <4>1, <5>1, ElementOfSeq
      <4>3. SubSeq(Added, 1, a) \in Seq(Nat)
        BY <4>2, SubSeqProperties
      <4> QED
        BY <4>3
    <3>3. environ' = build_clean_environ(CleanVars, preserve, add, PTR)
      BY <2>2, <3>1, <3>2 DEF BuildEnviron
    <3>4. Fits(environ')
      BY <3>3, BuiltFits, LengthsAssumption
    <3> QED
      BY <3>4 DEF EnvironFits, Fits
  <2>3. ASSUME NEW fail, DropTemporarily(fail) \/ Restore(fail) PROVE environ' = environ
    BY <2>3 DEF DropTemporarily, Restore
  <2>4. ASSUME NEW k, NEW drop, NEW fail, child_process_new(k, drop, fail)
        PROVE  environ' = environ \/ environ' = NULL
    BY <2>4 DEF child_process_new
  <2>5. ASSUME NEW k,
               \/ \E bad \in {0, 3}, fail \in Failures : ChildCleansUp(k, bad, fail)
               \/ \E ok \in BOOLEAN : ChildExecs(k, ok)
               \/ ChildExits(k)
               \/ ParentStarts(k)
               \/ Reap(k)
               \/ \E match \in BOOLEAN : sigchld_cb(k, match)
               \/ child_aiofd_read_evt_fn(k)
               \/ child_process_write(k)
               \/ child_aiofd_write_evt_fn(k)
               \/ \E wait \in BOOLEAN : child_process_delete(k, wait)
        PROVE  environ' = environ
    BY <2>5 DEF ChildCleansUp, ChildExecs, ChildExits, ParentStarts, Reap, sigchld_cb, child_aiofd_read_evt_fn,
                child_process_write, child_aiofd_write_evt_fn, child_process_delete
  <2>6. CASE UNCHANGED vars
    BY <2>1, <2>6 DEF vars
  <2> QED
    BY <2>1, <2>2, <2>3, <2>4, <2>5, <2>6 DEF Next
<1> QED
  BY <1>1, <1>2, PTL DEF Spec
=============================================================================

----------------------------- MODULE Sums_proof -----------------------------
(* Induction over the naturals, stated about sets of naturals, and what    *)
(* follows from it about sums and about sequences joined to one.           *)
EXTENDS Sums, SequencesExt, FiniteSetTheorems, SequenceTheorems, TLAPS

(* The least element is that of the least interval 1..n, which the library *)
(* provides: inclusion of finite sets is well founded.                     *)
LEMMA LeastNatural ==
  ASSUME NEW T, T \subseteq Nat, T # {}
  PROVE  \E n \in T : \A m \in T : n <= m
<1> DEFINE R == StrictSubsetOrdering(Nat)
           F == {1..n : n \in T}
<1>1. F \subseteq FiniteSubsetsOf(Nat) /\ F # {}
  <2>1. \A n \in T : 1..n \in SUBSET Nat /\ IsFiniteSet(1..n)
    BY FS_Interval
  <2> QED BY <2>1 DEF FiniteSubsetsOf
<1>2. IsWellFoundedOn(R, FiniteSubsetsOf(Nat))
  BY FS_StrictSubsetOrderingWellFounded
<1>3. PICK S \in F : \A U \in F : ~ (<<U, S>> \in R)
  <2> HIDE DEF F, R
  <2> QED BY <1>1, <1>2, WFMin
<1>4. PICK n \in T : S = 1..n
  OBVIOUS
<1>5. ASSUME NEW m \in T, m < n PROVE FALSE
  <2>1. 1..m \subseteq 1..n /\ 1..m # 1..n /\ 1..m \in F
    <3>1. n \in 1..n /\ n \notin 1..m
      BY <1>5
    <3> QED BY <3>1, <1>5
  <2>2. <<1..m, 1..n>> \in R
    BY <2>1 DEF StrictSubsetOrdering
  <2> QED BY <2>1, <2>2, <1>3, <1>4
<1> QED BY <1>5

LEMMA Induction ==
  ASSUME NEW T, 0 \in T, \A n \in Nat : n \in T => n + 1 \in T
  PROVE  \A n \in Nat : n \in T
<1> SUFFICES ASSUME Nat \ T # {} PROVE FALSE
  OBVIOUS
<1>1. PICK n \in Nat \ T : \A m \in Nat \ T : n <= m
  BY LeastNatural
<1>2. n # 0 /\ n - 1 \in Nat /\ n - 1 \in T
  BY <1>1
<1> QED BY <1>1, <1>2
-----------------------------------------------------------------------------
(* The recursive definition defines: its first values are determined.      *)

IsSum(f, g, n) ==
  /\ DOMAIN g = 0..n /\ g[0] = 0
  /\ \A k \in 1..n : g[k] = g[k - 1] + f[k]

LEMMA SumExists == ASSUME NEW f PROVE \A n \in Nat : \E g : IsSum(f, g, n)
<1> DEFINE T == {n \in Nat : \E g : IsSum(f, g, n)}
<1>1. 0 \in T
  <2>1. IsSum(f, [k \in 0..0 |-> 0], 0)
    BY DEF IsSum
  <2> QED BY <2>1
<1>2. ASSUME NEW n \in Nat, n \in T PROVE n + 1 \in T
  <2>1. PICK g : IsSum(f, g, n)
    BY <1>2
  <2> DEFINE h == [k \in 0..(n + 1) |-> IF k = n + 1 THEN g[n] + f[n + 1] ELSE g[k]]
  <2>2. IsSum(f, h, n + 1)
    BY <2>1 DEF IsSum
  <2> QED BY <2>2
<1> HIDE DEF T
<1>3. \A n \in Nat : n \in T
  BY <1>1, <1>2, Induction
<1> QED BY <1>3 DEF T

LEMMA SumUnique ==
  ASSUME NEW f, NEW m \in Nat, NEW n \in Nat, NEW g, NEW h,
         IsSum(f, g, m), IsSum(f, h, n)
  PROVE  \A k \in Nat : k <= m /\ k <= n => g[k] = h[k]
<1> DEFINE T == {k \in Nat : k <= m /\ k <= n => g[k] = h[k]}
<1>1. 0 \in T
  BY DEF IsSum
<1>2. ASSUME NEW k \in Nat, k \in T PROVE k + 1 \in T
  <2>1. CASE k + 1 <= m /\ k + 1 <= n
    <3>1. g[k] = h[k] /\ k + 1 \in 1..m /\ k + 1 \in 1..n /\ (k + 1) - 1 = k
      BY <1>2, <2>1
    <3> QED BY <3>1 DEF IsSum
  <2> QED BY <2>1
<1> HIDE DEF T
<1>3. \A k \in Nat : k \in T
  BY <1>1, <1>2, Induction
<1> QED BY <1>3 DEF T

SumsOf(f) == CHOOSE g : g = [k \in Nat |-> IF k = 0 THEN 0 ELSE g[k - 1] + f[k]]

LEMMA SumsDefined ==
  ASSUME NEW f
  PROVE  SumsOf(f) = [k \in Nat |-> IF k = 0 THEN 0 ELSE SumsOf(f)[k - 1] + f[k]]
<1> DEFINE Some(n) == CHOOSE g : IsSum(f, g, n)
           s == [n \in Nat |-> Some(n)[n]]
<1>1. \A n \in Nat : IsSum(f, Some(n), n)
  BY SumExists
<1>2. s = [k \in Nat |-> IF k = 0 THEN 0 ELSE s[k - 1] + f[k]]
  <2>1. s[0] = 0
    BY <1>1 DEF IsSum
  <2>2. ASSUME NEW k \in Nat, k # 0 PROVE s[k] = s[k - 1] + f[k]
    <3> HIDE DEF Some
    <3>1. k - 1 \in Nat /\ k \in 1..k /\ IsSum(f, Some(k), k) /\ IsSum(f, Some(k - 1), k - 1)
      BY <1>1, <2>2
    <3>2. Some(k)[k - 1] = Some(k - 1)[k - 1]
      BY <3>1, SumUnique
    <3>3. Some(k)[k] = Some(k)[k - 1] + f[k]
      BY <3>1 DEF IsSum
    <3> QED BY <3>1, <3>2, <3>3
  <2> HIDE DEF Some
  <2> QED BY <2>1, <2>2
<1>3. \E g : g = [k \in Nat |-> IF k = 0 THEN 0 ELSE g[k - 1] + f[k]]
  BY <1>2
<1> QED BY <1>3 DEF SumsOf

LEMMA SumToIs == ASSUME NEW f, NEW n PROVE SumTo(f, n) = SumsOf(f)[n]
BY Zenon DEF SumTo, SumsOf

LEMMA SumOfNone == ASSUME NEW f PROVE SumTo(f, 0) = 0
<1>1. SumsOf(f)[0] = 0
  BY SumsDefined
<1> QED BY <1>1, SumToIs

LEMMA SumOfMore ==
  ASSUME NEW f, NEW n \in Nat
  PROVE  SumTo(f, n + 1) = SumTo(f, n) + f[n + 1]
<1>1. SumsOf(f)[n + 1] = SumsOf(f)[(n + 1) - 1] + f[n + 1]
  BY SumsDefined
<1> QED BY <1>1, SumToIs
-----------------------------------------------------------------------------
(* What follows for sums.                                                  *)

LEMMA SumOfSame ==
  ASSUME NEW f, NEW g, NEW n \in Nat, \A k \in 1..n : f[k] = g[k]
  PROVE  SumTo(f, n) = SumTo(g, n)
<1> DEFINE T == {k \in Nat : k <= n => SumTo(f, k) = SumTo(g, k)}
<1>1. 0 \in T
  BY SumOfNone
<1>2. ASSUME NEW k \in Nat, k \in T PROVE k + 1 \in T
  <2>1. SumTo(f, k + 1) = SumTo(f, k) + f[k + 1] /\ SumTo(g, k + 1) = SumTo(g, k) + g[k + 1]
    BY SumOfMore
  <2> QED BY <1>2, <2>1
<1> HIDE DEF T
<1>3. \A k \in Nat : k \in T
  BY <1>1, <1>2, Induction
<1> QED BY <1>3 DEF T

LEMMA SumIsNatural ==
  ASSUME NEW f, NEW n \in Nat, \A k \in 1..n : f[k] \in Nat
  PROVE  SumTo(f, n) \in Nat
<1> DEFINE T == {k \in Nat : k <= n => SumTo(f, k) \in Nat}
<1>1. 0 \in T
  BY SumOfNone
<1>2. ASSUME NEW k \in Nat, k \in T PROVE k + 1 \in T
  <2>1. SumTo(f, k + 1) = SumTo(f, k) + f[k + 1]
    BY SumOfMore
  <2> QED BY <1>2, <2>1
<1> HIDE DEF T
<1>3. \A k \in Nat : k \in T
  BY <1>1, <1>2, Induction
<1> QED BY <1>3 DEF T

LEMMA SumGrows ==
  ASSUME NEW f, NEW m \in Nat, NEW n \in Nat, m <= n, \A k \in 1..n : f[k] \in Nat
  PROVE  SumTo(f, m) <= SumTo(f, n)
<1> DEFINE T == {k \in Nat : m <= k /\ k <= n => SumTo(f, m) <= SumTo(f, k)}
<1>0. \A k \in Nat : k <= n => SumTo(f, k) \in Nat
  BY SumIsNatural
<1>1. 0 \in T
  BY <1>0
<1>2. ASSUME NEW k \in Nat, k \in T PROVE k + 1 \in T
  <2>1. SumTo(f, k + 1) = SumTo(f, k) + f[k + 1]
    BY SumOfMore
  <2> QED BY <1>0, <1>2, <2>1
<1> HIDE DEF T
<1>3. \A k \in Nat : k \in T
  BY <1>1, <1>2, Induction
<1> QED BY <1>3 DEF T

LEMMA SumOfParts ==
  ASSUME NEW f, NEW g, NEW m \in Nat, NEW n \in Nat,
         \A k \in 1..(m + n) : f[k] \in Nat, \A k \in 1..n : g[k] = f[m + k]
  PROVE  SumTo(f, m + n) = SumTo(f, m) + SumTo(g, n)
<1> DEFINE T == {k \in Nat : k <= n => SumTo(f, m + k) = SumTo(f, m) + SumTo(g, k)}
<1>0. \A k \in Nat : k <= n => SumTo(g, k) \in Nat /\ SumTo(f, m + k) \in Nat
  BY SumIsNatural
<1>1. 0 \in T
  BY SumOfNone, <1>0
<1>2. ASSUME NEW k \in Nat, k \in T PROVE k + 1 \in T
  <2>1. SumTo(g, k + 1) = SumTo(g, k) + g[k + 1]
    BY SumOfMore
  <2>2. SumTo(f, m + k + 1) = SumTo(f, m + k) + f[m + k + 1]
    BY SumOfMore
  <2>3. SumTo(f, m) \in Nat
    BY SumIsNatural
  <2> QED BY <1>0, <1>2, <2>1, <2>2, <2>3
<1> HIDE DEF T
<1>3. \A k \in Nat : k \in T
  BY <1>1, <1>2, Induction
<1> QED BY <1>3 DEF T

LEMMA SumOfZeroes ==
  ASSUME NEW f, NEW n \in Nat, \A k \in 1..n : f[k] = 0
  PROVE  SumTo(f, n) = 0
<1> DEFINE T == {k \in Nat : k <= n => SumTo(f, k) = 0}
<1>1. 0 \in T
  BY SumOfNone
<1>2. ASSUME NEW k \in Nat, k \in T PROVE k + 1 \in T
  BY <1>2, SumOfMore
<1> HIDE DEF T
<1>3. \A k \in Nat : k \in T
  BY <1>1, <1>2, Induction
<1> QED BY <1>3 DEF T

(* n values of at most b each. *)
LEMMA SumIsBounded ==
  ASSUME NEW f, NEW n \in Nat, NEW b \in Nat, \A k \in 1..n : f[k] \in 0..b
  PROVE  SumTo(f, n) <= n * b
<1> DEFINE T == {k \in Nat : k <= n => SumTo(f, k) <= k * b}
<1>0. \A k \in Nat : k <= n => SumTo(f, k) \in Nat
  BY SumIsNatural
<1>1. 0 \in T
  BY SumOfNone
<1>2. ASSUME NEW k \in Nat, k \in T PROVE k + 1 \in T
  <2>1. SumTo(f, k + 1) = SumTo(f, k) + f[k + 1] /\ (k + 1) * b = k * b + b
    BY SumOfMore
  <2> QED BY <1>0, <1>2, <2>1
<1> HIDE DEF T
<1>3. \A k \in Nat : k \in T
  BY <1>1, <1>2, Induction
<1> QED BY <1>3 DEF T
-----------------------------------------------------------------------------
(* FlattenSeq: its recursive definition defines, too.                      *)

IsFlat(seqs, g, n) ==
  /\ DOMAIN g = 1..n
  /\ \A k \in 1..n : g[k] = IF k = 1 THEN seqs[k] ELSE g[k - 1] \o seqs[k]

LEMMA FlatExists == ASSUME NEW q PROVE \A n \in Nat : \E g : IsFlat(q, g, n)
<1> DEFINE T == {n \in Nat : \E g : IsFlat(q, g, n)}
<1>1. 0 \in T
  <2>1. IsFlat(q, [k \in 1..0 |-> 0], 0)
    BY DEF IsFlat
  <2> QED BY <2>1
<1>2. ASSUME NEW n \in Nat, n \in T PROVE n + 1 \in T
  <2>1. PICK g : IsFlat(q, g, n)
    BY <1>2
  <2> DEFINE last == IF n = 0 THEN q[1] ELSE g[n] \o q[n + 1]
             h == [k \in 1..(n + 1) |-> IF k = n + 1 THEN last ELSE g[k]]
  <2>2. IsFlat(q, h, n + 1)
    <3> SUFFICES ASSUME NEW k \in 1..(n + 1)
                 PROVE  h[k] = IF k = 1 THEN q[k] ELSE h[k - 1] \o q[k]
      BY DEF IsFlat
    <3>1. CASE k = n + 1
      <4>1. k # 1 => k - 1 \in 1..n /\ n # 0 /\ h[k - 1] = g[n]
        BY <3>1
      <4> QED BY <3>1, <4>1
    <3>2. CASE k # n + 1
      <4>1. k \in 1..n /\ h[k] = g[k] /\ (k # 1 => h[k - 1] = g[k - 1])
        BY <3>2
      <4> HIDE DEF h
      <4> QED BY <2>1, <4>1 DEF IsFlat
    <3> QED BY <3>1, <3>2
  <2> HIDE DEF h
  <2> QED BY <2>2
<1> HIDE DEF T
<1>3. \A n \in Nat : n \in T
  BY <1>1, <1>2, Induction
<1> QED BY <1>3 DEF T

LEMMA FlatUnique ==
  ASSUME NEW q, NEW m \in Nat, NEW n \in Nat, NEW g, NEW h,
         IsFlat(q, g, m), IsFlat(q, h, n)
  PROVE  \A k \in Nat : 1 <= k /\ k <= m /\ k <= n => g[k] = h[k]
<1> DEFINE T == {k \in Nat : 1 <= k /\ k <= m /\ k <= n => g[k] = h[k]}
<1>1. 0 \in T
  OBVIOUS
<1>2. ASSUME NEW k \in Nat, k \in T PROVE k + 1 \in T
  <2>1. CASE k + 1 <= m /\ k + 1 <= n
    <3>1. k + 1 \in 1..m /\ k + 1 \in 1..n /\ (k + 1) - 1 = k
      BY <2>1
    <3>2. k + 1 # 1 => g[k] = h[k]
      BY <1>2, <2>1
    <3>3. /\ g[k + 1] = IF k + 1 = 1 THEN q[k + 1] ELSE g[k] \o q[k + 1]
          /\ h[k + 1] = IF k + 1 = 1 THEN q[k + 1] ELSE h[k] \o q[k + 1]
      BY <3>1 DEF IsFlat
    <3> QED BY <3>2, <3>3
  <2> QED BY <2>1
<1> HIDE DEF T
<1>3. \A k \in Nat : k \in T
  BY <1>1, <1>2, Induction
<1> QED BY <1>3 DEF T

Flats(q) == CHOOSE f : f = [i \in 1..Len(q) |-> IF i = 1 THEN q[i] ELSE f[i - 1] \o q[i]]

LEMMA FlatsDefined ==
  ASSUME NEW S, NEW q \in Seq(S)
  PROVE  IsFlat(q, Flats(q), Len(q))
<1> DEFINE n == Len(q)
<1>1. n \in Nat
  OBVIOUS
<1>2. PICK g : IsFlat(q, g, n)
  BY <1>1, FlatExists
<1> DEFINE h == [k \in 1..n |-> g[k]]
<1>3. h = [i \in 1..n |-> IF i = 1 THEN q[i] ELSE h[i - 1] \o q[i]]
  <2>1. ASSUME NEW i \in 1..n PROVE h[i] = IF i = 1 THEN q[i] ELSE h[i - 1] \o q[i]
    <3>1. g[i] = IF i = 1 THEN q[i] ELSE g[i - 1] \o q[i]
      BY <1>2 DEF IsFlat
    <3>2. i # 1 => i - 1 \in 1..n
      BY <1>1
    <3> HIDE DEF n
    <3> QED BY <3>1, <3>2
  <2> HIDE DEF n
  <2> QED BY <2>1
<1>4. Flats(q) = [i \in 1..n |-> IF i = 1 THEN q[i] ELSE Flats(q)[i - 1] \o q[i]]
  <2> HIDE DEF h
  <2>1. \E f : f = [i \in 1..n |-> IF i = 1 THEN q[i] ELSE f[i - 1] \o q[i]]
    BY <1>3
  <2> QED BY <2>1, Zenon DEF Flats
<1> HIDE DEF n
<1> QED BY <1>4 DEF IsFlat, n

LEMMA FlatIs ==
  ASSUME NEW S, NEW q \in Seq(S), q # <<>>
  PROVE  FlattenSeq(q) = Flats(q)[Len(q)]
<1>1. Len(q) # 0
  OBVIOUS
<1> QED BY <1>1, Zenon DEF FlattenSeq, Flats

LEMMA FlatOfNone == FlattenSeq(<<>>) = <<>>
<1>1. Len(<<>>) = 0
  OBVIOUS
<1> QED BY <1>1 DEF FlattenSeq

LEMMA FlatOfMore ==
  ASSUME NEW S, NEW q \in Seq(Seq(S)), NEW x \in Seq(S)
  PROVE  FlattenSeq(Append(q, x)) = FlattenSeq(q) \o x
<1> DEFINE n == Len(q)
           more == Append(q, x)
<1>1. /\ n \in Nat /\ more \in Seq(Seq(S)) /\ Len(more) = n + 1 /\ more # <<>>
      /\ more[n + 1] = x /\ \A i \in 1..n : more[i] = q[i]
  <2> DEFINE E == Seq(S)
  <2> HIDE DEF E
  <2>1. q \in Seq(E) /\ x \in E
    BY DEF E
  <2>2. /\ n \in Nat /\ more \in Seq(E) /\ Len(more) = n + 1 /\ more # <<>>
        /\ more[n + 1] = x /\ \A i \in 1..n : more[i] = q[i]
    BY <2>1
  <2> QED BY <2>2 DEF E
<1> HIDE DEF more
<1>2. FlattenSeq(more) = Flats(more)[n + 1]
  BY <1>1, FlatIs
<1>3. IsFlat(more, Flats(more), n + 1) /\ IsFlat(q, Flats(q), n)
  BY <1>1, FlatsDefined
<1>4. CASE n = 0
  <2>1. q = <<>> /\ FlattenSeq(q) = <<>>
    BY <1>4, FlatOfNone
  <2>2. Flats(more)[1] = more[1]
    BY <1>3, <1>4 DEF IsFlat
  <2>3. <<>> \o x = x
    BY ConcatEmptySeq
  <2> QED BY <1>1, <1>2, <1>4, <2>1, <2>2, <2>3 DEF more
<1>5. CASE n # 0
  <2>1. IsFlat(more, Flats(q), n)
    <3> HIDE DEF n
    <3>1. \A k \in 1..n : more[k] = q[k]
      BY <1>1
    <3> QED BY <1>3, <3>1 DEF IsFlat
  <2>2. Flats(more)[n] = Flats(q)[n]
    <3> HIDE DEF n
    <3>1. 1 <= n /\ n <= n + 1 /\ n <= n /\ n + 1 \in Nat
      BY <1>1, <1>5
    <3> DEFINE m == n + 1
    <3>2. m \in Nat /\ n \in Nat /\ n <= m /\ IsFlat(more, Flats(more), m)
      BY <1>1, <1>3, <3>1
    <3> HIDE DEF m
    <3>3. \A k \in Nat : 1 <= k /\ k <= m /\ k <= n => Flats(more)[k] = Flats(q)[k]
      BY <2>1, <3>2, FlatUnique
    <3> QED BY <3>1, <3>2, <3>3
  <2>3. Flats(more)[n + 1] = Flats(more)[n] \o more[n + 1]
    <3> HIDE DEF n
    <3>1. n + 1 \in 1..(n + 1) /\ n + 1 # 1 /\ (n + 1) - 1 = n
      BY <1>1, <1>5
    <3> QED BY <1>3, <3>1 DEF IsFlat
  <2>4. FlattenSeq(q) = Flats(q)[n]
    <3>1. q # <<>>
      BY <1>5
    <3> QED BY <3>1, FlatIs
  <2> QED BY <1>1, <1>2, <2>2, <2>3, <2>4 DEF more
<1> QED BY <1>4, <1>5

(* A sequence grows from the empty one. *)
LEMMA LastApart ==
  ASSUME NEW E, NEW n \in Nat, NEW q \in Seq(E), Len(q) = n + 1
  PROVE  \E f \in Seq(E), x \in E : q = Append(f, x) /\ Len(f) = n
<1> DEFINE f == [i \in 1..n |-> q[i]]
<1>1. f \in Seq(E) /\ Len(f) = n /\ q[n + 1] \in E
  OBVIOUS
<1>2. Append(f, q[n + 1]) \in Seq(E) /\ Len(Append(f, q[n + 1])) = n + 1
  BY <1>1
<1>3. \A i \in 1..(n + 1) : Append(f, q[n + 1])[i] = q[i]
  <2> TAKE i \in 1..(n + 1)
  <2>1. CASE i = n + 1
    BY <1>1, <2>1
  <2>2. CASE i # n + 1
    <3>1. i \in 1..n /\ f[i] = q[i]
      BY <2>2
    <3> HIDE DEF f
    <3> QED BY <1>1, <3>1
  <2> QED BY <2>1, <2>2
<1> HIDE DEF f
<1>4. q = Append(f, q[n + 1])
  <2> DEFINE g == Append(f, q[n + 1])
  <2>1. g \in Seq(E) /\ Len(g) = n + 1 /\ \A i \in 1..Len(q) : q[i] = g[i]
    BY <1>2, <1>3
  <2> HIDE DEF g
  <2>2. q = g
    BY <2>1, SeqEqual
  <2> QED BY <2>2 DEF g
<1> QED BY <1>1, <1>4

LEMMA FlatInSeq ==
  ASSUME NEW S, NEW q \in Seq(Seq(S))
  PROVE  FlattenSeq(q) \in Seq(S)
<1> DEFINE E == Seq(S)
           T == {n \in Nat : \A p \in Seq(E) : Len(p) = n => FlattenSeq(p) \in E}
<1>1. 0 \in T
  <2>1. <<>> \in E
    BY EmptySeq
  <2> HIDE DEF E
  <2>2. \A p \in Seq(E) : Len(p) = 0 => p = <<>>
    OBVIOUS
  <2> QED BY <2>1, <2>2, FlatOfNone
<1>2. ASSUME NEW n \in Nat, n \in T PROVE n + 1 \in T
  <2>1. ASSUME NEW p \in Seq(E), Len(p) = n + 1 PROVE FlattenSeq(p) \in E
    <3>1. PICK f \in Seq(E), x \in E : p = Append(f, x) /\ Len(f) = n
      <4> HIDE DEF E
      <4> QED BY <2>1, LastApart
    <3>2. FlattenSeq(p) = FlattenSeq(f) \o x
      BY <3>1, FlatOfMore
    <3>3. FlattenSeq(f) \in E
      BY <1>2, <3>1
    <3> QED BY <3>2, <3>3, ConcatProperties
  <2> QED BY <2>1
<1>3. \A n \in Nat : n \in T
  <2> HIDE DEF T
  <2> QED BY <1>1, <1>2, Induction
<1>4. Len(q) \in Nat
  BY LenProperties
<1> QED BY <1>3, <1>4

LEMMA FlatOfFirst ==
  ASSUME NEW S, NEW q \in Seq(Seq(S)), q # <<>>
  PROVE  FlattenSeq(q) = Head(q) \o FlattenSeq(Tail(q))
<1> DEFINE E == Seq(S)
           T == {n \in Nat : \A p \in Seq(E), y \in E : Len(p) = n =>
                   FlattenSeq(<<y>> \o p) = y \o FlattenSeq(p)}
<1>1. 0 \in T
  <2> SUFFICES ASSUME NEW p \in Seq(E), NEW y \in E, Len(p) = 0
               PROVE  FlattenSeq(<<y>> \o p) = y \o FlattenSeq(p)
    OBVIOUS
  <2>1. p = <<>> /\ <<y>> \o p = Append(<<>>, y)
    <3> HIDE DEF E
    <3> QED OBVIOUS
  <2>2. <<>> \in Seq(E)
    BY EmptySeq
  <2>3. FlattenSeq(Append(<<>>, y)) = FlattenSeq(<<>>) \o y
    BY <2>2, FlatOfMore
  <2> QED BY <2>1, <2>3, FlatOfNone, ConcatEmptySeq
<1>2. ASSUME NEW n \in Nat, n \in T PROVE n + 1 \in T
  <2>1. ASSUME NEW p \in Seq(E), NEW y \in E, Len(p) = n + 1
        PROVE  FlattenSeq(<<y>> \o p) = y \o FlattenSeq(p)
    <3>1. PICK f \in Seq(E), x \in E : p = Append(f, x) /\ Len(f) = n
      <4> HIDE DEF E
      <4> QED BY <2>1, LastApart
    <3>2. FlattenSeq(p) = FlattenSeq(f) \o x
      BY <3>1, FlatOfMore
    <3>3. FlattenSeq(<<y>> \o f) = y \o FlattenSeq(f)
      BY <1>2, <3>1
    <3>4. <<y>> \o p = Append(<<y>> \o f, x) /\ <<y>> \o f \in Seq(E)
      <4> HIDE DEF E
      <4> QED BY <3>1
    <3>5. FlattenSeq(Append(<<y>> \o f, x)) = FlattenSeq(<<y>> \o f) \o x
      BY <3>4, FlatOfMore
    <3>6. FlattenSeq(f) \in Seq(S)
      BY FlatInSeq
    <3>7. (y \o FlattenSeq(f)) \o x = y \o (FlattenSeq(f) \o x)
      <4> DEFINE g == FlattenSeq(f)
      <4>1. g \in Seq(S) /\ x \in Seq(S) /\ y \in Seq(S)
        BY <3>6
      <4> HIDE DEF g
      <4>2. (y \o g) \o x = y \o (g \o x)
        BY <4>1, ConcatAssociative, SMTT(60)
      <4> QED BY <4>2 DEF g
    <3> QED BY <3>2, <3>3, <3>4, <3>5, <3>7
  <2> QED BY <2>1
<1>3. \A n \in Nat : n \in T
  <2> HIDE DEF T
  <2> QED BY <1>1, <1>2, Induction
<1>4. Tail(q) \in Seq(E) /\ Head(q) \in E /\ Len(Tail(q)) \in Nat /\ q = <<Head(q)>> \o Tail(q)
  <2> HIDE DEF E
  <2>1. q \in Seq(E)
    BY DEF E
  <2> QED BY <2>1
<1> QED BY <1>3, <1>4

(* Nothing is added and nothing is left out. *)
LEMMA FlatElements ==
  ASSUME NEW S, NEW q \in Seq(Seq(S))
  PROVE  Range(FlattenSeq(q)) = UNION {Range(q[j]) : j \in DOMAIN q}
<1> DEFINE E == Seq(S)
           Parts(p) == UNION {Range(p[j]) : j \in DOMAIN p}
           T == {n \in Nat : \A p \in Seq(E) : Len(p) = n => Range(FlattenSeq(p)) = Parts(p)}
<1>1. 0 \in T
  <2> SUFFICES ASSUME NEW p \in Seq(E), Len(p) = 0 PROVE Range(FlattenSeq(p)) = Parts(p)
    BY Zenon
  <2>1. p = <<>> /\ DOMAIN p = {} /\ DOMAIN <<>> = {}
    <3> HIDE DEF E
    <3> QED OBVIOUS
  <2> QED BY <2>1, FlatOfNone DEF Range
<1>2. ASSUME NEW n \in Nat, n \in T PROVE n + 1 \in T
  <2>1. ASSUME NEW p \in Seq(E), Len(p) = n + 1 PROVE Range(FlattenSeq(p)) = Parts(p)
    <3>1. PICK f \in Seq(E), x \in E : p = Append(f, x) /\ Len(f) = n
      <4> HIDE DEF E
      <4> QED BY <2>1, LastApart
    <3>2. FlattenSeq(p) = FlattenSeq(f) \o x /\ FlattenSeq(f) \in Seq(S)
      BY <3>1, FlatOfMore, FlatInSeq
    <3>3. Range(FlattenSeq(f)) = Parts(f)
      BY <1>2, <3>1
    <3>4. Range(FlattenSeq(f) \o x) = Range(FlattenSeq(f)) \cup Range(x)
      <4> DEFINE g == FlattenSeq(f)
      <4>1. g \in Seq(S) /\ x \in Seq(S)
        BY <3>2
      <4> HIDE DEF g
      <4>2. Range(g \o x) = Range(g) \cup Range(x)
        BY <4>1, RangeConcatenation
      <4> QED BY <4>2 DEF g
    <3>5. Parts(p) = Parts(f) \cup Range(x)
      <4>1. /\ DOMAIN f = 1..n /\ DOMAIN p = 1..(n + 1) /\ p[n + 1] = x
            /\ \A j \in 1..n : p[j] = f[j]
        <5> HIDE DEF E
        <5> QED BY <3>1
      <4>2. 1..(n + 1) = (1..n) \cup {n + 1}
        OBVIOUS
      <4> QED BY <4>1, <4>2
    <3> QED BY <3>2, <3>3, <3>4, <3>5
  <2> QED BY <2>1
<1>3. \A n \in Nat : n \in T
  <2> HIDE DEF T
  <2> QED BY <1>1, <1>2, Induction
<1>4. Len(q) \in Nat
  BY LenProperties
<1> QED BY <1>3, <1>4
-----------------------------------------------------------------------------
(* SetToSeq lists a finite set, each element once.                         *)
LEMMA Listing ==
  ASSUME NEW S, IsFiniteSet(S)
  PROVE  /\ SetToSeq(S) \in Seq(S)
         /\ Len(SetToSeq(S)) = Cardinality(S)
         /\ \A x \in S : \E k \in DOMAIN SetToSeq(S) : SetToSeq(S)[k] = x
         /\ \A j, k \in DOMAIN SetToSeq(S) : SetToSeq(S)[j] = SetToSeq(S)[k] => j = k
<1> DEFINE n == Cardinality(S)
           f == SetToSeq(S)
<1>1. n \in Nat /\ ExistsBijection(1..n, S)
  BY FS_CardinalityType
<1>2. \E g \in [1..n -> S] : IsInjective(g)
  BY <1>1 DEF ExistsBijection, Bijection, Injection
<1>3. f \in [1..n -> S] /\ IsInjective(f)
  BY <1>2 DEF SetToSeq
<1>4. Cardinality(1..n) = n
  <2> HIDE DEF n
  <2>1. n \in Int /\ 1 \in Int
    BY <1>1
  <2> QED BY <1>1, <2>1, FS_Interval
<1> HIDE DEF f
<1>5. f \in Surjection(1..n, S)
  <2>1. f \in Injection(1..n, S)
    BY <1>3 DEF Injection
  <2> QED BY <1>4, <2>1, FS_Injection
<1> HIDE DEF n
<1>6. f \in Seq(S) /\ Len(f) = n /\ DOMAIN f = 1..n
  BY <1>1, <1>3
<1> QED BY <1>3, <1>5, <1>6 DEF f, n, Surjection, IsInjective
=============================================================================

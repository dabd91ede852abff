---------------------------- MODULE Lists_proofs ----------------------------
(* Lemmas about numbers, recursion and sequences that the proofs of several *)
(* components rest on.                                                     *)
EXTENDS Lists, FiniteSetTheorems, SequenceTheorems, WellFoundedInduction, TLAPS

-----------------------------------------------------------------------------
(* A least number, and functions defined by recursion up to n.             *)
\* A set of numbers has a smallest one: of the intervals up to them, one holds no other.
LEMMA SmallestIsOne ==
  ASSUME NEW S \in SUBSET Nat, S # {}
  PROVE  Min(S) \in S /\ \A y \in S : Min(S) <= y
<1> DEFINE R == StrictSubsetOrdering(Nat)
           T == {0..x : x \in S}
<1>1. T \subseteq FiniteSubsetsOf(Nat) /\ T # {}
  <2>1. \A x \in S : 0..x \in SUBSET Nat /\ IsFiniteSet(0..x)
    BY FS_Interval
  <2> QED BY <2>1 DEF FiniteSubsetsOf
<1>2. PICK i \in T : \A j \in T : ~ (<<j, i>> \in R)
  <2> HIDE DEF T, R
  <2> QED BY <1>1, FS_StrictSubsetOrderingWellFounded, WFMin DEF R
<1>3. PICK x \in S : i = 0..x
  OBVIOUS
<1>4. ASSUME NEW y \in S, y < x PROVE FALSE
  <2>1. 0..y \subseteq 0..x /\ 0..y # 0..x /\ 0..y \in T
    <3>1. x \in 0..x /\ x \notin 0..y
      BY <1>4
    <3> QED BY <1>4, <3>1
  <2>2. 0..y \in SUBSET Nat /\ 0..x \in SUBSET Nat
    OBVIOUS
  <2>3. <<0..y, 0..x>> \in R
    BY <2>1, <2>2 DEF StrictSubsetOrdering
  <2> QED BY <1>2, <1>3, <2>1, <2>3
<1>5. \A y \in S : x <= y
  BY <1>4
<1> QED BY <1>5 DEF Min

LEMMA UpTo ==
  ASSUME NEW n \in Nat, NEW P, 0 \in P, \A k \in 1 .. n : k - 1 \in P => k \in P
  PROVE  0 .. n \subseteq P
<1> SUFFICES ASSUME NEW k \in 0 .. n, k \notin P PROVE FALSE
  OBVIOUS
<1> DEFINE T == {i \in 0 .. n : i \notin P}
<1>1. T \in SUBSET Nat /\ k \in T
  OBVIOUS
<1>2. PICK m \in T : \A j \in T : m <= j
  <2> HIDE DEF T
  <2> QED BY <1>1, SmallestIsOne
<1>3. m \in 1 .. n /\ m \notin P
  BY <1>2
<1>4. m - 1 \in 0 .. n /\ ~(m <= m - 1)
  BY <1>3
<1>5. m - 1 \in P
  BY <1>2, <1>4
<1> QED BY <1>3, <1>5

\* f starts with x0 and goes on as the steps say.
Goes(f, n, X, x0, step) ==
  f \in [0 .. n -> X] /\ \A k \in 0 .. n : f[k] = IF k = 0 THEN x0 ELSE step[k][f[k - 1]]

LEMMA StepsMakeAFunction ==
  ASSUME NEW n \in Nat, NEW X, NEW x0 \in X, NEW step \in [1 .. n -> [X -> X]]
  PROVE  \E f : Goes(f, n, X, x0, step)
<1> DEFINE Good(m, f) == /\ f \in [0 .. m -> X]
                         /\ \A k \in 0 .. m : f[k] = IF k = 0 THEN x0 ELSE step[k][f[k - 1]]
           P == {m \in 0 .. n : \E f : Good(m, f)}
<1>1. 0 \in P
  <2>1. Good(0, [k \in 0 .. 0 |-> x0])
    OBVIOUS
  <2>2. \E f : Good(0, f)
    <3> HIDE DEF Good
    <3> QED BY <2>1
  <2> QED BY <2>2
<1>2. ASSUME NEW m \in 1 .. n, m - 1 \in P PROVE m \in P
  <2>1. PICK f : Good(m - 1, f)
    BY <1>2
  <2> DEFINE g == [k \in 0 .. m |-> IF k = m THEN step[m][f[m - 1]] ELSE f[k]]
  <2>2. m - 1 \in 0 .. m - 1 /\ f[m - 1] \in X /\ step[m] \in [X -> X]
    BY <2>1
  <2>3. step[m][f[m - 1]] \in X
    BY <2>2
  <2>4. \A k \in 0 .. m : k # m => k \in 0 .. m - 1 /\ f[k] \in X
    BY <2>1
  <2>5. g \in [0 .. m -> X]
    BY <2>3, <2>4
  <2>6. ASSUME NEW k \in 0 .. m PROVE g[k] = IF k = 0 THEN x0 ELSE step[k][g[k - 1]]
    <3>1. CASE k = m
      <4>1. m - 1 \in 0 .. m /\ m - 1 # m /\ k # 0
        BY <3>1
      <4>2. g[m - 1] = f[m - 1] /\ g[m] = step[m][f[m - 1]]
        BY <4>1
      <4> HIDE DEF g
      <4> QED BY <3>1, <4>1, <4>2
    <3>2. CASE k # m
      <4>1. k \in 0 .. m - 1 /\ g[k] = f[k]
        BY <3>2
      <4>2. CASE k = 0
        BY <2>1, <4>1, <4>2
      <4>3. CASE k # 0
        <5>1. k - 1 \in 0 .. m /\ k - 1 # m
          BY <4>1, <4>3
        <5>2. g[k - 1] = f[k - 1]
          BY <5>1
        <5>3. f[k] = step[k][f[k - 1]]
          BY <2>1, <4>1, <4>3
        <5> HIDE DEF g
        <5> QED BY <4>1, <4>3, <5>2, <5>3
      <4> QED BY <4>2, <4>3
    <3> QED BY <3>1, <3>2
  <2>7. Good(m, g)
    <3> HIDE DEF g
    <3> QED BY <2>5, <2>6
  <2>8. \E h : Good(m, h)
    <3> HIDE DEF Good, g
    <3> QED BY <2>7
  <2> QED BY <2>8
<1>3. 0 .. n \subseteq P
  <2> HIDE DEF P
  <2> QED BY <1>1, <1>2, UpTo
<1>4. PICK f : Good(n, f)
  BY <1>3
<1>5. Goes(f, n, X, x0, step)
  BY <1>4 DEF Goes
<1> QED BY <1>5

-----------------------------------------------------------------------------
(* What is picked of a sequence.                                           *)

\* How many places of a set are not after i.
PlacesUpTo(places, i) == Cardinality({j \in places : j <= i})

LEMMA RanksAreNumbered ==
  ASSUME NEW places \in SUBSET Nat, IsFiniteSet(places)
  PROVE  /\ \A i, j \in places : PlacesUpTo(places, i) = PlacesUpTo(places, j) => i = j
         /\ \A k \in 1 .. Cardinality(places) : \E i \in places : PlacesUpTo(places, i) = k
         /\ \A i \in places : PlacesUpTo(places, i) \in 1 .. Cardinality(places)
<1> DEFINE upTo(i) == {j \in places : j <= i}
           N == Cardinality(places)
           f == [i \in places |-> PlacesUpTo(places, i)]
<1>0. N \in Nat
  BY FS_CardinalityType
<1>1. ASSUME NEW i \in places PROVE IsFiniteSet(upTo(i)) /\ PlacesUpTo(places, i) \in 1 .. N
  <2>1. upTo(i) \subseteq places /\ i \in upTo(i)
    OBVIOUS
  <2>2. IsFiniteSet(upTo(i)) /\ Cardinality(upTo(i)) <= N
    <3> HIDE DEF upTo
    <3> QED BY <2>1, FS_Subset
  <2>3. Cardinality(upTo(i)) \in Nat /\ Cardinality(upTo(i)) # 0
    <3> HIDE DEF upTo
    <3> QED BY <2>1, <2>2, FS_CardinalityType, FS_EmptySet
  <2> QED BY <1>0, <2>2, <2>3 DEF PlacesUpTo
<1>2. ASSUME NEW i \in places, NEW j \in places, i < j PROVE PlacesUpTo(places, i) < PlacesUpTo(places, j)
  <2>1. upTo(i) \subseteq upTo(j) /\ upTo(i) # upTo(j)
    <3>1. j \in upTo(j) /\ j \notin upTo(i)
      BY <1>2
    <3>2. \A k \in upTo(i) : k \in upTo(j)
      BY <1>2
    <3> QED BY <3>1, <3>2
  <2>2. Cardinality(upTo(i)) < Cardinality(upTo(j))
    <3>1. IsFiniteSet(upTo(j))
      BY <1>1
    <3> HIDE DEF upTo
    <3>2. Cardinality(upTo(i)) <= Cardinality(upTo(j)) /\ Cardinality(upTo(i)) # Cardinality(upTo(j))
      BY <2>1, <3>1, FS_Subset
    <3>3. Cardinality(upTo(i)) \in Nat /\ Cardinality(upTo(j)) \in Nat
      BY <2>1, <3>1, FS_Subset, FS_CardinalityType
    <3> QED BY <3>2, <3>3
  <2> QED BY <2>2 DEF PlacesUpTo
<1>3. \A i, j \in places : PlacesUpTo(places, i) = PlacesUpTo(places, j) => i = j
  <2> SUFFICES ASSUME NEW i \in places, NEW j \in places, i # j PROVE PlacesUpTo(places, i) # PlacesUpTo(places, j)
    OBVIOUS
  <2>1. i < j \/ j < i
    OBVIOUS
  <2>2. PlacesUpTo(places, i) \in 1 .. N /\ PlacesUpTo(places, j) \in 1 .. N
    BY <1>1
  <2>3. PlacesUpTo(places, i) \in Int /\ PlacesUpTo(places, j) \in Int
    <3> HIDE DEF N
    <3> QED BY <1>0, <2>2
  <2> QED BY <1>2, <2>1, <2>3
<1>4. f \in Injection(places, 1 .. N)
  <2>1. f \in [places -> 1 .. N]
    BY <1>1
  <2>2. \A i, j \in places : f[i] = f[j] => i = j
    BY <1>3
  <2> HIDE DEF f
  <2> QED BY <2>1, <2>2 DEF Injection, IsInjective
<1>5. IsFiniteSet(1 .. N) /\ Cardinality(1 .. N) = N
  BY <1>0, FS_Interval
<1>6. f \in Surjection(places, 1 .. N)
  <2> HIDE DEF f
  <2> QED BY <1>4, <1>5, FS_Injection
<1>7. \A k \in 1 .. N : \E i \in places : f[i] = k
  <2> HIDE DEF f
  <2> QED BY <1>6 DEF Surjection
<1> QED BY <1>1, <1>3, <1>7

\* What is picked of a sequence: the entries at the places, each once.
LEMMA PickedFacts ==
  ASSUME NEW S, NEW l \in Seq(S), NEW places \in SUBSET DOMAIN l
  PROVE  /\ Picked(l, places) \in Seq(S)
         /\ \A k \in DOMAIN Picked(l, places) : \E i \in places : Picked(l, places)[k] = l[i]
         /\ \A i \in places : \E k \in DOMAIN Picked(l, places) : Picked(l, places)[k] = l[i]
         /\ (\A i, j \in places : l[i] = l[j] => i = j) =>
              \A k, m \in DOMAIN Picked(l, places) : Picked(l, places)[k] = Picked(l, places)[m] => k = m
<1> DEFINE N == Cardinality(places)
           at(k) == CHOOSE i \in places : PlacesUpTo(places, i) = k
           res == Picked(l, places)
<1>1. places \in SUBSET Nat /\ IsFiniteSet(places)
  <2>1. DOMAIN l = 1 .. Len(l) /\ Len(l) \in Nat
    OBVIOUS
  <2>2. IsFiniteSet(1 .. Len(l))
    BY <2>1, FS_Interval
  <2> QED BY <2>1, <2>2, FS_Subset
<1>2. N \in Nat
  BY <1>1, FS_CardinalityType
<1>3. res = [k \in 1 .. N |-> l[at(k)]]
  BY DEF Picked, PlacesUpTo
<1>4. \A k \in 1 .. N : at(k) \in places /\ PlacesUpTo(places, at(k)) = k
  <2> SUFFICES ASSUME NEW k \in 1 .. N PROVE at(k) \in places /\ PlacesUpTo(places, at(k)) = k
    OBVIOUS
  <2>1. \E i \in places : PlacesUpTo(places, i) = k
    BY <1>1, RanksAreNumbered
  <2> QED BY <2>1
<1>5. \A i \in places : PlacesUpTo(places, i) \in 1 .. N /\ at(PlacesUpTo(places, i)) = i
  <2> SUFFICES ASSUME NEW i \in places PROVE PlacesUpTo(places, i) \in 1 .. N /\ at(PlacesUpTo(places, i)) = i
    OBVIOUS
  <2>1. PlacesUpTo(places, i) \in 1 .. N
    BY <1>1, RanksAreNumbered
  <2>2. at(PlacesUpTo(places, i)) \in places /\ PlacesUpTo(places, at(PlacesUpTo(places, i))) = PlacesUpTo(places, i)
    BY <1>4, <2>1
  <2> HIDE DEF at
  <2> QED BY <1>1, <2>1, <2>2, RanksAreNumbered
<1> HIDE DEF at, res
<1>6. DOMAIN res = 1 .. N /\ \A k \in 1 .. N : res[k] = l[at(k)]
  BY <1>3
<1>7. \A k \in 1 .. N : l[at(k)] \in S
  BY <1>4
<1>8. res \in Seq(S)
  <2>1. res \in [1 .. N -> S]
    BY <1>3, <1>7
  <2> QED BY <1>2, <2>1
<1>9. \A k \in DOMAIN res : \E i \in places : res[k] = l[i]
  BY <1>4, <1>6
<1>10. \A i \in places : \E k \in DOMAIN res : res[k] = l[i]
  BY <1>5, <1>6
<1>11. ASSUME \A i, j \in places : l[i] = l[j] => i = j, NEW k \in 1 .. N, NEW m \in 1 .. N, res[k] = res[m]
       PROVE  k = m
  <2>1. at(k) = at(m)
    BY <1>4, <1>6, <1>11
  <2> QED BY <1>4, <2>1
<1> QED BY <1>6, <1>8, <1>9, <1>10, <1>11 DEF res

-----------------------------------------------------------------------------
(* Lists without repetitions.                                              *)

Once(l) == \A i, j \in DOMAIN l : l[i] = l[j] => i = j

\* A finite set as a sequence: each of its elements, once.
LEMMA SetToSeqFacts ==
  ASSUME NEW S, IsFiniteSet(S)
  PROVE  SetToSeq(S) \in Seq(S) /\ Once(SetToSeq(S)) /\ ToSet(SetToSeq(S)) = S
<1> DEFINE n == Cardinality(S)
           l == SetToSeq(S)
<1>1. n \in Nat /\ ExistsBijection(1 .. n, S)
  BY FS_CardinalityType
<1>2. \E f \in [1 .. n -> S] : IsInjective(f)
  <2>1. PICK f : f \in Bijection(1 .. n, S)
    BY <1>1 DEF ExistsBijection
  <2>2. f \in [1 .. n -> S] /\ IsInjective(f)
    BY <2>1 DEF Bijection, Injection
  <2> QED BY <2>2
<1>3. l \in [1 .. n -> S] /\ IsInjective(l)
  BY <1>2 DEF SetToSeq
<1>4. l \in Surjection(1 .. n, S)
  <2>1. l \in Injection(1 .. n, S)
    BY <1>3 DEF Injection
  <2>2. IsFiniteSet(1 .. n) /\ Cardinality(1 .. n) = Cardinality(S)
    BY <1>1, FS_Interval
  <2> HIDE DEF n, l
  <2> QED BY <2>1, <2>2, FS_Injection
<1> HIDE DEF n, l
<1>5. l \in Seq(S) /\ Once(l)
  BY <1>1, <1>3 DEF Once, IsInjective
<1>6. ToSet(l) = S
  BY <1>3, <1>4 DEF Surjection, ToSet
<1> QED BY <1>5, <1>6 DEF l

LEMMA RemoveAtFacts ==
  ASSUME NEW S, NEW l \in Seq(S), NEW i \in DOMAIN l
  PROVE  /\ RemoveAt(l, i) \in Seq(S)
         /\ Len(RemoveAt(l, i)) = Len(l) - 1
         /\ \A k \in DOMAIN RemoveAt(l, i) :
              RemoveAt(l, i)[k] = IF k < i THEN l[k] ELSE l[k + 1]
<1> DEFINE a == SubSeq(l, 1, i - 1)
           c == SubSeq(l, i + 1, Len(l))
<1>1. i \in 1 .. Len(l) /\ Len(l) \in Nat
  OBVIOUS
<1>2. /\ a \in Seq(S) /\ Len(a) = i - 1 /\ \A k \in 1 .. i - 1 : a[k] = l[k]
  <2>1. 1 \in 1 .. Len(l) + 1 /\ i - 1 \in 1 - 1 .. Len(l)
    BY <1>1
  <2> QED BY <1>1, <2>1, SubSeqProperties
<1>3. /\ c \in Seq(S) /\ Len(c) = Len(l) - i /\ \A k \in 1 .. Len(l) - i : c[k] = l[k + i]
  <2>1. i + 1 \in 1 .. Len(l) + 1 /\ Len(l) \in i + 1 - 1 .. Len(l)
    BY <1>1
  <2>2. /\ c \in Seq(S)
        /\ Len(c) = IF i + 1 <= Len(l) THEN Len(l) - (i + 1) + 1 ELSE 0
        /\ \A k \in 1 .. Len(l) - (i + 1) + 1 : c[k] = l[(i + 1) + k - 1]
    <3> HIDE DEF a
    <3> QED BY <1>1, <2>1, SubSeqProperties
  <2> QED BY <1>1, <2>2
<1> HIDE DEF a, c
<1>a. /\ a \o c \in Seq(S) /\ Len(a \o c) = Len(a) + Len(c)
      /\ \A k \in 1 .. Len(a) + Len(c) : (a \o c)[k] = IF k <= Len(a) THEN a[k] ELSE c[k - Len(a)]
  BY <1>2, <1>3, ConcatProperties
<1>b. Len(a) = i - 1 /\ Len(c) = Len(l) - i /\ i \in Nat /\ Len(l) \in Nat
  BY <1>1, <1>2, <1>3
<1>4. a \o c \in Seq(S) /\ Len(a \o c) = Len(l) - 1
  BY <1>a, <1>b
<1>5. ASSUME NEW k \in DOMAIN (a \o c) PROVE (a \o c)[k] = IF k < i THEN l[k] ELSE l[k + 1]
  <2>1. k \in 1 .. Len(a) + Len(c)
    BY <1>4, <1>a, LenProperties
  <2>2. (a \o c)[k] = IF k <= Len(a) THEN a[k] ELSE c[k - Len(a)]
    BY <1>a, <2>1
  <2>3. CASE k < i
    BY <1>1, <1>2, <2>1, <2>2, <2>3
  <2>4. CASE ~(k < i)
    <3>1. k - Len(a) \in 1 .. Len(l) - i /\ (k - Len(a)) + i = k + 1 /\ ~(k <= Len(a))
      <4>1. Len(a) = i - 1 /\ k \in Nat /\ i \in Nat /\ Len(l) \in Nat
        BY <1>b, <2>1
      <4>2. k <= Len(l) - 1
        BY <1>b, <2>1
      <4>3. k - Len(a) = k - i + 1 /\ k >= i
        BY <2>4, <4>1
      <4> QED BY <4>1, <4>2, <4>3
    <3> QED BY <1>3, <2>2, <2>4, <3>1
  <2> QED BY <2>3, <2>4
<1>6. RemoveAt(l, i) = a \o c
  BY DEF RemoveAt, a, c
<1> QED BY <1>4, <1>5, <1>6

\* Of a list without repetitions, what erasing one and adding one do to the set.
LEMMA ErasedFromList ==
  ASSUME NEW S, NEW l \in Seq(S), IsInjective(l), NEW h
  PROVE  /\ RemoveFirst(l, h) \in Seq(S) /\ IsInjective(RemoveFirst(l, h))
         /\ ToSet(RemoveFirst(l, h)) = ToSet(l) \ {h}
<1>1. DOMAIN l = 1 .. Len(l) /\ Len(l) \in Nat
  BY LenProperties
<1>2. CASE \A i \in 1 .. Len(l) : l[i] # h
  <2>1. RemoveFirst(l, h) = l
    BY <1>2 DEF RemoveFirst
  <2> QED BY <1>1, <1>2, <2>1 DEF ToSet
<1>3. CASE \E i \in 1 .. Len(l) : l[i] = h
  <2> DEFINE I == {i \in 1 .. Len(l) : l[i] = h}
             j == Min(I)
             r == RemoveAt(l, j)
  <2>1. j \in I
    <3>1. I \in SUBSET Nat /\ I # {}
      BY <1>1, <1>3
    <3> HIDE DEF I
    <3> QED BY <3>1, SmallestIsOne
  <2>2. RemoveFirst(l, h) = r
    <3>1. SelectInSeq(l, LAMBDA v : v = h) = j
      BY <2>1 DEF SelectInSeq
    <3> QED BY <1>3, <3>1 DEF RemoveFirst
  <2> HIDE DEF j, r
  <2>3. j \in 1 .. Len(l) /\ l[j] = h
    BY <2>1
  <2>4. /\ r \in Seq(S) /\ Len(r) = Len(l) - 1 /\ DOMAIN r = 1 .. Len(r)
        /\ \A k \in DOMAIN r : r[k] = IF k < j THEN l[k] ELSE l[k + 1]
    <3>1. j \in DOMAIN l
      BY <1>1, <2>3
    <3> QED BY <3>1, RemoveAtFacts, LenProperties DEF r
  <2>5. \A i, k \in 1 .. Len(l) : l[i] = l[k] => i = k
    BY <1>1 DEF IsInjective
  <2>6. \A k \in 1 .. Len(l) - 1 : r[k] = IF k < j THEN l[k] ELSE l[k + 1]
    BY <2>4
  <2>7. IsInjective(r)
    <3>1. ASSUME NEW a \in 1 .. Len(l) - 1, NEW b \in 1 .. Len(l) - 1, r[a] = r[b] PROVE a = b
      BY <1>1, <2>3, <2>5, <2>6, <3>1
    <3> QED BY <2>4, <3>1 DEF IsInjective
  <2>8. ToSet(r) = ToSet(l) \ {h}
    <3>1. ASSUME NEW k \in 1 .. Len(l) - 1 PROVE r[k] \in ToSet(l) /\ r[k] # h
      BY <1>1, <2>3, <2>5, <2>6 DEF ToSet
    <3>2. ASSUME NEW i \in 1 .. Len(l), l[i] # h PROVE \E k \in 1 .. Len(l) - 1 : r[k] = l[i]
      <4>1. CASE i < j
        <5>1. i \in 1 .. Len(l) - 1 /\ r[i] = l[i]
          BY <1>1, <2>3, <2>6, <4>1
        <5> QED BY <5>1
      <4>2. CASE i > j
        <5>1. i - 1 \in 1 .. Len(l) - 1 /\ (i - 1) + 1 = i /\ ~(i - 1 < j)
          BY <1>1, <2>3, <4>2
        <5>2. r[i - 1] = l[i]
          BY <2>6, <5>1
        <5> QED BY <5>1, <5>2
      <4> QED BY <1>1, <2>3, <3>2, <4>1, <4>2
    <3>3. DOMAIN r = 1 .. Len(l) - 1
      BY <2>4
    <3>4. ToSet(r) \subseteq ToSet(l) \ {h}
      BY <3>1, <3>3 DEF ToSet
    <3>5. ToSet(l) \ {h} \subseteq ToSet(r)
      BY <1>1, <3>2, <3>3 DEF ToSet
    <3> QED BY <3>4, <3>5
  <2> QED BY <2>2, <2>4, <2>7, <2>8
<1> QED BY <1>2, <1>3

LEMMA AppendedToList ==
  ASSUME NEW S, NEW l \in Seq(S), IsInjective(l), NEW h \in S, h \notin ToSet(l)
  PROVE  Append(l, h) \in Seq(S) /\ IsInjective(Append(l, h)) /\ ToSet(Append(l, h)) = ToSet(l) \cup {h}
<1>1. DOMAIN l = 1 .. Len(l) /\ Len(l) \in Nat
  BY LenProperties
<1>2. \A i, k \in 1 .. Len(l) : l[i] = l[k] => i = k
  BY <1>1 DEF IsInjective
<1>3. \A i \in 1 .. Len(l) : l[i] # h
  BY <1>1 DEF ToSet
<1> DEFINE a == Append(l, h)
<1>4. /\ a \in Seq(S) /\ DOMAIN a = 1 .. Len(l) + 1
      /\ \A i \in 1 .. Len(l) : a[i] = l[i]
      /\ a[Len(l) + 1] = h
  <2>1. a \in Seq(S) /\ Len(a) = Len(l) + 1 /\ (\A i \in 1 .. Len(l) : a[i] = l[i]) /\ a[Len(l) + 1] = h
    BY AppendProperties
  <2> QED BY <2>1, LenProperties
<1> HIDE DEF a
<1>5. IsInjective(a) /\ ToSet(a) = ToSet(l) \cup {h}
  <2>1. \A i \in 1 .. Len(l) + 1 : i \in 1 .. Len(l) \/ i = Len(l) + 1
    BY <1>1
  <2>2. \A i \in 1 .. Len(l) : i \in 1 .. Len(l) + 1
    BY <1>1
  <2>3. Len(l) + 1 \in 1 .. Len(l) + 1
    BY <1>1
  <2>4. IsInjective(a)
    BY <1>2, <1>3, <1>4, <2>1 DEF IsInjective
  <2> QED BY <1>1, <1>4, <2>1, <2>2, <2>3, <2>4 DEF ToSet
<1> QED BY <1>4, <1>5 DEF a

LEMMA PutFirst ==
  ASSUME NEW S, NEW l \in Seq(S), IsInjective(l), NEW h \in S, h \notin ToSet(l)
  PROVE  <<h>> \o l \in Seq(S) /\ IsInjective(<<h>> \o l) /\ ToSet(<<h>> \o l) = ToSet(l) \cup {h}
<1>1. DOMAIN l = 1 .. Len(l) /\ Len(l) \in Nat
  BY LenProperties
<1>2. \A i, k \in 1 .. Len(l) : l[i] = l[k] => i = k
  BY <1>1 DEF IsInjective
<1>3. \A i \in 1 .. Len(l) : l[i] # h
  BY <1>1 DEF ToSet
<1> DEFINE c == <<h>> \o l
<1>4. /\ c \in Seq(S) /\ DOMAIN c = 1 .. Len(l) + 1
      /\ c[1] = h /\ \A i \in 1 .. Len(l) : c[i + 1] = l[i]
  <2>1. <<h>> \in Seq(S) /\ Len(<<h>>) = 1 /\ <<h>>[1] = h
    OBVIOUS
  <2>2. /\ c \in Seq(S) /\ Len(c) = 1 + Len(l)
        /\ \A i \in 1 .. 1 + Len(l) : c[i] = IF i <= 1 THEN <<h>>[i] ELSE l[i - 1]
    BY <2>1, ConcatProperties
  <2>3. \A i \in 1 .. Len(l) : i + 1 \in 1 .. 1 + Len(l) /\ ~(i + 1 <= 1) /\ (i + 1) - 1 = i
    BY <1>1
  <2> HIDE DEF c
  <2>4. DOMAIN c = 1 .. Len(l) + 1
    BY <1>1, <2>2, LenProperties
  <2>5. c[1] = h
    BY <1>1, <2>1, <2>2
  <2>6. ASSUME NEW i \in 1 .. Len(l) PROVE c[i + 1] = l[i]
    BY <2>2, <2>3
  <2> QED BY <2>2, <2>4, <2>5, <2>6
<1> HIDE DEF c
<1>5. IsInjective(c) /\ ToSet(c) = ToSet(l) \cup {h}
  <2>1. \A i \in 1 .. Len(l) + 1 : i = 1 \/ \E k \in 1 .. Len(l) : i = k + 1
    <3>1. ASSUME NEW i \in 1 .. Len(l) + 1, i # 1 PROVE i - 1 \in 1 .. Len(l) /\ i = (i - 1) + 1
      BY <1>1, <3>1
    <3> QED BY <3>1
  <2>2. \A k \in 1 .. Len(l) : k + 1 \in 1 .. Len(l) + 1
    BY <1>1
  <2>3. 1 \in 1 .. Len(l) + 1
    BY <1>1
  <2>4. IsInjective(c)
    <3>1. ASSUME NEW i \in 1 .. Len(l) + 1, NEW k \in 1 .. Len(l) + 1, c[i] = c[k] PROVE i = k
      <4>1. ASSUME NEW y \in 1 .. Len(l) PROVE c[y + 1] # c[1]
        BY <1>3, <1>4
      <4>3. CASE i = 1
        <5>1. ASSUME NEW y \in 1 .. Len(l), k = y + 1 PROVE FALSE
          BY <3>1, <4>1, <4>3, <5>1
        <5> QED BY <2>1, <4>3, <5>1
      <4>4. CASE k = 1
        <5>1. ASSUME NEW y \in 1 .. Len(l), i = y + 1 PROVE FALSE
          BY <3>1, <4>1, <4>4, <5>1
        <5> QED BY <2>1, <4>4, <5>1
      <4>2. CASE i # 1 /\ k # 1
        <5>1. PICK x \in 1 .. Len(l), y \in 1 .. Len(l) : i = x + 1 /\ k = y + 1
          BY <2>1, <4>2
        <5>2. l[x] = l[y]
          BY <1>4, <3>1, <5>1
        <5> QED BY <1>2, <5>1, <5>2
      <4> QED BY <4>2, <4>3, <4>4
    <3> QED BY <1>4, <3>1 DEF IsInjective
  <2>5. \A i \in 1 .. Len(l) + 1 : c[i] = h \/ \E k \in 1 .. Len(l) : c[i] = l[k]
    BY <1>4, <2>1
  <2>6. (\E i \in 1 .. Len(l) + 1 : c[i] = h) /\ \A k \in 1 .. Len(l) : \E i \in 1 .. Len(l) + 1 : c[i] = l[k]
    BY <1>4, <2>2, <2>3
  <2>7. ToSet(c) \subseteq ToSet(l) \cup {h}
    BY <1>1, <1>4, <2>5 DEF ToSet
  <2>8. h \in ToSet(c) /\ \A x \in ToSet(l) : x \in ToSet(c)
    <3>1. \A i \in 1 .. Len(l) + 1 : c[i] \in ToSet(c)
      BY <1>4 DEF ToSet
    <3>2. \A x \in ToSet(l) : \E k \in 1 .. Len(l) : x = l[k]
      BY <1>1 DEF ToSet
    <3> QED BY <2>6, <3>1, <3>2
  <2> QED BY <2>4, <2>7, <2>8
<1> QED BY <1>4, <1>5 DEF c

LEMMA EmptyList ==
  ASSUME NEW S, NEW l \in Seq(S)
  PROVE  /\ l = <<>> <=> ToSet(l) = {}
         /\ l # <<>> => Head(l) \in ToSet(l)
         /\ Len(l) = 1 => ToSet(l) = {Head(l)}
         /\ Len(l) <= 1 <=> (l = <<>> \/ Len(l) = 1)
<1>1. DOMAIN l = 1 .. Len(l) /\ Len(l) \in Nat
  BY LenProperties
<1>2. l = <<>> <=> Len(l) = 0
  BY EmptySeq
<1>3. l # <<>> => 1 \in 1 .. Len(l) /\ Head(l) = l[1]
  BY <1>1, <1>2
<1>4. Len(l) = 1 => \A i \in 1 .. Len(l) : i = 1
  BY <1>1
<1>5. Len(l) = 0 => 1 .. Len(l) = {}
  BY <1>1
<1>6. l = <<>> <=> ToSet(l) = {}
  BY <1>1, <1>2, <1>5 DEF ToSet
<1>7. l # <<>> => Head(l) \in ToSet(l)
  BY <1>1, <1>3 DEF ToSet
<1>8. Len(l) = 1 => ToSet(l) = {Head(l)}
  BY <1>1, <1>2, <1>3, <1>4 DEF ToSet
<1>9. Len(l) <= 1 <=> (l = <<>> \/ Len(l) = 1)
  BY <1>1, <1>2
<1> QED BY <1>6, <1>7, <1>8, <1>9
=============================================================================

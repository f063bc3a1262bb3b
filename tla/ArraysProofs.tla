---------------------------- MODULE ArraysProofs ----------------------------
(***************************************************************************)
(* What the operations of Arrays return, for arrays of any length.         *)
(***************************************************************************)
EXTENDS Arrays, FiniteSetTheorems, TLAPS

(* Of finitely many numbers one is the least: of the sets of them that     *)
(* have none, a smallest would lose its element and have one.              *)
LEMMA LeastValue ==
    ASSUME NEW S, IsFiniteSet(S), S # {}, NEW f \in [S -> Int]
    PROVE  \E x \in S : \A y \in S : f[x] <= f[y]
<1> DEFINE Low == {U \in SUBSET S : U # {} /\ ~ \E x \in U : \A y \in U : f[x] <= f[y]}
<1> SUFFICES ASSUME S \in Low PROVE FALSE
  OBVIOUS
<1>1. Low \subseteq FiniteSubsetsOf(S)
  BY FS_FiniteSubsetsOfFinite
<1>2. PICK U \in Low : \A V \in Low : ~ (<<V, U>> \in StrictSubsetOrdering(S))
  <2>1. IsWellFoundedOn(StrictSubsetOrdering(S), FiniteSubsetsOf(S))
    BY FS_StrictSubsetOrderingWellFounded
  <2>2. Low # {}
    OBVIOUS
  <2> HIDE DEF Low
  <2> QED
    BY <1>1, <2>1, <2>2, WFMin
<1>3. U \in SUBSET S /\ U # {} /\ ~ \E x \in U : \A y \in U : f[x] <= f[y]
  BY <1>2
<1>4. PICK x \in U : TRUE
  BY <1>3
<1> DEFINE V == U \ {x}
<1>5. V \in SUBSET S /\ <<V, U>> \in StrictSubsetOrdering(S)
  BY <1>3, <1>4 DEF StrictSubsetOrdering
<1>6. V # {}
  BY <1>3, <1>4
<1>7. PICK m \in V : \A y \in V : f[m] <= f[y]
  BY <1>2, <1>5, <1>6
<1>8. x \in S /\ m \in S /\ f[x] \in Int /\ f[m] \in Int
  BY <1>3, <1>4, <1>5, <1>7
<1>9. CASE f[m] <= f[x]
  BY <1>3, <1>7, <1>9
<1>10. CASE f[x] <= f[m]
  <2>1. \A y \in U : f[x] <= f[y]
    <3> TAKE y \in U
    <3>1. y \in S /\ f[y] \in Int
      BY <1>3
    <3>2. CASE y = x
      BY <1>8, <3>2
    <3>3. CASE y \in V
      <4>1. f[m] <= f[y]
        BY <1>7, <3>3
      <4> QED
        BY <1>8, <1>10, <3>1, <4>1
    <3> QED
      BY <3>2, <3>3
  <2> QED
    BY <1>3, <1>4, <2>1
<1> HIDE DEF V
<1>11. f[m] <= f[x] \/ f[x] <= f[m]
  BY <1>8
<1> QED
  BY <1>9, <1>10, <1>11

LEMMA LeastOf ==
    ASSUME NEW S \in SUBSET Int, IsFiniteSet(S), S # {}
    PROVE  \E x \in S : \A y \in S : x <= y
<1> DEFINE f == [x \in S |-> x]
<1>1. PICK x \in S : \A y \in S : f[x] <= f[y]
  BY LeastValue
<1> QED
  BY <1>1

-----------------------------------------------------------------------------
(* Searching: in a non-decreasing array there is such a position.          *)
LEMMA Boundary ==
    ASSUME NEW n \in Nat, NEW T \in SUBSET (1..n),
           \A i \in 1..n, j \in 1..n : i < j /\ j \in T => i \in T
    PROVE  \E p \in 0..n : (\A i \in 1..p : i \in T) /\ (\A i \in p + 1..n : i \notin T)
<1> DEFINE O == (1..n) \ T
<1>1. CASE O = {}
  BY <1>1
<1>2. CASE O # {}
  <2> DEFINE f == [i \in O |-> i]
  <2>1. IsFiniteSet(O) /\ f \in [O -> Int]
    <3>1. IsFiniteSet(1..n)
      BY FS_Interval
    <3> QED
      BY <3>1, FS_Subset
  <2>2. PICK m \in O : \A i \in O : f[m] <= f[i]
    BY <1>2, <2>1, LeastValue
  <2>3. m \in 1..n /\ m \notin T /\ \A i \in O : m <= i
    BY <2>2
  <2>4. m - 1 \in 0..n /\ \A i \in 1..m - 1 : i \in T
    BY <2>3
  <2>5. \A i \in (m - 1) + 1..n : i \notin T
    BY <2>3
  <2> QED
    BY <2>4, <2>5
<1> QED
  BY <1>1, <1>2

LEMMA RightOf ==
    ASSUME NEW s \in Seq(Int), NonDecreasing(s), NEW x \in Int
    PROVE  /\ SearchRight(s, x) \in 0..Len(s)
           /\ \A i \in 1..Len(s) : s[i] <= x <=> i <= SearchRight(s, x)
<1> DEFINE T == {i \in 1..Len(s) : s[i] <= x}
<1>1. Len(s) \in Nat /\ DOMAIN s = 1..Len(s) /\ \A i \in 1..Len(s) : s[i] \in Int
  OBVIOUS
<1>2. \E p \in 0..Len(s) : (\A i \in 1..p : i \in T) /\ (\A i \in p + 1..Len(s) : i \notin T)
  <2>1. \A i \in 1..Len(s), j \in 1..Len(s) : i < j /\ j \in T => i \in T
    BY <1>1 DEF NonDecreasing
  <2>2. T \in SUBSET (1..Len(s))
    OBVIOUS
  <2> HIDE DEF T
  <2> QED
    BY <1>1, <2>1, <2>2, Boundary
<1>3. \E p \in 0..Len(s) : (\A i \in 1..p : s[i] <= x) /\ (\A i \in p + 1..Len(s) : s[i] > x)
  BY <1>1, <1>2
<1> DEFINE q == SearchRight(s, x)
<1>4. q \in 0..Len(s) /\ (\A i \in 1..q : s[i] <= x) /\ (\A i \in q + 1..Len(s) : s[i] > x)
  BY <1>3 DEF SearchRight
<1> HIDE DEF q
<1>5. \A i \in 1..Len(s) : s[i] <= x <=> i <= q
  BY <1>1, <1>4
<1> QED
  BY <1>4, <1>5 DEF q

LEMMA LeftOf ==
    ASSUME NEW s \in Seq(Int), NonDecreasing(s), NEW x \in Int
    PROVE  /\ SearchLeft(s, x) \in 0..Len(s)
           /\ \A i \in 1..Len(s) : s[i] < x <=> i <= SearchLeft(s, x)
<1> DEFINE T == {i \in 1..Len(s) : s[i] < x}
<1>1. Len(s) \in Nat /\ DOMAIN s = 1..Len(s) /\ \A i \in 1..Len(s) : s[i] \in Int
  OBVIOUS
<1>2. \E p \in 0..Len(s) : (\A i \in 1..p : i \in T) /\ (\A i \in p + 1..Len(s) : i \notin T)
  <2>1. \A i \in 1..Len(s), j \in 1..Len(s) : i < j /\ j \in T => i \in T
    BY <1>1 DEF NonDecreasing
  <2>2. T \in SUBSET (1..Len(s))
    OBVIOUS
  <2> HIDE DEF T
  <2> QED
    BY <1>1, <2>1, <2>2, Boundary
<1>3. \E p \in 0..Len(s) : (\A i \in 1..p : s[i] < x) /\ (\A i \in p + 1..Len(s) : s[i] >= x)
  BY <1>1, <1>2
<1> DEFINE q == SearchLeft(s, x)
<1>4. q \in 0..Len(s) /\ (\A i \in 1..q : s[i] < x) /\ (\A i \in q + 1..Len(s) : s[i] >= x)
  BY <1>3 DEF SearchLeft
<1> HIDE DEF q
<1>5. \A i \in 1..Len(s) : s[i] < x <=> i <= q
  BY <1>1, <1>4
<1> QED
  BY <1>4, <1>5 DEF q

-----------------------------------------------------------------------------
(* Sorting: the same elements in order, and an array in order as it is.    *)
Preceding(s, i) == {j \in DOMAIN s : s[j] < s[i] \/ (s[j] = s[i] /\ j <= i)}
RankOf(s, i) == Cardinality(Preceding(s, i))

LEMMA UpTo ==
    ASSUME NEW n \in Nat
    PROVE  IsFiniteSet(1..n) /\ Cardinality(1..n) = n
<1>1. 1 \in Int /\ n \in Int
  OBVIOUS
<1>2. IsFiniteSet(1..n) /\ Cardinality(1..n) = IF 1 > n THEN 0 ELSE n - 1 + 1
  BY <1>1, FS_Interval
<1> QED
  BY <1>2

LEMMA Ranks ==
    ASSUME NEW s \in Seq(Int)
    PROVE  /\ \A i \in 1..Len(s) : RankOf(s, i) \in 1..Len(s)
           /\ \A i, j \in 1..Len(s) : RankOf(s, i) <= RankOf(s, j) <=>
                                        s[i] < s[j] \/ (s[i] = s[j] /\ i <= j)
           /\ \A k \in 1..Len(s) : \E i \in 1..Len(s) : RankOf(s, i) = k
<1>1. Len(s) \in Nat /\ DOMAIN s = 1..Len(s) /\ \A i \in 1..Len(s) : s[i] \in Int
  OBVIOUS
<1>2. IsFiniteSet(1..Len(s)) /\ Cardinality(1..Len(s)) = Len(s)
  BY <1>1, UpTo
<1>3. ASSUME NEW i \in 1..Len(s)
      PROVE  IsFiniteSet(Preceding(s, i)) /\ RankOf(s, i) \in 1..Len(s)
  <2>1. Preceding(s, i) \in SUBSET (1..Len(s)) /\ i \in Preceding(s, i)
    BY <1>1 DEF Preceding
  <2>2. IsFiniteSet(Preceding(s, i)) /\ Cardinality(Preceding(s, i)) <= Len(s)
    BY <1>2, <2>1, FS_Subset
  <2>3. Cardinality(Preceding(s, i)) \in Nat
    BY <2>2, FS_CardinalityType
  <2>4. Cardinality(Preceding(s, i)) # 0
    BY <2>1, <2>2, FS_EmptySet
  <2> QED
    BY <1>1, <2>2, <2>3, <2>4 DEF RankOf
<1>4. ASSUME NEW i \in 1..Len(s), NEW j \in 1..Len(s), s[i] < s[j] \/ (s[i] = s[j] /\ i < j)
      PROVE  RankOf(s, i) < RankOf(s, j)
  <2>1. Preceding(s, i) \in SUBSET Preceding(s, j)
    BY <1>1, <1>4 DEF Preceding
  <2>2. j \in Preceding(s, j) /\ j \notin Preceding(s, i)
    BY <1>1, <1>4 DEF Preceding
  <2>3. /\ Cardinality(Preceding(s, i)) <= Cardinality(Preceding(s, j))
        /\ Cardinality(Preceding(s, i)) # Cardinality(Preceding(s, j))
    BY <1>3, <2>1, <2>2, FS_Subset
  <2> QED
    BY <1>1, <1>3, <2>3 DEF RankOf
<1>5. \A i, j \in 1..Len(s) : RankOf(s, i) <= RankOf(s, j) <=>
                                s[i] < s[j] \/ (s[i] = s[j] /\ i <= j)
  <2> SUFFICES ASSUME NEW i \in 1..Len(s), NEW j \in 1..Len(s)
               PROVE  RankOf(s, i) <= RankOf(s, j) <=> s[i] < s[j] \/ (s[i] = s[j] /\ i <= j)
    OBVIOUS
  <2>1. RankOf(s, i) \in Nat /\ RankOf(s, j) \in Nat /\ s[i] \in Int /\ s[j] \in Int
    BY <1>1, <1>3
  <2>2. CASE i = j
    BY <2>1, <2>2
  <2>3. CASE s[i] < s[j] \/ (s[i] = s[j] /\ i < j)
    BY <1>4, <2>1, <2>3
  <2>4. CASE s[j] < s[i] \/ (s[j] = s[i] /\ j < i)
    <3>1. RankOf(s, j) < RankOf(s, i)
      BY <1>4, <2>4
    <3> QED
      BY <2>1, <2>4, <3>1
  <2> QED
    BY <2>1, <2>2, <2>3, <2>4
<1>6. ASSUME NEW k \in 1..Len(s) PROVE \E i \in 1..Len(s) : RankOf(s, i) = k
  <2> DEFINE f == [i \in 1..Len(s) |-> RankOf(s, i)]
  <2>1. f \in [1..Len(s) -> 1..Len(s)]
    BY <1>3
  <2>2. \A i, j \in 1..Len(s) : f[i] = f[j] => i = j
    <3> SUFFICES ASSUME NEW i \in 1..Len(s), NEW j \in 1..Len(s), RankOf(s, i) = RankOf(s, j)
                 PROVE  i = j
      OBVIOUS
    <3>1. RankOf(s, i) <= RankOf(s, j) /\ RankOf(s, j) <= RankOf(s, i)
      BY <1>1, <1>3
    <3> QED
      BY <1>1, <1>5, <3>1
  <2>3. f \in Injection(1..Len(s), 1..Len(s))
    BY <2>1, <2>2 DEF Injection, IsInjective
  <2>4. f \in Surjection(1..Len(s), 1..Len(s))
    BY <1>2, <2>3, FS_Injection
  <2> QED
    BY <2>4 DEF Surjection
<1> QED
  BY <1>3, <1>5, <1>6

LEMMA Sorts ==
    ASSUME NEW s \in Seq(Int)
    PROVE  /\ Sort(s) \in Seq(Int) /\ Len(Sort(s)) = Len(s)
           /\ NonDecreasing(Sort(s))
           /\ \A k \in 1..Len(s) : \E i \in 1..Len(s) : Sort(s)[k] = s[i]
           /\ \A i \in 1..Len(s) : \E k \in 1..Len(s) : Sort(s)[k] = s[i]
           /\ NonDecreasing(s) => Sort(s) = s
<1>1. Len(s) \in Nat /\ DOMAIN s = 1..Len(s) /\ \A i \in 1..Len(s) : s[i] \in Int
  OBVIOUS
<1> DEFINE at(k) == CHOOSE i \in 1..Len(s) : RankOf(s, i) = k
<1>2. \A k \in 1..Len(s) : at(k) \in 1..Len(s) /\ RankOf(s, at(k)) = k
  BY Ranks
<1>3. Sort(s) = [k \in 1..Len(s) |-> s[at(k)]]
  BY <1>1 DEF Sort, SortedBy, RankOf, Preceding
<1> HIDE DEF at
<1>4. Sort(s) \in Seq(Int) /\ Len(Sort(s)) = Len(s) /\ DOMAIN Sort(s) = 1..Len(s)
  BY <1>1, <1>2, <1>3
<1>5. \A k \in 1..Len(s) : Sort(s)[k] = s[at(k)]
  BY <1>3
<1>6. NonDecreasing(Sort(s))
  <2> SUFFICES ASSUME NEW k \in 1..Len(s), NEW l \in 1..Len(s), k < l
               PROVE  s[at(k)] <= s[at(l)]
    BY <1>4, <1>5 DEF NonDecreasing
  <2>1. /\ at(k) \in 1..Len(s) /\ at(l) \in 1..Len(s)
        /\ RankOf(s, at(k)) <= RankOf(s, at(l))
    BY <1>1, <1>2
  <2>2. \/ s[at(k)] < s[at(l)]
        \/ s[at(k)] = s[at(l)] /\ at(k) <= at(l)
    BY <2>1, Ranks, Zenon
  <2>3. s[at(k)] \in Int /\ s[at(l)] \in Int
    BY <1>1, <2>1
  <2> QED
    BY <2>2, <2>3
<1>7. \A i \in 1..Len(s) : \E k \in 1..Len(s) : Sort(s)[k] = s[i]
  <2> TAKE i \in 1..Len(s)
  <2>1. RankOf(s, i) \in 1..Len(s)
    BY Ranks
  <2>2. at(RankOf(s, i)) = i
    <3> DEFINE j == at(RankOf(s, i))
    <3>1. j \in 1..Len(s) /\ RankOf(s, j) = RankOf(s, i)
      BY <1>2, <2>1
    <3> HIDE DEF j
    <3>2. RankOf(s, j) <= RankOf(s, i) /\ RankOf(s, i) <= RankOf(s, j)
      BY <2>1, <3>1
    <3>3. j = i
      <4>1. /\ s[j] < s[i] \/ (s[j] = s[i] /\ j <= i)
            /\ s[i] < s[j] \/ (s[i] = s[j] /\ i <= j)
        BY <3>1, <3>2, Ranks, Zenon
      <4>2. s[j] \in Int /\ s[i] \in Int
        BY <1>1, <3>1
      <4> QED
        BY <3>1, <4>1, <4>2
    <3> QED
      BY <3>3 DEF j
  <2> QED
    BY <1>5, <2>1, <2>2
<1>8. ASSUME NonDecreasing(s) PROVE Sort(s) = s
  <2>1. \A i \in 1..Len(s) : RankOf(s, i) = i
    <3> TAKE i \in 1..Len(s)
    <3>1. Preceding(s, i) = 1..i
      BY <1>1, <1>8 DEF Preceding, NonDecreasing
    <3> QED
      BY <3>1, FS_Interval DEF RankOf
  <2>2. \A k \in 1..Len(s) : at(k) = k
    BY <1>2, <2>1
  <2> QED
    BY <1>1, <1>3, <2>2
<1> QED
  BY <1>2, <1>4, <1>5, <1>6, <1>7, <1>8
(* Sorting by keys: the same elements in the order of their keys, those    *)
(* with the same key in the order they had.                                *)
LEMMA SortsBy ==
    ASSUME NEW S, NEW s \in Seq(S), NEW keys \in Seq(Int), Len(keys) = Len(s)
    PROVE  \E at \in [1..Len(s) -> 1..Len(s)] :
              /\ SortedBy(s, keys) = [k \in 1..Len(s) |-> s[at[k]]]
              /\ \A k, l \in 1..Len(s) : k < l => keys[at[k]] <= keys[at[l]]
              /\ \A k, l \in 1..Len(s) :
                   k < l => \/ keys[at[k]] < keys[at[l]]
                            \/ keys[at[k]] = keys[at[l]] /\ at[k] < at[l]
              /\ \A i \in 1..Len(s) : \E k \in 1..Len(s) : at[k] = i
              /\ NonDecreasing(keys) => \A k \in 1..Len(s) : at[k] = k
<1> DEFINE n == Len(s)
           place(k) == CHOOSE i \in 1..n : RankOf(keys, i) = k
           at == [k \in 1..n |-> place(k)]
<1>1. n \in Nat /\ DOMAIN s = 1..n /\ DOMAIN keys = 1..n /\ \A i \in 1..n : keys[i] \in Int
  OBVIOUS
<1>2. SortedBy(s, keys) = [k \in 1..n |-> s[place(k)]]
  BY <1>1 DEF SortedBy, RankOf, Preceding
<1> HIDE DEF n
<1>3. \A k \in 1..n : place(k) \in 1..n /\ RankOf(keys, place(k)) = k
  <2>1. \A k \in 1..n : \E i \in 1..n : RankOf(keys, i) = k
    BY Ranks DEF n
  <2> QED
    BY <2>1
<1> HIDE DEF place
<1>4. at \in [1..n -> 1..n] /\ \A k \in 1..n : at[k] = place(k)
  BY <1>3
<1>5. ASSUME NEW k \in 1..n, NEW l \in 1..n, k < l
      PROVE  /\ keys[at[k]] <= keys[at[l]]
             /\ \/ keys[at[k]] < keys[at[l]]
                \/ keys[at[k]] = keys[at[l]] /\ at[k] < at[l]
  <2> DEFINE i == at[k]
             j == at[l]
  <2>1. i \in 1..n /\ j \in 1..n /\ RankOf(keys, i) = k /\ RankOf(keys, j) = l
    BY <1>3, <1>4
  <2> HIDE DEF i, j, at
  <2>2. RankOf(keys, i) <= RankOf(keys, j) /\ i # j
    BY <1>1, <1>5, <2>1
  <2>3. keys[i] < keys[j] \/ (keys[i] = keys[j] /\ i <= j)
    <3>1. i \in 1..Len(keys) /\ j \in 1..Len(keys)
      BY <2>1 DEF n
    <3> QED
      BY <2>2, <3>1, Ranks, Zenon
  <2>4. keys[i] \in Int /\ keys[j] \in Int
    BY <1>1, <2>1
  <2>5. /\ keys[i] <= keys[j]
        /\ keys[i] < keys[j] \/ (keys[i] = keys[j] /\ i < j)
    BY <1>1, <2>1, <2>2, <2>3, <2>4
  <2> QED
    BY <2>5 DEF i, j
<1>6. SortedBy(s, keys) = [k \in 1..n |-> s[at[k]]]
  BY <1>2, <1>4
<1>7. ASSUME NonDecreasing(keys), NEW k \in 1..n PROVE at[k] = k
  <2>1. \A i \in 1..n : RankOf(keys, i) = i
    <3> TAKE i \in 1..n
    <3>1. \A j \in 1..n : /\ j < i => keys[j] <= keys[i]
                          /\ i < j => keys[i] <= keys[j]
      BY <1>1, <1>7 DEF NonDecreasing
    <3>2. \A j \in 1..n : (keys[j] < keys[i] \/ (keys[j] = keys[i] /\ j <= i)) <=> j <= i
      BY <1>1, <3>1
    <3>3. Preceding(keys, i) = {j \in 1..n : j <= i}
      BY <1>1, <3>2 DEF Preceding
    <3>4. Preceding(keys, i) = 1..i
      BY <1>1, <3>3
    <3> QED
      BY <3>4, FS_Interval DEF RankOf
  <2> QED
    BY <1>3, <1>4, <2>1
<1>8. ASSUME NEW i \in 1..n PROVE \E k \in 1..n : at[k] = i
  <2>1. RankOf(keys, i) \in 1..n
    BY <1>8, Ranks DEF n
  <2> DEFINE j == at[RankOf(keys, i)]
  <2>2. j \in 1..n /\ RankOf(keys, j) = RankOf(keys, i)
    BY <1>3, <1>4, <2>1
  <2> HIDE DEF j
  <2>3. RankOf(keys, i) <= RankOf(keys, j) /\ RankOf(keys, j) <= RankOf(keys, i)
    BY <1>1, <2>1, <2>2
  <2>4. /\ keys[i] < keys[j] \/ (keys[i] = keys[j] /\ i <= j)
        /\ keys[j] < keys[i] \/ (keys[j] = keys[i] /\ j <= i)
    BY <1>8, <2>2, <2>3, Ranks DEF n
  <2>5. keys[i] \in Int /\ keys[j] \in Int /\ n \in Nat
    BY <1>1, <1>8, <2>2 DEF n
  <2>6. i = j
    BY <1>8, <2>2, <2>4, <2>5
  <2> QED
    BY <2>1, <2>6 DEF j
<1> HIDE DEF at
<1> QED
  BY <1>4, <1>5, <1>6, <1>7, <1>8 DEF n

(* The elements of a set in order, each once.                              *)
LEMMA Ascends ==
    ASSUME NEW S \in SUBSET Int, IsFiniteSet(S)
    PROVE  /\ Cardinality(S) \in Nat
           /\ Ascending(S) \in [1..Cardinality(S) -> S]
           /\ \A i, j \in 1..Cardinality(S) : i < j => Ascending(S)[i] < Ascending(S)[j]
           /\ \A x \in S : \E i \in 1..Cardinality(S) : Ascending(S)[i] = x
<1> DEFINE n == Cardinality(S)
           UpToOf(x) == {y \in S : y <= x}
           rank == [x \in S |-> Cardinality(UpToOf(x))]
           place(k) == CHOOSE x \in S : Cardinality(UpToOf(x)) = k
<1>1. n \in Nat
  BY FS_CardinalityType
<1>2. ASSUME NEW x \in S
      PROVE  IsFiniteSet(UpToOf(x)) /\ rank[x] \in 1..n
  <2>1. UpToOf(x) \in SUBSET S /\ x \in UpToOf(x)
    OBVIOUS
  <2> HIDE DEF UpToOf
  <2>2. IsFiniteSet(UpToOf(x)) /\ Cardinality(UpToOf(x)) <= n
    BY <2>1, FS_Subset
  <2>3. Cardinality(UpToOf(x)) \in Nat /\ Cardinality(UpToOf(x)) # 0
    BY <2>1, <2>2, FS_CardinalityType, FS_EmptySet
  <2> QED
    BY <1>1, <2>2, <2>3
<1>3. ASSUME NEW x \in S, NEW y \in S, x < y PROVE rank[x] < rank[y]
  <2>1. UpToOf(x) \in SUBSET UpToOf(y) /\ y \in UpToOf(y) /\ y \notin UpToOf(x)
    <3>1. x \in Int /\ y \in Int /\ \A z \in S : z \in Int
      OBVIOUS
    <3>2. \A z \in S : z <= x => z <= y
      BY <1>3, <3>1
    <3>3. y <= y /\ ~ (y <= x)
      BY <1>3, <3>1
    <3> QED
      BY <3>2, <3>3
  <2> HIDE DEF UpToOf
  <2>2. /\ Cardinality(UpToOf(x)) <= Cardinality(UpToOf(y))
        /\ Cardinality(UpToOf(x)) # Cardinality(UpToOf(y))
    BY <1>2, <2>1, FS_Subset
  <2>3. rank[x] = Cardinality(UpToOf(x)) /\ rank[y] = Cardinality(UpToOf(y))
    OBVIOUS
  <2>4. rank[x] \in Int /\ rank[y] \in Int
    BY <1>1, <1>2
  <2> HIDE DEF rank
  <2> QED
    BY <2>2, <2>3, <2>4
<1>4. Ascending(S) = [k \in 1..n |-> place(k)]
  BY DEF Ascending
<1>5. rank \in [S -> 1..n] /\ \A x \in S : rank[x] = Cardinality(UpToOf(x))
  BY <1>2
<1> HIDE DEF rank, UpToOf
<1>6. \A x, y \in S : rank[x] = rank[y] => x = y
  <2> SUFFICES ASSUME NEW x \in S, NEW y \in S, rank[x] = rank[y], x # y
               PROVE  FALSE
    OBVIOUS
  <2>1. rank[x] \in Int /\ x \in Int /\ y \in Int
    BY <1>1, <1>5
  <2>2. CASE x < y
    BY <1>3, <2>1, <2>2
  <2>3. CASE y < x
    BY <1>3, <2>1, <2>3
  <2> QED
    BY <2>1, <2>2, <2>3
<1>7. \A k \in 1..n : \E x \in S : rank[x] = k
  <2>1. rank \in Injection(S, 1..n)
    BY <1>5, <1>6 DEF Injection, IsInjective
  <2>2. IsFiniteSet(1..n) /\ Cardinality(1..n) = n
    BY <1>1, UpTo
  <2>3. rank \in Surjection(S, 1..n)
    BY <2>1, <2>2, FS_Injection
  <2> QED
    BY <2>3 DEF Surjection
<1> DEFINE A == Ascending(S)
<1>8. A = [k \in 1..n |-> place(k)]
  BY <1>4
<1> HIDE DEF A
<1>9. \A k \in 1..n : A[k] \in S /\ rank[A[k]] = k
  <2>1. \A k \in 1..n : place(k) \in S /\ Cardinality(UpToOf(place(k))) = k
    BY <1>5, <1>7
  <2> HIDE DEF place
  <2> QED
    BY <1>5, <1>8, <2>1
<1>10. A \in [1..n -> S]
  BY <1>8, <1>9
<1>11. ASSUME NEW i \in 1..n, NEW j \in 1..n, i < j PROVE A[i] < A[j]
  <2> DEFINE x == A[i]
             y == A[j]
  <2>1. x \in S /\ y \in S /\ rank[x] = i /\ rank[y] = j
    BY <1>9
  <2> HIDE DEF x, y
  <2>2. x \in Int /\ y \in Int /\ x # y
    BY <1>1, <1>11, <2>1
  <2>3. ~ (y < x)
    <3> SUFFICES ASSUME y < x PROVE FALSE
      OBVIOUS
    <3>1. rank[y] < rank[x]
      BY <1>3, <2>1
    <3> QED
      BY <1>1, <1>11, <2>1, <3>1
  <2> QED
    BY <2>2, <2>3 DEF x, y
<1>12. \A x \in S : \E i \in 1..n : A[i] = x
  <2> TAKE x \in S
  <2>1. rank[x] \in 1..n
    BY <1>5
  <2>2. A[rank[x]] \in S /\ rank[A[rank[x]]] = rank[x]
    BY <1>9, <2>1
  <2> QED
    BY <1>6, <2>1, <2>2
<1> QED
  BY <1>1, <1>10, <1>11, <1>12 DEF A

-----------------------------------------------------------------------------
(* Rounding to whole numbers: an integer, and in order.                    *)
LEMMA Quotient ==
    ASSUME NEW a \in Int, NEW d \in Nat \ {0}
    PROVE  /\ a \div d \in Int /\ a % d \in 0..d - 1
           /\ a = d * (a \div d) + (a % d)
<1>1. d \in Int /\ d > 0
  OBVIOUS
<1> QED
  BY <1>1, SMTT(30)

LEMMA Scaled ==
    ASSUME NEW d \in Nat \ {0}, NEW x \in Int, NEW y \in Int, x < y
    PROVE  d * x + d <= d * y
<1>1. d * (y - x - 1) >= 0
  <2>1. y - x - 1 \in Nat
    OBVIOUS
  <2> QED
    BY <2>1
<1> QED
  BY <1>1

LEMMA Rounded ==
    ASSUME NEW a \in Int, NEW d \in Nat \ {0}
    PROVE  Round(a, d) \in Int
BY Quotient DEF Round

LEMMA RoundedInOrder ==
    ASSUME NEW a \in Int, NEW b \in Int, NEW d \in Nat \ {0}, a <= b
    PROVE  Round(a, d) <= Round(b, d)
<1> DEFINE p == a \div d
           q == b \div d
           x == a % d
           y == b % d
<1>1. p \in Int /\ x \in 0..d - 1 /\ a = d * p + x
  BY Quotient
<1>2. q \in Int /\ y \in 0..d - 1 /\ b = d * q + y
  BY Quotient
<1>3. /\ Round(a, d) = IF 2 * x > d \/ (2 * x = d /\ p % 2 = 1) THEN p + 1 ELSE p
      /\ Round(b, d) = IF 2 * y > d \/ (2 * y = d /\ q % 2 = 1) THEN q + 1 ELSE q
  BY DEF Round
<1> HIDE DEF p, q, x, y
<1>4. p <= q
  <2> SUFFICES ASSUME q < p PROVE FALSE
    BY <1>1, <1>2
  <2>1. d * q + d <= d * p
    BY <1>1, <1>2, Scaled
  <2>2. d * q \in Int /\ d * p \in Int
    BY <1>1, <1>2
  <2> QED
    BY <1>1, <1>2, <2>1, <2>2
<1>5. CASE p < q
  BY <1>1, <1>2, <1>3, <1>5
<1>6. CASE p = q
  <2>1. x <= y
    BY <1>1, <1>2, <1>6
  <2> QED
    BY <1>1, <1>2, <1>3, <1>6, <2>1
<1> QED
  BY <1>1, <1>2, <1>4, <1>5, <1>6

(* A rounded quotient is off by half at most, and exact if there is none.  *)
LEMMA RoundedNear ==
    ASSUME NEW a \in Int, NEW d \in Nat \ {0}
    PROVE  /\ 2 * (d * Round(a, d)) <= 2 * a + d
           /\ 2 * a - d <= 2 * (d * Round(a, d))
<1> DEFINE p == a \div d
           x == a % d
           r == Round(a, d)
<1>1. p \in Int /\ x \in 0..d - 1 /\ a = d * p + x
  BY Quotient
<1>2. r = IF 2 * x > d \/ (2 * x = d /\ p % 2 = 1) THEN p + 1 ELSE p
  BY DEF Round
<1> HIDE DEF p, x, r
<1>3. d * p \in Int /\ d * (p + 1) = d * p + d
  BY <1>1
<1>4. CASE r = p /\ 2 * x <= d
  BY <1>1, <1>3, <1>4 DEF r
<1>5. CASE r = p + 1 /\ 2 * x >= d
  <2>1. d * r = d * p + d
    BY <1>3, <1>5
  <2> HIDE DEF r
  <2> QED
    BY <1>1, <1>3, <1>5, <2>1 DEF r
<1> QED
  BY <1>1, <1>2, <1>4, <1>5

LEMMA RoundedExact ==
    ASSUME NEW q \in Int, NEW d \in Nat \ {0}
    PROVE  Round(d * q, d) = q
<1> DEFINE a == d * q
           p == a \div d
           x == a % d
<1>1. a \in Int
  OBVIOUS
<1>2. p \in Int /\ x \in 0..d - 1 /\ a = d * p + x
  BY <1>1, Quotient
<1>3. Round(a, d) = IF 2 * x > d \/ (2 * x = d /\ p % 2 = 1) THEN p + 1 ELSE p
  BY DEF Round
<1>4. d * q = d * p + x
  BY <1>2
<1> HIDE DEF a, p, x
<1>5. ~ (p < q)
  <2> SUFFICES ASSUME p < q PROVE FALSE
    OBVIOUS
  <2>1. d * p + d <= d * q
    BY <1>2, Scaled
  <2>2. d * p \in Int
    BY <1>2
  <2> QED
    BY <1>2, <1>4, <2>1, <2>2
<1>6. ~ (q < p)
  <2> SUFFICES ASSUME q < p PROVE FALSE
    OBVIOUS
  <2>1. d * q + d <= d * p
    BY <1>2, Scaled
  <2>2. d * p \in Int
    BY <1>2
  <2> QED
    BY <1>2, <1>4, <2>1, <2>2
<1>7. p = q
  BY <1>2, <1>5, <1>6
<1>8. x = 0
  <2>1. d * q \in Int
    OBVIOUS
  <2> QED
    BY <1>2, <1>4, <1>7, <2>1
<1> QED
  BY <1>3, <1>7, <1>8 DEF a

(* Rounded multiples of a quotient differ by its whole part or one more.   *)
LEMMA RoundedSteps ==
    ASSUME NEW m \in Nat, NEW n \in Nat \ {0}, NEW d \in Nat \ {0}
    PROVE  /\ n \div d <= Round((m + 1) * n, d) - Round(m * n, d)
           /\ Round((m + 1) * n, d) - Round(m * n, d) <= n \div d + 1
<1> DEFINE f == n \div d
           r == n % d
           x == m * n
           y == (m + 1) * n
           u == Round(x, d)
           v == Round(y, d)
<1>1. f \in Int /\ r \in 0..d - 1 /\ n = d * f + r
  BY Quotient
<1>2. x \in Int /\ y \in Int /\ y = x + n
  OBVIOUS
<1>3. u \in Int /\ v \in Int
  BY <1>2, Rounded
<1>4. /\ 2 * (d * u) <= 2 * x + d /\ 2 * x - d <= 2 * (d * u)
      /\ 2 * (d * v) <= 2 * y + d /\ 2 * y - d <= 2 * (d * v)
  BY <1>2, RoundedNear
<1>5. CASE r = 0
  <2>1. x = d * (m * f) /\ y = d * ((m + 1) * f)
    <3>1. n = d * f
      <4>1. d * f \in Int
        BY <1>1
      <4> QED
        BY <1>1, <1>5, <4>1
    <3> HIDE DEF f
    <3>2. m * (d * f) = d * (m * f) /\ (m + 1) * (d * f) = d * ((m + 1) * f)
      BY <1>1
    <3> QED
      BY <3>1, <3>2
  <2>2. m * f \in Int /\ (m + 1) * f \in Int /\ (m + 1) * f = m * f + f
    <3> HIDE DEF f
    <3> QED
      BY <1>1
  <2> HIDE DEF f, x, y
  <2>3. u = m * f /\ v = (m + 1) * f
    BY <2>1, <2>2, RoundedExact
  <2> HIDE DEF u, v
  <2>4. f <= v - u /\ v - u <= f + 1
    BY <1>1, <2>2, <2>3
  <2> QED
    BY <2>4 DEF f, u, v, x, y
<1>6. CASE r # 0
  <2> HIDE DEF f, r, x, y, u, v
  <2>1. d * u \in Int /\ d * v \in Int /\ d * f \in Int
    BY <1>1, <1>3
  <2>2. d * v - d * u <= d * f + r + d /\ d * f + r - d <= d * v - d * u
    BY <1>1, <1>2, <1>4, <2>1
  <2>3. d * (v - u) = d * v - d * u
    BY <1>3
  <2>4. ~ (v - u < f)
    <3> SUFFICES ASSUME v - u < f PROVE FALSE
      OBVIOUS
    <3>1. v - u \in Int
      BY <1>3
    <3>2. d * (v - u) + d <= d * f
      BY <1>1, <3>1, Scaled
    <3> QED
      BY <1>1, <1>6, <2>1, <2>2, <2>3, <3>2
  <2>5. ~ (f + 1 < v - u)
    <3> SUFFICES ASSUME f + 1 < v - u PROVE FALSE
      OBVIOUS
    <3>1. v - u \in Int /\ f + 1 \in Int
      BY <1>1, <1>3
    <3>2. d * (f + 1) + d <= d * (v - u)
      BY <3>1, Scaled
    <3>3. d * (f + 1) = d * f + d
      BY <1>1
    <3> QED
      BY <1>1, <1>6, <2>1, <2>2, <2>3, <3>2, <3>3
  <2>6. f <= v - u /\ v - u <= f + 1
    BY <1>1, <1>3, <2>4, <2>5
  <2> QED
    BY <2>6 DEF f, u, v, x, y
<1> QED
  BY <1>5, <1>6

-----------------------------------------------------------------------------
(* Induction, stated with a set: the least number outside would have a     *)
(* predecessor inside.                                                     *)
LEMMA Induct ==
    ASSUME NEW G, 0 \in G, \A n \in Nat : n \in G => n + 1 \in G, NEW k \in Nat
    PROVE  k \in G
<1> SUFFICES ASSUME k \notin G PROVE FALSE
  OBVIOUS
<1> DEFINE Bad == {n \in 0..k : n \notin G}
<1>1. Bad \in SUBSET Int /\ IsFiniteSet(Bad) /\ Bad # {}
  <2>1. IsFiniteSet(0..k)
    BY FS_Interval
  <2>2. Bad \in SUBSET (0..k) /\ k \in Bad
    OBVIOUS
  <2> HIDE DEF Bad
  <2>3. IsFiniteSet(Bad)
    BY <2>1, <2>2, FS_Subset
  <2> QED
    BY <2>2, <2>3
<1>2. PICK m \in Bad : \A n \in Bad : m <= n
  <2> HIDE DEF Bad
  <2> QED
    BY <1>1, LeastOf
<1>3. m # 0 /\ m \in 0..k /\ m \notin G
  OBVIOUS
<1>4. m - 1 \in 0..k /\ m - 1 \in Nat
  BY <1>3
<1>5. m - 1 \in G
  BY <1>2, <1>4
<1>6. m - 1 + 1 \in G
  BY <1>4, <1>5
<1> QED
  BY <1>3, <1>4, <1>6

-----------------------------------------------------------------------------
(* Folds over finite sets: the community modules take the elements in some *)
(* order.  Whatever the operation, such a fold exists.                     *)
Folded(g, op, base, S) ==
    \A s \in SUBSET S : g[s] = IF s = {} THEN base
                               ELSE op[<<CHOOSE x \in s : TRUE, g[s \ {CHOOSE x \in s : TRUE}]>>]

LEMMA FoldExists ==
    ASSUME NEW S, IsFiniteSet(S), NEW V, NEW base \in V, NEW op \in [S \X V -> V]
    PROVE  \E g \in [SUBSET S -> V] : Folded(g, op, base, S)
<1> DEFINE P == SUBSET S
           pick(s) == CHOOSE x \in s : TRUE
           step(g, s) == IF s = {} THEN base ELSE op[<<pick(s), g[s \ {pick(s)}]>>]
           upTo(n) == {s \in P : Cardinality(s) <= n}
           Good == {n \in Nat : \E g \in [P -> V] : \A s \in upTo(n) : g[s] = step(g, s)}
<1>1. \A s \in P : /\ IsFiniteSet(s) /\ Cardinality(s) \in Nat
                   /\ Cardinality(s) <= Cardinality(S)
                   /\ s = {} => Cardinality(s) = 0
  BY FS_Subset, FS_CardinalityType, FS_EmptySet
<1>2. \A s \in P : s # {} => /\ pick(s) \in s /\ s \ {pick(s)} \in P
                             /\ Cardinality(s \ {pick(s)}) = Cardinality(s) - 1
  <2> TAKE s \in P
  <2> HAVE s # {}
  <2>1. pick(s) \in s
    OBVIOUS
  <2>2. Cardinality(s \ {pick(s)}) = Cardinality(s) - 1
    BY <1>1, <2>1, FS_RemoveElement
  <2> QED
    BY <2>1, <2>2
<1> HIDE DEF pick
<1>3. 0 \in Good
  <2> DEFINE g == [s \in P |-> base]
  <2>1. \A s \in upTo(0) : s = {}
    BY <1>1, FS_EmptySet
  <2>2. g \in [P -> V] /\ \A s \in upTo(0) : g[s] = step(g, s)
    BY <2>1
  <2> HIDE DEF g, step, upTo
  <2> QED
    BY <2>2
<1>4. ASSUME NEW n \in Nat, n \in Good PROVE n + 1 \in Good
  <2>1. PICK g \in [P -> V] : \A s \in upTo(n) : g[s] = step(g, s)
    BY <1>4
  <2> DEFINE h == [s \in P |-> IF Cardinality(s) <= n \/ s = {} THEN g[s]
                               ELSE op[<<pick(s), g[s \ {pick(s)}]>>]]
  <2>2. h \in [P -> V]
    <3>1. ASSUME NEW s \in P, s # {} PROVE op[<<pick(s), g[s \ {pick(s)}]>>] \in V
      <4>1. pick(s) \in S /\ g[s \ {pick(s)}] \in V
        BY <1>2, <3>1
      <4> QED
        BY <4>1
    <3> QED
      BY <3>1
  <2>3. ASSUME NEW s \in upTo(n + 1) PROVE h[s] = step(h, s)
    <3>1. s \in P /\ Cardinality(s) \in Nat /\ Cardinality(s) <= n + 1
      BY <1>1
    <3>2. CASE s = {}
      <4>1. Cardinality(s) <= n
        BY <1>1, <3>1, <3>2
      <4>2. h[s] = g[s] /\ g[s] = step(g, s)
        BY <2>1, <3>1, <4>1
      <4> QED
        BY <3>2, <4>2
    <3>3. CASE s # {}
      <4> DEFINE r == s \ {pick(s)}
      <4>1. r \in P /\ Cardinality(r) <= n
        BY <1>2, <3>1, <3>3
      <4>2. h[r] = g[r]
        BY <4>1
      <4>3. h[s] = op[<<pick(s), g[r]>>]
        <5>1. CASE Cardinality(s) <= n
          <6>1. h[s] = g[s] /\ g[s] = step(g, s)
            BY <2>1, <3>1, <5>1
          <6> QED
            BY <3>3, <6>1
        <5>2. CASE ~(Cardinality(s) <= n)
          BY <3>1, <3>3, <5>2
        <5> QED
          BY <5>1, <5>2
      <4> QED
        BY <3>3, <4>2, <4>3
    <3> QED
      BY <3>2, <3>3
  <2> HIDE DEF h, step, upTo
  <2> QED
    BY <2>2, <2>3
<1>5. Cardinality(S) \in Good
  <2>1. Cardinality(S) \in Nat
    BY FS_CardinalityType
  <2> HIDE DEF Good
  <2> QED
    BY <1>3, <1>4, <2>1, Induct
<1>6. PICK g \in [P -> V] : \A s \in upTo(Cardinality(S)) : g[s] = step(g, s)
  BY <1>5
<1>7. \A s \in P : s \in upTo(Cardinality(S))
  BY <1>1
<1> HIDE DEF upTo
<1> QED
  BY <1>6, <1>7 DEF pick, Folded

(* Sums over finite sets: such a sum exists, and any of the elements may   *)
(* be the one that is added last.                                          *)
Sums(g, f, S) ==
    g = [s \in SUBSET S |-> IF s = {} THEN 0
           ELSE f[CHOOSE x \in s : TRUE] + g[s \ {CHOOSE x \in s : TRUE}]]

LEMMA SumExists ==
    ASSUME NEW S, IsFiniteSet(S), NEW f, \A x \in S : f[x] \in Int
    PROVE  \E g : Sums(g, f, S)
<1> DEFINE op == [a \in S \X Int |-> f[a[1]] + a[2]]
           pick(s) == CHOOSE x \in s : TRUE
<1>1. op \in [S \X Int -> Int] /\ 0 \in Int
  OBVIOUS
<1>2. \A u \in S, v \in Int : op[<<u, v>>] = f[u] + v
  OBVIOUS
<1> HIDE DEF op
<1>3. PICK V, z : V = Int /\ z = 0
  OBVIOUS
<1>4. PICK g \in [SUBSET S -> V] : Folded(g, op, z, S)
  <2>1. op \in [S \X V -> V] /\ z \in V
    BY <1>1, <1>3
  <2> QED
    BY <2>1, FoldExists
<1>5. \A s \in SUBSET S : s # {} => pick(s) \in S /\ g[s \ {pick(s)}] \in Int
  BY <1>3
<1>6. \A s \in SUBSET S : g[s] = IF s = {} THEN 0 ELSE op[<<pick(s), g[s \ {pick(s)}]>>]
  BY <1>3, <1>4 DEF Folded
<1> HIDE DEF pick
<1>7. \A s \in SUBSET S : g[s] = IF s = {} THEN 0 ELSE f[pick(s)] + g[s \ {pick(s)}]
  BY <1>2, <1>5, <1>6
<1>8. g = [s \in SUBSET S |-> IF s = {} THEN 0 ELSE f[pick(s)] + g[s \ {pick(s)}]]
  <2>1. g = [s \in SUBSET S |-> g[s]]
    OBVIOUS
  <2> QED
    BY <1>7, <2>1
<1> QED
  BY <1>8 DEF Sums, pick

LEMMA SumZero ==
    ASSUME NEW S, IsFiniteSet(S), NEW f \in [S -> Nat], NEW g, Sums(g, f, S)
    PROVE  g[S] \in Nat /\ (g[S] = 0 <=> \A x \in S : f[x] = 0)
<1> DEFINE P == SUBSET S
           pick(s) == CHOOSE x \in s : TRUE
           right(s) == g[s] \in Nat /\ (g[s] = 0 <=> \A x \in s : f[x] = 0)
           Good == {n \in Nat : \A s \in P : Cardinality(s) = n => right(s)}
<1>1. \A s \in P : g[s] = IF s = {} THEN 0 ELSE f[pick(s)] + g[s \ {pick(s)}]
  BY DEF Sums
<1>2. \A s \in P : IsFiniteSet(s) /\ Cardinality(s) \in Nat /\ (Cardinality(s) = 0 <=> s = {})
  BY FS_Subset, FS_CardinalityType, FS_EmptySet
<1>3. 0 \in Good
  <2>1. \A s \in P : Cardinality(s) = 0 => right(s)
    BY <1>1, <1>2
  <2> HIDE DEF right
  <2> QED
    BY <2>1
<1>4. ASSUME NEW n \in Nat, n \in Good PROVE n + 1 \in Good
  <2>1. ASSUME NEW s \in P, Cardinality(s) = n + 1 PROVE right(s)
    <3>1. s # {} /\ IsFiniteSet(s)
      BY <1>2, <2>1
    <3>2. PICK x : x = pick(s)
      OBVIOUS
    <3>3. x \in s
      BY <3>1, <3>2
    <3> DEFINE r == s \ {x}
    <3>4. r \in P /\ Cardinality(r) = n
      <4>1. Cardinality(r) = Cardinality(s) - 1
        BY <3>1, <3>3, FS_RemoveElement
      <4> QED
        BY <2>1, <4>1
    <3>5. right(r)
      BY <1>4, <3>4
    <3>6. g[s] = f[x] + g[r] /\ f[x] \in Nat
      BY <1>1, <3>1, <3>2, <3>3
    <3> HIDE DEF pick
    <3>7. \A y \in s : y = x \/ y \in r
      OBVIOUS
    <3>8. \A y \in r : y \in s
      OBVIOUS
    <3> HIDE DEF r
    <3> QED
      BY <3>3, <3>5, <3>6, <3>7, <3>8
  <2> HIDE DEF right
  <2> QED
    BY <2>1
<1>5. Cardinality(S) \in Good
  <2>1. Cardinality(S) \in Nat
    BY FS_CardinalityType
  <2> HIDE DEF Good
  <2> QED
    BY <1>3, <1>4, <2>1, Induct
<1> QED
  BY <1>5

(* The sums of whole numbers.                                              *)
Adds(g, f, S) == IsFiniteSet(S) /\ (\A i \in S : f[i] \in Int) /\ Sums(g, f, S)

Taken(g, f, s) == g[{}] = 0 /\ g[s] \in Int /\ \A x \in s : g[s] = f[x] + g[s \ {x}]

LEMMA SumTake ==
    ASSUME NEW S, NEW f, NEW g, Adds(g, f, S), NEW s \in SUBSET S
    PROVE  Taken(g, f, s)
<1>0. IsFiniteSet(S) /\ (\A x \in S : f[x] \in Int) /\ Sums(g, f, S)
  BY DEF Adds
<1> DEFINE P == SUBSET S
           pick(t) == CHOOSE x \in t : TRUE
           right(t) == g[t] \in Int /\ \A x \in t : g[t] = f[x] + g[t \ {x}]
           Good == {n \in Nat : \A t \in P : Cardinality(t) <= n => right(t)}
<1>1. \A t \in P : g[t] = IF t = {} THEN 0 ELSE f[pick(t)] + g[t \ {pick(t)}]
  BY <1>0 DEF Sums
<1>2. \A t \in P : IsFiniteSet(t) /\ Cardinality(t) \in Nat /\ (Cardinality(t) = 0 <=> t = {})
  BY <1>0, FS_Subset, FS_CardinalityType, FS_EmptySet
<1>3. \A t \in P : \A x \in t : t \ {x} \in P /\ Cardinality(t \ {x}) = Cardinality(t) - 1
  <2> TAKE t \in P
  <2> TAKE x \in t
  <2>1. Cardinality(t \ {x}) = Cardinality(t) - 1
    BY <1>2, FS_RemoveElement
  <2> QED
    BY <2>1
<1>4. g[{}] = 0
  BY <1>1
<1>5. 0 \in Good
  <2>1. \A t \in P : Cardinality(t) <= 0 => t = {}
    BY <1>2
  <2>2. right({})
    BY <1>4
  <2> HIDE DEF right
  <2> QED
    BY <2>1, <2>2
<1>6. ASSUME NEW n \in Nat, n \in Good PROVE n + 1 \in Good
  <2>1. ASSUME NEW t \in P, Cardinality(t) = n + 1 PROVE right(t)
    <3>1. t # {}
      BY <1>2, <2>1
    <3>2. PICK p : p = pick(t)
      OBVIOUS
    <3>3. p \in t
      BY <3>1, <3>2
    <3>4. g[t] = f[p] + g[t \ {p}]
      BY <1>1, <3>1, <3>2
    <3> HIDE DEF pick
    <3>5. \A x \in t : t \ {x} \in P /\ Cardinality(t \ {x}) = n /\ right(t \ {x})
      <4> TAKE x \in t
      <4>1. t \ {x} \in P /\ Cardinality(t \ {x}) = n
        BY <1>3, <2>1
      <4>2. Cardinality(t \ {x}) <= n
        BY <4>1
      <4> HIDE DEF right
      <4> QED
        BY <1>6, <4>1, <4>2
    <3>6. \A x \in t : f[x] \in Int
      BY <1>0
    <3>7. ASSUME NEW x \in t, x # p PROVE g[t] = f[x] + g[t \ {x}]
      <4> DEFINE r == (t \ {p}) \ {x}
      <4>1. x \in t \ {p} /\ p \in t \ {x} /\ r = (t \ {x}) \ {p}
        BY <3>3, <3>7
      <4>2. g[r] \in Int
        <5>1. Cardinality(r) = n - 1 /\ r \in P
          BY <1>3, <3>3, <3>5, <4>1
        <5> HIDE DEF r, right
        <5>2. Cardinality(r) <= n
          BY <5>1
        <5>3. right(r)
          BY <1>6, <5>1, <5>2
        <5> QED
          BY <5>3 DEF right
      <4>3. g[t \ {p}] = f[x] + g[r] /\ g[t \ {x}] = f[p] + g[r]
        BY <3>3, <3>5, <4>1
      <4> HIDE DEF r
      <4> QED
        BY <3>3, <3>4, <3>6, <4>2, <4>3
    <3>8. g[t] \in Int
      <4>1. right(t \ {p}) /\ f[p] \in Int
        BY <3>3, <3>5, <3>6
      <4> QED
        BY <3>4, <4>1
    <3>9. \A x \in t : g[t] = f[x] + g[t \ {x}]
      BY <3>4, <3>7
    <3> QED
      BY <3>8, <3>9
  <2>2. ASSUME NEW t \in P, Cardinality(t) <= n PROVE right(t)
    <3> HIDE DEF right
    <3> QED
      BY <1>6, <2>2
  <2>3. \A t \in P : Cardinality(t) <= n + 1 => Cardinality(t) = n + 1 \/ Cardinality(t) <= n
    BY <1>2
  <2> HIDE DEF right
  <2> QED
    BY <2>1, <2>2, <2>3
<1>7. Cardinality(s) \in Good
  <2>1. Cardinality(s) \in Nat
    BY <1>2
  <2> HIDE DEF Good
  <2> QED
    BY <1>5, <1>6, <2>1, Induct
<1>8. right(s)
  <2> HIDE DEF right
  <2> QED
    BY <1>2, <1>7
<1> QED
  BY <1>4, <1>8 DEF Taken

(* The sum of an array, from its running sums.                             *)
Added(f) == FoldFunction(+, 0, f)

LEMMA Running ==
    ASSUME NEW m \in Nat, NEW S, IsFiniteSet(S), NEW f, \A x \in S : f[x] \in Int,
           NEW g, Sums(g, f, S), \A i \in 0..m : 1..i \in SUBSET S
    PROVE  /\ \A i \in 0..m : g[1..i] \in Int
           /\ g[1..0] = 0
           /\ \A i \in 1..m : g[1..i] = g[1..i - 1] + f[i]
<1>1. \A s \in SUBSET S : g[{}] = 0 /\ g[s] \in Int /\ \A x \in s : g[s] = f[x] + g[s \ {x}]
  <2>1. ASSUME NEW s \in SUBSET S
        PROVE  g[{}] = 0 /\ g[s] \in Int /\ \A x \in s : g[s] = f[x] + g[s \ {x}]
    <3>1. Adds(g, f, S)
      BY DEF Adds
    <3>2. Taken(g, f, s)
      BY <3>1, SumTake
    <3> QED
      BY <3>2 DEF Taken
  <2> QED
    BY <2>1
<1>2. g[1..0] = 0
  <2>1. 1..0 = {}
    OBVIOUS
  <2> QED
    BY <1>1, <2>1
<1>3. ASSUME NEW i \in 1..m PROVE g[1..i] = g[1..i - 1] + f[i]
  <2>1. i \in 0..m /\ i - 1 \in 0..m /\ i \in 1..i /\ (1..i) \ {i} = 1..i - 1
    BY <1>3
  <2>2. g[1..i] = f[i] + g[1..i - 1] /\ g[1..i - 1] \in Int
    BY <1>1, <2>1
  <2>3. f[i] \in Int
    BY <2>1
  <2> QED
    BY <2>1, <2>2, <2>3
<1> QED
  BY <1>1, <1>2, <1>3

LEMMA SumAlong ==
    ASSUME NEW m \in Nat, NEW f, DOMAIN f = 1..m, \A i \in 1..m : f[i] \in Int
    PROVE  \E t \in [0..m -> Int] : /\ t[0] = 0
                                    /\ \A i \in 1..m : t[i] = t[i - 1] + f[i]
                                    /\ Added(f) = t[m]
<1> DEFINE R(g) == g = [s \in SUBSET (1..m) |-> IF s = {} THEN 0
                     ELSE LET x == CHOOSE x \in s : TRUE IN f[x] + g[s \ {x}]]
           h == CHOOSE g : R(g)
<1>1. Added(f) = h[1..m]
  BY DEF Added, FoldFunction, FoldFunctionOnSet, MapThenFoldSet
<1>2. \A g : R(g) <=> Sums(g, f, 1..m)
  BY DEF Sums
<1> HIDE DEF R
<1>3. Sums(h, f, 1..m)
  <2>1. IsFiniteSet(1..m)
    BY UpTo
  <2>2. \E g : R(g)
    BY <1>2, <2>1, SumExists
  <2>3. R(h)
    BY <2>2
  <2> QED
    BY <1>2, <2>3
<1> HIDE DEF h
<1>4. IsFiniteSet(1..m) /\ \A i \in 0..m : 1..i \in SUBSET (1..m)
  BY UpTo
<1>5. /\ \A i \in 0..m : h[1..i] \in Int
      /\ h[1..0] = 0
      /\ \A i \in 1..m : h[1..i] = h[1..i - 1] + f[i]
  <2>1. PICK S : S = 1..m
    OBVIOUS
  <2>2. /\ IsFiniteSet(S) /\ \A i \in 0..m : 1..i \in SUBSET S
        /\ \A x \in S : f[x] \in Int
    BY <1>4, <2>1
  <2>3. Sums(h, f, S)
    BY <1>3, <2>1
  <2> QED
    BY <2>2, <2>3, Running
<1> DEFINE t == [i \in 0..m |-> h[1..i]]
<1>6. t \in [0..m -> Int] /\ t[0] = 0 /\ t[m] = h[1..m]
  BY <1>5
<1>7. \A i \in 1..m : t[i] = t[i - 1] + f[i]
  BY <1>5
<1> HIDE DEF t
<1> QED
  BY <1>1, <1>6, <1>7

(* The sum of differences is the difference of the ends.                   *)
Increments(v, f, m) ==
    /\ m \in Nat
    /\ DOMAIN f = 1..m /\ \A i \in 1..m : f[i] \in Int
    /\ \A i \in 1..m + 1 : v[i] \in Int
    /\ \A i \in 1..m : v[i + 1] = v[i] + f[i]

LEMMA SumTelescopes ==
    ASSUME NEW v, NEW f, NEW m, Increments(v, f, m)
    PROVE  Added(f) = v[m + 1] - v[1]
<1> USE DEF Increments
<1>1. PICK t \in [0..m -> Int] :
        /\ t[0] = 0
        /\ \A i \in 1..m : t[i] = t[i - 1] + f[i]
        /\ Added(f) = t[m]
  BY SumAlong
<1> DEFINE G == {i \in Nat : i <= m => t[i] = v[i + 1] - v[1]}
<1>2. v[1] \in Int
  OBVIOUS
<1>3. 0 \in G
  BY <1>1, <1>2
<1>4. ASSUME NEW i \in Nat, i \in G PROVE i + 1 \in G
  <2> SUFFICES ASSUME i + 1 <= m PROVE t[i + 1] = v[i + 2] - v[1]
    OBVIOUS
  <2>1. /\ i + 1 \in 1..m /\ i + 1 - 1 = i /\ i + 1 + 1 = i + 2 /\ i <= m
        /\ i + 1 \in 1..m + 1
    OBVIOUS
  <2>2. t[i + 1] = t[i] + f[i + 1] /\ v[i + 2] = v[i + 1] + f[i + 1]
    BY <1>1, <2>1
  <2>3. v[i + 1] \in Int /\ f[i + 1] \in Int
    BY <2>1
  <2> QED
    BY <1>2, <1>4, <2>1, <2>2, <2>3
<1>5. m \in G
  <2> HIDE DEF G
  <2> QED
    BY <1>3, <1>4, Induct
<1> QED
  BY <1>1, <1>5

Linear(t, p, f1, q, f2, r, f3, k) == \A i \in t : p * f1[i] = q * f2[i] + r * f3[i] + k

(* Sums are linear: an equation that holds of each element of a set holds  *)
(* of the sums over it, a constant taken as often as there are elements.   *)
LEMMA SumsCombine ==
    ASSUME NEW S, NEW f1, NEW g1, Adds(g1, f1, S), NEW f2, NEW g2, Adds(g2, f2, S),
           NEW f3, NEW g3, Adds(g3, f3, S),
           NEW p \in Int, NEW q \in Int, NEW r \in Int, NEW k \in Int,
           NEW t \in SUBSET S, Linear(t, p, f1, q, f2, r, f3, k)
    PROVE  p * g1[t] = q * g2[t] + r * g3[t] + Cardinality(t) * k
<1> DEFINE right(s) == p * g1[s] = q * g2[s] + r * g3[s] + Cardinality(s) * k
           Good == {n \in Nat : \A s \in SUBSET t : Cardinality(s) = n => right(s)}
<1>1. \A s \in SUBSET t : /\ s \in SUBSET S /\ IsFiniteSet(s) /\ Cardinality(s) \in Nat
                          /\ Cardinality(s) = 0 <=> s = {}
  BY FS_Subset, FS_CardinalityType, FS_EmptySet DEF Adds
<1>2. ASSUME NEW s \in SUBSET S
      PROVE  /\ g1[{}] = 0 /\ g1[s] \in Int /\ \A i \in s : g1[s] = f1[i] + g1[s \ {i}]
             /\ g2[{}] = 0 /\ g2[s] \in Int /\ \A i \in s : g2[s] = f2[i] + g2[s \ {i}]
             /\ g3[{}] = 0 /\ g3[s] \in Int /\ \A i \in s : g3[s] = f3[i] + g3[s \ {i}]
  <2>1. Taken(g1, f1, s)
    BY SumTake
  <2>2. Taken(g2, f2, s)
    BY SumTake
  <2>3. Taken(g3, f3, s)
    BY SumTake
  <2> QED
    BY <2>1, <2>2, <2>3 DEF Taken
<1>3. 0 \in Good
  <2>1. \A s \in SUBSET t : Cardinality(s) = 0 => right(s)
    <3> SUFFICES ASSUME NEW s \in SUBSET t, Cardinality(s) = 0 PROVE right(s)
      OBVIOUS
    <3>1. s = {}
      BY <1>1
    <3>2. g1[s] = 0 /\ g2[s] = 0 /\ g3[s] = 0
      BY <1>2, <3>1
    <3> QED
      BY <3>2
  <2> HIDE DEF right
  <2> QED
    BY <2>1
<1>4. ASSUME NEW n \in Nat, n \in Good PROVE n + 1 \in Good
  <2>1. ASSUME NEW s \in SUBSET t, Cardinality(s) = n + 1 PROVE right(s)
    <3>1. PICK i \in s : TRUE
      BY <1>1, <2>1
    <3> DEFINE rest == s \ {i}
    <3>2. rest \in SUBSET t /\ Cardinality(rest) = n
      <4>1. Cardinality(rest) = Cardinality(s) - 1
        BY <1>1, FS_RemoveElement
      <4> QED
        BY <2>1, <4>1
    <3>3. right(rest)
      BY <1>4, <3>2
    <3>4. /\ g1[s] = f1[i] + g1[rest] /\ g2[s] = f2[i] + g2[rest] /\ g3[s] = f3[i] + g3[rest]
          /\ f1[i] \in Int /\ f2[i] \in Int /\ f3[i] \in Int
      BY <1>1, <1>2 DEF Adds
    <3>5. g1[rest] \in Int /\ g2[rest] \in Int /\ g3[rest] \in Int
      BY <1>1, <1>2, <3>2
    <3>6. p * f1[i] = q * f2[i] + r * f3[i] + k
      BY DEF Linear
    <3>7. p * g1[rest] = q * g2[rest] + r * g3[rest] + n * k
      BY <3>2, <3>3
    <3> HIDE DEF rest
    <3>8. \A a, b, c \in Int : a * (b + c) = a * b + a * c
      OBVIOUS
    <3>9. /\ p * g1[s] = p * f1[i] + p * g1[rest]
          /\ q * g2[s] = q * f2[i] + q * g2[rest]
          /\ r * g3[s] = r * f3[i] + r * g3[rest]
          /\ (n + 1) * k = n * k + k
      BY <3>4, <3>5, <3>8
    <3>10. /\ p * f1[i] \in Int /\ q * f2[i] \in Int /\ r * f3[i] \in Int /\ n * k \in Int
           /\ p * g1[rest] \in Int /\ q * g2[rest] \in Int /\ r * g3[rest] \in Int
      BY <3>4, <3>5
    <3> QED
      BY <2>1, <3>6, <3>7, <3>9, <3>10
  <2> HIDE DEF right
  <2> QED
    BY <2>1
<1>5. Cardinality(t) \in Good
  <2>1. Cardinality(t) \in Nat
    BY <1>1
  <2> HIDE DEF Good
  <2> QED
    BY <1>3, <1>4, <2>1, Induct
<1>6. right(t)
  <2> HIDE DEF right
  <2> QED
    BY <1>5
<1> QED
  BY <1>6
=============================================================================

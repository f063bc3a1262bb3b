--------------------------- MODULE TimelineProofs ---------------------------
(***************************************************************************)
(* What the timeline stage promises, for any streams, recordings, grid     *)
(* steps and tolerance.                                                    *)
(***************************************************************************)
EXTENDS Timeline, ArraysProofs

-----------------------------------------------------------------------------
(* The join of a sorted array with one grid point.                         *)
Near(s, kernel, g) == {x \in Gaps(s, kernel, g) : x <= Tolerance}

LEMMA GapsAreNear ==
    ASSUME NEW s \in Seq(Int), NonDecreasing(s),
           NEW kernel \in {"hold", "continuous"}, NEW g \in Int
    PROVE  /\ Gaps(s, kernel, g) \in SUBSET Nat
           /\ IsFiniteSet(Gaps(s, kernel, g))
           /\ \A x \in Gaps(s, kernel, g) : \E i \in DOMAIN s :
                 x = Abs(g - s[i]) /\ (kernel = "hold" => s[i] <= g)
           /\ \A i \in DOMAIN s : (kernel = "hold" => s[i] <= g) =>
                 \E x \in Gaps(s, kernel, g) : x <= Abs(g - s[i])
<1> DEFINE p == SearchRight(s, g)
           G == Gaps(s, kernel, g)
<1>1. Len(s) \in Nat /\ DOMAIN s = 1..Len(s) /\ \A i \in 1..Len(s) : s[i] \in Int
  OBVIOUS
<1>2. p \in 0..Len(s) /\ \A i \in 1..Len(s) : s[i] <= g <=> i <= p
  BY RightOf
<1>3. G = {g - s[i] : i \in {p} \ {0}}
            \cup {s[i] - g : i \in IF kernel = "continuous" THEN {p + 1} \cap DOMAIN s ELSE {}}
  BY DEF Gaps
<1> HIDE DEF p, G
<1>4. ASSUME NEW x \in G
      PROVE  \/ p \in 1..Len(s) /\ x = g - s[p]
             \/ kernel = "continuous" /\ p + 1 \in 1..Len(s) /\ x = s[p + 1] - g
  BY <1>1, <1>2, <1>3, <1>4
<1>5. p \in 1..Len(s) => g - s[p] \in G
  BY <1>2, <1>3
<1>6. kernel = "continuous" /\ p + 1 \in 1..Len(s) => s[p + 1] - g \in G
  BY <1>1, <1>3
<1>7. ASSUME NEW x \in G
      PROVE  x \in Nat /\ \E i \in DOMAIN s :
                            x = Abs(g - s[i]) /\ (kernel = "hold" => s[i] <= g)
  <2>1. CASE p \in 1..Len(s) /\ x = g - s[p]
    <3>1. s[p] \in Int /\ s[p] <= g
      BY <1>1, <1>2, <2>1
    <3>2. x \in Nat /\ x = Abs(g - s[p])
      BY <2>1, <3>1 DEF Abs
    <3> QED
      BY <1>1, <2>1, <3>1, <3>2
  <2>2. CASE kernel = "continuous" /\ p + 1 \in 1..Len(s) /\ x = s[p + 1] - g
    <3>1. s[p + 1] \in Int /\ s[p + 1] > g
      BY <1>1, <1>2, <2>2
    <3>2. x \in Nat /\ x = Abs(g - s[p + 1])
      BY <2>2, <3>1 DEF Abs
    <3> QED
      BY <1>1, <2>2, <3>2
  <2> QED
    BY <1>4, <2>1, <2>2
<1>8. IsFiniteSet(G)
  <2>1. IsFiniteSet({g - s[p], s[p + 1] - g})
    <3>1. IsFiniteSet({g - s[p]})
      BY FS_Singleton
    <3>2. IsFiniteSet({g - s[p]} \cup {s[p + 1] - g})
      BY <3>1, FS_AddElement
    <3>3. {g - s[p], s[p + 1] - g} = {g - s[p]} \cup {s[p + 1] - g}
      OBVIOUS
    <3> QED
      BY <3>2, <3>3
  <2>2. G \in SUBSET {g - s[p], s[p + 1] - g}
    BY <1>4
  <2> QED
    BY <2>1, <2>2, FS_Subset
<1>9. ASSUME NEW i \in 1..Len(s), kernel = "hold" => s[i] <= g
      PROVE  \E x \in G : x <= Abs(g - s[i])
  <2>1. s[i] \in Int
    BY <1>1
  <2>2. CASE i <= p
    <3>1. p \in 1..Len(s)
      BY <1>2, <2>2
    <3>2. s[p] \in Int /\ s[i] <= s[p] /\ s[i] <= g
      BY <1>1, <1>2, <2>1, <2>2, <3>1 DEF NonDecreasing
    <3>3. g - s[p] <= Abs(g - s[i])
      BY <2>1, <3>2 DEF Abs
    <3> QED
      BY <1>5, <3>1, <3>3
  <2>3. CASE ~ (i <= p)
    <3>1. ~ (s[i] <= g)
      BY <1>2, <2>3
    <3>2. kernel = "continuous"
      BY <1>9, <3>1
    <3>3. p + 1 \in 1..Len(s) /\ p + 1 <= i
      BY <1>1, <1>2, <2>3
    <3>4. s[p + 1] \in Int /\ s[p + 1] <= s[i]
      BY <1>1, <2>1, <3>3 DEF NonDecreasing
    <3>5. s[p + 1] - g <= Abs(g - s[i])
      BY <2>1, <3>1, <3>4 DEF Abs
    <3> QED
      BY <1>6, <3>2, <3>3, <3>5
  <2> QED
    BY <2>2, <2>3
<1>10. G \in SUBSET Nat
  BY <1>7
<1> QED
  BY <1>1, <1>7, <1>8, <1>9, <1>10 DEF G

LEMMA IsValid ==
    ASSUME NEW a, NEW S, NEW w, NEW x, NEW y, NEW z,
           a = [source |-> x, next |-> y, weight |-> w, valid |-> S # {}, interp |-> z]
    PROVE  a.valid <=> S # {}
OBVIOUS

LEMMA JoinedAt ==
    ASSUME NEW s \in Seq(Int), NonDecreasing(s),
           NEW kernel \in {"hold", "continuous"}, NEW g \in Int,
           NEW a, a = JoinAt(s, kernel, g)
    PROVE  /\ a.source \in 0..Len(s)
           /\ \A i \in 1..Len(s) : s[i] <= g <=> i <= a.source
           /\ a.next = IF kernel = "hold" \/ a.source = Len(s) THEN 0 ELSE a.source + 1
           /\ 0 <= a.weight[1] /\ a.weight[1] < a.weight[2]
           /\ a.valid \in BOOLEAN /\ a.interp \in 0..Tolerance
           /\ a.valid <=> \E i \in DOMAIN s : /\ kernel = "hold" => s[i] <= g
                                              /\ Abs(g - s[i]) <= Tolerance
           /\ \A i \in DOMAIN s : (kernel = "hold" => s[i] <= g) =>
                 Tolerance - Abs(g - s[i]) <= a.interp
           /\ ~a.valid => a.interp = 0
<1> DEFINE p == SearchRight(s, g)
           N == Near(s, kernel, g)
           n == IF kernel = "continuous" /\ p < Len(s) THEN p + 1 ELSE 0
<1> USE ToleranceAssumption
<1>1. Len(s) \in Nat /\ DOMAIN s = 1..Len(s) /\ \A i \in 1..Len(s) : s[i] \in Int
  OBVIOUS
<1>2. p \in 0..Len(s) /\ \A i \in 1..Len(s) : s[i] <= g <=> i <= p
  BY RightOf
<1>3. a = [source |-> p, next |-> n,
           weight |-> IF p > 0 /\ n > 0 THEN <<g - s[p], s[n] - s[p]>> ELSE <<0, 1>>,
           valid |-> N # {},
           interp |-> IF N = {} THEN 0
                      ELSE Tolerance - CHOOSE x \in N : \A y \in N : x <= y]
  BY DEF JoinAt, Latest, Near
<1>4. /\ N \in SUBSET Nat /\ IsFiniteSet(N)
      /\ \A x \in N : x <= Tolerance
      /\ \A x \in N : \E i \in DOMAIN s :
            x = Abs(g - s[i]) /\ (kernel = "hold" => s[i] <= g)
      /\ \A i \in DOMAIN s :
            (kernel = "hold" => s[i] <= g) /\ Abs(g - s[i]) <= Tolerance =>
            \E x \in N : x <= Abs(g - s[i])
  <2>1. /\ N \in SUBSET Gaps(s, kernel, g)
        /\ \A x \in Gaps(s, kernel, g) : x <= Tolerance <=> x \in N
    BY DEF Near
  <2>2. \A i \in DOMAIN s : Abs(g - s[i]) \in Int
    BY <1>1 DEF Abs
  <2>3. /\ Gaps(s, kernel, g) \in SUBSET Nat
        /\ IsFiniteSet(Gaps(s, kernel, g))
        /\ \A x \in Gaps(s, kernel, g) : \E i \in DOMAIN s :
              x = Abs(g - s[i]) /\ (kernel = "hold" => s[i] <= g)
        /\ \A i \in DOMAIN s : (kernel = "hold" => s[i] <= g) =>
              \E x \in Gaps(s, kernel, g) : x <= Abs(g - s[i])
    BY GapsAreNear
  <2>4. IsFiniteSet(N)
    BY <2>1, <2>3, FS_Subset
  <2> HIDE DEF N
  <2>5. ASSUME NEW i \in DOMAIN s, kernel = "hold" => s[i] <= g, Abs(g - s[i]) <= Tolerance
        PROVE  \E x \in N : x <= Abs(g - s[i])
    <3>1. PICK x \in Gaps(s, kernel, g) : x <= Abs(g - s[i])
      BY <2>3, <2>5
    <3>2. x \in Nat /\ Abs(g - s[i]) \in Int
      BY <2>2, <2>3
    <3>3. x <= Tolerance
      BY <2>5, <3>1, <3>2
    <3> QED
      BY <2>1, <3>1, <3>3
  <2>6. N \in SUBSET Nat /\ \A x \in N : x <= Tolerance
    BY <2>1, <2>3
  <2>7. \A x \in N : \E i \in DOMAIN s :
            x = Abs(g - s[i]) /\ (kernel = "hold" => s[i] <= g)
    BY <2>1, <2>3
  <2> QED
    BY <2>4, <2>5, <2>6, <2>7
<1> HIDE DEF p, N
<1>5. /\ a.source = p /\ a.next = n
      /\ a.valid \in BOOLEAN /\ (a.valid <=> N # {})
      /\ N = {} => a.interp = 0
  <2> DEFINE weight == IF p > 0 /\ n > 0 THEN <<g - s[p], s[n] - s[p]>> ELSE <<0, 1>>
             interp == IF N = {} THEN 0
                       ELSE Tolerance - CHOOSE x \in N : \A y \in N : x <= y
  <2>1. a = [source |-> p, next |-> n, weight |-> weight, valid |-> N # {}, interp |-> interp]
    BY <1>3
  <2>2. N = {} => interp = 0
    OBVIOUS
  <2> HIDE DEF weight, interp, n
  <2>3. a.source = p /\ a.next = n /\ a.interp = interp
    BY <2>1
  <2>4. a.valid \in BOOLEAN
    BY <2>1
  <2>5. a.valid <=> N # {}
    BY <2>1, IsValid
  <2> QED
    BY <2>2, <2>3, <2>4, <2>5
<1>6. n = IF kernel = "hold" \/ p = Len(s) THEN 0 ELSE p + 1
  <2>1. Len(s) \in Nat /\ p \in 0..Len(s)
    BY <1>1, <1>2
  <2>2. CASE kernel = "hold"
    BY <2>2
  <2>3. CASE kernel = "continuous"
    BY <2>1, <2>3
  <2> QED
    BY <2>2, <2>3
<1>7. 0 <= a.weight[1] /\ a.weight[1] < a.weight[2]
  <2>1. CASE p > 0 /\ n > 0
    <3>1. p \in 1..Len(s) /\ n \in 1..Len(s) /\ n = p + 1
      BY <1>1, <1>2, <2>1
    <3>2. s[p] \in Int /\ s[n] \in Int /\ s[p] <= g /\ g < s[n]
      BY <1>1, <1>2, <3>1
    <3>3. a.weight = <<g - s[p], s[n] - s[p]>>
      BY <1>3, <2>1
    <3> QED
      BY <3>2, <3>3
  <2>2. CASE ~ (p > 0 /\ n > 0)
    BY <1>3, <2>2
  <2> QED
    BY <2>1, <2>2
<1> HIDE DEF n
<1>8. CASE N = {}
  <2>1. a.interp = 0 /\ ~a.valid /\ a.valid \in BOOLEAN
    BY <1>5, <1>8
  <2>2. \A i \in DOMAIN s : (kernel = "hold" => s[i] <= g) => Abs(g - s[i]) > Tolerance
    <3>1. \A i \in DOMAIN s : Abs(g - s[i]) \in Int
      BY <1>1 DEF Abs
    <3> QED
      BY <1>4, <1>8, <3>1
  <2>3. \A i \in DOMAIN s : Abs(g - s[i]) \in Int
    BY <1>1 DEF Abs
  <2>4. \A i \in DOMAIN s : (kernel = "hold" => s[i] <= g) =>
              Tolerance - Abs(g - s[i]) <= a.interp
    BY <2>1, <2>2, <2>3
  <2>5. ~ \E i \in DOMAIN s : (kernel = "hold" => s[i] <= g) /\ Abs(g - s[i]) <= Tolerance
    BY <2>2, <2>3
  <2>6. /\ a.source \in 0..Len(s)
        /\ \A i \in 1..Len(s) : s[i] <= g <=> i <= a.source
        /\ a.next = IF kernel = "hold" \/ a.source = Len(s) THEN 0 ELSE a.source + 1
    BY <1>2, <1>5, <1>6
  <2>7. a.interp \in 0..Tolerance
    BY <2>1
  <2>8. a.valid <=> \E i \in DOMAIN s :
           (kernel = "hold" => s[i] <= g) /\ Abs(g - s[i]) <= Tolerance
    BY <2>1, <2>5
  <2> QED
    BY <1>7, <2>1, <2>4, <2>6, <2>7, <2>8
<1>9. CASE N # {}
  <2> DEFINE m == CHOOSE x \in N : \A y \in N : x <= y
  <2>1. a.interp = Tolerance - m
    BY <1>3, <1>9
  <2>2. m \in N /\ \A y \in N : m <= y
    <3>1. \E x \in N : \A y \in N : x <= y
      <4>1. N \in SUBSET Int
        BY <1>4
      <4> QED
        BY <1>4, <1>9, <4>1, LeastOf
    <3> QED
      BY <3>1
  <2> HIDE DEF m
  <2>3. m \in Nat /\ m <= Tolerance
    BY <1>4, <2>2
  <2>4. \E i \in DOMAIN s : (kernel = "hold" => s[i] <= g) /\ Abs(g - s[i]) <= Tolerance
    BY <1>4, <2>2, <2>3
  <2>5. ASSUME NEW i \in DOMAIN s, kernel = "hold" => s[i] <= g
        PROVE  Tolerance - Abs(g - s[i]) <= a.interp
    <3>1. Abs(g - s[i]) \in Int
      BY <1>1 DEF Abs
    <3>2. CASE Abs(g - s[i]) <= Tolerance
      <4>1. PICK x \in N : x <= Abs(g - s[i])
        BY <1>4, <2>5, <3>2
      <4>2. x \in Nat /\ m <= x
        BY <1>4, <2>2
      <4> QED
        BY <2>1, <2>3, <3>1, <4>1, <4>2
    <3>3. CASE ~ (Abs(g - s[i]) <= Tolerance)
      BY <2>1, <2>3, <3>1, <3>3
    <3> QED
      BY <3>2, <3>3
  <2>6. a.interp \in 0..Tolerance
    BY <2>1, <2>3
  <2> QED
    BY <1>1, <1>2, <1>5, <1>6, <1>7, <1>9, <2>4, <2>5, <2>6
<1> QED
  BY <1>8, <1>9

-----------------------------------------------------------------------------
(* The nearer of the two events around a grid point is the nearest of all. *)
LEMMA NearestEvent ==
    ASSUME NEW e \in Seq(Int), e # << >>, NonDecreasing(e), NEW g \in Int
    PROVE  /\ \E i \in 1..Len(e) : Away(e, g) = Abs(g - e[i])
           /\ \A i \in 1..Len(e) : Away(e, g) <= Abs(g - e[i])
<1> DEFINE n == Len(e)
           l == SearchLeft(e, g)
           pos == Clip(l + 1, 1, n)
           left == Clip(pos - 1, 1, n)
<1>1. n \in Nat /\ n >= 1 /\ DOMAIN e = 1..n /\ \A i \in 1..n : e[i] \in Int
  <2>1. n \in Nat /\ DOMAIN e = 1..n /\ \A i \in 1..n : e[i] \in Int
    OBVIOUS
  <2>2. n # 0
    OBVIOUS
  <2> HIDE DEF n
  <2> QED
    BY <2>1, <2>2
<1>2. l \in 0..n /\ \A i \in 1..n : e[i] < g <=> i <= l
  BY LeftOf
<1>3. Away(e, g) = IF Abs(g - e[pos]) < Abs(g - e[left]) THEN Abs(g - e[pos])
                                                         ELSE Abs(g - e[left])
  BY DEF Away
<1> HIDE DEF n, l
<1>4. /\ pos = IF l = n THEN n ELSE l + 1
      /\ left = IF pos = 1 THEN 1 ELSE pos - 1
  BY <1>1, <1>2 DEF Clip
<1> HIDE DEF pos, left
<1>5. pos \in 1..n /\ left \in 1..n
  BY <1>1, <1>2, <1>4
<1>6. \A i \in 1..n : Abs(g - e[i]) \in Int
  BY <1>1 DEF Abs
<1>7. \E i \in 1..n : Away(e, g) = Abs(g - e[i])
  BY <1>3, <1>5
<1>8. ASSUME NEW i \in 1..n
      PROVE  Abs(g - e[pos]) <= Abs(g - e[i]) \/ Abs(g - e[left]) <= Abs(g - e[i])
  <2>1. e[i] \in Int /\ e[pos] \in Int /\ e[left] \in Int
    BY <1>1, <1>5
  <2>2. CASE i > l
    <3>1. pos <= i /\ pos = l + 1
      BY <1>1, <1>2, <1>4, <2>2
    <3>2. ~ (pos <= l)
      BY <1>2, <3>1
    <3>3. e[pos] <= e[i]
      BY <1>1, <1>5, <2>1, <3>1 DEF NonDecreasing
    <3>4. ~ (e[pos] < g)
      BY <1>2, <1>5, <3>2
    <3> QED
      BY <2>1, <3>3, <3>4 DEF Abs
  <2>3. CASE i <= l
    <3> DEFINE j == IF l = n THEN n ELSE left
    <3>1. j \in 1..n /\ j = l /\ (j = pos \/ j = left)
      BY <1>1, <1>2, <1>4, <2>3
    <3> HIDE DEF j
    <3>2. e[j] \in Int /\ e[i] <= e[j] /\ e[j] < g
      BY <1>1, <1>2, <2>1, <2>3, <3>1 DEF NonDecreasing
    <3>3. Abs(g - e[j]) <= Abs(g - e[i])
      BY <2>1, <3>2 DEF Abs
    <3> QED
      BY <3>1, <3>3
  <2> QED
    BY <1>2, <2>2, <2>3
<1>9. \A i \in 1..n : Away(e, g) <= Abs(g - e[i])
  <2> TAKE i \in 1..n
  <2>1. Abs(g - e[pos]) \in Int /\ Abs(g - e[left]) \in Int /\ Abs(g - e[i]) \in Int
    BY <1>5, <1>6
  <2> QED
    BY <1>3, <1>8, <2>1
<1> QED
  BY <1>7, <1>9 DEF n

-----------------------------------------------------------------------------
(* A stage that is past has left exactly what it makes of the stages       *)
(* before it.                                                              *)
Begun ==
    /\ recorded \in [Stream -> Recording] /\ step \in Steps
    /\ pc \in {"correct", "grid", "join", "score", "done", "failed"}

HasCorrected ==
    pc # "correct" =>
        corrected = [s \in Stream |->
                       [i \in DOMAIN recorded[s].times |->
                          ToReference(recorded[s].clock, recorded[s].times[i])]]

HasGrid ==
    pc \in {"join", "score", "done"} =>
        Instants # {} /\ grid = [k \in 1..Points |-> Point(k)]

HasJoined ==
    pc \in {"score", "done"} =>
        aligned = [s \in Stream |->
                     [k \in DOMAIN grid |-> JoinAt(Sort(corrected[s]), Kernel[s], grid[k])]]

HasScored ==
    pc = "done" =>
        confidence = [s \in Stream |->
                        [k \in DOMAIN grid |->
                           ComponentsAt(aligned[s][k], recorded[s].events, grid[k])]]

IInv == Begun /\ HasCorrected /\ HasGrid /\ HasJoined /\ HasScored

LEMMA InitIInv == Init => IInv
BY RecordingAssumption
   DEF Init, IInv, Begun, HasCorrected, HasGrid, HasJoined, HasScored

LEMMA NextIInv == IInv /\ [Next]_vars => IInv'
<1> SUFFICES ASSUME IInv, [Next]_vars PROVE IInv'
  OBVIOUS
<1>1. Begun /\ HasCorrected /\ HasGrid /\ HasJoined /\ HasScored
  BY DEF IInv
<1>2. CASE Correct
  BY <1>1, <1>2
     DEF IInv, Correct, Begun, HasCorrected, HasGrid, HasJoined, HasScored
<1>3. CASE BuildGrid
  <2>1. Instants' = Instants /\ step' = step
    BY <1>3 DEF BuildGrid, Instants
  <2>2. First' = First /\ Last' = Last
    BY <2>1 DEF First, Last
  <2>3. Points' = Points /\ \A k : Point(k)' = Point(k)
    BY <2>1, <2>2 DEF Points, Point
  <2>4. HasGrid'
    BY <1>3, <2>1, <2>3 DEF BuildGrid, HasGrid
  <2>5. Begun' /\ HasCorrected'
    BY <1>1, <1>3 DEF BuildGrid, Begun, HasCorrected
  <2>6. HasJoined' /\ HasScored'
    BY <1>3 DEF BuildGrid, HasJoined, HasScored
  <2> QED
    BY <2>4, <2>5, <2>6 DEF IInv
<1>4. CASE NoSamples
  BY <1>1, <1>4
     DEF IInv, NoSamples, Begun, HasCorrected, HasGrid, HasJoined, HasScored
<1>5. ASSUME UNCHANGED <<recorded, step, corrected, grid>>,
             pc \in {"join", "score"}, pc' \in {"score", "done"}
      PROVE  Begun' /\ HasCorrected' /\ HasGrid'
  <2>1. Instants' = Instants
    BY <1>5 DEF Instants
  <2>2. First' = First /\ Last' = Last
    BY <2>1 DEF First, Last
  <2>3. Points' = Points /\ \A k : Point(k)' = Point(k)
    BY <1>5, <2>2 DEF Points, Point
  <2>4. HasGrid'
    BY <1>1, <1>5, <2>1, <2>3 DEF HasGrid
  <2> QED
    BY <1>1, <1>5, <2>4 DEF Begun, HasCorrected
<1>6. CASE Join
  <2>1. Begun' /\ HasCorrected' /\ HasGrid'
    BY <1>5, <1>6 DEF Join
  <2>2. HasJoined' /\ HasScored'
    BY <1>6 DEF Join, HasJoined, HasScored
  <2> QED
    BY <2>1, <2>2 DEF IInv
<1>7. CASE Score
  <2>1. Begun' /\ HasCorrected' /\ HasGrid'
    BY <1>5, <1>7 DEF Score
  <2>2. HasJoined' /\ HasScored'
    BY <1>1, <1>7 DEF Score, HasJoined, HasScored
  <2> QED
    BY <2>1, <2>2 DEF IInv
<1>8. CASE UNCHANGED vars
  <2>1. Instants' = Instants /\ step' = step
    BY <1>8 DEF vars, Instants
  <2>2. First' = First /\ Last' = Last
    BY <2>1 DEF First, Last
  <2>3. Points' = Points /\ \A k : Point(k)' = Point(k)
    BY <2>1, <2>2 DEF Points, Point
  <2>4. HasGrid'
    BY <1>1, <1>8, <2>1, <2>3 DEF vars, HasGrid
  <2> QED
    BY <1>1, <1>8, <2>4 DEF vars, IInv, Begun, HasCorrected, HasJoined, HasScored
<1> QED
  BY <1>2, <1>3, <1>4, <1>6, <1>7, <1>8 DEF Next

(* What the stages leave behind is what they compute, however the prefix   *)
(* of the run got there.                                                   *)
THEOREM InvariantHolds == Spec => []IInv
BY InitIInv, NextIInv, PTL DEF Spec

-----------------------------------------------------------------------------
(* The samples in reference time.                                          *)
LEMMA Scales ==
    ASSUME NEW m \in Nat, NEW x \in Int, NEW y \in Int, x <= y
    PROVE  m * x <= m * y
<1>1. m * (y - x) >= 0
  <2>1. y - x \in Nat
    OBVIOUS
  <2> QED
    BY <2>1
<1> QED
  BY <1>1

LEMMA Times ==
    ASSUME Begun, HasCorrected, pc # "correct", NEW s \in Stream
    PROVE  /\ corrected[s] \in Seq(Int)
           /\ DOMAIN corrected[s] = DOMAIN recorded[s].times
           /\ InOrder(s) => NonDecreasing(corrected[s])
<1> DEFINE c == recorded[s].clock
           t == recorded[s].times
<1>1. t \in Seq(Int) /\ c.num \in Int /\ c.off \in Int /\ c.den \in Nat \ {0}
  BY DEF Begun, Recording, Clock
<1>2. corrected[s] = [i \in DOMAIN t |-> ToReference(c, t[i])]
  BY DEF HasCorrected
<1>3. InOrder(s) <=> c.num > 0 /\ NonDecreasing(t)
  BY DEF InOrder
<1> HIDE DEF c, t
<1>4. DOMAIN t = 1..Len(t) /\ Len(t) \in Nat /\ \A i \in DOMAIN t : t[i] \in Int
  BY <1>1
<1>5. \A i \in DOMAIN t : c.num * t[i] + c.off \in Int
  BY <1>1, <1>4
<1>6. \A i \in DOMAIN t : corrected[s][i] = Round(c.num * t[i] + c.off, c.den)
  BY <1>2 DEF ToReference
<1>7. \A i \in DOMAIN t : corrected[s][i] \in Int
  BY <1>1, <1>5, <1>6, Rounded
<1>8. DOMAIN corrected[s] = DOMAIN t
  BY <1>2
<1>9. corrected[s] \in Seq(Int)
  <2>1. corrected[s] = [i \in 1..Len(t) |-> corrected[s][i]]
    BY <1>2, <1>4
  <2> QED
    BY <1>4, <1>7, <2>1
<1>10. ASSUME InOrder(s) PROVE NonDecreasing(corrected[s])
  <2> SUFFICES ASSUME NEW i \in DOMAIN t, NEW j \in DOMAIN t, i < j
               PROVE  corrected[s][i] <= corrected[s][j]
    BY <1>8 DEF NonDecreasing
  <2>1. t[i] <= t[j] /\ t[i] \in Int /\ t[j] \in Int /\ c.num \in Nat
    BY <1>1, <1>3, <1>4, <1>10 DEF NonDecreasing
  <2>2. c.num * t[i] <= c.num * t[j]
    BY <2>1, Scales
  <2>3. c.num * t[i] + c.off <= c.num * t[j] + c.off
    <3>1. c.num * t[i] \in Int /\ c.num * t[j] \in Int
      BY <2>1
    <3> QED
      BY <1>1, <2>2, <3>1
  <2>4. /\ c.num * t[i] + c.off \in Int /\ c.num * t[j] + c.off \in Int
    BY <1>5
  <2>5. Round(c.num * t[i] + c.off, c.den) <= Round(c.num * t[j] + c.off, c.den)
    BY <1>1, <2>3, <2>4, RoundedInOrder
  <2> QED
    BY <1>6, <2>5
<1> QED
  BY <1>8, <1>9, <1>10 DEF t

(* Finitely many streams of finitely many samples have a first and a last. *)
LEMMA ImageIsFinite ==
    ASSUME NEW S, IsFiniteSet(S), NEW f, DOMAIN f = S, f = [x \in S |-> f[x]]
    PROVE  IsFiniteSet({f[x] : x \in S})
<1> DEFINE T == {f[x] : x \in S}
<1>1. f \in Surjection(S, T)
  BY DEF Surjection
<1> QED
  BY <1>1, FS_Surjection

LEMMA Span ==
    ASSUME Begun, HasCorrected, pc # "correct", Instants # {}
    PROVE  /\ First \in Instants /\ Last \in Instants
           /\ First \in Int /\ Last \in Int
           /\ \A t \in Instants : t \in Int /\ First <= t /\ t <= Last
<1> DEFINE Of(s) == {corrected[s][i] : i \in DOMAIN corrected[s]}
           all == [s \in Stream |-> Of(s)]
<1>1. ASSUME NEW s \in Stream
      PROVE  IsFiniteSet(Of(s)) /\ Of(s) \in SUBSET Int
  <2>1. corrected[s] \in Seq(Int)
    BY Times
  <2>2. DOMAIN corrected[s] = 1..Len(corrected[s]) /\ Len(corrected[s]) \in Nat
    BY <2>1
  <2>3. IsFiniteSet(DOMAIN corrected[s])
    BY <2>2, UpTo
  <2>4. corrected[s] = [i \in DOMAIN corrected[s] |-> corrected[s][i]]
    BY <2>1
  <2> QED
    BY <2>1, <2>3, <2>4, ImageIsFinite
<1>2. Instants = UNION {all[s] : s \in Stream}
  BY DEF Instants
<1>3. \A s \in Stream : IsFiniteSet(all[s]) /\ all[s] \in SUBSET Int
  BY <1>1
<1>4. IsFiniteSet({all[s] : s \in Stream})
  BY StreamAssumption, ImageIsFinite
<1> HIDE DEF all
<1>5. IsFiniteSet(Instants) /\ Instants \in SUBSET Int
  BY <1>2, <1>3, <1>4, FS_UNION
<1>6. \E t \in Instants : \A u \in Instants : t <= u
  BY <1>5, LeastOf
<1>7. \E t \in Instants : \A u \in Instants : u <= t
  <2> DEFINE f == [t \in Instants |-> -t]
  <2>1. f \in [Instants -> Int]
    BY <1>5
  <2>2. PICK t \in Instants : \A u \in Instants : f[t] <= f[u]
    BY <1>5, <2>1, LeastValue
  <2>3. \A u \in Instants : u <= t
    <3> TAKE u \in Instants
    <3>1. -t <= -u
      BY <2>2
    <3> QED
      BY <1>5, <3>1
  <2> QED
    BY <2>3
<1>8. First \in Instants /\ \A u \in Instants : First <= u
  BY <1>6 DEF First
<1>9. Last \in Instants /\ \A u \in Instants : u <= Last
  BY <1>7 DEF Last
<1> QED
  BY <1>5, <1>8, <1>9

LEMMA GridPoints ==
    ASSUME IInv, pc \in {"join", "score", "done"}
    PROVE  /\ Instants # {} /\ First \in Int /\ Last \in Int /\ First <= Last
           /\ step.num \in Nat \ {0} /\ step.den \in Nat \ {0}
           /\ Points \in Nat \ {0}
           /\ grid \in Seq(Int) /\ Len(grid) = Points /\ DOMAIN grid = 1..Points
           /\ \A k \in 1..Points :
                grid[k] = First + Round((k - 1) * step.num, step.den)
<1>1. Instants # {} /\ grid = [k \in 1..Points |-> Point(k)]
  BY DEF IInv, HasGrid
<1>2. step.num \in Nat \ {0} /\ step.den \in Nat \ {0}
  BY StepAssumption DEF IInv, Begun
<1>3. First \in Int /\ Last \in Int /\ First <= Last
  BY <1>1, Span DEF IInv
<1>4. Points \in Nat \ {0}
  <2> DEFINE d == (Last - First) * step.den
  <2>1. d \in Nat
    <3>1. Last - First \in Nat
      BY <1>3
    <3> QED
      BY <1>2, <3>1
  <2> HIDE DEF d
  <2>2. d \div step.num \in Nat
    BY <1>2, <2>1
  <2> QED
    BY <2>2 DEF Points, d
<1>5. \A k \in 1..Points : grid[k] = First + Round((k - 1) * step.num, step.den)
  BY <1>1 DEF Point
<1>6. \A k \in 1..Points : grid[k] \in Int
  <2> TAKE k \in 1..Points
  <2>1. (k - 1) * step.num \in Int
    BY <1>2, <1>4
  <2>2. Round((k - 1) * step.num, step.den) \in Int
    BY <1>2, <2>1, Rounded
  <2> QED
    BY <1>3, <1>5, <2>2
<1>7. grid \in Seq(Int) /\ Len(grid) = Points /\ DOMAIN grid = 1..Points
  <2>1. grid = [k \in 1..Points |-> grid[k]]
    BY <1>1
  <2>2. Points \in Nat
    BY <1>4
  <2> HIDE DEF Points
  <2> QED
    BY <1>6, <2>1, <2>2
<1> QED
  BY <1>1, <1>2, <1>3, <1>4, <1>5, <1>7

-----------------------------------------------------------------------------
(* The results of the join, sample by sample of the recorded stream.       *)
LEMMA Aligned ==
    ASSUME IInv, pc \in {"score", "done"}, NEW s \in Stream, NEW k \in DOMAIN grid
    PROVE  LET a == aligned[s][k]
               g == grid[k]
               c == corrected[s]
           IN  /\ g \in Int /\ c \in Seq(Int) /\ Kernel[s] \in {"hold", "continuous"}
               /\ a.source \in 0..Len(c)
               /\ a.next = IF Kernel[s] = "hold" \/ a.source = Len(c) THEN 0 ELSE a.source + 1
               /\ 0 <= a.weight[1] /\ a.weight[1] < a.weight[2]
               /\ a.valid \in BOOLEAN /\ a.interp \in 0..Tolerance
               /\ a.valid <=> \E i \in DOMAIN c : /\ Kernel[s] = "hold" => c[i] <= g
                                                  /\ Abs(g - c[i]) <= Tolerance
               /\ \A i \in DOMAIN c : (Kernel[s] = "hold" => c[i] <= g) =>
                     Tolerance - Abs(g - c[i]) <= a.interp
               /\ ~a.valid => a.interp = 0
               /\ NonDecreasing(c) => \A i \in DOMAIN c : c[i] <= g <=> i <= a.source
<1> DEFINE c == corrected[s]
           g == grid[k]
           a == aligned[s][k]
           t == Sort(c)
<1>1. c \in Seq(Int)
  BY Times DEF IInv
<1>2. g \in Int
  BY GridPoints
<1>3. Kernel[s] \in {"hold", "continuous"}
  BY KernelAssumption
<1>4. a = JoinAt(t, Kernel[s], g)
  BY DEF IInv, HasJoined
<1>5. /\ t \in Seq(Int) /\ Len(t) = Len(c) /\ NonDecreasing(t)
      /\ \A j \in 1..Len(c) : \E i \in 1..Len(c) : t[j] = c[i]
      /\ \A i \in 1..Len(c) : \E j \in 1..Len(c) : t[j] = c[i]
      /\ NonDecreasing(c) => t = c
  BY <1>1, Sorts
<1> HIDE DEF c, g, a, t
<1>6. DOMAIN c = 1..Len(c) /\ DOMAIN t = 1..Len(c)
  BY <1>1, <1>5
<1> DEFINE kernel == Kernel[s]
<1> HIDE DEF kernel
<1>12. /\ a.source \in 0..Len(t)
       /\ \A i \in 1..Len(t) : t[i] <= g <=> i <= a.source
       /\ a.next = IF kernel = "hold" \/ a.source = Len(t) THEN 0 ELSE a.source + 1
       /\ 0 <= a.weight[1] /\ a.weight[1] < a.weight[2]
       /\ a.valid \in BOOLEAN /\ a.interp \in 0..Tolerance
       /\ a.valid <=> \E i \in DOMAIN t : /\ kernel = "hold" => t[i] <= g
                                          /\ Abs(g - t[i]) <= Tolerance
       /\ \A i \in DOMAIN t : (kernel = "hold" => t[i] <= g) =>
             Tolerance - Abs(g - t[i]) <= a.interp
       /\ ~a.valid => a.interp = 0
  <2>1. kernel \in {"hold", "continuous"} /\ a = JoinAt(t, kernel, g)
    BY <1>3, <1>4 DEF kernel
  <2> QED
    BY <1>2, <1>5, <2>1, JoinedAt, Zenon
<1>7. /\ a.source \in 0..Len(c)
      /\ \A i \in 1..Len(c) : t[i] <= g <=> i <= a.source
      /\ a.next = IF Kernel[s] = "hold" \/ a.source = Len(c) THEN 0 ELSE a.source + 1
      /\ 0 <= a.weight[1] /\ a.weight[1] < a.weight[2]
      /\ a.valid \in BOOLEAN /\ a.interp \in 0..Tolerance
      /\ ~a.valid => a.interp = 0
  BY <1>5, <1>12 DEF kernel
<1>8. /\ a.valid <=> \E i \in DOMAIN t : /\ Kernel[s] = "hold" => t[i] <= g
                                         /\ Abs(g - t[i]) <= Tolerance
      /\ \A i \in DOMAIN t : (Kernel[s] = "hold" => t[i] <= g) =>
             Tolerance - Abs(g - t[i]) <= a.interp
  BY <1>12 DEF kernel
<1>9. a.valid <=> \E i \in DOMAIN c : /\ Kernel[s] = "hold" => c[i] <= g
                                      /\ Abs(g - c[i]) <= Tolerance
  <2>1. ASSUME a.valid
        PROVE  \E i \in DOMAIN c : /\ Kernel[s] = "hold" => c[i] <= g
                                   /\ Abs(g - c[i]) <= Tolerance
    <3>1. PICK j \in DOMAIN t : /\ Kernel[s] = "hold" => t[j] <= g
                                /\ Abs(g - t[j]) <= Tolerance
      BY <1>8, <2>1
    <3>2. PICK i \in DOMAIN c : t[j] = c[i]
      BY <1>5, <1>6
    <3> QED
      BY <3>1, <3>2
  <2>2. ASSUME NEW i \in DOMAIN c, Kernel[s] = "hold" => c[i] <= g, Abs(g - c[i]) <= Tolerance
        PROVE  a.valid
    <3>1. PICK j \in DOMAIN t : t[j] = c[i]
      BY <1>5, <1>6
    <3> QED
      BY <1>8, <2>2, <3>1
  <2> QED
    BY <2>1, <2>2
<1>10. ASSUME NEW i \in DOMAIN c, Kernel[s] = "hold" => c[i] <= g
       PROVE  Tolerance - Abs(g - c[i]) <= a.interp
  <2>1. PICK j \in DOMAIN t : t[j] = c[i]
    BY <1>5, <1>6
  <2> QED
    BY <1>8, <1>10, <2>1
<1>11. ASSUME NonDecreasing(c), NEW i \in DOMAIN c
       PROVE  c[i] <= g <=> i <= a.source
  BY <1>5, <1>6, <1>7, <1>11
<1> QED
  BY <1>1, <1>2, <1>3, <1>7, <1>9, <1>10, <1>11 DEF c, g, a

(* No value without a near sample its kernel may use, and the confidence   *)
(* of a value is that of the nearest such sample.                          *)
LEMMA FabricatesNothing == IInv => NoFabrication
<1> SUFFICES ASSUME IInv, Joined, NEW s \in Stream, NEW k \in DOMAIN grid
             PROVE  LET a == aligned[s][k]
                        g == grid[k]
                    IN  /\ a.valid <=> \E t \in Usable(s, g) : Abs(g - t) <= Tolerance
                        /\ \A t \in Usable(s, g) : Tolerance - Abs(g - t) <= a.interp
                        /\ ~a.valid => a.interp = 0
  BY DEF NoFabrication
<1> DEFINE a == aligned[s][k]
           g == grid[k]
           c == corrected[s]
<1>1. \A t : t \in Usable(s, g) <=>
               \E i \in DOMAIN c : t = c[i] /\ (Kernel[s] = "hold" => c[i] <= g)
  BY DEF Usable, TimesOf
<1>2. /\ a.valid <=> \E i \in DOMAIN c : /\ Kernel[s] = "hold" => c[i] <= g
                                         /\ Abs(g - c[i]) <= Tolerance
      /\ \A i \in DOMAIN c : (Kernel[s] = "hold" => c[i] <= g) =>
            Tolerance - Abs(g - c[i]) <= a.interp
      /\ ~a.valid => a.interp = 0
  BY Aligned DEF Joined
<1> HIDE DEF a, g, c
<1>3. a.valid <=> \E t \in Usable(s, g) : Abs(g - t) <= Tolerance
  BY <1>1, <1>2
<1>4. \A t \in Usable(s, g) : Tolerance - Abs(g - t) <= a.interp
  BY <1>1, <1>2
<1> QED
  BY <1>2, <1>3, <1>4 DEF a, g

(* The indices are those of the neighbouring samples as recorded.          *)
LEMMA Brackets == IInv => Bracket
<1> SUFFICES ASSUME IInv, Joined, NEW s \in Stream, NEW k \in DOMAIN grid, InOrder(s)
             PROVE  LET a == aligned[s][k]
                        g == grid[k]
                    IN  /\ \A i \in DOMAIN corrected[s] : corrected[s][i] <= g <=> i <= a.source
                        /\ a.next # 0 => a.next = a.source + 1
                        /\ a.next = 0 <=> Kernel[s] = "hold" \/ a.source = Len(corrected[s])
  BY DEF Bracket
<1> DEFINE a == aligned[s][k]
           g == grid[k]
           c == corrected[s]
<1>1. NonDecreasing(c)
  BY Times DEF IInv, Joined
<1>2. /\ a.source \in 0..Len(c)
      /\ a.next = IF Kernel[s] = "hold" \/ a.source = Len(c) THEN 0 ELSE a.source + 1
      /\ \A i \in DOMAIN c : c[i] <= g <=> i <= a.source
  BY <1>1, Aligned DEF Joined
<1> HIDE DEF a, g, c
<1>3. a.source + 1 # 0
  BY <1>2
<1> QED
  BY <1>2, <1>3 DEF a, g, c

(* JoinInv, for every recording: a grid point is valid exactly when a      *)
(* sample its kernel may use is near, and only neighbours are used.        *)
THEOREM JoinIsHonest == Spec => []JoinInv
<1>1. IInv => JoinInv
  BY FabricatesNothing, Brackets DEF JoinInv
<1> QED
  BY <1>1, InvariantHolds, PTL

(* The clock component of every valid point is that of its nearest event.  *)
LEMMA ScoresNearest == IInv => Scored
<1> SUFFICES ASSUME IInv, pc = "done", NEW s \in Stream, NEW k \in DOMAIN grid
             PROVE  LET c == confidence[s][k]
                        away == {Abs(grid[k] - recorded[s].events[i]) :
                                   i \in DOMAIN recorded[s].events}
                    IN  IF ~aligned[s][k].valid THEN c = Zero
                        ELSE /\ \A x \in away : c.away <= x
                             /\ c.away \in IF away = {} THEN {0} ELSE away
  BY DEF Scored
<1> DEFINE g == grid[k]
           v == recorded[s].events
           a == aligned[s][k]
           c == confidence[s][k]
           e == Sort(v)
           away == {Abs(g - v[i]) : i \in DOMAIN v}
<1>1. g \in Int /\ a.valid \in BOOLEAN
  BY Aligned
<1>2. v \in Seq(Int)
  BY DEF IInv, Begun, Recording
<1>3. c = ComponentsAt(a, v, g)
  BY DEF IInv, HasScored
<1> HIDE DEF g, v, a, c, e
<1>4. DOMAIN v = 1..Len(v) /\ \A i \in DOMAIN v : v[i] \in Int
  BY <1>2
<1>5. CASE ~a.valid
  <2>1. c = Zero
    BY <1>3, <1>5 DEF ComponentsAt
  <2> QED
    BY <1>5, <2>1 DEF a, c
<1>6. CASE a.valid /\ v = << >>
  <2>1. c.away = 0
    BY <1>3, <1>6 DEF ComponentsAt
  <2>2. away = {}
    BY <1>6
  <2> HIDE DEF away
  <2> QED
    BY <1>6, <2>1, <2>2 DEF a, c, away, g, v
<1>7. CASE a.valid /\ v # << >>
  <2>1. c.away = Away(e, g)
    BY <1>3, <1>7 DEF ComponentsAt, e
  <2>2. /\ e \in Seq(Int) /\ Len(e) = Len(v) /\ NonDecreasing(e)
        /\ \A j \in 1..Len(v) : \E i \in 1..Len(v) : e[j] = v[i]
        /\ \A i \in 1..Len(v) : \E j \in 1..Len(v) : e[j] = v[i]
    BY <1>2, Sorts DEF e
  <2>3. e # << >>
    <3>1. Len(v) # 0
      BY <1>2, <1>7
    <3> QED
      BY <2>2, <3>1
  <2>4. /\ \E i \in 1..Len(e) : Away(e, g) = Abs(g - e[i])
        /\ \A i \in 1..Len(e) : Away(e, g) <= Abs(g - e[i])
    BY <1>1, <2>2, <2>3, NearestEvent
  <2>5. c.away \in away
    <3>1. PICK j \in 1..Len(v) : Away(e, g) = Abs(g - e[j])
      BY <2>2, <2>4
    <3>2. PICK i \in 1..Len(v) : e[j] = v[i]
      BY <2>2
    <3> QED
      BY <1>4, <2>1, <3>1, <3>2
  <2>6. \A x \in away : c.away <= x
    <3> SUFFICES ASSUME NEW i \in DOMAIN v PROVE c.away <= Abs(g - v[i])
      OBVIOUS
    <3>1. PICK j \in 1..Len(v) : e[j] = v[i]
      BY <1>4, <2>2
    <3> QED
      BY <2>1, <2>2, <2>4, <3>1
  <2> HIDE DEF away
  <2>7. away # {}
    BY <2>5
  <2> QED
    BY <1>7, <2>5, <2>6, <2>7 DEF a, c, away, g, v
<1> QED
  BY <1>1, <1>5, <1>6, <1>7

(* Scored, for every recording: an invalid point scores zero, and a valid  *)
(* one the distance of the event nearest to it.                            *)
THEOREM ScoresAreNearest == Spec => []Scored
BY ScoresNearest, InvariantHolds, PTL

-----------------------------------------------------------------------------
(* The grid.                                                               *)
LEMMA GridIsSound == IInv => GridWellFormed
<1> SUFFICES ASSUME IInv, pc \in {"join", "score", "done"}
             PROVE  LET n == Len(grid) IN
                    /\ grid[1] = First
                    /\ \A k \in 1..n : grid[k] \in First..Last
                    /\ (Last - grid[n]) * step.den < step.num + step.den
                    /\ step.num >= step.den =>
                         \A j, k \in 1..n - 1 :
                             /\ grid[j] < grid[j + 1]
                             /\ grid[j + 1] - grid[j] <= 2 * (grid[k + 1] - grid[k])
  BY DEF GridWellFormed, Joined
<1> DEFINE w == step.num
           d == step.den
           n == Len(grid)
           D == (Last - First) * d
           q == D \div w
           At(m) == Round(m * w, d)
<1>1. /\ First \in Int /\ Last \in Int /\ Last - First \in Nat
      /\ w \in Nat \ {0} /\ d \in Nat \ {0} /\ D \in Nat
  <2>1. /\ First \in Int /\ Last \in Int /\ First <= Last
        /\ w \in Nat \ {0} /\ d \in Nat \ {0}
    BY GridPoints
  <2>2. Last - First \in Nat
    BY <2>1
  <2> HIDE DEF d
  <2>3. D \in Nat
    BY <2>1, <2>2
  <2> QED
    BY <2>1, <2>2, <2>3
<1>2. n = q + 1 /\ \A k \in 1..n : grid[k] = First + At(k - 1)
  BY GridPoints DEF Points
<1> HIDE DEF w, d, n, D, q
<1>3. q \in Nat /\ D = w * q + (D % w) /\ D % w \in 0..w - 1
  <2>1. D \in Int
    BY <1>1
  <2>2. q \in Int /\ D = w * q + (D % w) /\ D % w \in 0..w - 1
    BY <1>1, <2>1, Quotient DEF q
  <2>3. q \in Nat
    BY <1>1 DEF q
  <2> QED
    BY <2>2, <2>3
<1>4. n \in Nat \ {0}
  BY <1>2, <1>3
<1>5. \A m \in Int : m * w \in Int /\ At(m) \in Int
  BY <1>1, Rounded
<1>6. At(0) = 0
  <2>1. 0 * w = d * 0
    BY <1>1
  <2> QED
    BY <1>1, <2>1, RoundedExact
<1>7. \A l, m \in Int : l <= m => At(l) <= At(m)
  <2> SUFFICES ASSUME NEW l \in Int, NEW m \in Int, l <= m PROVE At(l) <= At(m)
    OBVIOUS
  <2>1. l * w <= m * w
    <3>1. w * l <= w * m
      BY <1>1, Scales
    <3>2. w * l = l * w /\ w * m = m * w
      BY <1>1
    <3> QED
      BY <3>1, <3>2
  <2> QED
    BY <1>1, <1>5, <2>1, RoundedInOrder
<1>8. At(q) <= Last - First
  <2>1. q * w <= D
    <3>1. q * w = w * q /\ w * q \in Int
      BY <1>1, <1>3
    <3> QED
      BY <1>1, <1>3, <3>1
  <2>2. D = d * (Last - First)
    BY <1>1 DEF D
  <2>3. Round(D, d) = Last - First
    BY <1>1, <2>2, RoundedExact
  <2>4. q \in Int /\ D \in Int
    BY <1>1, <1>3
  <2> QED
    BY <1>1, <1>5, <2>1, <2>3, <2>4, RoundedInOrder
<1>9. grid[1] = First
  <2>1. 1 \in 1..n /\ 1 - 1 = 0
    BY <1>4
  <2>2. grid[1] = First + At(0)
    BY <1>2, <2>1
  <2> HIDE DEF At
  <2> QED
    BY <1>1, <1>6, <2>2
<1>10. ASSUME NEW k \in 1..n PROVE grid[k] \in First..Last
  <2> HIDE DEF At
  <2>1. k - 1 \in Int /\ 0 <= k - 1 /\ k - 1 <= q /\ q \in Int
    BY <1>2, <1>3
  <2>2. At(0) <= At(k - 1) /\ At(k - 1) <= At(q)
    BY <1>7, <2>1
  <2>3. At(k - 1) \in Int /\ At(q) \in Int
    BY <1>5, <2>1
  <2> QED
    BY <1>1, <1>2, <1>6, <1>8, <2>2, <2>3
<1>11. (Last - grid[n]) * d < w + d
  <2> DEFINE v == At(q)
  <2>1. grid[n] = First + v
    <3>1. n \in 1..n /\ n - 1 = q
      BY <1>2, <1>3
    <3> HIDE DEF At
    <3> QED
      BY <1>2, <3>1
  <2>2. 2 * (q * w) - d <= 2 * (d * v)
    BY <1>1, <1>3, <1>5, RoundedNear
  <2>3. v \in Int
    BY <1>3, <1>5
  <2> HIDE DEF v
  <2>4. q * w = w * q /\ w * q \in Int /\ d * v \in Int
    BY <1>1, <1>3, <2>3
  <2>5. D - d * v < w + d
    BY <1>1, <1>3, <2>2, <2>4
  <2>6. (Last - (First + v)) * d = D - d * v
    <3> DEFINE z == Last - First
    <3>1. z \in Int /\ D = z * d
      BY <1>1 DEF D
    <3>2. Last - (First + v) = z - v
      BY <1>1, <2>3
    <3> HIDE DEF z
    <3>3. (z - v) * d = z * d - d * v
      BY <1>1, <2>3, <3>1
    <3> QED
      BY <3>1, <3>2, <3>3
  <2> QED
    BY <2>1, <2>5, <2>6
<1>12. ASSUME w >= d, NEW j \in 1..n - 1, NEW k \in 1..n - 1
       PROVE  /\ grid[j] < grid[j + 1]
              /\ grid[j + 1] - grid[j] <= 2 * (grid[k + 1] - grid[k])
  <2> DEFINE f == w \div d
  <2>1. f \in Nat \ {0}
    <3>1. f \in Int /\ w = d * f + (w % d) /\ w % d \in 0..d - 1
      BY <1>1, Quotient
    <3> HIDE DEF f
    <3>2. ~ (f < 1)
      <4> SUFFICES ASSUME f < 1 PROVE FALSE
        OBVIOUS
      <4>1. d * f + d <= d * 1
        BY <1>1, <3>1, Scaled
      <4>2. d * f \in Int
        BY <1>1, <3>1
      <4> QED
        BY <1>1, <1>12, <3>1, <4>1, <4>2
    <3> QED
      BY <3>1, <3>2
  <2>2. ASSUME NEW i \in 1..n - 1
        PROVE  /\ grid[i] \in Int /\ grid[i + 1] \in Int
               /\ f <= grid[i + 1] - grid[i] /\ grid[i + 1] - grid[i] <= f + 1
    <3> DEFINE m == i - 1
    <3>1. /\ m \in Nat /\ i = m + 1 /\ i \in 1..n /\ i + 1 \in 1..n
          /\ (i + 1) - 1 = m + 1
      BY <1>4
    <3> HIDE DEF m
    <3>2. f <= At(m + 1) - At(m) /\ At(m + 1) - At(m) <= f + 1
      BY <1>1, <3>1, RoundedSteps
    <3>3. At(m) \in Int /\ At(m + 1) \in Int
      BY <1>5, <3>1
    <3> HIDE DEF At, f
    <3>4. grid[i] = First + At(m) /\ grid[i + 1] = First + At(m + 1)
      <4>1. i - 1 = m
        BY <3>1
      <4> QED
        BY <1>2, <3>1, <4>1
    <3> QED
      BY <1>1, <2>1, <3>2, <3>3, <3>4
  <2> HIDE DEF f
  <2>3. /\ grid[j] \in Int /\ grid[j + 1] \in Int
        /\ f <= grid[j + 1] - grid[j] /\ grid[j + 1] - grid[j] <= f + 1
    BY <2>2
  <2>4. /\ grid[k] \in Int /\ grid[k + 1] \in Int
        /\ f <= grid[k + 1] - grid[k] /\ grid[k + 1] - grid[k] <= f + 1
    BY <2>2
  <2> QED
    BY <2>1, <2>3, <2>4
<1> QED
  BY <1>9, <1>10, <1>11, <1>12 DEF w, d, n

LEMMA HasTypes == IInv => TypeOK
<1> SUFFICES ASSUME IInv PROVE TypeOK
  OBVIOUS
<1>1. Begun
  BY DEF IInv
<1>2. ASSUME pc # "correct" PROVE corrected \in [Stream -> Seq(Int)]
  <2>1. \A s \in Stream : corrected[s] \in Seq(Int)
    BY <1>2, Times DEF IInv
  <2>2. corrected = [s \in Stream |-> corrected[s]]
    BY <1>2 DEF IInv, HasCorrected
  <2> QED
    BY <2>1, <2>2
<1>3. ASSUME Joined, NEW s \in Stream, NEW k \in DOMAIN grid
      PROVE  LET a == aligned[s][k] IN
             /\ a.source \in 0..Len(corrected[s]) /\ a.next \in 0..Len(corrected[s])
             /\ 0 <= a.weight[1] /\ a.weight[1] < a.weight[2]
             /\ a.valid \in BOOLEAN /\ a.interp \in 0..Tolerance
  <2> DEFINE a == aligned[s][k]
             c == corrected[s]
  <2>1. /\ c \in Seq(Int) /\ a.source \in 0..Len(c)
        /\ a.next = IF Kernel[s] = "hold" \/ a.source = Len(c) THEN 0 ELSE a.source + 1
        /\ 0 <= a.weight[1] /\ a.weight[1] < a.weight[2]
        /\ a.valid \in BOOLEAN /\ a.interp \in 0..Tolerance
    BY <1>3, Aligned DEF Joined
  <2> HIDE DEF a, c
  <2>2. a.next \in 0..Len(c)
    BY <2>1
  <2> QED
    BY <2>1, <2>2 DEF a, c
<1>4. pc = "done" => \A s \in Stream : DOMAIN confidence[s] = DOMAIN grid
  BY DEF IInv, HasScored
<1> QED
  BY <1>1, <1>2, <1>3, <1>4 DEF TypeOK, Begun

(* GridInv, for every grid step: the grid spans the samples, and with      *)
(* steps of a microsecond or more it is nearly uniform.                    *)
THEOREM GridIsRight == Spec => []GridInv
<1>1. IInv => GridInv
  BY GridIsSound, HasTypes DEF GridInv
<1> QED
  BY <1>1, InvariantHolds, PTL

-----------------------------------------------------------------------------
(* The buckets.                                                            *)

(* Samples a period apart at least are j periods apart after j steps:      *)
(* there is no first step after which they are not.                        *)
LEMMA Spread ==
    ASSUME NEW h \in Seq(Int), NEW period \in Nat,
           \A i \in 1..Len(h) - 1 : h[i + 1] - h[i] >= period,
           NEW l \in 1..Len(h), NEW u \in l..Len(h)
    PROVE  period * (u - l) <= h[u] - h[l]
<1> DEFINE Short == {i \in l..Len(h) : ~ (period * (i - l) <= h[i] - h[l])}
<1>1. Len(h) \in Nat /\ \A i \in 1..Len(h) : h[i] \in Int
  OBVIOUS
<1>2. ASSUME Short # {} PROVE FALSE
  <2>1. IsFiniteSet(Short) /\ Short \in SUBSET Int
    <3>1. Short \in SUBSET (1..Len(h)) /\ IsFiniteSet(1..Len(h))
      BY <1>1, UpTo
    <3> HIDE DEF Short
    <3>2. IsFiniteSet(Short)
      BY <3>1, FS_Subset
    <3>3. 1..Len(h) \in SUBSET Int
      OBVIOUS
    <3> QED
      BY <3>1, <3>2, <3>3
  <2>2. PICK i \in Short : \A j \in Short : i <= j
    <3> HIDE DEF Short
    <3> QED
      BY <1>2, <2>1, LeastOf
  <2>3. i \in l..Len(h) /\ ~ (period * (i - l) <= h[i] - h[l])
    BY <2>2
  <2>4. i # l
    <3>1. period * (l - l) = 0 /\ h[l] - h[l] = 0
      BY <1>1
    <3> QED
      BY <2>3, <3>1
  <2> DEFINE j == i - 1
  <2>5. /\ j \in l..Len(h) /\ j \in 1..Len(h) - 1 /\ j < i /\ i = j + 1
        /\ i \in 1..Len(h) /\ j \in 1..Len(h)
    BY <1>1, <2>3, <2>4
  <2>6. j \notin Short
    BY <2>1, <2>2, <2>5
  <2> HIDE DEF j
  <2>7. period * (j - l) <= h[j] - h[l]
    BY <2>5, <2>6
  <2> HIDE DEF Short
  <2>8. h[j + 1] - h[j] >= period
    BY <2>5
  <2>9. period * (i - l) = period * (j - l) + period
    BY <2>5
  <2>10. /\ h[i] \in Int /\ h[j] \in Int /\ h[l] \in Int
         /\ period * (j - l) \in Int
    BY <1>1, <2>5
  <2> QED
    BY <2>3, <2>5, <2>7, <2>8, <2>9, <2>10
<1> QED
  BY <1>2

LEMMA Count ==
    ASSUME NEW l \in Int, NEW m \in Nat
    PROVE  Cardinality(l + 1..l + m) = m
<1>1. l + 1 \in Int /\ l + m \in Int
  OBVIOUS
<1>2. Cardinality(l + 1..l + m) = IF l + 1 > l + m THEN 0 ELSE (l + m) - (l + 1) + 1
  BY <1>1, FS_Interval
<1> QED
  BY <1>2

LEMMA FramesFit ==
    ASSUME NEW a \in Seq(Int), NEW h \in Seq(Int), NonDecreasing(h),
           NEW k \in 1..Len(a) - 1,
           NEW l \in 0..Len(h), NEW u \in l..Len(h),
           \A i \in 1..Len(h) : a[k] <= h[i] /\ h[i] < a[k + 1] <=> i \in l + 1..u,
           NEW length \in Nat, NEW period \in Nat \ {0}, Rated(a, h, length, period),
           NEW R \in Nat, R = ComputeR(length, period)
    PROVE  u - l <= R
<1>1. length <= period * R /\ period * R \in Int
  <2> DEFINE x == length + period - 1
  <2>1. x \in Int
    OBVIOUS
  <2>2. x = period * R + (x % period) /\ x % period \in 0..period - 1
    BY <2>1, Quotient DEF ComputeR
  <2>3. period * R \in Int
    OBVIOUS
  <2> QED
    BY <2>2, <2>3
<1> SUFFICES ASSUME u - l > R PROVE FALSE
  OBVIOUS
<1>2. /\ Len(h) \in Nat /\ \A i \in 1..Len(h) : h[i] \in Int
      /\ a[k] \in Int /\ a[k + 1] \in Int
  OBVIOUS
<1>3. l + 1 \in 1..Len(h) /\ u \in l + 1..Len(h) /\ u \in 1..Len(h)
  BY <1>2
<1>4. a[k] <= h[l + 1] /\ h[u] < a[k + 1]
  BY <1>3
<1>5. a[k + 1] - a[k] <= length
  BY DEF Rated
<1>6. period * (u - (l + 1)) <= h[u] - h[l + 1]
  <2>1. \A i \in 1..Len(h) - 1 : h[i + 1] - h[i] >= period
    BY DEF Rated
  <2> QED
    BY <1>3, <2>1, Spread
<1>7. period * R <= period * (u - (l + 1))
  <2>1. R \in Int /\ u - (l + 1) \in Int /\ R <= u - (l + 1) /\ period \in Nat
    OBVIOUS
  <2> QED
    BY <2>1, Scales
<1> DEFINE A == a[k]
           B == a[k + 1]
           X == h[l + 1]
           Y == h[u]
           P == period * R
           Q == period * (u - (l + 1))
<1>8. /\ A \in Int /\ B \in Int /\ X \in Int /\ Y \in Int /\ P \in Int /\ Q \in Int
      /\ A <= X /\ Y < B /\ B - A <= length /\ Q <= Y - X /\ P <= Q /\ length <= P
  <2>1. X \in Int /\ Y \in Int
    BY <1>2, <1>3
  <2>2. Q \in Int
    OBVIOUS
  <2>3. A \in Int /\ B \in Int /\ P \in Int
    BY <1>1, <1>2
  <2> QED
    BY <1>1, <1>4, <1>5, <1>6, <1>7, <2>1, <2>2, <2>3, Zenon
<1> HIDE DEF A, B, X, Y, P, Q
<1> QED
  BY <1>8

(* What BucketsFaithful says of the bucket b of frame k.                    *)
FaithfulTo(a, h, R, k, b) ==
    LET frame == {i \in DOMAIN h : a[k] <= h[i] /\ h[i] < a[k + 1]}
        held == {b.index[i] : i \in 1..R}
    IN  /\ b.valid <=> frame # {}
        /\ b.valid => held \subseteq frame /\ Cardinality(held) = b.count
        /\ (\/ Cardinality(frame) <= R
            \/ \E length \in 1..4, period \in 1..3 :
                 Rated(a, h, length, period) /\ R = ComputeR(length, period))
           => b.count = Cardinality(frame)
        /\ \A i \in held, j \in frame \ held : i < j

LEMMA BucketIsFaithful ==
    ASSUME NEW a \in Seq(Int), NonDecreasing(a), NEW h \in Seq(Int), NonDecreasing(h),
           NEW R \in Nat \ {0}, NEW k \in 1..Len(a) - 1
    PROVE  FaithfulTo(a, h, R, k, Bucket(a, h, R, k))
<1> DEFINE b == Bucket(a, h, R, k)
           frame == {i \in DOMAIN h : a[k] <= h[i] /\ h[i] < a[k + 1]}
           held == {b.index[i] : i \in 1..R}
           l == SearchLeft(h, a[k])
           u == SearchLeft(h, a[k + 1])
           m == IF u - l > R THEN R ELSE u - l
<1>1. a[k] \in Int /\ a[k + 1] \in Int /\ a[k] <= a[k + 1]
  BY DEF NonDecreasing
<1>2. Len(h) \in Nat /\ DOMAIN h = 1..Len(h) /\ \A i \in 1..Len(h) : h[i] \in Int
  OBVIOUS
<1>3. /\ l \in 0..Len(h) /\ \A i \in 1..Len(h) : h[i] < a[k] <=> i <= l
      /\ u \in 0..Len(h) /\ \A i \in 1..Len(h) : h[i] < a[k + 1] <=> i <= u
  BY <1>1, LeftOf
<1>4. b = LET n == Clip(Cardinality(l + 1..u), 0, R)
          IN  [count |-> n, valid |-> n > 0,
               index |-> [i \in 1..R |-> IF n = 0 THEN 1 ELSE (l + 1) + Clip(i, 1, n) - 1]]
  BY DEF Bucket, Members
<1> HIDE DEF b, held, l, u
<1>5. l <= u
  <2> SUFFICES ASSUME u < l PROVE FALSE
    BY <1>3
  <2>1. l \in 1..Len(h)
    BY <1>3
  <2>2. h[l] < a[k] /\ ~ (h[l] < a[k + 1])
    BY <1>3, <2>1
  <2> QED
    BY <1>1, <1>2, <2>1, <2>2
<1>6. \A i \in 1..Len(h) : a[k] <= h[i] /\ h[i] < a[k + 1] <=> i \in l + 1..u
  <2> TAKE i \in 1..Len(h)
  <2>1. h[i] \in Int /\ l \in Int /\ u \in Int
    BY <1>2, <1>3
  <2>2. a[k] <= h[i] <=> ~ (i <= l)
    BY <1>1, <1>3, <2>1
  <2>3. h[i] < a[k + 1] <=> i <= u
    BY <1>3
  <2> QED
    BY <2>1, <2>2, <2>3
<1>7. frame = l + 1..u
  <2>1. \A i : i \in l + 1..u => i \in 1..Len(h)
    BY <1>2, <1>3
  <2> QED
    BY <1>2, <1>6, <2>1
<1> HIDE DEF frame
<1>8. u - l \in Nat /\ u = l + (u - l) /\ l \in Int
  BY <1>3, <1>5
<1>9. Cardinality(l + 1..u) = u - l /\ Cardinality(frame) = u - l
  BY <1>7, <1>8, Count
<1>10. /\ m \in Nat /\ m <= R /\ m <= u - l /\ (m = 0 <=> u = l)
       /\ u - l <= R => m = u - l
  BY <1>8
<1>11. Clip(Cardinality(l + 1..u), 0, R) = m
  BY <1>8, <1>9 DEF Clip
<1> HIDE DEF m
<1>12. /\ b.count = m
       /\ b.index = [i \in 1..R |-> IF m = 0 THEN 1 ELSE (l + 1) + Clip(i, 1, m) - 1]
  BY <1>4, <1>11
<1>13. b.valid <=> m > 0
  <2>1. b.valid = (m > 0)
    BY <1>4, <1>11
  <2> QED
    BY <2>1
<1>14. ASSUME m > 0 PROVE held = l + 1..l + m
  <2>1. \A i \in 1..R : b.index[i] = l + Clip(i, 1, m)
    <3> TAKE i \in 1..R
    <3>1. Clip(i, 1, m) \in Int
      BY <1>10 DEF Clip
    <3> QED
      BY <1>8, <1>12, <1>14, <3>1
  <2>2. \A i \in 1..R : Clip(i, 1, m) \in 1..m
    BY <1>10, <1>14 DEF Clip
  <2>3. ASSUME NEW x \in l + 1..l + m PROVE \E i \in 1..R : b.index[i] = x
    <3> DEFINE i == x - l
    <3>1. i \in 1..m /\ i \in 1..R /\ x = l + i
      BY <1>8, <1>10
    <3> HIDE DEF i
    <3>2. Clip(i, 1, m) = i
      BY <1>10, <3>1 DEF Clip
    <3> QED
      BY <2>1, <3>1, <3>2
  <2>4. ASSUME NEW i \in 1..R PROVE b.index[i] \in l + 1..l + m
    <3>1. b.index[i] = l + Clip(i, 1, m) /\ Clip(i, 1, m) \in 1..m
      BY <2>1, <2>2
    <3> QED
      BY <1>8, <1>10, <3>1
  <2> QED
    BY <2>3, <2>4 DEF held
<1>15. b.valid <=> frame # {}
  <2>1. m > 0 <=> l < u
    BY <1>8, <1>10
  <2>2. l < u => l + 1 \in l + 1..u
    BY <1>8
  <2>3. ~ (l < u) => l + 1..u = {}
    BY <1>8
  <2> QED
    BY <1>7, <1>13, <2>1, <2>2, <2>3
<1>16. ASSUME b.valid PROVE held \subseteq frame /\ Cardinality(held) = b.count
  <2>1. held = l + 1..l + m /\ m > 0
    BY <1>13, <1>14, <1>16
  <2>2. Cardinality(held) = m
    BY <1>8, <1>10, <2>1, Count
  <2>3. l + m <= u
    BY <1>8, <1>10
  <2>4. \A i \in l + 1..l + m : i \in l + 1..u
    BY <1>8, <1>10, <2>3
  <2> QED
    BY <1>7, <1>12, <2>1, <2>2, <2>4
<1>17. ASSUME \/ Cardinality(frame) <= R
              \/ \E length \in 1..4, period \in 1..3 :
                   Rated(a, h, length, period) /\ R = ComputeR(length, period)
       PROVE  b.count = Cardinality(frame)
  <2>1. u - l <= R
    <3>1. CASE Cardinality(frame) <= R
      BY <1>9, <3>1
    <3>2. CASE \E length \in 1..4, period \in 1..3 :
                 Rated(a, h, length, period) /\ R = ComputeR(length, period)
      <4>1. PICK length \in 1..4, period \in 1..3 :
                   Rated(a, h, length, period) /\ R = ComputeR(length, period)
        BY <3>2
      <4>2. length \in Nat /\ period \in Nat \ {0} /\ u \in l..Len(h) /\ R \in Nat
        BY <1>3, <1>5
      <4> QED
        BY <1>3, <1>6, <4>1, <4>2, FramesFit
    <3> QED
      BY <1>17, <3>1, <3>2
  <2> QED
    BY <1>9, <1>10, <1>12, <2>1
<1>18. ASSUME NEW i \in held, NEW j \in frame \ held PROVE i < j
  <2>1. m > 0
    BY <1>13, <1>15
  <2>2. held = l + 1..l + m
    BY <1>14, <2>1
  <2>3. i \in l + 1..l + m /\ j \in l + 1..u /\ j \notin l + 1..l + m
    BY <1>7, <2>2
  <2> QED
    BY <1>8, <1>10, <2>3
<1> QED
  BY <1>15, <1>16, <1>17, <1>18 DEF FaithfulTo, b, frame, held

LEMMA BucketsHold == IInv => BucketsFaithful
<1> SUFFICES ASSUME IInv, pc = "grid", NEW s \in Stream, NEW t \in Stream, NEW R \in 1..3,
                    InOrder(s),
                    NEW k \in DOMAIN Buckets(corrected[s], corrected[t], R)
             PROVE  FaithfulTo(corrected[s], Sort(corrected[t]), R, k,
                               Buckets(corrected[s], corrected[t], R)[k])
  <2>1. BucketsFaithful <=>
          (pc = "grid" => \A s, t \in Stream, R \in 1..3 :
             (InOrder(s) /\ Len(corrected[s]) >= 2) =>
               \A k \in DOMAIN Buckets(corrected[s], corrected[t], R) :
                 FaithfulTo(corrected[s], Sort(corrected[t]), R, k,
                            Buckets(corrected[s], corrected[t], R)[k]))
    BY Zenon DEF BucketsFaithful, FaithfulTo
  <2> QED
    BY <2>1, Zenon
<1> DEFINE a == corrected[s]
           h == Sort(corrected[t])
<1>1. a \in Seq(Int) /\ NonDecreasing(a)
  BY Times DEF IInv
<1>2. h \in Seq(Int) /\ NonDecreasing(h)
  <2>1. corrected[t] \in Seq(Int)
    BY Times DEF IInv
  <2> QED
    BY <2>1, Sorts
<1>3. k \in 1..Len(a) - 1 /\ Buckets(corrected[s], corrected[t], R)[k] = Bucket(a, h, R, k)
  BY DEF Buckets
<1>4. R \in Nat \ {0}
  OBVIOUS
<1> HIDE DEF a, h
<1>5. FaithfulTo(a, h, R, k, Bucket(a, h, R, k))
  BY <1>1, <1>2, <1>3, <1>4, BucketIsFaithful
<1> QED
  BY <1>3, <1>5 DEF a, h

(* BucketsFaithful, for every recording: a bucket holds the first samples  *)
(* of its frame, and all of them if R is what the rates call for.          *)
THEOREM BucketsAreFaithful == Spec => []BucketsFaithful
BY BucketsHold, InvariantHolds, PTL
=============================================================================

---------------------------- MODULE ForwardProofs ----------------------------
(***************************************************************************)
(* What the estimator does with any evidence, and what the forward clock   *)
(* and the estimator do together, for any clocks, schedules and events.    *)
(***************************************************************************)
EXTENDS Forward, ArraysProofs

-----------------------------------------------------------------------------
(* The stamps: running maxima of a sequence.                               *)
LEMMA MaxOf ==
    ASSUME NEW S \in SUBSET Int, IsFiniteSet(S), S # {}
    PROVE  Max(S) \in S /\ \A a \in S : a <= Max(S)
<1> DEFINE T == {-a : a \in S}
<1>1. T \in SUBSET Int /\ IsFiniteSet(T) /\ T # {}
  <2> DEFINE f == [a \in S |-> -a]
  <2>1. f \in Surjection(S, T)
    BY DEF Surjection
  <2>2. T \in SUBSET Int /\ T # {}
    OBVIOUS
  <2> HIDE DEF T, f
  <2> QED
    BY <2>1, <2>2, FS_Surjection
<1>2. PICK b \in T : \A c \in T : b <= c
  <2> HIDE DEF T
  <2> QED
    BY <1>1, LeastOf
<1>3. PICK a \in S : b = -a
  BY <1>2
<1>4. \A c \in S : c <= a
  <2> TAKE c \in S
  <2>1. -c \in T
    OBVIOUS
  <2>2. b <= -c
    BY <1>2, <2>1
  <2> QED
    BY <1>3, <2>2
<1> QED
  BY <1>3, <1>4 DEF Max

LEMMA RunningMaxIs ==
    ASSUME NEW s \in Seq(Int)
    PROVE  /\ RunningMax(s) \in Seq(Int) /\ DOMAIN RunningMax(s) = DOMAIN s
           /\ \A i \in DOMAIN s : /\ \A j \in 1..i : s[j] <= RunningMax(s)[i]
                                  /\ \E j \in 1..i : RunningMax(s)[i] = s[j]
           /\ \A i, j \in DOMAIN s : i <= j => RunningMax(s)[i] <= RunningMax(s)[j]
<1> DEFINE n == Len(s)
           m == RunningMax(s)
           before(i) == {s[j] : j \in 1..i}
<1>1. n \in Nat /\ DOMAIN s = 1..n /\ \A i \in 1..n : s[i] \in Int
  OBVIOUS
<1>2. DOMAIN m = 1..n /\ \A i \in 1..n : m[i] = Max(before(i))
  BY <1>1 DEF RunningMax
<1>3. ASSUME NEW i \in 1..n
      PROVE  m[i] \in before(i) /\ \A a \in before(i) : a <= m[i]
  <2>1. before(i) \in SUBSET Int /\ before(i) # {}
    BY <1>1
  <2>2. IsFiniteSet(before(i))
    <3> DEFINE f == [j \in 1..i |-> s[j]]
    <3>1. f \in Surjection(1..i, before(i))
      BY DEF Surjection
    <3>2. IsFiniteSet(1..i)
      BY UpTo
    <3> QED
      BY <3>1, <3>2, FS_Surjection
  <2> HIDE DEF before, m
  <2> QED
    BY <1>2, <2>1, <2>2, MaxOf
<1> HIDE DEF m
<1>4. \A i \in 1..n : /\ \A j \in 1..i : s[j] <= m[i]
                      /\ \E j \in 1..i : m[i] = s[j]
  BY <1>3
<1>5. \A i \in 1..n : m[i] \in Int
  BY <1>1, <1>4
<1>6. \A i, j \in 1..n : i <= j => m[i] <= m[j]
  <2> SUFFICES ASSUME NEW i \in 1..n, NEW j \in 1..n, i <= j PROVE m[i] <= m[j]
    OBVIOUS
  <2>1. PICK k \in 1..i : m[i] = s[k]
    BY <1>4
  <2>2. k \in 1..j
    OBVIOUS
  <2> QED
    BY <1>4, <2>1, <2>2
<1>7. m \in Seq(Int)
  <2>1. m = [i \in 1..n |-> m[i]]
    BY <1>2 DEF m, RunningMax
  <2> QED
    BY <1>1, <1>5, <2>1
<1> QED
  BY <1>1, <1>2, <1>4, <1>6, <1>7 DEF m

LEMMA NudgedIs ==
    ASSUME NEW m \in Seq(Int), \A i, j \in DOMAIN m : i <= j => m[i] <= m[j]
    PROVE  /\ Nudged(m) \in Seq(Int) /\ DOMAIN Nudged(m) = DOMAIN m
           /\ m # << >> => Nudged(m)[1] = m[1]
           /\ \A i \in DOMAIN m : m[i] <= Nudged(m)[i] /\ Nudged(m)[i] <= m[i] + i - 1
<1>1. Len(m) \in Nat /\ DOMAIN m = 1..Len(m) /\ \A i \in 1..Len(m) : m[i] \in Int
  OBVIOUS
<1>2. \A i \in 1..Len(m) :
        Nudged(m)[i] = IF i > 1 /\ m[i] <= m[i - 1] THEN m[i] + (i - 1) ELSE m[i]
  BY <1>1 DEF Nudged
<1>3. DOMAIN Nudged(m) = 1..Len(m)
  BY <1>1 DEF Nudged
<1>4. \A i \in 1..Len(m) : Nudged(m)[i] \in Int
  BY <1>1, <1>2
<1>5. Nudged(m) \in Seq(Int)
  <2>1. Nudged(m) = [i \in 1..Len(m) |-> Nudged(m)[i]]
    BY <1>1 DEF Nudged
  <2> QED
    BY <1>1, <1>4, <2>1
<1>6. m # << >> => Nudged(m)[1] = m[1]
  BY <1>1, <1>2
<1>7. \A i \in 1..Len(m) : m[i] <= Nudged(m)[i] /\ Nudged(m)[i] <= m[i] + i - 1
  BY <1>1, <1>2
<1> QED
  BY <1>1, <1>3, <1>5, <1>6, <1>7

(* Ties are nudged and what they pass is carried along: nothing goes back, *)
(* nothing is early, and nothing is later than by its index.               *)
LEMMA EnforcedIs ==
    ASSUME NEW s \in Seq(Int)
    PROVE  LET m == RunningMax(s)
               e == Enforced(s)
               shift == IF m # << >> /\ m[1] < 0 THEN m[1] ELSE 0
           IN  /\ DOMAIN e = DOMAIN s
               /\ \A i, j \in DOMAIN e : i <= j => e[i] <= e[j]
               /\ \A i \in DOMAIN e : /\ e[i] >= 0
                                      /\ e[i] + shift \in m[i]..m[i] + i - 1
<1> DEFINE n == Len(s)
           m == RunningMax(s)
           u == Nudged(m)
           e == RunningMax(u)
           shift == IF m # << >> /\ m[1] < 0 THEN m[1] ELSE 0
<1>1. n \in Nat /\ DOMAIN s = 1..n
  OBVIOUS
<1>2. /\ m \in Seq(Int) /\ DOMAIN m = 1..n
      /\ \A i, j \in 1..n : i <= j => m[i] <= m[j]
  BY <1>1, RunningMaxIs
<1>3. Enforced(s) = IF s # << >> /\ e[1] < 0 THEN [i \in DOMAIN s |-> e[i] - e[1]] ELSE e
  BY DEF Enforced
<1> HIDE DEF m, e
<1>4. /\ u \in Seq(Int) /\ DOMAIN u = 1..n
      /\ m # << >> => u[1] = m[1]
      /\ \A i \in 1..n : m[i] <= u[i] /\ u[i] <= m[i] + i - 1
  BY <1>2, NudgedIs
<1> HIDE DEF u
<1>5. /\ e \in Seq(Int) /\ DOMAIN e = 1..n
      /\ \A i \in 1..n : /\ \A j \in 1..i : u[j] <= e[i]
                         /\ \E j \in 1..i : e[i] = u[j]
      /\ \A i, j \in 1..n : i <= j => e[i] <= e[j]
  <2>1. /\ RunningMax(u) \in Seq(Int) /\ DOMAIN RunningMax(u) = DOMAIN u
        /\ \A i \in DOMAIN u : /\ \A j \in 1..i : u[j] <= RunningMax(u)[i]
                               /\ \E j \in 1..i : RunningMax(u)[i] = u[j]
        /\ \A i, j \in DOMAIN u : i <= j => RunningMax(u)[i] <= RunningMax(u)[j]
    BY <1>4, RunningMaxIs
  <2>2. DOMAIN u = 1..n /\ e = RunningMax(u)
    BY <1>4 DEF e
  <2> QED
    BY <2>1, <2>2
<1>6. \A i \in 1..n : m[i] \in Int /\ u[i] \in Int /\ e[i] \in Int
  BY <1>2, <1>4, <1>5
<1>7. \A i \in 1..n : m[i] <= e[i] /\ e[i] <= m[i] + i - 1
  <2> TAKE i \in 1..n
  <2>1. u[i] <= e[i] /\ m[i] <= u[i]
    BY <1>4, <1>5
  <2>2. PICK j \in 1..i : e[i] = u[j]
    BY <1>5
  <2>3. j \in 1..n /\ j <= i /\ m[j] <= m[i] /\ u[j] <= m[j] + j - 1
    BY <1>2, <1>4
  <2> QED
    BY <1>6, <2>1, <2>2, <2>3
<1>8. (s # << >> <=> n # 0) /\ (m # << >> <=> n # 0)
  BY <1>1, <1>2
<1>9. n # 0 => e[1] = m[1]
  <2>1. n # 0 => 1 \in 1..n
    BY <1>1
  <2> QED
    BY <1>6, <1>7, <2>1
<1>10. CASE n # 0 /\ e[1] < 0
  <2>1. /\ Enforced(s) = [i \in 1..n |-> e[i] - e[1]] /\ shift = e[1] /\ 1 \in 1..n
    BY <1>1, <1>3, <1>8, <1>9, <1>10
  <2>2. \A i \in 1..n : Enforced(s)[i] = e[i] - e[1] /\ e[1] <= e[i]
    BY <1>5, <2>1
  <2> HIDE DEF shift
  <2>3. \A i, j \in 1..n : i <= j => Enforced(s)[i] <= Enforced(s)[j]
    BY <1>5, <1>6, <2>1, <2>2
  <2>4. \A i \in 1..n : Enforced(s)[i] >= 0 /\ Enforced(s)[i] + shift \in m[i]..m[i] + i - 1
    BY <1>6, <1>7, <2>1, <2>2
  <2> QED
    BY <1>1, <2>1, <2>3, <2>4 DEF shift, m
<1>11. CASE ~(n # 0 /\ e[1] < 0)
  <2>1. Enforced(s) = e /\ shift = 0
    BY <1>3, <1>8, <1>9, <1>11
  <2> HIDE DEF shift
  <2>2. \A i \in 1..n : e[i] >= 0
    <3> TAKE i \in 1..n
    <3>1. 1 \in 1..n /\ n # 0 /\ 1 <= i
      BY <1>1
    <3>2. e[1] <= e[i]
      BY <1>5, <3>1
    <3> QED
      BY <1>6, <1>11, <3>1, <3>2
  <2>3. \A i \in 1..n : e[i] + shift \in m[i]..m[i] + i - 1
    BY <1>6, <1>7, <2>1
  <2> QED
    BY <1>1, <1>5, <2>1, <2>2, <2>3 DEF shift, m
<1> QED
  BY <1>10, <1>11
-----------------------------------------------------------------------------
(* The stream, from its schedule to what is left of it.                    *)

StreamInv ==
    /\ due \in Seq(Int)
    /\ kept \subseteq DOMAIN stamps
    /\ pc = "stamp" => kept = {}
    /\ pc # "stamp" => stamps = Enforced([i \in DOMAIN due |-> Round(due[i], Scale)])

LEMMA ScheduleRounded ==
    ASSUME NEW d \in Seq(Int)
    PROVE  [i \in DOMAIN d |-> Round(d[i], Scale)] \in Seq(Int)
<1>1. Len(d) \in Nat /\ DOMAIN d = 1..Len(d) /\ \A i \in 1..Len(d) : d[i] \in Int
  OBVIOUS
<1>2. \A i \in 1..Len(d) : Round(d[i], Scale) \in Int
  BY <1>1, Rounded, ForwardAssumption
<1> QED
  BY <1>1, <1>2

LEMMA StreamInit == ForwardInit => StreamInv
BY ForwardAssumption DEF ForwardInit, StreamInv

LEMMA StreamStep == StreamInv /\ [ForwardNext]_forwardVars => StreamInv'
<1> SUFFICES ASSUME StreamInv, [ForwardNext]_forwardVars PROVE StreamInv'
  OBVIOUS
<1> USE DEF StreamInv
<1>1. CASE Stamp
  BY <1>1 DEF Stamp
<1>2. CASE Lose
  BY <1>2 DEF Lose, Keep, vars
<1>3. CASE Lost
  BY <1>3 DEF Lost, stream
<1>4. CASE Observe
  BY <1>4 DEF Observe, stream
<1>5. CASE Next /\ UNCHANGED <<stream, world>>
  <2>1. pc # "stamp" /\ pc' # "stamp"
    BY <1>5 DEF Next, Sample, FitAll, FitBest, Refit, Split, Predict
  <2> QED
    BY <1>5, <2>1 DEF stream
<1>6. CASE UNCHANGED forwardVars
  BY <1>6 DEF forwardVars, stream, vars
<1> QED
  BY <1>1, <1>2, <1>3, <1>4, <1>5, <1>6 DEF ForwardNext

(* StampsConform, for every schedule and every loss: stamps are ordered    *)
(* and not negative, and none is early or late by more than its index.     *)
THEOREM StampsCorrect == ForwardSpec => []StampsConform
<1>1. StreamInv => StampsConform
  <2> SUFFICES ASSUME StreamInv, pc # "stamp" PROVE StampsConform
    BY DEF StampsConform
  <2> DEFINE s == [i \in DOMAIN due |-> Round(due[i], Scale)]
  <2>1. s \in Seq(Int) /\ DOMAIN s = DOMAIN due
    BY ScheduleRounded DEF StreamInv
  <2>2. stamps = Enforced(s) /\ kept \subseteq DOMAIN stamps
    BY DEF StreamInv
  <2> HIDE DEF s
  <2> DEFINE m == RunningMax(s)
             shift == IF m # << >> /\ m[1] < 0 THEN m[1] ELSE 0
  <2>3. /\ DOMAIN stamps = DOMAIN s
        /\ \A i, j \in DOMAIN stamps : i <= j => stamps[i] <= stamps[j]
        /\ \A i \in DOMAIN stamps : /\ stamps[i] >= 0
                                    /\ stamps[i] + shift \in m[i]..m[i] + i - 1
    BY <2>1, <2>2, EnforcedIs
  <2> QED
    BY <2>1, <2>2, <2>3 DEF StampsConform, s
<1>2. ForwardSpec => []StreamInv
  BY StreamInit, StreamStep, PTL DEF ForwardSpec
<1> QED
  BY <1>1, <1>2, PTL

-----------------------------------------------------------------------------
(* What the estimator is given.                                            *)

Estimating == pc \in {"sample", "refit", "split", "predict", "done", "raised"}

Inputs == /\ x \in Seq(Int) /\ y \in Seq(Int) /\ Len(x) = Len(y)
          /\ Len(x) \in Nat \ {0} /\ count \in Nat

LEMMA Events ==
    ASSUME Inputs
    PROVE  /\ Event = 1..Len(x) /\ IsFiniteSet(Event) /\ Cardinality(Event) = Len(x)
           /\ \A i \in Event : x[i] \in Int /\ y[i] \in Int
<1>1. Len(x) \in Nat /\ Event = 1..Len(x)
  BY DEF Inputs, Event
<1>2. IsFiniteSet(1..Len(x)) /\ Cardinality(1..Len(x)) = Len(x)
  <2> DEFINE n == Len(x)
  <2>1. n \in Nat
    BY <1>1
  <2> HIDE DEF n
  <2>2. IsFiniteSet(1..n) /\ Cardinality(1..n) = n
    BY <2>1, UpTo
  <2> QED
    BY <2>2 DEF n
<1>3. \A i \in 1..Len(x) : x[i] \in Int /\ y[i] \in Int
  BY DEF Inputs
<1> QED
  BY <1>1, <1>2, <1>3

-----------------------------------------------------------------------------
(* The segments: how the events are dealt out.                             *)

Pieces ==
    LET half == Cardinality(Event) \div 2
    IN  IF half = 0 THEN 1 ELSE Least(count, half)

SegmentInv ==
    /\ pc \in {"sample", "refit", "raised"} => count = 0
    /\ pc \in {"split", "predict"} => count # 0
    /\ pc \in {"predict", "done"} /\ count # 0 =>
         segments = [s \in 1..Pieces |-> Segment(Pieces, s)]
    /\ pc = "done" /\ count # 0 => served = [i \in Event |-> Serving(x[i])]

LEMMA LeastIs ==
    ASSUME NEW a \in Int, NEW b \in Int
    PROVE  Least(a, b) = IF a <= b THEN a ELSE b
<1> DEFINE m == IF a <= b THEN a ELSE b
<1>1. m \in {a, b} /\ \A c \in {a, b} : m <= c
  OBVIOUS
<1>2. \A k \in {a, b} : (\A c \in {a, b} : k <= c) => k = m
  BY <1>1
<1> HIDE DEF m
<1>3. (CHOOSE k \in {a, b} : \A c \in {a, b} : k <= c) = m
  BY <1>1, <1>2
<1> QED
  BY <1>3 DEF Least, Min, m

(* As many pieces as there are pairs of events at most, or one.            *)
LEMMA PieceCount ==
    ASSUME Inputs, count # 0
    PROVE  /\ Pieces \in Nat \ {0}
           /\ Pieces <= Len(x)
           /\ Len(x) >= 2 => 2 * Pieces <= Len(x)
<1> DEFINE n == Len(x)
           half == n \div 2
<1>1. n \in Nat \ {0} /\ count \in Nat \ {0}
  BY DEF Inputs
<1>2. half \in Int /\ n % 2 \in 0..1 /\ n = 2 * half + (n % 2)
  <2>1. n \in Int /\ 2 \in Nat \ {0}
    BY <1>1
  <2> HIDE DEF n
  <2>2. n \div 2 \in Int /\ n % 2 \in 0..2 - 1 /\ n = 2 * (n \div 2) + (n % 2)
    BY <2>1, Quotient
  <2> QED
    BY <2>2
<1>3. Pieces = IF half = 0 THEN 1 ELSE Least(count, half)
  BY Events DEF Pieces
<1> HIDE DEF n, half
<1>4. Least(count, half) = IF count <= half THEN count ELSE half
  BY <1>1, <1>2, LeastIs
<1> QED
  BY <1>1, <1>2, <1>3, <1>4 DEF n

(* The last events of the pieces.                                          *)
Ends(n, k) == [s \in 0..k |-> (s * n) \div k]

LEMMA Dealt ==
    ASSUME NEW n \in Nat, NEW k \in Nat \ {0}, k <= n
    PROVE  /\ Ends(n, k)[0] = 0 /\ Ends(n, k)[k] = n
           /\ \A s \in 0..k : Ends(n, k)[s] \in 0..n
           /\ \A s \in 1..k : /\ Ends(n, k)[s - 1] + 1 <= Ends(n, k)[s]
                              /\ 2 * k <= n => Ends(n, k)[s - 1] + 2 <= Ends(n, k)[s]
           /\ \A r, s \in 0..k : r <= s => Ends(n, k)[r] <= Ends(n, k)[s]
<1> DEFINE q(s) == (s * n) \div k
           r(s) == (s * n) % k
<1>1. \A s \in 0..k : q(s) \in Int /\ r(s) \in 0..k - 1 /\ s * n \in Int
                      /\ s * n = k * q(s) + r(s)
  <2> TAKE s \in 0..k
  <2>1. s * n \in Int
    OBVIOUS
  <2> DEFINE a == s * n
  <2>2. a \in Int
    BY <2>1
  <2> HIDE DEF a
  <2>3. a \div k \in Int /\ a % k \in 0..k - 1 /\ a = k * (a \div k) + (a % k)
    BY <2>2, Quotient
  <2> QED
    BY <2>1, <2>3 DEF a
<1>2. \A s \in 0..k : Ends(n, k)[s] = q(s)
  BY DEF Ends
<1> HIDE DEF q, r
<1>3. \A a \in Int, b \in Int, u \in 0..k - 1, v \in 0..k - 1 :
         k * a + u <= k * b + v => a <= b
  <2> TAKE a \in Int, b \in Int, u \in 0..k - 1, v \in 0..k - 1
  <2> SUFFICES ASSUME b < a PROVE ~(k * a + u <= k * b + v)
    OBVIOUS
  <2>1. k * b + k <= k * a
    BY Scaled
  <2>2. k * a \in Int /\ k * b \in Int
    OBVIOUS
  <2> QED
    BY <2>1, <2>2
<1>4. \A s, t \in 0..k : s <= t => q(s) <= q(t)
  <2> SUFFICES ASSUME NEW s \in 0..k, NEW t \in 0..k, s <= t PROVE q(s) <= q(t)
    OBVIOUS
  <2>1. s * n <= t * n
    <3>1. (t - s) * n >= 0
      <4>1. t - s \in Nat
        OBVIOUS
      <4> QED
        BY <4>1
    <3>2. (t - s) * n = t * n - s * n
      OBVIOUS
    <3> QED
      BY <1>1, <3>1, <3>2
  <2>2. /\ q(s) \in Int /\ r(s) \in 0..k - 1 /\ s * n = k * q(s) + r(s)
        /\ q(t) \in Int /\ r(t) \in 0..k - 1 /\ t * n = k * q(t) + r(t)
    BY <1>1
  <2> QED
    BY <1>3, <2>1, <2>2
<1>5. q(0) = 0
  <2>1. q(0) \in Int /\ r(0) \in 0..k - 1 /\ 0 = k * q(0) + r(0)
    <3>1. 0 \in 0..k /\ 0 * n = 0
      OBVIOUS
    <3> QED
      BY <1>1, <3>1
  <2>2. k * q(0) + r(0) <= k * 0 + 0 /\ k * 0 + 0 <= k * q(0) + r(0)
    BY <2>1
  <2>3. q(0) <= 0 /\ 0 <= q(0)
    BY <1>3, <2>1, <2>2
  <2> QED
    BY <2>1, <2>3
<1>6. q(k) = n
  <2>1. q(k) \in Int /\ r(k) \in 0..k - 1 /\ k * n = k * q(k) + r(k)
    <3>1. k \in 0..k
      OBVIOUS
    <3> QED
      BY <1>1, <3>1
  <2>2. k * q(k) + r(k) <= k * n + 0 /\ k * n + 0 <= k * q(k) + r(k)
    BY <2>1
  <2>3. q(k) <= n /\ n <= q(k)
    BY <1>3, <2>1, <2>2
  <2> QED
    BY <2>1, <2>3
<1>7. ASSUME NEW s \in 1..k, NEW w \in Nat, k * w <= n PROVE q(s - 1) + w <= q(s)
  <2>1. s \in 0..k /\ s - 1 \in 0..k
    OBVIOUS
  <2>2. /\ q(s) \in Int /\ r(s) \in 0..k - 1 /\ s * n = k * q(s) + r(s)
        /\ q(s - 1) \in Int /\ r(s - 1) \in 0..k - 1 /\ (s - 1) * n = k * q(s - 1) + r(s - 1)
    BY <1>1, <2>1
  <2>3. s * n = (s - 1) * n + n
    OBVIOUS
  <2>4. k * (q(s - 1) + w) = k * q(s - 1) + k * w
    BY <2>2
  <2>5. k * q(s - 1) \in Int /\ k * w \in Int /\ k * q(s) \in Int
    BY <2>2
  <2>6. k * (q(s - 1) + w) + r(s - 1) <= k * q(s) + r(s)
    BY <1>7, <2>2, <2>3, <2>4, <2>5
  <2>7. q(s - 1) + w \in Int
    BY <2>2
  <2> QED
    BY <1>3, <2>2, <2>6, <2>7
<1>8. \A s \in 0..k : q(s) \in 0..n
  <2> TAKE s \in 0..k
  <2>1. q(0) <= q(s) /\ q(s) <= q(k) /\ q(s) \in Int
    BY <1>1, <1>4
  <2> QED
    BY <1>5, <1>6, <2>1
<1>9. \A s \in 1..k : q(s - 1) + 1 <= q(s)
  BY <1>7
<1>10. 2 * k <= n => \A s \in 1..k : q(s - 1) + 2 <= q(s)
  <2>1. 2 * k = k * 2
    OBVIOUS
  <2> QED
    BY <1>7, <2>1
<1>11. 0 \in 0..k /\ k \in 0..k /\ \A s \in 1..k : s \in 0..k /\ s - 1 \in 0..k
  OBVIOUS
<1> QED
  BY <1>2, <1>4, <1>5, <1>6, <1>8, <1>9, <1>10, <1>11

(* The events in the order of their times on the device.                   *)
LEMMA Ordered ==
    ASSUME Inputs
    PROVE  /\ Order \in [1..Len(x) -> 1..Len(x)]
           /\ \A k, l \in 1..Len(x) :
                k < l => \/ x[Order[k]] < x[Order[l]]
                         \/ x[Order[k]] = x[Order[l]] /\ Order[k] < Order[l]
           /\ NonDecreasing(x) => \A k \in 1..Len(x) : Order[k] = k
<1> DEFINE n == Len(x)
           own == [i \in Event |-> i]
<1>1. n \in Nat /\ Event = 1..n
  BY Events DEF Inputs
<1>2. /\ own \in Seq(Nat) /\ Len(own) = n /\ x \in Seq(Int) /\ \A i \in 1..n : own[i] = i
      /\ Len(x) = Len(own)
  BY <1>1 DEF Inputs
<1> HIDE DEF own
<1>3. PICK at \in [1..Len(own) -> 1..Len(own)] :
        /\ SortedBy(own, x) = [k \in 1..Len(own) |-> own[at[k]]]
        /\ \A k, l \in 1..Len(own) : k < l => x[at[k]] <= x[at[l]]
        /\ \A k, l \in 1..Len(own) :
             k < l => \/ x[at[k]] < x[at[l]]
                      \/ x[at[k]] = x[at[l]] /\ at[k] < at[l]
        /\ \A i \in 1..Len(own) : \E k \in 1..Len(own) : at[k] = i
        /\ NonDecreasing(x) => \A k \in 1..Len(own) : at[k] = k
  BY <1>2, SortsBy, Zenon
<1>4. Order = at
  <2>1. Order = [k \in 1..n |-> own[at[k]]]
    BY <1>2, <1>3 DEF Order, own
  <2>2. \A k \in 1..n : own[at[k]] = at[k]
    BY <1>2, <1>3
  <2> QED
    BY <1>2, <1>3, <2>1, <2>2
<1> QED
  BY <1>2, <1>3, <1>4

(* A segment of the events, as far as its times go.                        *)
LEMMA SegmentIs ==
    ASSUME Inputs, count # 0
    PROVE  LET n == Len(x)
               e == Ends(n, Pieces)
           IN  \A s \in 1..Pieces :
                 /\ Segment(Pieces, s).from = e[s - 1] + 1
                 /\ Segment(Pieces, s).to = e[s]
                 /\ Segment(Pieces, s).last = (s = Pieces)
                 /\ s < Pieces => Segment(Pieces, s).below = x[Order[e[s]]] + x[Order[e[s] + 1]]
<1>1. Cardinality(Event) = Len(x) /\ Pieces \in Nat \ {0}
  BY Events, PieceCount
<1>2. \A s \in 1..Pieces : s \in 0..Pieces /\ s - 1 \in 0..Pieces /\ (s < Pieces => s # Pieces)
  BY <1>1
<1>3. \A s \in 1..Pieces : /\ Ends(Len(x), Pieces)[s] = (s * Len(x)) \div Pieces
                           /\ Ends(Len(x), Pieces)[s - 1] = ((s - 1) * Len(x)) \div Pieces
  BY <1>2 DEF Ends
<1> QED
  BY <1>1, <1>2, <1>3 DEF Segment

(* Of times that are different, each is served by the segment it is in.    *)
LEMMA ServesOwn ==
    ASSUME Inputs, count # 0, Distinct,
           segments = [s \in 1..Pieces |-> Segment(Pieces, s)],
           NEW s \in 1..Pieces, NEW k \in Segment(Pieces, s).from..Segment(Pieces, s).to
    PROVE  k \in 1..Len(x) /\ Serving(x[Order[k]]) = s
<1> DEFINE n == Len(x)
           e == Ends(n, Pieces)
           at(i) == x[Order[i]]
           t == x[Order[k]]
<1>1. n \in Nat \ {0} /\ Pieces \in Nat \ {0} /\ Pieces <= n
  BY PieceCount DEF Inputs
<1>2. /\ e[0] = 0 /\ e[Pieces] = n
      /\ \A r \in 0..Pieces : e[r] \in 0..n
      /\ \A r \in 1..Pieces : e[r - 1] + 1 <= e[r]
      /\ \A q, r \in 0..Pieces : q <= r => e[q] <= e[r]
  <2> HIDE DEF n
  <2> QED
    BY <1>1, Dealt
<1>3. \A r \in 1..Pieces :
        /\ Segment(Pieces, r).from = e[r - 1] + 1
        /\ Segment(Pieces, r).to = e[r]
        /\ Segment(Pieces, r).last = (r = Pieces)
        /\ r < Pieces => Segment(Pieces, r).below = at(e[r]) + at(e[r] + 1)
  BY SegmentIs
<1>4. \A r \in 1..Pieces : segments[r] = Segment(Pieces, r)
  OBVIOUS
<1>5. DOMAIN segments = 1..Pieces
  OBVIOUS
<1> HIDE DEF e
<1>6. k \in e[s - 1] + 1..e[s] /\ s \in Int
  BY <1>1, <1>3
<1>7. s \in 0..Pieces /\ s - 1 \in 0..Pieces /\ e[s] \in 0..n /\ e[s - 1] \in 0..n
  BY <1>1, <1>2
<1>8. k \in 1..n
  BY <1>1, <1>6, <1>7
<1>9. /\ \A i \in 1..n : at(i) \in Int
      /\ \A i, j \in 1..n : i < j => at(i) < at(j)
  <2>1. /\ Event = 1..n /\ \A i \in Event : x[i] \in Int
        /\ Order \in [1..n -> 1..n]
        /\ \A i, j \in 1..n : i < j => \/ x[Order[i]] < x[Order[j]]
                                       \/ x[Order[i]] = x[Order[j]] /\ Order[i] < Order[j]
    BY Events, Ordered
  <2>2. \A i, j \in 1..n : x[i] = x[j] => i = j
    BY <2>1 DEF Distinct
  <2>3. \A i, j \in 1..n : i < j => x[Order[i]] < x[Order[j]]
    <3> SUFFICES ASSUME NEW i \in 1..n, NEW j \in 1..n, i < j,
                        x[Order[i]] = x[Order[j]], Order[i] < Order[j]
                 PROVE  FALSE
      BY <2>1
    <3>1. Order[i] \in 1..n /\ Order[j] \in 1..n
      BY <2>1
    <3> QED
      BY <2>2, <3>1
  <2> QED
    BY <2>1, <2>3
<1> HIDE DEF n
<1>10. ASSUME NEW r \in 1..Pieces, r < s PROVE segments[r].below <= 2 * t /\ ~segments[r].last
  <2>1. r < Pieces /\ r \in 0..Pieces /\ r <= s - 1 /\ r # Pieces
    BY <1>1, <1>6, <1>10
  <2>2. e[r] <= e[s - 1] /\ e[r] \in 0..n /\ e[r - 1] + 1 <= e[r] /\ e[r - 1] \in 0..n
    <3>1. r - 1 \in 0..Pieces
      BY <1>1
    <3> QED
      BY <1>2, <1>7, <2>1, <3>1
  <2>3. e[r] \in 1..n /\ e[r] + 1 \in 1..n /\ e[r] < k /\ e[r] + 1 <= k
    BY <1>1, <1>6, <1>7, <1>8, <2>2, SMTT(30)
  <2>4. at(e[r]) < t /\ at(e[r] + 1) <= t
    <3>1. e[r] + 1 = k \/ e[r] + 1 < k
      BY <2>3
    <3> QED
      BY <1>8, <1>9, <2>3, <3>1
  <2>5. at(e[r]) \in Int /\ at(e[r] + 1) \in Int /\ t \in Int
    BY <1>8, <1>9, <2>3
  <2>6. segments[r].below = at(e[r]) + at(e[r] + 1)
    BY <1>3, <1>4, <2>1
  <2>7. \A a, b, c \in Int : a < c /\ b <= c => a + b <= 2 * c
    OBVIOUS
  <2>8. segments[r].below <= 2 * t
    BY <2>4, <2>5, <2>6, <2>7
  <2> QED
    BY <1>3, <1>4, <2>1, <2>8
<1>11. ASSUME s < Pieces PROVE 2 * t < segments[s].below
  <2>1. e[s] < n
    <3>1. s + 1 \in 1..Pieces /\ s + 1 - 1 = s /\ s + 1 \in 0..Pieces
      BY <1>1, <1>6, <1>11
    <3>2. e[s] + 1 <= e[s + 1] /\ e[s + 1] \in 0..n
      BY <1>2, <3>1
    <3> QED
      BY <1>1, <1>7, <3>2
  <2>2. e[s] \in 1..n /\ e[s] + 1 \in 1..n /\ k <= e[s] /\ k < e[s] + 1
    BY <1>1, <1>6, <1>7, <1>8, <2>1
  <2>3. t <= at(e[s]) /\ t < at(e[s] + 1)
    <3>1. k = e[s] \/ k < e[s]
      BY <1>8, <2>2
    <3> QED
      BY <1>8, <1>9, <2>2, <3>1
  <2>4. at(e[s]) \in Int /\ at(e[s] + 1) \in Int /\ t \in Int
    BY <1>8, <1>9, <2>2
  <2>5. segments[s].below = at(e[s]) + at(e[s] + 1)
    BY <1>3, <1>4, <1>11
  <2>6. \A a, b, c \in Int : c <= a /\ c < b => 2 * c < a + b
    OBVIOUS
  <2> QED
    BY <2>3, <2>4, <2>5, <2>6
<1> DEFINE serves(r) == /\ segments[r].last \/ 2 * t < segments[r].below
                        /\ \A q \in 1..r - 1 : segments[q].below <= 2 * t
<1>12. serves(s)
  <2>1. segments[s].last \/ s < Pieces
    <3>1. s = Pieces => segments[s].last
      BY <1>3, <1>4
    <3> QED
      BY <1>1, <1>6, <3>1
  <2>2. \A q \in 1..s - 1 : q \in 1..Pieces /\ q < s
    BY <1>1, <1>6
  <2> QED
    BY <1>10, <1>11, <2>1, <2>2
<1>13. ASSUME NEW r \in 1..Pieces, serves(r) PROVE r = s
  <2>1. t \in Int
    BY <1>8, <1>9
  <2>2. ~(r < s)
    <3> SUFFICES ASSUME r < s PROVE FALSE
      OBVIOUS
    <3>1. segments[r].below <= 2 * t /\ ~segments[r].last /\ 2 * t < segments[r].below
      BY <1>10, <1>13
    <3>2. segments[r].below \in Int
      <4>1. r < Pieces /\ r \in 0..Pieces /\ r - 1 \in 0..Pieces /\ s - 1 \in 0..Pieces
            /\ r <= s - 1
        BY <1>1, <1>6
      <4>2. e[r] \in 0..n /\ e[r - 1] \in 0..n /\ e[r - 1] + 1 <= e[r] /\ e[r] <= e[s - 1]
        BY <1>2, <4>1
      <4>3. e[r] \in 1..n /\ e[r] + 1 \in 1..n
        BY <1>1, <1>6, <1>7, <1>8, <4>2, SMTT(30)
      <4>4. at(e[r]) \in Int /\ at(e[r] + 1) \in Int
        BY <1>9, <4>3
      <4>5. segments[r].below = at(e[r]) + at(e[r] + 1)
        BY <1>3, <1>4, <4>1
      <4> QED
        BY <4>4, <4>5
    <3> QED
      BY <2>1, <3>1, <3>2
  <2>3. ~(s < r)
    <3> SUFFICES ASSUME s < r PROVE FALSE
      OBVIOUS
    <3>1. s \in 1..r - 1 /\ s < Pieces
      BY <1>1, <1>6
    <3>2. segments[s].below <= 2 * t /\ 2 * t < segments[s].below
      BY <1>11, <1>13, <3>1
    <3>3. segments[s].below \in Int
      <4>1. s + 1 \in 1..Pieces /\ s + 1 - 1 = s /\ s + 1 \in 0..Pieces
        BY <1>1, <1>6, <3>1
      <4>2. e[s] + 1 <= e[s + 1] /\ e[s + 1] \in 0..n
        BY <1>2, <4>1
      <4>3. e[s] \in 1..n /\ e[s] + 1 \in 1..n
        BY <1>1, <1>6, <1>7, <1>8, <4>2
      <4>4. at(e[s]) \in Int /\ at(e[s] + 1) \in Int
        BY <1>9, <4>3
      <4>5. segments[s].below = at(e[s]) + at(e[s] + 1)
        BY <1>3, <1>4, <3>1
      <4> QED
        BY <4>4, <4>5
    <3> QED
      BY <2>1, <3>2, <3>3
  <2> QED
    BY <1>6, <2>2, <2>3
<1>14. Serving(t) = CHOOSE r \in 1..Pieces : serves(r)
  BY <1>5 DEF Serving
<1> HIDE DEF serves, t
<1>15. Serving(t) = s
  BY <1>12, <1>13, <1>14
<1> QED
  BY <1>8, <1>15 DEF t, n

-----------------------------------------------------------------------------
(* Sums over the events.                                                   *)

Whole(f, S) == IsFiniteSet(S) /\ \A i \in S : f[i] \in Int

LEMMA TotalAdds ==
    ASSUME NEW S, NEW f, Whole(f, S)
    PROVE  \E g : Adds(g, f, S) /\ Total(S, f) = g[S]
<1> DEFINE R(g) == g = [s \in SUBSET S |-> IF s = {} THEN 0
                     ELSE LET i == CHOOSE i \in s : TRUE IN f[i] + g[s \ {i}]]
           h == CHOOSE g : R(g)
<1>1. Total(S, f) = h[S]
  BY DEF Total, MapThenSumSet, MapThenFoldSet
<1>2. \A g : R(g) <=> Sums(g, f, S)
  BY DEF Sums
<1> HIDE DEF R
<1>3. Sums(h, f, S)
  <2>1. IsFiniteSet(S) /\ \A i \in S : f[i] \in Int
    BY DEF Whole
  <2>2. \E g : R(g)
    BY <1>2, <2>1, SumExists
  <2>3. R(h)
    BY <2>2
  <2> QED
    BY <1>2, <2>3
<1> HIDE DEF h
<1>4. Adds(h, f, S)
  BY <1>3 DEF Adds, Whole
<1> QED
  BY <1>1, <1>4

LEMMA TotalWhole ==
    ASSUME NEW S, NEW f, Whole(f, S)
    PROVE  Total(S, f) \in Int
<1>1. PICK g : Adds(g, f, S) /\ Total(S, f) = g[S]
  BY TotalAdds
<1>2. Taken(g, f, S)
  BY <1>1, SumTake
<1> QED
  BY <1>1, <1>2 DEF Taken

LEMMA TotalsCombine ==
    ASSUME NEW S, NEW f1, NEW f2, NEW f3, Whole(f1, S), Whole(f2, S), Whole(f3, S),
           NEW p \in Int, NEW q \in Int, NEW r \in Int, NEW k \in Int,
           Linear(S, p, f1, q, f2, r, f3, k)
    PROVE  p * Total(S, f1) = q * Total(S, f2) + r * Total(S, f3) + Cardinality(S) * k
<1>1. PICK g1 : Adds(g1, f1, S) /\ Total(S, f1) = g1[S]
  BY TotalAdds
<1>2. PICK g2 : Adds(g2, f2, S) /\ Total(S, f2) = g2[S]
  BY TotalAdds
<1>3. PICK g3 : Adds(g3, f3, S) /\ Total(S, f3) = g3[S]
  BY TotalAdds
<1>4. S \in SUBSET S
  OBVIOUS
<1>5. p * g1[S] = q * g2[S] + r * g3[S] + Cardinality(S) * k
  BY <1>1, <1>2, <1>3, <1>4, SumsCombine
<1> QED
  BY <1>1, <1>2, <1>3, <1>5

(* The same for two sums.                                                  *)
LEMMA TotalsLinear ==
    ASSUME NEW S, NEW f1, NEW f2, Whole(f1, S), Whole(f2, S),
           NEW p \in Int, NEW q \in Int, NEW k \in Int,
           \A i \in S : p * f1[i] = q * f2[i] + k
    PROVE  p * Total(S, f1) = q * Total(S, f2) + Cardinality(S) * k
<1>1. Linear(S, p, f1, q, f2, 0, f2, k)
  <2> SUFFICES ASSUME NEW i \in S PROVE p * f1[i] = q * f2[i] + 0 * f2[i] + k
    BY DEF Linear
  <2>1. f1[i] \in Int /\ f2[i] \in Int /\ p * f1[i] = q * f2[i] + k
    BY DEF Whole
  <2> QED
    BY <2>1
<1>2. p * Total(S, f1) = q * Total(S, f2) + 0 * Total(S, f2) + Cardinality(S) * k
  <2>1. 0 \in Int
    OBVIOUS
  <2> QED
    BY <1>1, <2>1, TotalsCombine
<1>3. Total(S, f2) \in Int
  BY TotalWhole
<1> QED
  BY <1>2, <1>3

LEMMA TotalPositive ==
    ASSUME NEW S, IsFiniteSet(S), NEW f \in [S -> Nat]
    PROVE  Total(S, f) \in Nat /\ ((\E i \in S : f[i] > 0) => Total(S, f) > 0)
<1>1. Whole(f, S)
  BY DEF Whole
<1>2. PICK g : Adds(g, f, S) /\ Total(S, f) = g[S]
  BY <1>1, TotalAdds
<1>3. Sums(g, f, S)
  BY <1>2 DEF Adds
<1>4. g[S] \in Nat /\ (g[S] = 0 <=> \A i \in S : f[i] = 0)
  BY <1>3, SumZero
<1>5. (\E i \in S : f[i] > 0) => ~(\A i \in S : f[i] = 0)
  OBVIOUS
<1> QED
  BY <1>2, <1>4, <1>5

(* Sums of functions that differ in one place only differ as they do.      *)
LEMMA TotalsDiffer ==
    ASSUME NEW S, NEW f1, NEW f2, Whole(f1, S), Whole(f2, S),
           NEW s \in S, \A i \in S \ {s} : f1[i] = f2[i]
    PROVE  Total(S, f1) - Total(S, f2) = f1[s] - f2[s]
<1>1. PICK g1 : Adds(g1, f1, S) /\ Total(S, f1) = g1[S]
  BY TotalAdds
<1>2. PICK g2 : Adds(g2, f2, S) /\ Total(S, f2) = g2[S]
  BY TotalAdds
<1> DEFINE t == S \ {s}
<1>3. t \in SUBSET S /\ S \in SUBSET S
  OBVIOUS
<1>4. Taken(g1, f1, S) /\ Taken(g2, f2, S) /\ Taken(g1, f1, t) /\ Taken(g2, f2, t)
  <2>1. Taken(g1, f1, S) /\ Taken(g1, f1, t)
    BY <1>1, <1>3, SumTake
  <2>2. Taken(g2, f2, S) /\ Taken(g2, f2, t)
    BY <1>2, <1>3, SumTake
  <2> QED
    BY <2>1, <2>2
<1>5. /\ g1[S] = f1[s] + g1[t] /\ g2[S] = f2[s] + g2[t]
      /\ g1[t] \in Int /\ g2[t] \in Int
      /\ f1[s] \in Int /\ f2[s] \in Int
  BY <1>4 DEF Taken, Whole
<1>6. g1[t] = g2[t]
  <2>1. PICK u \in Int, z \in Int : u = 1 /\ z = 0
    OBVIOUS
  <2>2. Linear(t, u, f1, u, f2, z, f2, z)
    <3> SUFFICES ASSUME NEW i \in t PROVE u * f1[i] = u * f2[i] + z * f2[i] + z
      BY DEF Linear
    <3>1. f1[i] = f2[i] /\ f1[i] \in Int /\ f2[i] \in Int
      BY DEF Whole
    <3> QED
      BY <2>1, <3>1
  <2> HIDE DEF t
  <2>3. u * g1[t] = u * g2[t] + z * g2[t] + Cardinality(t) * z
    BY <1>1, <1>2, <1>3, <2>2, SumsCombine
  <2>4. Cardinality(t) \in Nat
    <3>1. IsFiniteSet(t)
      BY <1>3, FS_Subset DEF Whole
    <3> QED
      BY <3>1, FS_CardinalityType
  <2> QED
    BY <1>5, <2>1, <2>3, <2>4
<1> HIDE DEF t
<1> QED
  BY <1>1, <1>2, <1>5, <1>6

-----------------------------------------------------------------------------
(* The forward clock.                                                      *)

Rates(c) == /\ c.beta \in Int /\ Len(c.rates) \in Nat \ {0}
            /\ c.rates \in Seq((Nat \ {0}) \X (Nat \ {0}))

LEMMA RatesAre ==
    ASSUME NEW c, Rates(c)
    PROVE  /\ DOMAIN c.rates = 1..Len(c.rates) /\ IsFiniteSet(DOMAIN c.rates)
           /\ \A s \in DOMAIN c.rates : c.rates[s][1] \in Nat \ {0} /\ c.rates[s][2] \in Nat \ {0}
<1> DEFINE n == Len(c.rates)
           D == DOMAIN c.rates
<1>1. n \in Nat /\ D = 1..n
  BY DEF Rates
<1>2. \A s \in D : c.rates[s] \in (Nat \ {0}) \X (Nat \ {0})
  BY <1>1 DEF Rates
<1> HIDE DEF n, D
<1>3. IsFiniteSet(D)
  BY <1>1, UpTo
<1> QED
  BY <1>1, <1>2, <1>3 DEF n, D

LEMMA UnitIs ==
    ASSUME NEW c, Rates(c)
    PROVE  /\ Unit(c) \in Nat \ {0}
           /\ Len(c.rates) = 1 => Unit(c) = c.rates[1][1]
<1> DEFINE D == DOMAIN c.rates
           V == Nat \ {0}
           pick(s) == CHOOSE i \in s : TRUE
           R(g) == g = [s \in SUBSET D |-> IF s = {} THEN 1
                     ELSE LET i == CHOOSE i \in s : TRUE IN g[s \ {i}] * c.rates[i][1]]
           h == CHOOSE g : R(g)
<1>1. Unit(c) = h[D]
  BY DEF Unit, FoldSet, MapThenFoldSet
<1>2. /\ IsFiniteSet(D) /\ \A s \in D : c.rates[s][1] \in V
      /\ Len(c.rates) = 1 => D = {1}
  BY RatesAre
<1>3. \A a, b \in V : a * b \in V
  <2> TAKE a \in V, b \in V
  <2>1. (a - 1) * b >= 0
    <3>1. a - 1 \in Nat
      OBVIOUS
    <3> QED
      BY <3>1
  <2> QED
    BY <2>1
<1>4. \E g : R(g)
  <2> DEFINE op == [a \in D \X V |-> a[2] * c.rates[a[1]][1]]
  <2>1. op \in [D \X V -> V]
    <3>2. \A a \in D \X V : a[2] \in V /\ c.rates[a[1]][1] \in V
      BY <1>2
    <3> HIDE DEF V
    <3> QED
      BY <1>3, <3>2
  <2>2. \A i \in D, v \in V : op[<<i, v>>] = v * c.rates[i][1]
    OBVIOUS
  <2>3. PICK one : one = 1
    OBVIOUS
  <2>4. one \in V
    BY <2>3
  <2> HIDE DEF op, V
  <2>5. PICK g \in [SUBSET D -> V] : Folded(g, op, one, D)
    BY <1>2, <2>1, <2>4, FoldExists
  <2>6. \A s \in SUBSET D : g[s] = IF s = {} THEN one ELSE op[<<pick(s), g[s \ {pick(s)}]>>]
    BY <2>5 DEF Folded
  <2>7. \A s \in SUBSET D : s # {} => pick(s) \in D /\ g[s \ {pick(s)}] \in V
    OBVIOUS
  <2> HIDE DEF pick
  <2>8. \A s \in SUBSET D : g[s] = IF s = {} THEN 1 ELSE g[s \ {pick(s)}] * c.rates[pick(s)][1]
    BY <2>2, <2>3, <2>6, <2>7
  <2>9. g = [s \in SUBSET D |-> IF s = {} THEN 1 ELSE g[s \ {pick(s)}] * c.rates[pick(s)][1]]
    <3>1. g = [s \in SUBSET D |-> g[s]]
      OBVIOUS
    <3> QED
      BY <2>8, <3>1
  <2> QED
    BY <2>9 DEF pick
<1>5. R(h)
  <2> HIDE DEF R
  <2> QED
    BY <1>4
<1>6. \A s \in SUBSET D : h[s] = IF s = {} THEN 1 ELSE h[s \ {pick(s)}] * c.rates[pick(s)][1]
  <2> HIDE DEF h
  <2> QED
    BY <1>5
<1>7. \A s \in SUBSET D : s # {} => pick(s) \in s
  OBVIOUS
<1>8. \A s \in SUBSET D : IsFiniteSet(s) /\ Cardinality(s) \in Nat /\ (Cardinality(s) = 0 <=> s = {})
  BY <1>2, FS_Subset, FS_CardinalityType, FS_EmptySet
<1> HIDE DEF h, pick, R
<1> DEFINE Good == {n \in Nat : \A s \in SUBSET D : Cardinality(s) = n => h[s] \in V}
<1>9. 0 \in Good
  <2>1. h[{}] = 1
    BY <1>6
  <2>2. \A s \in SUBSET D : Cardinality(s) = 0 => h[s] \in V
    BY <1>8, <2>1
  <2> QED
    BY <2>2
<1>10. ASSUME NEW n \in Nat, n \in Good PROVE n + 1 \in Good
  <2> SUFFICES ASSUME NEW s \in SUBSET D, Cardinality(s) = n + 1 PROVE h[s] \in V
    OBVIOUS
  <2>1. s # {} /\ pick(s) \in s
    BY <1>7, <1>8
  <2> DEFINE r == s \ {pick(s)}
  <2>2. r \in SUBSET D /\ Cardinality(r) = n
    <3>1. Cardinality(r) = Cardinality(s) - 1
      BY <1>8, <2>1, FS_RemoveElement
    <3> QED
      BY <3>1
  <2>3. h[r] \in V
    BY <1>10, <2>2
  <2>4. h[s] = h[r] * c.rates[pick(s)][1] /\ c.rates[pick(s)][1] \in V
    BY <1>2, <1>6, <2>1
  <2> HIDE DEF r
  <2> HIDE DEF V
  <2> QED
    BY <1>3, <2>3, <2>4
<1>11. h[D] \in V
  <2>1. Cardinality(D) \in Nat /\ D \in SUBSET D
    BY <1>8
  <2>2. Cardinality(D) \in Good
    <3> HIDE DEF Good
    <3> QED
      BY <1>9, <1>10, <2>1, Induct
  <2> QED
    BY <2>1, <2>2
<1>12. ASSUME Len(c.rates) = 1 PROVE h[D] = c.rates[1][1]
  <2>1. D = {1} /\ D # {}
    BY <1>2, <1>12
  <2>2. pick(D) = 1 /\ D \ {pick(D)} = {}
    BY <1>7, <2>1
  <2>3. h[{}] = 1
    BY <1>6
  <2>4. h[D] = h[{}] * c.rates[1][1]
    BY <1>6, <2>1, <2>2
  <2>5. c.rates[1][1] \in V
    BY <1>2, <2>1
  <2> QED
    BY <2>3, <2>4, <2>5
<1> QED
  BY <1>1, <1>11, <1>12

LEMMA TotalsOrdered ==
    ASSUME NEW S, NEW f1, NEW f2, Whole(f1, S), Whole(f2, S), \A i \in S : f1[i] <= f2[i]
    PROVE  Total(S, f1) <= Total(S, f2)
<1> DEFINE f3 == [i \in S |-> f2[i] - f1[i]]
<1>1. f3 \in [S -> Nat] /\ \A i \in S : f2[i] = f1[i] + f3[i]
  <2>1. ASSUME NEW i \in S PROVE f2[i] - f1[i] \in Nat /\ f2[i] = f1[i] + (f2[i] - f1[i])
    BY DEF Whole
  <2> QED
    BY <2>1
<1> HIDE DEF f3
<1>2. Whole(f3, S) /\ IsFiniteSet(S)
  BY <1>1 DEF Whole
<1>3. PICK u \in Int, z \in Int : u = 1 /\ z = 0
  OBVIOUS
<1>4. Linear(S, u, f2, u, f1, u, f3, z)
  <2> SUFFICES ASSUME NEW i \in S PROVE u * f2[i] = u * f1[i] + u * f3[i] + z
    BY DEF Linear
  <2>1. f1[i] \in Int /\ f2[i] \in Int /\ f3[i] \in Int /\ f2[i] = f1[i] + f3[i]
    BY <1>1, <1>2 DEF Whole
  <2> QED
    BY <1>3, <2>1
<1>5. u * Total(S, f2) = u * Total(S, f1) + u * Total(S, f3) + Cardinality(S) * z
  BY <1>2, <1>4, TotalsCombine
<1>6. Total(S, f1) \in Int /\ Total(S, f2) \in Int /\ Cardinality(S) \in Nat
  BY <1>2, TotalWhole, FS_CardinalityType
<1>7. Total(S, f3) \in Nat
  BY <1>1, <1>2, TotalPositive
<1> QED
  BY <1>3, <1>5, <1>6, <1>7

-----------------------------------------------------------------------------
(* Local times: linear within a stretch, and in the order of time.         *)

Slope(c, s) == (Unit(c) * c.rates[s][2]) \div c.rates[s][1]

LEMMA WithinIs ==
    ASSUME NEW c, Rates(c), NEW t \in Int
    PROVE  /\ \A s \in DOMAIN c.rates : Slope(c, s) \in Nat
           /\ Within(c, t) = [s \in DOMAIN c.rates |->
                                Clip(t - (s - 1) * Length, 0, Length) * Slope(c, s)]
           /\ \A s \in DOMAIN c.rates : Clip(t - (s - 1) * Length, 0, Length) \in 0..Length
           /\ Whole(Within(c, t), DOMAIN c.rates)
<1> DEFINE D == DOMAIN c.rates
           clip(s) == Clip(t - (s - 1) * Length, 0, Length)
<1>1. /\ IsFiniteSet(D) /\ \A s \in D : s \in Int
      /\ \A s \in D : c.rates[s][1] \in Nat \ {0} /\ c.rates[s][2] \in Nat \ {0}
  BY RatesAre
<1>2. Unit(c) \in Nat \ {0} /\ Length \in Nat \ {0}
  BY UnitIs, ForwardAssumption
<1>3. \A s \in D : Slope(c, s) \in Nat
  <2> TAKE s \in D
  <2> DEFINE a == Unit(c) * c.rates[s][2]
             d == c.rates[s][1]
  <2>1. a \in Nat /\ d \in Nat \ {0}
    BY <1>1, <1>2
  <2> HIDE DEF a, d
  <2>2. a \div d \in Int /\ a % d \in 0..d - 1 /\ a = d * (a \div d) + (a % d)
    BY <2>1, Quotient
  <2>3. ~(a \div d < 0)
    <3> SUFFICES ASSUME a \div d < 0 PROVE FALSE
      OBVIOUS
    <3>1. d * (a \div d) + d <= d * 0
      <4>1. 0 \in Int /\ a \div d \in Int
        BY <2>2
      <4> HIDE DEF a, d
      <4> QED
        BY <2>1, <4>1, Scaled
    <3>2. d * (a \div d) \in Int
      BY <2>1, <2>2
    <3> QED
      BY <2>1, <2>2, <3>1, <3>2
  <2> QED
    BY <2>2, <2>3 DEF Slope, a, d
<1>4. \A s \in D : clip(s) \in 0..Length
  BY <1>1, <1>2 DEF Clip
<1>5. Within(c, t) = [s \in D |-> clip(s) * Slope(c, s)]
  BY DEF Within, Slope
<1> HIDE DEF clip
<1>6. \A s \in D : Within(c, t)[s] \in Int
  BY <1>3, <1>4, <1>5
<1>7. Whole(Within(c, t), D)
  BY <1>1, <1>6 DEF Whole
<1> QED
  BY <1>3, <1>4, <1>5, <1>7 DEF clip

LEMMA LocalIs ==
    ASSUME NEW c, Rates(c), NEW t \in Int
    PROVE  /\ Local(c, t) \in Int
           /\ Len(c.rates) = 1 => Local(c, t) = (t - c.beta) * c.rates[1][2]
<1>1. CASE Len(c.rates) = 1
  <2>1. c.rates[1][2] \in Int /\ c.beta \in Int
    BY <1>1, RatesAre DEF Rates
  <2> QED
    BY <1>1, <2>1 DEF Local
<1>2. CASE Len(c.rates) # 1
  <2>1. Local(c, t) = Total(DOMAIN c.rates, Within(c, t))
    BY <1>2 DEF Local
  <2> QED
    BY <1>2, <2>1, WithinIs, TotalWhole
<1> QED
  BY <1>1, <1>2

LEMMA LocalInOrder ==
    ASSUME NEW c, Rates(c), NEW t \in Int, NEW u \in Int, t <= u
    PROVE  Local(c, t) <= Local(c, u)
<1> DEFINE D == DOMAIN c.rates
<1>1. CASE Len(c.rates) = 1
  <2>1. c.rates[1][2] \in Nat /\ c.beta \in Int
    BY <1>1, RatesAre DEF Rates
  <2>2. \A b \in Int, r \in Nat : (t - b) * r <= (u - b) * r
    <3> TAKE b \in Int, r \in Nat
    <3>1. (u - t) * r >= 0
      <4>1. u - t \in Nat
        OBVIOUS
      <4> QED
        BY <4>1
    <3> QED
      BY <3>1
  <2> QED
    BY <1>1, <2>1, <2>2, LocalIs
<1>2. CASE Len(c.rates) # 1
  <2>1. Whole(Within(c, t), D) /\ Whole(Within(c, u), D)
    BY WithinIs
  <2>2. ASSUME NEW s \in D PROVE Within(c, t)[s] <= Within(c, u)[s]
    <3> DEFINE a == Clip(t - (s - 1) * Length, 0, Length)
               b == Clip(u - (s - 1) * Length, 0, Length)
    <3>1. /\ Within(c, t)[s] = a * Slope(c, s) /\ Within(c, u)[s] = b * Slope(c, s)
          /\ a \in 0..Length /\ b \in 0..Length /\ Slope(c, s) \in Nat
      <4>1. Within(c, t)[s] = a * Slope(c, s) /\ a \in 0..Length /\ Slope(c, s) \in Nat
        BY WithinIs
      <4>2. Within(c, u)[s] = b * Slope(c, s) /\ b \in 0..Length
        BY WithinIs
      <4> QED
        BY <4>1, <4>2
    <3>2. a <= b
      <4> DEFINE o == (s - 1) * Length
      <4>1. o \in Int /\ Length \in Nat
        BY RatesAre, ForwardAssumption
      <4> HIDE DEF o
      <4>2. Clip(t - o, 0, Length) <= Clip(u - o, 0, Length)
        BY <4>1 DEF Clip
      <4> QED
        BY <4>2 DEF o
    <3> HIDE DEF a, b
    <3>3. (b - a) * Slope(c, s) >= 0
      <4>1. b - a \in Nat
        BY <3>1, <3>2, ForwardAssumption
      <4> QED
        BY <3>1, <4>1
    <3>4. (b - a) * Slope(c, s) = b * Slope(c, s) - a * Slope(c, s)
      BY <3>1
    <3>5. a * Slope(c, s) \in Int /\ b * Slope(c, s) \in Int
      BY <3>1
    <3> QED
      BY <3>1, <3>3, <3>4, <3>5
  <2> HIDE DEF D
  <2>3. Total(D, Within(c, t)) <= Total(D, Within(c, u))
    BY <2>1, <2>2, TotalsOrdered
  <2> QED
    BY <1>2, <2>3 DEF Local, D
<1> QED
  BY <1>1, <1>2

LEMMA LocalInStretch ==
    ASSUME NEW c, Rates(c), Len(c.rates) # 1, NEW s \in DOMAIN c.rates,
           NEW t \in (s - 1) * Length..s * Length, NEW u \in (s - 1) * Length..s * Length
    PROVE  Local(c, u) - Local(c, t) = (u - t) * Slope(c, s)
<1> DEFINE D == DOMAIN c.rates
           clip(v, r) == Clip(v - (r - 1) * Length, 0, Length)
<1>1. /\ Length \in Nat \ {0} /\ \A r \in D : r \in Int
      /\ \A r \in D : (r - 1) * Length \in Int /\ r * Length \in Int
                      /\ r * Length = (r - 1) * Length + Length
  BY RatesAre, ForwardAssumption
<1>2. t \in Int /\ u \in Int
  BY <1>1
<1>3. ASSUME NEW v \in (s - 1) * Length..s * Length
      PROVE  /\ clip(v, s) = v - (s - 1) * Length
             /\ \A r \in D : r < s => clip(v, r) = Length
             /\ \A r \in D : s < r => clip(v, r) = 0
  <2>1. v \in Int /\ (s - 1) * Length <= v /\ v <= (s - 1) * Length + Length
    BY <1>1
  <2>2. clip(v, s) = v - (s - 1) * Length
    <3> DEFINE o == (s - 1) * Length
    <3>1. o \in Int /\ o <= v /\ v <= o + Length
      BY <1>1, <2>1
    <3> HIDE DEF o
    <3>2. Clip(v - o, 0, Length) = v - o
      BY <1>1, <2>1, <3>1 DEF Clip
    <3> QED
      BY <3>2 DEF o
  <2>3. ASSUME NEW r \in D, r < s PROVE clip(v, r) = Length
    <3> DEFINE o == (r - 1) * Length
    <3>1. (s - 1 - r) * Length >= 0
      <4>1. s - 1 - r \in Nat
        BY <1>1, <2>3
      <4> QED
        BY <1>1, <4>1
    <3>2. (s - 1 - r) * Length = (s - 1) * Length - r * Length
      BY <1>1
    <3>3. o + Length <= v /\ o \in Int /\ v \in Int /\ Length \in Nat
      BY <1>1, <2>1, <3>1, <3>2
    <3> HIDE DEF o
    <3>4. Clip(v - o, 0, Length) = Length
      BY <3>3 DEF Clip
    <3> QED
      BY <3>4 DEF o
  <2>4. ASSUME NEW r \in D, s < r PROVE clip(v, r) = 0
    <3> DEFINE o == (r - 1) * Length
    <3>1. (r - 1 - s) * Length >= 0
      <4>1. r - 1 - s \in Nat
        BY <1>1, <2>4
      <4> QED
        BY <1>1, <4>1
    <3>2. (r - 1 - s) * Length = (r - 1) * Length - s * Length
      BY <1>1
    <3>3. v <= o /\ o \in Int /\ v \in Int /\ Length \in Nat
      BY <1>1, <2>1, <3>1, <3>2
    <3> HIDE DEF o
    <3>4. Clip(v - o, 0, Length) = 0
      BY <3>3 DEF Clip
    <3> QED
      BY <3>4 DEF o
  <2> HIDE DEF clip
  <2> QED
    BY <2>2, <2>3, <2>4
<1>4. /\ Whole(Within(c, t), D) /\ Whole(Within(c, u), D)
      /\ \A r \in D : /\ Within(c, t)[r] = clip(t, r) * Slope(c, r)
                      /\ Within(c, u)[r] = clip(u, r) * Slope(c, r)
                      /\ Slope(c, r) \in Nat
  <2>1. /\ Whole(Within(c, t), D)
        /\ \A r \in D : Within(c, t)[r] = clip(t, r) * Slope(c, r) /\ Slope(c, r) \in Nat
    BY <1>2, WithinIs
  <2>2. /\ Whole(Within(c, u), D)
        /\ \A r \in D : Within(c, u)[r] = clip(u, r) * Slope(c, r)
    BY <1>2, WithinIs
  <2> QED
    BY <2>1, <2>2
<1>5. /\ clip(t, s) = t - (s - 1) * Length
      /\ \A r \in D : r < s => clip(t, r) = Length
      /\ \A r \in D : s < r => clip(t, r) = 0
  BY <1>3
<1>6. /\ clip(u, s) = u - (s - 1) * Length
      /\ \A r \in D : r < s => clip(u, r) = Length
      /\ \A r \in D : s < r => clip(u, r) = 0
  BY <1>3
<1> HIDE DEF clip
<1>7. \A r \in D \ {s} : Within(c, u)[r] = Within(c, t)[r]
  <2> TAKE r \in D \ {s}
  <2>1. r < s \/ s < r
    BY <1>1
  <2>2. clip(t, r) = clip(u, r)
    BY <1>5, <1>6, <2>1
  <2> QED
    BY <1>4, <2>2
<1>8. Total(D, Within(c, u)) - Total(D, Within(c, t)) = Within(c, u)[s] - Within(c, t)[s]
  <2> HIDE DEF D
  <2>1. s \in D
    BY DEF D
  <2> QED
    BY <1>4, <1>7, <2>1, TotalsDiffer
<1>9. Within(c, u)[s] - Within(c, t)[s] = (u - t) * Slope(c, s)
  <2> DEFINE o == (s - 1) * Length
             h == Slope(c, s)
  <2>1. o \in Int /\ h \in Int
    BY <1>1, <1>4
  <2>2. Within(c, u)[s] = (u - o) * h /\ Within(c, t)[s] = (t - o) * h
    BY <1>4, <1>5, <1>6
  <2> HIDE DEF o, h
  <2> QED
    BY <1>2, <2>1, <2>2 DEF h
<1> QED
  BY <1>8, <1>9 DEF Local

-----------------------------------------------------------------------------
(* Events on a line: any two of them, at different times, have the same    *)
(* consensus.                                                              *)

LEMMA AbsTimes ==
    ASSUME NEW a \in Int, NEW b \in Int
    PROVE  Abs(a) \in Nat /\ Abs(b) \in Nat /\ Abs(a * b) = Abs(a) * Abs(b)
<1>1. /\ a >= 0 /\ b >= 0 => a * b >= 0
      /\ a >= 0 /\ b < 0 => a * b <= 0 /\ a * (-b) = -(a * b)
      /\ a < 0 /\ b >= 0 => a * b <= 0 /\ (-a) * b = -(a * b)
      /\ a < 0 /\ b < 0 => a * b >= 0 /\ (-a) * (-b) = a * b
  OBVIOUS
<1>2. a * b \in Int
  OBVIOUS
<1>3. CASE a >= 0 /\ b >= 0
  BY <1>1, <1>3 DEF Abs
<1>4. CASE a >= 0 /\ b < 0
  <2>1. Abs(a * b) = -(a * b)
    BY <1>1, <1>2, <1>4 DEF Abs
  <2>2. Abs(a) = a /\ Abs(b) = -b
    BY <1>4 DEF Abs
  <2> QED
    BY <1>1, <1>4, <2>1, <2>2
<1>5. CASE a < 0 /\ b >= 0
  <2>1. Abs(a * b) = -(a * b)
    BY <1>1, <1>2, <1>5 DEF Abs
  <2>2. Abs(a) = -a /\ Abs(b) = b
    BY <1>5 DEF Abs
  <2> QED
    BY <1>1, <1>5, <2>1, <2>2
<1>6. CASE a < 0 /\ b < 0
  <2>1. Abs(a * b) = a * b
    BY <1>1, <1>2, <1>6 DEF Abs
  <2>2. Abs(a) = -a /\ Abs(b) = -b
    BY <1>6 DEF Abs
  <2> QED
    BY <1>1, <1>6, <2>1, <2>2
<1> QED
  BY <1>3, <1>4, <1>5, <1>6

LEMMA InProportion ==
    ASSUME NEW a \in Int \ {0}, NEW c \in Int, NEW r \in Int, NEW s \in Int, NEW t \in Nat,
           a * s = c * r, Abs(r) <= t * Abs(a)
    PROVE  Abs(s) <= t * Abs(c)
<1> DEFINE A == Abs(a)
           C == Abs(c)
           R == Abs(r)
           S == Abs(s)
<1>1. A \in Nat \ {0} /\ C \in Nat /\ R \in Nat /\ S \in Nat
  BY DEF Abs
<1>2. A * S = C * R
  <2>1. Abs(a * s) = A * S
    BY AbsTimes
  <2>2. Abs(c * r) = C * R
    BY AbsTimes
  <2> QED
    BY <2>1, <2>2
<1>3. R <= t * A
  OBVIOUS
<1> HIDE DEF A, C, R, S
<1>4. C * R <= C * (t * A)
  <2>1. t * A \in Int
    BY <1>1
  <2>2. \A m, n \in Int : m <= n => C * m <= C * n
    <3> TAKE m \in Int, n \in Int
    <3> HAVE m <= n
    <3>1. C * (n - m) >= 0
      <4>1. n - m \in Nat
        OBVIOUS
      <4> QED
        BY <1>1, <4>1
    <3> QED
      BY <1>1, <3>1
  <2> QED
    BY <1>1, <1>3, <2>1, <2>2
<1>5. S <= t * C
  <2> SUFFICES ASSUME t * C < S PROVE FALSE
    BY <1>1
  <2> DEFINE tc == t * C
  <2>1. tc \in Int
    BY <1>1
  <2> HIDE DEF tc
  <2>2. A * tc + A <= A * S
    BY <1>1, <2>1, Scaled DEF tc
  <2>3. A * tc = C * (t * A)
    <3>1. A * (t * C) = C * (t * A)
      BY <1>1
    <3> QED
      BY <3>1 DEF tc
  <2>4. A * tc \in Int
    BY <1>1, <2>1
  <2> QED
    BY <1>1, <1>2, <1>4, <2>2, <2>3, <2>4
<1> QED
  BY <1>5 DEF S, C

LEMMA Proportional ==
    ASSUME NEW a \in Int, NEW b \in Int, NEW c \in Int, NEW d \in Int,
           NEW e \in Int, NEW f \in Int, NEW u \in Int, NEW v \in Int,
           a * e = f * b, a * (d + e) = (c + f) * b
    PROVE  a * (d * u - c * v) = c * (b * (u + f) - a * (v + e))
<1>1. a * d = c * b
  <2>1. a * (d + e) = a * d + a * e /\ (c + f) * b = c * b + f * b
    OBVIOUS
  <2>2. a * d \in Int /\ a * e \in Int /\ c * b \in Int /\ f * b \in Int
    OBVIOUS
  <2> QED
    BY <2>1, <2>2
<1>2. a * (d * u - c * v) = (a * d) * u - a * c * v
  OBVIOUS
<1>3. b * (u + f) - a * (v + e) = b * u - a * v
  <2>1. b * (u + f) = b * u + f * b /\ a * (v + e) = a * v + a * e
    OBVIOUS
  <2>2. b * u \in Int /\ a * v \in Int /\ a * e \in Int /\ f * b \in Int
    OBVIOUS
  <2> QED
    BY <2>1, <2>2
<1>4. c * (b * u - a * v) = (c * b) * u - a * c * v
  OBVIOUS
<1> QED
  BY <1>1, <1>2, <1>3, <1>4

LEMMA ConsensusAlong ==
    ASSUME Inputs, NEW C \in SUBSET Event, OnLine(C), NEW p \in C, NEW q \in C, x[p] # x[q],
           NEW i \in C, NEW j \in C, NEW k \in Consensus(p, q)
    PROVE  k \in Consensus(i, j)
<1> DEFINE a == x[q] - x[p]
           b == y[q] - y[p]
           c == x[j] - x[i]
           d == y[j] - y[i]
           e == y[i] - y[p]
           f == x[i] - x[p]
           u == x[k] - x[i]
           v == y[k] - y[i]
<1>1. /\ k \in Event /\ \A n \in Event : x[n] \in Int /\ y[n] \in Int
      /\ p \in Event /\ q \in Event /\ i \in Event /\ j \in Event
  BY Events DEF Consensus
<1>2. /\ a \in Int \ {0} /\ b \in Int /\ c \in Int /\ d \in Int
      /\ e \in Int /\ f \in Int /\ u \in Int /\ v \in Int
  BY <1>1
<1>3. a * e = f * b
  BY DEF OnLine
<1>4. a * (d + e) = (c + f) * b
  <2>1. d + e = y[j] - y[p] /\ c + f = x[j] - x[p]
    BY <1>1
  <2>2. a * (y[j] - y[p]) = (x[j] - x[p]) * b
    BY DEF OnLine
  <2> QED
    BY <2>1, <2>2
<1>5. Abs(b * (u + f) - a * (v + e)) <= Threshold * Abs(a)
  <2>1. u + f = x[k] - x[p] /\ v + e = y[k] - y[p]
    BY <1>1
  <2>2. Abs(b * (x[k] - x[p]) - a * (y[k] - y[p])) <= Threshold * Abs(a)
    BY DEF Consensus
  <2> QED
    BY <2>1, <2>2
<1>6. k \in Consensus(i, j) <=> Abs(d * u - c * v) <= Threshold * Abs(c)
  BY <1>1 DEF Consensus
<1> HIDE DEF a, b, c, d, e, f, u, v
<1>7. a * (d * u - c * v) = c * (b * (u + f) - a * (v + e))
  BY <1>2, <1>3, <1>4, Proportional
<1> DEFINE r == b * (u + f) - a * (v + e)
           s == d * u - c * v
<1>8. r \in Int /\ s \in Int /\ Threshold \in Nat
  BY <1>2, NumberAssumption
<1> HIDE DEF r, s
<1>9. a * s = c * r /\ Abs(r) <= Threshold * Abs(a)
  BY <1>5, <1>7 DEF r, s
<1>10. Abs(s) <= Threshold * Abs(c)
  BY <1>2, <1>8, <1>9, InProportion
<1> QED
  BY <1>6, <1>10 DEF s

LEMMA SameConsensus ==
    ASSUME Inputs, NEW C \in SUBSET Event, OnLine(C),
           NEW p \in C, NEW q \in C, x[p] # x[q], NEW i \in C, NEW j \in C, x[i] # x[j]
    PROVE  Consensus(p, q) = Consensus(i, j)
<1>1. \A k \in Consensus(p, q) : k \in Consensus(i, j)
  BY ConsensusAlong
<1>2. \A k \in Consensus(i, j) : k \in Consensus(p, q)
  BY ConsensusAlong
<1> QED
  BY <1>1, <1>2

(* Which of the two events comes first does not matter.                    *)
LEMMA ConsensusSym ==
    ASSUME Inputs, NEW i \in Event, NEW j \in Event, x[i] # x[j]
    PROVE  Consensus(i, j) = Consensus(j, i)
<1> DEFINE C == {i, j}
<1>1. /\ x[i] \in Int /\ x[j] \in Int /\ y[i] \in Int /\ y[j] \in Int
  BY Events
<1>2. OnLine(C)
  <2> SUFFICES ASSUME NEW p \in C, NEW q \in C, NEW r \in C
               PROVE  (x[q] - x[p]) * (y[r] - y[p]) = (x[r] - x[p]) * (y[q] - y[p])
    BY DEF OnLine
  <2>1. x[p] - x[p] = 0 /\ y[p] - y[p] = 0
    BY <1>1
  <2>2. p = q \/ p = r \/ q = r
    OBVIOUS
  <2>3. /\ x[q] - x[p] \in Int /\ y[q] - y[p] \in Int
        /\ x[r] - x[p] \in Int /\ y[r] - y[p] \in Int
    BY <1>1
  <2> QED
    BY <2>1, <2>2, <2>3
<1>3. C \in SUBSET Event /\ i \in C /\ j \in C
  OBVIOUS
<1> HIDE DEF C
<1> QED
  BY <1>2, <1>3, SameConsensus

-----------------------------------------------------------------------------
(* The fit to events on a line is that line: the square root of its rate   *)
(* is that of a square.                                                    *)

LEMMA Cancel ==
    ASSUME NEW k \in Nat \ {0}, NEW u \in Int, NEW v \in Int
    PROVE  k * u <= k * v <=> u <= v
<1>1. k * u \in Int /\ k * v \in Int /\ k * (v - u) = k * v - k * u
  OBVIOUS
<1>2. u <= v => k * (v - u) >= 0
  <2> SUFFICES ASSUME u <= v PROVE k * (v - u) >= 0
    OBVIOUS
  <2>1. v - u \in Nat
    OBVIOUS
  <2> QED
    BY <2>1
<1>3. v < u => k * v + k <= k * u
  BY Scaled
<1> QED
  BY <1>1, <1>2, <1>3

LEMMA Squares ==
    ASSUME NEW a \in Nat, NEW b \in Nat
    PROVE  a * a <= b * b <=> a <= b
<1>1. CASE a <= b
  <2>1. (b - a) * (b + a) >= 0
    <3>1. b - a \in Nat /\ b + a \in Nat
      BY <1>1
    <3> QED
      BY <3>1
  <2>2. (b - a) * (b + a) = b * b - a * a
    OBVIOUS
  <2> QED
    BY <1>1, <2>1, <2>2
<1>2. CASE b < a
  <2>1. (a - b) * (a + b) >= 1
    <3>1. a - b \in Nat \ {0} /\ a + b \in Nat \ {0}
      BY <1>2
    <3>2. \A m, n \in Nat \ {0} : m * n >= 1
      <4> TAKE m \in Nat \ {0}, n \in Nat \ {0}
      <4>1. (m - 1) * n >= 0
        <5>1. m - 1 \in Nat
          OBVIOUS
        <5> QED
          BY <5>1
      <4> QED
        BY <4>1
    <3> QED
      BY <3>1, <3>2
  <2>2. (a - b) * (a + b) = a * a - b * b
    OBVIOUS
  <2> QED
    BY <1>2, <2>1, <2>2
<1> QED
  BY <1>1, <1>2

LEMMA RootIs ==
    ASSUME NEW r \in Int, NEW k \in Nat \ {0}, NEW h \in Nat, NEW u \in Int, NEW w \in Int,
           k * k * r = h * h
    PROVE  RootLeq(r, u, w) <=> h * u <= k * w
<1> DEFINE U == h * u
           W == k * w
           l == r * u * u
           s == w * w
<1>1. U \in Int /\ W \in Int /\ l \in Int /\ s \in Int /\ k * k \in Nat \ {0}
  <2>1. k * k >= 1
    <3>1. (k - 1) * k >= 0
      <4>1. k - 1 \in Nat
        OBVIOUS
      <4> QED
        BY <4>1
    <3> QED
      BY <3>1
  <2> QED
    BY <2>1
<1>2. k * k * l = U * U
  <2>1. k * k * l = (k * k * r) * u * u
    OBVIOUS
  <2>2. (h * h) * u * u = (h * u) * (h * u)
    OBVIOUS
  <2> QED
    BY <2>1, <2>2
<1>3. k * k * s = W * W
  <2>1. k * k * (w * w) = (k * w) * (k * w)
    OBVIOUS
  <2> QED
    BY <2>1
<1>4. (w >= 0 <=> W >= 0) /\ (u >= 0 => U >= 0) /\ (u < 0 => U <= 0)
  <2>1. w >= 0 => W >= 0
    OBVIOUS
  <2>2. w < 0 => W < 0
    <3> SUFFICES ASSUME w < 0 PROVE k * w < 0
      OBVIOUS
    <3>1. k * w + k <= k * 0
      BY Scaled
    <3>2. k * w \in Int
      OBVIOUS
    <3> QED
      BY <3>1, <3>2
  <2>3. u < 0 => U <= 0
    OBVIOUS
  <2>4. u >= 0 => U >= 0
    OBVIOUS
  <2> HIDE DEF U, W
  <2> QED
    BY <1>1, <2>1, <2>2, <2>3, <2>4
<1>5. RootLeq(r, u, w) <=> IF u >= 0 THEN w >= 0 /\ l <= s ELSE w >= 0 \/ l >= s
  BY DEF RootLeq
<1> HIDE DEF U, W, l, s
<1>6. l <= s <=> U * U <= W * W
  <2>1. k * k * l <= k * k * s <=> l <= s
    <3> DEFINE kk == k * k
    <3>1. kk \in Nat \ {0}
      BY <1>1
    <3> HIDE DEF kk
    <3>2. kk * l <= kk * s <=> l <= s
      BY <1>1, <3>1, Cancel
    <3> QED
      BY <3>2 DEF kk
  <2> QED
    BY <1>2, <1>3, <2>1
<1>7. s <= l <=> W * W <= U * U
  <2>1. k * k * s <= k * k * l <=> s <= l
    <3> DEFINE kk == k * k
    <3>1. kk \in Nat \ {0}
      BY <1>1
    <3> HIDE DEF kk
    <3>2. kk * s <= kk * l <=> s <= l
      BY <1>1, <3>1, Cancel
    <3> QED
      BY <3>2 DEF kk
  <2> QED
    BY <1>2, <1>3, <2>1
<1>8. RootLeq(r, u, w) <=> U <= W
  <2>1. CASE u >= 0 /\ w >= 0
    <3>1. U \in Nat /\ W \in Nat
      BY <1>1, <1>4, <2>1
    <3> QED
      BY <1>5, <1>6, <2>1, <3>1, Squares
  <2>2. CASE u >= 0 /\ w < 0
    <3>1. U >= 0 /\ ~(W >= 0)
      BY <1>4, <2>2
    <3> QED
      BY <1>1, <1>5, <2>2, <3>1
  <2>3. CASE u < 0 /\ w >= 0
    <3>1. U <= 0 /\ W >= 0
      BY <1>4, <2>3
    <3> QED
      BY <1>1, <1>5, <2>3, <3>1
  <2>4. CASE u < 0 /\ w < 0
    <3>1. -U \in Nat /\ -W \in Nat
      BY <1>1, <1>4, <2>4
    <3>2. (-W) * (-W) <= (-U) * (-U) <=> -W <= -U
      BY <3>1, Squares
    <3>3. (-W) * (-W) = W * W /\ (-U) * (-U) = U * U
      BY <1>1
    <3>4. RootLeq(r, u, w) <=> s <= l
      BY <1>1, <1>5, <2>4
    <3> QED
      BY <1>1, <1>7, <3>2, <3>3, <3>4
  <2> QED
    BY <2>1, <2>2, <2>3, <2>4
<1> QED
  BY <1>8 DEF U, W

(* The moments of events on a line of rate b / a, with e = b s / a and     *)
(* s = b m / a, make the fitted rate b / a.                                *)
LEMMA RateOfLine ==
    ASSUME NEW a \in Nat \ {0}, NEW b \in Nat \ {0}, NEW m \in Nat \ {0},
           NEW s \in Int, NEW e \in Int, a * s = b * m, a * e = b * s,
           NEW u \in Int, NEW c \in Int
    PROVE  /\ s > 0
           /\ RootLeq((e - m) * (e - m) + 4 * s * s, u, 2 * Abs(s) * c - (e - m) * u)
                <=> b * u <= a * c
<1> DEFINE d == e - m
           r == d * d + 4 * s * s
           k == a * a
           h == m * (a * a + b * b)
           w == 2 * Abs(s) * c - d * u
<1>1. \A i, j \in Nat \ {0} : i * j \in Nat \ {0}
  <2> TAKE i \in Nat \ {0}, j \in Nat \ {0}
  <2>1. (i - 1) * j >= 0
    <3>1. i - 1 \in Nat
      OBVIOUS
    <3> QED
      BY <3>1
  <2> QED
    BY <2>1
<1>2. s > 0
  <2>1. b * m \in Nat \ {0}
    BY <1>1
  <2>2. ~(s <= 0)
    <3> SUFFICES ASSUME s <= 0 PROVE FALSE
      OBVIOUS
    <3>1. a * s <= a * 0
      <4>1. 0 \in Int
        OBVIOUS
      <4> QED
        BY <4>1, Cancel
    <3> QED
      BY <2>1, <3>1
  <2> QED
    BY <2>2
<1>3. /\ d \in Int /\ r \in Int /\ w \in Int
      /\ k \in Nat \ {0} /\ a * a + b * b \in Nat \ {0} /\ h \in Nat
  <2>1. a * a \in Nat \ {0} /\ b * b \in Nat \ {0}
    BY <1>1
  <2>2. a * a + b * b \in Nat \ {0}
    BY <2>1
  <2>3. h \in Nat
    BY <1>1, <2>2
  <2>4. Abs(s) \in Int
    BY DEF Abs
  <2> QED
    BY <2>1, <2>2, <2>3, <2>4
<1>4. k * s = a * b * m
  <2>1. k * s = a * (a * s)
    OBVIOUS
  <2>2. a * (b * m) = a * b * m
    OBVIOUS
  <2> QED
    BY <2>1, <2>2
<1>5. k * d = b * b * m - a * a * m
  <2>1. k * e = a * (a * e)
    OBVIOUS
  <2>2. a * (b * s) = b * (a * s)
    OBVIOUS
  <2>3. b * (b * m) = b * b * m
    OBVIOUS
  <2>4. k * e = b * b * m
    BY <2>1, <2>2, <2>3
  <2>5. k * d = k * e - k * m
    OBVIOUS
  <2> QED
    BY <2>4, <2>5
<1>6. k * k * r = h * h
  <2>1. k * k * r = (k * d) * (k * d) + 4 * (k * s) * (k * s)
    <3>1. \A i, j, l \in Int : i * i * (j * j + 4 * l * l) = (i * j) * (i * j) + 4 * (i * l) * (i * l)
      OBVIOUS
    <3>2. k \in Int /\ d \in Int /\ s \in Int
      BY <1>3
    <3> HIDE DEF k, d
    <3> QED
      BY <3>1, <3>2
  <2>2. (b * b * m - a * a * m) * (b * b * m - a * a * m) + 4 * (a * b * m) * (a * b * m)
          = (m * (a * a + b * b)) * (m * (a * a + b * b))
    OBVIOUS
  <2> HIDE DEF k, d, r
  <2> QED
    BY <1>4, <1>5, <2>1, <2>2
<1>7. k * w = 2 * (a * b * m) * c - (b * b * m - a * a * m) * u
  <2>1. Abs(s) = s
    BY <1>2 DEF Abs
  <2>2. \A i, j, l \in Int : i * (2 * j * c - l * u) = 2 * (i * j) * c - (i * l) * u
    OBVIOUS
  <2>3. k \in Int /\ d \in Int /\ s \in Int
    BY <1>3
  <2> HIDE DEF k, d
  <2> QED
    BY <1>4, <1>5, <2>1, <2>2, <2>3
<1> DEFINE z == 2 * b * m
<1>8. z \in Nat \ {0}
  <2>1. b * m \in Nat \ {0}
    BY <1>1
  <2> QED
    BY <2>1
<1>9. h * u <= k * w <=> z * (b * u) <= z * (a * c)
  <2>1. h * u = m * a * a * u + m * b * b * u
    OBVIOUS
  <2>2. z * (b * u) = 2 * (m * b * b * u) /\ z * (a * c) = 2 * (a * b * m) * c
    OBVIOUS
  <2>3. (b * b * m - a * a * m) * u = m * b * b * u - m * a * a * u
    OBVIOUS
  <2>4. /\ m * a * a * u \in Int /\ m * b * b * u \in Int /\ 2 * (a * b * m) * c \in Int
    OBVIOUS
  <2> HIDE DEF h, k, w, z
  <2> QED
    BY <1>7, <2>1, <2>2, <2>3, <2>4
<1>10. b * u \in Int /\ a * c \in Int
  OBVIOUS
<1> HIDE DEF r, k, h, w, z
<1>11. RootLeq(r, u, w) <=> h * u <= k * w
  BY <1>3, <1>6, RootIs
<1>12. z * (b * u) <= z * (a * c) <=> b * u <= a * c
  BY <1>8, <1>10, Cancel
<1> QED
  BY <1>2, <1>9, <1>11, <1>12 DEF r, w

(* What the moments are made of.                                           *)
Offs(S, v) == [i \in S |-> Off(S, v, i)]
Terms(S, v, w) == [i \in S |-> Off(S, v, i) * w[i]]

LEMMA Moments ==
    ASSUME NEW S, NEW v, NEW w, Whole(v, S), Whole(w, S)
    PROVE  /\ Cardinality(S) \in Nat /\ Total(S, v) \in Int
           /\ \A i \in S : Off(S, v, i) \in Int /\ Off(S, v, i) = Cardinality(S) * v[i] - Total(S, v)
           /\ Whole(Offs(S, v), S) /\ Total(S, Offs(S, v)) = 0
           /\ Whole(Terms(S, v, w), S) /\ Moment(S, v, w) = Total(S, Terms(S, v, w))
           /\ Moment(S, v, w) \in Int
<1> DEFINE n == Cardinality(S)
           t == Total(S, v)
           o == [i \in S |-> Off(S, v, i)]
           f == [i \in S |-> Off(S, v, i) * w[i]]
<1>1. n \in Nat /\ t \in Int
  BY TotalWhole, FS_CardinalityType DEF Whole
<1>2. \A i \in S : v[i] \in Int /\ w[i] \in Int /\ o[i] = Off(S, v, i) /\ o[i] = n * v[i] - t
  BY DEF Whole, Off
<1> HIDE DEF n, t
<1>3. \A i \in S : n * v[i] - t \in Int
  BY <1>1, <1>2
<1>4. Whole(o, S)
  BY <1>2, <1>3 DEF Whole
<1>5. \A i \in S : f[i] = o[i] * w[i] /\ o[i] * w[i] \in Int
  BY <1>2, <1>3
<1>6. Whole(f, S)
  BY <1>5 DEF Whole
<1> HIDE DEF o
<1>7. Total(S, o) = 0
  <2>1. PICK u \in Int, k \in Int : u = 1 /\ k = -t
    BY <1>1
  <2>2. \A i \in S : u * o[i] = n * v[i] + k
    <3> TAKE i \in S
    <3>1. o[i] = n * v[i] - t /\ n * v[i] \in Int
      BY <1>1, <1>2
    <3> QED
      BY <1>1, <2>1, <3>1
  <2>3. n \in Int
    BY <1>1
  <2>4. u * Total(S, o) = n * Total(S, v) + Cardinality(S) * k
    BY <1>4, <2>2, <2>3, TotalsLinear
  <2>5. Total(S, o) \in Int /\ n * t \in Int /\ n * (-t) = -(n * t)
    BY <1>1, <1>4, TotalWhole
  <2>6. 1 * Total(S, o) = n * t + n * (-t)
    BY <2>1, <2>4 DEF n, t
  <2> QED
    BY <2>5, <2>6
<1>8. Moment(S, v, w) = Total(S, f)
  BY DEF Moment
<1> HIDE DEF f
<1>9. Moment(S, v, w) \in Int
  BY <1>6, <1>8, TotalWhole
<1>10. \A i \in S : Off(S, v, i) \in Int /\ Off(S, v, i) = n * v[i] - t
  BY <1>2, <1>3
<1> QED
  BY <1>1, <1>4, <1>6, <1>7, <1>8, <1>9, <1>10 DEF n, t, o, f, Offs, Terms

LEMMA MomentsOnLine ==
    ASSUME Inputs, NEW C \in SUBSET Event, OnLine(C), NEW p \in C, NEW q \in C,
           NEW a \in Nat \ {0}, a = x[q] - x[p], NEW b \in Int, b = y[q] - y[p]
    PROVE  /\ Cardinality(C) \in Nat /\ Cardinality(C) >= 2
           /\ Moment(C, x, x) \in Nat \ {0} /\ Moment(C, x, y) \in Int /\ Moment(C, y, y) \in Int
           /\ a * Moment(C, x, y) = b * Moment(C, x, x)
           /\ a * Moment(C, y, y) = b * Moment(C, x, y)
           /\ a * Total(C, y) = b * Total(C, x) + Cardinality(C) * (a * y[p] - b * x[p])
<1> DEFINE n == Cardinality(C)
           k == a * y[p] - b * x[p]
           tx == Total(C, x)
           ty == Total(C, y)
           ox == Offs(C, x)
           oxx == Terms(C, x, x)
           oxy == Terms(C, x, y)
           oyy == Terms(C, y, y)
           sq == [i \in C |-> Off(C, x, i) * Off(C, x, i)]
<1>1. /\ IsFiniteSet(Event) /\ \A i \in Event : x[i] \in Int /\ y[i] \in Int
      /\ p \in Event /\ q \in Event /\ p # q
  BY Events
<1>2. IsFiniteSet(C) /\ n \in Nat
  BY <1>1, FS_Subset, FS_CardinalityType
<1>3. n >= 2
  <2>1. n # 0
    BY <1>2, FS_EmptySet
  <2>2. n # 1
    <3> SUFFICES ASSUME n = 1 PROVE FALSE
      OBVIOUS
    <3>1. Cardinality(C \ {p}) = n - 1 /\ IsFiniteSet(C \ {p})
      BY <1>2, FS_RemoveElement
    <3>2. C \ {p} = {}
      BY <1>2, <3>1, FS_EmptySet
    <3> QED
      BY <1>1, <3>2
  <2> QED
    BY <1>2, <2>1, <2>2
<1>4. Whole(x, C) /\ Whole(y, C)
  BY <1>1, <1>2 DEF Whole
<1>5. k \in Int /\ \A i \in C : a * y[i] = b * x[i] + k
  <2>1. k \in Int
    BY <1>1
  <2>2. ASSUME NEW i \in C PROVE a * y[i] = b * x[i] + k
    <3>1. a * (y[i] - y[p]) = (x[i] - x[p]) * b
      BY DEF OnLine
    <3>2. /\ x[i] \in Int /\ y[i] \in Int /\ x[p] \in Int /\ y[p] \in Int
      BY <1>1
    <3>3. \A xi, yi, xp, yp \in Int : a * (yi - yp) = (xi - xp) * b =>
             a * yi = b * xi + (a * yp - b * xp)
      <4> TAKE xi \in Int, yi \in Int, xp \in Int, yp \in Int
      <4>1. a * (yi - yp) = a * yi - a * yp /\ (xi - xp) * b = b * xi - b * xp
        OBVIOUS
      <4>2. a * yi \in Int /\ a * yp \in Int /\ b * xi \in Int /\ b * xp \in Int
        OBVIOUS
      <4> QED
        BY <4>1, <4>2
    <3> QED
      BY <3>1, <3>2, <3>3
  <2> QED
    BY <2>1, <2>2
<1>6. \A i \in C : x[i] \in Int /\ y[i] \in Int
  BY <1>1
<1> HIDE DEF n, k
<1>7. a * ty = b * tx + n * k
  <2>1. a \in Int
    OBVIOUS
  <2>2. a * Total(C, y) = b * Total(C, x) + Cardinality(C) * k
    BY <1>4, <1>5, <2>1, TotalsLinear
  <2> QED
    BY <2>2 DEF n
<1>8. /\ tx \in Int /\ \A i \in C : Off(C, x, i) \in Int /\ Off(C, x, i) = n * x[i] - tx
      /\ Whole(ox, C) /\ Total(C, ox) = 0
      /\ Whole(oxx, C) /\ Moment(C, x, x) = Total(C, oxx) /\ Moment(C, x, x) \in Int
  BY <1>4, Moments DEF n
<1>9. Whole(oxy, C) /\ Moment(C, x, y) = Total(C, oxy) /\ Moment(C, x, y) \in Int
  BY <1>4, Moments
<1>10. /\ ty \in Int /\ \A i \in C : Off(C, y, i) \in Int /\ Off(C, y, i) = n * y[i] - ty
       /\ Whole(oyy, C) /\ Moment(C, y, y) = Total(C, oyy) /\ Moment(C, y, y) \in Int
  BY <1>4, Moments DEF n
<1>11. \A i \in C : a * Off(C, y, i) = b * Off(C, x, i)
  <2> TAKE i \in C
  <2>1. a * (n * y[i] - ty) = n * (a * y[i]) - a * ty
    BY <1>2, <1>6, <1>10 DEF n
  <2>2. b * (n * x[i] - tx) = n * (b * x[i]) - b * tx
    BY <1>2, <1>6, <1>8 DEF n
  <2>3. n * (b * x[i] + k) = n * (b * x[i]) + n * k
    BY <1>2, <1>5, <1>6 DEF n
  <2>4. n * (b * x[i]) \in Int /\ n * k \in Int /\ b * tx \in Int
    BY <1>2, <1>5, <1>6, <1>8 DEF n
  <2>5. a * y[i] = b * x[i] + k
    BY <1>5
  <2>6. a * (n * y[i] - ty) = b * (n * x[i] - tx)
    BY <1>7, <2>1, <2>2, <2>3, <2>4, <2>5
  <2> QED
    BY <1>8, <1>10, <2>6
<1>12. a * Moment(C, x, y) = b * Moment(C, x, x)
  <2>1. \A i \in C : a * oxy[i] = b * oxx[i] + k * ox[i] + 0
    <3> TAKE i \in C
    <3>1. PICK o \in Int, xi \in Int, yi \in Int : o = Off(C, x, i) /\ xi = x[i] /\ yi = y[i]
      BY <1>6, <1>8
    <3>2. oxy[i] = o * yi /\ oxx[i] = o * xi /\ ox[i] = o
      BY <3>1 DEF Offs, Terms
    <3>3. a * yi = b * xi + k
      BY <1>5, <3>1
    <3>4. a * (o * yi) = o * (a * yi) /\ o * (b * xi + k) = b * (o * xi) + k * o
      BY <1>5
    <3>5. b * (o * xi) + k * o \in Int
      BY <1>5
    <3> QED
      BY <3>2, <3>3, <3>4, <3>5
  <2>2. PICK z \in Int : z = 0
    OBVIOUS
  <2>3. Linear(C, a, oxy, b, oxx, k, ox, z)
    <3>1. \A i \in C : a * oxy[i] = b * oxx[i] + k * ox[i] + z
      BY <2>1, <2>2
    <3> QED
      BY <3>1 DEF Linear
  <2>4. a \in Int
    OBVIOUS
  <2> HIDE DEF ox, oxx, oxy
  <2>5. a * Total(C, oxy) = b * Total(C, oxx) + k * Total(C, ox) + Cardinality(C) * z
    <3>1. Whole(oxy, C) /\ Whole(oxx, C) /\ Whole(ox, C) /\ b \in Int /\ k \in Int /\ z \in Int
      BY <1>5, <1>8, <1>9
    <3> QED
      BY <2>3, <2>4, <3>1, TotalsCombine
  <2>6. b * Total(C, oxx) \in Int /\ Cardinality(C) * z = 0 /\ k * Total(C, ox) = 0
    BY <1>2, <1>5, <1>8, <2>2 DEF n
  <2> QED
    BY <1>8, <1>9, <2>5, <2>6
<1>13. a * Moment(C, y, y) = b * Moment(C, x, y)
  <2>1. \A i \in C : a * oyy[i] = b * oxy[i] + 0
    <3> TAKE i \in C
    <3>1. PICK o \in Int, r \in Int, yi \in Int :
            o = Off(C, x, i) /\ r = Off(C, y, i) /\ yi = y[i]
      BY <1>6, <1>8, <1>10
    <3>2. oxy[i] = o * yi /\ oyy[i] = r * yi
      BY <3>1 DEF Terms
    <3>3. a * r = b * o
      BY <1>11, <3>1
    <3>4. a * (r * yi) = (a * r) * yi /\ b * (o * yi) = (b * o) * yi
      OBVIOUS
    <3>5. b * (o * yi) \in Int
      OBVIOUS
    <3> QED
      BY <3>2, <3>3, <3>4, <3>5
  <2>2. PICK z \in Int : z = 0
    OBVIOUS
  <2>3. \A i \in C : a * oyy[i] = b * oxy[i] + z
    BY <2>1, <2>2
  <2>4. a \in Int
    OBVIOUS
  <2> HIDE DEF oyy, oxy
  <2>5. a * Total(C, oyy) = b * Total(C, oxy) + Cardinality(C) * z
    BY <1>9, <1>10, <2>3, <2>4, TotalsLinear
  <2>6. b * Total(C, oxy) \in Int /\ Cardinality(C) * z = 0
    BY <1>2, <1>9, <2>2 DEF n
  <2> QED
    BY <1>9, <1>10, <2>5, <2>6
<1>14. Moment(C, x, x) > 0
  <2>1. \A i \in C : Off(C, x, i) * Off(C, x, i) \in Nat
                     /\ (Off(C, x, i) # 0 => Off(C, x, i) * Off(C, x, i) > 0)
    <3>1. \A o \in Int : o * o \in Nat /\ (o # 0 => o * o > 0)
      OBVIOUS
    <3> QED
      BY <1>8, <3>1
  <2>2. sq \in [C -> Nat] /\ \A i \in C : sq[i] = Off(C, x, i) * Off(C, x, i)
    BY <2>1
  <2>3. \E i \in C : sq[i] > 0
    <3>1. Off(C, x, p) # 0 \/ Off(C, x, q) # 0
      <4>1. /\ Off(C, x, p) = n * x[p] - tx /\ Off(C, x, q) = n * x[q] - tx
            /\ x[p] \in Int /\ x[q] \in Int
        BY <1>6, <1>8
      <4>2. n * x[q] - n * x[p] = n * a
        BY <1>2, <4>1 DEF n
      <4>3. n * x[q] \in Int /\ n * x[p] \in Int
        BY <1>2, <4>1 DEF n
      <4>4. n * a > 0
        <5>1. n \in Nat \ {0}
          BY <1>2, <1>3 DEF n
        <5>2. n * 0 + n <= n * a
          BY <5>1, Scaled
        <5> QED
          BY <5>1, <5>2
      <4> QED
        BY <1>8, <4>1, <4>2, <4>3, <4>4
    <3> QED
      BY <2>1, <2>2, <3>1
  <2>4. \A i \in C : 1 * sq[i] = n * oxx[i] + (-tx) * ox[i] + 0
    <3> TAKE i \in C
    <3>1. PICK o \in Int, xi \in Int : o = Off(C, x, i) /\ xi = x[i] /\ o = n * xi - tx
      BY <1>6, <1>8
    <3>2. sq[i] = o * o /\ oxx[i] = o * xi /\ ox[i] = o
      BY <2>2, <3>1 DEF Offs, Terms
    <3>3. o * (n * xi - tx) = n * (o * xi) + (-tx) * o
      BY <1>2, <1>8 DEF n
    <3>4. o * o \in Int
      OBVIOUS
    <3> QED
      BY <3>1, <3>2, <3>3, <3>4
  <2>5. PICK u \in Int, z \in Int, r \in Int : u = 1 /\ z = 0 /\ r = -tx
    BY <1>8
  <2>6. Linear(C, u, sq, n, oxx, r, ox, z)
    <3>1. \A i \in C : u * sq[i] = n * oxx[i] + r * ox[i] + z
      BY <2>4, <2>5
    <3> QED
      BY <3>1 DEF Linear
  <2> HIDE DEF sq, oxx, ox
  <2>7. Whole(sq, C) /\ n \in Int
    BY <1>2, <2>2 DEF Whole, n
  <2>8. u * Total(C, sq) = n * Total(C, oxx) + r * Total(C, ox) + Cardinality(C) * z
    <3>1. Whole(oxx, C) /\ Whole(ox, C)
      BY <1>8
    <3> QED
      BY <2>6, <2>7, <3>1, TotalsCombine
  <2>9. Total(C, sq) > 0 /\ Total(C, sq) \in Nat
    BY <1>2, <2>2, <2>3, TotalPositive
  <2>10. Total(C, sq) = n * Moment(C, x, x)
    <3>1. r * Total(C, ox) = 0 /\ Cardinality(C) * z = 0
      BY <1>2, <1>8, <2>5 DEF n
    <3>2. n * Total(C, oxx) \in Int
      BY <1>8, <2>7
    <3> QED
      BY <1>8, <2>5, <2>8, <2>9, <3>1, <3>2
  <2>11. n \in Nat \ {0}
    BY <1>2, <1>3 DEF n
  <2> SUFFICES ASSUME Moment(C, x, x) <= 0 PROVE FALSE
    BY <1>8
  <2>12. 0 \in Int
    OBVIOUS
  <2>13. n * Moment(C, x, x) <= n * 0
    BY <1>8, <2>11, <2>12, Cancel
  <2> QED
    BY <2>9, <2>10, <2>11, <2>13
<1>15. Moment(C, x, x) \in Nat \ {0}
  BY <1>8, <1>14
<1> QED
  BY <1>2, <1>3, <1>7, <1>9, <1>10, <1>12, <1>13, <1>15 DEF n, k

(* A rate of 1, which is compared without a root, is compared alike.       *)
LEMMA RateIs ==
    ASSUME NEW S, ~OffsetOnly(S),
           NEW m \in Int, m = Moment(S, x, x), NEW s \in Nat \ {0}, s = Moment(S, x, y),
           NEW e \in Int, e = Moment(S, y, y), NEW u \in Int, NEW c \in Int
    PROVE  RateLeq(S, u, c) <=>
             RootLeq((e - m) * (e - m) + 4 * s * s, u, 2 * Abs(s) * c - (e - m) * u)
<1>1. CASE e - m # 0
  BY <1>1 DEF RateLeq
<1>2. CASE e - m = 0
  <2>1. RateLeq(S, u, c) <=> u <= c
    BY <1>2 DEF RateLeq
  <2>2. PICK r \in Int, k \in Nat \ {0}, h \in Nat \ {0}, w \in Int :
          /\ r = (e - m) * (e - m) + 4 * s * s /\ w = 2 * Abs(s) * c - (e - m) * u
          /\ k = 1 /\ h = 2 * s
    <3>1. PICK f \in Int, g \in Int : f = e - m /\ g = Abs(s)
      BY DEF Abs
    <3>2. f * f + 4 * s * s \in Int /\ 2 * g * c - f * u \in Int
      OBVIOUS
    <3>3. PICK r \in Int, w \in Int : r = f * f + 4 * s * s /\ w = 2 * g * c - f * u
      BY <3>2
    <3>4. PICK k \in Nat \ {0}, h \in Nat \ {0} : k = 1 /\ h = 2 * s
      OBVIOUS
    <3> QED
      BY <3>1, <3>3, <3>4
  <2>3. r = 4 * s * s /\ w = 2 * s * c
    <3>1. Abs(s) = s /\ 4 * s * s \in Int /\ 2 * s * c \in Int
      BY DEF Abs
    <3>2. (e - m) * (e - m) = 0 /\ (e - m) * u = 0
      BY <1>2
    <3> QED
      BY <2>2, <3>1, <3>2
  <2>4. k * k * r = h * h /\ h \in Nat
    <3>1. (2 * s) * (2 * s) = 4 * s * s
      OBVIOUS
    <3> QED
      BY <2>2, <2>3, <3>1
  <2>5. RootLeq(r, u, w) <=> h * u <= k * w
    BY <2>4, RootIs
  <2>6. k * w = h * c /\ (h * u <= h * c <=> u <= c)
    <3>1. k * w = h * c
      BY <2>2, <2>3
    <3>2. h * u <= h * c <=> u <= c
      BY Cancel
    <3> QED
      BY <3>1, <3>2
  <2> QED
    BY <2>1, <2>2, <2>5, <2>6
<1> QED
  BY <1>1, <1>2

LEMMA RateOnLine ==
    ASSUME Inputs, NEW C \in SUBSET Event, OnLine(C), NEW p \in C, NEW q \in C,
           NEW a \in Nat \ {0}, a = x[q] - x[p], NEW b \in Nat \ {0}, b = y[q] - y[p]
    PROVE  /\ Moment(C, x, y) > 0 /\ ~OffsetOnly(C)
           /\ \A u, c \in Int : RateLeq(C, u, c) <=> b * u <= a * c
<1>1. PICK m \in Nat \ {0}, s \in Int, e \in Int :
        /\ Cardinality(C) \in Nat /\ Cardinality(C) >= 2
        /\ m = Moment(C, x, x) /\ s = Moment(C, x, y) /\ e = Moment(C, y, y)
        /\ a * s = b * m /\ a * e = b * s
  <2>1. b \in Int
    OBVIOUS
  <2> QED
    BY <2>1, MomentsOnLine
<1>2. s > 0
  <2>1. 0 \in Int
    OBVIOUS
  <2> QED
    BY <1>1, <2>1, RateOfLine
<1>3. ~OffsetOnly(C)
  BY <1>1, <1>2 DEF OffsetOnly
<1>4. ASSUME NEW u \in Int, NEW c \in Int PROVE RateLeq(C, u, c) <=> b * u <= a * c
  <2>1. m \in Int /\ s \in Nat \ {0}
    BY <1>2
  <2>2. RateLeq(C, u, c) <=>
          RootLeq((e - m) * (e - m) + 4 * s * s, u, 2 * Abs(s) * c - (e - m) * u)
    BY <1>1, <1>3, <2>1, RateIs
  <2>3. RootLeq((e - m) * (e - m) + 4 * s * s, u, 2 * Abs(s) * c - (e - m) * u)
          <=> b * u <= a * c
    BY <1>1, RateOfLine
  <2> QED
    BY <2>2, <2>3
<1> QED
  BY <1>1, <1>2, <1>3, <1>4

LEMMA FitOnLine ==
    ASSUME Inputs, NEW C \in SUBSET Event, OnLine(C), NEW p \in C, NEW q \in C,
           x[p] < x[q], y[p] < y[q]
    PROVE  {k \in Event : Near(C, k)} = Consensus(p, q)
<1>1. \A i \in Event : x[i] \in Int /\ y[i] \in Int
  BY Events
<1>2. PICK a \in Nat \ {0}, b \in Nat \ {0} : a = x[q] - x[p] /\ b = y[q] - y[p]
  BY <1>1
<1>3. PICK n \in Nat \ {0}, m \in Nat \ {0}, s \in Int, e \in Int, tx \in Int, ty \in Int :
        /\ n = Cardinality(C) /\ n >= 2
        /\ m = Moment(C, x, x) /\ s = Moment(C, x, y) /\ e = Moment(C, y, y)
        /\ tx = Total(C, x) /\ ty = Total(C, y)
        /\ a * s = b * m /\ a * e = b * s
        /\ a * ty = b * tx + n * (a * y[p] - b * x[p])
  <2>1. b \in Int
    OBVIOUS
  <2>2. /\ Cardinality(C) \in Nat /\ Cardinality(C) >= 2
        /\ Moment(C, x, x) \in Nat \ {0} /\ Moment(C, x, y) \in Int /\ Moment(C, y, y) \in Int
        /\ a * Moment(C, x, y) = b * Moment(C, x, x)
        /\ a * Moment(C, y, y) = b * Moment(C, x, y)
        /\ a * Total(C, y) = b * Total(C, x) + Cardinality(C) * (a * y[p] - b * x[p])
    BY <1>2, <2>1, MomentsOnLine
  <2>3. Total(C, x) \in Int /\ Total(C, y) \in Int
    <3>1. IsFiniteSet(C)
      BY Events, FS_Subset
    <3>2. Whole(x, C) /\ Whole(y, C)
      BY <1>1, <3>1 DEF Whole
    <3> QED
      BY <3>2, TotalWhole
  <2>4. Cardinality(C) \in Nat \ {0}
    BY <2>2
  <2> QED
    BY <2>2, <2>3, <2>4
<1>6. \A u, c \in Int : RateLeq(C, u, c) <=> b * u <= a * c
  BY <1>2, RateOnLine
<1>7. ASSUME NEW k \in Event PROVE Near(C, k) <=> k \in Consensus(p, q)
  <2> DEFINE R == b * (x[k] - x[p]) - a * (y[k] - y[p])
             u == n * x[k] - tx
             v == n * y[k] - ty
             t == n * Threshold
  <2>1. /\ x[k] \in Int /\ y[k] \in Int /\ x[p] \in Int /\ y[p] \in Int /\ Threshold \in Nat
    BY <1>1, NumberAssumption
  <2>2. u \in Int /\ v \in Int /\ t \in Int /\ R \in Int
    BY <2>1
  <2>3. Near(C, k) <=> RateLeq(C, u, v + t) /\ RateLeq(C, -u, t - v)
    BY <1>3 DEF Near, Off
  <2>4. b * u - a * v = n * R
    <3>1. /\ b * u = n * (b * x[k]) - b * tx
          /\ a * v = n * (a * y[k]) - a * ty
          /\ n * R = n * (b * x[k]) - n * (a * y[k]) + n * (a * y[p] - b * x[p])
      BY <2>1
    <3>2. /\ n * (b * x[k]) \in Int /\ n * (a * y[k]) \in Int /\ b * tx \in Int /\ a * ty \in Int
          /\ n * (a * y[p] - b * x[p]) \in Int
      BY <2>1
    <3> HIDE DEF u, v, R
    <3> QED
      BY <1>3, <3>1, <3>2
  <2>5. Near(C, k) <=> b * u <= a * (v + t) /\ b * (-u) <= a * (t - v)
    <3>1. v + t \in Int /\ -u \in Int /\ t - v \in Int
      BY <2>2
    <3> HIDE DEF u, v, t
    <3> QED
      BY <1>6, <2>2, <2>3, <3>1
  <2>6. /\ a * (v + t) = a * v + n * (Threshold * a)
        /\ a * (t - v) = n * (Threshold * a) - a * v
        /\ b * (-u) = -(b * u)
    <3>1. a * t = n * (Threshold * a)
      BY <2>1
    <3> HIDE DEF t, u, v
    <3>2. /\ a * (v + t) = a * v + a * t /\ a * (t - v) = a * t - a * v /\ b * (-u) = -(b * u)
      BY <2>2
    <3> QED
      BY <3>1, <3>2
  <2> DEFINE w == Threshold * a
  <2>7. w \in Int
    BY <2>1
  <2>8. k \in Consensus(p, q) <=> Abs(R) <= w
    <3>1. Abs(a) = a
      BY DEF Abs
    <3>2. k \in Consensus(p, q) <=> Abs(R) <= Threshold * Abs(a)
      BY <1>2 DEF Consensus
    <3> QED
      BY <3>1, <3>2
  <2> HIDE DEF R, u, v, t, w
  <2>9. n * R \in Int /\ n * w \in Int /\ b * u \in Int /\ a * v \in Int /\ n * (-R) = -(n * R)
    BY <2>2, <2>7
  <2>10. Near(C, k) <=> n * R <= n * w /\ n * (-R) <= n * w
    BY <2>4, <2>5, <2>6, <2>9 DEF w
  <2>11. (n * R <= n * w <=> R <= w) /\ (n * (-R) <= n * w <=> -R <= w)
    <3>1. -R \in Int
      BY <2>2
    <3>2. n * R <= n * w <=> R <= w
      BY <2>2, <2>7, Cancel
    <3>3. n * (-R) <= n * w <=> -R <= w
      BY <2>7, <3>1, Cancel
    <3> QED
      BY <3>2, <3>3
  <2>12. Abs(R) <= w <=> R <= w /\ -R <= w
    BY <2>2, <2>7 DEF Abs
  <2> QED
    BY <2>8, <2>10, <2>11, <2>12
<1>8. Consensus(p, q) \in SUBSET Event
  BY DEF Consensus
<1> QED
  BY <1>7, <1>8

LEMMA KeptIn ==
    ASSUME NEW S
    PROVE  Kept(S) \in SUBSET S /\ (S # {} => Kept(S) # {})
BY DEF Kept

(* Of events on a line no residual is beyond three times the rms, which is *)
(* nothing: all of them are kept.                                          *)
ResidualFree(a, b, m, s, e, xx, xy, yy) ==
    b * ((e - m) * xx - 2 * s * xy) = a * (-(s * (xx + yy)))

LEMMA NoResidual ==
    ASSUME NEW a \in Int, NEW b \in Int, NEW m \in Int, NEW s \in Int, NEW e \in Int,
           NEW xx \in Int, NEW xy \in Int, NEW yy \in Int,
           a * s = b * m, a * e = b * s, a * xy = b * xx, a * yy = b * xy
    PROVE  ResidualFree(a, b, m, s, e, xx, xy, yy)
<1>1. b * ((e - m) * xx - 2 * s * xy) = e * (b * xx) - (b * m) * xx - 2 * ((b * s) * xy)
  OBVIOUS
<1>2. a * (-(s * (xx + yy))) = -((a * s) * xx) - s * (a * yy)
  OBVIOUS
<1>3. e * (a * xy) = (a * e) * xy /\ s * (b * xy) = (b * s) * xy
  OBVIOUS
<1>4. PICK k \in Int, l \in Int : k = (a * s) * xx /\ l = (a * e) * xy
  OBVIOUS
<1>5. /\ e * (b * xx) = l /\ (b * m) * xx = k /\ (b * s) * xy = l /\ (a * s) * xx = k
      /\ s * (a * yy) = l
  BY <1>3, <1>4
<1> QED
  BY <1>1, <1>2, <1>5 DEF ResidualFree

LEMMA KeptOnLine ==
    ASSUME Inputs, NEW C \in SUBSET Event, OnLine(C), NEW p \in C, NEW q \in C,
           x[p] < x[q], y[p] < y[q]
    PROVE  Kept(C) = C
<1>1. \A i \in Event : x[i] \in Int /\ y[i] \in Int
  BY Events
<1>2. PICK a \in Nat \ {0}, b \in Nat \ {0} : a = x[q] - x[p] /\ b = y[q] - y[p]
  BY <1>1
<1>3. PICK n \in Nat, m \in Int, s \in Int, e \in Int, tx \in Int, ty \in Int :
        /\ n = Cardinality(C)
        /\ m = Moment(C, x, x) /\ s = Moment(C, x, y) /\ e = Moment(C, y, y)
        /\ tx = Total(C, x) /\ ty = Total(C, y)
        /\ a * s = b * m /\ a * e = b * s
        /\ a * ty = b * tx + n * (a * y[p] - b * x[p])
  <2>1. b \in Int
    OBVIOUS
  <2>2. /\ Cardinality(C) \in Nat
        /\ Moment(C, x, x) \in Nat \ {0} /\ Moment(C, x, y) \in Int /\ Moment(C, y, y) \in Int
        /\ a * Moment(C, x, y) = b * Moment(C, x, x)
        /\ a * Moment(C, y, y) = b * Moment(C, x, y)
        /\ a * Total(C, y) = b * Total(C, x) + Cardinality(C) * (a * y[p] - b * x[p])
    BY <1>2, <2>1, MomentsOnLine
  <2>3. Total(C, x) \in Int /\ Total(C, y) \in Int
    <3>1. IsFiniteSet(C)
      BY Events, FS_Subset
    <3>2. Whole(x, C) /\ Whole(y, C)
      BY <1>1, <3>1 DEF Whole
    <3> QED
      BY <3>2, TotalWhole
  <2> DEFINE n == Cardinality(C)
             m == Moment(C, x, x)
             s == Moment(C, x, y)
             e == Moment(C, y, y)
             tx == Total(C, x)
             ty == Total(C, y)
  <2>4. /\ n \in Nat /\ m \in Int /\ s \in Int /\ e \in Int /\ tx \in Int /\ ty \in Int
        /\ a * s = b * m /\ a * e = b * s
        /\ a * ty = b * tx + n * (a * y[p] - b * x[p])
    <3>1. m \in Int
      BY <2>2
    <3> QED
      BY <2>2, <2>3, <3>1
  <2> QED
    BY <2>4
<1>4. s > 0 /\ ~OffsetOnly(C) /\ \A u, c \in Int : RateLeq(C, u, c) <=> b * u <= a * c
  BY <1>2, <1>3, RateOnLine
<1>5. ASSUME NEW k \in C PROVE Inside(C, k)
  <2>1. PICK xk \in Int, yk \in Int, xp \in Int, yp \in Int :
          xk = x[k] /\ yk = y[k] /\ xp = x[p] /\ yp = y[p]
    BY <1>1
  <2>2. PICK u \in Int, v \in Int : u = n * xk - tx /\ v = n * yk - ty
    OBVIOUS
  <2>3. Off(C, x, k) = u /\ Off(C, y, k) = v
    BY <1>3, <2>1, <2>2 DEF Off
  <2>4. a * v = b * u
    <3>1. a * (yk - yp) = (xk - xp) * b
      BY <1>2, <2>1 DEF OnLine
    <3>2. /\ a * v = n * (a * yk) - a * ty /\ b * u = n * (b * xk) - b * tx
          /\ n * (a * (yk - yp)) = n * (a * yk) - n * (a * yp)
          /\ n * ((xk - xp) * b) = n * (b * xk) - n * (b * xp)
          /\ n * (a * yp - b * xp) = n * (a * yp) - n * (b * xp)
      BY <2>2
    <3>3. a * ty = b * tx + n * (a * yp - b * xp)
      BY <1>3, <2>1
    <3> DEFINE i1 == n * (a * yk)
               i2 == n * (b * xk)
               i3 == n * (a * yp)
               i4 == n * (b * xp)
               i5 == a * ty
               i6 == b * tx
    <3>4. /\ i1 \in Int /\ i2 \in Int /\ i3 \in Int /\ i4 \in Int /\ i5 \in Int /\ i6 \in Int
      OBVIOUS
    <3>5. /\ a * v = i1 - i5 /\ b * u = i2 - i6 /\ i1 - i3 = i2 - i4 /\ i5 = i6 + (i3 - i4)
      BY <3>1, <3>2, <3>3
    <3> HIDE DEF i1, i2, i3, i4, i5, i6
    <3> QED
      BY <3>4, <3>5
  <2>5. PICK xx \in Int, xy \in Int, yy \in Int :
          xx = u * u - 9 * m /\ xy = u * v - 9 * s /\ yy = v * v - 9 * e
    <3>1. u * u - 9 * m \in Int /\ u * v - 9 * s \in Int /\ v * v - 9 * e \in Int
      OBVIOUS
    <3> QED
      BY <3>1
  <2>6. a * xy = b * xx
    <3>1. a * xy = u * (a * v) - 9 * (a * s) /\ b * xx = u * (b * u) - 9 * (b * m)
      BY <2>5
    <3> QED
      BY <1>3, <2>4, <3>1
  <2>7. a * yy = b * xy
    <3>1. a * yy = v * (a * v) - 9 * (a * e) /\ b * xy = v * (b * u) - 9 * (b * s)
      BY <2>5
    <3> QED
      BY <1>3, <2>4, <3>1
  <2>8. PICK l \in Int, h \in Int : l = (e - m) * xx - 2 * s * xy /\ h = -(s * (xx + yy))
    OBVIOUS
  <2>9. b * l = a * h
    <3>1. a \in Int /\ b \in Int
      OBVIOUS
    <3>2. a * s = b * m /\ a * e = b * s
      BY <1>3
    <3>3. ResidualFree(a, b, m, s, e, xx, xy, yy)
      BY <2>6, <2>7, <3>1, <3>2, NoResidual, Zenon
    <3> QED
      BY <2>8, <3>3 DEF ResidualFree
  <2>10. RateLeq(C, l, h)
    <3>1. b * l \in Int
      OBVIOUS
    <3> QED
      BY <1>4, <2>9, <3>1
  <2>11. Inside(C, k) <=> RateLeq(C, 1 * ((e - m) * xx - 2 * s * xy), -(1 * s * (xx + yy)))
    BY <1>3, <1>4, <2>3, <2>5 DEF Inside
  <2>12. 1 * ((e - m) * xx - 2 * s * xy) = l /\ -(1 * s * (xx + yy)) = h
    BY <2>8
  <2> QED
    BY <2>10, <2>11, <2>12
<1> QED
  BY <1>5 DEF Kept

-----------------------------------------------------------------------------
(* Numbers of the form q - Sqrt(r) p, for one r: the positive ones are     *)
(* closed under sums.                                                      *)
Over(r, p, q) == ~RootLeq(r, -p, -q)

LEMMA OverIs ==
    ASSUME NEW r \in Nat \ {0}, NEW p \in Int, NEW q \in Int
    PROVE  /\ p >= 0 => (Over(r, p, q) <=> q > 0 /\ r * p * p < q * q)
           /\ p < 0 => (Over(r, p, q) <=> q >= 0 \/ q * q < r * p * p)
<1>1. r * (-p) * (-p) = r * p * p /\ (-q) * (-q) = q * q /\ r * p * p \in Int /\ q * q \in Int
  OBVIOUS
<1>2. p = 0 => r * p * p = 0
  OBVIOUS
<1>3. q > 0 => q * q > 0
  <2> SUFFICES ASSUME q > 0 PROVE q * q > 0
    OBVIOUS
  <2>1. (q - 1) * q >= 0
    <3>1. q - 1 \in Nat /\ q \in Nat
      OBVIOUS
    <3> QED
      BY <3>1
  <2> QED
    BY <2>1
<1> DEFINE l == r * p * p
           s == q * q
<1>4. /\ -p >= 0 => (Over(r, p, q) <=> ~(-q >= 0 /\ l <= s))
      /\ ~(-p >= 0) => (Over(r, p, q) <=> ~(-q >= 0 \/ l >= s))
  BY <1>1 DEF Over, RootLeq
<1>5. l \in Int /\ s \in Int /\ (p = 0 => l = 0) /\ (q > 0 => s > 0) /\ (q = 0 => s = 0)
  BY <1>1, <1>2, <1>3
<1>6. p < 0 => l > 0
  <2> SUFFICES ASSUME p < 0 PROVE l > 0
    OBVIOUS
  <2>1. \A m, n \in Nat \ {0} : m * n \in Nat \ {0}
    <3> TAKE m \in Nat \ {0}, n \in Nat \ {0}
    <3>1. (m - 1) * n >= 0
      <4>1. m - 1 \in Nat
        OBVIOUS
      <4> QED
        BY <4>1
    <3> QED
      BY <3>1
  <2>2. -p \in Nat \ {0}
    OBVIOUS
  <2>3. r * ((-p) * (-p)) \in Nat \ {0}
    BY <2>1, <2>2
  <2>4. r * ((-p) * (-p)) = l
    OBVIOUS
  <2> QED
    BY <2>3, <2>4
<1> HIDE DEF l, s
<1>7. CASE p > 0
  <2>1. Over(r, p, q) <=> ~(-q >= 0 \/ l >= s)
    BY <1>4, <1>7
  <2>2. ~(-q >= 0 \/ l >= s) <=> q > 0 /\ l < s
    BY <1>5
  <2> QED
    BY <1>7, <2>1, <2>2 DEF l, s
<1>8. CASE p = 0
  <2>1. Over(r, p, q) <=> ~(-q >= 0 /\ l <= s)
    BY <1>4, <1>8
  <2>2. ~(-q >= 0 /\ l <= s) <=> q > 0 /\ l < s
    <3>1. l = 0 /\ s >= 0
      <4>1. q <= 0 => (-q) * (-q) >= 0
        <5>1. q <= 0 => -q \in Nat
          OBVIOUS
        <5> QED
          BY <5>1
      <4>2. (-q) * (-q) = s
        BY DEF s
      <4> QED
        BY <1>5, <1>8, <4>1, <4>2
    <3> QED
      BY <1>5, <3>1
  <2> QED
    BY <1>8, <2>1, <2>2 DEF l, s
<1>9. CASE p < 0
  <2>1. Over(r, p, q) <=> ~(-q >= 0 /\ l <= s)
    BY <1>4, <1>9
  <2>2. ~(-q >= 0 /\ l <= s) <=> q >= 0 \/ s < l
    BY <1>5, <1>6, <1>9
  <2> QED
    BY <1>9, <2>1, <2>2 DEF l, s
<1> QED
  BY <1>7, <1>8, <1>9

LEMMA Products ==
    ASSUME NEW a \in Nat, NEW b \in Nat, NEW c \in Nat, NEW e \in Nat, a <= b, c <= e
    PROVE  a * c <= b * e /\ a * c \in Nat /\ b * e \in Nat
<1>1. (b - a) * c >= 0 /\ b * (e - c) >= 0
  <2>1. b - a \in Nat /\ e - c \in Nat
    OBVIOUS
  <2> QED
    BY <2>1
<1>2. (b - a) * c = b * c - a * c /\ b * (e - c) = b * e - b * c
  OBVIOUS
<1> QED
  BY <1>1, <1>2

(* (a + b)^2 against r (c + e)^2, when a^2 and b^2 are both greater than   *)
(* r c^2 and r e^2, or both less.                                          *)
LEMMA SquareSums ==
    ASSUME NEW r \in Nat, NEW a \in Nat, NEW b \in Nat, NEW c \in Nat, NEW e \in Nat
    PROVE  /\ r * c * c < a * a /\ r * e * e <= b * b =>
                r * (c + e) * (c + e) < (a + b) * (a + b)
           /\ a * a < r * c * c /\ b * b <= r * e * e =>
                (a + b) * (a + b) < r * (c + e) * (c + e)
<1> DEFINE rcc == r * c * c
           ree == r * e * e
           rce == r * c * e
           aa == a * a
           bb == b * b
           ab == a * b
<1>1. /\ rcc \in Nat /\ ree \in Nat /\ rce \in Nat /\ aa \in Nat /\ bb \in Nat /\ ab \in Nat
      /\ rcc * ree = rce * rce /\ aa * bb = ab * ab
      /\ r * (c + e) * (c + e) = rcc + 2 * rce + ree
      /\ (a + b) * (a + b) = aa + 2 * ab + bb
  <2>1. rcc \in Nat /\ ree \in Nat /\ rce \in Nat /\ aa \in Nat /\ bb \in Nat /\ ab \in Nat
    <3>1. \A m, n \in Nat : m * n \in Nat
      OBVIOUS
    <3> QED
      BY <3>1
  <2>2. rcc * ree = rce * rce /\ aa * bb = ab * ab
    OBVIOUS
  <2>3. r * (c + e) * (c + e) = rcc + 2 * rce + ree
    OBVIOUS
  <2>4. (a + b) * (a + b) = aa + 2 * ab + bb
    OBVIOUS
  <2> QED
    BY <2>1, <2>2, <2>3, <2>4
<1> HIDE DEF rcc, ree, rce, aa, bb, ab
<1>2. ASSUME rcc <= aa, ree <= bb PROVE rce <= ab
  <2>1. rce * rce <= ab * ab
    BY <1>1, <1>2, Products
  <2> QED
    BY <1>1, <2>1, Squares
<1>3. ASSUME aa <= rcc, bb <= ree PROVE ab <= rce
  <2>1. ab * ab <= rce * rce
    BY <1>1, <1>3, Products
  <2> QED
    BY <1>1, <2>1, Squares
<1>4. rcc < aa /\ ree <= bb => rcc + 2 * rce + ree < aa + 2 * ab + bb
  BY <1>1, <1>2
<1>5. aa < rcc /\ bb <= ree => aa + 2 * ab + bb < rcc + 2 * rce + ree
  BY <1>1, <1>3
<1> QED
  BY <1>1, <1>4, <1>5 DEF rcc, ree, aa, bb

LEMMA OverAdds ==
    ASSUME NEW r \in Nat \ {0}, NEW p1 \in Int, NEW q1 \in Int, NEW p2 \in Int, NEW q2 \in Int,
           Over(r, p1, q1), Over(r, p2, q2)
    PROVE  Over(r, p1 + p2, q1 + q2)
<1> DEFINE p == p1 + p2
           q == q1 + q2
<1>1. p \in Int /\ q \in Int
  OBVIOUS
<1>2. \A m \in Int : /\ (-m) * (-m) = m * m /\ r * (-m) * (-m) = r * m * m
                     /\ m * m \in Nat /\ r * m * m \in Nat
  <2> TAKE m \in Int
  <2>1. (-m) * (-m) = m * m /\ r * (-m) * (-m) = r * m * m
    OBVIOUS
  <2>2. m * m \in Nat
    <3>1. m \in Nat => m * m \in Nat
      OBVIOUS
    <3>2. -m \in Nat => (-m) * (-m) \in Nat
      OBVIOUS
    <3> QED
      BY <2>1, <3>1, <3>2
  <2>3. r * m * m = r * (m * m) /\ r * (m * m) \in Nat
    BY <2>2
  <2> QED
    BY <2>1, <2>2, <2>3
(* Either sign twice, or a difference: in any order.                       *)
<1>3. ASSUME NEW a \in Int, NEW b \in Int, NEW c \in Int, NEW e \in Int,
             c >= 0, e >= 0, Over(r, c, a), Over(r, e, b)
      PROVE  Over(r, c + e, a + b)
  <2>0. a > 0 /\ r * c * c < a * a /\ b > 0 /\ r * e * e < b * b
    <3>1. a > 0 /\ r * c * c < a * a
      BY <1>3, OverIs
    <3>2. b > 0 /\ r * e * e < b * b
      BY <1>3, OverIs
    <3> QED
      BY <3>1, <3>2
  <2>1. a \in Nat /\ b \in Nat /\ c \in Nat /\ e \in Nat /\ a > 0
        /\ r * c * c < a * a /\ r * e * e < b * b
    BY <1>3, <2>0
  <2>2. r * (c + e) * (c + e) < (a + b) * (a + b)
    BY <1>2, <2>1, SquareSums
  <2>3. c + e \in Int /\ a + b \in Int /\ c + e >= 0 /\ a + b > 0
    BY <2>1
  <2> QED
    BY <2>2, <2>3, OverIs
<1>4. ASSUME NEW a \in Int, NEW b \in Int, NEW c \in Int, NEW e \in Int,
             c < 0, e < 0, Over(r, c, a), Over(r, e, b), a < 0
      PROVE  Over(r, c + e, a + b)
  <2>1. a * a < r * c * c /\ (b >= 0 \/ b * b < r * e * e)
    <3>1. a >= 0 \/ a * a < r * c * c
      BY <1>4, OverIs
    <3>2. b >= 0 \/ b * b < r * e * e
      BY <1>4, OverIs
    <3> QED
      BY <1>4, <3>1, <3>2
  <2>2. c + e \in Int /\ a + b \in Int /\ c + e < 0
    BY <1>4
  <2>3. CASE b >= 0
    <3>1. a + b >= 0 \/ (a + b) * (a + b) <= a * a
      <4> SUFFICES ASSUME a + b < 0 PROVE (a + b) * (a + b) <= a * a
        BY <2>2
      <4>1. -(a + b) \in Nat /\ -a \in Nat /\ -(a + b) <= -a
        BY <2>3
      <4>2. (-(a + b)) * (-(a + b)) <= (-a) * (-a)
        BY <4>1, Squares
      <4> QED
        BY <1>2, <2>2, <4>2
    <3>2. r * c * c <= r * (c + e) * (c + e)
      <4>1. -c \in Nat /\ -(c + e) \in Nat /\ -c <= -(c + e)
        BY <1>4
      <4>2. (-c) * (-c) <= (-(c + e)) * (-(c + e))
        BY <4>1, Squares
      <4>3. c * c <= (c + e) * (c + e) /\ c * c \in Nat /\ (c + e) * (c + e) \in Nat
        BY <1>2, <2>2, <4>2
      <4>4. r * (c * c) <= r * ((c + e) * (c + e))
        BY <4>3, Products
      <4>5. r * (c * c) = r * c * c /\ r * ((c + e) * (c + e)) = r * (c + e) * (c + e)
        OBVIOUS
      <4> QED
        BY <4>4, <4>5
    <3>3. a + b >= 0 \/ (a + b) * (a + b) < r * (c + e) * (c + e)
      BY <1>2, <2>1, <2>2, <3>1, <3>2
    <3> QED
      BY <2>2, <3>3, OverIs
  <2>4. CASE b < 0
    <3>1. b * b <= r * e * e
      BY <1>2, <2>1, <2>4
    <3>2. -a \in Nat /\ -b \in Nat /\ -c \in Nat /\ -e \in Nat
      BY <1>4, <2>4
    <3>3. (-a) * (-a) < r * (-c) * (-c) /\ (-b) * (-b) <= r * (-e) * (-e)
      BY <1>2, <2>1, <3>1
    <3>4. ((-a) + (-b)) * ((-a) + (-b)) < r * ((-c) + (-e)) * ((-c) + (-e))
      BY <3>2, <3>3, SquareSums
    <3>5. (-a) + (-b) = -(a + b) /\ (-c) + (-e) = -(c + e)
      OBVIOUS
    <3>6. (-(a + b)) * (-(a + b)) < r * (-(c + e)) * (-(c + e))
      BY <3>4, <3>5
    <3>7. (a + b) * (a + b) < r * (c + e) * (c + e)
      BY <1>2, <2>2, <3>6
    <3> QED
      BY <2>2, <3>7, OverIs
  <2> QED
    BY <2>3, <2>4
<1>5. ASSUME NEW a \in Int, NEW b \in Int, NEW c \in Int, NEW e \in Int,
             c >= 0, e < 0, Over(r, c, a), Over(r, e, b)
      PROVE  Over(r, c + e, a + b)
  <2>1. a > 0 /\ r * c * c < a * a /\ (b >= 0 \/ b * b < r * e * e)
    BY <1>5, OverIs
  <2>2. c + e \in Int /\ a + b \in Int
    OBVIOUS
  <2>3. CASE b >= 0
    <3>1. a + b > 0
      BY <2>1, <2>3
    <3>2. CASE c + e >= 0
      <4>1. a * a <= (a + b) * (a + b)
        <5>1. a \in Nat /\ a + b \in Nat /\ a <= a + b
          BY <2>1, <2>3
        <5> QED
          BY <5>1, Squares
      <4>2. r * (c + e) * (c + e) <= r * c * c
        <5>1. c \in Nat /\ c + e \in Nat /\ c + e <= c
          BY <1>5, <3>2
        <5>2. (c + e) * (c + e) <= c * c /\ c * c \in Nat /\ (c + e) * (c + e) \in Nat
          BY <1>2, <5>1, Squares
        <5>3. r * ((c + e) * (c + e)) <= r * (c * c)
          BY <5>2, Products
        <5>4. r * (c * c) = r * c * c /\ r * ((c + e) * (c + e)) = r * (c + e) * (c + e)
          OBVIOUS
        <5> QED
          BY <5>3, <5>4
      <4>3. r * (c + e) * (c + e) < (a + b) * (a + b)
        BY <1>2, <2>1, <2>2, <4>1, <4>2
      <4> QED
        BY <2>2, <3>1, <3>2, <4>3, OverIs
    <3>3. CASE c + e < 0
      <4>1. a + b >= 0
        BY <2>2, <3>1
      <4> QED
        BY <2>2, <3>3, <4>1, OverIs
    <3> QED
      BY <2>2, <3>2, <3>3
  <2>4. CASE b < 0
    <3>1. b * b < r * e * e
      BY <2>1, <2>4
    <3> SUFFICES ASSUME ~Over(r, c + e, a + b) PROVE FALSE
      OBVIOUS
    <3>2. CASE c + e >= 0
      <4> DEFINE m == a + b
                 n == c + e
      <4>1. m \in Int /\ n \in Nat
        BY <2>2, <3>2
      <4>2. ~(m > 0 /\ r * n * n < m * m)
        <5>1. ~Over(r, n, m) /\ n >= 0 /\ n \in Int
          BY <3>2, <2>2
        <5> HIDE DEF m, n
        <5> QED
          BY <4>1, <5>1, OverIs
      (* a is greater than -b, for c is no less than -e. *)
      <4>3. m > 0
        <5>1. -e \in Nat /\ c \in Nat /\ -e <= c
          BY <1>5, <3>2
        <5>2. e * e <= c * c /\ e * e \in Nat /\ c * c \in Nat
          BY <1>2, <5>1, Squares
        <5>3. r * (e * e) <= r * (c * c)
          BY <5>2, Products
        <5>4. r * (c * c) = r * c * c /\ r * (e * e) = r * e * e
          OBVIOUS
        <5>5. b * b < a * a
          BY <1>2, <2>1, <3>1, <5>3, <5>4
        <5>6. ~(a <= -b)
          <6> SUFFICES ASSUME a <= -b PROVE FALSE
            OBVIOUS
          <6>1. a \in Nat /\ -b \in Nat
            BY <2>1, <2>4
          <6>2. a * a <= (-b) * (-b)
            BY <6>1, Squares
          <6> QED
            BY <1>2, <5>5, <6>2
        <5> QED
          BY <5>6
      <4>4. m * m <= r * n * n /\ m \in Nat
        BY <1>2, <4>1, <4>2, <4>3
      <4>5. -b \in Nat /\ -e \in Nat /\ (-b) * (-b) < r * (-e) * (-e)
        BY <1>2, <1>5, <2>4, <3>1
      <4> HIDE DEF m, n
      <4>6. ((-b) + m) * ((-b) + m) < r * ((-e) + n) * ((-e) + n)
        BY <4>1, <4>4, <4>5, SquareSums
      <4>7. (-b) + m = a /\ (-e) + n = c
        BY DEF m, n
      <4>8. a * a < r * c * c
        BY <4>6, <4>7
      <4> QED
        BY <1>2, <2>1, <4>8
    <3>3. CASE c + e < 0
      <4> DEFINE m == -(a + b)
                 n == -(c + e)
      <4>1. a + b < 0 /\ r * (c + e) * (c + e) <= (a + b) * (a + b)
        <5>1. ~(a + b >= 0 \/ (a + b) * (a + b) < r * (c + e) * (c + e))
          BY <2>2, <3>3, OverIs
        <5> QED
          BY <1>2, <2>2, <5>1
      <4>2. m \in Nat /\ n \in Nat /\ r * n * n <= m * m
        BY <1>2, <2>2, <3>3, <4>1
      <4>3. a \in Nat /\ c \in Nat
        BY <1>5, <2>1
      <4> HIDE DEF m, n
      <4>4. r * (c + n) * (c + n) < (a + m) * (a + m)
        BY <2>1, <4>2, <4>3, SquareSums
      <4>5. c + n = -e /\ a + m = -b
        BY DEF m, n
      <4>6. r * (-e) * (-e) < (-b) * (-b)
        BY <4>4, <4>5
      <4> QED
        BY <1>2, <3>1, <4>6
    <3> QED
      BY <2>2, <3>2, <3>3
  <2> QED
    BY <2>3, <2>4
<1>6. q1 + q2 = q2 + q1 /\ p1 + p2 = p2 + p1
  OBVIOUS
<1> HIDE DEF p, q
<1>7. CASE p1 >= 0 /\ p2 >= 0
  BY <1>3, <1>7
<1>8. CASE p1 >= 0 /\ p2 < 0
  BY <1>5, <1>8
<1>9. CASE p1 < 0 /\ p2 >= 0
  <2>1. Over(r, p2 + p1, q2 + q1)
    BY <1>5, <1>9
  <2> QED
    BY <1>6, <2>1
<1>10. CASE p1 < 0 /\ p2 < 0
  <2>1. CASE q1 < 0
    BY <1>4, <1>10, <2>1
  <2>2. CASE q2 < 0
    <3>1. Over(r, p2 + p1, q2 + q1)
      BY <1>4, <1>10, <2>2
    <3> QED
      BY <1>6, <3>1
  <2>3. CASE q1 >= 0 /\ q2 >= 0
    <3>1. p1 + p2 \in Int /\ q1 + q2 \in Int /\ p1 + p2 < 0 /\ q1 + q2 >= 0
      BY <1>10, <2>3
    <3> QED
      BY <3>1, OverIs
  <2> QED
    BY <2>1, <2>2, <2>3
<1> QED
  BY <1>7, <1>8, <1>9, <1>10

LEMMA OverZero ==
    ASSUME NEW r \in Nat \ {0}, NEW p \in Int, NEW q \in Int, q <= 0, p >= 0
    PROVE  ~Over(r, p, q)
BY OverIs

LEMMA OverScaled ==
    ASSUME NEW r \in Nat \ {0}, NEW p \in Int, NEW q \in Int, Over(r, p, q), NEW m \in Nat \ {0}
    PROVE  Over(r, m * p, m * q)
<1>1. m * p \in Int /\ m * q \in Int /\ m * 0 = 0 /\ 0 \in Int
  OBVIOUS
<1>2. \A a, b \in Int : (a < b => m * a < m * b) /\ (a <= b => m * a <= m * b)
                        /\ m * a \in Int /\ m * b \in Int
  <2> TAKE a \in Int, b \in Int
  <2>1. m * a \in Int /\ m * b \in Int
    OBVIOUS
  <2>2. a < b => m * a + m <= m * b
    BY Scaled
  <2>3. a <= b => m * a <= m * b
    BY Cancel
  <2> QED
    BY <2>1, <2>2, <2>3
<1> DEFINE l == r * p * p
           s == q * q
<1>3. l \in Int /\ s \in Int /\ r * (m * p) * (m * p) = m * (m * l) /\ (m * q) * (m * q) = m * (m * s)
  OBVIOUS
<1>4. (l < s => m * (m * l) < m * (m * s)) /\ (s < l => m * (m * s) < m * (m * l))
  <2> HIDE DEF l, s
  <2>1. l < s => m * l < m * s
    BY <1>2, <1>3
  <2>2. s < l => m * s < m * l
    BY <1>2, <1>3
  <2>3. m * l \in Int /\ m * s \in Int
    BY <1>2, <1>3
  <2> QED
    BY <1>2, <2>1, <2>2, <2>3
<1>5. CASE p >= 0
  <2>1. q > 0 /\ l < s
    BY <1>5, OverIs
  <2>2. m * p >= 0 /\ m * q > 0
    <3>1. m * 0 <= m * p
      BY <1>1, <1>2, <1>5
    <3>2. m * 0 < m * q
      BY <1>1, <1>2, <2>1
    <3> QED
      BY <1>1, <3>1, <3>2
  <2>3. r * (m * p) * (m * p) < (m * q) * (m * q)
    <3> HIDE DEF l, s
    <3> QED
      BY <1>3, <1>4, <2>1
  <2> QED
    BY <1>1, <2>2, <2>3, OverIs
<1>6. CASE p < 0
  <2>1. q >= 0 \/ s < l
    BY <1>6, OverIs
  <2>2. m * p < 0 /\ (q >= 0 => m * q >= 0)
    <3>1. m * p < m * 0
      BY <1>1, <1>2, <1>6
    <3>2. q >= 0 => m * 0 <= m * q
      BY <1>1, <1>2
    <3> QED
      BY <1>1, <3>1, <3>2
  <2>3. s < l => (m * q) * (m * q) < r * (m * p) * (m * p)
    <3> HIDE DEF l, s
    <3> QED
      BY <1>3, <1>4
  <2>4. m * q >= 0 \/ (m * q) * (m * q) < r * (m * p) * (m * p)
    <3> HIDE DEF l, s
    <3> QED
      BY <2>1, <2>2, <2>3
  <2> QED
    BY <1>1, <2>2, <2>4, OverIs
<1> QED
  BY <1>5, <1>6

LEMMA OverMore ==
    ASSUME NEW r \in Nat \ {0}, NEW p \in Int, NEW q \in Int, Over(r, p, q),
           NEW w \in Int, q <= w
    PROVE  Over(r, p, w)
<1>1. r * p * p \in Int /\ q * q \in Int /\ w * w \in Int
  OBVIOUS
<1>2. CASE p >= 0
  <2>1. q > 0 /\ r * p * p < q * q
    BY <1>2, OverIs
  <2>2. q * q <= w * w
    <3>1. q \in Nat /\ w \in Nat
      BY <2>1
    <3> QED
      BY <3>1, Squares
  <2>3. w > 0 /\ r * p * p < w * w
    BY <1>1, <2>1, <2>2
  <2> QED
    BY <1>2, <2>3, OverIs
<1>3. CASE p < 0
  <2>1. q >= 0 \/ q * q < r * p * p
    BY <1>3, OverIs
  <2>2. w >= 0 \/ w * w <= q * q
    <3> SUFFICES ASSUME w < 0 PROVE w * w <= q * q
      OBVIOUS
    <3>1. -w \in Nat /\ -q \in Nat /\ -w <= -q
      OBVIOUS
    <3>2. (-w) * (-w) <= (-q) * (-q)
      BY <3>1, Squares
    <3>3. (-w) * (-w) = w * w /\ (-q) * (-q) = q * q
      OBVIOUS
    <3> QED
      BY <3>2, <3>3
  <2>3. w >= 0 \/ w * w < r * p * p
    BY <1>1, <2>1, <2>2
  <2> QED
    BY <1>3, <2>3, OverIs
<1> QED
  BY <1>2, <1>3

(* And so under any sums.                                                  *)
NoneOver(S, f1, f2) == \A i \in S : f1[i] = 0 /\ f2[i] = 0

LEMMA OverTotals ==
    ASSUME NEW S, NEW f1, NEW f2, Whole(f1, S), Whole(f2, S), NEW r \in Nat \ {0},
           \A i \in S : Over(r, f1[i], f2[i]) \/ (f1[i] = 0 /\ f2[i] = 0)
    PROVE  Over(r, Total(S, f1), Total(S, f2)) \/ NoneOver(S, f1, f2)
<1>1. PICK g1 : Adds(g1, f1, S) /\ Total(S, f1) = g1[S]
  BY TotalAdds
<1>2. PICK g2 : Adds(g2, f2, S) /\ Total(S, f2) = g2[S]
  BY TotalAdds
<1> DEFINE right(s) == IF NoneOver(s, f1, f2) THEN g1[s] = 0 /\ g2[s] = 0 ELSE Over(r, g1[s], g2[s])
           Good == {n \in Nat : \A s \in SUBSET S : Cardinality(s) = n => right(s)}
<1>3. \A s \in SUBSET S : /\ IsFiniteSet(s) /\ Cardinality(s) \in Nat
                          /\ Cardinality(s) = 0 <=> s = {}
  BY FS_Subset, FS_CardinalityType, FS_EmptySet DEF Whole
<1>4. ASSUME NEW s \in SUBSET S
      PROVE  /\ g1[{}] = 0 /\ g1[s] \in Int /\ \A i \in s : g1[s] = f1[i] + g1[s \ {i}]
             /\ g2[{}] = 0 /\ g2[s] \in Int /\ \A i \in s : g2[s] = f2[i] + g2[s \ {i}]
  <2>1. Taken(g1, f1, s)
    BY <1>1, SumTake
  <2>2. Taken(g2, f2, s)
    BY <1>2, SumTake
  <2> QED
    BY <2>1, <2>2 DEF Taken
<1>5. 0 \in Good
  <2>1. \A s \in SUBSET S : Cardinality(s) = 0 => right(s)
    <3> SUFFICES ASSUME NEW s \in SUBSET S, Cardinality(s) = 0 PROVE right(s)
      OBVIOUS
    <3>1. s = {}
      BY <1>3
    <3>2. g1[s] = 0 /\ g2[s] = 0
      BY <1>4, <3>1
    <3>3. NoneOver(s, f1, f2)
      BY <3>1 DEF NoneOver
    <3> QED
      BY <3>2, <3>3
  <2> HIDE DEF right
  <2> QED
    BY <2>1
<1>6. ASSUME NEW n \in Nat, n \in Good PROVE n + 1 \in Good
  <2>1. ASSUME NEW s \in SUBSET S, Cardinality(s) = n + 1 PROVE right(s)
    <3>1. PICK i \in s : TRUE
      BY <1>3, <2>1
    <3> DEFINE rest == s \ {i}
    <3>2. rest \in SUBSET S /\ Cardinality(rest) = n
      <4>1. Cardinality(rest) = Cardinality(s) - 1
        BY <1>3, FS_RemoveElement
      <4> QED
        BY <2>1, <4>1
    <3>3. right(rest)
      BY <1>6, <3>2
    <3>4. NoneOver(s, f1, f2) <=> NoneOver(rest, f1, f2) /\ f1[i] = 0 /\ f2[i] = 0
      BY DEF NoneOver
    <3>5. /\ g1[s] = f1[i] + g1[rest] /\ g2[s] = f2[i] + g2[rest]
          /\ f1[i] \in Int /\ f2[i] \in Int
      BY <1>4 DEF Whole
    <3>6. g1[rest] \in Int /\ g2[rest] \in Int
      BY <1>4, <3>2
    <3> HIDE DEF rest
    <3>7. CASE f1[i] = 0 /\ f2[i] = 0
      <4>1. g1[s] = g1[rest] /\ g2[s] = g2[rest]
        BY <3>5, <3>6, <3>7
      <4> QED
        BY <3>3, <3>4, <3>7, <4>1
    <3>8. CASE ~(f1[i] = 0 /\ f2[i] = 0)
      <4>1. Over(r, f1[i], f2[i])
        BY <3>8
      <4>2. CASE NoneOver(rest, f1, f2)
        <5>1. g1[s] = f1[i] /\ g2[s] = f2[i]
          BY <3>3, <3>5, <3>6, <4>2
        <5> QED
          BY <3>4, <3>8, <4>1, <5>1
      <4>3. CASE ~NoneOver(rest, f1, f2)
        <5>1. Over(r, g1[rest], g2[rest])
          BY <3>3, <4>3
        <5>2. Over(r, f1[i] + g1[rest], f2[i] + g2[rest])
          BY <3>5, <3>6, <4>1, <5>1, OverAdds
        <5> QED
          BY <3>4, <3>5, <3>8, <5>2
      <4> QED
        BY <4>2, <4>3
    <3> QED
      BY <3>7, <3>8
  <2> HIDE DEF right
  <2> QED
    BY <2>1
<1>7. Cardinality(S) \in Good
  <2>1. Cardinality(S) \in Nat
    BY <1>3
  <2> HIDE DEF Good
  <2> QED
    BY <1>5, <1>6, <2>1, Induct
<1>8. right(S)
  <2>1. S \in SUBSET S
    OBVIOUS
  <2> HIDE DEF right
  <2> QED
    BY <1>7, <2>1
<1> QED
  BY <1>1, <1>2, <1>8

LEMMA TwoOf ==
    ASSUME NEW S, IsFiniteSet(S), NEW i \in S, NEW j \in S, i # j
    PROVE  Cardinality(S) \in Nat /\ Cardinality(S) >= 2
<1>1. IsFiniteSet({i}) /\ Cardinality({i}) = 1
  BY FS_Singleton
<1>2. IsFiniteSet({i} \cup {j}) /\ Cardinality({i} \cup {j}) = 2
  <2>1. j \notin {i}
    OBVIOUS
  <2>2. /\ IsFiniteSet({i} \cup {j})
        /\ Cardinality({i} \cup {j}) = IF j \in {i} THEN Cardinality({i}) ELSE Cardinality({i}) + 1
    BY <1>1, FS_AddElement, Zenon
  <2> QED
    BY <1>1, <2>1, <2>2
<1>3. {i} \cup {j} \subseteq S
  OBVIOUS
<1>4. Cardinality({i} \cup {j}) <= Cardinality(S)
  BY <1>3, FS_Subset
<1>5. Cardinality(S) \in Nat
  BY FS_CardinalityType
<1> QED
  BY <1>2, <1>4, <1>5

-----------------------------------------------------------------------------
(* Moments of times in the same order.                                     *)

SameOrder(S, v, w) == \A i, j \in S : v[i] < v[j] <=> w[i] < w[j]

(* A bound that splits a set as a condition on its elements does.          *)
LEMMA Bound ==
    ASSUME NEW S, NEW w, Whole(w, S), NEW P \in SUBSET S, P # {},
           \A k \in P : \A l \in S \ P : w[l] < w[k]
    PROVE  \E b \in Int : (\A k \in P : b <= w[k]) /\ \A l \in S \ P : w[l] < b
<1> DEFINE f == [k \in P |-> w[k]]
<1>1. f \in [P -> Int] /\ IsFiniteSet(P)
  BY FS_Subset DEF Whole
<1>2. PICK k \in P : \A l \in P : f[k] <= f[l]
  <2> HIDE DEF f
  <2> QED
    BY <1>1, LeastValue
<1> QED
  BY <1>1, <1>2

(* A sum of whole numbers that is 0 has terms of both signs, or none.      *)
LEMMA ZeroTotal ==
    ASSUME NEW S, NEW f, Whole(f, S), Total(S, f) = 0, NEW s \in S, f[s] # 0
    PROVE  (\E i \in S : f[i] > 0) /\ \E i \in S : f[i] < 0
<1>1. IsFiniteSet(S) /\ \A i \in S : f[i] \in Int
  BY DEF Whole
<1>2. ASSUME \A i \in S : f[i] >= 0 PROVE FALSE
  <2> DEFINE g == [i \in S |-> f[i]]
  <2>1. g \in [S -> Nat] /\ g[s] > 0 /\ \A i \in S : g[i] = f[i]
    BY <1>1, <1>2
  <2> HIDE DEF g
  <2>2. Total(S, g) > 0 /\ Total(S, g) \in Nat
    BY <1>1, <2>1, TotalPositive
  <2>3. Whole(g, S)
    BY <1>1, <2>1 DEF Whole
  <2>4. Total(S, g) <= Total(S, f)
    <3>1. \A i \in S : g[i] <= f[i]
      BY <1>1, <2>1
    <3> QED
      BY <2>3, <3>1, TotalsOrdered
  <2> QED
    BY <2>2, <2>4
<1>3. ASSUME \A i \in S : f[i] <= 0 PROVE FALSE
  <2> DEFINE g == [i \in S |-> -f[i]]
  <2>1. g \in [S -> Nat] /\ g[s] > 0 /\ \A i \in S : g[i] = -f[i]
    BY <1>1, <1>3
  <2> HIDE DEF g
  <2>2. Total(S, g) > 0 /\ Total(S, g) \in Nat
    BY <1>1, <2>1, TotalPositive
  <2>3. Whole(g, S)
    BY <1>1, <2>1 DEF Whole
  <2>4. PICK a \in Int, b \in Int, z \in Int : a = 1 /\ b = -1 /\ z = 0
    OBVIOUS
  <2>5. \A i \in S : a * g[i] = b * f[i] + z
    BY <1>1, <2>1, <2>4
  <2>6. a * Total(S, g) = b * Total(S, f) + Cardinality(S) * z
    BY <2>3, <2>5, TotalsLinear
  <2>7. Cardinality(S) \in Nat
    BY <1>1, FS_CardinalityType
  <2> QED
    BY <2>2, <2>4, <2>6, <2>7
<1> QED
  BY <1>1, <1>2, <1>3

(* What is subtracted from the second factor of a moment has no weight.    *)
Shifted(S, v, w, b) == [i \in S |-> Off(S, v, i) * (w[i] - b)]

LEMMA MomentShifted ==
    ASSUME NEW S, NEW v, NEW w, Whole(v, S), Whole(w, S), NEW b \in Int
    PROVE  /\ Whole(Shifted(S, v, w, b), S)
           /\ Total(S, Shifted(S, v, w, b)) = Moment(S, v, w)
<1> DEFINE h == Shifted(S, v, w, b)
           o == Offs(S, v)
           f == Terms(S, v, w)
<1>1. /\ \A i \in S : Off(S, v, i) \in Int /\ w[i] \in Int
      /\ Whole(o, S) /\ Total(S, o) = 0
      /\ Whole(f, S) /\ Moment(S, v, w) = Total(S, f)
      /\ Moment(S, v, w) \in Int /\ Cardinality(S) \in Nat
  BY Moments DEF Whole
<1>2. \A i \in S : h[i] = Off(S, v, i) * (w[i] - b) /\ o[i] = Off(S, v, i) /\ f[i] = Off(S, v, i) * w[i]
  BY DEF Shifted, Offs, Terms
<1>3. Whole(h, S)
  <2>1. ASSUME NEW i \in S PROVE h[i] \in Int
    <3>1. Off(S, v, i) \in Int /\ w[i] - b \in Int
      BY <1>1
    <3>2. \A p, q \in Int : p * q \in Int
      OBVIOUS
    <3> HIDE DEF h
    <3> QED
      BY <1>2, <3>1, <3>2
  <2>2. IsFiniteSet(S)
    BY DEF Whole
  <2> HIDE DEF h
  <2> QED
    BY <2>1, <2>2 DEF Whole
<1>4. PICK u \in Int, z \in Int, r \in Int : u = 1 /\ z = 0 /\ r = -b
  OBVIOUS
<1> HIDE DEF h, o, f
<1>5. Linear(S, u, h, u, f, r, o, z)
  <2> SUFFICES ASSUME NEW i \in S PROVE u * h[i] = u * f[i] + r * o[i] + z
    BY DEF Linear
  <2>1. PICK p \in Int, q \in Int : p = Off(S, v, i) /\ q = w[i]
    BY <1>1
  <2>2. h[i] = p * (q - b) /\ f[i] = p * q /\ o[i] = p
    BY <1>2, <2>1
  <2>3. p * (q - b) = p * q + (-b) * p /\ p * q \in Int /\ (-b) * p \in Int
    OBVIOUS
  <2> QED
    BY <1>4, <2>2, <2>3
<1>6. u * Total(S, h) = u * Total(S, f) + r * Total(S, o) + Cardinality(S) * z
  BY <1>1, <1>3, <1>5, TotalsCombine
<1>7. Total(S, h) \in Int
  BY <1>3, TotalWhole
<1>8. Total(S, h) = Moment(S, v, w)
  <2>1. r * Total(S, o) = 0 /\ Cardinality(S) * z = 0
    BY <1>1, <1>4
  <2> QED
    BY <1>1, <1>4, <1>6, <1>7, <2>1
<1> QED
  BY <1>3, <1>8 DEF h

LEMMA OffOrder ==
    ASSUME NEW S, NEW v, Whole(v, S), NEW k \in S, NEW l \in S
    PROVE  Off(S, v, k) < Off(S, v, l) <=> v[k] < v[l]
<1> DEFINE n == Cardinality(S)
           t == Total(S, v)
<1>1. /\ n \in Nat /\ t \in Int /\ IsFiniteSet(S) /\ v[k] \in Int /\ v[l] \in Int
      /\ Off(S, v, k) = n * v[k] - t /\ Off(S, v, l) = n * v[l] - t
  BY Moments DEF Whole
<1>2. n # 0
  BY <1>1, FS_EmptySet
<1> HIDE DEF n, t
<1>3. n * v[l] <= n * v[k] <=> v[l] <= v[k]
  BY <1>1, <1>2, Cancel
<1>4. n * v[l] \in Int /\ n * v[k] \in Int
  BY <1>1
<1> QED
  BY <1>1, <1>3, <1>4

LEMMA MomentInOrder ==
    ASSUME NEW S, NEW v, NEW w, Whole(v, S), Whole(w, S), SameOrder(S, v, w),
           NEW i \in S, NEW j \in S, v[i] # v[j]
    PROVE  Moment(S, v, w) \in Nat \ {0}
<1> DEFINE o == Offs(S, v)
           P == {k \in S : o[k] >= 0}
<1>1. /\ Whole(o, S) /\ Total(S, o) = 0 /\ IsFiniteSet(S)
      /\ \A k \in S : o[k] \in Int /\ o[k] = Off(S, v, k) /\ w[k] \in Int
  BY Moments DEF Offs, Whole
<1> HIDE DEF o
<1>3. \A k, l \in S : o[k] < o[l] <=> v[k] < v[l]
  BY <1>1, OffOrder
<1>4. PICK s \in S : o[s] # 0
  <2>1. v[i] < v[j] \/ v[j] < v[i]
    <3>1. v[i] \in Int /\ v[j] \in Int
      BY DEF Whole
    <3> QED
      BY <3>1
  <2>2. o[i] < o[j] \/ o[j] < o[i]
    BY <1>3, <2>1
  <2> QED
    BY <1>1, <2>2
<1>5. (\E k \in S : o[k] > 0) /\ \E k \in S : o[k] < 0
  BY <1>1, <1>4, ZeroTotal
<1>6. P \in SUBSET S /\ P # {}
  BY <1>1, <1>5
<1>7. \A k \in P : \A l \in S \ P : w[l] < w[k]
  <2> TAKE k \in P
  <2> TAKE l \in S \ P
  <2>1. o[l] < o[k]
    BY <1>1
  <2> QED
    BY <1>3, <2>1 DEF SameOrder
<1>8. PICK b \in Int : (\A k \in P : b <= w[k]) /\ \A l \in S \ P : w[l] < b
  <2> HIDE DEF P
  <2> QED
    BY <1>6, <1>7, Bound
<1> DEFINE h == Shifted(S, v, w, b)
<1>9. \A k \in S : h[k] = o[k] * (w[k] - b)
  BY <1>1 DEF Shifted
<1>10. Whole(h, S) /\ Total(S, h) = Moment(S, v, w)
  BY MomentShifted
<1>11. h \in [S -> Nat]
  <2>1. h = [k \in S |-> h[k]]
    BY DEF Shifted
  <2>2. ASSUME NEW k \in S PROVE h[k] \in Nat
    <3> HIDE DEF h
    <3>1. CASE k \in P
      <4>1. o[k] \in Nat /\ w[k] - b \in Nat
        BY <1>1, <1>8, <3>1
      <4> QED
        BY <1>9, <4>1
    <3>2. CASE k \notin P
      <4>1. -o[k] \in Nat /\ b - w[k] \in Nat
        BY <1>1, <1>8, <3>2
      <4>2. (-o[k]) * (b - w[k]) = o[k] * (w[k] - b)
        BY <1>1
      <4>3. (-o[k]) * (b - w[k]) \in Nat
        BY <4>1
      <4> QED
        BY <1>9, <4>2, <4>3
    <3> QED
      BY <3>1, <3>2
  <2> HIDE DEF h
  <2> QED
    BY <2>1, <2>2
<1>12. \E k \in S : h[k] > 0
  <2>1. PICK k \in S : o[k] < 0
    BY <1>5
  <2>2. -o[k] \in Nat \ {0} /\ b - w[k] \in Nat \ {0}
    BY <1>1, <1>8, <2>1
  <2>3. (-o[k]) * (b - w[k]) = o[k] * (w[k] - b)
    BY <1>1
  <2>4. \A p, q \in Nat \ {0} : p * q > 0
    <3> TAKE p \in Nat \ {0}, q \in Nat \ {0}
    <3>1. (p - 1) * q >= 0
      <4>1. p - 1 \in Nat
        OBVIOUS
      <4> QED
        BY <4>1
    <3> QED
      BY <3>1
  <2> HIDE DEF h
  <2>5. (-o[k]) * (b - w[k]) > 0
    BY <2>2, <2>4
  <2> QED
    BY <1>9, <2>3, <2>5
<1> HIDE DEF h
<1>13. Total(S, h) \in Nat /\ Total(S, h) > 0
  BY <1>1, <1>11, <1>12, TotalPositive
<1> QED
  BY <1>10, <1>13

LEMMA MomentSym ==
    ASSUME NEW S, NEW v, NEW w, Whole(v, S), Whole(w, S)
    PROVE  Moment(S, v, w) = Moment(S, w, v)
<1> DEFINE g == [i \in S |-> v[i] * w[i]]
           n == Cardinality(S)
<1>1. ASSUME NEW a, NEW b, Whole(a, S), Whole(b, S), \A i \in S : g[i] = a[i] * b[i]
      PROVE  Moment(S, a, b) = n * Total(S, g) - Total(S, a) * Total(S, b)
  <2> DEFINE f == Terms(S, a, b)
             t == Total(S, a)
  <2>1. /\ n \in Nat /\ t \in Int /\ Total(S, b) \in Int
        /\ \A i \in S : Off(S, a, i) \in Int /\ Off(S, a, i) = n * a[i] - t
        /\ Whole(f, S) /\ Moment(S, a, b) = Total(S, f) /\ Moment(S, a, b) \in Int
    BY <1>1, Moments, TotalWhole
  <2>2. \A i \in S : a[i] \in Int /\ b[i] \in Int /\ f[i] = Off(S, a, i) * b[i]
    BY <1>1 DEF Whole, Terms
  <2>3. Whole(g, S)
    <3>1. ASSUME NEW i \in S PROVE g[i] \in Int
      <4>1. \A p, q \in Int : p * q \in Int
        OBVIOUS
      <4> HIDE DEF g
      <4> QED
        BY <1>1, <2>2, <4>1
    <3> HIDE DEF g
    <3> QED
      BY <1>1, <3>1 DEF Whole
  <2>4. PICK u \in Int, z \in Int, r \in Int : u = 1 /\ z = 0 /\ r = -t
    BY <2>1
  <2> HIDE DEF f, t, g, n
  <2>5. Linear(S, u, f, n, g, r, b, z)
    <3> SUFFICES ASSUME NEW i \in S PROVE u * f[i] = n * g[i] + r * b[i] + z
      BY DEF Linear
    <3>1. PICK p \in Int, q \in Int : p = a[i] /\ q = b[i]
      BY <2>2
    <3>2. f[i] = (n * p - t) * q /\ g[i] = p * q /\ b[i] = q
      BY <1>1, <2>1, <2>2, <3>1
    <3>3. (n * p - t) * q = n * (p * q) + (-t) * q /\ n * (p * q) \in Int /\ (-t) * q \in Int
      BY <2>1
    <3> QED
      BY <2>4, <3>2, <3>3
  <2>6. u * Total(S, f) = n * Total(S, g) + r * Total(S, b) + Cardinality(S) * z
    <3>1. n \in Int
      BY <2>1
    <3> QED
      BY <1>1, <2>1, <2>3, <2>5, <3>1, TotalsCombine
  <2>7. Total(S, g) \in Int
    BY <2>3, TotalWhole
  <2>8. Cardinality(S) * z = 0 /\ (-t) * Total(S, b) = -(t * Total(S, b))
    BY <2>1, <2>4 DEF n
  <2>9. n * Total(S, g) \in Int /\ t * Total(S, b) \in Int
    BY <2>1, <2>7
  <2> QED
    BY <2>1, <2>4, <2>6, <2>8, <2>9 DEF t
<1>2. \A i \in S : g[i] = v[i] * w[i] /\ v[i] * w[i] = w[i] * v[i]
  BY DEF Whole
<1>3. Moment(S, v, w) = n * Total(S, g) - Total(S, v) * Total(S, w)
  BY <1>1, <1>2
<1>4. Moment(S, w, v) = n * Total(S, g) - Total(S, w) * Total(S, v)
  <2>1. \A i \in S : g[i] = w[i] * v[i]
    BY <1>2
  <2> HIDE DEF g
  <2> QED
    BY <1>1, <2>1
<1>5. Total(S, v) * Total(S, w) = Total(S, w) * Total(S, v)
  <2>1. Total(S, v) \in Int /\ Total(S, w) \in Int
    BY TotalWhole
  <2> QED
    BY <2>1
<1> QED
  BY <1>3, <1>4, <1>5

(* Products of offsets sum to the moment, as often as there are events.    *)
Crossed(S, v, w) == [i \in S |-> Off(S, v, i) * Off(S, w, i)]

LEMMA TotalCrossed ==
    ASSUME NEW S, NEW v, NEW w, Whole(v, S), Whole(w, S)
    PROVE  /\ Whole(Crossed(S, v, w), S)
           /\ Total(S, Crossed(S, v, w)) = Cardinality(S) * Moment(S, v, w)
<1> DEFINE h == Crossed(S, v, w)
           o == Offs(S, v)
           f == Terms(S, v, w)
           n == Cardinality(S)
           t == Total(S, w)
<1>1. /\ \A i \in S : Off(S, v, i) \in Int /\ w[i] \in Int
      /\ Whole(o, S) /\ Total(S, o) = 0
      /\ Whole(f, S) /\ Moment(S, v, w) = Total(S, f)
      /\ Moment(S, v, w) \in Int /\ n \in Nat /\ t \in Int
  BY Moments, TotalWhole DEF Whole
<1>2. \A i \in S : Off(S, w, i) \in Int /\ Off(S, w, i) = n * w[i] - t
  BY Moments
<1>3. \A i \in S : h[i] = Off(S, v, i) * Off(S, w, i) /\ o[i] = Off(S, v, i) /\ f[i] = Off(S, v, i) * w[i]
  BY DEF Crossed, Offs, Terms
<1> HIDE DEF h, o, f, n, t
<1>4. Whole(h, S)
  <2>1. ASSUME NEW i \in S PROVE h[i] \in Int
    <3>1. \A p, q \in Int : p * q \in Int
      OBVIOUS
    <3> QED
      BY <1>1, <1>2, <1>3, <3>1
  <2> QED
    BY <2>1 DEF Whole
<1>5. PICK u \in Int, z \in Int, r \in Int : u = 1 /\ z = 0 /\ r = -t
  BY <1>1
<1>6. Linear(S, u, h, n, f, r, o, z)
  <2> SUFFICES ASSUME NEW i \in S PROVE u * h[i] = n * f[i] + r * o[i] + z
    BY DEF Linear
  <2>1. PICK p \in Int, q \in Int : p = Off(S, v, i) /\ q = w[i]
    BY <1>1
  <2>2. h[i] = p * (n * q - t) /\ f[i] = p * q /\ o[i] = p
    BY <1>2, <1>3, <2>1
  <2>3. p * (n * q - t) = n * (p * q) + (-t) * p /\ n * (p * q) \in Int /\ (-t) * p \in Int
    BY <1>1
  <2> QED
    BY <1>5, <2>2, <2>3
<1>7. u * Total(S, h) = n * Total(S, f) + r * Total(S, o) + Cardinality(S) * z
  <2>1. n \in Int
    BY <1>1
  <2> QED
    BY <1>1, <1>4, <1>6, <2>1, TotalsCombine
<1>8. Total(S, h) \in Int
  BY <1>4, TotalWhole
<1>9. Total(S, h) = n * Moment(S, v, w)
  <2>1. r * Total(S, o) = 0 /\ Cardinality(S) * z = 0
    BY <1>1, <1>5 DEF n
  <2>2. n * Total(S, f) \in Int
    BY <1>1
  <2> QED
    BY <1>1, <1>5, <1>7, <1>8, <2>1, <2>2
<1> QED
  BY <1>4, <1>9 DEF h, n

(* The inequality of Cauchy and Schwarz.                                   *)
LEMMA Correlated ==
    ASSUME NEW S, NEW v, NEW w, Whole(v, S), Whole(w, S), S # {}, Moment(S, v, v) > 0
    PROVE  Moment(S, v, w) * Moment(S, v, w) <= Moment(S, v, v) * Moment(S, w, w)
<1> DEFINE uu == Crossed(S, v, v)
           uz == Crossed(S, v, w)
           zz == Crossed(S, w, w)
           ou == Offs(S, v)
           oz == Offs(S, w)
<1>1. PICK n \in Nat \ {0}, m \in Nat \ {0}, s \in Int, e \in Int :
        n = Cardinality(S) /\ m = Moment(S, v, v) /\ s = Moment(S, v, w) /\ e = Moment(S, w, w)
  <2>1. Cardinality(S) \in Nat \ {0}
    BY FS_EmptySet, FS_CardinalityType DEF Whole
  <2>2. Moment(S, v, v) \in Int /\ Moment(S, v, w) \in Int /\ Moment(S, w, w) \in Int
    BY Moments
  <2>3. Moment(S, v, v) \in Nat \ {0}
    BY <2>2
  <2> QED
    BY <2>1, <2>2, <2>3
<1>2. /\ Whole(uu, S) /\ Whole(uz, S) /\ Whole(zz, S)
      /\ Total(S, uu) = n * m /\ Total(S, uz) = n * s /\ Total(S, zz) = n * e
  <2>1. Whole(uu, S) /\ Total(S, uu) = n * m
    BY <1>1, TotalCrossed
  <2>2. Whole(uz, S) /\ Total(S, uz) = n * s
    BY <1>1, TotalCrossed
  <2>3. Whole(zz, S) /\ Total(S, zz) = n * e
    BY <1>1, TotalCrossed
  <2> QED
    BY <2>1, <2>2, <2>3
<1>3. \A i \in S : /\ ou[i] \in Int /\ oz[i] \in Int
                   /\ uu[i] = ou[i] * ou[i] /\ uz[i] = ou[i] * oz[i] /\ zz[i] = oz[i] * oz[i]
  <2>1. \A i \in S : Off(S, v, i) \in Int /\ Off(S, w, i) \in Int
    BY Moments
  <2> QED
    BY <2>1 DEF Crossed, Offs
<1> HIDE DEF uu, uz, zz, ou, oz
<1> DEFINE g == [i \in S |-> m * zz[i] - 2 * s * uz[i]]
           h == [i \in S |-> (m * oz[i] - s * ou[i]) * (m * oz[i] - s * ou[i])]
<1>4. Whole(g, S) /\ \A i \in S : g[i] = m * zz[i] - 2 * s * uz[i]
  <2>1. ASSUME NEW i \in S PROVE m * zz[i] - 2 * s * uz[i] \in Int
    <3>1. zz[i] \in Int /\ uz[i] \in Int
      BY <1>2 DEF Whole
    <3> QED
      BY <3>1
  <2> QED
    BY <2>1 DEF Whole
<1>5. /\ h \in [S -> Nat]
      /\ \A i \in S : h[i] = (m * oz[i] - s * ou[i]) * (m * oz[i] - s * ou[i])
  <2>1. \A k \in Int : k * k \in Nat
    <3> TAKE k \in Int
    <3>1. k \in Nat => k * k \in Nat
      OBVIOUS
    <3>2. -k \in Nat => (-k) * (-k) \in Nat
      OBVIOUS
    <3>3. (-k) * (-k) = k * k
      OBVIOUS
    <3> QED
      BY <3>1, <3>2, <3>3
  <2>2. \A i \in S : m * oz[i] - s * ou[i] \in Int
    BY <1>3
  <2> QED
    BY <2>1, <2>2
<1> HIDE DEF g, h
<1>6. PICK one \in Int, z \in Int, c \in Int, q \in Int : one = 1 /\ z = 0 /\ c = -(2 * s) /\ q = s * s
  OBVIOUS
<1>7. Total(S, g) = m * (n * e) - 2 * s * (n * s)
  <2>1. Linear(S, one, g, m, zz, c, uz, z)
    <3> SUFFICES ASSUME NEW i \in S PROVE one * g[i] = m * zz[i] + c * uz[i] + z
      BY DEF Linear
    <3>1. zz[i] \in Int /\ uz[i] \in Int /\ g[i] = m * zz[i] - 2 * s * uz[i]
      BY <1>2, <1>4 DEF Whole
    <3>2. m * zz[i] \in Int /\ 2 * s * uz[i] \in Int /\ (-(2 * s)) * uz[i] = -(2 * s * uz[i])
      BY <3>1
    <3> QED
      BY <1>6, <3>1, <3>2
  <2>2. one * Total(S, g) = m * Total(S, zz) + c * Total(S, uz) + Cardinality(S) * z
    <3>1. m \in Int
      OBVIOUS
    <3> QED
      BY <1>2, <1>4, <2>1, <3>1, TotalsCombine
  <2>3. Total(S, g) \in Int
    BY <1>4, TotalWhole
  <2>4. (-(2 * s)) * (n * s) = -(2 * s * (n * s)) /\ m * (n * e) \in Int /\ 2 * s * (n * s) \in Int
    OBVIOUS
  <2> QED
    BY <1>1, <1>2, <1>6, <2>2, <2>3, <2>4
<1>8. Total(S, h) = m * Total(S, g) + s * s * (n * m)
  <2>1. Whole(h, S)
    BY <1>5 DEF Whole
  <2>2. Linear(S, one, h, m, g, q, uu, z)
    <3> SUFFICES ASSUME NEW i \in S PROVE one * h[i] = m * g[i] + q * uu[i] + z
      BY DEF Linear
    <3>1. PICK a \in Int, b \in Int : a = ou[i] /\ b = oz[i]
      BY <1>3
    <3>2. h[i] = (m * b - s * a) * (m * b - s * a) /\ g[i] = m * (b * b) - 2 * s * (a * b) /\ uu[i] = a * a
      BY <1>3, <1>4, <1>5, <3>1
    <3>3. /\ (m * b - s * a) * (m * b - s * a) = m * (m * (b * b) - 2 * s * (a * b)) + s * s * (a * a)
          /\ m * (m * (b * b) - 2 * s * (a * b)) \in Int /\ s * s * (a * a) \in Int
      OBVIOUS
    <3> QED
      BY <1>6, <3>2, <3>3
  <2>3. one * Total(S, h) = m * Total(S, g) + q * Total(S, uu) + Cardinality(S) * z
    <3>1. m \in Int
      OBVIOUS
    <3> QED
      BY <1>2, <1>4, <2>1, <2>2, <3>1, TotalsCombine
  <2>4. Total(S, h) \in Int /\ Total(S, g) \in Int
    BY <1>4, <2>1, TotalWhole
  <2>5. m * Total(S, g) \in Int /\ s * s * (n * m) \in Int
    BY <2>4
  <2> QED
    BY <1>1, <1>2, <1>6, <2>3, <2>4, <2>5
<1>9. Total(S, h) >= 0
  BY <1>5, TotalPositive DEF Whole
<1>10. m * (m * (n * e) - 2 * s * (n * s)) + s * s * (n * m) = (n * m) * (m * e - s * s)
  OBVIOUS
<1>11. n * m \in Nat \ {0} /\ m * e \in Int /\ s * s \in Int
  <2>1. (n - 1) * m >= 0
    <3>1. n - 1 \in Nat
      OBVIOUS
    <3> QED
      BY <3>1
  <2> QED
    BY <2>1
<1>12. (n * m) * (s * s) <= (n * m) * (m * e)
  <2> DEFINE k == n * m
  <2>1. k * (m * e - s * s) >= 0
    BY <1>7, <1>8, <1>9, <1>10
  <2>2. k * (m * e - s * s) = k * (m * e) - k * (s * s)
    OBVIOUS
  <2>3. k * (m * e) \in Int /\ k * (s * s) \in Int
    OBVIOUS
  <2> HIDE DEF k
  <2>4. k * (s * s) <= k * (m * e)
    BY <2>1, <2>2, <2>3
  <2> QED
    BY <2>4 DEF k
<1>13. s * s <= m * e
  <2> DEFINE k == n * m
             l == s * s
             o == m * e
  <2>1. k \in Nat \ {0} /\ l \in Int /\ o \in Int /\ k * l <= k * o
    BY <1>11, <1>12
  <2> HIDE DEF k, l, o
  <2>2. l <= o
    BY <2>1, Cancel
  <2> QED
    BY <2>2 DEF l, o
<1> QED
  BY <1>1, <1>13

-----------------------------------------------------------------------------
(* The fitted rate is no less than the rate s / m by which y follows x,    *)
(* and no greater than e / s, by which x follows y.                        *)
LEMMA BetweenRegressions ==
    ASSUME NEW m \in Nat \ {0}, NEW e \in Nat \ {0}, NEW s \in Nat \ {0}, s * s <= m * e,
           NEW d \in Int, d = e - m, NEW r \in Nat \ {0}, r = d * d + 4 * s * s
    PROVE  /\ ~Over(r, m, 2 * s * s - d * m)
           /\ ~Over(r, -s, 2 * s * (-e) - d * (-s))
<1>1. s * s \in Int /\ m * e \in Int
  OBVIOUS
<1>2. \A a, b \in Int : a <= b => (2 * s) * (2 * s) * a <= (2 * s) * (2 * s) * b
  <2> TAKE a \in Int, b \in Int
  <2> DEFINE k == (2 * s) * (2 * s)
  <2>1. k \in Nat \ {0}
    <3>1. (2 * s - 1) * (2 * s) >= 0
      <4>1. 2 * s - 1 \in Nat /\ 2 * s \in Nat
        OBVIOUS
      <4> QED
        BY <4>1
    <3> QED
      BY <3>1
  <2> HIDE DEF k
  <2>2. a <= b => k * a <= k * b
    BY <2>1, Cancel
  <2> QED
    BY <2>2 DEF k
<1>3. ~Over(r, m, 2 * s * s - d * m)
  <2> DEFINE q == 2 * s * s - d * m
  <2> SUFFICES ASSUME Over(r, m, q) PROVE FALSE
    OBVIOUS
  <2>1. q \in Int /\ m \in Int /\ m >= 0
    OBVIOUS
  <2>2. r * m * m < q * q
    <3> HIDE DEF q
    <3> QED
      BY <2>1, OverIs
  <2>3. q * q = r * m * m + ((2 * s) * (2 * s) * (s * s) - (2 * s) * (2 * s) * (m * e))
    <3>1. ((2 * s * s) - (e - m) * m) * ((2 * s * s) - (e - m) * m)
            = ((e - m) * (e - m) + 4 * s * s) * m * m
              + ((2 * s) * (2 * s) * (s * s) - (2 * s) * (2 * s) * (m * e))
      OBVIOUS
    <3> QED
      BY <3>1
  <2>4. (2 * s) * (2 * s) * (s * s) <= (2 * s) * (2 * s) * (m * e)
    BY <1>1, <1>2
  <2>5. /\ r * m * m \in Int /\ (2 * s) * (2 * s) * (s * s) \in Int
        /\ (2 * s) * (2 * s) * (m * e) \in Int
    OBVIOUS
  <2> HIDE DEF q
  <2> QED
    BY <2>2, <2>3, <2>4, <2>5
<1>4. ~Over(r, -s, 2 * s * (-e) - d * (-s))
  <2> DEFINE q == 2 * s * (-e) - d * (-s)
  <2> SUFFICES ASSUME Over(r, -s, q) PROVE FALSE
    OBVIOUS
  <2>1. q \in Int /\ -s \in Int /\ -s < 0
    OBVIOUS
  <2>2. q < 0
    <3>1. 2 * s * (-e) - (e - m) * (-s) = -(s * (e + m))
      OBVIOUS
    <3>2. s * (e + m) > 0
      <4>1. (s - 1) * (e + m) >= 0
        <5>1. s - 1 \in Nat /\ e + m \in Nat
          OBVIOUS
        <5> QED
          BY <5>1
      <4> QED
        BY <4>1
    <3>3. s * (e + m) \in Int
      OBVIOUS
    <3> QED
      BY <3>1, <3>2, <3>3
  <2>3. q * q < r * (-s) * (-s)
    <3>1. q >= 0 \/ q * q < r * (-s) * (-s)
      <4> HIDE DEF q
      <4> QED
        BY <2>1, OverIs
    <3> HIDE DEF q
    <3> QED
      BY <2>1, <2>2, <3>1
  <2>4. r * (-s) * (-s) = q * q + ((2 * s) * (2 * s) * (s * s) - (2 * s) * (2 * s) * (m * e)) 
    <3>1. ((e - m) * (e - m) + 4 * s * s) * (-s) * (-s)
            = (2 * s * (-e) - (e - m) * (-s)) * (2 * s * (-e) - (e - m) * (-s))
              + ((2 * s) * (2 * s) * (s * s) - (s * s) * (4 * m * e))
      OBVIOUS
    <3>2. (s * s) * (4 * m * e) = (2 * s) * (2 * s) * (m * e)
      OBVIOUS
    <3> QED
      BY <3>1, <3>2
  <2>5. (2 * s) * (2 * s) * (s * s) <= (2 * s) * (2 * s) * (m * e)
    BY <1>1, <1>2
  <2>6. /\ q * q \in Int /\ (2 * s) * (2 * s) * (s * s) \in Int
        /\ (2 * s) * (2 * s) * (m * e) \in Int
    OBVIOUS
  <2> HIDE DEF q
  <2> QED
    BY <2>3, <2>4, <2>5, <2>6
<1> QED
  BY <1>3, <1>4

(* Terms that are positive on P and negative elsewhere, with weights of    *)
(* the same signs, have a positive sum.                                    *)
Weighted(S, f, c) == [i \in S |-> f[i] * c[i]]

LEMMA OverWeighted ==
    ASSUME NEW S, NEW f1, NEW f2, NEW c, Whole(f1, S), Whole(f2, S), Whole(c, S),
           NEW r \in Nat \ {0}, NEW P \in SUBSET S,
           \A i \in P : Over(r, f1[i], f2[i]) /\ c[i] >= 0,
           \A i \in S \ P : Over(r, -f1[i], -f2[i]) /\ c[i] <= 0,
           NEW s \in S, c[s] # 0
    PROVE  Over(r, Total(S, Weighted(S, f1, c)), Total(S, Weighted(S, f2, c)))
<1> DEFINE g1 == Weighted(S, f1, c)
           g2 == Weighted(S, f2, c)
<1>1. \A i \in S : /\ f1[i] \in Int /\ f2[i] \in Int /\ c[i] \in Int
                   /\ g1[i] = f1[i] * c[i] /\ g2[i] = f2[i] * c[i]
  BY DEF Whole, Weighted
<1> HIDE DEF g1, g2
<1>2. Whole(g1, S) /\ Whole(g2, S)
  <2>1. \A p, q \in Int : p * q \in Int
    OBVIOUS
  <2>2. \A i \in S : g1[i] \in Int /\ g2[i] \in Int
    BY <1>1, <2>1
  <2> QED
    BY <2>2 DEF Whole
<1>3. ASSUME NEW i \in S, c[i] # 0 PROVE Over(r, g1[i], g2[i])
  <2>1. PICK p \in Int, q \in Int, a \in Int : p = f1[i] /\ q = f2[i] /\ a = c[i]
    BY <1>1
  <2>2. CASE i \in P
    <3>1. a \in Nat \ {0} /\ Over(r, p, q)
      BY <1>3, <2>1, <2>2
    <3>2. Over(r, a * p, a * q)
      BY <3>1, OverScaled
    <3>3. a * p = p * a /\ a * q = q * a
      OBVIOUS
    <3> QED
      BY <1>1, <2>1, <3>2, <3>3
  <2>3. CASE i \notin P
    <3>1. -a \in Nat \ {0} /\ Over(r, -p, -q)
      BY <1>3, <2>1, <2>3
    <3>2. Over(r, (-a) * (-p), (-a) * (-q))
      <4>1. -p \in Int /\ -q \in Int
        OBVIOUS
      <4> QED
        BY <3>1, <4>1, OverScaled
    <3>3. (-a) * (-p) = p * a /\ (-a) * (-q) = q * a
      OBVIOUS
    <3> QED
      BY <1>1, <2>1, <3>2, <3>3
  <2> QED
    BY <2>2, <2>3
<1>4. \A i \in S : c[i] = 0 => g1[i] = 0 /\ g2[i] = 0
  <2> TAKE i \in S
  <2>1. \A p \in Int : p * 0 = 0
    OBVIOUS
  <2> QED
    BY <1>1, <2>1
<1>5. Over(r, Total(S, g1), Total(S, g2)) \/ NoneOver(S, g1, g2)
  BY <1>2, <1>3, <1>4, OverTotals
<1>6. ~NoneOver(S, g1, g2)
  <2>1. Over(r, g1[s], g2[s])
    BY <1>3
  <2>2. ~Over(r, 0, 0)
    <3>1. 0 \in Int /\ 0 <= 0 /\ 0 >= 0
      OBVIOUS
    <3> QED
      BY <3>1, OverZero
  <2> QED
    BY <2>1, <2>2 DEF NoneOver
<1> QED
  BY <1>5, <1>6 DEF g1, g2

-----------------------------------------------------------------------------
(* The line fitted to events in order, of which any two are as far apart   *)
(* from some line of rate b / a as twice the threshold at most, is within  *)
(* the threshold of one of them.                                           *)
Spread(S, a, b) ==
    \A k, l \in S : a * (y[k] - y[l]) - b * (x[k] - x[l]) <= 2 * a * Threshold

LEMMA SomeNear ==
    ASSUME NEW S, Whole(x, S), Whole(y, S), SameOrder(S, x, y),
           NEW i \in S, NEW j \in S, x[i] # x[j], Threshold \in Nat,
           NEW a \in Nat \ {0}, NEW b \in Int,
           Spread(S, a, b)
    PROVE  \E k \in S : Near(S, k)
<1> SUFFICES ASSUME \A k \in S : ~Near(S, k) PROVE FALSE
  OBVIOUS
<1> DEFINE ou == Offs(S, x)
           ov == Offs(S, y)
<1>1. PICK n \in Nat \ {0}, m \in Nat \ {0}, s \in Nat \ {0}, e \in Nat \ {0} :
        /\ n = Cardinality(S) /\ n >= 2 /\ s * s <= m * e
        /\ m = Moment(S, x, x) /\ s = Moment(S, x, y) /\ e = Moment(S, y, y) /\ s = Moment(S, y, x)
  <2>1. Cardinality(S) \in Nat /\ Cardinality(S) >= 2
    BY TwoOf DEF Whole
  <2>2. SameOrder(S, x, x) /\ SameOrder(S, y, y)
    BY DEF SameOrder
  <2>3. y[i] # y[j]
    <3>1. x[i] \in Int /\ x[j] \in Int /\ y[i] \in Int /\ y[j] \in Int
      BY DEF Whole
    <3>2. (x[i] < x[j] => y[i] < y[j]) /\ (x[j] < x[i] => y[j] < y[i])
      BY DEF SameOrder
    <3> QED
      BY <3>1, <3>2
  <2>4. Moment(S, x, x) \in Nat \ {0} /\ Moment(S, x, y) \in Nat \ {0}
    BY <2>2, MomentInOrder
  <2>5. Moment(S, y, y) \in Nat \ {0}
    BY <2>2, <2>3, MomentInOrder
  <2>6. Moment(S, x, y) * Moment(S, x, y) <= Moment(S, x, x) * Moment(S, y, y)
    <3>1. Moment(S, x, x) > 0 /\ S # {}
      BY <2>4
    <3> QED
      BY <3>1, Correlated
  <2>7. Moment(S, y, x) = Moment(S, x, y)
    BY MomentSym
  <2> QED
    BY <2>1, <2>4, <2>5, <2>6, <2>7
<1>2. PICK d \in Int : d = e - m
  OBVIOUS
<1>3. PICK r \in Nat \ {0} : r = d * d + 4 * s * s
  <2>1. d * d \in Nat
    <3>1. d \in Nat => d * d \in Nat
      OBVIOUS
    <3>2. -d \in Nat => (-d) * (-d) \in Nat
      OBVIOUS
    <3>3. (-d) * (-d) = d * d
      OBVIOUS
    <3> QED
      BY <3>1, <3>2, <3>3
  <2>2. 4 * s * s \in Nat \ {0}
    <3>1. (s - 1) * s >= 0
      <4>1. s - 1 \in Nat
        OBVIOUS
      <4> QED
        BY <4>1
    <3> QED
      BY <3>1
  <2> QED
    BY <2>1, <2>2
<1>4. PICK t \in Nat : t = n * Threshold
  <2>1. \A p, q \in Nat : p * q \in Nat
    OBVIOUS
  <2> QED
    BY <2>1
<1>5. /\ Whole(ou, S) /\ Total(S, ou) = 0 /\ Whole(ov, S) /\ Total(S, ov) = 0
      /\ \A k \in S : /\ ou[k] = Off(S, x, k) /\ ou[k] \in Int /\ ou[k] = n * x[k] - Total(S, x)
                      /\ ov[k] = Off(S, y, k) /\ ov[k] \in Int /\ ov[k] = n * y[k] - Total(S, y)
      /\ Total(S, x) \in Int /\ Total(S, y) \in Int /\ \A k \in S : x[k] \in Int /\ y[k] \in Int
  <2>1. /\ Whole(ou, S) /\ Total(S, ou) = 0 /\ Total(S, x) \in Int
        /\ \A k \in S : Off(S, x, k) \in Int /\ Off(S, x, k) = n * x[k] - Total(S, x)
    BY <1>1, Moments
  <2>2. /\ Whole(ov, S) /\ Total(S, ov) = 0 /\ Total(S, y) \in Int
        /\ \A k \in S : Off(S, y, k) \in Int /\ Off(S, y, k) = n * y[k] - Total(S, y)
    BY <1>1, Moments
  <2>3. \A k \in S : ou[k] = Off(S, x, k) /\ ov[k] = Off(S, y, k)
    BY DEF Offs
  <2> QED
    BY <2>1, <2>2, <2>3 DEF Whole
<1> HIDE DEF ou, ov
(* What is not near the line is above it or below it.                      *)
<1>6. ASSUME NEW p \in Int, NEW c \in Int, ~RateLeq(S, p, c)
      PROVE  Over(r, -p, 2 * s * (-c) - d * (-p))
  <2>1. ~OffsetOnly(S) /\ Abs(s) = s
    <3>1. ~(n < 2 \/ s = 0) /\ s \in Int /\ s >= 0
      BY <1>1
    <3> QED
      BY <1>1, <3>1 DEF OffsetOnly, Abs
  <2>2. RateLeq(S, p, c) <=> RootLeq(r, p, 2 * s * c - d * p)
    <3>1. m \in Int /\ e \in Int
      OBVIOUS
    <3>2. RateLeq(S, p, c) <=>
            RootLeq((e - m) * (e - m) + 4 * s * s, p, 2 * Abs(s) * c - (e - m) * p)
      BY <1>1, <2>1, <3>1, RateIs
    <3> QED
      BY <1>2, <1>3, <2>1, <3>2
  <2>3. -(-p) = p /\ -(2 * s * (-c) - d * (-p)) = 2 * s * c - d * p
    OBVIOUS
  <2> QED
    BY <1>6, <2>2, <2>3 DEF Over
<1> DEFINE P == {k \in S : Over(r, ou[k], 2 * s * (ov[k] - t) - d * ou[k])}
<1>7. \A k \in S \ P : Over(r, -ou[k], 2 * s * (-ov[k] - t) - d * (-ou[k]))
  <2> TAKE k \in S \ P
  <2>1. PICK u \in Int, v \in Int : u = ou[k] /\ v = ov[k]
    BY <1>5
  <2>2. ~RateLeq(S, u, v + t) \/ ~RateLeq(S, -u, t - v)
    BY <1>1, <1>4, <1>5, <2>1 DEF Near
  <2>3. CASE ~RateLeq(S, u, v + t)
    <3>1. Over(r, -u, 2 * s * (-(v + t)) - d * (-u))
      BY <1>6, <2>3
    <3>2. -(v + t) = -v - t
      OBVIOUS
    <3> QED
      BY <2>1, <3>1, <3>2
  <2>4. CASE ~RateLeq(S, -u, t - v)
    <3>1. -u \in Int /\ t - v \in Int
      OBVIOUS
    <3>2. Over(r, -(-u), 2 * s * (-(t - v)) - d * (-(-u)))
      BY <1>6, <2>4, <3>1
    <3>3. -(-u) = u /\ -(t - v) = v - t
      OBVIOUS
    <3>4. Over(r, u, 2 * s * (v - t) - d * u)
      BY <3>2, <3>3
    <3> QED
      BY <2>1, <3>4
  <2> QED
    BY <2>2, <2>3, <2>4
<1> DEFINE f == [k \in S |-> 2 * s * ov[k] - d * ou[k]]
<1>8. /\ Whole(f, S) /\ \A k \in S : f[k] = 2 * s * ov[k] - d * ou[k]
  <2>1. \A k \in S : 2 * s * ov[k] - d * ou[k] \in Int
    BY <1>5
  <2> QED
    BY <2>1 DEF Whole
<1> HIDE DEF f
<1>9. \A p, q \in Int : p <= q => 2 * s * p <= 2 * s * q
  <2> TAKE p \in Int, q \in Int
  <2> DEFINE k == 2 * s
  <2>1. k \in Nat \ {0}
    OBVIOUS
  <2> HIDE DEF k
  <2>2. p <= q => k * p <= k * q
    BY <2>1, Cancel
  <2> QED
    BY <2>2 DEF k
<1>10. \A k \in P : Over(r, ou[k], f[k])
  <2> TAKE k \in P
  <2>1. PICK u \in Int, v \in Int : u = ou[k] /\ v = ov[k]
    BY <1>5
  <2>2. Over(r, u, 2 * s * (v - t) - d * u)
    BY <2>1
  <2>3. 2 * s * (v - t) <= 2 * s * v
    <3>1. v - t \in Int /\ v - t <= v
      OBVIOUS
    <3> QED
      BY <1>9, <3>1
  <2>4. /\ 2 * s * (v - t) - d * u \in Int /\ 2 * s * v - d * u \in Int
        /\ 2 * s * (v - t) - d * u <= 2 * s * v - d * u
    <3>1. 2 * s * (v - t) \in Int /\ 2 * s * v \in Int /\ d * u \in Int
      OBVIOUS
    <3> QED
      BY <2>3, <3>1
  <2>5. Over(r, u, 2 * s * v - d * u)
    BY <2>2, <2>4, OverMore
  <2> QED
    BY <1>8, <2>1, <2>5
<1>11. \A k \in S \ P : Over(r, -ou[k], -f[k])
  <2> TAKE k \in S \ P
  <2>1. PICK u \in Int, v \in Int : u = ou[k] /\ v = ov[k]
    BY <1>5
  <2>2. Over(r, -u, 2 * s * (-v - t) - d * (-u))
    BY <1>7, <2>1
  <2>3. 2 * s * (-v - t) <= 2 * s * (-v)
    <3>1. -v - t \in Int /\ -v \in Int /\ -v - t <= -v
      OBVIOUS
    <3> QED
      BY <1>9, <3>1
  <2>4. /\ 2 * s * (-v - t) - d * (-u) \in Int /\ -(2 * s * v - d * u) \in Int /\ -u \in Int
        /\ 2 * s * (-v - t) - d * (-u) <= -(2 * s * v - d * u)
    <3>1. /\ 2 * s * (-v - t) \in Int /\ 2 * s * v \in Int /\ d * u \in Int
          /\ 2 * s * (-v) = -(2 * s * v) /\ d * (-u) = -(d * u)
      OBVIOUS
    <3> QED
      BY <2>3, <3>1
  <2>5. Over(r, -u, -(2 * s * v - d * u))
    BY <2>2, <2>4, OverMore
  <2> QED
    BY <1>8, <2>1, <2>5
(* With its offsets summing to 0, there are events of both kinds.          *)
<1>12. Total(S, f) = 0
  <2>1. PICK one \in Int, z \in Int, p \in Int, q \in Int : one = 1 /\ z = 0 /\ p = 2 * s /\ q = -d
    OBVIOUS
  <2>2. Linear(S, one, f, p, ov, q, ou, z)
    <3> SUFFICES ASSUME NEW k \in S PROVE one * f[k] = p * ov[k] + q * ou[k] + z
      BY DEF Linear
    <3>1. PICK u \in Int, v \in Int : u = ou[k] /\ v = ov[k]
      BY <1>5
    <3>2. f[k] = 2 * s * v - d * u
      BY <1>8, <3>1
    <3>3. 2 * s * v \in Int /\ d * u \in Int /\ (-d) * u = -(d * u)
      OBVIOUS
    <3> QED
      BY <2>1, <3>1, <3>2, <3>3
  <2>3. one * Total(S, f) = p * Total(S, ov) + q * Total(S, ou) + Cardinality(S) * z
    BY <1>5, <1>8, <2>2, TotalsCombine
  <2>4. Total(S, f) \in Int /\ p * 0 = 0 /\ q * 0 = 0 /\ Cardinality(S) * z = 0
    BY <1>1, <1>8, <2>1, TotalWhole
  <2> QED
    BY <1>5, <2>1, <2>3, <2>4
<1>13. ~Over(r, 0, 0)
  <2>1. 0 \in Int /\ 0 <= 0 /\ 0 >= 0
    OBVIOUS
  <2> QED
    BY <2>1, OverZero
<1> HIDE DEF P
<1>14. P \in SUBSET S
  BY DEF P
<1>15. P # S
  <2> SUFFICES ASSUME P = S PROVE FALSE
    OBVIOUS
  <2>1. \A k \in S : Over(r, ou[k], f[k])
    BY <1>10
  <2>2. Over(r, Total(S, ou), Total(S, f)) \/ NoneOver(S, ou, f)
    BY <1>5, <1>8, <2>1, OverTotals
  <2>3. ~NoneOver(S, ou, f)
    BY <1>13, <2>1 DEF NoneOver
  <2> QED
    BY <1>5, <1>12, <1>13, <2>2, <2>3
<1>16. P # {}
  <2> SUFFICES ASSUME P = {} PROVE FALSE
    OBVIOUS
  <2> DEFINE gu == [k \in S |-> -ou[k]]
             gf == [k \in S |-> -f[k]]
  <2>1. ASSUME NEW h, Whole(h, S), Total(S, h) = 0
        PROVE  Whole([k \in S |-> -h[k]], S) /\ Total(S, [k \in S |-> -h[k]]) = 0
    <3> DEFINE g == [k \in S |-> -h[k]]
    <3>1. Whole(g, S) /\ \A k \in S : g[k] = -h[k] /\ h[k] \in Int
      BY <2>1 DEF Whole
    <3> HIDE DEF g
    <3>2. PICK one \in Int, z \in Int, p \in Int : one = 1 /\ z = 0 /\ p = -1
      OBVIOUS
    <3>3. \A k \in S : one * g[k] = p * h[k] + z
      BY <3>1, <3>2
    <3>4. one * Total(S, g) = p * Total(S, h) + Cardinality(S) * z
      <4>1. Whole(h, S) /\ Whole(g, S)
        BY <2>1, <3>1
      <4> QED
        BY <3>3, <4>1, TotalsLinear
    <3>5. Total(S, g) \in Int /\ p * 0 = 0 /\ Cardinality(S) * z = 0
      BY <1>1, <3>1, <3>2, TotalWhole
    <3>6. Total(S, g) = 0
      BY <2>1, <3>2, <3>4, <3>5
    <3> QED
      BY <3>1, <3>6 DEF g
  <2>2. Whole(gu, S) /\ Total(S, gu) = 0
    BY <1>5, <2>1
  <2>3. Whole(gf, S) /\ Total(S, gf) = 0
    BY <1>8, <1>12, <2>1
  <2>4. \A k \in S : Over(r, gu[k], gf[k])
    BY <1>11
  <2> HIDE DEF gu, gf
  <2>5. Over(r, Total(S, gu), Total(S, gf)) \/ NoneOver(S, gu, gf)
    BY <2>2, <2>3, <2>4, OverTotals
  <2>6. ~NoneOver(S, gu, gf)
    BY <1>13, <2>4 DEF NoneOver
  <2> QED
    BY <1>13, <2>2, <2>3, <2>5, <2>6
(* The difference of two of either kind is of the sign of the difference   *)
(* between the two rates.                                                  *)
<1> DEFINE g == 2 * s * b - d * a
<1>17. ASSUME NEW k \in P, NEW l \in S \ P
       PROVE  Over(r, a * (ou[k] - ou[l]), g * (ou[k] - ou[l]))
  <2>1. PICK uk \in Int, vk \in Int, ul \in Int, vl \in Int :
          uk = ou[k] /\ vk = ov[k] /\ ul = ou[l] /\ vl = ov[l]
    BY <1>5, <1>14
  <2>2. PICK U \in Int, V \in Int : U = uk - ul /\ V = vk - vl - 2 * t
    OBVIOUS
  <2>3. Over(r, U, 2 * s * V - d * U)
    <3>1. Over(r, uk, 2 * s * (vk - t) - d * uk)
      BY <2>1 DEF P
    <3>2. Over(r, -ul, 2 * s * (-vl - t) - d * (-ul))
      BY <1>7, <2>1
    <3>3. /\ 2 * s * (vk - t) - d * uk \in Int /\ -ul \in Int
          /\ 2 * s * (-vl - t) - d * (-ul) \in Int
      OBVIOUS
    <3>4. Over(r, uk + (-ul), (2 * s * (vk - t) - d * uk) + (2 * s * (-vl - t) - d * (-ul)))
      BY <3>1, <3>2, <3>3, OverAdds
    <3>5. /\ uk + (-ul) = uk - ul
          /\ (2 * s * (vk - t) - d * uk) + (2 * s * (-vl - t) - d * (-ul))
               = 2 * s * (vk - vl - 2 * t) - d * (uk - ul)
      OBVIOUS
    <3> QED
      BY <2>2, <3>4, <3>5
  <2>4. a * V <= b * U
    <3>1. PICK xk \in Int, yk \in Int, xl \in Int, yl \in Int :
            xk = x[k] /\ yk = y[k] /\ xl = x[l] /\ yl = y[l]
      BY <1>5, <1>14
    <3>2. a * (yk - yl) - b * (xk - xl) <= 2 * a * Threshold
      BY <1>14, <3>1 DEF Spread
    <3>3. PICK T \in Nat : T = Threshold
      OBVIOUS
    <3>4. n * (a * (yk - yl) - b * (xk - xl)) <= n * (2 * a * T)
      <4>1. a * (yk - yl) - b * (xk - xl) \in Int /\ 2 * a * T \in Int
        OBVIOUS
      <4> QED
        BY <3>2, <3>3, <4>1, Cancel
    <3>5. n * (a * (yk - yl) - b * (xk - xl)) = a * (n * yk - n * yl) - b * (n * xk - n * xl)
      OBVIOUS
    <3>6. n * (2 * a * T) = a * (2 * (n * T))
      OBVIOUS
    <3>7. uk - ul = n * xk - n * xl /\ vk - vl = n * yk - n * yl
      <4>1. /\ uk = n * xk - Total(S, x) /\ ul = n * xl - Total(S, x)
            /\ vk = n * yk - Total(S, y) /\ vl = n * yl - Total(S, y)
        BY <1>5, <1>14, <2>1, <3>1
      <4>2. n * xk \in Int /\ n * xl \in Int /\ n * yk \in Int /\ n * yl \in Int
        OBVIOUS
      <4> QED
        BY <1>5, <4>1, <4>2
    <3>8. a * (vk - vl) - b * (uk - ul) <= a * (2 * t)
      BY <1>4, <3>3, <3>4, <3>5, <3>6, <3>7
    <3>9. a * (vk - vl - 2 * t) = a * (vk - vl) - a * (2 * t)
      OBVIOUS
    <3>10. a * (vk - vl) \in Int /\ a * (2 * t) \in Int /\ b * (uk - ul) \in Int
      OBVIOUS
    <3> QED
      BY <2>2, <3>8, <3>9, <3>10
  <2>5. Over(r, a * U, a * (2 * s * V - d * U))
    <3>1. 2 * s * V - d * U \in Int
      OBVIOUS
    <3> QED
      BY <2>3, <3>1, OverScaled
  <2>6. a * (2 * s * V - d * U) <= g * U
    <3>1. 2 * s * (a * V) <= 2 * s * (b * U)
      <4>1. a * V \in Int /\ b * U \in Int
        OBVIOUS
      <4> QED
        BY <1>9, <2>4, <4>1
    <3>2. a * (2 * s * V - d * U) = 2 * s * (a * V) - d * a * U
      OBVIOUS
    <3>3. g * U = 2 * s * (b * U) - d * a * U
      OBVIOUS
    <3>4. 2 * s * (a * V) \in Int /\ 2 * s * (b * U) \in Int /\ d * a * U \in Int
      OBVIOUS
    <3> HIDE DEF g
    <3> QED
      BY <3>1, <3>2, <3>3, <3>4
  <2>7. a * U \in Int /\ a * (2 * s * V - d * U) \in Int /\ g * U \in Int
    OBVIOUS
  <2>8. Over(r, a * U, g * U)
    BY <2>5, <2>6, <2>7, OverMore
  <2> QED
    BY <2>1, <2>2, <2>8
<1>18. g \in Int
  OBVIOUS
<1> HIDE DEF g
<1>19. \/ \A k \in P, l \in S \ P : ou[k] > ou[l]
       \/ \A k \in P, l \in S \ P : ou[k] < ou[l]
  <2> SUFFICES ASSUME NEW k1 \in P, NEW l1 \in S \ P, ou[k1] <= ou[l1],
                      NEW k2 \in P, NEW l2 \in S \ P, ou[k2] >= ou[l2]
               PROVE  FALSE
    <3>1. \A k \in S : ou[k] \in Int
      BY <1>5
    <3> QED
      BY <1>14, <3>1
  <2>1. PICK U \in Int, W \in Int : U = ou[k1] - ou[l1] /\ W = ou[k2] - ou[l2] /\ U <= 0 /\ W >= 0
    <3>1. ou[k1] \in Int /\ ou[l1] \in Int /\ ou[k2] \in Int /\ ou[l2] \in Int
      BY <1>5, <1>14
    <3> QED
      BY <3>1
  <2>2. Over(r, a * U, g * U) /\ Over(r, a * W, g * W)
    BY <1>17, <2>1
  <2>3. U # 0 /\ W # 0
    <3>1. a * 0 = 0 /\ g * 0 = 0
      BY <1>18
    <3> QED
      BY <1>13, <2>2, <3>1
  <2>4. PICK p \in Nat \ {0}, q \in Nat \ {0} : p = -U /\ q = W
    BY <2>1, <2>3
  <2>5. a * U \in Int /\ g * U \in Int /\ a * W \in Int /\ g * W \in Int
    BY <1>18
  <2>6. Over(r, q * (a * U), q * (g * U)) 
    BY <2>2, <2>5, OverScaled
  <2>7. Over(r, p * (a * W), p * (g * W))
    BY <2>2, <2>5, OverScaled
  <2>8. /\ q * (a * U) \in Int /\ q * (g * U) \in Int
        /\ p * (a * W) \in Int /\ p * (g * W) \in Int
    BY <2>5
  <2>9. Over(r, q * (a * U) + p * (a * W), q * (g * U) + p * (g * W))
    BY <2>6, <2>7, <2>8, OverAdds
  <2>10. q * (a * U) + p * (a * W) = 0 /\ q * (g * U) + p * (g * W) = 0
    <3>1. \A h \in Int : W * (h * U) + (-U) * (h * W) = 0
      OBVIOUS
    <3>2. a \in Int
      OBVIOUS
    <3> QED
      BY <1>18, <2>4, <3>1, <3>2
  <2> QED
    BY <1>13, <2>9, <2>10
(* The sums with the events' own times as weights.                         *)
<1>20. ASSUME NEW w, Whole(w, S), NEW z \in Int, NEW h \in {1, -1},
              NEW mx \in Int, NEW my \in Int, mx = Moment(S, x, w), my = Moment(S, y, w),
              \A k \in P : h * (w[k] - z) >= 0,
              \A k \in S \ P : h * (w[k] - z) <= 0,
              NEW l \in S, w[l] # z
       PROVE  Over(r, h * mx, 2 * s * (h * my) - d * (h * mx))
  <2> DEFINE c == [k \in S |-> h * (w[k] - z)]
             cu == Weighted(S, ou, c)
             cf == Weighted(S, f, c)
             hx == Shifted(S, x, w, z)
             hy == Shifted(S, y, w, z)
  <2>1. \A k \in S : c[k] = h * (w[k] - z) /\ c[k] \in Int /\ w[k] \in Int
    <3>1. ASSUME NEW k \in S PROVE h * (w[k] - z) \in Int /\ w[k] \in Int
      <4>1. w[k] \in Int /\ h \in Int
        BY <1>20 DEF Whole
      <4> QED
        BY <4>1
    <3> QED
      BY <3>1
  <2> HIDE DEF c
  <2>2. Whole(c, S)
    BY <1>20, <2>1 DEF Whole
  <2>3. c[l] # 0
    <3>1. w[l] \in Int /\ c[l] = h * (w[l] - z)
      BY <2>1
    <3>2. h = 1 \/ h = -1
      OBVIOUS
    <3> QED
      BY <1>20, <3>1, <3>2
  <2>4. Over(r, Total(S, cu), Total(S, cf))
    <3>1. \A k \in P : Over(r, ou[k], f[k]) /\ c[k] >= 0
      BY <1>10, <1>14, <1>20, <2>1
    <3>2. \A k \in S \ P : Over(r, -ou[k], -f[k]) /\ c[k] <= 0
      BY <1>11, <1>20, <2>1
    <3> HIDE DEF cu, cf
    <3>3. Over(r, Total(S, Weighted(S, ou, c)), Total(S, Weighted(S, f, c)))
      BY <1>5, <1>8, <1>14, <2>2, <2>3, <3>1, <3>2, OverWeighted
    <3> QED
      BY <3>3 DEF cu, cf
  <2>5. Whole(hx, S) /\ Total(S, hx) = mx
    BY <1>20, MomentShifted
  <2>6. Whole(hy, S) /\ Total(S, hy) = my
    BY <1>20, MomentShifted
  <2>7. \A k \in S : /\ hx[k] = ou[k] * (w[k] - z) /\ hy[k] = ov[k] * (w[k] - z)
                     /\ cu[k] = ou[k] * c[k] /\ cf[k] = f[k] * c[k]
    BY <1>5 DEF Shifted, Weighted
  <2> HIDE DEF hx, hy, cu, cf
  <2>8. Whole(cu, S) /\ Whole(cf, S)
    <3>1. \A k \in S : ou[k] \in Int /\ f[k] \in Int /\ c[k] \in Int
      BY <1>5, <1>8, <2>1 DEF Whole
    <3>2. \A p, q \in Int : p * q \in Int
      OBVIOUS
    <3>3. \A k \in S : cu[k] \in Int /\ cf[k] \in Int
      BY <2>7, <3>1, <3>2
    <3> QED
      BY <1>20, <3>3 DEF Whole
  <2>9. PICK one \in Int, o \in Int, p \in Int, q \in Int :
          one = 1 /\ o = 0 /\ p = 2 * s * h /\ q = -(d * h)
    <3>1. 2 * s * h \in Int /\ -(d * h) \in Int
      OBVIOUS
    <3> QED
      BY <3>1
  <2>10. Total(S, cu) = h * mx
    <3>1. \A k \in S : one * cu[k] = h * hx[k] + o
      <4> TAKE k \in S
      <4>1. PICK u \in Int, v \in Int : u = ou[k] /\ v = w[k]
        BY <1>5, <2>1
      <4>2. cu[k] = u * (h * (v - z)) /\ hx[k] = u * (v - z)
        BY <2>1, <2>7, <4>1
      <4>3. u * (h * (v - z)) = h * (u * (v - z)) /\ h * (u * (v - z)) \in Int
        OBVIOUS
      <4> QED
        BY <2>9, <4>2, <4>3
    <3>2. one * Total(S, cu) = h * Total(S, hx) + Cardinality(S) * o
      <4>1. h \in Int
        OBVIOUS
      <4> QED
        BY <2>5, <2>8, <3>1, <4>1, TotalsLinear
    <3>3. Total(S, cu) \in Int /\ Cardinality(S) * o = 0 /\ h * mx \in Int
      BY <1>1, <2>8, <2>9, TotalWhole
    <3> QED
      BY <2>5, <2>9, <3>2, <3>3
  <2>11. Total(S, cf) = 2 * s * (h * my) - d * (h * mx)
    <3>1. Linear(S, one, cf, p, hy, q, hx, o)
      <4> SUFFICES ASSUME NEW k \in S PROVE one * cf[k] = p * hy[k] + q * hx[k] + o
        BY DEF Linear
      <4>1. PICK u \in Int, v \in Int, wk \in Int : u = ou[k] /\ v = ov[k] /\ wk = w[k]
        BY <1>5, <2>1
      <4>2. /\ cf[k] = (2 * s * v - d * u) * (h * (wk - z))
            /\ hx[k] = u * (wk - z) /\ hy[k] = v * (wk - z)
        BY <1>8, <2>1, <2>7, <4>1
      <4>3. (2 * s * v - d * u) * (h * (wk - z)) = 2 * s * h * (v * (wk - z)) + (-(d * h)) * (u * (wk - z))
        OBVIOUS
      <4>4. 2 * s * h * (v * (wk - z)) \in Int /\ (-(d * h)) * (u * (wk - z)) \in Int
        OBVIOUS
      <4> QED
        BY <2>9, <4>2, <4>3, <4>4
    <3>2. one * Total(S, cf) = p * Total(S, hy) + q * Total(S, hx) + Cardinality(S) * o
      BY <2>5, <2>6, <2>8, <3>1, TotalsCombine
    <3>3. Total(S, cf) \in Int /\ Cardinality(S) * o = 0
      BY <1>1, <2>8, <2>9, TotalWhole
    <3>4. 2 * s * h * my + (-(d * h)) * mx = 2 * s * (h * my) - d * (h * mx)
      OBVIOUS
    <3>5. 2 * s * h * my \in Int /\ (-(d * h)) * mx \in Int
      OBVIOUS
    <3> QED
      BY <2>5, <2>6, <2>9, <3>2, <3>3, <3>4, <3>5
  <2> QED
    BY <2>4, <2>10, <2>11
<1>21. ~Over(r, m, 2 * s * s - d * m) /\ ~Over(r, -s, 2 * s * (-e) - d * (-s))
  BY <1>1, <1>2, <1>3, BetweenRegressions
<1>22. CASE \A k \in P, l \in S \ P : ou[k] > ou[l]
  <2>1. \A k \in P : \A l \in S \ P : x[l] < x[k]
    <3> TAKE k \in P
    <3> TAKE l \in S \ P
    <3>1. ou[l] < ou[k] /\ k \in S /\ l \in S
      <4>1. ou[k] \in Int /\ ou[l] \in Int /\ k \in S
        BY <1>5, <1>14
      <4> QED
        BY <1>22, <4>1
    <3> QED
      BY <1>5, <3>1, OffOrder
  <2>2. PICK z \in Int : (\A k \in P : z <= x[k]) /\ \A l \in S \ P : x[l] < z
    BY <1>14, <1>16, <2>1, Bound
  <2>3. PICK l \in S \ P : TRUE
    BY <1>14, <1>15
  <2>4. PICK h \in {1, -1} : h = 1
    OBVIOUS
  <2>5. /\ \A k \in P : h * (x[k] - z) >= 0
        /\ \A k \in S \ P : h * (x[k] - z) <= 0
        /\ x[l] # z /\ l \in S
    <3>1. \A k \in S : x[k] \in Int
      BY <1>5
    <3> QED
      BY <1>14, <2>2, <2>3, <2>4, <3>1
  <2>6. Over(r, h * m, 2 * s * (h * s) - d * (h * m))
    <3>1. m \in Int /\ s \in Int
      OBVIOUS
    <3> QED
      BY <1>1, <1>20, <2>5, <3>1
  <2>7. h * m = m /\ h * s = s
    BY <2>4
  <2> QED
    BY <1>21, <2>6, <2>7
<1>23. CASE \A k \in P, l \in S \ P : ou[k] < ou[l]
  <2> DEFINE N == S \ P
  <2>1. \A k \in N : \A l \in S \ N : y[l] < y[k]
    <3> TAKE k \in N
    <3> TAKE l \in S \ N
    <3>1. ou[l] < ou[k] /\ k \in S /\ l \in S
      BY <1>23
    <3>2. x[l] < x[k]
      BY <1>5, <3>1, OffOrder
    <3> QED
      BY <3>1, <3>2 DEF SameOrder
  <2>2. N \in SUBSET S /\ N # {}
    BY <1>14, <1>15
  <2>3. PICK z \in Int : (\A k \in N : z <= y[k]) /\ \A l \in S \ N : y[l] < z
    <3> HIDE DEF N
    <3> QED
      BY <2>1, <2>2, Bound
  <2>4. PICK l \in P : TRUE
    BY <1>16
  <2>5. PICK h \in {1, -1} : h = -1
    OBVIOUS
  <2>6. /\ \A k \in P : h * (y[k] - z) >= 0
        /\ \A k \in S \ P : h * (y[k] - z) <= 0
        /\ y[l] # z /\ l \in S
    <3>1. \A k \in S : y[k] \in Int
      BY <1>5
    <3>2. (\A k \in P : y[k] < z) /\ \A k \in S \ P : z <= y[k]
      BY <1>14, <2>3
    <3> QED
      BY <1>14, <2>4, <2>5, <3>1, <3>2
  <2>7. Over(r, h * s, 2 * s * (h * e) - d * (h * s))
    <3>1. e \in Int /\ s \in Int
      OBVIOUS
    <3> QED
      BY <1>1, <1>20, <2>6, <3>1
  <2>8. h * s = -s /\ h * e = -e
    BY <2>5
  <2> QED
    BY <1>21, <2>7, <2>8
<1> QED
  BY <1>19, <1>22, <1>23

(* Events at one time have no moment.                                      *)
LEMMA NoSpread ==
    ASSUME NEW S, NEW v, NEW w, Whole(v, S), Whole(w, S), \A i, j \in S : v[i] = v[j]
    PROVE  (\A k \in S : Off(S, v, k) = 0) /\ Moment(S, v, w) = 0
<1> DEFINE o == Offs(S, v)
           f == Terms(S, v, w)
<1>1. /\ Whole(o, S) /\ Total(S, o) = 0 /\ Cardinality(S) \in Nat
      /\ Whole(f, S) /\ Moment(S, v, w) = Total(S, f)
  BY Moments
<1>2. \A k \in S : o[k] = Off(S, v, k) /\ f[k] = o[k] * w[k] /\ w[k] \in Int /\ o[k] \in Int
  BY <1>1 DEF Offs, Terms, Whole
<1> HIDE DEF o, f
<1>3. ASSUME NEW k \in S, o[k] # 0 PROVE FALSE
  <2>1. PICK p \in S, q \in S : o[p] > 0 /\ o[q] < 0
    BY <1>1, <1>3, ZeroTotal
  <2>2. Off(S, v, q) < Off(S, v, p)
    BY <1>2, <2>1
  <2>3. v[q] < v[p]
    BY <2>2, OffOrder
  <2>4. v[q] = v[p] /\ v[q] \in Int
    BY DEF Whole
  <2> QED
    BY <2>3, <2>4
<1>4. PICK one \in Int, z \in Int : one = 1 /\ z = 0
  OBVIOUS
<1>5. \A k \in S : one * f[k] = z * f[k] + z
  <2> TAKE k \in S
  <2>1. f[k] = 0
    BY <1>2, <1>3
  <2> QED
    BY <1>4, <2>1
<1>6. one * Total(S, f) = z * Total(S, f) + Cardinality(S) * z
  BY <1>1, <1>4, <1>5, TotalsLinear
<1>7. Total(S, f) \in Int
  BY <1>1, TotalWhole
<1>8. Moment(S, v, w) = 0
  BY <1>1, <1>4, <1>6, <1>7
<1> QED
  BY <1>2, <1>3, <1>8

(* So are the events near the line through two of them, and the line that  *)
(* is fitted to some of those.                                             *)
LEMMA ConsensusRefits ==
    ASSUME Inputs, InOrder, NEW i \in Event, NEW j \in Event, x[i] < x[j],
           NEW S \in SUBSET Consensus(i, j), S # {}
    PROVE  \E k \in Event : Near(S, k)
<1>1. /\ S \in SUBSET Event /\ IsFiniteSet(S)
      /\ \A k \in Event : x[k] \in Int /\ y[k] \in Int
  <2>1. S \in SUBSET Event
    BY DEF Consensus
  <2>2. IsFiniteSet(Event) /\ \A k \in Event : x[k] \in Int /\ y[k] \in Int
    BY Events
  <2> QED
    BY <2>1, <2>2, FS_Subset
<1>2. PICK a \in Nat \ {0}, b \in Int, T \in Nat : a = x[j] - x[i] /\ b = y[j] - y[i] /\ T = Threshold
  <2>1. x[i] \in Int /\ x[j] \in Int /\ y[i] \in Int /\ y[j] \in Int
    BY <1>1
  <2> QED
    BY <2>1, NumberAssumption
<1>3. \A k \in S : Abs(b * (x[k] - x[i]) - a * (y[k] - y[i])) <= T * a
  <2>1. Abs(a) = a
    BY DEF Abs
  <2> QED
    BY <1>2, <2>1 DEF Consensus
<1>4. Spread(S, a, b)
  <2> SUFFICES ASSUME NEW k \in S, NEW l \in S
               PROVE  a * (y[k] - y[l]) - b * (x[k] - x[l]) <= 2 * a * Threshold
    BY DEF Spread
  <2>1. PICK xi \in Int, yi \in Int, xk \in Int, yk \in Int, xl \in Int, yl \in Int :
          xi = x[i] /\ yi = y[i] /\ xk = x[k] /\ yk = y[k] /\ xl = x[l] /\ yl = y[l]
    BY <1>1
  <2>2. /\ Abs(b * (xk - xi) - a * (yk - yi)) <= T * a
        /\ Abs(b * (xl - xi) - a * (yl - yi)) <= T * a
    BY <1>1, <1>3, <2>1
  <2>3. PICK p \in Int, q \in Int, w \in Int :
          /\ p = b * (xk - xi) - a * (yk - yi)
          /\ q = b * (xl - xi) - a * (yl - yi)
          /\ w = T * a
    OBVIOUS
  <2>4. -p <= w /\ q <= w
    BY <2>2, <2>3 DEF Abs
  <2>5. a * (yk - yl) - b * (xk - xl)
          = (b * (xl - xi) - a * (yl - yi)) - (b * (xk - xi) - a * (yk - yi))
    OBVIOUS
  <2>6. 2 * a * T = 2 * (T * a)
    OBVIOUS
  <2>7. a * (yk - yl) - b * (xk - xl) <= 2 * a * T
    BY <2>3, <2>4, <2>5, <2>6
  <2> QED
    BY <1>2, <2>1, <2>7
<1>5. Whole(x, S) /\ Whole(y, S) /\ SameOrder(S, x, y) /\ Threshold \in Nat
  BY <1>1, NumberAssumption DEF Whole, SameOrder, InOrder
<1>6. CASE \E p, q \in S : x[p] # x[q]
  <2>1. PICK p \in S, q \in S : x[p] # x[q]
    BY <1>6
  <2>2. \E k \in S : Near(S, k)
    BY <1>4, <1>5, <2>1, SomeNear
  <2> QED
    BY <1>1, <2>2
(* Events that are left at one point are on the line fitted to them.       *)
<1>7. CASE \A p, q \in S : x[p] = x[q]
  <2>1. PICK k \in S : TRUE
    OBVIOUS
  <2>2. \A p, q \in S : y[p] = y[q]
    <3> TAKE p \in S, q \in S
    <3>1. x[p] = x[q] /\ x[p] \in Int /\ y[p] \in Int /\ y[q] \in Int
      BY <1>1, <1>7
    <3>2. (y[p] < y[q] => x[p] < x[q]) /\ (y[q] < y[p] => x[q] < x[p])
      BY <1>5 DEF SameOrder
    <3> QED
      BY <3>1, <3>2
  <2>3. Off(S, x, k) = 0 /\ OffsetOnly(S)
    BY <1>5, <1>7, NoSpread DEF OffsetOnly
  <2>4. Off(S, y, k) = 0
    BY <1>5, <2>2, NoSpread
  <2>5. PICK t \in Nat : t = Cardinality(S) * Threshold
    <3>1. Cardinality(S) \in Nat
      BY <1>1, FS_CardinalityType
    <3>2. \A c, d \in Nat : c * d \in Nat
      OBVIOUS
    <3> QED
      BY <1>5, <3>1, <3>2
  <2>6. RateLeq(S, 0, 0 + t) /\ RateLeq(S, -0, t - 0)
    BY <2>3 DEF RateLeq
  <2>7. Near(S, k)
    BY <2>3, <2>4, <2>5, <2>6 DEF Near
  <2> QED
    BY <1>1, <2>7
<1> QED
  BY <1>6, <1>7

(* The fit to any events in order runs forwards.                           *)
LEMMA PositiveInOrder ==
    ASSUME Inputs, InOrder, NEW S \in SUBSET Event
    PROVE  Positive(S)
<1>1. Whole(x, S) /\ Whole(y, S) /\ SameOrder(S, x, y)
  <2>1. IsFiniteSet(Event) /\ \A k \in Event : x[k] \in Int /\ y[k] \in Int
    BY Events
  <2>2. IsFiniteSet(S)
    BY <2>1, FS_Subset
  <2> QED
    BY <2>1, <2>2 DEF Whole, SameOrder, InOrder
<1>2. CASE \E i, j \in S : x[i] # x[j]
  <2>1. Moment(S, x, y) \in Nat \ {0}
    BY <1>1, <1>2, MomentInOrder
  <2> QED
    BY <2>1 DEF Positive
<1>3. CASE \A i, j \in S : x[i] = x[j]
  <2>1. Moment(S, x, y) = 0
    BY <1>1, <1>3, NoSpread
  <2> QED
    BY <2>1 DEF Positive, OffsetOnly
<1> QED
  BY <1>2, <1>3

-----------------------------------------------------------------------------
(* The search: no pair that was sampled has a greater consensus than the   *)
(* best one, and the fit is made from that.                                *)

SearchInv ==
    /\ \A p \in tried : \E i, j \in Event : p = {i, j}
    /\ \A i, j \in Event : {i, j} \in tried /\ x[i] # x[j] =>
                             Cardinality(Consensus(i, j)) <= Cardinality(best)
    /\ best = {} \/ \E i, j \in Event : x[i] # x[j] /\ best = Consensus(i, j)
    /\ tried # {} => Cardinality(Event) >= 3

FitInv ==
    /\ pc \in {"refit", "done", "raised"} /\ count = 0 =>
         IF Cardinality(Event) < 3 \/ Cardinality(best) < 2
         THEN mask = Event /\ fitted = Kept(Event)
         ELSE /\ mask = IF refine THEN {i \in Event : Near(Kept(best), i)} ELSE best
              /\ pc = "refit" => refine
              /\ pc = "done" => fitted = Kept(mask)
    /\ pc = "raised" => mask = {}

EstimateInv == Estimating => Inputs /\ SegmentInv /\ SearchInv /\ FitInv

LEMMA ConsensusFinite ==
    ASSUME Inputs, NEW i \in Event, NEW j \in Event
    PROVE  Consensus(i, j) \in SUBSET Event /\ Cardinality(Consensus(i, j)) \in Nat
<1>1. Consensus(i, j) \in SUBSET Event /\ IsFiniteSet(Event)
  BY Events DEF Consensus
<1>2. IsFiniteSet(Consensus(i, j))
  BY <1>1, FS_Subset
<1> QED
  BY <1>1, <1>2, FS_CardinalityType

LEMMA FitsUnchanged ==
    ASSUME UNCHANGED <<x, y>>
    PROVE  /\ Kept(Event)' = Kept(Event')
           /\ Kept(best)' = Kept(best')
           /\ Kept(mask)' = Kept(mask')
           /\ \A i : Near(Kept(best), i)' = Near(Kept(best'), i)
<1>1. Kept(Event)' = Kept(Event')
  BY DEF Kept, Inside, RateLeq, OffsetOnly
<1>2. Kept(best)' = Kept(best')
  BY DEF Kept, Inside, RateLeq, OffsetOnly
<1>3. Kept(mask)' = Kept(mask')
  BY DEF Kept, Inside, RateLeq, OffsetOnly
<1>4. ASSUME NEW i PROVE Near(Kept(best), i)' = Near(Kept(best'), i)
  <2>1. Near(Kept(best), i)' = Near(Kept(best)', i)
    BY DEF Near, RateLeq, OffsetOnly
  <2> QED
    BY <1>2, <2>1
<1> QED
  BY <1>1, <1>2, <1>3, <1>4

LEMMA SampleStep ==
    ASSUME Estimating, Inputs, SegmentInv, SearchInv, FitInv,
           NEW i \in Event, NEW j \in Event, Sample(i, j)
    PROVE  Estimating' /\ Inputs' /\ SegmentInv' /\ SearchInv' /\ FitInv'
<1> USE DEF Sample, inputs
<1>1. Inputs' /\ Event' = Event /\ Estimating' /\ pc = "sample" /\ pc' = "sample"
  BY DEF Inputs, Event, Estimating
<1>2. SegmentInv'
  BY <1>1 DEF SegmentInv
<1>3. FitInv'
  BY <1>1 DEF FitInv
<1>4. \A k, l \in Event : Consensus(k, l)' = Consensus(k, l)
  BY <1>1 DEF Consensus
<1>5. Cardinality(best) \in Nat /\ Cardinality(best') \in Nat /\ Cardinality(best) <= Cardinality(best')
  <2>1. Cardinality(best) \in Nat
    <3>1. best = {} => Cardinality(best) = 0
      BY FS_EmptySet
    <3> QED
      BY <3>1, ConsensusFinite DEF SearchInv
  <2>2. Cardinality(Consensus(i, j)) \in Nat
    BY ConsensusFinite
  <2> QED
    BY <2>1, <2>2 DEF Better
<1>6. x[i] # x[j] => Cardinality(Consensus(i, j)) <= Cardinality(best')
  <2>1. Cardinality(Consensus(i, j)) \in Nat
    BY ConsensusFinite
  <2> QED
    BY <1>5, <2>1 DEF Better
<1>7. ASSUME NEW k \in Event, NEW l \in Event, {k, l} \in tried', x[k] # x[l]
      PROVE  Cardinality(Consensus(k, l)) <= Cardinality(best')
  <2>1. CASE {k, l} \in tried
    <3>1. Cardinality(Consensus(k, l)) <= Cardinality(best) /\ Cardinality(Consensus(k, l)) \in Nat
      BY <1>7, <2>1, ConsensusFinite DEF SearchInv
    <3> QED
      BY <1>5, <3>1
  <2>2. CASE {k, l} = {i, j}
    <3>1. (k = i /\ l = j) \/ (k = j /\ l = i)
      BY <1>7, <2>2
    <3>2. Consensus(k, l) = Consensus(i, j)
      BY <1>7, <3>1, ConsensusSym
    <3> QED
      BY <1>6, <1>7, <3>1, <3>2
  <2> QED
    BY <1>7, <2>1, <2>2
<1>8. best' = {} \/ \E k, l \in Event : x[k] # x[l] /\ best' = Consensus(k, l)
  BY DEF Better, SearchInv
<1>9. \A p \in tried' : \E k, l \in Event : p = {k, l}
  BY DEF SearchInv
<1>10. SearchInv'
  <2>1. x' = x /\ (tried' # {} => Cardinality(Event') >= 3)
        /\ \A p \in tried' : \E k, l \in Event' : p = {k, l}
    BY <1>1, <1>9
  <2>2. \A k, l \in Event' : {k, l} \in tried' /\ x'[k] # x'[l] =>
                               Cardinality(Consensus(k, l)') <= Cardinality(best')
    <3> SUFFICES ASSUME NEW k \in Event, NEW l \in Event, {k, l} \in tried', x[k] # x[l]
                 PROVE  Cardinality(Consensus(k, l)') <= Cardinality(best')
      BY <1>1, <2>1
    <3>1. Consensus(k, l)' = Consensus(k, l)
      BY <1>4
    <3> QED
      BY <1>7, <3>1
  <2>3. best' = {} \/ \E k, l \in Event' : x'[k] # x'[l] /\ best' = Consensus(k, l)'
    BY <1>1, <1>4, <1>8, <2>1
  <2> QED
    BY <2>1, <2>2, <2>3 DEF SearchInv
<1> QED
  BY <1>1, <1>2, <1>3, <1>10

(* The actions that leave the search alone.                                *)
LEMMA FitStep ==
    ASSUME Estimating, Inputs, SegmentInv, SearchInv, FitInv,
           FitAll \/ FitBest \/ Refit \/ Split \/ Predict
    PROVE  Estimating' /\ Inputs' /\ SegmentInv' /\ SearchInv' /\ FitInv'
<1>1. UNCHANGED <<x, y, count, refine, iter, best, tried>>
  BY DEF FitAll, FitBest, Refit, Split, Predict, inputs
<1>2. Inputs' /\ Event' = Event
  BY <1>1 DEF Inputs, Event
<1>3. SearchInv'
  <2>1. \A k, l \in Event : Consensus(k, l)' = Consensus(k, l)
    BY <1>1, <1>2 DEF Consensus
  <2> QED
    BY <1>1, <1>2, <2>1 DEF SearchInv
<1>4. Pieces' = Pieces /\ \A s \in 1..Pieces : Segment(Pieces, s)' = Segment(Pieces, s)
  BY <1>1, <1>2 DEF Pieces, Segment, Order
<1>5. /\ Kept(Event)' = Kept(Event) /\ Kept(best)' = Kept(best) /\ Kept(mask)' = Kept(mask')
      /\ \A i \in Event : Near(Kept(best), i)' = Near(Kept(best), i)
  BY <1>1, <1>2, FitsUnchanged
<1>6. Estimating'
  BY DEF Estimating, FitAll, FitBest, Refit, Split, Predict
<1>7. SegmentInv'
  <2>1. CASE FitAll \/ FitBest \/ Refit
    BY <1>1, <2>1 DEF SegmentInv, FitAll, FitBest, Refit
  <2>2. CASE Split
    <3>1. segments' = [s \in 1..Pieces |-> Segment(Pieces, s)] /\ pc' = "predict" /\ count # 0
      BY <2>2 DEF Split, Pieces, SegmentInv
    <3>2. segments' = [s \in 1..Pieces' |-> Segment(Pieces, s)']
      BY <1>4, <3>1
    <3> QED
      BY <1>1, <3>1, <3>2 DEF SegmentInv
  <2>3. CASE Predict
    <3>1. /\ segments' = [s \in 1..Pieces' |-> Segment(Pieces, s)']
          /\ served' = [i \in Event |-> Serving(x[i])] /\ pc' = "done" /\ count # 0
          /\ segments' = segments
      BY <1>4, <2>3 DEF Predict, SegmentInv
    <3>2. \A i \in Event : Serving(x[i])' = Serving(x[i])
      BY <1>1, <3>1 DEF Serving
    <3>3. served' = [i \in Event' |-> Serving(x[i])']
      BY <1>2, <3>1, <3>2
    <3> QED
      BY <1>1, <3>1, <3>3 DEF SegmentInv
  <2> QED
    BY <2>1, <2>2, <2>3
<1>8. FitInv'
  <2>1. CASE FitAll
    <3>1. /\ fitted' = Kept(Event)' /\ mask' = Event' /\ pc' = "done"
          /\ Cardinality(Event') < 3 \/ Cardinality(best') < 2
      BY <1>1, <1>2, <1>5, <2>1 DEF FitAll
    <3> QED
      BY <1>2, <3>1 DEF FitInv
  <2>2. CASE FitBest
    <3>1. /\ {i \in Event : Near(Kept(best), i)}' = {i \in Event : Near(Kept(best), i)}
          /\ Kept(best)' = Kept(best)
      BY <1>2, <1>5
    <3>2. /\ mask' = IF refine' THEN {i \in Event : Near(Kept(best), i)}' ELSE best'
          /\ fitted' = Kept(best)' /\ pc' = IF refine' THEN "refit" ELSE "done"
          /\ Cardinality(Event) >= 3 /\ Cardinality(best) >= 2
      BY <1>1, <2>2, <3>1 DEF FitBest
    <3>3. ~(Cardinality(Event') < 3 \/ Cardinality(best') < 2)
      <4>1. Cardinality(Event) \in Nat /\ Cardinality(best) \in Nat
        BY Events, FS_CardinalityType, ConsensusFinite, <3>2, FS_EmptySet DEF SearchInv
      <4> QED
        BY <1>1, <1>2, <3>2, <4>1
    <3>4. /\ pc' = "refit" => refine'
          /\ pc' = "done" => fitted' = Kept(mask)'
      <4>1. pc' = "done" => mask' = best'
        BY <3>2
      <4>2. Kept(mask)' = Kept(mask') /\ Kept(best)' = Kept(best')
        BY <1>1, FitsUnchanged
      <4>3. pc' = "done" => fitted' = Kept(best')
        BY <3>2, <4>2
      <4>4. pc' = "done" => fitted' = Kept(mask')
        BY <4>1, <4>3
      <4> QED
        BY <3>2, <4>2, <4>4
    <3> QED
      BY <3>2, <3>3, <3>4 DEF FitInv
  <2>3. CASE Refit
    <3>1. {i \in Event : Near(Kept(best), i)}' = {i \in Event : Near(Kept(best), i)}
      BY <1>1, <1>2, <1>5
    <3>2. mask' = mask /\ Kept(mask)' = Kept(mask)
      BY <1>5, <2>3 DEF Refit
    <3> QED
      BY <1>1, <1>2, <2>3, <3>1, <3>2 DEF FitInv, Refit
  <2>4. CASE Split \/ Predict
    BY <1>1, <2>4 DEF FitInv, SegmentInv, Split, Predict
  <2> QED
    BY <2>1, <2>2, <2>3, <2>4
<1> QED
  BY <1>2, <1>3, <1>6, <1>7, <1>8

LEMMA EstimateStep == EstimateInv /\ [Next]_vars => EstimateInv'
<1> SUFFICES ASSUME EstimateInv, [Next]_vars PROVE EstimateInv'
  OBVIOUS
<1>1. CASE Next
  <2>1. Estimating
    BY <1>1 DEF Next, Sample, FitAll, FitBest, Refit, Split, Predict, Estimating
  <2>2. Inputs /\ SegmentInv /\ SearchInv /\ FitInv
    BY <2>1 DEF EstimateInv
  <2>3. CASE \E i, j \in Event : Sample(i, j)
    BY <2>1, <2>2, <2>3, SampleStep DEF EstimateInv
  <2>4. CASE FitAll \/ FitBest \/ Refit \/ Split \/ Predict
    BY <2>1, <2>2, <2>4, FitStep DEF EstimateInv
  <2> QED
    BY <1>1, <2>3, <2>4 DEF Next
<1>2. CASE UNCHANGED vars
  <2> SUFFICES ASSUME Estimating' PROVE Inputs' /\ SegmentInv' /\ SearchInv' /\ FitInv'
    BY DEF EstimateInv
  <2>1. UNCHANGED <<x, y, count, refine, iter, best, tried, fitted, mask, segments, served, pc>>
    BY <1>2 DEF vars, inputs
  <2>2. Estimating
    BY <2>1 DEF Estimating
  <2>3. Inputs /\ SegmentInv /\ SearchInv /\ FitInv
    BY <2>2 DEF EstimateInv
  <2>4. Inputs' /\ Event' = Event
    BY <2>1, <2>3 DEF Inputs, Event
  <2>5. SearchInv'
    <3>1. \A k, l \in Event : Consensus(k, l)' = Consensus(k, l)
      BY <2>1, <2>4 DEF Consensus
    <3> QED
      BY <2>1, <2>3, <2>4, <3>1 DEF SearchInv
  <2>6. SegmentInv'
    <3>1. Pieces' = Pieces /\ \A s \in 1..Pieces : Segment(Pieces, s)' = Segment(Pieces, s)
      BY <2>1, <2>4 DEF Pieces, Segment, Order
    <3>2. \A i \in Event : Serving(x[i])' = Serving(x[i])
      BY <2>1 DEF Serving
    <3> QED
      BY <2>1, <2>3, <2>4, <3>1, <3>2 DEF SegmentInv
  <2>7. FitInv'
    <3>1. {i \in Event : Near(Kept(best), i)}' = {i \in Event : Near(Kept(best), i)}
      BY <2>1, <2>4, FitsUnchanged
    <3>2. Kept(Event)' = Kept(Event) /\ Kept(mask)' = Kept(mask)
      BY <2>1, <2>4, FitsUnchanged
    <3> QED
      BY <2>1, <2>3, <2>4, <3>1, <3>2 DEF FitInv
  <2> QED
    BY <2>4, <2>5, <2>6, <2>7
<1> QED
  BY <1>1, <1>2

LEMMA EstimateInit == Init => EstimateInv
<1> SUFFICES ASSUME Init PROVE Inputs /\ SegmentInv /\ SearchInv /\ FitInv
  BY DEF EstimateInv
<1>1. PICK e \in Evidence : x = e.x /\ y = e.y
  BY DEF Init
<1>2. count \in Nat
  <2>1. count = 0 \/ count \in SegmentCounts
    BY DEF Init
  <2>2. SegmentCounts \subseteq Nat \ {0}
    BY NumberAssumption
  <2>3. count \in SegmentCounts => count \in Nat \ {0}
    BY <2>2
  <2> QED
    BY <2>1, <2>3
<1>3. Inputs
  <2>1. /\ e.x \in Seq(Int) /\ e.y \in Seq(Int) /\ Len(e.x) = Len(e.y)
        /\ Len(e.x) \in Nat \ {0}
    BY EvidenceAssumption, Zenon
  <2>2. x \in Seq(Int) /\ y \in Seq(Int) /\ Len(x) = Len(y) /\ Len(x) \in Nat \ {0}
    BY <1>1, <2>1, Zenon
  <2>3. Len(x) \in Nat \ {0}
    BY <2>2
  <2> QED
    BY <1>2, <2>2, <2>3, Zenon DEF Inputs
<1>4. SegmentInv /\ FitInv
  BY DEF Init, SegmentInv, FitInv
<1>5. SearchInv
  BY DEF Init, SearchInv
<1> QED
  BY <1>3, <1>4, <1>5

-----------------------------------------------------------------------------
(* What the invariant says of the estimator.                               *)

LEMMA SegmentsFit == EstimateInv => SegmentsServe
<1> SUFFICES ASSUME EstimateInv, count # 0, pc = "done" PROVE SegmentsServe
  BY DEF SegmentsServe
<1>1. Inputs /\ segments = [s \in 1..Pieces |-> Segment(Pieces, s)]
      /\ served = [i \in Event |-> Serving(x[i])]
  BY DEF EstimateInv, Estimating, SegmentInv
<1> DEFINE n == Len(x)
           e == Ends(n, Pieces)
<1>2. n \in Nat \ {0} /\ Pieces \in Nat \ {0} /\ Pieces <= n /\ (n >= 2 => 2 * Pieces <= n)
  BY <1>1, PieceCount DEF Inputs
<1>3. /\ e[0] = 0 /\ e[Pieces] = n
      /\ \A s \in 0..Pieces : e[s] \in 0..n
      /\ \A s \in 1..Pieces : n >= 2 => e[s - 1] + 2 <= e[s]
  <2> HIDE DEF n
  <2> QED
    BY <1>2, Dealt
<1>4. \A s \in 1..Pieces : segments[s].from = e[s - 1] + 1 /\ segments[s].to = e[s]
                           /\ segments[s] = Segment(Pieces, s)
  BY <1>1, SegmentIs
<1>5. DOMAIN segments = 1..Pieces /\ Len(segments) = Pieces
  BY <1>1, <1>2
<1> HIDE DEF n, e
<1>6. segments[1].from = 1 /\ segments[Len(segments)].to = n
  <2>1. segments[1].from = e[0] + 1 /\ segments[Pieces].to = e[Pieces]
    BY <1>2, <1>4
  <2> QED
    BY <1>3, <1>5, <2>1
<1>7. ASSUME NEW s \in DOMAIN segments
      PROVE  /\ s > 1 => segments[s].from = segments[s - 1].to + 1
             /\ n >= 2 => segments[s].to > segments[s].from
             /\ Distinct => \A k \in segments[s].from..segments[s].to : served[Order[k]] = s
  <2>1. s \in 1..Pieces
    BY <1>5
  <2>2. s > 1 => segments[s].from = segments[s - 1].to + 1
    <3>1. s > 1 => s - 1 \in 1..Pieces
      BY <1>2, <2>1
    <3> QED
      BY <1>4, <2>1, <3>1
  <2>3. n >= 2 => segments[s].to > segments[s].from
    <3>1. s - 1 \in 0..Pieces /\ s \in 0..Pieces
      BY <1>2, <2>1
    <3>2. e[s - 1] \in Int /\ e[s] \in Int
      BY <1>2, <1>3, <3>1
    <3> QED
      BY <1>2, <1>3, <1>4, <2>1, <3>2
  <2>4. ASSUME Distinct, NEW k \in segments[s].from..segments[s].to
        PROVE  served[Order[k]] = s
    <3>1. k \in Segment(Pieces, s).from..Segment(Pieces, s).to
      BY <1>4, <2>1, <2>4
    <3>2. k \in 1..Len(x) /\ Serving(x[Order[k]]) = s
      BY <1>1, <2>1, <2>4, <3>1, ServesOwn
    <3>3. Order[k] \in Event
      BY <1>1, <3>2, Ordered, Events
    <3> QED
      BY <1>1, <3>2, <3>3
  <2> QED
    BY <2>2, <2>3, <2>4
<1> QED
  BY <1>6, <1>7 DEF SegmentsServe, n

(* The line fitted to a group of events in order has the group's consensus.*)
LEMMA FitInOrder ==
    ASSUME Inputs, InOrder, NEW C \in SUBSET Event, OnLine(C), NEW i \in C, NEW j \in C, x[i] # x[j]
    PROVE  Kept(C) = C /\ {k \in Event : Near(C, k)} = Consensus(i, j)
<1>1. x[i] \in Int /\ x[j] \in Int
  BY Events
<1>2. CASE x[i] < x[j]
  <2>1. y[i] < y[j]
    BY <1>2 DEF InOrder
  <2> QED
    BY <1>2, <2>1, FitOnLine, KeptOnLine
<1>3. CASE x[j] < x[i]
  <2>1. y[j] < y[i]
    BY <1>3 DEF InOrder
  <2>2. Kept(C) = C /\ {k \in Event : Near(C, k)} = Consensus(j, i)
    BY <1>3, <2>1, FitOnLine, KeptOnLine
  <2> QED
    BY <2>2, ConsensusSym
<1> QED
  BY <1>1, <1>2, <1>3

LEMMA LineFits == EstimateInv => TrueClockFound
<1> SUFFICES ASSUME EstimateInv, count = 0, pc = "done", InOrder, Distinct,
                    NEW C \in SUBSET Event, OnLine(C),
                    NEW i \in C, NEW j \in C, i # j, {i, j} \in tried, Consensus(i, j) = C,
                    \A k, l \in Event : k # l /\ ~({k, l} \subseteq C)
                                          => Cardinality(Consensus(k, l)) < Cardinality(C)
             PROVE  mask = C /\ fitted = C
  BY DEF TrueClockFound
<1>1. Inputs /\ SearchInv /\ FitInv
  BY DEF EstimateInv, Estimating
<1>2. x[i] # x[j]
  BY DEF Distinct
<1>3. Cardinality(C) \in Nat /\ Cardinality(C) >= 2
  <2>1. IsFiniteSet(C)
    BY <1>1, Events, FS_Subset
  <2> QED
    BY <2>1, TwoOf
<1>4. Cardinality(C) <= Cardinality(best) /\ Cardinality(Event) >= 3
  BY <1>1, <1>2 DEF SearchInv
<1>5. best # {}
  <2>1. Cardinality({}) = 0
    BY FS_EmptySet
  <2> QED
    BY <1>3, <1>4, <2>1
<1>6. PICK k \in Event, l \in Event : x[k] # x[l] /\ best = Consensus(k, l)
  BY <1>1, <1>5 DEF SearchInv
<1>7. k \in C /\ l \in C
  <2> SUFFICES ASSUME ~({k, l} \subseteq C) PROVE FALSE
    OBVIOUS
  <2>1. Cardinality(best) < Cardinality(C)
    BY <1>6
  <2>2. Cardinality(best) \in Nat
    BY <1>1, <1>6, ConsensusFinite
  <2> QED
    BY <1>3, <1>4, <2>1, <2>2
<1>8. best = C
  BY <1>1, <1>2, <1>6, <1>7, SameConsensus
<1>9. Kept(C) = C /\ {e \in Event : Near(C, e)} = C
  BY <1>1, <1>2, FitInOrder
<1>10. /\ mask = IF refine THEN {e \in Event : Near(Kept(best), e)} ELSE best
       /\ fitted = Kept(mask)
  <2>1. Cardinality(Event) \in Nat
    BY <1>1, Events, FS_CardinalityType
  <2>2. ~(Cardinality(Event) < 3 \/ Cardinality(best) < 2)
    BY <1>3, <1>4, <1>8, <2>1
  <2> QED
    BY <1>1, <2>2 DEF FitInv
<1> QED
  BY <1>8, <1>9, <1>10

LEMMA FitsInOrder == EstimateInv => FitUsable
<1> SUFFICES ASSUME EstimateInv, count = 0, InOrder, pc \in {"refit", "raised", "done"}
             PROVE  mask # {} /\ pc # "raised" /\ (pc = "done" => Positive(fitted))
  BY DEF FitUsable
<1>1. Inputs /\ SearchInv /\ FitInv
  BY DEF EstimateInv, Estimating
<1>2. IsFiniteSet(Event) /\ Event # {}
  BY <1>1, Events DEF Inputs
<1>3. CASE Cardinality(Event) < 3 \/ Cardinality(best) < 2
  <2>1. mask = Event /\ fitted = Kept(Event)
    BY <1>1, <1>3 DEF FitInv
  <2>2. Positive(Kept(Event))
    <3>1. Kept(Event) \in SUBSET Event
      BY KeptIn
    <3> QED
      BY <1>1, <3>1, PositiveInOrder
  <2> QED
    BY <1>1, <1>2, <2>1, <2>2 DEF FitInv
<1>4. CASE ~(Cardinality(Event) < 3 \/ Cardinality(best) < 2)
  <2>1. /\ mask = IF refine THEN {i \in Event : Near(Kept(best), i)} ELSE best
        /\ pc = "done" => fitted = Kept(mask)
        /\ pc = "raised" => mask = {}
    BY <1>1, <1>4 DEF FitInv
  <2>2. best # {}
    <3>1. Cardinality({}) = 0
      BY FS_EmptySet
    <3> QED
      BY <1>4, <3>1
  <2>3. PICK i \in Event, j \in Event : x[i] < x[j] /\ best = Consensus(i, j)
    <3>1. PICK k \in Event, l \in Event : x[k] # x[l] /\ best = Consensus(k, l)
      BY <1>1, <2>2 DEF SearchInv
    <3>2. Consensus(k, l) = Consensus(l, k)
      BY <1>1, <3>1, ConsensusSym
    <3>3. x[k] < x[l] \/ x[l] < x[k]
      <4>1. x[k] \in Int /\ x[l] \in Int
        BY <1>1, Events
      <4> QED
        BY <3>1, <4>1
    <3> QED
      BY <3>1, <3>2, <3>3
  <2>4. \E k \in Event : Near(Kept(best), k)
    <3>1. Kept(best) \in SUBSET Consensus(i, j) /\ Kept(best) # {}
      BY <2>2, <2>3, KeptIn
    <3> QED
      BY <1>1, <2>3, <3>1, ConsensusRefits
  <2>5. mask # {} /\ mask \in SUBSET Event
    <3>1. best \in SUBSET Event
      BY <2>3 DEF Consensus
    <3> QED
      BY <2>1, <2>2, <2>4, <3>1
  <2>6. Positive(Kept(mask))
    <3>1. Kept(mask) \in SUBSET Event
      BY <2>5, KeptIn
    <3> QED
      BY <1>1, <3>1, PositiveInOrder
  <2> QED
    BY <2>1, <2>5, <2>6
<1> QED
  BY <1>3, <1>4

(* Every event is mapped by the segment that was fitted to it, every       *)
(* segment of fit_piecewise_affine is of two events at least, and together *)
(* they are all of them: whatever the events, and however many segments    *)
(* are asked for.                                                          *)
THEOREM SegmentsCorrect == Spec => []SegmentsServe
<1> QED
  BY EstimateInit, EstimateStep, SegmentsFit, PTL DEF Spec

(* ransac_affine: events on one line, more than are near any line through  *)
(* another event, are found as soon as two of them have been sampled, and  *)
(* the final fit is made from exactly them: whatever the threshold, the    *)
(* other events, and the order of the samples.  A line has no residuals to *)
(* reject an event of it for.                                              *)
THEOREM TrueClockCorrect == Spec => []TrueClockFound
<1> QED
  BY EstimateInit, EstimateStep, LineFits, PTL DEF Spec

(* ransac_affine on events in order, however many and however noisy: never *)
(* is no inlier left when they are counted again after the refit, so that  *)
(* the last fit does not raise, and the rate it gives is positive.  The    *)
(* line through two events of a consensus is near all of it, and so a line *)
(* fitted to some of it, say to those that are not rejected, which is      *)
(* between the two regressions, cannot miss every one of them.             *)
THEOREM FitCorrect == Spec => []FitUsable
<1> QED
  BY EstimateInit, EstimateStep, FitsInOrder, PTL DEF Spec

-----------------------------------------------------------------------------
(* The forward clock drives the estimator: what it hands over.             *)

WorldInv ==
    /\ Rates(clock) /\ happen \in Seq(Nat) /\ NonDecreasing(happen)
    /\ count = (IF Len(clock.rates) = 1 THEN 0 ELSE Len(clock.rates)) /\ refine = TRUE
    /\ ~Estimating => /\ pc \in {"stamp", "lose", "observe"}
                      /\ tried = {} /\ best = {} /\ ~jittered
    /\ Estimating => /\ y = happen /\ happen # << >>
                     /\ ~jittered => x = [i \in DOMAIN happen |->
                                            Round(Local(clock, happen[i]), Unit(clock))]

ForwardInv == EstimateInv /\ WorldInv

LEMMA WorldInit == ForwardInit => ForwardInv
<1> SUFFICES ASSUME ForwardInit PROVE ForwardInv
  OBVIOUS
<1>1. pc = "stamp" /\ ~Estimating
  BY DEF ForwardInit, Estimating
<1>2. PICK s \in Sessions : clock = s.clock /\ happen = s.happen
  BY DEF ForwardInit
<1>3. /\ s.happen \in Seq(Nat) /\ NonDecreasing(s.happen)
      /\ s.clock.beta \in Int /\ Len(s.clock.rates) > 0
      /\ s.clock.rates \in Seq((Nat \ {0}) \X (Nat \ {0}))
  BY ForwardAssumption, Zenon
<1>4. Rates(clock)
  <2>1. Len(s.clock.rates) \in Nat \ {0}
    BY <1>3
  <2> QED
    BY <1>2, <1>3, <2>1 DEF Rates
<1>5. happen \in Seq(Nat) /\ NonDecreasing(happen)
  BY <1>2, <1>3, Zenon
<1>6. /\ count = (IF Len(clock.rates) = 1 THEN 0 ELSE Len(clock.rates)) /\ refine = TRUE
      /\ tried = {} /\ best = {} /\ ~jittered
  BY DEF ForwardInit
<1> QED
  BY <1>1, <1>4, <1>5, <1>6 DEF ForwardInv, WorldInv, EstimateInv

LEMMA ObserveStep ==
    ASSUME ForwardInv, Observe
    PROVE  ForwardInv'
<1> DEFINE n == Len(happen)
           U == Unit(clock)
<1>1. /\ ~Estimating /\ Estimating' /\ pc' = IF count = 0 THEN "sample" ELSE "split"
  BY DEF Observe, Estimating
<1>2. /\ Rates(clock) /\ happen \in Seq(Nat) /\ NonDecreasing(happen)
      /\ count = (IF Len(clock.rates) = 1 THEN 0 ELSE Len(clock.rates)) /\ refine = TRUE
      /\ tried = {} /\ best = {}
  BY <1>1 DEF ForwardInv, WorldInv
<1>3. /\ UNCHANGED <<clock, happen, count, refine, tried, best>> /\ y' = happen
  BY DEF Observe
<1>4. PICK k \in DOMAIN happen, d \in {-1, 0, 1} :
        LET j == [i \in DOMAIN happen |-> IF i = k THEN d ELSE 0]
        IN  /\ x' = [i \in DOMAIN happen |-> Round(Local(clock, happen[i]) + j[i] * U, U)]
            /\ jittered' = \E i \in DOMAIN j : j[i] # 0
  BY DEF Observe
<1>5. n \in Nat /\ DOMAIN happen = 1..n /\ U \in Nat \ {0}
      /\ \A i \in 1..n : happen[i] \in Nat /\ Local(clock, happen[i]) \in Int
  <2>1. n \in Nat /\ DOMAIN happen = 1..n /\ \A i \in 1..n : happen[i] \in Nat
    BY <1>2
  <2>2. U \in Nat \ {0}
    BY <1>2, UnitIs
  <2>3. \A i \in 1..n : happen[i] \in Int
    BY <2>1
  <2>4. \A i \in 1..n : Local(clock, happen[i]) \in Int
    BY <1>2, <2>3, LocalIs
  <2> QED
    BY <2>1, <2>2, <2>4
<1> HIDE DEF n, U
<1>6. n \in Nat \ {0} /\ happen # << >>
  BY <1>4, <1>5
<1> DEFINE j == [i \in DOMAIN happen |-> IF i = k THEN d ELSE 0]
<1>7. \A i \in 1..n : j[i] \in Int /\ j[i] * U \in Int
  BY <1>5
<1>8. \A i \in 1..n : Round(Local(clock, happen[i]) + j[i] * U, U) \in Int
  <2> TAKE i \in 1..n
  <2>1. Local(clock, happen[i]) + j[i] * U \in Int
    BY <1>5, <1>7
  <2> QED
    BY <1>5, <2>1, Rounded
<1>9. x' = [i \in 1..n |-> Round(Local(clock, happen[i]) + j[i] * U, U)]
  BY <1>4, <1>5
<1>10. x' \in Seq(Int) /\ Len(x') = n
  BY <1>6, <1>8, <1>9, SMTT(30)
<1>11. Inputs'
  <2>1. y' \in Seq(Int) /\ Len(y') = n
    BY <1>2, <1>3, <1>5 DEF n
  <2>2. count' \in Nat
    <3>1. Len(clock.rates) \in Nat
      BY <1>2 DEF Rates
    <3> QED
      BY <1>2, <1>3, <3>1
  <2> QED
    BY <1>6, <1>10, <2>1, <2>2 DEF Inputs
<1>12. SegmentInv' /\ FitInv'
  BY <1>1, <1>3 DEF SegmentInv, FitInv
<1>13. SearchInv'
  BY <1>2, <1>3 DEF SearchInv
<1>14. EstimateInv'
  BY <1>11, <1>12, <1>13 DEF EstimateInv
<1>15. ~jittered' => x' = [i \in DOMAIN happen |-> Round(Local(clock, happen[i]), U)]
  <2> SUFFICES ASSUME ~jittered'
               PROVE  x' = [i \in DOMAIN happen |-> Round(Local(clock, happen[i]), U)]
    OBVIOUS
  <2>1. \A i \in 1..n : j[i] = 0
    BY <1>4, <1>5
  <2>2. \A i \in 1..n : Local(clock, happen[i]) + j[i] * U = Local(clock, happen[i])
    BY <1>5, <2>1
  <2> QED
    BY <1>5, <1>9, <2>2
<1>16. WorldInv'
  <2>1. /\ Rates(clock)' /\ (happen \in Seq(Nat))' /\ NonDecreasing(happen)'
        /\ (count = (IF Len(clock.rates) = 1 THEN 0 ELSE Len(clock.rates)))' /\ (refine = TRUE)'
    BY <1>2, <1>3
  <2>2. (y = happen /\ happen # << >>)'
    BY <1>3, <1>6
  <2>3. (~jittered => x = [i \in DOMAIN happen |->
                             Round(Local(clock, happen[i]), Unit(clock))])'
    BY <1>3, <1>15 DEF U
  <2> QED
    BY <1>1, <2>1, <2>2, <2>3 DEF WorldInv
<1> QED
  BY <1>14, <1>16 DEF ForwardInv

LEMMA WorldStep == ForwardInv /\ [ForwardNext]_forwardVars => ForwardInv'
<1> SUFFICES ASSUME ForwardInv, [ForwardNext]_forwardVars PROVE ForwardInv'
  OBVIOUS
<1>1. CASE Observe
  BY <1>1, ObserveStep
<1>2. CASE Stamp \/ Lose \/ Lost
  <2>1. UNCHANGED <<clock, happen, count, refine, tried, best, jittered>>
        /\ ~Estimating /\ ~Estimating' /\ pc' \in {"stamp", "lose", "observe"}
    BY <1>2 DEF Stamp, Lose, Lost, Estimating, world, vars, inputs
  <2>2. WorldInv'
    BY <2>1 DEF ForwardInv, WorldInv
  <2> QED
    BY <2>1, <2>2 DEF ForwardInv, EstimateInv
<1>3. CASE (Next /\ UNCHANGED <<stream, world>>) \/ UNCHANGED forwardVars
  <2>1. UNCHANGED <<clock, happen, jittered, x, y, count, refine>> /\ [Next]_vars
    BY <1>3 DEF Next, Sample, FitAll, FitBest, Refit, Split, Predict, inputs, world, forwardVars,
                vars
  <2>2. EstimateInv'
    BY <2>1, EstimateStep DEF ForwardInv
  <2>3. \/ Estimating /\ Estimating'
        \/ UNCHANGED <<pc, tried, best>>
    BY <1>3 DEF Next, Sample, FitAll, FitBest, Refit, Split, Predict, Estimating, vars,
                forwardVars
  <2>4. WorldInv'
    <3>1. CASE Estimating /\ Estimating'
      BY <2>1, <3>1 DEF ForwardInv, WorldInv
    <3>2. CASE UNCHANGED <<pc, tried, best>>
      <4>1. Estimating' <=> Estimating
        BY <3>2 DEF Estimating
      <4> QED
        BY <2>1, <3>2, <4>1 DEF ForwardInv, WorldInv
    <3> QED
      BY <2>3, <3>1, <3>2
  <2> QED
    BY <2>2, <2>4 DEF ForwardInv
<1> QED
  BY <1>1, <1>2, <1>3 DEF ForwardNext

-----------------------------------------------------------------------------
(* What the estimator makes of an exact clock.                             *)

(* Times in proportion lie on a line.                                      *)
LEMMA OnLineIf ==
    ASSUME Inputs, NEW C \in SUBSET Event, NEW u \in Nat \ {0}, NEW h \in Int,
           \A i, j \in C : u * (x[i] - x[j]) = h * (y[i] - y[j])
    PROVE  OnLine(C)
<1> SUFFICES ASSUME NEW i \in C, NEW j \in C, NEW k \in C
             PROVE  (x[j] - x[i]) * (y[k] - y[i]) = (x[k] - x[i]) * (y[j] - y[i])
  BY DEF OnLine
<1>1. /\ x[i] \in Int /\ x[j] \in Int /\ x[k] \in Int
      /\ y[i] \in Int /\ y[j] \in Int /\ y[k] \in Int
  BY Events
<1>2. PICK a \in Int, b \in Int, c \in Int, d \in Int :
        a = x[j] - x[i] /\ b = y[j] - y[i] /\ c = x[k] - x[i] /\ d = y[k] - y[i]
  BY <1>1, SMTT(30)
<1>3. u * a = h * b /\ u * c = h * d
  BY <1>2
<1>4. u * (a * d) = u * (c * b)
  <2>1. u * (a * d) = (u * a) * d /\ u * (c * b) = (u * c) * b /\ (h * b) * d = (h * d) * b
    OBVIOUS
  <2> QED
    BY <1>3, <2>1
<1>5. a * d <= c * b /\ c * b <= a * d
  <2>1. a * d \in Int /\ c * b \in Int /\ u * (a * d) \in Int /\ u * (c * b) \in Int
    OBVIOUS
  <2> DEFINE v == a * d
             w == c * b
  <2>2. v \in Int /\ w \in Int /\ u * v <= u * w /\ u * w <= u * v
    BY <1>4, <2>1
  <2> HIDE DEF v, w
  <2>3. v <= w
    BY <2>2, Cancel
  <2>4. w <= v
    BY <2>2, Cancel
  <2> QED
    BY <2>3, <2>4 DEF v, w
<1>6. a * d = c * b
  <2>1. a * d \in Int /\ c * b \in Int
    OBVIOUS
  <2> QED
    BY <1>5, <2>1
<1> QED
  BY <1>2, <1>6

(* Whole local times are observed as they are.                             *)
LEMMA ExactTimes ==
    ASSUME ForwardInv, Estimating, ~jittered, Exact
    PROVE  /\ Rates(clock) /\ Unit(clock) \in Nat \ {0}
           /\ Event = 1..Len(happen) /\ y = happen
           /\ \A i \in Event : /\ x[i] \in Int /\ y[i] \in Nat /\ Local(clock, y[i]) \in Int
                               /\ Unit(clock) * x[i] = Local(clock, y[i])
<1> DEFINE U == Unit(clock)
<1>1. /\ Rates(clock) /\ happen \in Seq(Nat) /\ y = happen
      /\ x = [i \in DOMAIN happen |-> Round(Local(clock, happen[i]), U)]
  BY DEF ForwardInv, WorldInv
<1>2. U \in Nat \ {0} /\ DOMAIN happen = 1..Len(happen) /\ Event = 1..Len(happen)
  <2>1. U \in Nat \ {0}
    BY <1>1, UnitIs
  <2> QED
    BY <1>1, <2>1 DEF Event
<1>3. ASSUME NEW i \in Event
      PROVE  /\ x[i] \in Int /\ y[i] \in Nat /\ Local(clock, y[i]) \in Int
             /\ U * x[i] = Local(clock, y[i])
  <2>1. y[i] \in Nat /\ happen[i] = y[i] /\ i \in DOMAIN happen
    BY <1>1, <1>2
  <2>2. y[i] \in Int
    BY <2>1
  <2> DEFINE v == Local(clock, y[i])
             q == v \div U
  <2>3. v \in Int
    BY <1>1, <2>2, LocalIs
  <2>4. v % U = 0
    BY <2>1 DEF Exact
  <2>5. x[i] = Round(v, U)
    BY <1>1, <2>1
  <2> HIDE DEF v, U
  <2>6. q \in Int /\ v = U * q + (v % U)
    BY <1>2, <2>3, Quotient
  <2> HIDE DEF q
  <2>7. U * q = v
    BY <1>2, <2>4, <2>6
  <2>8. Round(U * q, U) = q
    BY <1>2, <2>6, RoundedExact
  <2> QED
    BY <2>1, <2>3, <2>5, <2>6, <2>7, <2>8 DEF v
<1> QED
  BY <1>1, <1>2, <1>3

(* A plain clock.                                                          *)
LEMMA PlainRecovered ==
    ASSUME ForwardInv, pc = "done", ~jittered, Exact, count = 0,
           NEW p \in tried, NEW i \in p, NEW j \in p, x[i] # x[j]
    PROVE  /\ mask = Event /\ fitted = Event
           /\ \A k \in Event : clock.rates[1][2] * (y[k] - clock.beta) = clock.rates[1][1] * x[k]
<1> DEFINE num == clock.rates[1][1]
           den == clock.rates[1][2]
<1>1. Estimating /\ Inputs /\ SearchInv /\ FitInv
  BY DEF Estimating, ForwardInv, EstimateInv
<1>2. Len(clock.rates) = 1 /\ Rates(clock) /\ refine = TRUE
  <2>1. Rates(clock) /\ refine = TRUE
        /\ count = (IF Len(clock.rates) = 1 THEN 0 ELSE Len(clock.rates))
    BY DEF ForwardInv, WorldInv
  <2>2. Len(clock.rates) # 0
    BY <2>1 DEF Rates
  <2> QED
    BY <2>1, <2>2
<1>3. num \in Nat \ {0} /\ den \in Nat \ {0} /\ clock.beta \in Int
  BY <1>2, RatesAre DEF Rates
<1>4. Unit(clock) = num
  BY <1>2, UnitIs
<1> HIDE DEF num, den
<1>5. ASSUME NEW k \in Event
      PROVE  x[k] \in Int /\ y[k] \in Int /\ den * (y[k] - clock.beta) = num * x[k]
  <2>1. x[k] \in Int /\ y[k] \in Nat /\ num * x[k] = Local(clock, y[k])
    BY <1>1, <1>4, ExactTimes
  <2>2. y[k] \in Int
    BY <2>1
  <2>3. Local(clock, y[k]) = (y[k] - clock.beta) * den
    BY <1>2, <2>2, LocalIs DEF den
  <2> QED
    BY <1>3, <2>1, <2>2, <2>3
<1>6. ASSUME NEW k \in Event, NEW l \in Event
      PROVE  num * (x[k] - x[l]) = den * (y[k] - y[l])
  <2>1. /\ x[k] \in Int /\ y[k] \in Int /\ den * (y[k] - clock.beta) = num * x[k]
        /\ x[l] \in Int /\ y[l] \in Int /\ den * (y[l] - clock.beta) = num * x[l]
    BY <1>5
  <2>2. /\ num * (x[k] - x[l]) = num * x[k] - num * x[l]
        /\ den * (y[k] - y[l]) = den * (y[k] - clock.beta) - den * (y[l] - clock.beta)
    BY <1>3, <2>1
  <2> QED
    BY <2>1, <2>2
<1>7. OnLine(Event)
  <2>1. Event \in SUBSET Event /\ den \in Int
    BY <1>3
  <2> QED
    BY <1>1, <1>3, <1>6, <2>1, OnLineIf
<1>8. \A k, l \in Event : x[k] < x[l] => y[k] < y[l]
  <2> SUFFICES ASSUME NEW k \in Event, NEW l \in Event, x[k] < x[l], ~(y[k] < y[l])
               PROVE  FALSE
    OBVIOUS
  <2>1. x[k] \in Int /\ y[k] \in Int /\ x[l] \in Int /\ y[l] \in Int
    BY <1>5
  <2>2. PICK a \in Nat \ {0}, b \in Nat : a = x[l] - x[k] /\ b = y[k] - y[l]
    BY <2>1
  <2>3. num * a = den * (-b)
    <3>1. num * (x[l] - x[k]) = den * (y[l] - y[k]) /\ y[l] - y[k] = -b
      BY <1>6, <2>1, <2>2
    <3> QED
      BY <2>2, <3>1
  <2>4. num * a > 0 /\ den * (-b) <= 0 /\ num * a \in Int /\ den * (-b) \in Int
    BY <1>3
  <2> QED
    BY <2>3, <2>4
<1>9. i \in Event /\ j \in Event /\ {i, j} \in tried
  <2>1. PICK k \in Event, l \in Event : p = {k, l}
    BY <1>1 DEF SearchInv
  <2>2. i # j
    OBVIOUS
  <2>3. p = {i, j}
    BY <2>1, <2>2
  <2> QED
    BY <2>1, <2>3
<1>10. ASSUME NEW k \in Event, NEW l \in Event, x[k] # x[l] PROVE Consensus(k, l) = Event
  <2> SUFFICES ASSUME NEW m \in Event PROVE m \in Consensus(k, l)
    BY DEF Consensus
  <2>1. /\ x[k] \in Int /\ y[k] \in Int /\ x[l] \in Int /\ y[l] \in Int
        /\ x[m] \in Int /\ y[m] \in Int
    BY <1>5
  <2>2. (x[l] - x[k]) * (y[m] - y[k]) = (x[m] - x[k]) * (y[l] - y[k])
    BY <1>7 DEF OnLine
  <2> DEFINE a == x[l] - x[k]
             r == (y[l] - y[k]) * (x[m] - x[k]) - (x[l] - x[k]) * (y[m] - y[k])
  <2>3. a \in Int /\ r = 0
    <3>1. (y[l] - y[k]) * (x[m] - x[k]) = (x[m] - x[k]) * (y[l] - y[k])
      BY <2>1
    <3>2. (x[l] - x[k]) * (y[m] - y[k]) \in Int
      BY <2>1
    <3> QED
      BY <2>1, <2>2, <3>1, <3>2
  <2> HIDE DEF a, r
  <2>4. Abs(r) = 0 /\ Abs(a) \in Nat /\ Threshold \in Nat
    BY <2>3, NumberAssumption DEF Abs
  <2>5. Abs(r) <= Threshold * Abs(a)
    BY <2>4
  <2> QED
    BY <2>5 DEF Consensus, a, r
<1>11. best = Event
  <2>1. Cardinality(Event) <= Cardinality(best)
    BY <1>1, <1>9, <1>10 DEF SearchInv
  <2>2. Cardinality(Event) >= 3
    BY <1>1 DEF SearchInv
  <2>3. best # {}
    <3>1. Cardinality({}) = 0 /\ Cardinality(Event) \in Nat
      BY <1>1, Events, FS_EmptySet, FS_CardinalityType
    <3> QED
      BY <2>1, <2>2, <3>1
  <2> QED
    BY <1>1, <1>10, <2>3 DEF SearchInv
<1>12. mask = {k \in Event : Near(Kept(Event), k)} /\ fitted = Kept(mask)
  <2>1. Cardinality(Event) \in Nat /\ Cardinality(Event) >= 3
    BY <1>1, Events, FS_CardinalityType DEF SearchInv
  <2>2. ~(Cardinality(Event) < 3 \/ Cardinality(best) < 2)
    BY <1>11, <2>1
  <2> QED
    BY <1>1, <1>2, <1>11, <2>2 DEF FitInv
<1>13. Kept(Event) = Event /\ {k \in Event : Near(Event, k)} = Event
  <2>1. x[i] \in Int /\ x[j] \in Int /\ Event \in SUBSET Event
    BY <1>5, <1>9
  <2>2. PICK k \in Event, l \in Event : x[k] < x[l]
    BY <1>9, <2>1
  <2>3. y[k] < y[l] /\ x[k] # x[l]
    BY <1>5, <1>8, <2>2
  <2>4. Kept(Event) = Event /\ {m \in Event : Near(Event, m)} = Consensus(k, l)
    BY <1>1, <1>7, <2>1, <2>2, <2>3, FitOnLine, KeptOnLine
  <2> QED
    BY <1>10, <2>3, <2>4
<1> QED
  BY <1>5, <1>12, <1>13 DEF num, den

LEMMA PiecesAsked ==
    ASSUME Inputs, count # 0
    PROVE  Pieces <= count
<1> DEFINE half == Cardinality(Event) \div 2
<1>1. count \in Nat \ {0} /\ Cardinality(Event) \in Nat
  BY Events, FS_CardinalityType DEF Inputs
<1>2. half \in Int
  BY <1>1
<1>3. Pieces = IF half = 0 THEN 1 ELSE Least(count, half)
  BY DEF Pieces
<1> HIDE DEF half
<1>4. Least(count, half) = IF count <= half THEN count ELSE half
  BY <1>1, <1>2, LeastIs
<1> QED
  BY <1>1, <1>2, <1>3, <1>4

(* A clock of several rates: the events of a stretch are on a line.        *)
LEMMA StretchesRecovered ==
    ASSUME ForwardInv, pc = "done", ~jittered, Exact, count # 0,
           \A s \in DOMAIN segments : \A k \in segments[s].from..segments[s].to :
             happen[k] \in (s - 1) * Length..s * Length,
           NEW s \in DOMAIN segments
    PROVE  OnLine({Order[k] : k \in segments[s].from..segments[s].to})
<1> DEFINE n == Len(x)
           e == Ends(n, Pieces)
           D == segments[s].from..segments[s].to
           h == Slope(clock, s)
           U == Unit(clock)
<1>1. /\ Estimating /\ Inputs
      /\ segments = [r \in 1..Pieces |-> Segment(Pieces, r)]
  BY DEF Estimating, ForwardInv, EstimateInv, SegmentInv
<1>2. /\ Rates(clock) /\ count = Len(clock.rates) /\ Len(clock.rates) # 1
      /\ NonDecreasing(happen) /\ y = happen
  BY <1>1 DEF ForwardInv, WorldInv
<1>3. /\ U \in Nat \ {0} /\ Event = 1..n
      /\ \A i \in Event : /\ x[i] \in Int /\ y[i] \in Int /\ Local(clock, y[i]) \in Int
                          /\ U * x[i] = Local(clock, y[i])
  <2>1. Event = 1..n
    BY <1>1, Events
  <2> QED
    BY <1>1, <2>1, ExactTimes
<1>4. n \in Nat \ {0} /\ Pieces \in Nat \ {0} /\ Pieces <= n /\ Pieces <= Len(clock.rates)
      /\ s \in 1..Pieces
  BY <1>1, <1>2, PieceCount, PiecesAsked DEF Inputs
<1>5. D \subseteq 1..n
  <2>1. /\ \A r \in 0..Pieces : e[r] \in 0..n
    <3> HIDE DEF n
    <3> QED
      BY <1>4, Dealt
  <2>2. segments[s].from = e[s - 1] + 1 /\ segments[s].to = e[s]
    BY <1>1, <1>4, SegmentIs
  <2>3. s - 1 \in 0..Pieces /\ s \in 0..Pieces
    BY <1>4
  <2>4. e[s - 1] \in 0..n /\ e[s] \in 0..n
    BY <2>1, <2>3
  <2> HIDE DEF e, n
  <2> QED
    BY <1>4, <2>2, <2>4
<1>6. NonDecreasing(x)
  <2> SUFFICES ASSUME NEW i \in Event, NEW j \in Event, i < j PROVE x[i] <= x[j]
    BY DEF NonDecreasing, Event
  <2>1. y[i] <= y[j] /\ y[i] \in Int /\ y[j] \in Int
    <3>1. i \in DOMAIN happen /\ j \in DOMAIN happen
      BY <1>1, <1>2, <1>3 DEF Inputs
    <3> QED
      BY <1>2, <1>3, <3>1 DEF NonDecreasing
  <2>2. Local(clock, y[i]) <= Local(clock, y[j])
    BY <1>2, <2>1, LocalInOrder
  <2>3. U * x[i] <= U * x[j] /\ x[i] \in Int /\ x[j] \in Int
    BY <1>3, <2>2
  <2> HIDE DEF U
  <2> QED
    BY <1>3, <2>3, Cancel
<1> DEFINE C == {Order[k] : k \in D}
<1>7. C = D
  <2>1. \A k \in 1..n : Order[k] = k
    BY <1>1, <1>6, Ordered
  <2> HIDE DEF D, n
  <2> QED
    BY <1>5, <2>1
<1>8. C \in SUBSET Event
  <2> HIDE DEF C, D, n
  <2> QED
    BY <1>3, <1>5, <1>7
<1>9. s \in DOMAIN clock.rates /\ h \in Nat
  <2>1. s \in DOMAIN clock.rates
    BY <1>2, <1>4, RatesAre DEF Rates
  <2>2. 0 \in Int
    OBVIOUS
  <2> QED
    BY <1>2, <2>1, <2>2, WithinIs
<1>10. ASSUME NEW i \in C, NEW j \in C
       PROVE  U * (x[i] - x[j]) = h * (y[i] - y[j])
  <2>1. i \in D /\ j \in D /\ i \in Event /\ j \in Event
    BY <1>7, <1>8
  <2>2. y[i] \in (s - 1) * Length..s * Length /\ y[j] \in (s - 1) * Length..s * Length
    BY <1>2, <2>1
  <2>3. Local(clock, y[i]) - Local(clock, y[j]) = (y[i] - y[j]) * h
    BY <1>2, <1>9, <2>2, LocalInStretch
  <2>4. /\ x[i] \in Int /\ y[i] \in Int /\ U * x[i] = Local(clock, y[i])
        /\ x[j] \in Int /\ y[j] \in Int /\ U * x[j] = Local(clock, y[j])
    BY <1>3, <2>1
  <2> HIDE DEF U, h, C, D
  <2>5. U * (x[i] - x[j]) = U * x[i] - U * x[j] /\ (y[i] - y[j]) * h = h * (y[i] - y[j])
    BY <1>3, <1>9, <2>4
  <2> QED
    BY <2>3, <2>4, <2>5
<1>11. h \in Int
  BY <1>9
<1> HIDE DEF C, h, U
<1>12. OnLine(C)
  BY <1>1, <1>3, <1>8, <1>10, <1>11, OnLineIf
<1> QED
  BY <1>12 DEF C

LEMMA ClockRecovered == ForwardInv => Recovered
<1> SUFFICES ASSUME ForwardInv, happen # << >>, pc = "done", ~jittered, Exact
             PROVE  IF count = 0
                    THEN (\E p \in tried : \E i, j \in p : x[i] # x[j]) =>
                           LET num == clock.rates[1][1]
                               den == clock.rates[1][2]
                           IN  /\ mask = Event /\ fitted = Event
                               /\ \A i \in Event : den * (y[i] - clock.beta) = num * x[i]
                    ELSE (\A s \in DOMAIN segments : \A k \in segments[s].from..segments[s].to :
                            happen[k] \in (s - 1) * Length..s * Length) =>
                           \A s \in DOMAIN segments :
                             OnLine({Order[k] : k \in segments[s].from..segments[s].to})
  BY DEF Recovered
<1>1. CASE count = 0
  BY <1>1, PlainRecovered
<1>2. CASE count # 0
  BY <1>2, StretchesRecovered
<1> QED
  BY <1>1, <1>2

(* "the estimator must recover what this injected" (clock/forward.py:6):   *)
(* whatever rates a true clock runs at, and whatever the schedule, the     *)
(* loss and the samples were, without jitter a plain clock is found        *)
(* exactly if it maps the events to whole local times, and two of them     *)
(* that are different were sampled; and if the stretches of another have   *)
(* equally many events, every fitted segment is of one of them.            *)
THEOREM RecoveredCorrect == ForwardSpec => []Recovered
<1> QED
  BY WorldInit, WorldStep, ClockRecovered, PTL DEF ForwardSpec

(* The estimator keeps what it promises on what the forward clock drew.    *)
THEOREM ForwardSegments == ForwardSpec => [](SegmentsServe /\ TrueClockFound /\ FitUsable)
<1>1. ForwardInv => SegmentsServe /\ TrueClockFound /\ FitUsable
  BY SegmentsFit, LineFits, FitsInOrder DEF ForwardInv
<1> QED
  BY <1>1, WorldInit, WorldStep, PTL DEF ForwardSpec
=============================================================================

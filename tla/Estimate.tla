------------------------------ MODULE Estimate ------------------------------
(***************************************************************************)
(* The fits an edge of the reconciliation is made of: `tls_affine`,        *)
(* `ransac_affine` and `fit_piecewise_affine` of clock/estimate.py, on     *)
(* events that two devices saw at their local times x and y.               *)
(*                                                                         *)
(* Fits are exact.  A fitted rate is a square root, but the program only   *)
(* compares it, and so does the model, in whole numbers.                   *)
(***************************************************************************)
EXTENDS Arrays, FiniteSetsExt

CONSTANTS Evidence,      \* the events: records of two sequences, x and y
          Threshold,     \* threshold_us of RANSAC
          Iterations,    \* n_iters of RANSAC
          SegmentCounts  \* what `n_segments` may be

ASSUME EvidenceAssumption ==
    \A e \in Evidence : e.x \in Seq(Int) /\ e.y \in Seq(Int) /\ Len(e.x) = Len(e.y)
                        /\ Len(e.x) \in Nat \ {0}
ASSUME NumberAssumption == Threshold \in Nat /\ Iterations \in Nat
                           /\ SegmentCounts \subseteq Nat \ {0}

VARIABLES x, y,       \* local times on the two clocks
          count,      \* 0 for ransac_affine, or how many segments to fit
          refine,     \* a further argument of ransac_affine
          iter,       \* samples drawn so far
          best,       \* the events of the best consensus, {} if there is none
          tried,      \* history: the pairs sampled
          fitted,     \* the events the last fit was made from
          mask,       \* the inliers
          segments,   \* sequence of [from, to, last, below]
          served,     \* event |-> the segment that maps its time
          pc

inputs == <<x, y, count, refine>>
vars == <<inputs, iter, best, tried, fitted, mask, segments, served, pc>>

Event == DOMAIN x

Init == /\ \E e \in Evidence : x = e.x /\ y = e.y
        /\ \/ count = 0 /\ refine \in BOOLEAN
           \/ count \in SegmentCounts /\ refine = TRUE
        /\ iter = 0 /\ best = {} /\ tried = {}
        /\ fitted = {} /\ mask = {} /\ segments = << >> /\ served = << >>
        /\ pc = IF count = 0 THEN "sample" ELSE "split"

-----------------------------------------------------------------------------
(* The line y = a x + b fitted to the events of S.  Times are taken from   *)
(* the means of S, n = Cardinality(S) times.                               *)

Total(S, v) == MapThenSumSet(LAMBDA i : v[i], S)
Off(S, v, i) == Cardinality(S) * v[i] - Total(S, v)
Moment(S, v, w) == Total(S, [i \in S |-> Off(S, v, i) * w[i]])

(* Too few events, or no covariance: only an offset is fitted, a = 1. *)
OffsetOnly(S) == Cardinality(S) < 2 \/ Moment(S, x, y) = 0

(* Sqrt(r) * p <= q. *)
RootLeq(r, p, q) == IF p >= 0 THEN q >= 0 /\ r * p * p <= q * q
                    ELSE q >= 0 \/ r * p * p >= q * q

(* a * u <= c, where a = (d + Sqrt(d^2 + 4 s^2)) / (2 s): no root is       *)
(* needed where a = 1.                                                     *)
RateLeq(S, u, c) ==
    LET d == Moment(S, y, y) - Moment(S, x, x)
        s == Moment(S, x, y)
        p == IF s > 0 THEN u ELSE -u
    IN  IF OffsetOnly(S) \/ (d = 0 /\ s > 0) THEN u <= c
        ELSE RootLeq(d * d + 4 * s * s, p, 2 * Abs(s) * c - d * p)

(* Slip: the line is laid through the mean of all events. *)
NearSlip(S, i) ==
    LET u == Off(Event, x, i)
        v == Off(Event, y, i)
        t == Cardinality(Event) * Threshold
    IN  RateLeq(S, u, v + t) /\ RateLeq(S, -u, t - v)

(* Event i is within the threshold of the line fitted to S. *)
Near(S, i) ==
    LET u == Off(S, x, i)
        v == Off(S, y, i)
        t == Cardinality(S) * Threshold
    IN  RateLeq(S, u, v + t) /\ RateLeq(S, -u, t - v)

(* The residual of event i is at most three times the root mean square of  *)
(* all: (a u - v)^2 <= 9 (a^2 m - 2 a s + e), for the offsets u, v of i    *)
(* and the moments m, s, e of S.  With s a^2 = s + d a, a is in it once.   *)
Inside(S, i) ==
    LET m == Moment(S, x, x)
        s == Moment(S, x, y)
        e == Moment(S, y, y)
        g == IF s > 0 THEN 1 ELSE -1
        xx == Off(S, x, i) * Off(S, x, i) - 9 * m
        xy == Off(S, x, i) * Off(S, y, i) - 9 * s
        yy == Off(S, y, i) * Off(S, y, i) - 9 * e
    IN  IF OffsetOnly(S) THEN xx + yy <= 2 * xy
        ELSE RateLeq(S, g * ((e - m) * xx - 2 * s * xy), -(g * s * (xx + yy)))

(* The events the line is fitted to at last: tls_affine fits again, once,  *)
(* without those outside.  That takes more than nine events: the square of *)
(* a residual is at most the sum of all, Cardinality(S) times their mean.  *)
Kept(S) ==
    LET inside == {i \in S : Inside(S, i)}
    IN  IF Cardinality(S) <= 9 \/ inside = {} THEN S ELSE inside

Positive(S) == OffsetOnly(S) \/ Moment(S, x, y) > 0

-----------------------------------------------------------------------------
(* ransac_affine *)

(* The events within the threshold of the line through two of them. *)
Consensus(i, j) ==
    LET dx == x[j] - x[i]
        dy == y[j] - y[i]
    IN  {k \in Event : Abs(dy * (x[k] - x[i]) - dx * (y[k] - y[i])) <= Threshold * Abs(dx)}

(* Slip: the last sample wins. *)
BetterSlip(c) == c

Better(c) == IF Cardinality(c) > Cardinality(best) THEN c ELSE best

(* Two different events are drawn; if their times are equal, in vain. *)
Sample(i, j) ==
    /\ pc = "sample" /\ Cardinality(Event) >= 3 /\ iter < Iterations
    /\ i # j
    /\ iter' = iter + 1
    /\ tried' = tried \cup {{i, j}}
    /\ best' = IF x[i] = x[j] THEN best ELSE Better(Consensus(i, j))
    /\ UNCHANGED <<inputs, fitted, mask, segments, served, pc>>

Sampled == Cardinality(Event) < 3 \/ iter = Iterations

(* No consensus to start from: all events are fitted, and count as inliers.*)
FitAll ==
    /\ pc = "sample" /\ Sampled
    /\ Cardinality(Event) < 3 \/ Cardinality(best) < 2
    /\ fitted' = Kept(Event) /\ mask' = Event
    /\ pc' = "done"
    /\ UNCHANGED <<inputs, iter, best, tried, segments, served>>

FitBest ==
    /\ pc = "sample" /\ Sampled
    /\ Cardinality(Event) >= 3 /\ Cardinality(best) >= 2
    /\ fitted' = Kept(best)
    /\ mask' = IF refine THEN {i \in Event : Near(Kept(best), i)} ELSE best
    /\ pc' = IF refine THEN "refit" ELSE "done"
    /\ UNCHANGED <<inputs, iter, best, tried, segments, served>>

(* tls_affine refuses to fit no event at all. *)
Refit ==
    /\ pc = "refit"
    /\ IF mask = {} THEN pc' = "raised" /\ UNCHANGED fitted
                    ELSE pc' = "done" /\ fitted' = Kept(mask)
    /\ UNCHANGED <<inputs, iter, best, tried, mask, segments, served>>

-----------------------------------------------------------------------------
(* fit_piecewise_affine *)

(* The events in the order of x, ties in the order given. *)
Order == SortedBy([i \in Event |-> i], x)

Least(a, b) == Min({a, b})

(* Events from..to of the order make a segment; it serves the times below  *)
(* the middle between its last event and the next one, kept as a sum.      *)
Segment(k, s) ==
    LET n == Cardinality(Event)
        hi == (s * n) \div k
    IN  [from |-> ((s - 1) * n) \div k + 1, to |-> hi,
         last |-> s = k,
         below |-> IF s = k THEN 0 ELSE x[Order[hi]] + x[Order[hi + 1]]]

(* Slip: a segment ends at its last event. *)
SplitSlip ==
    /\ pc = "split"
    /\ LET half == Cardinality(Event) \div 2
           k == IF half = 0 THEN 1 ELSE Least(count, half)
       IN  segments' = [s \in 1..k |->
                          LET g == Segment(k, s)
                          IN  [g EXCEPT !.below = 2 * x[Order[g.to]]]]
    /\ pc' = "predict"
    /\ UNCHANGED <<inputs, iter, best, tried, fitted, mask, served>>

(* As many segments as asked for, with two events at least in each. *)
Split ==
    /\ pc = "split"
    /\ LET half == Cardinality(Event) \div 2
           k == IF half = 0 THEN 1 ELSE Least(count, half)
       IN  segments' = [s \in 1..k |-> Segment(k, s)]
    /\ pc' = "predict"
    /\ UNCHANGED <<inputs, iter, best, tried, fitted, mask, served>>

(* ClockModel.to_reference: the segment that maps a time.  The first one   *)
(* starts, and the last one ends, beyond all times.                        *)
Serving(t) == CHOOSE s \in DOMAIN segments :
                /\ segments[s].last \/ 2 * t < segments[s].below
                /\ \A r \in 1..s - 1 : segments[r].below <= 2 * t

Predict ==
    /\ pc = "predict"
    /\ served' = [i \in Event |-> Serving(x[i])]
    /\ pc' = "done"
    /\ UNCHANGED <<inputs, iter, best, tried, fitted, mask, segments>>

Next == \/ \E i, j \in Event : Sample(i, j)
        \/ FitAll \/ FitBest \/ Refit
        \/ Split \/ Predict

Spec == Init /\ [][Next]_vars

-----------------------------------------------------------------------------
(* Properties. *)

(* Clocks run forwards: of two events each device sees the same one first. *)
InOrder == \A i, j \in Event : x[i] < x[j] <=> y[i] < y[j]

Distinct == \A i, j \in Event : x[i] = x[j] => i = j

(* On events in order the estimator always gives a clock that runs         *)
(* forwards, whatever it rejects on the way: the inliers are counted anew, *)
(* by their distance from a line refitted without its outliers, and none   *)
(* might be left.                                                          *)
FitUsable ==
    (count = 0 /\ InOrder) => /\ pc # "raised"
                              /\ pc = "done" => mask # {} /\ Positive(fitted)

(* A group of events that lie on one line, and more of them than near any  *)
(* line through another event, is found as soon as two of them have been   *)
(* sampled: all others are outliers, and the fit is that line.             *)
OnLine(S) == \A i, j, k \in S : (x[j] - x[i]) * (y[k] - y[i]) = (x[k] - x[i]) * (y[j] - y[i])

TrueClockFound ==
    (count = 0 /\ pc = "done" /\ InOrder /\ Distinct) =>
        \A C \in SUBSET Event :
            (/\ OnLine(C)
             /\ \E i, j \in C : i # j /\ {i, j} \in tried /\ Consensus(i, j) = C
             /\ \A i, j \in Event : i # j /\ ~({i, j} \subseteq C)
                                      => Cardinality(Consensus(i, j)) < Cardinality(C))
            => mask = C /\ fitted = C

(* Every event is mapped by the segment that was fitted to it, every       *)
(* segment is fitted to two events at least, and together to all of them.  *)
SegmentsServe ==
    (count # 0 /\ pc = "done") =>
        LET n == Len(x) IN
        /\ segments[1].from = 1 /\ segments[Len(segments)].to = n
        /\ \A s \in DOMAIN segments :
             /\ s > 1 => segments[s].from = segments[s - 1].to + 1
             /\ n >= 2 => segments[s].to > segments[s].from
             /\ Distinct => \A k \in segments[s].from..segments[s].to : served[Order[k]] = s
=============================================================================

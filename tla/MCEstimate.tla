----------------------------- MODULE MCEstimate -----------------------------
(***************************************************************************)
(* A small instance of Estimate for TLC: all events in order of up to five *)
(* on two clocks of small range, from those on a line to those without     *)
(* any; events given in any order, some at equal times; eleven events of   *)
(* which the fit leaves one out; and events as Forward makes them, with    *)
(* streams due late, early, twice, at fractions of a microsecond and       *)
(* before the device's epoch.                                              *)
(***************************************************************************)
EXTENDS Forward

CONSTANTS MaxX, MaxY

Rising(n, m) == {s \in [1..n -> 0..m] : \A i \in 1..n - 1 : s[i] < s[i + 1]}

InOrderPairs == {[x |-> s, y |-> t] : s \in {r \in Rising(4, MaxX) : r[1] = 0}, t \in Rising(4, MaxY)}
Longer == {[x |-> s, y |-> t] : s \in {r \in Rising(5, MaxX - 1) : r[1] = 0}, t \in Rising(5, MaxY)}
Short == UNION {{[x |-> s, y |-> s] : s \in [1..n -> 0..3]} : n \in 1..4}

(* The sixth event is within the threshold of the line through the others, *)
(* but beyond three times the root mean square of the line fitted to all:  *)
(* that fit is made from the other ten.                                    *)
Outlying == {[x |-> [i \in 1..11 |-> IF i < 6 THEN 0 ELSE IF i = 6 THEN 1 ELSE 3],
              y |-> [i \in 1..11 |-> IF i < 6 THEN 0 ELSE IF i = 6 THEN 2 ELSE 3]]}

MCEvidence == InOrderPairs \cup Longer \cup Short \cup Outlying

MCSegmentCounts == {1, 2, 3}

(* Schedules: regular ones, faster than a microsecond and slower, and all  *)
(* of four samples.                                                        *)
Schedules == {[i \in 1..5 |-> p * (i - 1)] : p \in {1, 3, 5}}
             \cup {[i \in 1..4 |-> 2 * s[i]] : s \in [1..4 -> {-1, 1, 2, 3}]}

Identity == [rates |-> <<<<1, 1>>>>, beta |-> 0]

Clocks == {[rates |-> <<r>>, beta |-> b] : r \in {<<1, 1>>, <<2, 1>>, <<1, 2>>}, b \in {-2, 0, 1}}
          \cup {[rates |-> r, beta |-> 0] : r \in {<<<<1, 1>>, <<2, 1>>>>, <<<<2, 1>>, <<1, 2>>>>}}

MCSessions ==
    {[due |-> s, loss |-> l, clock |-> Identity, happen |-> <<1, 2>>] :
       s \in Schedules, l \in {"none", "bernoulli", "gilbert"}}
    \cup {[due |-> <<0, 3>>, loss |-> "none", clock |-> c, happen |-> t] :
            c \in Clocks, t \in {<<0, 2, 4, 6>>, <<0, 2, 6, 8>>, <<2, 3, 6>>}}

(* A stream is due, or evidence is given. *)
Given == /\ Init
         /\ due = << >> /\ loss = "none" /\ stamps = << >> /\ kept = {} /\ next = 1 /\ bad = FALSE
         /\ clock = Identity /\ happen = << >> /\ jittered = FALSE

MCSpec == (Given \/ ForwardInit) /\ [][ForwardNext]_forwardVars
=============================================================================

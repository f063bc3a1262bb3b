---------------------------- MODULE MCDetectors ----------------------------
(***************************************************************************)
(* Small instances of Detectors for TLC: every way for three devices to    *)
(* observe two fiducials, with up to MaxFaults failures of the detectors.  *)
(* And for Association by itself: every way to detect up to MaxEntries     *)
(* things at a few instants, in lists that need not be sorted, and two     *)
(* fiducials far apart that every device detects.                          *)
(***************************************************************************)
EXTENDS Detectors

CONSTANTS d1, d2, d3, MaxEntries, MaxTime

MCDevice == {d1, d2, d3}
MCOrder == <<d1, d2, d3>>
MCShift == [d \in MCDevice |-> CASE d = d1 -> 0 [] d = d2 -> 2 [] d = d3 -> -1]

(* The coarse clock of d3 is wrong by one. *)
MCTrueShift == [MCShift EXCEPT ![d3] = 0]

MCFiducials == {3, 9}

(* The detections of device d at the common times t. *)
Of(d, t) == [i \in DOMAIN t |-> [dev |-> d, lt |-> t[i] - MCShift[d]]]

Lists(A, B, C) == {Of(d1, s) \o Of(d2, t) \o Of(d3, u) : s \in A, t \in B, u \in C}

Instants(n) == [1..n -> 0..MaxTime]

Few == UNION {Lists(Instants(q[1]), Instants(q[2]), Instants(q[3])) :
                q \in {r \in [1..3 -> 0..MaxEntries] : r[1] + r[2] + r[3] <= MaxEntries}}

Twice == {<<t, r>> : t \in 0..1, r \in 5..6}

MCInputs == Few \cup Lists(Twice, Twice, Twice)
=============================================================================

----------------------------- MODULE MCTimeline -----------------------------
(***************************************************************************)
(* Small instances of Timeline for TLC: a hold and a continuous stream of  *)
(* up to three samples each, with simultaneous samples, gaps longer than   *)
(* the tolerance, recordings out of order, clocks that are slow, halve the *)
(* rate or run backwards, and events on either side of the samples.        *)
(***************************************************************************)
EXTENDS Timeline

CONSTANTS anchor, burst

MCStream == {anchor, burst}
MCKernel == [s \in MCStream |-> IF s = anchor THEN "hold" ELSE "continuous"]
MCSteps == {[num |-> 1, den |-> 1], [num |-> 3, den |-> 2], [num |-> 5, den |-> 2]}

Affine(num, off, den) == [num |-> num, off |-> off, den |-> den]

Anchors == [times  : {<< >>, <<1>>, <<0, 3>>, <<0, 0>>, <<0, 6>>, <<0, 2, 4>>, <<1, 3, 7>>},
            clock  : {Affine(1, 0, 1), Affine(1, 1, 2), Affine(3, 1, 2)},
            events : {<< >>, <<2>>, <<0, 5>>}]

Bursts == [times  : {<< >>} \cup UNION {[1..n -> {0, 1, 2, 5}] : n \in 1..3},
           clock  : {Affine(1, 0, 1), Affine(3, 1, 2), Affine(-1, 4, 1)},
           events : {<< >>, <<4, 1>>}]

MCRecordings == {[s \in MCStream |-> IF s = anchor THEN a ELSE b] : a \in Anchors, b \in Bursts}
=============================================================================

------------------------------ MODULE MCIngest ------------------------------
(***************************************************************************)
(* Small instances of Ingest for TLC: fleets of one to three adapters in   *)
(* every order, that tie or differ in each criterion of the reference's    *)
(* selection, have up to two streams (one of them empty, one of them out   *)
(* of order), and share an identifier or not; and adapters over a location *)
(* that holds a hash, before the rest of it or after.                      *)
(***************************************************************************)
EXTENDS Ingest

MCLimits == {Unlimited, 1}

Slow == [rate |-> 1, stamps |-> <<0, 2, 2>>]
Fast == [rate |-> 2, stamps |-> <<3, 1>>]
Bare == [rate |-> 0, stamps |-> << >>]

Plain == [id |-> 1, candidate |-> FALSE, tiers |-> {"shared_event", "wall_clock"},
          streams |-> <<Slow>>, truth |-> FALSE, base |-> <<Text>>]

Kinds == {Plain,
          [Plain EXCEPT !.tiers = {"hardware_ptp"}, !.streams = <<Bare>>],
          [Plain EXCEPT !.candidate = TRUE, !.tiers = {}, !.truth = TRUE],
          [Plain EXCEPT !.streams = <<Slow, Fast>>],
          [Plain EXCEPT !.tiers = {"wall_clock"}]}

As(d, k) == [k EXCEPT !.id = d]

Pairs == {<<As(d, k), As(e, l)>> : d, e \in {1, 2}, k, l \in Kinds}

Orders == {o \in [1..3 -> 1..3] : \A i, j \in 1..3 : o[i] = o[j] => i = j}

(* Of three devices two are alike, or all of them. *)
Triples == {[i \in 1..3 |-> As(o[i], IF i = 2 THEN k ELSE Plain)] :
              o \in Orders, k \in {x \in Kinds : Len(x.streams) = 1}}

Hashed == {<<[Plain EXCEPT !.base = b]>> : b \in {<<Hash>>, <<Text, Hash>>, <<Text, Hash, Text>>}}

MCFleets == {<<As(d, k)>> : d \in {1, 2}, k \in Kinds} \cup Pairs \cup Triples \cup Hashed
=============================================================================

------------------------------ MODULE MCEngine ------------------------------
(***************************************************************************)
(* A small instance of Engine for TLC: three devices that see three events *)
(* in every combination, so that the third is reached directly, through    *)
(* the second, or not at all; with true and wrong fits, clocks that run    *)
(* backwards, a bad observation, and streams around the gate's limits.     *)
(***************************************************************************)
EXTENDS Engine

MCCountLoss == [n \in 0..3 |-> 3 - n]

MCObserved == UNION {[1..n -> {S \in SUBSET Device : Cardinality(S) >= 2}] : n \in {1, 3}}

True(alpha, beta) == [alpha |-> alpha, beta |-> beta]

MCClocks == {[d \in Device |-> IF d = Ref THEN True(1, 0) ELSE True(a, b + d)] :
               a \in {1, -1}, b \in {0, 1}}

NoError == [i \in 1..3 |-> [d \in Device |-> 0]]
MCErrors == {NoError, [NoError EXCEPT ![1][2] = 1], [NoError EXCEPT ![1][2] = 3]}

MCWrong == {True(1, 1)}
MCResiduals == {0, 2}

Stream(expected, received, points, valid) ==
    [expected |-> expected, received |-> received, points |-> points, valid |-> valid]

Good == Stream(4, 5, 4, 4)

MCDeliveries == {[d \in Device |-> Good],
                 [d \in Device |-> IF d = 2 THEN Stream(4, 3, 4, 4) ELSE Good],
                 [d \in Device |-> IF d = 3 THEN Stream(0, 0, 4, 3) ELSE Stream(4, 4, 4, 4)]}

MCGates == {[certified |-> 1, release |-> 2, hardfail |-> 3, coverage |-> 100, dropout |-> 0],
            [certified |-> 1, release |-> 1, hardfail |-> 3, coverage |-> 75, dropout |-> 25]}
=============================================================================

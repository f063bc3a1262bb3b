----------------------------- MODULE MCPersist -----------------------------
(***************************************************************************)
(* Small instances of Persist for TLC: two results with as many arrays as  *)
(* each other and one with more.                                           *)
(***************************************************************************)
EXTENDS Persist

CONSTANTS r1, r2, r3, s1, s2

MCResult == {r1, r2, r3}
MCSessionDoc == {s1, s2}
MCArrayKeys == [r \in MCResult |-> IF r = r3 THEN 2 ELSE 1]
=============================================================================

---------------------------- MODULE MCReconcile ----------------------------
(***************************************************************************)
(* A small instance of Reconcile for TLC: every graph of four devices      *)
(* whose edges are good, poor or beyond the clamp, with maps that agree    *)
(* with one another or not.                                                *)
(***************************************************************************)
EXTENDS ReconcileProps

(* -log(1 - 1/(n + 1)) falls with n; two steps of it are enough. *)
MCCountLoss == [n \in 0..3 |-> IF n = 3 THEN 0 ELSE 4 - n]

Edge(n, residual, alpha, beta) ==
    [shared |-> n, used |-> n, residual |-> residual,
     map |-> [alpha |-> alpha, beta |-> beta]]

(* No edge; few events; many events; and one that kept fewer events than   *)
(* the pair shares, beyond a clamp of 4.  They cost 3, 1 and 4, so a path  *)
(* of two or three edges may be cheaper than one, or as cheap.             *)
MCFits == {Edge(1, 0, 1, 0),
           Edge(2, 1, 1, 1),
           Edge(3, 1, -1, 0),
           [Edge(3, 3, -1, 1) EXCEPT !.used = 2]}

MCTruths == [Device -> [alpha : {1, -1}, beta : 0..1]]
=============================================================================

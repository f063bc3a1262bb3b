-------------------------- MODULE ReconcileProps --------------------------
(***************************************************************************)
(* What `reconcile` promises, stated against a reference definition: the   *)
(* simple paths of the co-observation graph that start at the reference.   *)
(***************************************************************************)
EXTENDS Reconcile, Functions

SimplePaths == {p \in UNION {[1..k -> Device] : k \in 1..N} :
                  p[1] = Ref /\ IsInjective(p)}

End(p) == p[Len(p)]

IsPath(p) == \A i \in 1..Len(p) - 1 : Adjacent(p[i], p[i + 1])

(* Sum of w over the edges of p. *)
Along(p, w(_, _)) ==
    FoldFunction(+, 0, [i \in 1..Len(p) - 1 |-> w(p[i], p[i + 1])])

(* The reported path of a device is a simple path of the graph from the    *)
(* reference to that device, `hops` edges long; the model's confidence is  *)
(* the product of its edges', and what the model has for a residual in     *)
(* microseconds is the path's cost, the sum of their clamped               *)
(* -log(confidence): a number without a unit, and no fit's residual.       *)
PathsRealised ==
    pc = "done" =>
        /\ DOMAIN paths = reachable
        /\ \A d \in reachable :
             LET p == paths[d] IN
             /\ p \in SimplePaths /\ End(p) = d /\ IsPath(p)
             /\ Len(p) = hops[d] + 1
             /\ models[d].cost = Along(p, Cost)
             /\ models[d].conf = Along(p, Loss)

(* "most reliable path" (sync/graph.py:107): no path to a device has a     *)
(* higher confidence than the one its model reports, provided no edge is   *)
(* so poor that its cost was clamped.                                      *)
MostReliable ==
    (pc = "done" /\ \A p \in Pair : IsEdge(p) => Loss(p[1], p[2]) <= Clamp) =>
        \A p \in SimplePaths :
            IsPath(p) => models[End(p)].conf <= Along(p, Loss)

(* Reported paths are of the graph, are those the models' costs and        *)
(* confidences were summed over, and are the most reliable ones.           *)
PathsInv == PathsRealised /\ MostReliable

(* The search stops and the models and paths are built. *)
Terminates == <>(pc = "done")
=============================================================================

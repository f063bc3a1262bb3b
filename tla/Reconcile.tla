----------------------------- MODULE Reconcile -----------------------------
(***************************************************************************)
(* Clock reconciliation over the co-observation graph: `build_edges` and   *)
(* `reconcile` of sync/graph.py.  Devices are nodes; two devices that      *)
(* observe enough shared events are joined by an edge that carries a       *)
(* fitted map between their clocks.  A Dijkstra search with a              *)
(* lazy-deletion heap, started at the reference device, composes the maps  *)
(* along the cheapest paths; the labels it leaves become one clock model   *)
(* per device.                                                             *)
(*                                                                         *)
(* Confidences are kept as their negated logarithm, the form in which the  *)
(* code adds them: confidence 1 is loss 0 and a product of confidences is  *)
(* a sum of losses.  A clock map t |-> alpha * t + beta has alpha in the   *)
(* units of Int, so that 1/alpha is exact; such maps do not commute, which *)
(* is what makes the direction and the order of a composition matter.      *)
(* Devices are numbered in the order of their names.                       *)
(***************************************************************************)
EXTENDS Integers, Sequences, FiniteSets

CONSTANTS N,            \* number of devices
          Ref,          \* the reference device
          MinEvents,    \* shared events a pair needs to form an edge
          CountLoss,    \* events used by a fit |-> the loss they account for
          Clamp,        \* -log(1e-9): the largest cost one edge can have
          Fits,         \* the fits a pair of devices may have
          Truths        \* candidate true clocks: device |-> map to true time

Device == 1..N
Pair == {p \in Device \X Device : p[1] < p[2]}
Affine == [alpha : {1, -1}, beta : Int]

(* What is known of a pair of devices: how many events both observed, how  *)
(* many of them the fit used, its rms residual, and the fitted map from    *)
(* the clock of the pair's second device to the clock of its first.        *)
Fit == [shared : Nat, used : Nat, residual : Nat, map : Affine]

ASSUME DeviceAssumption == N \in Nat \ {0} /\ Ref \in Device
ASSUME LossAssumption == /\ MinEvents \in Nat
                         /\ Clamp \in Nat
                         /\ \A n \in DOMAIN CountLoss : CountLoss[n] \in Nat
ASSUME FitAssumption == \A f \in Fits : f \in Fit /\ f.used \in DOMAIN CountLoss
ASSUME TruthAssumption == \A truth \in Truths : truth \in [Device -> Affine]

VARIABLES fit,          \* pair |-> its fit (the events, already compared)
          pc,           \* "search", then "models", "paths", "done"
          dist, transform, conf, hops,  \* the labels, keyed by device
          parent,       \* device |-> the device it was reached from
          pq,           \* the heap: entries <<cost, device>>
          visited,      \* settled devices
          models, reachable, unreachable, paths

inputs == fit
labels == <<dist, transform, conf, hops, parent>>
outputs == <<models, reachable, unreachable, paths>>
vars == <<inputs, pc, labels, pq, visited, outputs>>

-----------------------------------------------------------------------------
(* Clock maps. *)

Identity == [alpha |-> 1, beta |-> 0]

Compose(outer, inner) == [alpha |-> outer.alpha * inner.alpha,
                          beta  |-> outer.alpha * inner.beta + outer.beta]

Inverted(f) == [alpha |-> f.alpha, beta |-> -(f.beta * f.alpha)]

-----------------------------------------------------------------------------
(* The edges and the adjacency lists built from them. *)

IsEdge(p) == p \in Pair /\ fit[p].shared >= MinEvents

Adjacent(u, v) == IsEdge(<<u, v>>) \/ IsEdge(<<v, u>>)

FitOf(u, v) == IF u < v THEN fit[<<u, v>>] ELSE fit[<<v, u>>]

(* Slip: an edge is crossed the other way with the map as it was fitted. *)
LinkSlip(u, v) == FitOf(u, v).map

(* The map from v's clock to u's, as stored in u's adjacency list. *)
Link(u, v) == IF u < v THEN FitOf(u, v).map ELSE Inverted(FitOf(u, v).map)

Residual(u, v) == FitOf(u, v).residual

(* -log of `clock_confidence`: less with more events, more with residual. *)
Loss(u, v) == CountLoss[FitOf(u, v).used] + Residual(u, v)

Cost(u, v) == IF Loss(u, v) <= Clamp THEN Loss(u, v) ELSE Clamp

-----------------------------------------------------------------------------
(* A Python dict is a function whose domain is the keys it has; `Updated`  *)
(* is the dict f after the assignments g.                                  *)
Updated(f, g) == [d \in DOMAIN f \cup DOMAIN g |->
                    IF d \in DOMAIN g THEN g[d] ELSE f[d]]

(* heappop: tuples are ordered by cost, then by device name. *)
HeapLeq(e, f) == e[1] < f[1] \/ (e[1] = f[1] /\ e[2] <= f[2])
(* Slip: the queue is a plain list. *)
IsTopSlip(e) == e \in pq

IsTop(e) == e \in pq /\ \A f \in pq : HeapLeq(e, f)

(* Slips: a label is replaced by one that is no cheaper; a label is never  *)
(* replaced.                                                               *)
ImprovedSlip(u, c) ==
    {v \in Device \ (visited \cup {u}) :
        Adjacent(u, v) /\ (v \in DOMAIN dist => c + Cost(u, v) <= dist[v])}

ImprovedOnceSlip(u, c) ==
    {v \in Device \ (visited \cup {u}) : Adjacent(u, v) /\ v \notin DOMAIN dist}

(* The neighbours of u whose label the visit of u at cost c improves. *)
Improved(u, c) ==
    {v \in Device \ (visited \cup {u}) :
        /\ Adjacent(u, v)
        /\ v \in DOMAIN dist => c + Cost(u, v) < dist[v]}

(* `cost` is what the code stores in `fit_residual_us`: the cost of the    *)
(* path, a sum of -log(confidence), not the microseconds of the documents. *)
Model(map, cost, loss) == [map |-> map, cost |-> cost, conf |-> loss]

(* Confidence 0 has no finite loss; -1 stands for it. *)
NoConf == -1

Init ==
    /\ fit \in [Pair -> Fits]
    /\ pc = "search"
    /\ transform = [d \in {Ref} |-> Identity]
    /\ conf = [d \in {Ref} |-> 0]
    /\ hops = [d \in {Ref} |-> 0]
    /\ dist = [d \in {Ref} |-> 0]
    /\ parent = << >>
    /\ pq = {<<0, Ref>>}
    /\ visited = {}
    /\ models = << >> /\ paths = << >>
    /\ reachable = {} /\ unreachable = {}

(* Slip: a stale entry is looked at and put back. *)
PopStaleSlip ==
    /\ pc = "search"
    /\ \E e \in pq : IsTop(e) /\ e[2] \in visited
    /\ UNCHANGED vars

(* A popped device that is already settled is dropped. *)
PopStale ==
    /\ pc = "search"
    /\ \E e \in pq : /\ IsTop(e)
                     /\ e[2] \in visited
                     /\ pq' = pq \ {e}
    /\ UNCHANGED <<inputs, pc, labels, visited, outputs>>

(* Slip: a device keeps the first parent it was given. *)
RelaxSlip(u, c) ==
    LET S == Improved(u, c) IN
    /\ dist' = Updated(dist, [v \in S |-> c + Cost(u, v)])
    /\ transform' = Updated(transform, [v \in S |-> Compose(transform[u], Link(u, v))])
    /\ conf' = Updated(conf, [v \in S |-> conf[u] + Loss(u, v)])
    /\ hops' = Updated(hops, [v \in S |-> hops[u] + 1])
    /\ parent' = Updated([v \in S |-> u], parent)
    /\ pq' = (pq \ {<<c, u>>}) \cup {<<c + Cost(u, v), v>> : v \in S}

(* A popped device that is not settled is settled and its edges relaxed.   *)
(* A device appears once in an adjacency list, so the order of the list    *)
(* does not matter.                                                        *)
Relax(u, c) ==
    LET S == Improved(u, c) IN
    /\ dist' = Updated(dist, [v \in S |-> c + Cost(u, v)])
    /\ transform' = Updated(transform, [v \in S |-> Compose(transform[u], Link(u, v))])
    /\ conf' = Updated(conf, [v \in S |-> conf[u] + Loss(u, v)])
    /\ hops' = Updated(hops, [v \in S |-> hops[u] + 1])
    /\ parent' = Updated(parent, [v \in S |-> u])
    /\ pq' = (pq \ {<<c, u>>}) \cup {<<c + Cost(u, v), v>> : v \in S}

Settle ==
    /\ pc = "search"
    /\ \E e \in pq : /\ IsTop(e)
                     /\ e[2] \notin visited
                     /\ visited' = visited \cup {e[2]}
                     /\ Relax(e[2], e[1])
    /\ UNCHANGED <<inputs, pc, outputs>>

HeapEmpty ==
    /\ pc = "search"
    /\ pq = {}
    /\ pc' = "models"
    /\ UNCHANGED <<inputs, labels, pq, visited, outputs>>

(* Slip: a device without a label is given the certain identity model. *)
ModelOfSlip(d) ==
    IF d \in DOMAIN transform THEN Model(transform[d], dist[d], conf[d])
    ELSE Model(Identity, 0, 0)

(* One clock model per device; a device without a label is unreachable. *)
ModelOf(d) ==
    CASE d = Ref -> Model(Identity, 0, 0)
      [] d # Ref /\ d \in DOMAIN transform -> Model(transform[d], dist[d], conf[d])
      [] OTHER -> Model(Identity, 0, NoConf)

BuildModels ==
    /\ pc = "models"
    /\ models' = [d \in Device |-> ModelOf(d)]
    /\ reachable' = {d \in Device : d = Ref \/ d \in DOMAIN transform}
    /\ unreachable' = Device \ reachable'
    /\ pc' = "paths"
    /\ UNCHANGED <<inputs, labels, pq, visited, paths>>

(* The chain of parents of d, reversed; k bounds its length. *)
Chain[k \in 0..N] ==
    [d \in Device |-> IF k = 0 \/ d \notin DOMAIN parent
                      THEN <<d>>
                      ELSE Append(Chain[k - 1][parent[d]], d)]

BuildPaths ==
    /\ pc = "paths"
    /\ paths' = [d \in reachable |-> Chain[N][d]]
    /\ pc' = "done"
    /\ UNCHANGED <<inputs, labels, pq, visited, models, reachable, unreachable>>

Next == PopStale \/ Settle \/ HeapEmpty \/ BuildModels \/ BuildPaths

Spec == Init /\ [][Next]_vars /\ WF_vars(Next)

-----------------------------------------------------------------------------
(* Properties. *)

Known == DOMAIN dist

(* The local variables of `reconcile` hold what its annotations say: every *)
(* label dict has the same keys, and only the reference has no parent.     *)
TypeOK ==
    /\ fit \in [Pair -> Fits]
    /\ pc \in {"search", "models", "paths", "done"}
    /\ Known \subseteq Device /\ Ref \in Known
    /\ dist \in [Known -> Nat] /\ conf \in [Known -> Nat] /\ hops \in [Known -> Nat]
    /\ transform \in [Known -> Affine]
    /\ parent \in [Known \ {Ref} -> Device]
    /\ pq \subseteq Nat \X Device
    /\ visited \subseteq Known

(* The labels of v extend those of u by the edge between them. *)
HangsFrom(v, u) ==
    /\ u \in visited /\ u # v /\ Adjacent(u, v)
    /\ dist[v] = dist[u] + Cost(u, v)
    /\ transform[v] = Compose(transform[u], Link(u, v))
    /\ conf[v] = conf[u] + Loss(u, v)
    /\ hops[v] = hops[u] + 1

(* The label of a device was derived from the label its parent has NOW:    *)
(* no parent was relabelled after a child had used its map, although a     *)
(* device may be labelled several times before it is settled.              *)
TreeConsistent ==
    /\ dist[Ref] = 0 /\ conf[Ref] = 0 /\ hops[Ref] = 0
    /\ transform[Ref] = Identity
    /\ \A v \in Known \ {Ref} : HangsFrom(v, parent[v])

(* The heap holds the current label of every device still to be settled,   *)
(* and otherwise only entries that a better label has made stale.          *)
HeapCovers ==
    /\ \A v \in Known \ visited : <<dist[v], v>> \in pq
    /\ \A e \in pq : e[2] \in Known /\ dist[e[2]] <= e[1]

(* Devices are settled in the order of their distance. *)
SettledFirst == \A u \in visited, v \in Known \ visited : dist[u] <= dist[v]

(* Every edge of a settled device has been taken into account. *)
Relaxed ==
    \A u \in visited, v \in Device :
        Adjacent(u, v) => v \in Known /\ dist[v] <= dist[u] + Cost(u, v)

(* The inductive invariant of the search: stale heap entries and labels    *)
(* that are replaced before they are settled never leave a device with a   *)
(* label that its parent no longer justifies.                              *)
SearchInv ==
    /\ TypeOK /\ TreeConsistent /\ HeapCovers /\ SettledFirst /\ Relaxed
    /\ pc # "search" => pq = {}

(* When the heap runs empty no edge can improve a label or label another   *)
(* device: with TreeConsistent, the labels are those of shortest paths and *)
(* exactly the devices connected to the reference have one.                *)
FixedPoint ==
    pc # "search" =>
        \A u \in Known, v \in Device :
            Adjacent(u, v) => v \in Known /\ dist[v] <= dist[u] + Cost(u, v)

(* Every edge agrees with a family of true clocks. *)
AgreesWith(truth) ==
    \A p \in Pair : IsEdge(p) =>
        fit[p].map = Compose(Inverted(truth[p[1]]), truth[p[2]])

(* If the fitted edges are those of true clocks, every labelled device is  *)
(* given its true clock relative to the reference, whichever of several    *)
(* paths the search took and in whichever direction an edge was crossed.   *)
RecoversTruth ==
    \A truth \in Truths : AgreesWith(truth) =>
        \A d \in Known :
            transform[d] = Compose(Inverted(truth[Ref]), truth[d])

(* The devices that edges connect to the reference: those that are in      *)
(* every set that holds the reference and is closed under edges.           *)
Closed(S) == Ref \in S /\ \A u \in S, v \in Device : Adjacent(u, v) => v \in S

Connected == {d \in Device : \A S \in SUBSET Device : Closed(S) => d \in S}

(* The models split the devices along the graph: reachable are exactly the *)
(* devices connected to the reference, and the models of the others claim  *)
(* nothing.                                                                *)
Partition ==
    pc \in {"paths", "done"} =>
        /\ reachable = Connected
        /\ unreachable = Device \ reachable
        /\ \A d \in unreachable : models[d] = Model(Identity, 0, NoConf)
        /\ \A d \in reachable : models[d].conf # NoConf

(* A settled device keeps its label to the end, and a label that is        *)
(* replaced before is replaced by a strictly cheaper one.                  *)
LabelsImprove ==
    [][\A d \in Known :
         \/ /\ dist'[d] = dist[d] /\ transform'[d] = transform[d]
            /\ conf'[d] = conf[d] /\ hops'[d] = hops[d]
         \/ d \notin visited /\ dist'[d] < dist[d]]_vars
=============================================================================

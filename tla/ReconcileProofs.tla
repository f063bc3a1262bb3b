-------------------------- MODULE ReconcileProofs --------------------------
(***************************************************************************)
(* Proofs about Reconcile, for every number of devices, every set of fits  *)
(* and every loss function.                                                *)
(***************************************************************************)
EXTENDS ReconcileProps, ArraysProofs

USE DEF Device

-----------------------------------------------------------------------------
(* Facts about the operators. *)

LEMMA PairOf ==
    ASSUME NEW u \in Device, NEW v \in Device, u # v
    PROVE  IF u < v THEN <<u, v>> \in Pair ELSE <<v, u>> \in Pair
BY DeviceAssumption DEF Pair

LEMMA FitOfType ==
    ASSUME fit \in [Pair -> Fits], NEW u \in Device, NEW v \in Device, u # v
    PROVE  FitOf(u, v) \in Fits
BY PairOf, DeviceAssumption DEF FitOf

LEMMA LossType ==
    ASSUME fit \in [Pair -> Fits], NEW u \in Device, NEW v \in Device, u # v
    PROVE  Loss(u, v) \in Nat /\ Cost(u, v) \in Nat
<1> DEFINE f == FitOf(u, v)
<1>1. f \in Fit /\ f.used \in DOMAIN CountLoss
  BY FitOfType, FitAssumption
<1>2. CountLoss[f.used] \in Nat /\ f.residual \in Nat
  BY <1>1, LossAssumption DEF Fit
<1> QED
  BY <1>2, LossAssumption DEF Loss, Residual, Cost

LEMMA AdjacentDistinct ==
    ASSUME NEW u \in Device, NEW v \in Device, Adjacent(u, v)
    PROVE  u # v
BY DeviceAssumption DEF Adjacent, IsEdge, Pair

LEMMA InvertedType ==
    ASSUME NEW f \in Affine
    PROVE  Inverted(f) \in Affine
BY DEF Affine, Inverted

LEMMA ComposeType ==
    ASSUME NEW f \in Affine, NEW g \in Affine
    PROVE  Compose(f, g) \in Affine
BY DEF Affine, Compose

LEMMA ComposeAssoc ==
    ASSUME NEW f \in Affine, NEW g \in Affine, NEW h \in Affine
    PROVE  Compose(Compose(f, g), h) = Compose(f, Compose(g, h))
BY DEF Affine, Compose

LEMMA LinkType ==
    ASSUME fit \in [Pair -> Fits], NEW u \in Device, NEW v \in Device, u # v
    PROVE  Link(u, v) \in Affine
<1>1. FitOf(u, v).map \in Affine
  BY FitOfType, FitAssumption DEF Fit
<1> QED
  BY <1>1, InvertedType DEF Link

(* The edges are read off `fit`, which no step changes. *)
LEMMA EdgesUnchanged ==
    ASSUME fit' = fit
    PROVE  \A u, v : /\ Adjacent(u, v)' <=> Adjacent(u, v)
                     /\ Cost(u, v)' = Cost(u, v)
                     /\ Loss(u, v)' = Loss(u, v)
                     /\ Link(u, v)' = Link(u, v)
BY DEF Adjacent, IsEdge, Cost, Loss, Residual, Link, FitOf

-----------------------------------------------------------------------------
(* The effect of settling u at cost c on the labels, the heap and the set  *)
(* of labelled devices.                                                    *)

Labelled(u, c, S) ==
    /\ u \in Known /\ dist[u] = c
    /\ S \subseteq Device \ (visited \cup {u}) /\ Ref \notin S
    /\ \A v \in S : /\ u # v /\ Adjacent(u, v)
                    /\ Cost(u, v) \in Nat /\ Loss(u, v) \in Nat
                    /\ Link(u, v) \in Affine
    /\ Known' = Known \cup S
    /\ dist' = [d \in Known \cup S |-> IF d \in S THEN c + Cost(u, d) ELSE dist[d]]
    /\ transform' = [d \in Known \cup S |->
                       IF d \in S THEN Compose(transform[u], Link(u, d)) ELSE transform[d]]
    /\ conf' = [d \in Known \cup S |-> IF d \in S THEN conf[u] + Loss(u, d) ELSE conf[d]]
    /\ hops' = [d \in Known \cup S |-> IF d \in S THEN hops[u] + 1 ELSE hops[d]]
    /\ parent' = [d \in (Known \cup S) \ {Ref} |-> IF d \in S THEN u ELSE parent[d]]
    /\ pq' = (pq \ {<<c, u>>}) \cup {<<c + Cost(u, v), v>> : v \in S}

LEMMA SettleEffect ==
    ASSUME SearchInv, NEW u \in Device, NEW c \in Nat,
           IsTop(<<c, u>>), u \notin visited, Relax(u, c),
           NEW S, S = Improved(u, c)
    PROVE  Labelled(u, c, S)
<1> USE DEF SearchInv, TypeOK
<1>1. u \in Known /\ dist[u] = c
  <2>1. u \in Known /\ dist[u] <= c
    BY DEF IsTop, HeapCovers
  <2>2. <<dist[u], u>> \in pq
    BY <2>1 DEF HeapCovers
  <2>3. c <= dist[u]
    BY <2>2 DEF IsTop, HeapLeq
  <2> QED
    BY <2>1, <2>3
<1>2. S \subseteq Device \ (visited \cup {u})
  BY DEF Improved
<1>3. \A v \in S : /\ u # v /\ Adjacent(u, v)
                   /\ Cost(u, v) \in Nat /\ Loss(u, v) \in Nat
                   /\ Link(u, v) \in Affine
  BY <1>2, LossType, LinkType DEF Improved
<1>4. Ref \notin S
  <2> SUFFICES ASSUME Ref \in S PROVE FALSE
    OBVIOUS
  <2>1. c + Cost(u, Ref) < dist[Ref]
    BY DEF Improved
  <2> QED
    BY <2>1, <1>3 DEF TreeConsistent
<1>5. /\ dist' = [d \in Known \cup S |-> IF d \in S THEN c + Cost(u, d) ELSE dist[d]]
      /\ transform' = [d \in Known \cup S |->
                         IF d \in S THEN Compose(transform[u], Link(u, d)) ELSE transform[d]]
  BY DEF Relax, Updated, Known
<1>6. /\ conf' = [d \in Known \cup S |-> IF d \in S THEN conf[u] + Loss(u, d) ELSE conf[d]]
      /\ hops' = [d \in Known \cup S |-> IF d \in S THEN hops[u] + 1 ELSE hops[d]]
  BY DEF Relax, Updated
<1>7. parent' = [d \in (Known \cup S) \ {Ref} |-> IF d \in S THEN u ELSE parent[d]]
  BY <1>4 DEF Relax, Updated
<1>8. Known' = Known \cup S
  BY <1>5 DEF Known
<1>9. pq' = (pq \ {<<c, u>>}) \cup {<<c + Cost(u, v), v>> : v \in S}
  BY DEF Relax
<1> QED
  BY <1>1, <1>2, <1>3, <1>4, <1>5, <1>6, <1>7, <1>8, <1>9 DEF Labelled

-----------------------------------------------------------------------------
(* SearchInv is inductive. *)

LEMMA SearchInvInit == Init => SearchInv
<1> SUFFICES ASSUME Init PROVE SearchInv
  OBVIOUS
<1>1. Known = {Ref}
  BY DEF Init, Known
<1>2. Identity \in Affine
  BY DEF Identity, Affine
<1>3. parent \in [Known \ {Ref} -> Device]
  BY <1>1 DEF Init
<1>4. TypeOK
  BY <1>1, <1>2, <1>3, DeviceAssumption DEF Init, TypeOK
<1>5. TreeConsistent /\ HeapCovers /\ SettledFirst /\ Relaxed
  BY <1>1 DEF Init, TreeConsistent, HeapCovers, SettledFirst, Relaxed
<1> QED
  BY <1>4, <1>5 DEF Init, SearchInv

LEMMA SettlePreserves ==
    ASSUME SearchInv, Settle
    PROVE  SearchInv'
<1> USE DEF SearchInv
<1>1. PICK e \in pq : /\ IsTop(e) /\ e[2] \notin visited
                      /\ visited' = visited \cup {e[2]}
                      /\ Relax(e[2], e[1])
  BY DEF Settle
<1> DEFINE u == e[2]
           c == e[1]
           S == Improved(u, c)
<1>2. u \in Device /\ c \in Nat /\ e = <<c, u>>
  BY <1>1 DEF TypeOK
<1>3. /\ fit' = fit /\ pc' = pc /\ pc = "search"
      /\ visited' = visited \cup {u}
  BY <1>1 DEF Settle, inputs
<1> HIDE DEF u, c, S
<1>4. IsTop(<<c, u>>) /\ u \notin visited /\ Relax(u, c) /\ S = Improved(u, c)
  BY <1>1, <1>2 DEF u, c, S
<1>5. Labelled(u, c, S)
  BY <1>2, <1>4, SettleEffect
<1> USE DEF Labelled
<1>6. \A x, y : /\ Adjacent(x, y)' <=> Adjacent(x, y)
                /\ Cost(x, y)' = Cost(x, y)
                /\ Loss(x, y)' = Loss(x, y)
                /\ Link(x, y)' = Link(x, y)
  BY <1>3, EdgesUnchanged
<1>7. TypeOK'
  <2>1. dist' \in [Known' -> Nat] /\ conf' \in [Known' -> Nat] /\ hops' \in [Known' -> Nat]
    BY <1>2, <1>5 DEF TypeOK
  <2>2. transform' \in [Known' -> Affine]
    BY <1>5, ComposeType DEF TypeOK
  <2>3. parent' \in [Known' \ {Ref} -> Device]
    BY <1>2, <1>5 DEF TypeOK
  <2>4. pq' \subseteq Nat \X Device
    BY <1>2, <1>5 DEF TypeOK
  <2> QED
    BY <1>2, <1>3, <1>5, <2>1, <2>2, <2>3, <2>4 DEF TypeOK
<1>8. TreeConsistent'
  <2>1. /\ dist'[Ref] = 0 /\ conf'[Ref] = 0 /\ hops'[Ref] = 0
        /\ transform'[Ref] = Identity
    BY <1>5 DEF TypeOK, TreeConsistent
  <2>2. ASSUME NEW v \in Known' \ {Ref}
        PROVE  HangsFrom(v, parent[v])'
    <3>1. CASE v \in S
      <4>1. parent'[v] = u /\ u \notin S /\ u \in Known
        BY <1>5, <3>1
      <4> QED
        BY <1>3, <1>5, <1>6, <3>1, <4>1 DEF HangsFrom
    <3>2. CASE v \notin S
      <4>1. v \in Known \ {Ref} /\ parent'[v] = parent[v] /\ HangsFrom(v, parent[v])
        BY <1>5, <3>2 DEF TreeConsistent
      <4>2. parent[v] \in visited /\ parent[v] \in Known /\ parent[v] \notin S
        BY <4>1, <1>5 DEF HangsFrom, TypeOK
      <4> QED
        BY <1>3, <1>5, <1>6, <3>2, <4>1, <4>2 DEF HangsFrom
    <3> QED
      BY <3>1, <3>2
  <2> QED
    BY <2>1, <2>2 DEF TreeConsistent
<1>9. HeapCovers'
  <2>1. ASSUME NEW v \in Known' \ visited'
        PROVE  <<dist'[v], v>> \in pq'
    BY <1>3, <1>5 DEF HeapCovers
  <2>2. ASSUME NEW f \in pq'
        PROVE  f[2] \in Known' /\ dist'[f[2]] <= f[1]
    <3>1. CASE f \in pq
      <4>1. f[2] \in Known /\ dist[f[2]] <= f[1] /\ f[1] \in Nat
        BY <3>1 DEF HeapCovers, TypeOK
      <4>2. f[2] \in S => c + Cost(u, f[2]) < dist[f[2]]
        BY <1>4, <4>1 DEF Improved, Known
      <4>3. dist[f[2]] \in Nat
        BY <4>1 DEF TypeOK
      <4>4. CASE f[2] \in S
        <5>1. dist'[f[2]] = c + Cost(u, f[2]) /\ Cost(u, f[2]) \in Nat /\ f[2] \in Known'
          BY <1>5, <4>4
        <5> QED
          BY <1>2, <4>1, <4>2, <4>3, <4>4, <5>1
      <4>5. CASE f[2] \notin S
        BY <1>5, <4>1, <4>5
      <4> QED
        BY <4>4, <4>5
    <3>2. CASE f \notin pq
      BY <1>5, <3>2, <1>2
    <3> QED
      BY <3>1, <3>2
  <2> QED
    BY <2>1, <2>2 DEF HeapCovers
<1>10. SettledFirst'
  <2> SUFFICES ASSUME NEW x \in visited', NEW y \in Known' \ visited'
               PROVE  dist'[x] <= dist'[y]
    BY DEF SettledFirst
  <2>1. x \in Known /\ x \notin S /\ dist'[x] = dist[x] /\ dist[x] \in Nat
    BY <1>3, <1>5 DEF TypeOK
  <2>2. dist[x] <= c
    BY <1>2, <1>3, <1>4, <1>5 DEF SettledFirst
  <2>3. CASE y \in S
    BY <1>2, <1>5, <2>1, <2>2, <2>3
  <2>4. CASE y \notin S
    <3>1. y \in Known \ visited /\ dist'[y] = dist[y] /\ dist[y] \in Nat
      BY <1>3, <1>5, <2>4 DEF TypeOK
    <3>2. <<dist[y], y>> \in pq
      BY <3>1 DEF HeapCovers
    <3>3. c <= dist[y]
      BY <3>1, <3>2, <1>2, <1>4 DEF IsTop, HeapLeq
    <3> QED
      BY <2>1, <2>2, <3>1, <3>3, <1>2
  <2> QED
    BY <2>3, <2>4
<1>11. Relaxed'
  <2> SUFFICES ASSUME NEW x \in visited', NEW y \in Device, Adjacent(x, y)
               PROVE  y \in Known' /\ dist'[y] <= dist'[x] + Cost(x, y)
    BY <1>6 DEF Relaxed
  <2>1. x \in Device /\ x \in Known /\ x \notin S /\ dist'[x] = dist[x] /\ dist[x] \in Nat
    BY <1>2, <1>3, <1>5 DEF TypeOK
  <2>2. Cost(x, y) \in Nat
    BY <2>1, AdjacentDistinct, LossType DEF TypeOK
  <2>3. CASE x \in visited
    <3>1. y \in Known /\ dist[y] <= dist[x] + Cost(x, y) /\ dist[y] \in Nat
      BY <2>3 DEF Relaxed, TypeOK
    <3>2. y \in S => c + Cost(u, y) < dist[y]
      BY <1>4, <3>1 DEF Improved, Known
    <3> QED
      BY <1>2, <1>5, <2>1, <2>2, <3>1, <3>2
  <2>4. CASE x = u
    <3>1. CASE y \in S
      BY <1>2, <1>5, <2>1, <2>2, <2>4, <3>1
    <3>2. CASE y \in visited
      <4>1. y \in Known /\ dist'[y] = dist[y] /\ dist[y] \in Nat /\ dist[y] <= dist[u]
        BY <1>4, <1>5, <3>2 DEF SettledFirst, TypeOK
      <4> QED
        BY <1>5, <2>1, <2>2, <2>4, <4>1
    <3>3. CASE y \notin S /\ y \notin visited
      <4>1. y # u
        BY <2>4, <1>2, AdjacentDistinct
      <4>2. y \in Known /\ ~(c + Cost(u, y) < dist[y])
        BY <1>4, <2>4, <3>3, <4>1 DEF Improved, Known
      <4>3. dist'[y] = dist[y] /\ dist[y] \in Nat
        BY <1>5, <3>3, <4>2 DEF TypeOK
      <4> QED
        BY <1>2, <1>5, <2>1, <2>2, <2>4, <4>2, <4>3
    <3> QED
      BY <3>1, <3>2, <3>3
  <2> QED
    BY <1>3, <2>3, <2>4
<1> QED
  BY <1>3, <1>7, <1>8, <1>9, <1>10, <1>11

LEMMA SearchInvStep == SearchInv /\ [Next]_vars => SearchInv'
<1> SUFFICES ASSUME SearchInv, [Next]_vars PROVE SearchInv'
  OBVIOUS
<1>1. CASE Settle
  BY <1>1, SettlePreserves
<1>2. ASSUME fit' = fit, labels' = labels, visited' = visited,
             pq' = pq \/ PopStale,
             pc' \in {"search", "models", "paths", "done"},
             pc' # "search" => pq' = {}
      PROVE  SearchInv'
  <2>1. /\ dist' = dist /\ transform' = transform /\ conf' = conf
        /\ hops' = hops /\ parent' = parent /\ Known' = Known
    BY <1>2 DEF labels, Known
  <2>2. \A x, y : /\ Adjacent(x, y)' <=> Adjacent(x, y)
                  /\ Cost(x, y)' = Cost(x, y)
                  /\ Loss(x, y)' = Loss(x, y)
                  /\ Link(x, y)' = Link(x, y)
    BY <1>2, EdgesUnchanged
  <2>3. pq' \subseteq pq
    BY <1>2 DEF PopStale
  <2>4. TypeOK'
    BY <1>2, <2>1, <2>3 DEF SearchInv, TypeOK
  <2>5. TreeConsistent'
    BY <1>2, <2>1, <2>2 DEF SearchInv, TreeConsistent, HangsFrom
  <2>6. HeapCovers'
    <3>1. \A v \in Known \ visited : <<dist[v], v>> \in pq'
      BY <1>2 DEF SearchInv, HeapCovers, PopStale
    <3> QED
      BY <1>2, <2>1, <2>3, <3>1 DEF SearchInv, HeapCovers
  <2>7. SettledFirst' /\ Relaxed'
    BY <1>2, <2>1, <2>2 DEF SearchInv, SettledFirst, Relaxed
  <2> QED
    BY <1>2, <2>4, <2>5, <2>6, <2>7 DEF SearchInv
<1>3. CASE PopStale
  BY <1>2, <1>3 DEF PopStale, inputs, SearchInv, TypeOK
<1>4. CASE HeapEmpty
  BY <1>2, <1>4 DEF HeapEmpty, inputs, SearchInv, TypeOK
<1>5. CASE BuildModels
  BY <1>2, <1>5 DEF BuildModels, inputs, SearchInv, TypeOK
<1>6. CASE BuildPaths
  BY <1>2, <1>6 DEF BuildPaths, inputs, SearchInv, TypeOK
<1>7. CASE UNCHANGED vars
  BY <1>2, <1>7 DEF vars, inputs, SearchInv, TypeOK
<1> QED
  BY <1>1, <1>3, <1>4, <1>5, <1>6, <1>7 DEF Next

(* The search invariant: what the labels, the heap and the settled set of  *)
(* `reconcile` satisfy after every iteration of its loop.                  *)
THEOREM SearchCorrect == Spec => []SearchInv
<1>1. Init => SearchInv
  BY SearchInvInit
<1>2. SearchInv /\ [Next]_vars => SearchInv'
  BY SearchInvStep
<1> QED
  BY <1>1, <1>2, PTL DEF Spec

(* Every label dict of `reconcile` keeps the keys and values it should.    *)
THEOREM TypeCorrect == Spec => []TypeOK
<1>1. SearchInv => TypeOK
  BY DEF SearchInv
<1> QED
  BY <1>1, SearchCorrect, PTL

(* Maps, costs, confidences and hop counts are composed along the tree of  *)
(* parents, whatever order the heap settled the devices in.                *)
THEOREM TreeCorrect == Spec => []TreeConsistent
<1>1. SearchInv => TreeConsistent
  BY DEF SearchInv
<1> QED
  BY <1>1, SearchCorrect, PTL

LEMMA FixedPointHolds == SearchInv => FixedPoint
<1> SUFFICES ASSUME SearchInv, pc # "search" PROVE Known \subseteq visited
  BY DEF SearchInv, FixedPoint, Relaxed
<1> QED
  BY DEF SearchInv, HeapCovers

(* The labels the search ends with are a fixed point of relaxation, closed *)
(* under the edges of the graph.                                           *)
THEOREM FixedPointReached == Spec => []FixedPoint
BY FixedPointHolds, SearchCorrect, PTL

-----------------------------------------------------------------------------
(* Recovering the true clocks: the algebra of clock maps. *)

LEMMA ComposeInverted ==
    ASSUME NEW f \in Affine
    PROVE  Compose(f, Inverted(f)) = Identity
BY DEF Affine, Compose, Inverted, Identity

LEMMA IdentityLeft ==
    ASSUME NEW f \in Affine
    PROVE  Compose(Identity, f) = f
BY DEF Affine, Compose, Identity

LEMMA InvertedCompose ==
    ASSUME NEW f \in Affine, NEW g \in Affine
    PROVE  Inverted(Compose(Inverted(f), g)) = Compose(Inverted(g), f)
BY DEF Affine, Compose, Inverted

(* Passing through an intermediate device cancels its clock. *)
LEMMA Telescope ==
    ASSUME NEW f \in Affine, NEW g \in Affine, NEW h \in Affine
    PROVE  Compose(Compose(Inverted(f), g), Compose(Inverted(g), h))
             = Compose(Inverted(f), h)
<1>1. Inverted(f) \in Affine /\ Inverted(g) \in Affine
  BY InvertedType
<1>2. Compose(Compose(Inverted(f), g), Compose(Inverted(g), h))
        = Compose(Inverted(f), Compose(g, Compose(Inverted(g), h)))
  BY <1>1, ComposeAssoc, ComposeType
<1>3. Compose(g, Compose(Inverted(g), h)) = Compose(Compose(g, Inverted(g)), h)
  BY <1>1, ComposeAssoc
<1> QED
  BY <1>2, <1>3, ComposeInverted, IdentityLeft

LEMMA LinkOfTruth ==
    ASSUME fit \in [Pair -> Fits], NEW truth \in [Device -> Affine], AgreesWith(truth),
           NEW u \in Device, NEW v \in Device, Adjacent(u, v)
    PROVE  Link(u, v) = Compose(Inverted(truth[u]), truth[v])
<1>1. CASE u < v
  <2>1. IsEdge(<<u, v>>)
    BY <1>1, DeviceAssumption DEF Adjacent, IsEdge, Pair
  <2> QED
    BY <1>1, <2>1 DEF AgreesWith, Link, FitOf, IsEdge
<1>2. CASE ~(u < v)
  <2>1. IsEdge(<<v, u>>)
    BY <1>2, DeviceAssumption DEF Adjacent, IsEdge, Pair
  <2>2. fit[<<v, u>>].map = Compose(Inverted(truth[v]), truth[u])
    BY <2>1 DEF AgreesWith, IsEdge
  <2> QED
    BY <1>2, <2>2, InvertedCompose DEF Link, FitOf
<1> QED
  BY <1>1, <1>2

LEMMA SettleRecovers ==
    ASSUME SearchInv, RecoversTruth, Settle
    PROVE  RecoversTruth'
<1> SUFFICES ASSUME NEW truth \in Truths, AgreesWith(truth), NEW d \in Known'
             PROVE  transform'[d] = Compose(Inverted(truth[Ref]), truth[d])
  BY DEF RecoversTruth, AgreesWith, IsEdge, Settle, inputs
<1>1. PICK e \in pq : /\ IsTop(e) /\ e[2] \notin visited /\ Relax(e[2], e[1])
  BY DEF Settle
<1> DEFINE u == e[2]
           c == e[1]
           S == Improved(u, c)
<1>2. u \in Device /\ c \in Nat /\ e = <<c, u>>
  BY <1>1 DEF SearchInv, TypeOK
<1>3. Labelled(u, c, S)
  BY <1>1, <1>2, SettleEffect
<1> HIDE DEF S
<1>4. truth \in [Device -> Affine]
  BY TruthAssumption
<1>5. CASE d \in S
  <2>1. transform[u] = Compose(Inverted(truth[Ref]), truth[u])
    BY <1>3 DEF RecoversTruth, Labelled
  <2>2. d \in Device /\ Adjacent(u, d)
    BY <1>3, <1>5 DEF Labelled
  <2>3. Link(u, d) = Compose(Inverted(truth[u]), truth[d])
    BY <1>2, <1>4, <2>2, LinkOfTruth DEF SearchInv, TypeOK
  <2>4. transform'[d] = Compose(transform[u], Link(u, d))
    BY <1>3, <1>5 DEF Labelled
  <2> QED
    BY <1>2, <1>4, <2>1, <2>2, <2>3, <2>4, Telescope, DeviceAssumption
<1>6. CASE d \notin S
  BY <1>3, <1>6 DEF Labelled, RecoversTruth
<1> QED
  BY <1>5, <1>6

(* Whatever the shape of the graph and the order in which devices are      *)
(* settled, a labelled device gets its true clock relative to the          *)
(* reference as soon as the pairwise fits are those of true clocks.        *)
THEOREM TruthRecovered == Spec => []RecoversTruth
<1>1. Init => RecoversTruth
  <2> SUFFICES ASSUME Init, NEW truth \in Truths
               PROVE  Identity = Compose(Inverted(truth[Ref]), truth[Ref])
    BY DEF Init, RecoversTruth, Known
  <2>1. truth[Ref] \in Affine
    BY TruthAssumption, DeviceAssumption
  <2> QED
    BY <2>1 DEF Compose, Inverted, Identity, Affine
<1>2. SearchInv /\ RecoversTruth /\ [Next]_vars => RecoversTruth'
  <2> SUFFICES ASSUME SearchInv, RecoversTruth, [Next]_vars PROVE RecoversTruth'
    OBVIOUS
  <2>1. CASE Settle
    BY <2>1, SettleRecovers
  <2>2. CASE ~Settle
    <3>1. fit' = fit /\ transform' = transform /\ Known' = Known
      BY <2>2 DEF Next, PopStale, HeapEmpty, BuildModels, BuildPaths,
                  vars, inputs, labels, Known
    <3> QED
      BY <3>1 DEF RecoversTruth, AgreesWith, IsEdge
  <2> QED
    BY <2>1, <2>2
<1> QED
  BY <1>1, <1>2, SearchCorrect, PTL DEF Spec

-----------------------------------------------------------------------------
(* No step takes back what a settled device has been given. *)
THEOREM LabelsOnlyImprove == Spec => LabelsImprove
<1> DEFINE Kept(d) == \/ /\ dist'[d] = dist[d] /\ transform'[d] = transform[d]
                         /\ conf'[d] = conf[d] /\ hops'[d] = hops[d]
                      \/ d \notin visited /\ dist'[d] < dist[d]
<1>1. SearchInv /\ [Next]_vars => [\A d \in Known : Kept(d)]_vars
  <2> SUFFICES ASSUME SearchInv, Next, NEW d \in Known PROVE Kept(d)
    OBVIOUS
  <2>1. CASE Settle
    <3>1. PICK e \in pq : /\ IsTop(e) /\ e[2] \notin visited /\ Relax(e[2], e[1])
      BY <2>1 DEF Settle
    <3> DEFINE u == e[2]
               c == e[1]
               S == Improved(u, c)
    <3>2. u \in Device /\ c \in Nat /\ e = <<c, u>>
      BY <3>1 DEF SearchInv, TypeOK
    <3>3. Labelled(u, c, S)
      BY <3>1, <3>2, SettleEffect
    <3>4. d \in S => d \notin visited /\ c + Cost(u, d) < dist[d]
      BY DEF Improved, Known
    <3> HIDE DEF S
    <3> QED
      BY <3>3, <3>4 DEF Labelled
  <2>2. CASE ~Settle
    BY <2>2 DEF Next, PopStale, HeapEmpty, BuildModels, BuildPaths, labels
  <2> QED
    BY <2>1, <2>2
<1> QED
  BY <1>1, SearchCorrect, PTL DEF Spec, LabelsImprove

-----------------------------------------------------------------------------
(* The models report the graph as the search left it. *)
ModelsBuilt ==
    pc \in {"paths", "done"} =>
        /\ reachable = Known
        /\ unreachable = Device \ reachable
        /\ models = [d \in Device |-> ModelOf(d)]

(* Labels spread along edges only. *)
OnlyConnected == Known \subseteq Connected

LEMMA OnlyConnectedStep == SearchInv /\ OnlyConnected /\ [Next]_vars => OnlyConnected'
<1> SUFFICES ASSUME SearchInv, OnlyConnected, [Next]_vars PROVE OnlyConnected'
  OBVIOUS
<1>1. fit' = fit
  BY DEF Next, PopStale, Settle, HeapEmpty, BuildModels, BuildPaths, inputs, vars
<1>2. \A S : Closed(S)' <=> Closed(S)
  BY <1>1, EdgesUnchanged DEF Closed
<1>3. Connected' = Connected
  BY <1>2 DEF Connected
<1>4. CASE Settle
  <2>1. PICK e \in pq : /\ IsTop(e) /\ e[2] \notin visited /\ Relax(e[2], e[1])
    BY <1>4 DEF Settle
  <2> DEFINE u == e[2]
             c == e[1]
             S == Improved(u, c)
  <2>2. u \in Device /\ c \in Nat /\ e = <<c, u>>
    BY <2>1 DEF SearchInv, TypeOK
  <2>3. Labelled(u, c, S)
    BY <2>1, <2>2, SettleEffect
  <2>4. ASSUME NEW v \in S PROVE v \in Connected
    <3>1. u \in Connected /\ v \in Device /\ Adjacent(u, v)
      BY <2>3, <2>4 DEF Labelled, OnlyConnected
    <3> HIDE DEF S, u
    <3> QED
      BY <3>1 DEF Connected, Closed
  <2> HIDE DEF S
  <2> QED
    BY <1>3, <2>3, <2>4 DEF Labelled, OnlyConnected
<1>5. CASE ~Settle
  <2>1. Known' = Known
    BY <1>5 DEF Next, PopStale, HeapEmpty, BuildModels, BuildPaths, labels, vars, Known
  <2> QED
    BY <1>3, <2>1 DEF OnlyConnected
<1> QED
  BY <1>4, <1>5

LEMMA ModelsBuiltStep == SearchInv /\ ModelsBuilt /\ [Next]_vars => ModelsBuilt'
<1> SUFFICES ASSUME SearchInv, ModelsBuilt, [Next]_vars PROVE ModelsBuilt'
  OBVIOUS
<1>1. CASE BuildModels
  <2>1. DOMAIN transform = Known /\ Known' = Known /\ Ref \in Known /\ Known \subseteq Device
    BY <1>1 DEF SearchInv, TypeOK, BuildModels, labels, Known
  <2>2. \A d : ModelOf(d)' = ModelOf(d)
    BY <1>1 DEF BuildModels, labels, ModelOf
  <2> QED
    BY <1>1, <2>1, <2>2 DEF BuildModels, ModelsBuilt
<1>2. CASE BuildPaths \/ UNCHANGED vars
  <2>1. \A d : ModelOf(d)' = ModelOf(d)
    BY <1>2 DEF BuildPaths, labels, ModelOf, vars
  <2> QED
    BY <1>2, <2>1 DEF BuildPaths, ModelsBuilt, labels, outputs, vars, Known
<1>3. CASE PopStale \/ Settle \/ HeapEmpty
  BY <1>3 DEF PopStale, Settle, HeapEmpty, ModelsBuilt
<1> QED
  BY <1>1, <1>2, <1>3 DEF Next

LEMMA GraphInit == Init => ModelsBuilt /\ OnlyConnected
BY DeviceAssumption DEF Init, ModelsBuilt, OnlyConnected, Known, Connected, Closed, Device

LEMMA PartitionHolds == SearchInv /\ ModelsBuilt /\ OnlyConnected => Partition
<1> SUFFICES ASSUME SearchInv, ModelsBuilt, OnlyConnected, pc \in {"paths", "done"}
             PROVE  Partition
  BY DEF Partition
<1>1. /\ reachable = Known /\ unreachable = Device \ Known
      /\ DOMAIN transform = Known /\ Ref \in Known /\ Known \subseteq Device
  BY DEF ModelsBuilt, SearchInv, TypeOK
<1>2. reachable = Connected
  <2>1. Closed(Known)
    BY <1>1, FixedPointHolds DEF FixedPoint, Closed
  <2> QED
    BY <1>1, <2>1 DEF Connected, OnlyConnected
<1>3. \A d \in unreachable : models[d] = Model(Identity, 0, NoConf)
  BY <1>1 DEF ModelsBuilt, ModelOf
<1>4. \A d \in reachable : models[d].conf # NoConf
  <2> SUFFICES ASSUME NEW d \in reachable PROVE ModelOf(d).conf # NoConf
    BY <1>1 DEF ModelsBuilt
  <2>1. conf[d] \in Nat /\ d \in DOMAIN transform
    BY <1>1 DEF SearchInv, TypeOK
  <2>2. CASE d = Ref
    BY <2>2 DEF ModelOf, Model, NoConf
  <2>3. CASE d # Ref
    <3>1. ModelOf(d) = Model(transform[d], dist[d], conf[d])
      BY <2>1, <2>3 DEF ModelOf
    <3> QED
      BY <2>1, <3>1 DEF Model, NoConf
  <2> QED
    BY <2>2, <2>3
<1> QED
  BY <1>1, <1>2, <1>3, <1>4 DEF Partition

(* The reachable devices are those the graph connects to the reference,    *)
(* and no clock is claimed for the others.                                 *)
THEOREM PartitionCorrect == Spec => []Partition
BY GraphInit, ModelsBuiltStep, OnlyConnectedStep, PartitionHolds, SearchCorrect, PTL DEF Spec

-----------------------------------------------------------------------------
(* The reported paths.  Climbing from a device to its parent lowers `hops` *)
(* by one, so that it ends at the reference without meeting a device       *)
(* twice, within the bound N of `Chain`.                                   *)

LEMMA ChainIs ==
    /\ DOMAIN Chain = 0..N
    /\ \A k \in 0..N, d \in Device :
         Chain[k][d] = IF k = 0 \/ d \notin DOMAIN parent THEN <<d>>
                       ELSE Append(Chain[k - 1][parent[d]], d)
<1> DEFINE row(g, k) == [d \in Device |-> IF k = 0 \/ d \notin DOMAIN parent THEN <<d>>
                                          ELSE Append(g[k - 1][parent[d]], d)]
           R(g) == g = [k \in 0..N |-> row(g, k)]
           Good == {n \in Nat : \E g : \A k \in 0..n : g[k] = row(g, k)}
<1>1. 0 \in Good
  <2> DEFINE g == [k \in {0} |-> [d \in Device |-> <<d>>]]
  <2>1. \A k \in 0..0 : g[k] = row(g, k)
    OBVIOUS
  <2> HIDE DEF g, row
  <2> QED
    BY <2>1
<1>2. ASSUME NEW n \in Nat, n \in Good PROVE n + 1 \in Good
  <2>1. PICK g : \A k \in 0..n : g[k] = row(g, k)
    BY <1>2
  <2> DEFINE h == [k \in 0..n + 1 |-> IF k <= n THEN g[k] ELSE row(g, k)]
  <2>2. ASSUME NEW k \in 0..n + 1 PROVE h[k] = row(h, k)
    <3>1. h[k] = row(g, k)
      <4> HIDE DEF row
      <4> QED
        BY <2>1
    <3>2. k # 0 => h[k - 1] = g[k - 1]
      <4> HIDE DEF row
      <4> QED
        OBVIOUS
    <3> HIDE DEF h
    <3> QED
      BY <3>1, <3>2
  <2> HIDE DEF h, row
  <2> QED
    BY <2>2
<1>3. N \in Good
  <2> HIDE DEF Good
  <2> QED
    BY <1>1, <1>2, DeviceAssumption, Induct
<1>4. PICK g : \A k \in 0..N : g[k] = row(g, k)
  BY <1>3
<1> DEFINE h == [k \in 0..N |-> g[k]]
<1>5. \A k \in 0..N : h[k] = row(h, k)
  <2> TAKE k \in 0..N
  <2>1. h[k] = row(g, k) /\ (k # 0 => h[k - 1] = g[k - 1])
    <3> HIDE DEF row
    <3> QED
      BY <1>4, DeviceAssumption
  <2> HIDE DEF h
  <2> QED
    BY <2>1
<1>6. R(h)
  <2> HIDE DEF row
  <2>1. h = [k \in 0..N |-> h[k]]
    OBVIOUS
  <2> HIDE DEF h
  <2> QED
    BY <1>5, <2>1
<1> HIDE DEF h
<1>7. Chain = CHOOSE g_ : R(g_)
  BY DEF Chain
<1>8. R(Chain)
  BY <1>6, <1>7
<1>9. DOMAIN Chain = 0..N /\ \A k \in 0..N : Chain[k] = row(Chain, k)
  <2> HIDE DEF row
  <2> QED
    BY <1>8
<1>10. ASSUME NEW k \in 0..N, NEW d \in Device
       PROVE  Chain[k][d] = IF k = 0 \/ d \notin DOMAIN parent THEN <<d>>
                            ELSE Append(Chain[k - 1][parent[d]], d)
  BY <1>9
<1> QED
  BY <1>9, <1>10

(* The walk from the reference to a device along the tree of parents.      *)
Walk(q, d) ==
    /\ q \in [1..hops[d] + 1 -> Known]
    /\ q[1] = Ref /\ q[hops[d] + 1] = d
    /\ \A i \in 1..hops[d] : HangsFrom(q[i + 1], q[i])
    /\ \A i \in 1..hops[d] + 1 : hops[q[i]] = i - 1

LEMMA WalkExists ==
    ASSUME SearchInv, NEW d \in Known
    PROVE  \E q : Walk(q, d) /\ \A k \in hops[d]..N : Chain[k][d] = q
<1> USE DEF SearchInv, TypeOK
<1> DEFINE found(e) == \E q : Walk(q, e) /\ \A k \in hops[e]..N : Chain[k][e] = q
           Good == {n \in Nat : \A e \in Known : hops[e] = n => found(e)}
<1>1. \A e \in Known : hops[e] \in Nat /\ e \in Device
  OBVIOUS
<1>2. 0 \in Good
  <2>1. ASSUME NEW e \in Known, hops[e] = 0 PROVE found(e)
    <3>1. e = Ref
      <4> SUFFICES ASSUME e # Ref PROVE FALSE
        OBVIOUS
      <4>1. HangsFrom(e, parent[e]) /\ parent[e] \in Known
        BY DEF TreeConsistent, HangsFrom
      <4> QED
        BY <1>1, <2>1, <4>1 DEF HangsFrom
    <3>2. Walk(<<e>>, e)
      BY <2>1, <3>1 DEF Walk
    <3>3. \A k \in 0..N : Chain[k][e] = <<e>>
      BY <3>1, ChainIs, DeviceAssumption
    <3> QED
      BY <2>1, <3>2, <3>3
  <2> HIDE DEF found
  <2> QED
    BY <2>1
<1>3. ASSUME NEW n \in Nat, n \in Good PROVE n + 1 \in Good
  <2>1. ASSUME NEW e \in Known, hops[e] = n + 1 PROVE found(e)
    <3> DEFINE u == parent[e]
    <3>1. e # Ref
      BY <2>1 DEF TreeConsistent
    <3>2. HangsFrom(e, u) /\ u \in Known /\ e \in DOMAIN parent
      BY <3>1 DEF TreeConsistent, HangsFrom
    <3>3. hops[u] = n
      BY <1>1, <2>1, <3>2 DEF HangsFrom
    <3> HIDE DEF u
    <3>4. PICK q : Walk(q, u) /\ \A k \in hops[u]..N : Chain[k][u] = q
      BY <1>3, <3>2, <3>3
    <3> DEFINE p == Append(q, e)
    <3>5. q \in Seq(Known) /\ Len(q) = n + 1 /\ q \in [1..n + 1 -> Known]
      BY <3>3, <3>4 DEF Walk
    <3>6. /\ p \in [1..n + 2 -> Known] /\ p[n + 2] = e
          /\ \A i \in 1..n + 1 : p[i] = q[i]
      <4>1. p \in Seq(Known) /\ Len(p) = n + 2 /\ p[n + 2] = e
        BY <2>1, <3>5
      <4>2. \A i \in 1..n + 1 : p[i] = q[i]
        BY <3>5
      <4> HIDE DEF p
      <4>3. p \in [1..n + 2 -> Known]
        BY <4>1
      <4> QED
        BY <4>1, <4>2, <4>3
    <3> HIDE DEF p
    <3>7. Walk(p, e)
      <4>1. p[1] = Ref
        BY <3>3, <3>4, <3>6 DEF Walk
      <4>2. \A i \in 1..n + 1 : HangsFrom(p[i + 1], p[i])
        <5> TAKE i \in 1..n + 1
        <5>1. CASE i = n + 1
          <6>1. q[n + 1] = u
            BY <3>3, <3>4 DEF Walk
          <6> QED
            BY <3>2, <3>6, <5>1, <6>1
        <5>2. CASE i \in 1..n
          <6>1. HangsFrom(q[i + 1], q[i])
            BY <3>3, <3>4, <5>2 DEF Walk
          <6> QED
            BY <3>6, <5>2, <6>1
        <5> QED
          BY <5>1, <5>2
      <4>3. \A i \in 1..n + 2 : hops[p[i]] = i - 1
        <5> TAKE i \in 1..n + 2
        <5>1. CASE i = n + 2
          BY <2>1, <3>6, <5>1
        <5>2. CASE i \in 1..n + 1
          BY <3>3, <3>4, <3>6, <5>2 DEF Walk
        <5> QED
          BY <5>1, <5>2
      <4>4. n + 1 + 1 = n + 2
        OBVIOUS
      <4> QED
        BY <2>1, <3>6, <4>1, <4>2, <4>3, <4>4 DEF Walk
    <3>8. ASSUME NEW k \in n + 1..N PROVE Chain[k][e] = p
      <4>1. k \in 0..N /\ k # 0 /\ k - 1 \in n..N /\ e \in Device
        BY <1>1, DeviceAssumption
      <4>2. Chain[k][e] = Append(Chain[k - 1][u], e)
        BY <3>2, <4>1, ChainIs DEF u
      <4> QED
        BY <3>3, <3>4, <4>1, <4>2 DEF p
    <3> QED
      BY <2>1, <3>7, <3>8
  <2> HIDE DEF found
  <2> QED
    BY <2>1
<1>4. hops[d] \in Good
  <2> HIDE DEF Good
  <2> QED
    BY <1>1, <1>2, <1>3, Induct
<1> QED
  BY <1>4

(* Its devices are distinct, so that it has at most N of them.             *)
LEMMA WalkFits ==
    ASSUME SearchInv, NEW d \in Known, NEW q, Walk(q, d)
    PROVE  hops[d] + 1 \in 1..N /\ IsInjective(q)
<1> DEFINE n == hops[d] + 1
<1>1. n \in Nat /\ n # 0 /\ Known \subseteq Device
  BY DEF SearchInv, TypeOK
<1>2. q \in [1..n -> Device] /\ \A i \in 1..n : hops[q[i]] = i - 1
  BY <1>1 DEF Walk
<1> HIDE DEF n
<1>3. \A i, j \in 1..n : q[i] = q[j] => i = j
  <2> SUFFICES ASSUME NEW i \in 1..n, NEW j \in 1..n, q[i] = q[j] PROVE i = j
    OBVIOUS
  <2>1. hops[q[i]] = i - 1 /\ hops[q[j]] = j - 1
    BY <1>2
  <2> QED
    BY <2>1
<1>4. IsInjective(q)
  BY <1>2, <1>3 DEF IsInjective
<1>5. IsFiniteSet(1..N) /\ Cardinality(1..N) = N /\ IsFiniteSet(1..n) /\ Cardinality(1..n) = n
  BY <1>1, DeviceAssumption, UpTo
<1>6. n <= N
  <2>1. q \in Injection(1..n, Device)
    BY <1>2, <1>4 DEF Injection
  <2> QED
    BY <1>5, <2>1, FS_Injection
<1> QED
  BY <1>1, <1>4, <1>6, DeviceAssumption DEF n

(* The edges of a walk account for the labels of the device it ends at.    *)
LEMMA AlongWalk ==
    ASSUME SearchInv, NEW d \in Known, NEW q, Walk(q, d)
    PROVE  /\ Len(q) = hops[d] + 1 /\ IsPath(q)
           /\ Along(q, Cost) = dist[d] /\ Along(q, Loss) = conf[d]
<1> USE DEF SearchInv, TypeOK
<1> DEFINE n == hops[d]
           cost == [i \in 1..n |-> Cost(q[i], q[i + 1])]
           loss == [i \in 1..n |-> Loss(q[i], q[i + 1])]
<1>1. n \in Nat /\ Len(q) = n + 1 /\ Len(q) - 1 = n
  BY DEF Walk
<1>2. \A i \in 1..n + 1 : q[i] \in Known /\ q[i] \in Device /\ dist[q[i]] \in Nat /\ conf[q[i]] \in Nat
  BY DEF Walk
<1>3. \A i \in 1..n : /\ i + 1 \in 1..n + 1 /\ i \in 1..n + 1
                      /\ HangsFrom(q[i + 1], q[i])
  BY <1>1 DEF Walk
<1>4. \A i \in 1..n : /\ q[i] # q[i + 1] /\ Adjacent(q[i], q[i + 1])
                      /\ dist[q[i + 1]] = dist[q[i]] + cost[i]
                      /\ conf[q[i + 1]] = conf[q[i]] + loss[i]
  BY <1>3 DEF HangsFrom
<1>5. \A i \in 1..n : Cost(q[i], q[i + 1]) \in Nat /\ Loss(q[i], q[i + 1]) \in Nat
  BY <1>2, <1>3, <1>4, LossType
<1>6. Along(q, Cost) = Added(cost) /\ Along(q, Loss) = Added(loss)
  BY <1>1 DEF Along, Added
<1>7. /\ DOMAIN cost = 1..n /\ DOMAIN loss = 1..n
      /\ \A i \in 1..n : cost[i] \in Int
      /\ \A i \in 1..n : loss[i] \in Int
  BY <1>5
<1> HIDE DEF cost, loss, n
<1>8. q[1] = Ref /\ q[n + 1] = d /\ dist[Ref] = 0 /\ conf[Ref] = 0
  BY DEF Walk, n, TreeConsistent
<1>9. Added(cost) = dist[d]
  <2> DEFINE v == [i \in 1..n + 1 |-> dist[q[i]]]
  <2>1. /\ \A i \in 1..n + 1 : v[i] \in Int
        /\ \A i \in 1..n : v[i + 1] = v[i] + cost[i]
        /\ v[1] = 0 /\ v[n + 1] = dist[d]
    BY <1>1, <1>2, <1>3, <1>4, <1>8
  <2> HIDE DEF v
  <2>2. Increments(v, cost, n)
    BY <1>1, <1>7, <2>1 DEF Increments
  <2>3. Added(cost) = v[n + 1] - v[1]
    BY <2>2, SumTelescopes
  <2>4. v[n + 1] \in Int
    BY <1>1, <2>1
  <2> QED
    BY <2>1, <2>3, <2>4
<1>10. Added(loss) = conf[d]
  <2> DEFINE v == [i \in 1..n + 1 |-> conf[q[i]]]
  <2>1. /\ \A i \in 1..n + 1 : v[i] \in Int
        /\ \A i \in 1..n : v[i + 1] = v[i] + loss[i]
        /\ v[1] = 0 /\ v[n + 1] = conf[d]
    BY <1>1, <1>2, <1>3, <1>4, <1>8
  <2> HIDE DEF v
  <2>2. Increments(v, loss, n)
    BY <1>1, <1>7, <2>1 DEF Increments
  <2>3. Added(loss) = v[n + 1] - v[1]
    BY <2>2, SumTelescopes
  <2>4. v[n + 1] \in Int
    BY <1>1, <2>1
  <2> QED
    BY <2>1, <2>3, <2>4
<1>11. Len(q) = hops[d] + 1 /\ IsPath(q)
  BY <1>1, <1>4 DEF n, IsPath
<1> QED
  BY <1>6, <1>9, <1>10, <1>11

(* What the search was when it is over: the models are built and a path is *)
(* drawn to every reachable device.                                        *)
PathsDrawn == pc = "done" => paths = [d \in reachable |-> Chain[N][d]]

LEMMA PathsDrawnStep == SearchInv /\ PathsDrawn /\ [Next]_vars => PathsDrawn'
<1> SUFFICES ASSUME SearchInv, PathsDrawn, [Next]_vars, (pc = "done")'
             PROVE  paths' = [d \in reachable' |-> Chain'[N][d]]
  BY DEF PathsDrawn
<1>1. CASE BuildPaths
  <2>1. Chain' = Chain
    BY <1>1 DEF BuildPaths, labels, Chain
  <2> QED
    BY <1>1, <2>1 DEF BuildPaths
<1>2. CASE UNCHANGED vars
  <2>1. Chain' = Chain
    BY <1>2 DEF vars, labels, Chain
  <2> QED
    BY <1>2, <2>1 DEF vars, outputs, PathsDrawn
<1>3. CASE PopStale \/ Settle \/ HeapEmpty \/ BuildModels
  BY <1>3 DEF PopStale, Settle, HeapEmpty, BuildModels
<1> QED
  BY <1>1, <1>2, <1>3 DEF Next

LEMMA PathsRealisedHolds == SearchInv /\ ModelsBuilt /\ PathsDrawn => PathsRealised
<1> SUFFICES ASSUME SearchInv, ModelsBuilt, PathsDrawn, pc = "done" PROVE PathsRealised
  BY DEF PathsRealised
<1>1. /\ reachable = Known /\ models = [d \in Device |-> ModelOf(d)]
      /\ paths = [d \in reachable |-> Chain[N][d]]
      /\ Known \subseteq Device /\ DOMAIN transform = Known
  BY DEF ModelsBuilt, PathsDrawn, SearchInv, TypeOK
<1> SUFFICES ASSUME NEW d \in Known
             PROVE  LET p == paths[d] IN
                    /\ p \in SimplePaths /\ End(p) = d /\ IsPath(p)
                    /\ Len(p) = hops[d] + 1
                    /\ models[d].cost = Along(p, Cost)
                    /\ models[d].conf = Along(p, Loss)
  BY <1>1 DEF PathsRealised
<1>2. PICK q : Walk(q, d) /\ \A k \in hops[d]..N : Chain[k][d] = q
  BY WalkExists
<1>3. hops[d] + 1 \in 1..N /\ IsInjective(q) /\ hops[d] \in Nat
  BY <1>2, WalkFits DEF SearchInv, TypeOK
<1>4. paths[d] = q
  BY <1>1, <1>2, <1>3, DeviceAssumption
<1>5. Len(q) = hops[d] + 1 /\ IsPath(q) /\ Along(q, Cost) = dist[d] /\ Along(q, Loss) = conf[d]
  BY <1>2, AlongWalk
<1>6. q \in SimplePaths
  <2>1. q \in [1..hops[d] + 1 -> Device] /\ q[1] = Ref
    BY <1>1, <1>2 DEF Walk
  <2>2. q \in UNION {[1..k -> Device] : k \in 1..N}
    BY <1>3, <2>1
  <2> QED
    BY <1>3, <2>1, <2>2 DEF SimplePaths
<1>7. End(q) = d
  BY <1>2, <1>5 DEF End, Walk
<1>8. models[d].cost = dist[d] /\ models[d].conf = conf[d]
  BY <1>1 DEF ModelOf, Model, SearchInv, TreeConsistent
<1> QED
  BY <1>4, <1>5, <1>6, <1>7, <1>8

(* Where no edge is clamped, costs are losses, in the graph and in the     *)
(* labels.                                                                 *)
Unclamped == \A p \in Pair : IsEdge(p) => Loss(p[1], p[2]) <= Clamp

LEMMA CostIsLoss ==
    ASSUME Unclamped, NEW u \in Device, NEW v \in Device, Adjacent(u, v)
    PROVE  Cost(u, v) = Loss(u, v)
<1>1. u # v /\ u \in Int /\ v \in Int
  BY AdjacentDistinct, DeviceAssumption
<1>2. CASE u < v
  <2>1. <<u, v>> \in Pair /\ IsEdge(<<u, v>>)
    BY <1>1, <1>2 DEF Adjacent, IsEdge, Pair
  <2> QED
    BY <2>1 DEF Unclamped, Cost
<1>3. CASE v < u
  <2>1. <<v, u>> \in Pair /\ IsEdge(<<v, u>>)
    BY <1>1, <1>3 DEF Adjacent, IsEdge, Pair
  <2>2. Loss(v, u) <= Clamp
    BY <2>1 DEF Unclamped
  <2>3. FitOf(u, v) = FitOf(v, u)
    BY <1>1, <1>3 DEF FitOf
  <2> QED
    BY <2>2, <2>3 DEF Cost, Loss, Residual
<1> QED
  BY <1>1, <1>2, <1>3

LEMMA DistIsConf ==
    ASSUME SearchInv, Unclamped, NEW d \in Known
    PROVE  conf[d] = dist[d]
<1> USE DEF SearchInv, TypeOK
<1> DEFINE Good == {n \in Nat : \A e \in Known : hops[e] = n => conf[e] = dist[e]}
<1>1. \A e \in Known : hops[e] \in Nat /\ e \in Device
  OBVIOUS
<1>2. \A e \in Known \ {Ref} :
        /\ parent[e] \in Known /\ hops[e] = hops[parent[e]] + 1
        /\ conf[parent[e]] = dist[parent[e]] => conf[e] = dist[e]
  <2> TAKE e \in Known \ {Ref}
  <2>1. HangsFrom(e, parent[e]) /\ parent[e] \in Known
    BY DEF TreeConsistent, HangsFrom
  <2>2. Cost(parent[e], e) = Loss(parent[e], e)
    BY <1>1, <2>1, CostIsLoss DEF HangsFrom
  <2> QED
    BY <2>1, <2>2 DEF HangsFrom
<1>3. 0 \in Good
  BY <1>1, <1>2 DEF TreeConsistent
<1>4. ASSUME NEW n \in Nat, n \in Good PROVE n + 1 \in Good
  <2>1. ASSUME NEW e \in Known, hops[e] = n + 1 PROVE conf[e] = dist[e]
    <3>1. e # Ref
      BY <2>1 DEF TreeConsistent
    <3>2. hops[parent[e]] = n
      BY <1>1, <1>2, <2>1, <3>1
    <3> QED
      BY <1>2, <1>4, <3>1, <3>2
  <2> QED
    BY <2>1
<1>5. hops[d] \in Good
  <2> HIDE DEF Good
  <2> QED
    BY <1>1, <1>3, <1>4, Induct
<1> QED
  BY <1>5

(* Along any path that starts at the reference, the labels are no dearer   *)
(* than the edges taken so far: one step of relaxation per edge.           *)
LEMMA NoneCheaper ==
    ASSUME SearchInv, pc # "search", Unclamped, NEW p \in SimplePaths, IsPath(p)
    PROVE  End(p) \in Known /\ dist[End(p)] <= Along(p, Loss)
<1>1. PICK k \in 1..N : p \in [1..k -> Device]
  BY DEF SimplePaths
<1> DEFINE m == k - 1
           loss == [i \in 1..m |-> Loss(p[i], p[i + 1])]
<1>2. /\ m \in Nat /\ Len(p) = m + 1 /\ Len(p) - 1 = m /\ p[1] = Ref
      /\ \A i \in 1..m + 1 : p[i] \in Device
  BY <1>1, DeviceAssumption DEF SimplePaths
<1>3. Along(p, Loss) = Added(loss)
  BY <1>2 DEF Along, Added
<1> HIDE DEF m
<1>4. \A i \in 1..m : /\ p[i] \in Device /\ p[i + 1] \in Device
                      /\ Adjacent(p[i], p[i + 1])
  BY <1>2 DEF IsPath
<1>5. \A i \in 1..m : loss[i] \in Nat /\ Cost(p[i], p[i + 1]) = loss[i]
  <2> TAKE i \in 1..m
  <2>1. p[i] # p[i + 1]
    BY <1>4, AdjacentDistinct
  <2>2. Loss(p[i], p[i + 1]) \in Nat
    BY <1>4, <2>1, LossType DEF SearchInv, TypeOK
  <2> QED
    BY <1>4, <2>2, CostIsLoss
<1>6. DOMAIN loss = 1..m /\ \A i \in 1..m : loss[i] \in Int
  BY <1>5
<1> HIDE DEF loss
<1>7. PICK t \in [0..m -> Int] :
        /\ t[0] = 0
        /\ \A i \in 1..m : t[i] = t[i - 1] + loss[i]
        /\ Added(loss) = t[m]
  BY <1>2, <1>6, SumAlong
<1> DEFINE G == {i \in Nat : i <= m => p[i + 1] \in Known /\ dist[p[i + 1]] <= t[i]}
<1>8. 0 \in G
  BY <1>2, <1>7 DEF SearchInv, TypeOK, TreeConsistent
<1>9. ASSUME NEW i \in Nat, i \in G PROVE i + 1 \in G
  <2> SUFFICES ASSUME i + 1 <= m
               PROVE  p[i + 2] \in Known /\ dist[p[i + 2]] <= t[i + 1]
    OBVIOUS
  <2>1. i + 1 \in 1..m /\ i + 1 - 1 = i /\ i + 1 + 1 = i + 2 /\ i <= m /\ i \in 0..m
    BY <1>2
  <2>2. p[i + 1] \in Known /\ dist[p[i + 1]] <= t[i]
    BY <1>9, <2>1
  <2>3. p[i + 2] \in Device /\ Adjacent(p[i + 1], p[i + 2]) /\ Cost(p[i + 1], p[i + 2]) = loss[i + 1]
    BY <1>4, <1>5, <2>1
  <2>4. p[i + 2] \in Known /\ dist[p[i + 2]] <= dist[p[i + 1]] + loss[i + 1]
    BY <2>2, <2>3, FixedPointHolds DEF FixedPoint
  <2>5. t[i + 1] = t[i] + loss[i + 1]
    BY <1>7, <2>1
  <2>6. /\ dist[p[i + 1]] \in Int /\ dist[p[i + 2]] \in Int
        /\ t[i] \in Int /\ loss[i + 1] \in Int
    <3>1. dist[p[i + 1]] \in Int /\ dist[p[i + 2]] \in Int
      <4>1. \A e \in Known : dist[e] \in Int
        BY DEF SearchInv, TypeOK
      <4> QED
        BY <2>2, <2>4, <4>1
    <3>2. t[i] \in Int /\ loss[i + 1] \in Int
      BY <1>5, <2>1
    <3> QED
      BY <3>1, <3>2
  <2> QED
    BY <2>2, <2>4, <2>5, <2>6
<1>10. m \in G
  <2> HIDE DEF G
  <2> QED
    BY <1>2, <1>8, <1>9, Induct
<1> QED
  BY <1>2, <1>3, <1>7, <1>10 DEF End

LEMMA MostReliableHolds == SearchInv /\ ModelsBuilt => MostReliable
<1> SUFFICES ASSUME SearchInv, ModelsBuilt, pc = "done", Unclamped,
                    NEW p \in SimplePaths, IsPath(p)
             PROVE  models[End(p)].conf <= Along(p, Loss)
  BY DEF MostReliable, Unclamped
<1> DEFINE d == End(p)
<1>1. d \in Known /\ dist[d] <= Along(p, Loss)
  BY NoneCheaper
<1> HIDE DEF d
<1>2. conf[d] = dist[d]
  BY <1>1, DistIsConf
<1>3. models[d].conf = conf[d]
  BY <1>1 DEF ModelsBuilt, ModelOf, Model, SearchInv, TypeOK, TreeConsistent
<1> QED
  BY <1>1, <1>2, <1>3 DEF d

(* The path reported for a device is one of the graph, as long as `hops`   *)
(* says, adds up to the cost (the model's fit_residual_us) and to the      *)
(* confidence of its model, and no path to the device is more reliable.    *)
THEOREM PathsCorrect == Spec => []PathsInv
<1>1. Init => PathsDrawn
  BY DEF Init, PathsDrawn
<1>2. SearchInv /\ ModelsBuilt /\ PathsDrawn => PathsInv
  BY PathsRealisedHolds, MostReliableHolds DEF PathsInv
<1> QED
  BY <1>1, <1>2, GraphInit, ModelsBuiltStep, PathsDrawnStep, SearchCorrect, PTL DEF Spec
=============================================================================

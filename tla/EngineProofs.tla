---------------------------- MODULE EngineProofs ----------------------------
(***************************************************************************)
(* What the engine promises, for any number of devices and events, any     *)
(* clocks, errors, fits and streams.  The theorems of Reconcile carry over *)
(* to the search inside the engine.                                        *)
(***************************************************************************)
EXTENDS Engine, ArraysProofs

Theory == INSTANCE ReconcileProofs WITH
            Fits <- [shared : Nat, used : DOMAIN CountLoss, residual : Nat,
                     map : Affine(Int)],
            Truths <- {}

-----------------------------------------------------------------------------
(* The search of the engine is the one those theorems are about.           *)
LEMMA SameSearch ==
    /\ Search!Init => Theory!Init
    /\ Search!Next => Theory!Next
<1>1. Search!Init => Theory!Init
  BY DEF Search!Init, Theory!Init, Search!Device, Theory!Device, Search!Pair, Theory!Pair,
         Search!Identity, Theory!Identity
<1>2. Search!PopStale => Theory!PopStale
  BY DEF Search!PopStale, Theory!PopStale, Search!IsTop, Theory!IsTop,
         Search!HeapLeq, Theory!HeapLeq, Search!inputs, Theory!inputs,
         Search!labels, Theory!labels, Search!outputs, Theory!outputs
<1>3. Search!Settle => Theory!Settle
  BY DEF Search!Settle, Theory!Settle, Search!IsTop, Theory!IsTop,
         Search!HeapLeq, Theory!HeapLeq, Search!inputs, Theory!inputs,
         Search!outputs, Theory!outputs, Search!Relax, Theory!Relax,
         Search!Improved, Theory!Improved, Search!Updated, Theory!Updated,
         Search!Device, Theory!Device, Search!Adjacent, Theory!Adjacent,
         Search!IsEdge, Theory!IsEdge, Search!Pair, Theory!Pair,
         Search!FitOf, Theory!FitOf, Search!Link, Theory!Link,
         Search!Compose, Theory!Compose, Search!Inverted, Theory!Inverted,
         Search!Cost, Theory!Cost, Search!Loss, Theory!Loss,
         Search!Residual, Theory!Residual
<1>4. Search!HeapEmpty => Theory!HeapEmpty
  BY DEF Search!HeapEmpty, Theory!HeapEmpty, Search!inputs, Theory!inputs,
         Search!labels, Theory!labels, Search!outputs, Theory!outputs
<1>5. Search!BuildModels => Theory!BuildModels
  BY DEF Search!BuildModels, Theory!BuildModels, Search!ModelOf, Theory!ModelOf,
         Search!Model, Theory!Model, Search!Identity, Theory!Identity,
         Search!NoConf, Theory!NoConf, Search!Device, Theory!Device,
         Search!inputs, Theory!inputs, Search!labels, Theory!labels
<1>6. Search!BuildPaths => Theory!BuildPaths
  BY DEF Search!BuildPaths, Theory!BuildPaths, Search!Chain, Theory!Chain,
         Search!Device, Theory!Device, Search!inputs, Theory!inputs,
         Search!labels, Theory!labels
<1> QED
  BY <1>1, <1>2, <1>3, <1>4, <1>5, <1>6 DEF Search!Next, Theory!Next

(* What those theorems assume holds here. *)
LEMMA SearchAssumptions ==
    /\ N \in Nat \ {0} /\ Ref \in Theory!Device
    /\ MinEvents \in Nat /\ Clamp \in Nat /\ \A n \in DOMAIN CountLoss : CountLoss[n] \in Nat
    /\ \A f \in [shared : Nat, used : DOMAIN CountLoss, residual : Nat, map : Affine(Int)] :
         f \in Theory!Fit /\ f.used \in DOMAIN CountLoss
<1>1. ASSUME NEW f \in [shared : Nat, used : DOMAIN CountLoss, residual : Nat, map : Affine(Int)]
      PROVE  f \in Theory!Fit /\ f.used \in DOMAIN CountLoss
  BY LossAssumption DEF Theory!Fit, Theory!Affine, Affine
<1> QED
  BY <1>1, DeviceAssumption, LossAssumption DEF Theory!Device

LEMMA SearchInvStep ==
    ASSUME Theory!SearchInv, Theory!ModelsBuilt, Theory!OnlyConnected,
           Theory!Next \/ UNCHANGED search
    PROVE  Theory!SearchInv' /\ Theory!ModelsBuilt' /\ Theory!OnlyConnected'
<1>1. [Theory!Next]_Theory!vars
  BY DEF Theory!vars, Theory!inputs, Theory!labels, Theory!outputs, search
<1>2. Theory!SearchInv'
  BY <1>1, SearchAssumptions, Theory!SearchInvStep
<1>3. Theory!ModelsBuilt'
  BY <1>1, SearchAssumptions, Theory!ModelsBuiltStep
<1>4. Theory!OnlyConnected'
  BY <1>1, SearchAssumptions, Theory!OnlyConnectedStep
<1> QED
  BY <1>2, <1>3, <1>4

-----------------------------------------------------------------------------
(* The inductive invariant: the inputs are what they were, the search      *)
(* keeps its invariants, and each stage that is past has left what it      *)
(* makes of the ones before it.                                            *)
World ==
    /\ observers \in Observed /\ clocks \in Clocks /\ errors \in Errors
    /\ events = Events
    /\ delivery \in Deliveries /\ gates \in Gates
    /\ fit \in Fitted

Searched ==
    /\ Theory!SearchInv /\ Theory!ModelsBuilt /\ Theory!OnlyConnected
    /\ stage \in {"reconcile", "locate", "measure", "judge", "done"}
    /\ stage # "reconcile" => pc = "done"

PlacesOf(d) == {At(models[d].map, events[i][d]) : i \in {j \in DOMAIN events : d \in DOMAIN events[j]}}

Placed == stage \notin {"reconcile", "locate"} => located = [d \in Device |-> PlacesOf(d)]

(* What the residual says: a sum of squares is 0 if all of them are. *)
Agreeing == \A i \in Compared : Spread(events[i]) = 0

Computed ==
    /\ Measured =>
         /\ residual \in Nat \X Nat /\ (residual[1] = 0 <=> Agreeing)
         /\ residual[2] = Cardinality(Compared)
         /\ coverage = Lowest({Coverage(delivery[d]) : d \in Device})
         /\ dropout = Highest({Dropout(delivery[d]) : d \in Device})
         /\ roundtrip = RoundtripAccuracy
    /\ ~Measured => residual = <<0, 0>> /\ coverage = <<1, 1>> /\ dropout = <<0, 1>>

Judged == verdict = IF stage = "done" THEN GateVerdict(residual, coverage, dropout, gates)
                    ELSE "none"

IInv == World /\ Searched /\ Placed /\ Computed /\ Judged

-----------------------------------------------------------------------------
(* The types of what the stages compute with. *)
LEMMA WorldTyped ==
    ASSUME World
    PROVE  /\ Len(observers) \in Nat /\ DOMAIN events = 1..Len(observers)
           /\ 0..Len(observers) \subseteq DOMAIN CountLoss
           /\ Device = 1..N /\ IsFiniteSet(Device) /\ Ref \in Device
           /\ \A d \in Device : clocks[d] \in Affine(Int)
           /\ clocks[Ref] = [alpha |-> 1, beta |-> 0]
           /\ \A i \in 1..Len(observers) :
                /\ DOMAIN events[i] = observers[i] /\ observers[i] \subseteq Device
                /\ \A d \in observers[i] :
                     /\ errors[i][d] \in Int
                     /\ events[i][d] = At(Search!Inverted(clocks[d]), i) + errors[i][d]
                     /\ events[i][d] \in Int
<1>1. /\ observers \in Seq(SUBSET Device) /\ 0..Len(observers) \subseteq DOMAIN CountLoss
      /\ clocks \in [Device -> Affine(Int)] /\ clocks[Ref] = [alpha |-> 1, beta |-> 0]
      /\ \A i \in DOMAIN observers, d \in Device : errors[i][d] \in Int
  BY ObservedAssumption, ClockAssumption, ErrorAssumption DEF World, Search!Identity
<1>2. Device = 1..N /\ IsFiniteSet(Device) /\ Ref \in Device
  <2>1. Device = 1..N
    BY DEF Device, Search!Device
  <2> QED
    BY <2>1, DeviceAssumption, FS_Interval
<1>3. Len(observers) \in Nat /\ DOMAIN observers = 1..Len(observers)
      /\ \A i \in 1..Len(observers) : observers[i] \subseteq Device
  BY <1>1
<1>4. events = [i \in DOMAIN observers |->
                  [d \in observers[i] |-> At(Search!Inverted(clocks[d]), i) + errors[i][d]]]
  BY DEF World, Events
<1>5. ASSUME NEW i \in 1..Len(observers), NEW d \in observers[i]
      PROVE  /\ errors[i][d] \in Int
             /\ events[i][d] = At(Search!Inverted(clocks[d]), i) + errors[i][d]
             /\ events[i][d] \in Int
  <2>1. errors[i][d] \in Int /\ clocks[d] \in Affine(Int)
    BY <1>1, <1>3, <1>5
  <2>2. At(Search!Inverted(clocks[d]), i) \in Int
    BY <2>1 DEF At, Search!Inverted, Affine
  <2> QED
    BY <1>3, <1>4, <2>1, <2>2
<1> QED
  BY <1>1, <1>2, <1>3, <1>4, <1>5

LEMMA ModelsTyped ==
    ASSUME Searched, stage # "reconcile"
    PROVE  /\ DOMAIN models = Device
           /\ \A d \in Device : models[d].map \in Affine(Int)
           /\ models[Ref].map = [alpha |-> 1, beta |-> 0]
           /\ reachable \subseteq Device /\ Ref \in reachable
           /\ \A d \in Device : Usable(d) <=> d \in reachable
<1>1. /\ pc = "done" /\ Theory!SearchInv /\ Theory!ModelsBuilt /\ Theory!OnlyConnected
  BY DEF Searched
<1>2. Theory!Partition
  BY <1>1, SearchAssumptions, Theory!PartitionHolds
<1>3. /\ reachable = Theory!Known
      /\ unreachable = Theory!Device \ reachable
      /\ models = [d \in Theory!Device |-> Theory!ModelOf(d)]
  BY <1>1 DEF Theory!ModelsBuilt
<1>4. Device = Theory!Device
  BY DEF Device, Search!Device, Theory!Device
<1>5. Ref \in Theory!Known /\ Theory!Known \subseteq Theory!Device
      /\ transform \in [Theory!Known -> Affine(Int)]
  BY <1>1 DEF Theory!SearchInv, Theory!TypeOK, Theory!Affine, Affine
<1>6. ASSUME NEW d \in Device PROVE models[d].map \in Affine(Int)
  <2>1. models[d] = Theory!ModelOf(d)
    BY <1>3, <1>4
  <2>2. DOMAIN transform = Theory!Known
    BY <1>5
  <2> QED
    BY <1>5, <2>1, <2>2 DEF Theory!ModelOf, Theory!Model, Theory!Identity, Affine
<1>7. models[Ref].map = [alpha |-> 1, beta |-> 0]
  BY <1>3, <1>5 DEF Theory!ModelOf, Theory!Model, Theory!Identity
<1>8. ASSUME NEW d \in Device PROVE Usable(d) <=> d \in reachable
  <2>1. d \in reachable => models[d].conf # Theory!NoConf
    BY <1>1, <1>2 DEF Theory!Partition
  <2>2. d \notin reachable => models[d].conf = Theory!NoConf /\ d # Ref
    BY <1>1, <1>2, <1>3, <1>4, <1>5 DEF Theory!Partition, Theory!Model
  <2> QED
    BY <2>1, <2>2 DEF Usable, Search!NoConf, Theory!NoConf
<1> QED
  BY <1>3, <1>4, <1>5, <1>6, <1>7, <1>8

-----------------------------------------------------------------------------
(* Extremes of finite sets, and the spread of the places of an event.      *)
LEMMA Extremes ==
    ASSUME NEW S \in SUBSET Int, IsFiniteSet(S), S # {}
    PROVE  /\ Min(S) \in S /\ \A y \in S : Min(S) <= y
           /\ Max(S) \in S /\ \A y \in S : y <= Max(S)
<1>1. \E x \in S : \A y \in S : x <= y
  BY LeastOf
<1>2. \E x \in S : \A y \in S : x >= y
  <2> DEFINE f == [x \in S |-> -x]
  <2>1. f \in [S -> Int]
    OBVIOUS
  <2> HIDE DEF f
  <2>2. PICK x \in S : \A y \in S : f[x] <= f[y]
    BY <2>1, LeastValue
  <2>3. \A y \in S : -x <= -y
    BY <2>2 DEF f
  <2> QED
    BY <2>3
<1>3. Min(S) \in S /\ \A y \in S : Min(S) <= y
  BY <1>1 DEF Min
<1>4. Max(S) \in S /\ \A y \in S : Max(S) >= y
  BY <1>2 DEF Max
<1> QED
  BY <1>3, <1>4

Saw(i) == {d \in DOMAIN events[i] : Usable(d)}

LEMMA SpreadIs ==
    ASSUME World, Searched, stage # "reconcile", NEW i \in Compared
    PROVE  /\ Spread(events[i]) \in Nat
           /\ Spread(events[i]) = 0 <=>
                \A d, e \in Saw(i) :
                   At(models[d].map, events[i][d]) = At(models[e].map, events[i][e])
<1> DEFINE U == Saw(i)
           place(d) == At(models[d].map, events[i][d])
           S == Places(events[i])
<1>1. S = {place(d) : d \in U}
  BY DEF Places, Saw
<1>2. i \in 1..Len(observers) /\ U \subseteq Device /\ IsFiniteSet(U) /\ U # {}
  <2>1. i \in 1..Len(observers) /\ Cardinality(U) >= 2
    BY WorldTyped DEF Compared, Saw
  <2>2. U \subseteq Device
    BY <2>1, WorldTyped DEF Saw
  <2>3. IsFiniteSet(U)
    BY <2>2, WorldTyped, FS_Subset
  <2>4. U # {}
    <3> HIDE DEF U
    <3> QED
      BY <2>1, FS_EmptySet
  <2> QED
    BY <2>1, <2>2, <2>3, <2>4
<1>3. \A d \in U : place(d) \in Int
  <2> TAKE d \in U
  <2>1. d \in Device /\ d \in observers[i]
    BY <1>2, WorldTyped DEF Saw
  <2>2. models[d].map \in Affine(Int) /\ events[i][d] \in Int
    BY <1>2, <2>1, ModelsTyped, WorldTyped
  <2> QED
    BY <2>2 DEF At, Affine
<1> HIDE DEF U
<1>4. S \in SUBSET Int /\ S # {} /\ IsFiniteSet(S)
  <2> DEFINE f == [d \in U |-> place(d)]
  <2>1. f \in Surjection(U, S)
    BY <1>1 DEF Surjection
  <2>2. IsFiniteSet(S)
    <3> HIDE DEF f, S
    <3> QED
      BY <1>2, <2>1, FS_Surjection
  <2> QED
    BY <1>1, <1>2, <1>3, <2>2
<1> HIDE DEF S
<1>5. /\ Min(S) \in S /\ \A y \in S : Min(S) <= y
      /\ Max(S) \in S /\ \A y \in S : y <= Max(S)
  BY <1>4, Extremes
<1>6. Spread(events[i]) = Max(S) - Min(S) /\ Max(S) \in Int /\ Min(S) \in Int /\ Min(S) <= Max(S)
  BY <1>4, <1>5 DEF Spread, S
<1>7. Spread(events[i]) = 0 <=> \A x, y \in S : x = y
  <2>1. Spread(events[i]) = 0 => \A x \in S : x = Min(S)
    BY <1>4, <1>5, <1>6
  <2> QED
    BY <1>5, <1>6, <2>1
<1>8. (\A x, y \in S : x = y) <=> \A d, e \in U : place(d) = place(e)
  BY <1>1
<1> QED
  BY <1>6, <1>7, <1>8 DEF U

LEMMA ResidualIs ==
    ASSUME World, Searched, stage # "reconcile"
    PROVE  /\ ReconciliationResidual \in Nat \X Nat
           /\ ReconciliationResidual[2] = Cardinality(Compared)
           /\ ReconciliationResidual[1] = 0 <=> Agreeing
<1> DEFINE C == Compared
           f == [i \in C |-> Spread(events[i]) * Spread(events[i])]
           R(g) == g = [s \in SUBSET C |-> IF s = {} THEN 0
                     ELSE LET x == CHOOSE x \in s : TRUE
                          IN  Spread(events[x]) * Spread(events[x]) + g[s \ {x}]]
           total == MapThenSumSet(LAMBDA i : Spread(events[i]) * Spread(events[i]), C)
<1>1. IsFiniteSet(C)
  <2>1. C \in SUBSET (1..Len(observers)) /\ Len(observers) \in Nat
    BY WorldTyped DEF Compared
  <2> HIDE DEF C
  <2>2. IsFiniteSet(1..Len(observers))
    BY <2>1, UpTo
  <2> QED
    BY <2>1, <2>2, FS_Subset
<1>2. \A i \in C : Spread(events[i]) \in Nat
  BY SpreadIs
<1>3. f \in [C -> Nat] /\ \A i \in C : f[i] = 0 <=> Spread(events[i]) = 0
  BY <1>2
<1> HIDE DEF C, f
<1>4. PICK h : Sums(h, f, C)
  BY <1>1, <1>3, SumExists
<1>5. total = (CHOOSE g : R(g))[C]
  BY DEF MapThenSumSet, MapThenFoldSet
<1>6. \A s \in SUBSET C : s # {} => (CHOOSE x \in s : TRUE) \in C
  OBVIOUS
<1>7. \A g : R(g) <=> Sums(g, f, C)
  BY <1>6 DEF Sums, f
<1> HIDE DEF R
<1>8. Sums(CHOOSE g : R(g), f, C)
  <2>1. R(CHOOSE g : R(g))
    BY <1>4, <1>7
  <2> QED
    BY <1>7, <2>1
<1>9. total \in Nat /\ (total = 0 <=> \A i \in C : f[i] = 0)
  <2> HIDE DEF total
  <2> QED
    BY <1>1, <1>3, <1>5, <1>8, SumZero
<1>10. ReconciliationResidual = <<total, Cardinality(C)>>
  BY DEF ReconciliationResidual, C
<1>11. Cardinality(C) \in Nat
  BY <1>1, FS_CardinalityType
<1> HIDE DEF total
<1>12. (\A i \in C : f[i] = 0) <=> Agreeing
  BY <1>3 DEF Agreeing, C
<1> QED
  BY <1>9, <1>10, <1>11, <1>12 DEF C

-----------------------------------------------------------------------------
(* The invariant holds. *)
LEMMA SameComparison ==
    ASSUME UNCHANGED <<events, models, clocks>>
    PROVE  /\ Agreeing' = Agreeing /\ Compared' = Compared
           /\ RoundtripAccuracy' = RoundtripAccuracy
<1>1. Compared' = Compared
  BY DEF Compared, Usable
<1>2. \A e : Spread(e)' = Spread(e)
  <2>1. \A e : Places(e)' = Places(e)
    BY DEF Places, Usable
  <2> QED
    BY <2>1 DEF Spread
<1>3. Agreeing' <=> Agreeing
  BY <1>1, <1>2 DEF Agreeing
<1>4. RoundtripAccuracy' = RoundtripAccuracy
  BY DEF RoundtripAccuracy
<1> QED
  BY <1>1, <1>3, <1>4 DEF Agreeing

LEMMA InitIInv == Init => IInv
<1> SUFFICES ASSUME Init PROVE IInv
  OBVIOUS
<1>1. World
  BY DEF Init, World
<1>2. Theory!Init
  BY SameSearch DEF Init
<1>3. Theory!SearchInv /\ Theory!ModelsBuilt /\ Theory!OnlyConnected
  BY <1>2, SearchAssumptions, Theory!SearchInvInit, Theory!GraphInit
<1>4. Searched
  BY <1>3 DEF Searched, Init
<1>5. Placed /\ Computed /\ Judged
  BY DEF Init, Placed, Computed, Measured, Judged
<1> QED
  BY <1>1, <1>4, <1>5 DEF IInv

LEMMA NextIInv == IInv /\ [Next]_vars => IInv'
<1> SUFFICES ASSUME IInv, [Next]_vars PROVE IInv'
  OBVIOUS
<1> USE DEF IInv
<1>1. ASSUME UNCHANGED <<inputs, fit>> PROVE World'
  <2>1. UNCHANGED <<observers, clocks, errors, events, delivery, gates, fit>>
    BY <1>1 DEF inputs, world
  <2>2. \A q : FitsOf(q)' = FitsOf(q)
    BY <2>1 DEF FitsOf, Shared, Exact
  <2>3. Fitted' = Fitted
    BY <2>2 DEF Fitted
  <2>4. Events' = Events
    BY <2>1 DEF Events
  <2> QED
    BY <2>1, <2>3, <2>4 DEF World
<1>2. ASSUME UNCHANGED search, stage' \in {"locate", "measure", "judge", "done"},
             stage # "reconcile"
      PROVE  Searched'
  <2>1. Theory!SearchInv' /\ Theory!ModelsBuilt' /\ Theory!OnlyConnected'
    BY <1>2, SearchInvStep DEF Searched
  <2> QED
    BY <1>2, <2>1 DEF Searched, search
<1>3. CASE Reconciling
  <2>1. Theory!Next /\ UNCHANGED <<inputs, located, measures, verdict>>
    BY <1>3, SameSearch DEF Reconciling
  <2>2. fit' = fit
    BY <2>1 DEF Theory!Next, Theory!PopStale, Theory!Settle, Theory!HeapEmpty,
                Theory!BuildModels, Theory!BuildPaths, Theory!inputs
  <2>3. World'
    BY <1>1, <2>1, <2>2
  <2>4. /\ stage = "reconcile"
        /\ stage' = IF pc' = "done" THEN "locate" ELSE stage
    BY <1>3 DEF Reconciling
  <2>5. Searched'
    <3>1. Theory!SearchInv' /\ Theory!ModelsBuilt' /\ Theory!OnlyConnected'
      BY <2>1, SearchInvStep DEF Searched
    <3> QED
      BY <2>4, <3>1 DEF Searched
  <2>6. Placed' /\ Computed' /\ Judged'
    BY <2>1, <2>4 DEF Placed, Computed, Measured, Judged, measures
  <2> QED
    BY <2>3, <2>5, <2>6
<1>4. CASE Locate
  <2>1. World' /\ Searched'
    BY <1>1, <1>2, <1>4 DEF Locate, search
  <2>2. Placed'
    BY <1>4 DEF Locate, Placed, PlacesOf, inputs, search
  <2>3. Computed' /\ Judged'
    BY <1>4 DEF Locate, Computed, Measured, Judged, measures
  <2> QED
    BY <2>1, <2>2, <2>3
<1>5. CASE Measure
  <2>1. World' /\ Searched'
    BY <1>1, <1>2, <1>5 DEF Measure, search
  <2>2. Placed'
    BY <1>5 DEF Measure, Placed, PlacesOf, inputs, search
  <2>3. Computed'
    <3>1. UNCHANGED <<events, models, clocks, delivery>>
      BY <1>5 DEF Measure, inputs, world, search
    <3>2. Agreeing' = Agreeing /\ Compared' = Compared /\ RoundtripAccuracy' = RoundtripAccuracy
      BY <3>1, SameComparison
    <3>3. /\ ReconciliationResidual \in Nat \X Nat /\ ReconciliationResidual[2] = Cardinality(Compared)
          /\ ReconciliationResidual[1] = 0 <=> Agreeing
      <4>1. World /\ Searched /\ stage # "reconcile"
        BY <1>5 DEF Measure
      <4> QED
        BY <4>1, ResidualIs
    <3>4. Measured'
      BY <1>5 DEF Measure, Measured
    <3> QED
      BY <1>5, <3>1, <3>2, <3>3, <3>4 DEF Measure, Computed
  <2>4. Judged'
    BY <1>5 DEF Measure, Judged
  <2> QED
    BY <2>1, <2>2, <2>3, <2>4
<1>6. CASE Judge
  <2>1. World' /\ Searched'
    BY <1>1, <1>2, <1>6 DEF Judge, search
  <2>2. Placed'
    BY <1>6 DEF Judge, Placed, PlacesOf, inputs, search
  <2>3. Computed'
    <3>1. UNCHANGED <<events, models, clocks, delivery, measures>>
      BY <1>6 DEF Judge, inputs, world, search
    <3>2. Agreeing' = Agreeing /\ Compared' = Compared /\ RoundtripAccuracy' = RoundtripAccuracy
      BY <3>1, SameComparison
    <3>3. Measured /\ Measured'
      BY <1>6 DEF Judge, Measured
    <3> QED
      BY <3>1, <3>2, <3>3 DEF Computed, measures
  <2>4. Judged'
    BY <1>6 DEF Judge, Judged, measures, inputs
  <2> QED
    BY <2>1, <2>2, <2>3, <2>4
<1>7. CASE UNCHANGED vars
  <2>1. World'
    BY <1>1, <1>7 DEF vars, search
  <2>2. Searched'
    <3>1. Theory!SearchInv' /\ Theory!ModelsBuilt' /\ Theory!OnlyConnected'
      BY <1>7, SearchInvStep DEF Searched, vars
    <3> QED
      BY <1>7, <3>1 DEF Searched, vars, search
  <2>3. Placed' /\ Judged'
    BY <1>7 DEF Placed, PlacesOf, Judged, vars, inputs, search, measures
  <2>4. Computed'
    <3>1. UNCHANGED <<events, models, clocks, delivery, measures, stage>>
      BY <1>7 DEF vars, inputs, world, search
    <3>2. Agreeing' = Agreeing /\ Compared' = Compared /\ RoundtripAccuracy' = RoundtripAccuracy
      BY <3>1, SameComparison
    <3> QED
      BY <3>1, <3>2 DEF Computed, Measured, measures
  <2> QED
    BY <2>1, <2>2, <2>3, <2>4
<1> QED
  BY <1>3, <1>4, <1>5, <1>6, <1>7 DEF Next

THEOREM InvariantHolds == Spec => []IInv
BY InitIInv, NextIInv, PTL DEF Spec
-----------------------------------------------------------------------------
(* Where events are placed. *)
LEMMA InvertedBack ==
    ASSUME NEW c \in Affine(Int), NEW t \in Int
    PROVE  At(c, At(Search!Inverted(c), t)) = t
<1>1. CASE c.alpha = 1
  BY <1>1 DEF At, Search!Inverted, Affine
<1>2. CASE c.alpha = -1
  BY <1>2 DEF At, Search!Inverted, Affine
<1> QED
  BY <1>1, <1>2 DEF Affine

(* A true clock places what it saw without error where it happened. *)
LEMMA TruePlace ==
    ASSUME World, Clean, NEW i \in 1..Len(observers), NEW d \in observers[i]
    PROVE  d \in Device /\ At(clocks[d], events[i][d]) = i
<1>1. /\ d \in Device /\ clocks[d] \in Affine(Int) /\ i \in Int
      /\ events[i][d] = At(Search!Inverted(clocks[d]), i) + errors[i][d]
  BY WorldTyped
<1>2. errors[i][d] = 0
  BY WorldTyped DEF Clean
<1>3. At(Search!Inverted(clocks[d]), i) \in Int
  BY <1>1 DEF At, Search!Inverted, Affine
<1> QED
  BY <1>1, <1>2, <1>3, InvertedBack

LEMMA LocatedHolds == IInv => EventsLocated
<1> SUFFICES ASSUME World, Searched, Placed, stage \notin {"reconcile", "locate"}, Clean,
                    NEW d \in reachable, models[d].map = clocks[d]
             PROVE  located[d] = {i \in DOMAIN events : d \in observers[i]}
  BY DEF IInv, EventsLocated
<1>1. d \in Device
  BY ModelsTyped
<1>2. located[d] = PlacesOf(d)
  BY <1>1 DEF Placed
<1>3. \A i \in DOMAIN events : DOMAIN events[i] = observers[i]
  BY WorldTyped
<1>4. \A i \in DOMAIN events : d \in observers[i] => At(models[d].map, events[i][d]) = i
  BY WorldTyped, TruePlace
<1>5. PlacesOf(d) = {At(models[d].map, events[i][d]) : i \in {j \in DOMAIN events : d \in observers[j]}}
  BY <1>3 DEF PlacesOf
<1>6. PlacesOf(d) = {i \in DOMAIN events : d \in observers[i]}
  BY <1>4, <1>5
<1> QED
  BY <1>2, <1>6

(* A device that has its true clock has its events placed where they       *)
(* happened, by `locate` after the search.                                 *)
THEOREM EventsAreLocated == Spec => []EventsLocated
BY InvariantHolds, LocatedHolds, PTL

-----------------------------------------------------------------------------
(* Who is reached. *)
LEMMA EdgesAre ==
    ASSUME World, NEW u \in Device, NEW v \in Device
    PROVE  Theory!Adjacent(u, v) <=> Joined(u, v)
<1> DEFINE Both(x, y) == {i \in DOMAIN events : {x, y} \subseteq DOMAIN events[i]}
<1>1. /\ DOMAIN observers = DOMAIN events
      /\ \A i \in DOMAIN events : DOMAIN events[i] = observers[i]
  <2>1. DOMAIN observers = DOMAIN events
    BY DEF World, Events
  <2> QED
    BY <2>1, WorldTyped
<1>2. \A x, y : Shared(<<x, y>>) = Both(x, y) /\ Both(x, y) = Both(y, x)
  BY <1>1 DEF Shared
<1>3. ASSUME NEW p \in Search!Pair PROVE fit[p].shared = Cardinality(Shared(p))
  <2>1. fit[p] \in FitsOf(p)
    BY DEF World, Fitted
  <2> QED
    BY <2>1 DEF FitsOf
<1>4. ASSUME NEW x \in Device, NEW y \in Device
      PROVE  Theory!IsEdge(<<x, y>>) <=> x < y /\ Cardinality(Both(x, y)) >= MinEvents
  <2>1. <<x, y>> \in Search!Pair <=> x < y
    BY DEF Search!Pair, Device
  <2>2. Theory!IsEdge(<<x, y>>) <=> x < y /\ fit[<<x, y>>].shared >= MinEvents
    BY <2>1 DEF Theory!IsEdge, Theory!Pair, Search!Pair, Theory!Device, Search!Device
  <2>3. Shared(<<x, y>>) = Both(x, y)
    BY <1>2
  <2>4. x < y => fit[<<x, y>>].shared = Cardinality(Shared(<<x, y>>))
    BY <1>3, <2>1
  <2> QED
    BY <2>2, <2>3, <2>4
<1>5. u \in Int /\ v \in Int
  BY WorldTyped, DeviceAssumption
<1>6. Both(u, v) = Both(v, u)
  BY <1>2
<1>7. Theory!Adjacent(u, v) <=> u # v /\ Cardinality(Both(u, v)) >= MinEvents
  <2> HIDE DEF Both
  <2> QED
    BY <1>4, <1>5, <1>6 DEF Theory!Adjacent
<1> QED
  BY <1>7 DEF Joined

LEMMA ConnectedIs ==
    ASSUME World, Searched, stage # "reconcile"
    PROVE  reachable = {d \in Device : \A S \in SUBSET Device : CutOff(S) => d \in S}
<1>1. Theory!Partition /\ pc = "done"
  BY SearchAssumptions, Theory!PartitionHolds DEF Searched
<1>2. Device = Theory!Device
  BY DEF Device, Search!Device, Theory!Device
<1>3. ASSUME NEW S \in SUBSET Device PROVE CutOff(S) <=> Theory!Closed(S)
  <2>1. \A u \in S, v \in Device : Theory!Adjacent(u, v) <=> Joined(u, v)
    BY EdgesAre
  <2> QED
    BY <1>2, <2>1 DEF CutOff, Theory!Closed
<1>4. reachable = {d \in Device : \A S \in SUBSET Device : Theory!Closed(S) => d \in S}
  BY <1>1, <1>2 DEF Theory!Partition, Theory!Connected
<1> QED
  BY <1>3, <1>4

LEMMA ReachableHolds == IInv => ReachableByEvents
BY ConnectedIs DEF IInv, ReachableByEvents

(* The search reports as reachable whom chains of shared events lead to.   *)
THEOREM ReachedByEvents == Spec => []ReachableByEvents
BY InvariantHolds, ReachableHolds, PTL
-----------------------------------------------------------------------------
(* What the residual tells. *)
LEMMA TwoOf ==
    ASSUME NEW S, IsFiniteSet(S)
    PROVE  Cardinality(S) >= 2 <=> \E x, y \in S : x # y
<1>0. Cardinality(S) \in Nat
  BY FS_CardinalityType
<1>1. ASSUME Cardinality(S) >= 2 PROVE \E x, y \in S : x # y
  <2>1. PICK x : x \in S
    BY <1>1, FS_EmptySet
  <2>2. IsFiniteSet(S \ {x}) /\ Cardinality(S \ {x}) = Cardinality(S) - 1
    BY <2>1, FS_RemoveElement
  <2>3. PICK y : y \in S \ {x}
    BY <1>0, <1>1, <2>2, FS_EmptySet
  <2> QED
    BY <2>1, <2>3
<1>2. ASSUME NEW x \in S, NEW y \in S, x # y PROVE Cardinality(S) >= 2
  <2>1. IsFiniteSet(S \ {x}) /\ Cardinality(S \ {x}) = Cardinality(S) - 1
    BY FS_RemoveElement
  <2>2. Cardinality(S \ {x}) # 0 /\ Cardinality(S \ {x}) \in Nat
    <3>1. S \ {x} # {}
      BY <1>2
    <3> QED
      BY <2>1, <3>1, FS_EmptySet, FS_CardinalityType
  <2> QED
    BY <1>0, <2>1, <2>2
<1> QED
  BY <1>1, <1>2

(* A clock map is determined by its values at two times. *)
LEMMA Determined ==
    ASSUME NEW m \in Affine(Int), NEW c \in Affine(Int), NEW s \in Int, NEW t \in Int, s # t,
           At(m, s) = At(c, s), At(m, t) = At(c, t)
    PROVE  m = c
<1>1. m.alpha = c.alpha
  <2>1. CASE m.alpha = 1 /\ c.alpha = -1
    BY <2>1 DEF At, Affine
  <2>2. CASE m.alpha = -1 /\ c.alpha = 1
    BY <2>2 DEF At, Affine
  <2> QED
    BY <2>1, <2>2 DEF Affine
<1>2. m.beta = c.beta
  <2>1. m.alpha * s \in Int /\ m.beta \in Int /\ c.beta \in Int
    BY DEF Affine
  <2>2. m.alpha * s + m.beta = m.alpha * s + c.beta
    BY <1>1 DEF At
  <2>3. \A a, b, e \in Int : a + b = a + e => b = e
    OBVIOUS
  <2> QED
    BY <2>1, <2>2, <2>3
<1> QED
  BY <1>1, <1>2 DEF Affine

LEMMA AccurateIs ==
    ASSUME World, Searched, Computed, Measured, NEW d \in Device \ {Ref}
    PROVE  Accurate(d) <=> models[d].map = clocks[d]
<1> DEFINE m == models[d].map
           c == clocks[d]
<1>1. m \in Affine(Int) /\ c \in Affine(Int)
  BY WorldTyped, ModelsTyped DEF Measured
<1>2. roundtrip[d] = [alpha |-> Abs(m.alpha - c.alpha), beta |-> Abs(m.beta - c.beta)]
  BY DEF Computed, RoundtripAccuracy
<1> HIDE DEF m, c
<1>3. m.alpha \in Int /\ c.alpha \in Int /\ m.beta \in Int /\ c.beta \in Int
  BY <1>1 DEF Affine
<1>4. m = c <=> m.alpha = c.alpha /\ m.beta = c.beta
  BY <1>1 DEF Affine
<1>5. Accurate(d) <=> Abs(m.alpha - c.alpha) = 0 /\ Abs(m.beta - c.beta) = 0
  BY <1>2 DEF Accurate
<1>6. \A x \in Int, y \in Int : Abs(x - y) = 0 <=> x = y
  BY DEF Abs
<1> QED
  BY <1>3, <1>4, <1>5, <1>6 DEF m, c

(* The places of an event agree if all clocks are true, and if they agree, *)
(* a device that shares enough events with one of a true clock has its own.*)
LEMMA TruthSpreads ==
    ASSUME MinEvents >= 2, World, Searched, stage # "reconcile", Clean, Agreeing,
           NEW u \in reachable, models[u].map = clocks[u],
           NEW v \in Device, Joined(u, v)
    PROVE  v \in reachable /\ models[v].map = clocks[v]
<1>1. u \in Device /\ u # v
  BY ModelsTyped DEF Joined
<1>2. v \in reachable
  <2> SUFFICES ASSUME NEW S \in SUBSET Device, CutOff(S) PROVE v \in S
    BY ConnectedIs
  <2>1. u \in S
    BY ConnectedIs
  <2> QED
    BY <2>1 DEF CutOff
<1> DEFINE W == {i \in DOMAIN events : {u, v} \subseteq DOMAIN events[i]}
<1>3. DOMAIN events = 1..Len(observers) /\ IsFiniteSet(DOMAIN events)
  BY WorldTyped, UpTo
<1>4. PICK i \in W, j \in W : i # j
  <2>1. IsFiniteSet(W)
    BY <1>3, FS_Subset
  <2>2. Cardinality(W) >= MinEvents /\ MinEvents \in Nat /\ Cardinality(W) \in Nat
    BY <2>1, LossAssumption, FS_CardinalityType DEF Joined
  <2> HIDE DEF W
  <2>3. Cardinality(W) >= 2
    BY <2>2
  <2> QED
    BY <2>1, <2>3, TwoOf
<1>5. ASSUME NEW k \in W
      PROVE  /\ At(models[v].map, events[k][v]) = k /\ At(clocks[v], events[k][v]) = k
             /\ events[k][v] \in Int
  <2>1. k \in 1..Len(observers) /\ u \in observers[k] /\ v \in observers[k]
    BY WorldTyped
  <2>2. /\ At(clocks[u], events[k][u]) = k /\ At(clocks[v], events[k][v]) = k
        /\ events[k][v] \in Int
    BY <2>1, WorldTyped, TruePlace
  <2>3. u \in Saw(k) /\ v \in Saw(k)
    BY <1>1, <1>2, ModelsTyped DEF Saw
  <2>4. k \in Compared
    <3>1. IsFiniteSet(Saw(k))
      <4>1. Saw(k) \in SUBSET Device
        BY <2>1, WorldTyped DEF Saw
      <4> QED
        BY <4>1, WorldTyped, FS_Subset
    <3>2. Cardinality(Saw(k)) >= 2
      BY <1>1, <2>3, <3>1, TwoOf
    <3> QED
      BY <3>2 DEF Compared, Saw
  <2>5. Spread(events[k]) = 0
    BY <2>4 DEF Agreeing
  <2>6. At(models[v].map, events[k][v]) = At(models[u].map, events[k][u])
    BY <2>3, <2>4, <2>5, SpreadIs
  <2> QED
    BY <2>2, <2>6
<1>6. models[v].map \in Affine(Int) /\ clocks[v] \in Affine(Int)
  BY WorldTyped, ModelsTyped
<1>7. events[i][v] # events[j][v]
  BY <1>4, <1>5
<1> HIDE DEF W
<1>8. models[v].map = clocks[v]
  BY <1>4, <1>5, <1>6, <1>7, Determined
<1> QED
  BY <1>2, <1>8

LEMMA ResidualTells ==
    ASSUME MinEvents >= 2, World, Searched, stage # "reconcile", Clean
    PROVE  Agreeing <=> \A d \in reachable \ {Ref} : models[d].map = clocks[d]
<1>1. ASSUME Agreeing, NEW d \in reachable PROVE models[d].map = clocks[d]
  <2> DEFINE S == {e \in reachable : models[e].map = clocks[e]}
  <2>1. S \in SUBSET Device
    BY ModelsTyped
  <2>2. Ref \in S
    BY WorldTyped, ModelsTyped
  <2>3. CutOff(S)
    BY <1>1, <2>2, TruthSpreads DEF CutOff
  <2>4. d \in S
    BY <2>1, <2>3, ConnectedIs
  <2> QED
    BY <2>4
<1>2. ASSUME \A d \in reachable \ {Ref} : models[d].map = clocks[d] PROVE Agreeing
  <2> SUFFICES ASSUME NEW i \in Compared PROVE Spread(events[i]) = 0
    BY DEF Agreeing
  <2>1. i \in 1..Len(observers) /\ DOMAIN events[i] = observers[i]
    BY WorldTyped DEF Compared
  <2>2. models[Ref].map = clocks[Ref]
    BY WorldTyped, ModelsTyped
  <2>3. ASSUME NEW d \in Saw(i) PROVE At(models[d].map, events[i][d]) = i
    <3>1. d \in observers[i] /\ d \in Device
      BY <2>1, WorldTyped DEF Saw
    <3>2. d \in reachable
      BY <3>1, ModelsTyped DEF Saw
    <3> QED
      BY <1>2, <2>1, <2>2, <3>1, <3>2, TruePlace
  <2> QED
    BY <2>3, SpreadIs
<1> QED
  BY <1>1, <1>2

LEMMA TruthHolds == MinEvents >= 2 /\ IInv => ResidualTellsTruth
<1> SUFFICES ASSUME MinEvents >= 2, World, Searched, Computed, Measured, Clean
             PROVE  (residual[1] = 0) <=> (\A d \in reachable \ {Ref} : Accurate(d))
  BY DEF IInv, ResidualTellsTruth
<1>1. stage # "reconcile"
  BY DEF Measured
<1>2. residual[1] = 0 <=> Agreeing
  BY DEF Computed
<1>3. Agreeing <=> \A d \in reachable \ {Ref} : models[d].map = clocks[d]
  BY <1>1, ResidualTells
<1>4. reachable \subseteq Device
  BY <1>1, ModelsTyped
<1> QED
  BY <1>2, <1>3, <1>4, AccurateIs

(* Devices are joined by two shared events or more, as the default of      *)
(* `build_edges` has it.  Then the residual of an unharmed session is zero *)
(* exactly if every reachable device has its true clock: an affine map is  *)
(* determined by two events, so truth spreads along the edges.             *)
THEOREM TruthTold ==
    ASSUME MinEvents >= 2
    PROVE  Spec => []ResidualTellsTruth
<1>1. IInv => ResidualTellsTruth
  BY TruthHolds
<1> QED
  BY <1>1, InvariantHolds, PTL
-----------------------------------------------------------------------------
(* Quotients, and the lowest and the highest of them. *)
Quotients == Int \X (Nat \ {0})

LEMMA Scaling ==
    ASSUME NEW x \in Int, NEW y \in Int, NEW k \in Nat \ {0}
    PROVE  x * k <= y * k <=> x <= y
<1>1. ASSUME x <= y PROVE x * k <= y * k
  <2>1. (y - x) * k >= 0
    <3>1. y - x \in Nat
      BY <1>1
    <3> QED
      BY <3>1
  <2> QED
    BY <2>1
<1>2. ASSUME y < x PROVE y * k < x * k
  <2>1. (x - y) * k > 0
    <3>1. x - y \in Nat \ {0}
      BY <1>2
    <3> QED
      BY <3>1
  <2> QED
    BY <2>1
<1>3. x * k \in Int /\ y * k \in Int
  OBVIOUS
<1> QED
  BY <1>1, <1>2, <1>3

LEMMA LeqTransitive ==
    ASSUME NEW p \in Quotients, NEW q \in Quotients, NEW r \in Quotients,
           Leq(p, q), Leq(q, r)
    PROVE  Leq(p, r)
<1> DEFINE a == p[1]  b == p[2]
           c == q[1]  d == q[2]
           e == r[1]  f == r[2]
<1>1. a \in Int /\ c \in Int /\ e \in Int
      /\ b \in Nat \ {0} /\ d \in Nat \ {0} /\ f \in Nat \ {0}
  BY DEF Quotients
<1>2. a * d <= c * b /\ c * f <= e * d
  BY DEF Leq
<1> HIDE DEF a, b, c, d, e, f
<1>3. (a * d) * f <= (c * b) * f
  BY <1>1, <1>2, Scaling
<1>4. (c * f) * b <= (e * d) * b
  BY <1>1, <1>2, Scaling
<1>5. /\ (a * d) * f = (a * f) * d /\ (c * b) * f = (c * f) * b
      /\ (e * d) * b = (e * b) * d
  BY <1>1
<1>6. (a * f) * d <= (e * b) * d
  <2>1. (c * f) * b \in Int /\ (a * f) * d \in Int /\ (e * b) * d \in Int
    BY <1>1
  <2> QED
    BY <1>3, <1>4, <1>5, <2>1
<1>7. a * f <= e * b
  <2>1. a * f \in Int /\ e * b \in Int
    BY <1>1
  <2> QED
    BY <1>1, <1>6, <2>1, Scaling
<1> QED
  BY <1>7 DEF Leq, a, b, e, f

LEMMA LeqTotal ==
    ASSUME NEW p \in Quotients, NEW q \in Quotients
    PROVE  Leq(p, q) \/ Leq(q, p)
<1>1. p[1] * q[2] \in Int /\ q[1] * p[2] \in Int
  BY DEF Quotients
<1> QED
  BY <1>1 DEF Leq

LEMMA ALowest ==
    ASSUME NEW n \in Nat \ {0}, NEW f \in [1..n -> Quotients]
    PROVE  \E k \in 1..n : \A j \in 1..n : Leq(f[k], f[j])
<1> DEFINE G == {m \in Nat : m < n => \E k \in 1..m + 1 : \A j \in 1..m + 1 : Leq(f[k], f[j])}
<1>1. 0 \in G
  <2>1. Leq(f[1], f[1])
    BY LeqTotal
  <2> QED
    BY <2>1
<1>2. ASSUME NEW m \in Nat, m \in G PROVE m + 1 \in G
  <2> SUFFICES ASSUME m + 1 < n
               PROVE  \E k \in 1..m + 2 : \A j \in 1..m + 2 : Leq(f[k], f[j])
    OBVIOUS
  <2>1. PICK k \in 1..m + 1 : \A j \in 1..m + 1 : Leq(f[k], f[j])
    BY <1>2
  <2>2. f[k] \in Quotients /\ f[m + 2] \in Quotients
    OBVIOUS
  <2>3. CASE Leq(f[k], f[m + 2])
    BY <2>1, <2>3
  <2>4. CASE Leq(f[m + 2], f[k])
    <3>1. \A j \in 1..m + 1 : Leq(f[m + 2], f[j])
      BY <2>1, <2>2, <2>4, LeqTransitive
    <3>2. Leq(f[m + 2], f[m + 2])
      BY <2>2, LeqTotal
    <3> QED
      BY <3>1, <3>2
  <2> QED
    BY <2>2, <2>3, <2>4, LeqTotal
<1>3. n - 1 \in G
  <2>1. n - 1 \in Nat
    OBVIOUS
  <2> HIDE DEF G
  <2> QED
    BY <1>1, <1>2, <2>1, Induct
<1> QED
  BY <1>3

LEMMA Bounds ==
    ASSUME NEW f \in [Device -> Quotients]
    PROVE  /\ \E k \in Device : /\ Lowest({f[d] : d \in Device}) = f[k]
                                /\ \A d \in Device : Leq(f[k], f[d])
           /\ \E k \in Device : /\ Highest({f[d] : d \in Device}) = f[k]
                                /\ \A d \in Device : Leq(f[d], f[k])
<1> DEFINE Q == {f[d] : d \in Device}
<1>1. Device = 1..N /\ N \in Nat \ {0}
  BY DeviceAssumption DEF Device, Search!Device
<1>2. \E k \in Device : \A d \in Device : Leq(f[k], f[d])
  BY <1>1, ALowest
<1>3. \E k \in Device : \A d \in Device : Leq(f[d], f[k])
  <2> DEFINE g == [d \in Device |-> <<-f[d][1], f[d][2]>>]
  <2>1. \A d \in Device : /\ f[d][1] \in Int /\ f[d][2] \in Nat \ {0}
                          /\ g[d][1] = -f[d][1] /\ g[d][2] = f[d][2]
    BY DEF Quotients
  <2>2. g \in [Device -> Quotients]
    BY <2>1 DEF Quotients
  <2> HIDE DEF g
  <2>3. PICK k \in Device : \A d \in Device : Leq(g[k], g[d])
    BY <1>1, <2>2, ALowest
  <2>4. ASSUME NEW d \in Device PROVE Leq(f[d], f[k])
    <3>1. g[k][1] * g[d][2] <= g[d][1] * g[k][2]
      BY <2>3 DEF Leq
    <3>2. \A x, y \in Int, a, b \in Nat \ {0} : (-x) * b <= (-y) * a => y * a <= x * b
      OBVIOUS
    <3>3. (-f[k][1]) * f[d][2] <= (-f[d][1]) * f[k][2]
      BY <2>1, <3>1
    <3> QED
      BY <2>1, <3>2, <3>3 DEF Leq
  <2> QED
    BY <2>4
<1>4. Lowest(Q) \in Q /\ \A r \in Q : Leq(Lowest(Q), r)
  <2>1. \E q \in Q : \A r \in Q : Leq(q, r)
    BY <1>2
  <2> HIDE DEF Q
  <2> QED
    BY <2>1 DEF Lowest
<1>5. Highest(Q) \in Q /\ \A r \in Q : Leq(r, Highest(Q))
  <2>1. \E q \in Q : \A r \in Q : Leq(r, q)
    BY <1>3
  <2> HIDE DEF Q
  <2> QED
    BY <2>1 DEF Highest
<1> QED
  BY <1>4, <1>5

(* The worst coverage and the worst dropout of the streams. *)
LEMMA Worst ==
    ASSUME World, Computed, Measured
    PROVE  /\ coverage \in Quotients /\ dropout \in Quotients
           /\ 0 <= coverage[1] /\ coverage[1] <= coverage[2]
           /\ 0 <= dropout[1] /\ dropout[1] <= dropout[2]
           /\ \A d \in Device : /\ Coverage(delivery[d]) \in Quotients
                                /\ Dropout(delivery[d]) \in Quotients
                                /\ Leq(coverage, Coverage(delivery[d]))
                                /\ Leq(Dropout(delivery[d]), dropout)
<1> DEFINE c == [d \in Device |-> Coverage(delivery[d])]
           o == [d \in Device |-> Dropout(delivery[d])]
<1>1. \A d \in Device : delivery[d] \in Delivery /\ delivery[d].valid <= delivery[d].points
  BY DeliveryAssumption DEF World
<1>2. \A d \in Device : /\ c[d] \in Quotients /\ c[d] = Coverage(delivery[d])
                        /\ 0 <= c[d][1] /\ c[d][1] <= c[d][2]
  BY <1>1 DEF Coverage, Quotients, Delivery
<1>3. ASSUME NEW d \in Device
      PROVE  /\ o[d] \in Quotients /\ o[d] = Dropout(delivery[d])
             /\ 0 <= o[d][1] /\ o[d][1] <= o[d][2]
  <2>1. delivery[d].expected \in Nat /\ delivery[d].received \in Nat
    BY <1>1 DEF Delivery
  <2> QED
    BY <2>1 DEF Dropout, Quotients
<1>4. /\ c \in [Device -> Quotients] /\ coverage = Lowest({c[d] : d \in Device})
      /\ o \in [Device -> Quotients] /\ dropout = Highest({o[d] : d \in Device})
  <2>1. /\ {c[d] : d \in Device} = {Coverage(delivery[d]) : d \in Device}
        /\ {o[d] : d \in Device} = {Dropout(delivery[d]) : d \in Device}
    OBVIOUS
  <2> QED
    BY <1>2, <1>3, <2>1 DEF Computed
<1> HIDE DEF c, o
<1>5. PICK k \in Device : coverage = c[k] /\ \A d \in Device : Leq(c[k], c[d])
  BY <1>4, Bounds
<1>6. PICK h \in Device : dropout = o[h] /\ \A d \in Device : Leq(o[d], o[h])
  BY <1>4, Bounds
<1> QED
  BY <1>2, <1>3, <1>5, <1>6

LEMMA TypeHolds == IInv => TypeOK
<1> SUFFICES ASSUME World, Searched, Computed, Judged PROVE TypeOK
  BY DEF IInv
<1>1. stage \in {"reconcile", "locate", "measure", "judge", "done"}
  BY DEF Searched
<1>2. verdict \in Verdict \cup {"none"}
  BY DEF Judged, GateVerdict, Verdict
<1>3. \A q \in {coverage, dropout} : Leq(<<0, 1>>, q) /\ Leq(q, <<1, 1>>)
  <2>1. CASE Measured
    <3>1. \A q \in Quotients : 0 <= q[1] /\ q[1] <= q[2] => Leq(<<0, 1>>, q) /\ Leq(q, <<1, 1>>)
      BY DEF Leq, Quotients
    <3> QED
      BY <2>1, <3>1, Worst
  <2>2. CASE ~Measured
    BY <2>2 DEF Computed, Leq
  <2> QED
    BY <2>1, <2>2
<1>4. residual[1] \in Nat /\ residual[2] \in 0..Len(events)
  <2>1. DOMAIN events = 1..Len(observers) /\ Len(observers) \in Nat
    BY WorldTyped
  <2>2. Len(events) = Len(observers)
    <3>1. events = [i \in 1..Len(observers) |-> events[i]]
      BY <2>1 DEF World, Events
    <3> QED
      BY <2>1, <3>1
  <2>3. CASE Measured
    <3>1. residual[1] \in Nat /\ residual[2] = Cardinality(Compared)
      BY <2>3 DEF Computed
    <3>2. Compared \in SUBSET (1..Len(observers))
      BY <2>1 DEF Compared
    <3>3. Cardinality(Compared) \in Nat /\ Cardinality(Compared) <= Len(observers)
      <4> DEFINE n == Len(observers)
      <4>1. IsFiniteSet(1..n) /\ Cardinality(1..n) = n
        BY <2>1, UpTo
      <4> HIDE DEF n
      <4>2. IsFiniteSet(Compared) /\ Cardinality(Compared) <= n
        BY <3>2, <4>1, FS_Subset DEF n
      <4> QED
        BY <4>2, FS_CardinalityType DEF n
    <3> QED
      BY <2>1, <2>2, <3>1, <3>3
  <2>4. CASE ~Measured
    BY <2>1, <2>2, <2>4 DEF Computed
  <2> QED
    BY <2>3, <2>4
<1>5. stage # "reconcile" => DOMAIN models = Device
  BY ModelsTyped
<1> QED
  BY <1>1, <1>2, <1>3, <1>4, <1>5 DEF TypeOK

(* Coverage and dropout are fractions, the residual is a mean over events, *)
(* and whom the events join is reachable.                                  *)
THEOREM StagesInRange == Spec => []EngineInv
<1>1. IInv => EngineInv
  BY TypeHolds, ReachableHolds DEF EngineInv
<1> QED
  BY <1>1, InvariantHolds, PTL
-----------------------------------------------------------------------------
(* The verdict. *)
Good(cov, drop) == Leq(<<gates.coverage, 100>>, cov) /\ Leq(drop, <<gates.dropout, 100>>)

LEMMA VerdictGrade ==
    ASSUME NEW r, NEW cov, NEW drop
    PROVE  Grade[GateVerdict(r, cov, drop, gates)] =
             IF ~Below(r, gates.hardfail) THEN 0
             ELSE IF Below(r, gates.certified) /\ Good(cov, drop) THEN 3
             ELSE IF Below(r, gates.release) /\ Good(cov, drop) THEN 2
             ELSE 1
<1>1. /\ Grade["blocked"] = 0 /\ Grade["needs_review"] = 1
      /\ Grade["release"] = 2 /\ Grade["certified"] = 3
  BY DEF Grade, Verdict
<1>2. \A a, b, c : Grade[IF ~a THEN "blocked" ELSE IF b THEN "certified"
                       ELSE IF c THEN "release" ELSE "needs_review"] =
                 IF ~a THEN 0 ELSE IF b THEN 3 ELSE IF c THEN 2 ELSE 1
  BY <1>1
<1> QED
  BY <1>2 DEF GateVerdict, Good

LEMMA BetterResidual ==
    ASSUME NEW r \in Nat, NEW k \in Nat, NEW s \in 0..r, NEW limit \in Nat,
           Below(<<r, k>>, limit)
    PROVE  Below(<<s, k>>, limit)
<1>1. limit * limit * k \in Int
  OBVIOUS
<1>2. \A a \in Int : r < a => s < a
  OBVIOUS
<1> QED
  BY <1>1, <1>2 DEF Below

LEMMA BetterStreams ==
    ASSUME NEW cov \in Quotients, NEW drop \in Quotients,
           gates.coverage \in Nat, gates.dropout \in Nat,
           Good(cov, drop), 0 <= drop[1],
           NEW n \in cov[1]..cov[2], NEW m \in 0..drop[1]
    PROVE  Good(<<n, cov[2]>>, <<m, drop[2]>>)
<1>1. /\ cov[1] \in Int /\ cov[2] \in Nat /\ drop[1] \in Int /\ drop[2] \in Nat
      /\ gates.coverage * cov[2] \in Int /\ gates.dropout * drop[2] \in Int
  BY DEF Quotients
<1>2. gates.coverage * cov[2] <= cov[1] * 100 /\ drop[1] * 100 <= gates.dropout * drop[2]
  BY DEF Good, Leq
<1>3. gates.coverage * cov[2] <= n * 100 /\ m * 100 <= gates.dropout * drop[2]
  BY <1>1, <1>2
<1> QED
  BY <1>3 DEF Good, Leq

LEMMA BadStream ==
    ASSUME World, Computed, Measured, NEW d \in Device,
           \/ 100 * delivery[d].valid < gates.coverage * delivery[d].points
           \/ 100 * (delivery[d].expected - delivery[d].received)
                > gates.dropout * delivery[d].expected
    PROVE  ~Good(coverage, dropout)
<1> SUFFICES ASSUME Good(coverage, dropout) PROVE FALSE
  OBVIOUS
<1> DEFINE low == <<gates.coverage, 100>>
           high == <<gates.dropout, 100>>
<1>1. gates.coverage \in Nat /\ gates.dropout \in Nat
  BY GateAssumption DEF World, Gate
<1>2. low \in Quotients /\ high \in Quotients
  BY <1>1 DEF Quotients
<1>3. Leq(low, coverage) /\ Leq(dropout, high)
  BY DEF Good
<1> HIDE DEF low, high
<1>4. Leq(low, Coverage(delivery[d])) /\ Leq(Dropout(delivery[d]), high)
  BY <1>2, <1>3, Worst, LeqTransitive
<1>5. delivery[d] \in Delivery
  BY DeliveryAssumption DEF World
<1>6. /\ delivery[d].valid \in Nat /\ delivery[d].points \in Nat
      /\ delivery[d].expected \in Nat /\ delivery[d].received \in Nat
  BY <1>5 DEF Delivery
<1>7. gates.coverage * delivery[d].points <= 100 * delivery[d].valid
  BY <1>4, <1>6 DEF Leq, Coverage, low
<1>8. 100 * (delivery[d].expected - delivery[d].received) <= gates.dropout * delivery[d].expected
  <2>1. gates.dropout * delivery[d].expected \in Nat
    BY <1>1, <1>6
  <2>2. CASE delivery[d].received >= delivery[d].expected
    BY <1>6, <2>1, <2>2
  <2>3. CASE delivery[d].received < delivery[d].expected
    <3>1. Dropout(delivery[d]) = <<delivery[d].expected - delivery[d].received, delivery[d].expected>>
      BY <1>6, <2>3 DEF Dropout
    <3> QED
      BY <1>4, <1>6, <3>1 DEF Leq, high
  <2> QED
    BY <1>6, <2>2, <2>3
<1>9. /\ gates.coverage * delivery[d].points \in Int
      /\ gates.dropout * delivery[d].expected \in Int
  BY <1>1, <1>6
<1> QED
  BY <1>6, <1>7, <1>8, <1>9

LEMMA VerdictHolds == IInv => VerdictMonotone
<1> SUFFICES ASSUME World, Searched, Computed, Judged, stage = "done" PROVE VerdictMonotone
  BY DEF IInv, VerdictMonotone
<1>1. Measured
  BY DEF Measured
<1>2. /\ gates.certified \in Nat /\ gates.release \in Nat /\ gates.hardfail \in Nat
      /\ gates.coverage \in Nat /\ gates.dropout \in Nat
  BY GateAssumption DEF World, Gate
<1>3. verdict = GateVerdict(residual, coverage, dropout, gates)
  BY DEF Judged
<1>4. residual = <<residual[1], residual[2]>> /\ residual[1] \in Nat /\ residual[2] \in Nat
  BY <1>1 DEF Computed
<1>5. coverage \in Quotients /\ dropout \in Quotients /\ 0 <= dropout[1]
  BY <1>1, Worst
<1>6. ASSUME NEW s \in 0..residual[1], NEW n \in coverage[1]..coverage[2],
             NEW m \in 0..dropout[1]
      PROVE  Grade[verdict] <= Grade[GateVerdict(<<s, residual[2]>>, <<n, coverage[2]>>,
                                                 <<m, dropout[2]>>, gates)]
  <2>1. \A limit \in Nat : Below(residual, limit) => Below(<<s, residual[2]>>, limit)
    BY <1>4, BetterResidual
  <2>2. Good(coverage, dropout) => Good(<<n, coverage[2]>>, <<m, dropout[2]>>)
    BY <1>2, <1>5, BetterStreams
  <2> QED
    BY <1>2, <1>3, <2>1, <2>2, VerdictGrade
<1>7. ASSUME NEW d \in Device,
             \/ 100 * delivery[d].valid < gates.coverage * delivery[d].points
             \/ 100 * (delivery[d].expected - delivery[d].received)
                  > gates.dropout * delivery[d].expected
      PROVE  verdict \in {"blocked", "needs_review"}
  <2>1. ~Good(coverage, dropout)
    BY <1>1, <1>7, BadStream
  <2> QED
    BY <1>3, <2>1 DEF GateVerdict, Good
<1> QED
  BY <1>6, <1>7 DEF VerdictMonotone

(* Better metrics never get a worse verdict, and no stream of low coverage *)
(* or high dropout is hidden by the others: `evaluate_gate`.               *)
THEOREM VerdictIsMonotone == Spec => []VerdictMonotone
BY InvariantHolds, VerdictHolds, PTL
=============================================================================

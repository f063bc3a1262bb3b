------------------------------- MODULE Engine -------------------------------
(***************************************************************************)
(* `synchronize` of sync/engine.py around the reconciliation that module   *)
(* Reconcile models: which pairs of devices the events join, where the     *)
(* events lie in reference time, and the metrics and the verdict drawn     *)
(* from the clock models (sync/metrics.py).  Streams and grid are those of *)
(* Timeline; here a device's stream is four numbers.                       *)
(*                                                                         *)
(* The world behind the events is kept: when they happened and what the    *)
(* devices' true clocks were.  The program does not see it, except as the  *)
(* ground truth of a synthetic session.                                    *)
(***************************************************************************)
EXTENDS Arrays, FiniteSetsExt

CONSTANTS N, Ref, MinEvents, CountLoss, Clamp,  \* as in Reconcile
          Observed,   \* who sees the events: sequences of sets of devices
          Clocks,     \* the true clocks: device |-> map to true time
          Errors,     \* event |-> device |-> error of the observation
          Wrong,      \* maps a bad fit may give
          Residuals,  \* residuals a fit may have
          Deliveries, \* device |-> what became of its stream
          Gates       \* the gate thresholds

VARIABLES events,     \* sequence of [device |-> local time] of its observers
          observers, clocks, errors,                \* the world
          delivery, gates,                          \* further arguments
          fit, dist, transform, conf, hops, parent, pq, visited,
          models, reachable, unreachable, paths,    \* of Reconcile
          pc,         \* of Reconcile; "done" when the engine goes on
          stage,      \* what the engine does next
          located,    \* device |-> its events in reference time
          residual,   \* <<sum of squared spreads, their number>>
          coverage, dropout,                        \* the worst, as quotients
          roundtrip,  \* device |-> error of its clock model
          verdict

world == <<observers, clocks, errors>>
inputs == <<events, world, delivery, gates>>
search == <<fit, dist, transform, conf, hops, parent, pq, visited,
            models, reachable, unreachable, paths, pc>>
measures == <<residual, coverage, dropout, roundtrip>>
vars == <<inputs, search, stage, located, measures, verdict>>

Affine(range) == [alpha : {1, -1}, beta : range]

Search == INSTANCE Reconcile WITH
            Fits <- [shared : Nat, used : DOMAIN CountLoss, residual : Nat,
                     map : Affine(Int)],
            Truths <- {}

Device == Search!Device
At(map, t) == map.alpha * t + map.beta

(* Thresholds on residuals are in microseconds, the others in percent. *)
Gate == [certified : Nat, release : Nat, hardfail : Nat \ {0},
         coverage : 0..100, dropout : 0..100]
ValidGates(g) == g.certified <= g.release /\ g.release <= g.hardfail

(* What became of a stream: samples expected and received, grid points in  *)
(* its span and how many of them are valid.                                *)
Delivery == [expected : Nat, received : Nat, points : Nat \ {0}, valid : Nat]

ASSUME DeviceAssumption == N \in Nat \ {0} /\ Ref \in 1..N
ASSUME LossAssumption == /\ MinEvents \in Nat /\ Clamp \in Nat
                         /\ DOMAIN CountLoss \subseteq Nat
                         /\ \A n \in DOMAIN CountLoss : CountLoss[n] \in Nat
ASSUME FitAssumption == Residuals \subseteq Nat /\ Wrong \subseteq Affine(Int)
ASSUME GateAssumption == \A g \in Gates : g \in Gate /\ ValidGates(g)
ASSUME ClockAssumption == \A c \in Clocks : c \in [Device -> Affine(Int)]
                                            /\ c[Ref] = Search!Identity
ASSUME ObservedAssumption == \A o \in Observed : /\ o \in Seq(SUBSET Device)
                                                 /\ 0..Len(o) \subseteq DOMAIN CountLoss
ASSUME ErrorAssumption == \A o \in Observed, e \in Errors :
                            \A i \in DOMAIN o, d \in Device : e[i][d] \in Int
ASSUME DeliveryAssumption == \A s \in Deliveries : /\ s \in [Device -> Delivery]
                                                   /\ \A d \in Device : s[d].valid <= s[d].points

-----------------------------------------------------------------------------
(* build_edges: what a pair of devices shares, and the fits it may get.    *)

Shared(p) == {i \in DOMAIN observers : p[1] \in observers[i] /\ p[2] \in observers[i]}

Exact(p) == Search!Compose(Search!Inverted(clocks[p[1]]), clocks[p[2]])

FitsOf(p) ==
    LET n == Cardinality(Shared(p))
    IN  [shared : {n}, used : {n},
         residual : IF n >= MinEvents THEN Residuals ELSE {0},
         map : IF n >= MinEvents THEN {Exact(p)} \cup Wrong ELSE {Search!Identity}]

Fitted == {f \in [Search!Pair -> UNION {FitsOf(p) : p \in Search!Pair}] :
             \A p \in Search!Pair : f[p] \in FitsOf(p)}

(* Event i happened at time i; a device writes down its own clock then. *)
Events == [i \in DOMAIN observers |->
             [d \in observers[i] |->
                At(Search!Inverted(clocks[d]), i) + errors[i][d]]]

Init == /\ observers \in Observed
        /\ clocks \in Clocks
        /\ errors \in Errors
        /\ events = Events
        /\ delivery \in Deliveries /\ gates \in Gates
        /\ fit \in Fitted
        /\ Search!Init
        /\ stage = "reconcile"
        /\ located = << >> /\ residual = <<0, 0>> /\ roundtrip = << >>
        /\ coverage = <<1, 1>> /\ dropout = <<0, 1>>
        /\ verdict = "none"

Reconciling ==
    /\ stage = "reconcile"
    /\ Search!Next
    /\ stage' = IF pc' = "done" THEN "locate" ELSE stage
    /\ UNCHANGED <<inputs, located, measures, verdict>>

-----------------------------------------------------------------------------
(* Slip: an event is placed where the device's own clock has it. *)
LocateSlip ==
    /\ stage = "locate"
    /\ located' = [d \in Device |-> {events[i][d] : i \in {j \in DOMAIN events : d \in DOMAIN events[j]}}]
    /\ stage' = "measure"
    /\ UNCHANGED <<inputs, search, measures, verdict>>

(* Every event a device observed, whether or not a fit has used it. *)
Locate ==
    /\ stage = "locate"
    /\ located' = [d \in Device |->
                     {At(models[d].map, events[i][d]) :
                        i \in {j \in DOMAIN events : d \in DOMAIN events[j]}}]
    /\ stage' = "measure"
    /\ UNCHANGED <<inputs, search, measures, verdict>>

-----------------------------------------------------------------------------
(* Slip: every observer counts. *)
UsableSlip(d) == d \in Device

(* A device has a usable model if it is the reference or has a confidence. *)
Usable(d) == d = Ref \/ models[d].conf # Search!NoConf

(* Where the usable observers of an event say it happened. *)
Places(e) == {At(models[d].map, e[d]) : d \in {x \in DOMAIN e : Usable(x)}}

Spread(e) == Max(Places(e)) - Min(Places(e))

Compared == {i \in DOMAIN events : Cardinality({d \in DOMAIN events[i] : Usable(d)}) >= 2}

(* The mean square of the spreads; <<0, 0>> if there is none. *)
ReconciliationResidual ==
    <<MapThenSumSet(LAMBDA i : Spread(events[i]) * Spread(events[i]), Compared),
      Cardinality(Compared)>>

RoundtripAccuracy ==
    [d \in Device \ {Ref} |-> [alpha |-> Abs(models[d].map.alpha - clocks[d].alpha),
                               beta  |-> Abs(models[d].map.beta - clocks[d].beta)]]

(* Quotients <<numerator, denominator>>. *)
Leq(q, r) == q[1] * r[2] <= r[1] * q[2]
Lowest(S) == CHOOSE q \in S : \A r \in S : Leq(q, r)
Highest(S) == CHOOSE q \in S : \A r \in S : Leq(r, q)

Coverage(s) == <<s.valid, s.points>>

(* Slip: a stream may deliver more than was expected. *)
DropoutSlip(s) == <<s.expected - s.received, s.expected>>

(* More samples than expected are no dropout, nor is a stream of which     *)
(* nothing is expected.                                                    *)
Dropout(s) == IF s.expected = 0 \/ s.received >= s.expected THEN <<0, 1>>
              ELSE <<s.expected - s.received, s.expected>>

Measure ==
    /\ stage = "measure"
    /\ residual' = ReconciliationResidual
    /\ coverage' = Lowest({Coverage(delivery[d]) : d \in Device})
    /\ dropout' = Highest({Dropout(delivery[d]) : d \in Device})
    /\ roundtrip' = RoundtripAccuracy
    /\ stage' = "judge"
    /\ UNCHANGED <<inputs, search, located, verdict>>

-----------------------------------------------------------------------------
(* The gate compares a root mean square with a threshold. *)
Below(resid, limit) == resid[1] < limit * limit * resid[2] \/ (resid[2] = 0 /\ limit > 0)

(* Slip: what is not certified is released, whatever its quality. *)
GateSlip(resid, cov, drop, g) ==
    LET ok == Leq(<<g.coverage, 100>>, cov) /\ Leq(drop, <<g.dropout, 100>>)
    IN  CASE ~Below(resid, g.hardfail) -> "blocked"
          [] Below(resid, g.hardfail) /\ Below(resid, g.certified) ->
               IF ok THEN "certified" ELSE "needs_review"
          [] OTHER -> IF Below(resid, g.release) THEN "release" ELSE "needs_review"

GateVerdict(resid, cov, drop, g) ==
    LET ok == Leq(<<g.coverage, 100>>, cov) /\ Leq(drop, <<g.dropout, 100>>)
    IN  IF ~Below(resid, g.hardfail) THEN "blocked"
        ELSE IF Below(resid, g.certified) /\ ok THEN "certified"
        ELSE IF Below(resid, g.release) /\ ok THEN "release"
        ELSE "needs_review"

Judge ==
    /\ stage = "judge"
    /\ verdict' = GateVerdict(residual, coverage, dropout, gates)
    /\ stage' = "done"
    /\ UNCHANGED <<inputs, search, located, measures>>

Next == Reconciling \/ Locate \/ Measure \/ Judge

Spec == Init /\ [][Next]_vars

-----------------------------------------------------------------------------
(* Properties. *)

Verdict == {"blocked", "needs_review", "release", "certified"}
Measured == stage \in {"judge", "done"}

(* Coverage and dropout are fractions, errors and spreads not negative. *)
TypeOK ==
    /\ stage \in {"reconcile", "locate", "measure", "judge", "done"}
    /\ verdict \in Verdict \cup {"none"}
    /\ \A q \in {coverage, dropout} : Leq(<<0, 1>>, q) /\ Leq(q, <<1, 1>>)
    /\ residual[1] \in Nat /\ residual[2] \in 0..Len(events)
    /\ stage # "reconcile" => DOMAIN models = Device

(* Two devices that share enough events. *)
Joined(u, v) ==
    u # v /\ Cardinality({i \in DOMAIN events : {u, v} \subseteq DOMAIN events[i]}) >= MinEvents

(* Devices around the reference that share too few events with any other.  *)
CutOff(S) == Ref \in S /\ \A u \in S, v \in Device \ S : ~Joined(u, v)

(* Exactly the devices that no such cut separates from the reference are   *)
(* reported reachable: those that chains of shared events lead to.         *)
ReachableByEvents ==
    stage # "reconcile" =>
        reachable = {d \in Device : \A S \in SUBSET Device : CutOff(S) => d \in S}

(* What the stages hand on is in range, and reaches whom it should.        *)
EngineInv == TypeOK /\ ReachableByEvents

Accurate(d) == roundtrip[d] = [alpha |-> 0, beta |-> 0]

(* Observations without error. *)
Clean == \A i \in DOMAIN events : \A d \in DOMAIN events[i] : errors[i][d] = 0

(* If nothing was observed wrongly, the residual tells the truth: it is    *)
(* zero exactly if every reachable device has its true clock, by the       *)
(* accuracy that the ground truth shows.  What unreachable devices saw,    *)
(* and by which path a device was reached, does not matter.                *)
ResidualTellsTruth ==
    (Measured /\ Clean) =>
        (residual[1] = 0) <=> (\A d \in reachable \ {Ref} : Accurate(d))

(* Where a device that has its true clock saw an event without error, the  *)
(* event is placed at the time it happened, for the decay of confidences.  *)
EventsLocated ==
    (stage \notin {"reconcile", "locate"} /\ Clean) =>
        \A d \in reachable : models[d].map = clocks[d] =>
            located[d] = {i \in DOMAIN events : d \in observers[i]}

(* Metrics that are as good or better never get a worse verdict, and a     *)
(* stream of low coverage or high dropout never passes.                    *)
Grade == [v \in Verdict |-> CASE v = "blocked" -> 0 [] v = "needs_review" -> 1
                              [] v = "release" -> 2 [] OTHER -> 3]

VerdictMonotone ==
    stage = "done" =>
        /\ \A s \in 0..residual[1], n \in coverage[1]..coverage[2], m \in 0..dropout[1] :
             Grade[verdict] <= Grade[GateVerdict(<<s, residual[2]>>, <<n, coverage[2]>>,
                                                 <<m, dropout[2]>>, gates)]
        /\ \A d \in Device :
             (\/ 100 * delivery[d].valid < gates.coverage * delivery[d].points
              \/ 100 * (delivery[d].expected - delivery[d].received)
                   > gates.dropout * delivery[d].expected)
             => verdict \in {"blocked", "needs_review"}
=============================================================================

----------------------------- MODULE Detectors -----------------------------
(***************************************************************************)
(* From signals to events: the scenario runner's `detect_scenario`, the    *)
(* peak finder of detect/detector.py, the detector failures of             *)
(* detect/corrupt.py and, on what they leave, the grouping of              *)
(* Association.  The model knows what the devices saw, so the events can   *)
(* be held against it.                                                     *)
(***************************************************************************)
EXTENDS Association, SequencesExt

CONSTANTS DeviceOrder,   \* the devices in the order of the dict of detections
          Fiducials,     \* instants in reference time
          TrueShift,     \* device |-> true offset of its clock
          Width,         \* how far an impulse stays above the threshold
          Duration, SampleStep, \* of a signal
          Jitter,        \* dup_jitter_us
          Noise,         \* bound of a perturbation
          MaxFaults      \* bound on how many times detection fails

ASSUME DetectorAssumption ==
    /\ IsFiniteSet(Device) /\ DeviceOrder \in Seq(Device) /\ ToSet(DeviceOrder) = Device
    /\ Len(DeviceOrder) = Cardinality(Device)
    /\ Fiducials \subseteq Int /\ IsFiniteSet(Fiducials) /\ TrueShift \in [Device -> Int]
    /\ {Width, Jitter, Noise, MaxFaults} \subseteq Nat /\ {Duration, SampleStep} \subseteq Nat \ {0}

VARIABLES visible,     \* device |-> the fiducials it observes
          stage,
          detections,  \* device |-> sequence of local times
          todo,        \* the devices whose detections are still as detected
          faults,      \* failures so far
          fabricated   \* a detection of nothing is among them

detectVars == <<visible, stage, detections, todo, faults, fabricated>>

-----------------------------------------------------------------------------
(* The signal of a device: samples at regular times and at those of the    *)
(* impulses, which are the highest; levels above 0 are over the threshold. *)
Seen(d) == {f - TrueShift[d] : f \in visible[d]}

Level(d, t) == IF t \in Seen(d) THEN 2
               ELSE IF \E o \in Seen(d) : Abs(t - o) <= Width THEN 1 ELSE 0

EventSignal(d) ==
    LET base == {SampleStep * k : k \in 0..(Duration - 1) \div SampleStep}
        times == Ascending(base \cup Seen(d))
    IN  [i \in DOMAIN times |-> [t |-> times[i], v |-> Level(d, times[i])]]

(* The samples of the region over the threshold that starts at i. *)
Region(s, i) == {j \in i..Len(s) : \A k \in i..j : s[k].v > 0}

(* Slip: a peak is reported where the region starts. *)
PeakSlip(s, i) == i

(* The first of the highest samples of a region. *)
Peak(s, i) ==
    CHOOSE j \in Region(s, i) :
        \A k \in Region(s, i) : s[k].v < s[j].v \/ (s[k].v = s[j].v /\ j <= k)

FindImpulsePeaks(s) ==
    LET starts == {i \in DOMAIN s : s[i].v > 0 /\ (i > 1 => s[i - 1].v = 0)}
        order == Ascending(starts)
    IN  [k \in DOMAIN order |-> s[Peak(s, order[k])].t]

-----------------------------------------------------------------------------
Grouping == Init /\ stage = "group"

Detecting == /\ entries = << >> /\ next = 1 /\ clusters = << >> /\ events = << >>
             /\ done = FALSE /\ stage = "detect"

(* The pipeline from the signals, or associate_detections by itself. *)
DetectInit ==
    /\ \/ visible \in [Device -> SUBSET Fiducials] /\ Detecting
       \/ visible = [d \in Device |-> {}] /\ Grouping
    /\ detections = [d \in Device |-> << >>]
    /\ todo = << >> /\ faults = 0 /\ fabricated = FALSE

Detect ==
    /\ stage = "detect"
    /\ detections' = [d \in Device |-> FindImpulsePeaks(EventSignal(d))]
    /\ stage' = "corrupt" /\ todo' = DeviceOrder
    /\ UNCHANGED <<vars, visible, faults, fabricated>>

(* Detections of one device are lost, repeated nearby, made up, and moved, *)
(* in this order, and sorted.                                              *)
Corrupt ==
    /\ stage = "corrupt" /\ todo # << >>
    /\ LET d == Head(todo)
           t == detections[d]
           left == MaxFaults - faults
       IN  \E lost, copied \in SUBSET DOMAIN t :
             /\ lost \cap copied = {} /\ Cardinality(lost \cup copied) <= left
             /\ \E off \in [copied -> -Jitter..Jitter] :
                \E extra \in BoundedSeq(0..Duration - 1, left - Cardinality(lost \cup copied)) :
                  LET kept == Ascending(DOMAIN t \ lost)
                      twice == Ascending(copied)
                      all == [k \in DOMAIN kept |-> t[kept[k]]]
                             \o [k \in DOMAIN twice |-> t[twice[k]] + off[twice[k]]]
                             \o extra
                  IN  \E moved \in SUBSET DOMAIN all :
                      \E by \in [moved -> (-Noise..Noise) \ {0}] :
                        /\ faults' = faults + Cardinality(lost \cup copied)
                                       + Len(extra) + Cardinality(moved)
                        /\ faults' <= MaxFaults
                        /\ detections' = [detections EXCEPT ![d] =
                             Sort([k \in DOMAIN all |->
                                     all[k] + IF k \in moved THEN by[k] ELSE 0])]
                        /\ fabricated' = (fabricated \/ extra # << >>)
    /\ todo' = Tail(todo)
    /\ UNCHANGED <<vars, visible, stage>>

Associate ==
    /\ stage = "corrupt" /\ todo = << >>
    /\ LET Of(d) == [i \in DOMAIN detections[d] |-> [dev |-> d, lt |-> detections[d][i]]]
       IN  entries' = Sorted(Common(FlattenSeq([k \in DOMAIN DeviceOrder |-> Of(DeviceOrder[k])])))
    /\ stage' = "group"
    /\ UNCHANGED <<next, clusters, events, done, visible, detections, todo, faults, fabricated>>

Group == stage = "group" /\ Next /\ UNCHANGED detectVars

DetectNext == Detect \/ Corrupt \/ Associate \/ Group

DetectSpec == DetectInit /\ [][DetectNext]_<<vars, detectVars>>

-----------------------------------------------------------------------------
(* A detection of a fiducial is off by a copy's jitter and a perturbation. *)
Detects(d, f) == {i \in DOMAIN detections[d] :
                    Abs(detections[d][i] - (f - TrueShift[d])) <= Jitter + Noise}

Detected(f) == {d \in Device : Detects(d, f) # {}}

(* Coarse clocks, failures and the tolerance leave no doubt: detections of *)
(* one fiducial are within the tolerance of each other, and of none else;  *)
(* and where two events need not have an observer in common, they come in  *)
(* the order of the fiducials.                                             *)
Clear ==
    \A f, g \in Fiducials : \A d, e \in Device :
        \A i \in Detects(d, f) : \A j \in Detects(e, g) :
            LET gap == (detections[e][j] + Shift[e]) - (detections[d][i] + Shift[d])
            IN  /\ Abs(gap) <= Tolerance <=> f = g
                /\ f < g => gap > 0 \/ 2 * MinObservers > Cardinality(Device)

(* As long as detectors fail by losing, repeating and moving detections,   *)
(* the events are the fiducials that enough devices detected, in order,    *)
(* each with all of those as observers, at times they detected it; and at  *)
(* the true times if no detector failed.                                   *)
EventsAreFiducials ==
    (done /\ visible # [d \in Device |-> {}] /\ ~fabricated /\ Clear) =>
        LET shared == {f \in Fiducials : /\ Detected(f) # {}
                                     /\ Cardinality(Detected(f)) >= MinObservers}
            order == Ascending(shared)
        IN  /\ Len(events) = Len(order)
            /\ \A k \in DOMAIN order :
                 /\ DOMAIN events[k] = Detected(order[k])
                 /\ \A d \in DOMAIN events[k] :
                      /\ \E i \in Detects(d, order[k]) : events[k][d] = detections[d][i]
                      /\ faults = 0 => events[k][d] = order[k] - TrueShift[d]
=============================================================================

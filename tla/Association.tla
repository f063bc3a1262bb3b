---------------------------- MODULE Association ----------------------------
(***************************************************************************)
(* Grouping detections of several devices into events:                     *)
(* `associate_detections` and `match_detections` of detect/matcher.py.     *)
(*                                                                         *)
(* Detections are brought into a coarse common frame and sorted by time.   *)
(* One pass over them grows clusters greedily: a detection near enough to  *)
(* the centroid of the newest cluster goes there, any other opens a new    *)
(* cluster; a cluster holds one detection per device.  A detection is held *)
(* by its position in the sorted list.  The centroid is a quotient, so     *)
(* distances to it are compared after multiplying by the divisor.          *)
(***************************************************************************)
EXTENDS Arrays

CONSTANTS Device,
          Tolerance,      \* association_tolerance_us
          MinObservers,   \* devices a cluster needs to become an event
          Shift,          \* device |-> offset of its coarse clock
          Inputs          \* lists of detections, device after device

(* A detection: its device and its time on that device's clock; and what   *)
(* it becomes in the common frame.                                         *)
Detection == [dev : Device, lt : Int]
Entry == [ct : Int, dev : Device]

ASSUME ToleranceAssumption == Tolerance \in Nat \ {0} /\ MinObservers \in Nat
ASSUME ShiftAssumption == Shift \in [Device -> Int]
ASSUME InputAssumption == Inputs \subseteq Seq(Detection)

VARIABLES entries,    \* the sorted detections
          next,       \* the position of the next one to be placed
          clusters,   \* sequence of [held, sum, cnt]
          events,     \* the result: sequence of device |-> local time
          done

vars == <<entries, next, clusters, events, done>>

-----------------------------------------------------------------------------
(* The detections in the common frame, in a stable sort by their times.    *)
(* A coarse clock is a shift: the rate it may also have is 1 wherever the  *)
(* program gives one.                                                      *)
Common(s) == [i \in DOMAIN s |-> [ct |-> s[i].lt + Shift[s[i].dev], dev |-> s[i].dev]]

(* Slip: the detections are not sorted. *)
SortedSlip(s) == s

Sorted(s) == SortedBy(s, [i \in DOMAIN s |-> s[i].ct])

Newest == clusters[Len(clusters)]

(* cnt times the distance of a common time from the centroid of c. *)
Distance(t, c) == Abs(t * c.cnt - c.sum)

Within(t, c) == Distance(t, c) <= Tolerance * c.cnt

(* Slip: the detections of the other devices are let go. *)
HoldingSlip(held, p) == [d \in {entries[p].dev} |-> p]

(* `held` with the detection at position p taken for its device. *)
Holding(held, p) ==
    [d \in DOMAIN held \cup {entries[p].dev} |->
        IF d = entries[p].dev THEN p ELSE held[d]]

Local(e) == e.ct - Shift[e.dev]

(* Slip: an event reports common times. *)
ObservationsSlip(c) == [d \in DOMAIN c.held |-> entries[c.held[d]].ct]

Observations(c) == [d \in DOMAIN c.held |-> Local(entries[c.held[d]])]

-----------------------------------------------------------------------------
Init == /\ \E s \in Inputs : entries = Sorted(Common(s))
        /\ next = 1
        /\ clusters = << >>
        /\ events = << >>
        /\ done = FALSE

Current == entries[next]

Fits == clusters # << >> /\ Within(Current.ct, Newest)

Placing == next <= Len(entries)

Advance == next' = next + 1 /\ UNCHANGED <<entries, events, done>>

Open ==
    /\ Placing /\ ~Fits
    /\ clusters' = Append(clusters, [held |-> [d \in {Current.dev} |-> next],
                                     sum |-> Current.ct, cnt |-> 1])
    /\ Advance

Join ==
    /\ Placing /\ Fits
    /\ Current.dev \notin DOMAIN Newest.held
    /\ clusters' = [clusters EXCEPT ![Len(clusters)] =
                      [held |-> Holding(Newest.held, next),
                       sum |-> Newest.sum + Current.ct, cnt |-> Newest.cnt + 1]]
    /\ Advance

(* The device is there already: the nearer of its two detections stays.    *)
(* The sum and the count keep the one that was there first.                *)
Nearer == Distance(Current.ct, Newest)
            < Distance(entries[Newest.held[Current.dev]].ct, Newest)

Replace ==
    /\ Placing /\ Fits
    /\ Current.dev \in DOMAIN Newest.held
    /\ Nearer
    /\ clusters' = [clusters EXCEPT ![Len(clusters)] =
                      [held |-> Holding(Newest.held, next),
                       sum |-> Newest.sum, cnt |-> Newest.cnt]]
    /\ Advance

Ignore ==
    /\ Placing /\ Fits
    /\ Current.dev \in DOMAIN Newest.held
    /\ ~Nearer
    /\ UNCHANGED clusters
    /\ Advance

Enough(c) == Cardinality(DOMAIN c.held) >= MinObservers

(* The clusters with enough observers, in the order they were opened. *)
Kept == Ascending({k \in 1..Len(clusters) : Enough(clusters[k])})

Finish ==
    /\ ~Placing /\ ~done
    /\ events' = [k \in DOMAIN Kept |-> Observations(clusters[Kept[k]])]
    /\ done' = TRUE
    /\ UNCHANGED <<entries, next, clusters>>

Next == Open \/ Join \/ Replace \/ Ignore \/ Finish

Spec == Init /\ [][Next]_vars

-----------------------------------------------------------------------------
(* match_detections: the k-th detection of every device, if all devices    *)
(* have as many.                                                           *)
Positions(d) == {p \in 1..Len(entries) : entries[p].dev = d}

Nth(d, k) == CHOOSE p \in Positions(d) :
                Cardinality({q \in Positions(d) : q <= p}) = k

Matched == [k \in 1..Cardinality(Positions(CHOOSE d \in Device : TRUE)) |->
              [d \in Device |-> Local(entries[Nth(d, k)])]]

EqualCounts == \A d, e \in Device :
                 Cardinality(Positions(d)) = Cardinality(Positions(e))

-----------------------------------------------------------------------------
(* Properties. *)

Cluster == 1..Len(clusters)

(* A cluster holds placed detections, each under its own device, and its   *)
(* divisor is the number of devices it holds.                              *)
TypeOK ==
    /\ entries \in Seq(Entry)
    /\ next \in 1..Len(entries) + 1
    /\ \A k \in Cluster :
         LET c == clusters[k] IN
         /\ DOMAIN c.held \subseteq Device
         /\ \A d \in DOMAIN c.held : c.held[d] \in 1..next - 1 /\ entries[c.held[d]].dev = d
         /\ c.sum \in Int /\ c.cnt = Cardinality(DOMAIN c.held)
    /\ done \in BOOLEAN

(* Two events never cross: a pair of devices sees them in the same order,  *)
(* so the time pairs an edge is fitted to never run backwards.             *)
NoCrossing ==
    \A j, k \in DOMAIN events : j < k =>
        \A d \in DOMAIN events[j] \cap DOMAIN events[k] :
            events[j][d] <= events[k][d]

(* No observer is lost: between the first detections of two clusters,      *)
(* every device that detected something is an observer of the first, even  *)
(* if each of its detections was in turn replaced or ignored.              *)
FirstOf(c) == CHOOSE p \in {c.held[d] : d \in DOMAIN c.held} :
                \A d \in DOMAIN c.held : p <= c.held[d]

NoObserverLost ==
    \A p \in 1..next - 1 :
        \E k \in Cluster :
            /\ entries[p].dev \in DOMAIN clusters[k].held
            /\ \A j \in 1..k - 1 : FirstOf(clusters[j]) < p
            /\ \A j \in k + 1..Len(clusters) : p < FirstOf(clusters[j])

(* The clusters account for every detection placed, each divisor for the   *)
(* detections its cluster holds, and events do not cross.                  *)
ClusterInv == TypeOK /\ NoObserverLost /\ NoCrossing

(* When "within tolerance" sorts the detections into classes, the events   *)
(* are those classes with enough observers: no fiducial is split, none are *)
(* merged, and none is invented.                                           *)
Close(p, q) == Abs(entries[p].ct - entries[q].ct) <= Tolerance

WellSeparated ==
    \A p, q, r \in 1..Len(entries) : Close(p, q) /\ Close(q, r) => Close(p, r)

ClassDevices(p) == {entries[q].dev : q \in {r \in 1..Len(entries) : Close(p, r)}}

FindsFiducials ==
    (done /\ WellSeparated) =>
        /\ {DOMAIN events[k] : k \in DOMAIN events}
          = {D \in {ClassDevices(p) : p \in 1..Len(entries)} : Cardinality(D) >= MinObservers}
        /\ \A k \in Cluster : \A d, e \in DOMAIN clusters[k].held :
             Close(clusters[k].held[d], clusters[k].held[e])

(* Where the earlier equal-count matcher applies - every device detected   *)
(* every well-separated fiducial once - both give the same events.         *)
SeenByAll == \A p \in 1..Len(entries) :
               /\ ClassDevices(p) = Device
               /\ \A q \in 1..Len(entries) :
                    Close(p, q) /\ entries[p].dev = entries[q].dev => p = q

AgreesWithMatch ==
    (done /\ WellSeparated /\ SeenByAll /\ EqualCounts /\ MinObservers <= Cardinality(Device))
        => events = Matched

(* Well-separated fiducials are found, as the other matcher finds them.    *)
FiducialInv == FindsFiducials /\ AgreesWithMatch

(* Only the newest cluster changes, and no cluster loses an observer. *)
ClosedStaysClosed ==
    [][\A k \in Cluster :
         /\ k < Len(clusters) => clusters'[k] = clusters[k]
         /\ DOMAIN clusters[k].held \subseteq DOMAIN clusters'[k].held]_vars
=============================================================================

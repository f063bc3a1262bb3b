------------------------------ MODULE Timeline ------------------------------
(***************************************************************************)
(* The timeline stage of the engine: the samples of every stream are       *)
(* corrected to reference time by the clock model of their device, a grid  *)
(* is laid over their common span, every stream is joined to the grid, and *)
(* every grid point gets its confidence components.  `synchronize` steps 2 *)
(* and 3 of sync/engine.py, TimelineBuilder.build of sync/timeline.py,     *)
(* asof_join of sync/join.py, build_confidence of sync/confidence.py.      *)
(*                                                                         *)
(* Rates, weights and confidences are quotients; their numerators are kept *)
(* (1 - gap/tolerance as tolerance - gap).  The clock component falls with *)
(* the distance to the nearest event, and that distance is kept.           *)
(***************************************************************************)
EXTENDS Subframe

CONSTANTS Stream,
          Kernel,       \* stream |-> "hold" or "continuous"
          Tolerance,    \* rejection_tolerance_us
          Recordings,   \* what the streams may be: stream |-> [times, clock, events]
          Steps         \* grid steps 1e6 / grid_rate_hz, as [num, den]

(* The local times of a stream's samples, the clock model of its device,   *)
(* t |-> (num * t + off) / den, and the reference times of the events that *)
(* device observed (empty if the confidence is not to decay).              *)
Clock == [num : Int, off : Int, den : Nat \ {0}]
Recording == [times : Seq(Int), clock : Clock, events : Seq(Int)]

ASSUME StreamAssumption == IsFiniteSet(Stream)
ASSUME ToleranceAssumption == Tolerance \in Nat \ {0}
ASSUME KernelAssumption == Kernel \in [Stream -> {"hold", "continuous"}]
ASSUME RecordingAssumption == \A r \in Recordings : r \in [Stream -> Recording]
ASSUME StepAssumption == Steps \subseteq [num : Nat \ {0}, den : Nat \ {0}]

VARIABLES recorded,     \* the recordings
          step,         \* the grid step
          pc,           \* "correct", "grid", "join", "score", "done" or "failed"
          corrected,    \* stream |-> sample times in reference time
          grid,         \* the grid's points
          aligned,      \* stream |-> grid position |-> join result
          confidence    \* stream |-> grid position |-> confidence components

vars == <<recorded, step, pc, corrected, grid, aligned, confidence>>

Init == /\ recorded \in Recordings
        /\ step \in Steps
        /\ pc = "correct"
        /\ corrected = << >> /\ grid = << >> /\ aligned = << >> /\ confidence = << >>

-----------------------------------------------------------------------------
ToReference(clock, t) == Round(clock.num * t + clock.off, clock.den)

Correct ==
    /\ pc = "correct"
    /\ corrected' = [s \in Stream |->
                       [i \in DOMAIN recorded[s].times |->
                          ToReference(recorded[s].clock, recorded[s].times[i])]]
    /\ pc' = "grid"
    /\ UNCHANGED <<recorded, step, grid, aligned, confidence>>

-----------------------------------------------------------------------------
(* The span of all samples, and a grid of whole steps from its start. *)
Instants == UNION {{corrected[s][i] : i \in DOMAIN corrected[s]} : s \in Stream}

First == CHOOSE t \in Instants : \A u \in Instants : t <= u
Last == CHOOSE t \in Instants : \A u \in Instants : u <= t

(* Slip: the grid starts at zero. *)
PointSlip(k) == Round((k - 1) * step.num, step.den)

Point(k) == First + Round((k - 1) * step.num, step.den)

Points == ((Last - First) * step.den) \div step.num + 1

BuildGrid ==
    /\ pc = "grid"
    /\ Instants # {}
    /\ grid' = [k \in 1..Points |-> Point(k)]
    /\ pc' = "join"
    /\ UNCHANGED <<recorded, step, corrected, aligned, confidence>>

(* No stream has a sample: the builder refuses. *)
NoSamples ==
    /\ pc = "grid"
    /\ Instants = {}
    /\ pc' = "failed"
    /\ UNCHANGED <<recorded, step, corrected, grid, aligned, confidence>>

-----------------------------------------------------------------------------
(* The distances from a grid point to the samples its kernel may use. *)
Gaps(s, kernel, g) ==
    LET p == SearchRight(s, g)
    IN  {g - s[i] : i \in {p} \ {0}}
        \cup {s[i] - g : i \in IF kernel = "continuous" THEN {p + 1} \cap DOMAIN s ELSE {}}

(* Slip: a sample at the grid point itself is not yet the latest. *)
LatestSlip(s, g) == SearchLeft(s, g)

Latest(s, g) == SearchRight(s, g)

JoinAt(s, kernel, g) ==
    LET p == Latest(s, g)
        n == IF kernel = "continuous" /\ p < Len(s) THEN p + 1 ELSE 0
        near == {x \in Gaps(s, kernel, g) : x <= Tolerance}
    IN  [source |-> p,
         next   |-> n,
         weight |-> IF p > 0 /\ n > 0 THEN <<g - s[p], s[n] - s[p]>> ELSE <<0, 1>>,
         valid  |-> near # {},
         interp |-> IF near = {} THEN 0
                    ELSE Tolerance - CHOOSE x \in near : \A y \in near : x <= y]

Join ==
    /\ pc = "join"
    /\ aligned' = [s \in Stream |->
                     LET sorted == Sort(corrected[s])
                     IN  [k \in DOMAIN grid |-> JoinAt(sorted, Kernel[s], grid[k])]]
    /\ pc' = "score"
    /\ UNCHANGED <<recorded, step, corrected, grid, confidence>>

-----------------------------------------------------------------------------
(* Slip: only the event that follows counts. *)
AwaySlip(events, g) == Abs(g - events[Clip(SearchLeft(events, g) + 1, 1, Len(events))])

(* The nearer of the two events around g. *)
Away(events, g) ==
    LET n == Len(events)
        pos == Clip(SearchLeft(events, g) + 1, 1, n)
        left == Clip(pos - 1, 1, n)
        a == Abs(g - events[pos])
        b == Abs(g - events[left])
    IN  IF a < b THEN a ELSE b

(* The clock component of a point: its distance to an event, -1 for 0.     *)
(* `source` is 1 at a valid point; that a caller may give a confidence per *)
(* sample for it is left out, as the engine gives none (engine.py:108).    *)
Zero == [source |-> FALSE, away |-> -1, interp |-> 0]

ComponentsAt(a, events, g) ==
    IF ~a.valid THEN Zero
    ELSE [source |-> TRUE,
          away   |-> IF events = << >> THEN 0 ELSE Away(Sort(events), g),
          interp |-> a.interp]

Score ==
    /\ pc = "score"
    /\ confidence' = [s \in Stream |->
                        [k \in DOMAIN grid |->
                           ComponentsAt(aligned[s][k], recorded[s].events, grid[k])]]
    /\ pc' = "done"
    /\ UNCHANGED <<recorded, step, corrected, grid, aligned>>

Next == Correct \/ BuildGrid \/ NoSamples \/ Join \/ Score

Spec == Init /\ [][Next]_vars

-----------------------------------------------------------------------------
(* Properties. *)

Joined == pc \in {"score", "done"}
TimesOf(s) == {corrected[s][i] : i \in DOMAIN corrected[s]}

(* The results have the shape their classes declare: indices of samples,   *)
(* weights from 0 to below 1, confidences from 0 to 1.                     *)
TypeOK ==
    /\ recorded \in [Stream -> Recording] /\ step \in Steps
    /\ pc \in {"correct", "grid", "join", "score", "done", "failed"}
    /\ pc # "correct" => corrected \in [Stream -> Seq(Int)]
    /\ Joined => \A s \in Stream, k \in DOMAIN grid :
         LET a == aligned[s][k] IN
         /\ a.source \in 0..Len(corrected[s]) /\ a.next \in 0..Len(corrected[s])
         /\ 0 <= a.weight[1] /\ a.weight[1] < a.weight[2]
         /\ a.valid \in BOOLEAN /\ a.interp \in 0..Tolerance
    /\ pc = "done" => \A s \in Stream : DOMAIN confidence[s] = DOMAIN grid

(* The grid starts with the first sample of any stream, stays within the   *)
(* samples' span and reaches its last step; with steps of a microsecond or *)
(* more it never stands still and no step is more than twice another,      *)
(* which the validation report claims of it.                               *)
GridWellFormed ==
    (Joined \/ pc = "join") =>
        LET n == Len(grid) IN
        /\ grid[1] = First
        /\ \A k \in 1..n : grid[k] \in First..Last
        /\ (Last - grid[n]) * step.den < step.num + step.den
        /\ step.num >= step.den =>
             \A j, k \in 1..n - 1 :
                 /\ grid[j] < grid[j + 1]
                 /\ grid[j + 1] - grid[j] <= 2 * (grid[k + 1] - grid[k])

(* A sound grid, and on it results of the shape their classes declare.     *)
GridInv == TypeOK /\ GridWellFormed

(* A grid point is valid exactly when a real sample its kernel may use -   *)
(* for a hold stream, none from the future - is within the tolerance, and  *)
(* its confidence falls with the distance of the nearest such sample.      *)
Usable(s, g) == {t \in TimesOf(s) : Kernel[s] = "hold" => t <= g}

NoFabrication ==
    Joined => \A s \in Stream, k \in DOMAIN grid :
        LET a == aligned[s][k]
            g == grid[k]
        IN  /\ a.valid <=> \E t \in Usable(s, g) : Abs(g - t) <= Tolerance
            /\ \A t \in Usable(s, g) : Tolerance - Abs(g - t) <= a.interp
            /\ ~a.valid => a.interp = 0

(* In a recording in order of time, on a clock that runs forwards, the     *)
(* indices are those of the recorded samples: the latest at or before the  *)
(* grid point and, to interpolate, the earliest after it.                  *)
InOrder(s) == recorded[s].clock.num > 0 /\ NonDecreasing(recorded[s].times)

Bracket ==
    Joined => \A s \in Stream, k \in DOMAIN grid : InOrder(s) =>
        LET a == aligned[s][k]
            g == grid[k]
        IN  /\ \A i \in DOMAIN corrected[s] : corrected[s][i] <= g <=> i <= a.source
            /\ a.next # 0 => a.next = a.source + 1
            /\ a.next = 0 <=> Kernel[s] = "hold" \/ a.source = Len(corrected[s])

(* What the join makes of a stream: no value without a near sample, and    *)
(* none from a sample that is not next to the grid point.                  *)
JoinInv == NoFabrication /\ Bracket

(* Where a stream is invalid every component is zero; elsewhere the clock  *)
(* component is that of the event nearest to the grid point.               *)
Scored ==
    pc = "done" => \A s \in Stream, k \in DOMAIN grid :
        LET c == confidence[s][k]
            away == {Abs(grid[k] - recorded[s].events[i]) : i \in DOMAIN recorded[s].events}
        IN  IF ~aligned[s][k].valid THEN c = Zero
            ELSE /\ \A x \in away : c.away <= x
                 /\ c.away \in IF away = {} THEN {0} ELSE away

(* Frames no longer and samples no closer than their rates say. *)
Rated(a, h, frame, period) ==
    /\ \A i \in 1..Len(a) - 1 : a[i + 1] - a[i] <= frame
    /\ \A i \in 1..Len(h) - 1 : h[i + 1] - h[i] >= period

(* Streams bucketed onto the frames of another: a bucket holds samples of  *)
(* its own frame only, the first ones, and all of them if they fit; "so no *)
(* high-rate sample is discarded" (sync/join.py:104), they do fit if R is  *)
(* what compute_R gives for the rates.                                     *)
BucketsFaithful ==
    pc = "grid" => \A s, t \in Stream, R \in 1..3 :
        (InOrder(s) /\ Len(corrected[s]) >= 2) =>
            LET a == corrected[s]
                h == Sort(corrected[t])
                B == Buckets(a, corrected[t], R)
            IN  \A k \in DOMAIN B :
                  LET frame == {i \in DOMAIN h : a[k] <= h[i] /\ h[i] < a[k + 1]}
                      held == {B[k].index[i] : i \in 1..R}
                  IN  /\ B[k].valid <=> frame # {}
                      /\ B[k].valid => held \subseteq frame /\ Cardinality(held) = B[k].count
                      /\ (\/ Cardinality(frame) <= R
                          \/ \E length \in 1..4, period \in 1..3 :
                               Rated(a, h, length, period) /\ R = ComputeR(length, period))
                         => B[k].count = Cardinality(frame)
                      /\ \A i \in held, j \in frame \ held : i < j

(* "A value held or interpolated across a gap exceeding the rejection      *)
(* tolerance `tau` is marked invalid" (docs/CONTRACT.md:227).              *)
GapsFlagged ==
    Joined => \A s \in Stream, k \in DOMAIN grid :
        LET a == aligned[s][k]
            t == Sort(corrected[s])
        IN  (a.valid /\ a.weight[1] > 0) => t[a.next] - t[a.source] <= Tolerance
=============================================================================

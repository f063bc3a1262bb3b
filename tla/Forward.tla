------------------------------ MODULE Forward ------------------------------
(***************************************************************************)
(* The forward clock, clock/forward.py, as scenarios/ drive it: a device's *)
(* stream is stamped and loses samples, the events it sees are observed on *)
(* its own clock, and the estimator is given what came out, to recover the *)
(* clock that went in.                                                     *)
(*                                                                         *)
(* A true clock runs at a rate per stretch of the session, all of them of  *)
(* the same length; a plain one has a single stretch.  Random numbers are  *)
(* any choice, jitter one of at most a unit at one event.                  *)
(***************************************************************************)
EXTENDS Estimate

CONSTANTS Sessions, \* records: the times `due` of a stream, in units of 1/Scale,
                    \* its `loss`, the true `clock` (rates, each <<num, den>>, and
                    \* beta), and the reference times `happen` of the events
          Scale,    \* units per microsecond
          Length    \* of a stretch of the session, in reference time

ASSUME ForwardAssumption ==
    /\ Scale \in Nat \ {0} /\ Length \in Nat \ {0}
    /\ \A s \in Sessions : /\ s.due \in Seq(Int)
                           /\ s.happen \in Seq(Nat) /\ NonDecreasing(s.happen)
                           /\ s.loss \in {"none", "bernoulli", "gilbert"}
                           /\ s.clock.beta \in Int /\ Len(s.clock.rates) > 0
                           /\ s.clock.rates \in Seq((Nat \ {0}) \X (Nat \ {0}))

VARIABLES due,     \* the schedule of the stream
          loss,    \* which loss model there is
          stamps,  \* its timestamps
          kept,    \* the samples that are not lost
          next,    \* the sample the loss model decides about
          bad,     \* the state of the Gilbert model
          clock,   \* the true clock
          happen,  \* the reference times of the events
          jittered \* some observation has jitter

stream == <<due, loss, stamps, kept, next, bad>>
world == <<clock, happen, jittered>>
forwardVars == <<stream, world, vars>>

ForwardInit ==
    /\ \E s \in Sessions : due = s.due /\ loss = s.loss /\ clock = s.clock /\ happen = s.happen
    /\ stamps = << >> /\ kept = {} /\ next = 1 /\ bad = FALSE
    /\ jittered = FALSE
    /\ x = << >> /\ y = << >>
    /\ count = (IF Len(clock.rates) = 1 THEN 0 ELSE Len(clock.rates)) /\ refine = TRUE
    /\ iter = 0 /\ best = {} /\ tried = {}
    /\ fitted = {} /\ mask = {} /\ segments = << >> /\ served = << >>
    /\ pc = "stamp"

-----------------------------------------------------------------------------
(* enforce_monotonic_int_us *)

RunningMax(s) == [i \in DOMAIN s |-> Max({s[j] : j \in 1..i})]

(* An element no later than the one before it is moved by its index. *)
Nudged(s) == [i \in DOMAIN s |-> IF i > 1 /\ s[i] <= s[i - 1] THEN s[i] + (i - 1) ELSE s[i]]

(* Slip: what was moved may pass the elements after it. *)
EnforcedSlip(s) ==
    LET m == Nudged(RunningMax(s))
    IN  IF s # << >> /\ m[1] < 0 THEN [i \in DOMAIN s |-> m[i] - m[1]] ELSE m

Enforced(s) ==
    LET m == RunningMax(Nudged(RunningMax(s)))
    IN  IF s # << >> /\ m[1] < 0 THEN [i \in DOMAIN s |-> m[i] - m[1]] ELSE m

(* _stream_local, up to the loss. *)
Stamp ==
    /\ pc = "stamp"
    /\ stamps' = Enforced([i \in DOMAIN due |-> Round(due[i], Scale)])
    /\ pc' = "lose"
    /\ UNCHANGED <<due, loss, kept, next, bad, world, inputs, iter, best, tried, fitted, mask,
                   segments, served>>

(* The keep masks, one sample at a time.  In the bad state of the Gilbert  *)
(* model all samples are lost (loss_in_bad is 1), the one on which it      *)
(* turns bad and the one on which it turns good among them.                *)
Keep(k, b) == /\ kept' = IF k THEN kept \cup {next} ELSE kept
              /\ bad' = b

Lose ==
    /\ pc = "lose" /\ next \in DOMAIN stamps
    /\ next' = next + 1
    /\ \/ loss = "none" /\ Keep(TRUE, FALSE)
       \/ loss = "bernoulli" /\ \E k \in BOOLEAN : Keep(k, FALSE)
       \/ loss = "gilbert" /\ \E b \in BOOLEAN : Keep(~bad /\ ~b, b)
    /\ UNCHANGED <<due, loss, stamps, world, vars>>

Lost == /\ pc = "lose" /\ next \notin DOMAIN stamps
        /\ pc' = "observe"
        /\ UNCHANGED <<stream, world, inputs, iter, best, tried, fitted, mask, segments, served>>

-----------------------------------------------------------------------------
(* The local time of reference time t, times the product of all rates'     *)
(* numerators: 1/rate is integrated over the stretches that lie before t.  *)
Unit(c) == FoldSet(LAMBDA s, p : p * c.rates[s][1], 1, DOMAIN c.rates)

(* The local time that passes before t in each of the stretches. *)
Within(c, t) == [s \in DOMAIN c.rates |-> Clip(t - (s - 1) * Length, 0, Length)
                                             * ((Unit(c) * c.rates[s][2]) \div c.rates[s][1])]

(* Slip: local time runs ahead by the offset. *)
LocalSlip(c, t) ==
    IF Len(c.rates) = 1 THEN (t + c.beta) * c.rates[1][2]
    ELSE Total(DOMAIN c.rates, Within(c, t))

Local(c, t) ==
    IF Len(c.rates) = 1 THEN (t - c.beta) * c.rates[1][2]
    ELSE Total(DOMAIN c.rates, Within(c, t))

(* The observations, rounded; the reference device's clock is the identity.*)
Observe ==
    /\ pc = "observe"
    /\ \E j \in {[i \in DOMAIN happen |-> IF i = k THEN d ELSE 0] :
                   k \in DOMAIN happen, d \in {-1, 0, 1}} :
         /\ x' = [i \in DOMAIN happen |-> Round(Local(clock, happen[i]) + j[i] * Unit(clock),
                                                Unit(clock))]
         /\ jittered' = \E i \in DOMAIN j : j[i] # 0
    /\ y' = happen
    /\ pc' = IF count = 0 THEN "sample" ELSE "split"
    /\ UNCHANGED <<stream, clock, happen, count, refine, iter, best, tried, fitted, mask,
                   segments, served>>

ForwardNext == \/ Stamp \/ Lose \/ Lost \/ Observe
               \/ Next /\ UNCHANGED <<stream, world>>

ForwardSpec == ForwardInit /\ [][ForwardNext]_forwardVars

-----------------------------------------------------------------------------
(* Properties. *)

(* A stamped stream may be ingested whatever its schedule was: stamps are  *)
(* not negative and never go back, so that rows number those that are      *)
(* equal, before and after a loss; and none is early, nor later than the   *)
(* running maximum of the schedule by more than its index.                 *)
StampsConform ==
    pc # "stamp" =>
        LET m == RunningMax([i \in DOMAIN due |-> Round(due[i], Scale)])
            shift == IF m # << >> /\ m[1] < 0 THEN m[1] ELSE 0
        IN  /\ DOMAIN stamps = DOMAIN due /\ kept \subseteq DOMAIN stamps
            /\ \A i, j \in DOMAIN stamps : i <= j => stamps[i] <= stamps[j]
            /\ \A i \in DOMAIN stamps : /\ stamps[i] >= 0
                                        /\ stamps[i] + shift \in m[i]..m[i] + i - 1

(* "the estimator must recover what this injected" (clock/forward.py:6):   *)
(* without jitter a plain clock is found exactly if it maps the events to  *)
(* whole local times, at least two of them different and sampled; and if   *)
(* the stretches of another have equally many events, every fitted segment *)
(* is of one of them.                                                      *)
Exact == \A i \in DOMAIN happen : Local(clock, happen[i]) % Unit(clock) = 0

Recovered ==
    (happen # << >> /\ pc = "done" /\ ~jittered /\ Exact) =>
        IF count = 0
        THEN (\E p \in tried : \E i, j \in p : x[i] # x[j]) =>
               LET num == clock.rates[1][1]
                   den == clock.rates[1][2]
               IN  /\ mask = Event /\ fitted = Event
                   /\ \A i \in Event : den * (y[i] - clock.beta) = num * x[i]
        ELSE (\A s \in DOMAIN segments : \A k \in segments[s].from..segments[s].to :
                happen[k] \in (s - 1) * Length..s * Length) =>
               \A s \in DOMAIN segments : OnLine({Order[k] : k \in segments[s].from..segments[s].to})
=============================================================================

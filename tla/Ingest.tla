------------------------------- MODULE Ingest -------------------------------
(***************************************************************************)
(* The ingestion pipeline: `ingest_session` of ingest/pipeline.py driving  *)
(* the adapters of SimAdapter, over the SessionManager that Lifecycle      *)
(* models.                                                                 *)
(*                                                                         *)
(* Any call of an adapter may raise; a caller may call again with the same *)
(* adapters, which keep their state between calls.  Identifiers are        *)
(* numbered in their order as strings.                                     *)
(***************************************************************************)
EXTENDS SimAdapter

CONSTANTS Limits,    \* what `max_samples` may be
          Unlimited, \* max_samples is None
          MaxCalls   \* bound on the calls made with the same adapters

ASSUME LimitAssumption == Unlimited \notin Nat /\ Limits \subseteq Nat \cup {Unlimited}
ASSUME CallAssumption == MaxCalls \in Nat

NoDevice == 0
NoManager == "no manager"
NewSession(o) == [origin |-> o, devices |-> << >>, calibrations |-> 0, truth |-> FALSE]

VARIABLES call,     \* the arguments of the call: origin, reference, limit
          calls,    \* number of calls so far
          pc,       \* "idle" or what the call does next
          opened,   \* how many adapters the call has opened
          at,       \* the adapter being read, or closed
          best,     \* the adapter whose device is the best reference so far
          drawn,    \* the samples read from the present stream
          batches,  \* adapter |-> the batches of its streams so far
          state,    \* of the manager, as in Lifecycle
          session,  \* of the manager
          truths,   \* the devices that gave ground truth
          outcome,  \* of the last call: "none", "raised" or "returned"
          unclosed, \* history: a close of the last call has raised
          earlier   \* history: the batches of the last call that returned

manager == <<state, session>>
locals == <<opened, at, best, drawn, batches, truths>>
vars == <<fleet, adapters, call, calls, pc, locals, manager, outcome, unclosed,
          earlier>>

Init == /\ AdaptersInit
        /\ call = [origin |-> "real", reference |-> NoDevice, limit |-> Unlimited]
        /\ calls = 0 /\ pc = "idle"
        /\ opened = 0 /\ at = 1 /\ best = 1 /\ drawn = << >>
        /\ batches = [i \in DOMAIN fleet |-> << >>] /\ truths = {}
        /\ state = NoManager /\ session = NewSession("real")
        /\ outcome = "none" /\ unclosed = FALSE /\ earlier = << >>

-----------------------------------------------------------------------------
(* Which device becomes the reference. *)

Rank == [t \in Tier |-> CASE t = "hardware_ptp" -> 3 [] t = "shared_event" -> 2 [] OTHER -> 1]

BestTierRank(d) == Max({0} \cup {Rank[t] : t \in d.tiers})
MaxRate(d) == Max({0} \cup {d.streams[i].rate : i \in DOMAIN d.streams})

Sign(b) == IF b THEN 1 ELSE 0
Key(d) == <<Sign("hardware_ptp" \in d.tiers), Sign(d.candidate), MaxRate(d), BestTierRank(d)>>

Exceeds(k, l) == \E i \in DOMAIN k : k[i] > l[i] /\ \A j \in 1..(i - 1) : k[j] = l[j]

(* Slip: among equals, the first adapter wins. *)
BetterSlip(d, e) == Exceeds(Key(d), Key(e))

Better(d, e) == \/ Exceeds(Key(d), Key(e))
                \/ Key(d) = Key(e) /\ d.id < e.id

Reference == IF call.reference # NoDevice THEN call.reference ELSE fleet[best].id

-----------------------------------------------------------------------------
Begin(o, r, limit) ==
    /\ pc = "idle" /\ calls < MaxCalls
    /\ call' = [origin |-> o, reference |-> r, limit |-> limit]
    /\ calls' = calls + 1
    /\ pc' = "open"
    /\ opened' = 0 /\ at' = 1 /\ best' = 1 /\ drawn' = << >>
    /\ batches' = [i \in DOMAIN fleet |-> << >>]
    /\ truths' = {}
    /\ state' = NoManager /\ session' = NewSession("real")
    /\ outcome' = "none" /\ unclosed' = FALSE
    /\ earlier' = (IF outcome = "returned" THEN batches ELSE earlier)
    /\ UNCHANGED <<fleet, adapters>>

(* Between two calls the caller may use an array again. *)
ReuseArray == /\ pc = "idle"
              /\ \E i \in DOMAIN fleet : \E k \in DOMAIN fleet[i].streams : Reuse(i, k)
              /\ UNCHANGED <<fleet, call, calls, pc, locals, manager, outcome, unclosed, earlier>>

(* An exception: whatever was built is dropped, the adapters are closed. *)
Raise == /\ pc' = "close" /\ at' = 1
         /\ outcome' = "raised"
         /\ state' = NoManager /\ session' = NewSession("real")
         /\ UNCHANGED <<fleet, adapters, call, calls, opened, best, drawn, batches, truths,
                        unclosed, earlier>>

OpenAdapter ==
    /\ pc = "open" /\ opened < Len(fleet)
    /\ opened' = opened + 1
    /\ Open(opened')
    /\ UNCHANGED <<fleet, call, calls, pc, at, best, drawn, batches, truths, manager, outcome,
                   unclosed, earlier>>

UniqueIds == \A i, j \in DOMAIN fleet : fleet[i].id = fleet[j].id => i = j

CheckIds ==
    /\ pc = "open" /\ opened = Len(fleet)
    /\ UniqueIds
    /\ pc' = "select"
    /\ UNCHANGED <<fleet, adapters, call, calls, locals, manager, outcome, unclosed, earlier>>

RefuseIds == pc = "open" /\ opened = Len(fleet) /\ ~UniqueIds /\ Raise

Selecting == call.reference = NoDevice /\ at <= Len(fleet)

(* One iteration of the loop of select_reference. *)
Consider ==
    /\ pc = "select" /\ Selecting
    /\ best' = IF Better(fleet[at], fleet[best]) THEN at ELSE best
    /\ at' = at + 1
    /\ UNCHANGED <<fleet, adapters, call, calls, pc, opened, drawn, batches, truths, manager,
                   outcome, unclosed, earlier>>

Known == \E i \in DOMAIN fleet : fleet[i].id = Reference

StartManager ==
    /\ pc = "select" /\ ~Selecting
    /\ Known
    /\ state' = "created" /\ session' = NewSession(call.origin)
    /\ pc' = "read" /\ at' = 1
    /\ UNCHANGED <<fleet, adapters, call, calls, opened, best, drawn, batches, truths, outcome,
                   unclosed, earlier>>

RefuseReference == pc = "select" /\ ~Selecting /\ ~Known /\ Raise

(* open, descriptor, stream_ref, read or ground_truth raises. *)
AdapterRaises == pc \in {"open", "read"} /\ Raise

-----------------------------------------------------------------------------
(* Reading: a stream of the adapter `at`, then the next, then its device   *)
(* is registered.                                                          *)

Streams == fleet[at].streams
Present == Len(batches[at]) + 1  \* the stream being read

Full == call.limit # Unlimited /\ Len(drawn) >= call.limit

Reading == pc = "read" /\ at <= Len(fleet) /\ Present <= Len(Streams)

ReadSample ==
    /\ Reading /\ ~Full
    /\ Read(at, Present)
    /\ drawn' = Append(drawn, NextSample(at, Present))
    /\ UNCHANGED <<fleet, call, calls, pc, opened, at, best, batches, truths, manager, outcome,
                   unclosed, earlier>>

FinishBatch ==
    /\ Reading
    /\ IF Full THEN UNCHANGED adapters ELSE ReadNone(at, Present)
    /\ batches' = [batches EXCEPT ![at] = Append(@, drawn)]
    /\ drawn' = << >>
    /\ UNCHANGED <<fleet, call, calls, pc, opened, at, best, truths, manager, outcome, unclosed,
                   earlier>>

RegisterDevice ==
    /\ pc = "read" /\ at <= Len(fleet) /\ Present > Len(Streams)
    /\ session' = [session EXCEPT !.devices =
                     Append(@, [id |-> fleet[at].id,
                                role |-> IF fleet[at].id = Reference THEN "reference"
                                         ELSE "follower"])]
    /\ truths' = IF fleet[at].truth THEN truths \cup {fleet[at].id} ELSE truths
    /\ at' = at + 1
    /\ UNCHANGED <<fleet, adapters, call, calls, pc, opened, best, drawn, batches, state, outcome,
                   unclosed, earlier>>

-----------------------------------------------------------------------------
AttachGroundTruth ==
    /\ pc = "read" /\ at > Len(fleet)
    /\ session' = [session EXCEPT !.truth = truths # {}]
    /\ pc' = "finalize"
    /\ UNCHANGED <<fleet, adapters, call, calls, locals, state, outcome, unclosed, earlier>>

TruthAllowed == session.truth => session.origin # "real"

(* Slip: what is registered is not validated. *)
FinalizeSlip ==
    /\ pc = "finalize"
    /\ state' = "devices_registered"
    /\ pc' = "close" /\ at' = 1
    /\ outcome' = "returned"
    /\ UNCHANGED <<fleet, adapters, call, calls, opened, best, drawn, batches, truths, session,
                   unclosed, earlier>>

(* Of the rules of Session.validate that relate its parts the one on       *)
(* ground truth may fail here; that the others cannot is what              *)
(* ImplementsManager shows.  Any part may fail its own validation, say a   *)
(* ground truth that lacks an offset, in RefuseSession.                    *)
Finalize ==
    /\ pc = "finalize" /\ TruthAllowed
    /\ state' = "devices_registered"
    /\ pc' = "close" /\ at' = 1
    /\ outcome' = "returned"
    /\ UNCHANGED <<fleet, adapters, call, calls, opened, best, drawn, batches, truths, session,
                   unclosed, earlier>>

RefuseSession == pc = "finalize" /\ Raise

-----------------------------------------------------------------------------
(* Slip: the last adapter opened is left out. *)
MoreToCloseSlip == at < opened

MoreToClose == at <= opened

CloseAdapter ==
    /\ pc = "close" /\ MoreToClose
    /\ Close(at)
    /\ at' = at + 1
    /\ UNCHANGED <<fleet, call, calls, pc, opened, best, drawn, batches, truths, manager,
                   outcome, unclosed, earlier>>

(* A close that raises ends the call: the adapters after it stay open and  *)
(* what was ingested is lost.                                              *)
CloseRaises ==
    /\ pc = "close" /\ MoreToClose
    /\ pc' = "idle"
    /\ outcome' = "raised"
    /\ state' = NoManager /\ session' = NewSession("real")
    /\ unclosed' = TRUE
    /\ UNCHANGED <<fleet, adapters, call, calls, locals, earlier>>

End ==
    /\ pc = "close" /\ ~MoreToClose
    /\ pc' = "idle"
    /\ UNCHANGED <<fleet, adapters, call, calls, locals, manager, outcome, unclosed, earlier>>

Step == \/ OpenAdapter \/ CheckIds \/ RefuseIds
        \/ Consider \/ StartManager \/ RefuseReference
        \/ ReadSample \/ FinishBatch \/ RegisterDevice
        \/ AttachGroundTruth \/ Finalize \/ RefuseSession
        \/ CloseAdapter \/ End

Next == \/ \E o \in {"real", "synthetic"}, r \in Device \cup {NoDevice}, l \in Limits :
              Begin(o, r, l)
        \/ Step
        \/ ReuseArray
        \/ AdapterRaises \/ CloseRaises

Spec == Init /\ [][Next]_vars

-----------------------------------------------------------------------------
(* Properties. *)

Manager == INSTANCE Lifecycle WITH
             DeviceId <- Device, MaxCalibrations <- 0, LoadStates <- {},
             format <- "json", file <- [kind |-> "absent"], writing <- FALSE,
             last <- NewSession("real"), unchecked <- FALSE

(* Cursors stay within their streams and batches within the limit. *)
TypeOK ==
    /\ isOpen \in [DOMAIN fleet -> BOOLEAN]
    /\ \A i \in DOMAIN fleet : \A k \in DOMAIN cursor[i] :
         cursor[i][k] \in 0..Len(fleet[i].streams[k].stamps)
    /\ pc \in {"idle", "open", "select", "read", "finalize", "close"}
    /\ opened \in 0..Len(fleet) /\ at \in 1..(Len(fleet) + 1) /\ best \in DOMAIN fleet
    /\ call.limit # Unlimited => Len(drawn) <= call.limit
    /\ session \in Manager!Sessions
    /\ outcome \in {"none", "raised", "returned"} /\ unclosed \in BOOLEAN

(* "closes the adapters" (ingest/pipeline.py:91): whatever raised, at the  *)
(* end of a call the adapters it opened are closed; if a close raises, the *)
(* ones before it.  While a call reads, all of them are open.              *)
AdaptersClosed ==
    /\ pc = "idle" => \A i \in 1..opened : isOpen[i] => (unclosed /\ i >= at)
    /\ pc = "read" => \A i \in DOMAIN fleet : isOpen[i]

(* Adapters are closed, and what a call keeps of them stays in range.      *)
AdaptersInv == TypeOK /\ AdaptersClosed

(* A call that returns has read every stream from its first sample up to   *)
(* the limit, whatever calls with the same adapters came before, put each  *)
(* batch with its own device; and every sample refers to its own row of    *)
(* its own recording, and has a time from between what was in the array at *)
(* first and what is in it now.                                            *)
WholePrefixes ==
    outcome = "returned" => \A i \in DOMAIN fleet :
        /\ DOMAIN batches[i] = DOMAIN fleet[i].streams
        /\ \A k \in DOMAIN batches[i] :
             LET b == batches[i][k]
                 given == fleet[i].streams[k].stamps
             IN  /\ Len(b) = IF call.limit = Unlimited THEN Len(given)
                             ELSE Min({call.limit, Len(given)})
                 /\ \A n \in DOMAIN b :
                      /\ b[n].seq = n - 1
                      /\ b[n].t \in given[n]..arrays[i][k][n]
                      /\ Parse(b[n].ref) = [location |-> fleet[i].base,
                                           fragment |-> <<Row(k, n - 1)>>]

(* However often a session is ingested with the same adapters, and         *)
(* whatever becomes of the arrays meanwhile, a row that was returned once  *)
(* is returned the same again.                                             *)
Repeatable ==
    (outcome = "returned" /\ earlier # << >>) =>
        \A i \in DOMAIN fleet : \A k \in DOMAIN batches[i] :
            \A n \in DOMAIN batches[i][k] \cap DOMAIN earlier[i][k] :
                batches[i][k][n] = earlier[i][k][n]

(* Exactly one device is the reference: the one the caller named, else the *)
(* one no other comes before, in whichever order the adapters were given.  *)
OneReference ==
    outcome = "returned" => \E i \in DOMAIN fleet :
        /\ \A j \in DOMAIN fleet :
             /\ session.devices[j].id = fleet[j].id
             /\ (session.devices[j].role = "reference") <=> (j = i)
        /\ IF call.reference # NoDevice THEN fleet[i].id = call.reference
           ELSE \A j \in DOMAIN fleet \ {i} :
                   /\ ~Exceeds(Key(fleet[j]), Key(fleet[i]))
                   /\ Key(fleet[j]) = Key(fleet[i]) => fleet[i].id < fleet[j].id

(* All ground truth the adapters gave is in the session, and was there     *)
(* when the session was validated: none of a real session is returned.     *)
TruthChecked ==
    outcome = "returned" => /\ session.truth <=> (\E i \in DOMAIN fleet : fleet[i].truth)
                            /\ session.truth => session.origin = "synthetic"

(* What a call that returns has made of the session.                       *)
SessionBuilt == OneReference /\ TruthChecked

(* To the manager a call is a client that keeps its protocol: it registers *)
(* new devices only, before it finalizes, finalizes what passes all of     *)
(* Session.validate, and never takes the side door of `mark`.              *)
ManagerStep == \/ \E o \in Manager!Origin : Manager!Start(o)
               \/ \E r \in Manager!Registration : Manager!RegisterDevice(r)
               \/ Manager!AttachGroundTruth
               \/ Manager!FinalizeRegistration
               \/ Manager!Crash

ImplementsManager == Manager!Init /\ [][ManagerStep]_manager

(* "within a stream, t_device_us is non-decreasing; equal timestamps are   *)
(* allowed only when `seq` disambiguates order" (core/device.py:177).      *)
Monotonic(b) == \A i \in 1..(Len(b) - 1) :
                    \/ b[i].t < b[i + 1].t
                    \/ b[i].t = b[i + 1].t /\ b[i].seq < b[i + 1].seq

(* "violations are rejected at ingestion with a clear error"               *)
(* (docs/CONTRACT.md:149): no batch that is returned breaks the rule.      *)
RejectedAtIngestion ==
    outcome = "returned" =>
        \A i \in DOMAIN batches : \A k \in DOMAIN batches[i] : Monotonic(batches[i][k])
=============================================================================

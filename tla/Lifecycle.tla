----------------------------- MODULE Lifecycle -----------------------------
(***************************************************************************)
(* A session in the hands of its manager, and the manifest file it is      *)
(* saved to: SessionManager of lifecycle.py, Session.validate of           *)
(* core/session.py, save_session and load_session of manifest.py.          *)
(*                                                                         *)
(* Of a session only what decides its validity is kept: its origin, its    *)
(* device registrations (identifier and role), and whether it carries a    *)
(* ground-truth block; of its calibration references, their number.  A     *)
(* call the code rejects leaves everything unchanged and is no step.       *)
(***************************************************************************)
EXTENDS Naturals, Sequences

CONSTANTS DeviceId,        \* identifiers of devices
          MaxCalibrations, \* bound on attached calibrations
          LoadStates       \* states a caller passes to SessionManager.load

ASSUME BoundAssumption == MaxCalibrations \in Nat

Origin == {"real", "synthetic"}
Role == {"reference", "follower"}
Registration == [id : DeviceId, role : Role]

State == {"created", "devices_registered", "evidence_collected",
          "clocks_estimated", "timeline_built", "scored", "emitted"}

Deferred == {"evidence_collected", "clocks_estimated", "timeline_built", "scored"}

ASSUME LoadAssumption == LoadStates \subseteq State

AllowedTransition ==
    {<<"created", "devices_registered">>,
     <<"devices_registered", "evidence_collected">>,
     <<"evidence_collected", "clocks_estimated">>,
     <<"clocks_estimated", "timeline_built">>,
     <<"timeline_built", "scored">>,
     <<"scored", "emitted">>}

NoManager == "no manager"
NoFile == [kind |-> "absent"]
Unreadable == [kind |-> "unreadable"]
Document(s) == [kind |-> "document", session |-> s]

VARIABLES format,    \* "json" or "yaml", by the file's extension
          state,     \* the manager's state, or NoManager
          session,   \* the manager's session
          file,      \* the manifest on disk
          writing,   \* a save has emptied the file and not yet filled it
          last,      \* history: the session of the last save begun
          unchecked  \* history: that save was made with validate=False

vars == <<format, state, session, file, writing, last, unchecked>>

-----------------------------------------------------------------------------
(* Session.validate *)

Ids(s) == {s.devices[i].id : i \in 1..Len(s.devices)}
References(s) == {i \in 1..Len(s.devices) : s.devices[i].role = "reference"}

UniqueIds(s) == \A i, j \in 1..Len(s.devices) :
                    s.devices[i].id = s.devices[j].id => i = j

(* Slip: one or more. *)
AnyReferenceSlip(s) == References(s) # {}

ExactlyOneReference(s) == \E i \in References(s) : References(s) = {i}

TruthAllowed(s) == s.truth => s.origin # "real"

Valid(s) == /\ Len(s.devices) >= 1
            /\ UniqueIds(s)
            /\ ExactlyOneReference(s)
            /\ TruthAllowed(s)

NewSession(o) == [origin |-> o, devices |-> << >>, calibrations |-> 0, truth |-> FALSE]

-----------------------------------------------------------------------------
Init == /\ format \in {"json", "yaml"}
        /\ state = NoManager
        /\ session = NewSession("real")
        /\ file = NoFile
        /\ writing = FALSE
        /\ last = NewSession("real") /\ unchecked = FALSE

Running == state # NoManager /\ ~writing
disk == <<format, file, writing, last, unchecked>>

Start(o) == /\ ~writing
            /\ state' = "created"
            /\ session' = NewSession(o)
            /\ UNCHANGED disk

(* Slips: a device is admitted twice; devices are admitted in any state. *)
AdmissibleTwiceSlip(r) == state = "created"

AdmissibleLateSlip(r) == r.id \notin Ids(session)

Admissible(r) == state = "created" /\ r.id \notin Ids(session)

RegisterDevice(r) ==
    /\ Running /\ Admissible(r)
    /\ session' = [session EXCEPT !.devices = Append(@, r)]
    /\ UNCHANGED <<state, disk>>

(* Neither attachment looks at the state or the origin. *)
AttachCalibration ==
    /\ Running
    /\ session.calibrations < MaxCalibrations
    /\ session' = [session EXCEPT !.calibrations = @ + 1]
    /\ UNCHANGED <<state, disk>>

AttachGroundTruth ==
    /\ Running
    /\ session' = [session EXCEPT !.truth = TRUE]
    /\ UNCHANGED <<state, disk>>

FinalizeRegistration ==
    /\ Running /\ state = "created"
    /\ Valid(session)
    /\ state' = "devices_registered"
    /\ UNCHANGED <<session, disk>>

Mark(target) ==
    /\ Running
    /\ <<state, target>> \in AllowedTransition
    /\ target \notin Deferred
    /\ state' = target
    /\ UNCHANGED <<session, disk>>

(* Slip: a save does not validate. *)
BeginSaveSlip(validate) ==
    /\ Running
    /\ file' = Unreadable
    /\ writing' = TRUE
    /\ last' = session
    /\ unchecked' = ~validate
    /\ UNCHANGED <<format, state, session>>

(* The session is validated (unless told not to) before the file is opened *)
(* for writing, which empties it.                                          *)
BeginSave(validate) ==
    /\ Running
    /\ validate => Valid(session)
    /\ file' = Unreadable
    /\ writing' = TRUE
    /\ last' = session
    /\ unchecked' = ~validate
    /\ UNCHANGED <<format, state, session>>

EndSave ==
    /\ writing
    /\ file' = Document(session)
    /\ writing' = FALSE
    /\ UNCHANGED <<format, state, session, last, unchecked>>

(* What the first bytes of a manifest read as.  Cut JSON never parses.     *)
(* Cut YAML does between two entries and in many places inside one; the    *)
(* entries come in the order of Session.to_dict: devices, calibrations,    *)
(* ground truth.  A registration cut before the end of its role, its last  *)
(* required field, is refused by from_dict as it lacks one or names no     *)
(* known role, and so is a calibration cut before its uri; a shorter uri   *)
(* or a ground truth with fewer clocks is still one, so that all that is   *)
(* kept of a session may be left (Documents has what becomes of a field).  *)
Cut(s) ==
    {Unreadable} \cup
    IF format = "json" THEN {}
    ELSE {Document([s EXCEPT !.devices = SubSeq(@, 1, k), !.calibrations = 0, !.truth = FALSE]) :
            k \in 0..Len(s.devices)}
         \cup {Document([s EXCEPT !.calibrations = n, !.truth = FALSE]) :
            n \in 0..s.calibrations}
         \cup {Document(s)}

(* The process dies; a save under way leaves a part of the manifest. *)
Crash ==
    /\ state # NoManager
    /\ state' = NoManager
    /\ session' = NewSession("real")
    /\ file' \in IF writing THEN Cut(session) ELSE {file}
    /\ writing' = FALSE
    /\ UNCHANGED <<format, last, unchecked>>

(* The manifest does not record the state: the caller passes it. *)
LoadManager(validate, s) ==
    /\ ~writing
    /\ file.kind = "document"
    /\ validate => Valid(file.session)
    /\ session' = file.session
    /\ state' = s
    /\ UNCHANGED disk

Next == \/ \E o \in Origin : Start(o)
        \/ \E r \in Registration : RegisterDevice(r)
        \/ AttachCalibration \/ AttachGroundTruth
        \/ FinalizeRegistration
        \/ \E target \in State : Mark(target)
        \/ \E validate \in BOOLEAN : BeginSave(validate)
        \/ EndSave \/ Crash
        \/ \E validate \in BOOLEAN, s \in LoadStates : LoadManager(validate, s)

Spec == Init /\ [][Next]_vars

-----------------------------------------------------------------------------
(* Properties. *)

Sessions == [origin : Origin, devices : Seq(Registration),
             calibrations : 0..MaxCalibrations, truth : BOOLEAN]

TypeOK == /\ format \in {"json", "yaml"}
          /\ state \in State \cup {NoManager}
          /\ session \in Sessions
          /\ file \in {NoFile, Unreadable} \/ file \in [kind : {"document"}, session : Sessions]
          /\ writing \in BOOLEAN /\ unchecked \in BOOLEAN
          /\ last \in Sessions

(* Identifiers stay unique through registration, saving without            *)
(* validation, crashes, and registering more devices after a load.         *)
IdsUnique == UniqueIds(session) /\ (file.kind = "document" => UniqueIds(file.session))

(* Whatever is called in whatever order, a manager and its file are well   *)
(* formed and know every device once.                                      *)
SessionInv == TypeOK /\ IdsUnique

(* If the last save validated, a manifest on disk that holds all of that   *)
(* session is valid, whatever was attached before or since.                *)
StoredIsValid ==
    (file.kind = "document" /\ file.session = last /\ ~unchecked) => Valid(file.session)

(* The device whose clock all is related to does not change by a crash: a  *)
(* manifest that a crash has cut may have lost devices, but if what is     *)
(* left of it passes validation it names the reference that was saved.     *)
(* Validation is what this rests on, of the save as well as of the load.   *)
ReferenceIds(s) == {s.devices[i].id : i \in References(s)}

ReferenceKept ==
    (file.kind = "document" /\ ~unchecked /\ Valid(file.session))
        => ReferenceIds(file.session) = ReferenceIds(last)

(* Registration is over once the state has advanced: the devices of a      *)
(* manager change only while it is in CREATED, or by a load or a restart.  *)
RegistrationFrozen ==
    [][state' = state /\ state # "created" /\ session'.devices # session.devices
         => \E validate \in BOOLEAN, s \in LoadStates : LoadManager(validate, s)]_vars
=============================================================================

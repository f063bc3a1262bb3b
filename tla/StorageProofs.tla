--------------------------- MODULE StorageProofs ---------------------------
(***************************************************************************)
(* What is kept on disk: the session manifest and its manager (Lifecycle), *)
(* the bundle of a result (Persist), and the entities themselves, with the *)
(* documents they are written to and read from (Documents).                *)
(***************************************************************************)
EXTENDS Lifecycle, Persist, Documents, TLAPS

-----------------------------------------------------------------------------
(* The session manager and its manifest, for any device identifiers, any   *)
(* number of calibrations and any states a caller resumes in.              *)
(*                                                                         *)
(* What a manifest holds follows from what was saved last.  A save under   *)
(* way still has its session in hand, because no other call comes between  *)
(* its two steps (SaveInHand); and that session was valid if the save was  *)
(* one that validates (LastIsValid).  The devices on file are the first of *)
(* those saved (FileOfLast).                                               *)

SaveInHand == writing => state # NoManager /\ session = last /\ file = Unreadable

LastIsValid == (file # NoFile /\ ~unchecked) => Valid(last)

FirstOf(d, e) == Len(d) <= Len(e) /\ \A i \in 1..Len(d) : d[i] = e[i]

FileOfLast == file.kind = "document" => FirstOf(file.session.devices, last.devices)

IInv == TypeOK /\ IdsUnique /\ SaveInHand /\ LastIsValid /\ FileOfLast

-----------------------------------------------------------------------------
(* What registering a device and cutting a manifest do to a session.       *)

LEMMA EmptySession ==
    ASSUME NEW o \in Origin
    PROVE  NewSession(o) \in Sessions /\ UniqueIds(NewSession(o))
  BY BoundAssumption DEF NewSession, Sessions, UniqueIds

(* A session stays one, with a device once, when a new device is appended. *)
LEMMA Registered ==
    ASSUME NEW s \in Sessions, NEW r \in Registration, UniqueIds(s), r.id \notin Ids(s)
    PROVE  LET t == [s EXCEPT !.devices = Append(@, r)]
           IN  t \in Sessions /\ UniqueIds(t)
<1> DEFINE t == [s EXCEPT !.devices = Append(@, r)]
<1>1. s.devices \in Seq(Registration)
  BY DEF Sessions
<1>2. t.devices = Append(s.devices, r)
  BY DEF Sessions
<1>3. t \in Sessions
  BY <1>1, <1>2 DEF Sessions
<1>4. UniqueIds(t)
  <2> SUFFICES ASSUME NEW i \in 1..Len(t.devices), NEW j \in 1..Len(t.devices),
                      t.devices[i].id = t.devices[j].id
               PROVE  i = j
    BY DEF UniqueIds
  <2>1. Len(t.devices) = Len(s.devices) + 1
    BY <1>1, <1>2
  <2>2. \A k \in 1..Len(s.devices) : t.devices[k] = s.devices[k] /\ s.devices[k].id # r.id
    BY <1>1, <1>2 DEF Ids
  <2>3. t.devices[Len(s.devices) + 1] = r
    BY <1>1, <1>2
  <2> QED
    BY <1>1, <2>1, <2>2, <2>3 DEF UniqueIds
<1> QED
  BY <1>3, <1>4

LEMMA Curtailed ==
    ASSUME NEW s \in Sessions, NEW d \in Seq(Registration), NEW n \in 0..MaxCalibrations
    PROVE  [s EXCEPT !.devices = d, !.calibrations = n, !.truth = FALSE] \in Sessions
  BY DEF Sessions

LEMMA Stripped ==
    ASSUME NEW s \in Sessions, NEW n \in 0..MaxCalibrations
    PROVE  [s EXCEPT !.calibrations = n, !.truth = FALSE] \in Sessions
  BY DEF Sessions

(* What cut YAML reads as is a session with the first devices of the one   *)
(* that was saved.                                                         *)
LEMMA CutOf ==
    ASSUME NEW s \in Sessions, UniqueIds(s), NEW f \in Cut(s), f # Unreadable
    PROVE  /\ f \in [kind : {"document"}, session : Sessions]
           /\ UniqueIds(f.session)
           /\ FirstOf(f.session.devices, s.devices)
<1>1. /\ s.devices \in Seq(Registration) /\ s.calibrations \in 0..MaxCalibrations
  BY DEF Sessions
<1>2. \A k \in 0..Len(s.devices) :
        /\ SubSeq(s.devices, 1, k) \in Seq(Registration)
        /\ Len(SubSeq(s.devices, 1, k)) = k
        /\ \A i \in 1..k : SubSeq(s.devices, 1, k)[i] = s.devices[i]
  BY <1>1
<1>3. CASE \E k \in 0..Len(s.devices) :
             f = Document([s EXCEPT !.devices = SubSeq(@, 1, k), !.calibrations = 0, !.truth = FALSE])
  <2>1. PICK k \in 0..Len(s.devices) :
          f = Document([s EXCEPT !.devices = SubSeq(@, 1, k), !.calibrations = 0, !.truth = FALSE])
    BY <1>3
  <2> DEFINE t == [s EXCEPT !.devices = SubSeq(@, 1, k), !.calibrations = 0, !.truth = FALSE]
  <2>2. t.devices = SubSeq(s.devices, 1, k)
    BY DEF Sessions
  <2>3. t \in Sessions
    <3>1. 0 \in 0..MaxCalibrations
      BY BoundAssumption
    <3> QED
      BY <1>2, <3>1, Curtailed
  <2>4. f.session = t /\ f \in [kind : {"document"}, session : Sessions]
    BY <2>1, <2>3 DEF Document
  <2>5. UniqueIds(t) /\ FirstOf(t.devices, s.devices)
    <3>1. /\ Len(t.devices) = k /\ k \in Nat /\ k <= Len(s.devices) /\ Len(s.devices) \in Nat
          /\ \A i \in 1..k : t.devices[i] = s.devices[i] /\ i \in 1..Len(s.devices)
      BY <1>1, <1>2, <2>2
    <3>2. \A i, j \in 1..Len(s.devices) : s.devices[i].id = s.devices[j].id => i = j
      BY DEF UniqueIds
    <3> HIDE DEF t
    <3>3. UniqueIds(t)
      BY <3>1, <3>2 DEF UniqueIds
    <3> QED
      BY <3>1, <3>3 DEF FirstOf
  <2> QED
    BY <2>4, <2>5
<1>4. CASE \E n \in 0..s.calibrations : f = Document([s EXCEPT !.calibrations = n, !.truth = FALSE])
  <2>1. PICK n \in 0..s.calibrations : f = Document([s EXCEPT !.calibrations = n, !.truth = FALSE])
    BY <1>4
  <2> DEFINE t == [s EXCEPT !.calibrations = n, !.truth = FALSE]
  <2>2. t.devices = s.devices
    BY DEF Sessions
  <2>3. t \in Sessions
    <3>1. n \in 0..MaxCalibrations
      BY <1>1, BoundAssumption
    <3> QED
      BY <3>1, Stripped
  <2>4. f.session = t /\ f \in [kind : {"document"}, session : Sessions]
    BY <2>1, <2>3 DEF Document
  <2>5. UniqueIds(t) /\ FirstOf(t.devices, s.devices)
    BY <1>1, <2>2 DEF UniqueIds, FirstOf
  <2> QED
    BY <2>4, <2>5
<1>5. CASE f = Document(s)
  BY <1>1, <1>5 DEF Document, FirstOf
<1> QED
  BY <1>3, <1>4, <1>5 DEF Cut

-----------------------------------------------------------------------------
LEMMA TypeInit == Init => TypeOK /\ IdsUnique
<1> SUFFICES ASSUME Init PROVE TypeOK /\ IdsUnique
  OBVIOUS
<1>1. NewSession("real") \in Sessions /\ UniqueIds(NewSession("real"))
  BY EmptySession DEF Origin
<1> QED
  BY <1>1 DEF Init, TypeOK, IdsUnique, NoFile

(* Types and the identifiers' uniqueness: a session is only ever replaced  *)
(* by an empty one, a registered one, or what the file holds, and the file *)
(* only by the session in hand or a part of it.                            *)
LEMMA TypeStep == TypeOK /\ IdsUnique /\ SaveInHand /\ [Next]_vars => TypeOK' /\ IdsUnique'
<1> SUFFICES ASSUME TypeOK, IdsUnique, SaveInHand, [Next]_vars PROVE TypeOK' /\ IdsUnique'
  OBVIOUS
<1>1. /\ \A o \in Origin : NewSession(o) \in Sessions /\ UniqueIds(NewSession(o))
      /\ session \in Sessions /\ UniqueIds(session) /\ last \in Sessions
      /\ file.kind = "document" => file.session \in Sessions /\ UniqueIds(file.session)
  BY EmptySession DEF TypeOK, IdsUnique, NoFile, Unreadable
<1> USE DEF TypeOK, IdsUnique, disk, NoFile, Unreadable
<1>2. ASSUME NEW o \in Origin, Start(o) PROVE TypeOK' /\ IdsUnique'
  BY <1>1, <1>2 DEF Start, State
<1>3. ASSUME NEW r \in Registration, RegisterDevice(r) PROVE TypeOK' /\ IdsUnique'
  <2>1. session' \in Sessions /\ UniqueIds(session')
    BY <1>1, <1>3, Registered DEF RegisterDevice, Admissible
  <2> QED
    BY <1>3, <2>1 DEF RegisterDevice
<1>4. CASE AttachCalibration
  <2>1. session' \in Sessions /\ session'.devices = session.devices
    BY <1>1, <1>4, BoundAssumption DEF AttachCalibration, Sessions
  <2> QED
    BY <1>1, <1>4, <2>1 DEF AttachCalibration, UniqueIds
<1>5. CASE AttachGroundTruth
  <2>1. session' \in Sessions /\ session'.devices = session.devices
    BY <1>1, <1>5 DEF AttachGroundTruth, Sessions
  <2> QED
    BY <1>1, <1>5, <2>1 DEF AttachGroundTruth, UniqueIds
<1>6. CASE FinalizeRegistration
  BY <1>6 DEF FinalizeRegistration, State
<1>7. ASSUME NEW target \in State, Mark(target) PROVE TypeOK' /\ IdsUnique'
  BY <1>7 DEF Mark
<1>8. ASSUME NEW validate \in BOOLEAN, BeginSave(validate) PROVE TypeOK' /\ IdsUnique'
  BY <1>1, <1>8 DEF BeginSave
<1>9. CASE EndSave
  BY <1>1, <1>9 DEF EndSave, Document
<1>10. CASE Crash
  <2>1. CASE ~writing
    BY <1>1, <1>10, <2>1 DEF Crash, Origin
  <2>2. CASE writing
    <3>1. \/ file' = Unreadable
          \/ file' \in [kind : {"document"}, session : Sessions] /\ UniqueIds(file'.session)
      BY <1>1, <1>10, <2>2, CutOf DEF Crash
    <3>2. state' = NoManager /\ session' \in Sessions /\ UniqueIds(session')
      BY <1>1, <1>10 DEF Crash, Origin
    <3>3. CASE file' = Unreadable
      BY <1>10, <3>2, <3>3 DEF Crash
    <3>4. CASE file' \in [kind : {"document"}, session : Sessions] /\ UniqueIds(file'.session)
      BY <1>10, <3>2, <3>4 DEF Crash
    <3> QED
      BY <3>1, <3>3, <3>4
  <2> QED
    BY <2>1, <2>2
<1>11. ASSUME NEW validate \in BOOLEAN, NEW s \in LoadStates, LoadManager(validate, s)
       PROVE  TypeOK' /\ IdsUnique'
  BY <1>1, <1>11, LoadAssumption DEF LoadManager
<1>12. CASE UNCHANGED vars
  BY <1>12 DEF vars
<1> QED
  BY <1>2, <1>3, <1>4, <1>5, <1>6, <1>7, <1>8, <1>9, <1>10, <1>11, <1>12 DEF Next

(* A save holds its session until it ends, and its session was valid if it *)
(* is one that validates.  Nothing but a save changes `last`.              *)
LEMMA SaveStep ==
    TypeOK /\ SaveInHand /\ LastIsValid /\ [Next]_vars => SaveInHand' /\ LastIsValid'
<1> SUFFICES ASSUME TypeOK, SaveInHand, LastIsValid, [Next]_vars
             PROVE  SaveInHand' /\ LastIsValid'
  OBVIOUS
<1>0. Unreadable # NoFile
  BY DEF Unreadable, NoFile
<1> USE <1>0 DEF SaveInHand, LastIsValid, disk, Running
<1>1. ASSUME NEW o \in Origin, Start(o) PROVE SaveInHand' /\ LastIsValid'
  BY <1>1 DEF Start
<1>2. ASSUME NEW r \in Registration, RegisterDevice(r) PROVE SaveInHand' /\ LastIsValid'
  BY <1>2 DEF RegisterDevice
<1>3. CASE AttachCalibration \/ AttachGroundTruth
  BY <1>3 DEF AttachCalibration, AttachGroundTruth
<1>10. CASE FinalizeRegistration
  BY <1>10 DEF FinalizeRegistration, NoManager
<1>4. ASSUME NEW target \in State, Mark(target) PROVE SaveInHand' /\ LastIsValid'
  BY <1>4 DEF Mark
<1>5. ASSUME NEW validate \in BOOLEAN, BeginSave(validate) PROVE SaveInHand' /\ LastIsValid'
  BY <1>5 DEF BeginSave
<1>6. CASE EndSave
  BY <1>6 DEF EndSave
<1>7. CASE Crash
  BY <1>7 DEF Crash
<1>8. ASSUME NEW validate \in BOOLEAN, NEW s \in LoadStates, LoadManager(validate, s)
      PROVE  SaveInHand' /\ LastIsValid'
  BY <1>8 DEF LoadManager
<1>9. CASE UNCHANGED vars
  BY <1>9 DEF vars
<1> QED
  BY <1>1, <1>2, <1>3, <1>4, <1>5, <1>6, <1>7, <1>8, <1>9, <1>10 DEF Next

(* The file changes in three steps only: it is emptied, it is filled, it   *)
(* is left cut.                                                            *)
LEMMA FileStep ==
    IInv /\ [Next]_vars => FileOfLast'
<1> SUFFICES ASSUME IInv, [Next]_vars PROVE FileOfLast'
  OBVIOUS
<1>1. TypeOK /\ IdsUnique /\ SaveInHand /\ FileOfLast
  BY DEF IInv
<1>2. CASE UNCHANGED disk
  BY <1>1, <1>2 DEF disk, FileOfLast
<1>3. ASSUME NEW validate \in BOOLEAN, BeginSave(validate) PROVE FileOfLast'
  BY <1>3 DEF BeginSave, FileOfLast, Unreadable
<1>4. CASE EndSave
  <2>1. file'.session = last' /\ last' \in Sessions
    BY <1>1, <1>4 DEF EndSave, Document, SaveInHand, TypeOK
  <2>2. last'.devices \in Seq(Registration)
    BY <2>1 DEF Sessions
  <2> QED
    BY <2>1, <2>2 DEF FileOfLast, FirstOf
<1>5. CASE Crash
  <2>1. CASE ~writing
    BY <1>1, <1>5, <2>1 DEF Crash, FileOfLast
  <2>2. CASE writing /\ file' = Unreadable
    BY <2>2 DEF Unreadable, FileOfLast
  <2>3. CASE writing /\ file' # Unreadable
    <3>1. file' \in Cut(last) /\ last \in Sessions /\ UniqueIds(last)
      BY <1>1, <1>5, <2>3 DEF Crash, SaveInHand, TypeOK, IdsUnique
    <3>2. last' = last
      BY <1>5 DEF Crash
    <3> QED
      BY <2>3, <3>1, <3>2, CutOf DEF FileOfLast
  <2> QED
    BY <2>1, <2>2, <2>3
<1> QED
  BY <1>2, <1>3, <1>4, <1>5
     DEF Next, vars, disk, Start, RegisterDevice, AttachCalibration, AttachGroundTruth,
         FinalizeRegistration, Mark, LoadManager

LEMMA Invariant == Spec => []IInv
<1>1. Init => IInv
  BY TypeInit DEF Init, IInv, SaveInHand, LastIsValid, FileOfLast, NoFile
<1>2. IInv /\ [Next]_vars => IInv'
  BY TypeStep, SaveStep, FileStep DEF IInv
<1> QED
  BY <1>1, <1>2, PTL DEF Spec

-----------------------------------------------------------------------------
(* A manager and its file are well formed, and know every device once,     *)
(* whatever is called in whatever order.                                   *)
THEOREM SessionsCorrect == Spec => []SessionInv
<1>1. IInv => SessionInv
  BY DEF IInv, SessionInv
<1> QED
  BY <1>1, Invariant, PTL

(* What a validating save left on disk is valid where all of it is left.   *)
THEOREM StoredValid == Spec => []StoredIsValid
<1>1. IInv => StoredIsValid
  BY DEF IInv, LastIsValid, StoredIsValid, NoFile
<1> QED
  BY <1>1, Invariant, PTL

(* Among the first of some devices with one reference there is that one,   *)
(* or none.                                                                *)
LEMMA SameReference ==
    ASSUME NEW s \in Sessions, NEW t \in Sessions, FirstOf(s.devices, t.devices),
           ExactlyOneReference(s), ExactlyOneReference(t)
    PROVE  ReferenceIds(s) = ReferenceIds(t)
<1>1. s.devices \in Seq(Registration) /\ t.devices \in Seq(Registration)
  BY DEF Sessions
<1>2. PICK i \in References(s) : References(s) = {i}
  BY DEF ExactlyOneReference
<1>3. PICK j \in References(t) : References(t) = {j}
  BY DEF ExactlyOneReference
<1>4. i \in 1..Len(s.devices) /\ s.devices[i].role = "reference"
  BY DEF References
<1>5. i \in 1..Len(t.devices) /\ t.devices[i] = s.devices[i]
  BY <1>1, <1>4 DEF FirstOf
<1>6. i = j
  BY <1>3, <1>4, <1>5 DEF References
<1> QED
  BY <1>2, <1>3, <1>5, <1>6 DEF ReferenceIds

(* For any devices and calibrations, and whatever part of a manifest a     *)
(* crash leaves: if it passes validation, its reference device is that of  *)
(* the session saved (Session.validate at both ends of the file).          *)
THEOREM ReferenceIsKept == Spec => []ReferenceKept
<1>1. IInv => ReferenceKept
  <2> SUFFICES ASSUME IInv, file.kind = "document", ~unchecked, Valid(file.session)
               PROVE  ReferenceIds(file.session) = ReferenceIds(last)
    BY DEF ReferenceKept
  <2>1. file.session \in Sessions /\ last \in Sessions
    BY DEF IInv, TypeOK, NoFile, Unreadable
  <2>2. file # NoFile
    BY DEF NoFile
  <2>3. ExactlyOneReference(file.session) /\ ExactlyOneReference(last)
    BY <2>2 DEF IInv, LastIsValid, Valid
  <2>4. FirstOf(file.session.devices, last.devices)
    BY DEF IInv, FileOfLast
  <2> QED
    BY <2>1, <2>3, <2>4, SameReference
<1> QED
  BY <1>1, Invariant, PTL

(* Devices are registered in CREATED only.                                 *)
THEOREM RegistrationIsFrozen == Spec => RegistrationFrozen
<1> DEFINE Frozen == state' = state /\ state # "created" /\ session'.devices # session.devices
                       => \E validate \in BOOLEAN, s \in LoadStates : LoadManager(validate, s)
<1>1. IInv /\ [Next]_vars => [Frozen]_vars
  <2> SUFFICES ASSUME IInv, Next PROVE Frozen
    OBVIOUS
  <2>1. session \in Sessions
    BY DEF IInv, TypeOK
  <2>2. CASE \E validate \in BOOLEAN, s \in LoadStates : LoadManager(validate, s)
    BY <2>2
  <2>3. CASE \E o \in Origin : Start(o)
    BY <2>3 DEF Start
  <2>4. CASE \E r \in Registration : RegisterDevice(r)
    BY <2>4 DEF RegisterDevice, Admissible
  <2>5. CASE AttachCalibration \/ AttachGroundTruth
    BY <2>1, <2>5 DEF AttachCalibration, AttachGroundTruth, Sessions
  <2>6. CASE FinalizeRegistration \/ EndSave
    BY <2>6 DEF FinalizeRegistration, EndSave
  <2>7. CASE \E target \in State : Mark(target)
    BY <2>7 DEF Mark
  <2>8. CASE \E validate \in BOOLEAN : BeginSave(validate)
    BY <2>8 DEF BeginSave
  <2>9. CASE Crash
    BY <2>9 DEF Crash
  <2> QED
    BY <2>2, <2>3, <2>4, <2>5, <2>6, <2>7, <2>8, <2>9 DEF Next
<1> QED
  BY <1>1, Invariant, PTL DEF Spec, RegistrationFrozen

-----------------------------------------------------------------------------
(* The bundle, for every set of results and sessions, every number of      *)
(* arrays per result and every number of saves.                            *)

USE DEF Absent, Torn, Idle, Empty, Damaged, NotFound, Failed, NoneLoaded

LEMMA BundleTypeInit == BundleInit => BundleTypeOK
<1> SUFFICES ASSUME BundleInit PROVE BundleTypeOK
  OBVIOUS
<1>1. saves \in 0..MaxSaves
  BY ResultAssumption DEF BundleInit
<1> QED
  BY <1>1 DEF BundleInit, BundleTypeOK, BundleFile, Resting

LEMMA BundleTypeStep == BundleTypeOK /\ [BundleNext]_bundleVars => BundleTypeOK'
<1> SUFFICES ASSUME BundleTypeOK, [BundleNext]_bundleVars PROVE BundleTypeOK'
  OBVIOUS
<1> USE DEF BundleTypeOK, BundleFile, Resting, history, files
<1>1. ASSUME NEW r \in Result, NEW s \in SessionDoc \cup {NoSession}, OpenManifest(r, s)
      PROVE  BundleTypeOK'
  BY <1>1, ResultAssumption DEF OpenManifest
<1>2. CASE WriteManifest
  BY <1>2 DEF WriteManifest
<1>3. CASE OpenArrays
  BY <1>3 DEF OpenArrays
<1>4. CASE WriteArrays
  <2>1. CASE writer.session = NoSession
    <3>1. arrays' \in Result /\ writer' = Resting /\ damaged' = FALSE /\ lastDoc' = NoSession
      BY <1>4, <2>1 DEF WriteArrays
    <3> QED
      BY <1>4, <3>1 DEF WriteArrays
  <2>2. CASE writer.session # NoSession
    BY <1>4, <2>2 DEF WriteArrays
  <2> QED
    BY <2>1, <2>2
<1>5. CASE OpenSession
  BY <1>5 DEF OpenSession
<1>6. CASE WriteSession
  BY <1>6 DEF WriteSession
<1>7. CASE Interrupt
  BY <1>7 DEF Interrupt
<1>8. CASE ReadManifest
  BY <1>8 DEF ReadManifest
<1>9. CASE ManifestUnreadable
  BY <1>9 DEF ManifestUnreadable
<1>10. CASE ReadArrays
  BY <1>10, ResultAssumption DEF ReadArrays, ArraysServe
<1>11. CASE UNCHANGED bundleVars
  BY <1>11 DEF bundleVars
<1> QED
  BY <1>1, <1>2, <1>3, <1>4, <1>5, <1>6, <1>7, <1>8, <1>9, <1>10, <1>11
     DEF BundleNext, SaveBundle, LoadBundle

(* What the files and the processes may hold. *)
THEOREM BundleTypeCorrect == BundleSpec => []BundleTypeOK
<1> QED
  BY BundleTypeInit, BundleTypeStep, PTL DEF BundleSpec

-----------------------------------------------------------------------------
LEMMA UndamagedStep == BundleTypeOK /\ Undamaged /\ [BundleNext]_bundleVars => Undamaged'
<1> SUFFICES ASSUME BundleTypeOK, Undamaged, [BundleNext]_bundleVars PROVE Undamaged'
  OBVIOUS
<1> USE ResultAssumption DEF BundleTypeOK, BundleFile, Resting, history, files, Undamaged
<1>1. ASSUME NEW r \in Result, NEW s \in SessionDoc \cup {NoSession}, OpenManifest(r, s)
      PROVE  Undamaged'
  BY <1>1 DEF OpenManifest
<1>2. CASE WriteManifest
  BY <1>2 DEF WriteManifest
<1>3. CASE OpenArrays
  BY <1>3 DEF OpenArrays
<1>4. CASE WriteArrays
  <2>1. CASE writer.session = NoSession
    BY <1>4, <2>1 DEF WriteArrays
  <2>2. CASE writer.session # NoSession
    BY <1>4, <2>2 DEF WriteArrays
  <2> QED
    BY <2>1, <2>2
<1>5. CASE OpenSession
  BY <1>5 DEF OpenSession
<1>6. CASE WriteSession
  BY <1>6 DEF WriteSession
<1>7. CASE Interrupt
  BY <1>7 DEF Interrupt
<1>8. CASE ReadManifest
  BY <1>8 DEF ReadManifest
<1>9. CASE ManifestUnreadable
  BY <1>9 DEF ManifestUnreadable
<1>10. CASE ReadArrays
  BY <1>10 DEF ReadArrays
<1>11. CASE UNCHANGED bundleVars
  BY <1>11 DEF bundleVars
<1> QED
  BY <1>1, <1>2, <1>3, <1>4, <1>5, <1>6, <1>7, <1>8, <1>9, <1>10, <1>11
     DEF BundleNext, SaveBundle, LoadBundle

(* A save that ended left one result in both files, and a load that no     *)
(* save has overlapped still has on disk the manifest it read.             *)
THEOREM UndamagedCorrect == BundleSpec => []Undamaged
<1>1. BundleInit => Undamaged
  BY ResultAssumption DEF BundleInit, Undamaged, Resting
<1> QED
  BY <1>1, UndamagedStep, BundleTypeCorrect, PTL DEF BundleSpec

(* Both together, as the model checker checks them. *)
THEOREM BundleCorrect == BundleSpec => []BundleInv
  BY BundleTypeCorrect, UndamagedCorrect, PTL DEF BundleInv

-----------------------------------------------------------------------------
(* The refinement: what each step does to the register. *)

LEMMA RegisterStep ==
    ASSUME BundleTypeOK, Undamaged, [BundleNext]_bundleVars
    PROVE  [Register!Next]_(Register!vars)
<1> USE ResultAssumption
    DEF BundleTypeOK, BundleFile, history, files, Undamaged, Store, Saving, BoundTo,
        Register!vars, Register!Next
<1>1. ASSUME NEW r \in Result, NEW s \in SessionDoc \cup {NoSession}, OpenManifest(r, s)
      PROVE  Register!BeginSave(r)
  BY <1>1 DEF OpenManifest, Register!BeginSave
<1>2. CASE WriteManifest
  BY <1>2 DEF WriteManifest
<1>3. CASE OpenArrays
  BY <1>3 DEF OpenArrays
<1>4. CASE WriteArrays
  <2>1. CASE writer.session = NoSession
    <3>1. /\ damaged /\ ~damaged' /\ manifest' = manifest /\ manifest = writer.result
          /\ manifest \in Result /\ writer.at # "rest" /\ writer'.at = "rest"
      BY <1>4, <2>1 DEF WriteArrays, Resting
    <3>2. Store' = writer.result /\ Saving = writer.result /\ Saving' = Idle
      BY <3>1
    <3>3. Saving # Idle
      BY <3>1, <3>2
    <3>4. BoundTo' = BoundTo /\ Outcome(answer)' = Outcome(answer)
      BY <1>4 DEF WriteArrays, Outcome
    <3> QED
      BY <3>2, <3>3, <3>4 DEF Register!EndSave
  <2>2. CASE writer.session # NoSession
    BY <1>4, <2>2 DEF WriteArrays
  <2> QED
    BY <2>1, <2>2
<1>5. CASE OpenSession
  BY <1>5 DEF OpenSession
<1>6. CASE WriteSession
  <2>1. /\ damaged /\ ~damaged' /\ manifest' = manifest /\ manifest = writer.result
        /\ manifest \in Result /\ writer.at # "rest" /\ writer'.at = "rest"
    BY <1>6 DEF WriteSession, Resting
  <2>2. Store' = writer.result /\ Saving = writer.result /\ Saving' = Idle
    BY <2>1
  <2>3. Saving # Idle
    BY <2>1, <2>2
  <2>4. BoundTo' = BoundTo /\ Outcome(answer)' = Outcome(answer)
    BY <1>6 DEF WriteSession, Outcome
  <2> QED
    BY <2>2, <2>3, <2>4 DEF Register!EndSave
<1>7. CASE Interrupt
  <2>1. Saving' = Idle
    BY <1>7 DEF Interrupt, Resting
  <2>2. Store' = Store /\ BoundTo' = BoundTo /\ Outcome(answer)' = Outcome(answer)
    BY <1>7 DEF Interrupt, Outcome
  <2> QED
    BY <2>1, <2>2 DEF Register!CutShort
<1>8. CASE ReadManifest
  <2>1. /\ BoundTo = Idle /\ Store # Empty /\ BoundTo' = Store
    BY <1>8 DEF ReadManifest
  <2>2. Store' = Store /\ Saving' = Saving /\ Outcome(answer)' = Outcome(answer)
    BY <1>8 DEF ReadManifest, Outcome
  <2> QED
    BY <2>1, <2>2 DEF Register!BeginLoad
<1>9. CASE ManifestUnreadable
  <2>1. BoundTo = Idle /\ Store \notin Result /\ Outcome(answer)' = NotFound
    BY <1>9 DEF ManifestUnreadable, Outcome
  <2>2. Store' = Store /\ Saving' = Saving /\ BoundTo' = BoundTo
    BY <1>9 DEF ManifestUnreadable
  <2> QED
    BY <2>1, <2>2 DEF Register!FailLoad
<1>10. CASE ReadArrays
  <2>1. BoundTo # Idle /\ BoundTo' = Idle
    BY <1>10 DEF ReadArrays
  <2>2. BoundTo \in Result => Outcome(answer)' = BoundTo
    <3> SUFFICES ASSUME BoundTo \in Result PROVE Outcome(answer)' = BoundTo
      OBVIOUS
    <3>1. reader # Idle /\ ~spoiled /\ BoundTo = reader
      BY <1>10 DEF ReadArrays
    <3>2. reader \in Result /\ arrays = reader
      BY <3>1
    <3>3. ArraysServe(reader)
      BY <3>2 DEF ArraysServe
    <3>4. answer' = <<reader, reader>>
      BY <1>10, <3>2, <3>3 DEF ReadArrays
    <3> QED
      BY <3>1, <3>4 DEF Outcome
  <2>3. Store' = Store /\ Saving' = Saving
    BY <1>10 DEF ReadArrays
  <2> QED
    BY <2>1, <2>2, <2>3 DEF Register!EndLoad
<1>11. CASE UNCHANGED bundleVars
  BY <1>11 DEF bundleVars, Outcome
<1> QED
  BY <1>1, <1>2, <1>3, <1>4, <1>5, <1>6, <1>7, <1>8, <1>9, <1>10, <1>11
     DEF BundleNext, SaveBundle, LoadBundle

(* The bundle is a register: see ImplementsRegister. *)
THEOREM Refinement == BundleSpec => ImplementsRegister
<1>1. BundleInit => Register!Init
  BY DEF BundleInit, Register!Init, Store, Saving, BoundTo, Outcome, Resting
<1>2. BundleTypeOK /\ Undamaged /\ [BundleNext]_bundleVars => [Register!Next]_(Register!vars)
  BY RegisterStep
<1> QED
  BY <1>1, <1>2, BundleTypeCorrect, UndamagedCorrect, PTL
     DEF BundleSpec, ImplementsRegister, Register!Spec

-----------------------------------------------------------------------------
(* A directory that one save has written to holds parts of its result only. *)

OnlyOf(r) ==
    /\ manifest \in {Absent, Torn, r} /\ arrays \in {Absent, Torn, r}
    /\ reader \in {Idle, r}
    /\ writer.at # "rest" => writer.result = r
    /\ answer \in {Failed, <<r, r>>}

FirstSave ==
    /\ saves = 0 => /\ manifest = Absent /\ arrays = Absent
                    /\ reader = Idle /\ answer = Failed /\ writer.at = "rest"
    /\ saves = 1 => \E r \in Result : OnlyOf(r)

LEMMA OnlyOfStep ==
    ASSUME BundleTypeOK, NEW q \in Result, OnlyOf(q), saves = 1, [BundleNext]_bundleVars, saves' = 1
    PROVE  OnlyOf(q)'
<1> USE ResultAssumption DEF BundleTypeOK, BundleFile, Resting, history, files, OnlyOf
<1>1. ASSUME NEW r \in Result, NEW s \in SessionDoc \cup {NoSession}, OpenManifest(r, s)
      PROVE  FALSE
  BY <1>1 DEF OpenManifest
<1>2. CASE WriteManifest \/ OpenArrays
  BY <1>2 DEF WriteManifest, OpenArrays
<1>3. CASE WriteArrays
  <2>1. CASE writer.session = NoSession
    BY <1>3, <2>1 DEF WriteArrays
  <2>2. CASE writer.session # NoSession
    BY <1>3, <2>2 DEF WriteArrays
  <2> QED
    BY <2>1, <2>2
<1>4. CASE OpenSession \/ WriteSession \/ Interrupt
  BY <1>4 DEF OpenSession, WriteSession, Interrupt
<1>5. CASE ReadManifest \/ ManifestUnreadable
  BY <1>5 DEF ReadManifest, ManifestUnreadable
<1>6. CASE ReadArrays
  BY <1>6 DEF ReadArrays, ArraysServe
<1>7. CASE UNCHANGED bundleVars
  BY <1>7 DEF bundleVars
<1> QED
  BY <1>1, <1>2, <1>3, <1>4, <1>5, <1>6, <1>7 DEF BundleNext, SaveBundle, LoadBundle

LEMMA FirstSaveStep == BundleTypeOK /\ FirstSave /\ [BundleNext]_bundleVars => FirstSave'
<1> SUFFICES ASSUME BundleTypeOK, FirstSave, [BundleNext]_bundleVars PROVE FirstSave'
  OBVIOUS
<1>1. ASSUME NEW r \in Result, NEW s \in SessionDoc \cup {NoSession}, OpenManifest(r, s)
      PROVE  FirstSave'
  <2>1. saves' = saves + 1 /\ saves \in Nat
    BY <1>1, ResultAssumption DEF OpenManifest, BundleTypeOK
  <2>2. saves = 0 => OnlyOf(r)'
    BY <1>1 DEF OpenManifest, FirstSave, OnlyOf
  <2> QED
    BY <2>1, <2>2 DEF FirstSave
<1>2. CASE saves' = saves
  <2>1. saves' = 0 => /\ manifest' = Absent /\ arrays' = Absent
                      /\ reader' = Idle /\ answer' = Failed /\ writer'.at = "rest"
    BY <1>2, ResultAssumption
       DEF FirstSave, BundleNext, bundleVars, files, history, SaveBundle, LoadBundle, OpenManifest, WriteManifest, OpenArrays,
           WriteArrays, OpenSession, WriteSession, Interrupt, ReadManifest,
           ManifestUnreadable, ReadArrays
  <2>2. saves' = 1 => \E r \in Result : OnlyOf(r)'
    BY <1>2, OnlyOfStep DEF FirstSave
  <2> QED
    BY <2>1, <2>2 DEF FirstSave
<1>3. saves' # saves => \E r \in Result, s \in SessionDoc \cup {NoSession} : OpenManifest(r, s)
  BY DEF BundleNext, bundleVars, files, history, SaveBundle, LoadBundle, WriteManifest, OpenArrays, WriteArrays,
         OpenSession, WriteSession, Interrupt, ReadManifest, ManifestUnreadable, ReadArrays
<1> QED
  BY <1>1, <1>2, <1>3

(* A half-written first bundle is never loaded as a whole one. *)
THEOREM FirstSaveIsDetected == BundleSpec => []FirstSaveDetected
<1>1. BundleInit => FirstSave
  BY DEF BundleInit, FirstSave, Resting
<1>2. BundleTypeOK /\ FirstSave => FirstSaveDetected
  <2> SUFFICES ASSUME BundleTypeOK, FirstSave, saves <= 1
               PROVE  answer = Failed \/ answer[1] = answer[2]
    BY DEF FirstSaveDetected
  <2>1. saves = 0 \/ saves = 1
    BY ResultAssumption DEF BundleTypeOK
  <2> QED
    BY <2>1 DEF FirstSave, OnlyOf
<1> QED
  BY <1>1, <1>2, FirstSaveStep, BundleTypeCorrect, PTL DEF BundleSpec

-----------------------------------------------------------------------------
(* The session of a save that ended is on disk, next to its manifest.      *)

DocKept == (~damaged /\ lastDoc # NoSession) => manifest # Absent /\ sessionFile = lastDoc

LEMMA DocKeptStep == BundleTypeOK /\ Undamaged /\ DocKept /\ [BundleNext]_bundleVars => DocKept'
<1> SUFFICES ASSUME BundleTypeOK, Undamaged, DocKept, [BundleNext]_bundleVars PROVE DocKept'
  OBVIOUS
<1> USE ResultAssumption DEF BundleTypeOK, BundleFile, Resting, history, files, DocKept
<1>1. ASSUME NEW r \in Result, NEW s \in SessionDoc \cup {NoSession}, OpenManifest(r, s)
      PROVE  DocKept'
  BY <1>1 DEF OpenManifest
<1>2. CASE WriteManifest \/ OpenArrays \/ OpenSession
  BY <1>2 DEF WriteManifest, OpenArrays, OpenSession, Undamaged
<1>3. CASE WriteArrays
  <2>1. CASE writer.session = NoSession
    BY <1>3, <2>1 DEF WriteArrays
  <2>2. CASE writer.session # NoSession
    BY <1>3, <2>2 DEF WriteArrays
  <2> QED
    BY <2>1, <2>2
<1>4. CASE WriteSession
  <2>1. manifest' = writer.result /\ writer.result \in Result
    BY <1>4 DEF WriteSession, Undamaged
  <2>2. sessionFile' = lastDoc'
    BY <1>4 DEF WriteSession
  <2> QED
    BY <2>1, <2>2
<1>5. CASE Interrupt
  BY <1>5 DEF Interrupt
<1>6. CASE ReadManifest \/ ManifestUnreadable \/ ReadArrays
  BY <1>6 DEF ReadManifest, ManifestUnreadable, ReadArrays
<1>7. CASE UNCHANGED bundleVars
  BY <1>7 DEF bundleVars
<1> QED
  BY <1>1, <1>2, <1>3, <1>4, <1>5, <1>6, <1>7 DEF BundleNext, SaveBundle, LoadBundle

(* A session passed to a save that ended is loaded again. *)
THEOREM SessionIsKept == BundleSpec => []SessionKept
<1>1. BundleInit => DocKept
  BY DEF BundleInit, DocKept
<1>2. BundleTypeOK /\ Undamaged /\ DocKept => SessionKept
  <2> SUFFICES ASSUME BundleTypeOK, Undamaged, DocKept, ~damaged, lastDoc # NoSession
               PROVE  SessionLoaded = lastDoc
    BY DEF SessionKept
  <2>1. manifest \in Result
    BY DEF DocKept, Undamaged
  <2>2. sessionFile = lastDoc /\ lastDoc \in SessionDoc
    BY DEF DocKept, BundleTypeOK
  <2> QED
    BY <2>1, <2>2, ResultAssumption DEF SessionLoaded
<1> QED
  BY <1>1, <1>2, DocKeptStep, BundleTypeCorrect, UndamagedCorrect, PTL DEF BundleSpec

-----------------------------------------------------------------------------
(* The entities and their documents, for any of the classes, any number of *)
(* fields in which an entity is not typical, and any number of damages.    *)
(*                                                                         *)
(* Of a class only two things matter: its fields have different names, and *)
(* each is Sound: what validate admits is neither refused nor changed by   *)
(* from_dict, and None, which is not written, is admitted only where a     *)
(* missing field reads as None again.                                      *)

Sound(f) ==
    /\ f.default \in {None, Zero, Ok, Current}
    /\ f.legal \in SUBSET Value
    /\ f.read \in {"plain", "exact", "strict", "letters", "or empty", "part", "open part"}
    /\ f.read = "exact" => f.legal \in SUBSET {None, Ok, Other}
    /\ f.read # "plain" => /\ Bad \notin f.legal /\ f.default # Current
                           /\ f.read \in {"part", "open part"} => Zero \notin f.legal
    /\ None \in f.legal => /\ ~f.required
                           /\ f.read \in {"plain", "exact", "part", "open part"}
                           /\ f.default = None \/ (f.name = "sentrixsync_version" /\ f.legal = Value)
    /\ f.read \in {"strict", "letters", "or empty"} /\ ~f.required => f.default = Zero
    /\ f.read \in {"exact", "part", "open part"} => f.default = None

Legal == {Fixed, Flag, Filled, Number}

USE DEF None, Zero, Ok, Other, Bad, Current

LEMMA MustSound ==
    ASSUME NEW n, NEW L \in Legal
    PROVE  Sound(Must(n, L)) /\ Must(n, L).name = n
BY DEF Sound, Must, Field, Legal, Fixed, Flag, Filled, Number, Value

LEMMA MustBeSound ==
    ASSUME NEW n, NEW r \in {"exact", "strict"}
    PROVE  Sound(MustBe(n, Filled, r)) /\ MustBe(n, Filled, r).name = n
BY DEF Sound, MustBe, Field, Filled, Value

LEMMA MaySound ==
    ASSUME NEW n, NEW L \in Legal \cup {Free}
    PROVE  Sound(May(n, L)) /\ May(n, L).name = n
BY DEF Sound, May, Field, Optional, Legal, Free, Fixed, Flag, Filled, Number, Value

LEMMA MayBeSound ==
    ASSUME NEW n, NEW r \in {"exact", "part", "open part"}
    PROVE  Sound(MayBe(n, Filled, r)) /\ MayBe(n, Filled, r).name = n
BY DEF Sound, MayBe, Field, Optional, Filled, Value

LEMMA OrSound ==
    ASSUME NEW n, NEW d \in {Zero, Ok, Current}, NEW L \in Legal
    PROVE  Sound(Or(n, d, L)) /\ Or(n, d, L).name = n
BY DEF Sound, Or, Field, Legal, Fixed, Flag, Filled, Number, Value

LEMMA OrVersionSound ==
    Sound(Or("sentrixsync_version", Current, Free))
    /\ Or("sentrixsync_version", Current, Free).name = "sentrixsync_version"
BY DEF Sound, Or, Field, Free, Value

LEMMA OrEmptySound ==
    ASSUME NEW n, NEW L \in {Filled, Number}, NEW r \in {"strict", "letters", "or empty"}
    PROVE  Sound(OrEmpty(n, L, r)) /\ OrEmpty(n, L, r).name = n
BY DEF Sound, OrEmpty, Field, Filled, Number, Value

Proper(s) == /\ Len(s) \in Nat /\ DOMAIN s = 1..Len(s)
             /\ \A i \in DOMAIN s : Sound(s[i])
             /\ \A i, j \in DOMAIN s : s[i].name = s[j].name => i = j

LEMMA LegalKinds == Fixed \in Legal /\ Flag \in Legal /\ Filled \in Legal /\ Number \in Legal
BY DEF Legal

(* A field that is sound and has this name. *)
Is(f, n) == Sound(f) /\ f.name = n

LEMMA ClockDescriptorProper == Proper(ClockDescriptor)
<1>1. DOMAIN ClockDescriptor = 1..7 /\ Len(ClockDescriptor) = 7
  BY DEF ClockDescriptor
<1>2. /\ Is(ClockDescriptor[1], "clock_id") /\ Is(ClockDescriptor[2], "timestamp_unit")
      /\ Is(ClockDescriptor[3], "resolution_us")
      /\ Is(ClockDescriptor[4], "nominal_epoch")
      /\ Is(ClockDescriptor[5], "expected_offset_us")
      /\ Is(ClockDescriptor[6], "expected_skew_ppm")
      /\ Is(ClockDescriptor[7], "expected_drift")
  BY LegalKinds, MustSound, OrSound, MaySound
     DEF Is, ClockDescriptor
<1> QED
  BY <1>1, <1>2 DEF Is, Proper

LEMMA StreamDescriptorProper == Proper(StreamDescriptor)
<1>1. DOMAIN StreamDescriptor = 1..10 /\ Len(StreamDescriptor) = 10
  BY DEF StreamDescriptor
<1>2. /\ Is(StreamDescriptor[1], "stream_id") /\ Is(StreamDescriptor[2], "device_id")
      /\ Is(StreamDescriptor[3], "kind") /\ Is(StreamDescriptor[4], "kernel")
      /\ Is(StreamDescriptor[5], "payload_kind") /\ Is(StreamDescriptor[6], "units")
      /\ Is(StreamDescriptor[7], "nominal_rate_hz")
      /\ Is(StreamDescriptor[8], "payload_shape")
      /\ Is(StreamDescriptor[9], "subframe_capable")
      /\ Is(StreamDescriptor[10], "quality_floor")
  BY LegalKinds, MustSound, MustBeSound, MaySound, OrSound
     DEF Is, StreamDescriptor
<1> QED
  BY <1>1, <1>2 DEF Is, Proper

LEMMA SampleProper == Proper(Sample)
<1>1. DOMAIN Sample = 1..9 /\ Len(Sample) = 9
  BY DEF Sample
<1>2. /\ Is(Sample[1], "stream_id") /\ Is(Sample[2], "t_device_us")
      /\ Is(Sample[3], "payload_ref") /\ Is(Sample[4], "payload_inline")
      /\ Is(Sample[5], "seq") /\ Is(Sample[6], "t_recv_us") /\ Is(Sample[7], "valid")
      /\ Is(Sample[8], "confidence") /\ Is(Sample[9], "meta")
  BY LegalKinds, MustSound, MaySound, OrSound
     DEF Is, Sample
<1> QED
  BY <1>1, <1>2 DEF Is, Proper

LEMMA DeviceDescriptorProper == Proper(DeviceDescriptor)
<1>1. DOMAIN DeviceDescriptor = 1..14 /\ Len(DeviceDescriptor) = 14
  BY DEF DeviceDescriptor
<1>2. /\ Is(DeviceDescriptor[1], "device_id") /\ Is(DeviceDescriptor[2], "modality")
      /\ Is(DeviceDescriptor[3], "producer") /\ Is(DeviceDescriptor[4], "is_synthetic")
      /\ Is(DeviceDescriptor[5], "clock") /\ Is(DeviceDescriptor[6], "evidence_tiers")
      /\ Is(DeviceDescriptor[7], "streams")
      /\ Is(DeviceDescriptor[8], "reference_candidate")
      /\ Is(DeviceDescriptor[9], "calibration_refs")
      /\ Is(DeviceDescriptor[10], "topology_ref")
      /\ Is(DeviceDescriptor[11], "topology_hash")
      /\ Is(DeviceDescriptor[12], "param_tiers") /\ Is(DeviceDescriptor[13], "notes")
      /\ Is(DeviceDescriptor[14], "contract_version")
  BY LegalKinds, MustSound, MustBeSound, OrSound, OrEmptySound, MaySound
     DEF Is, DeviceDescriptor
<1> QED
  BY <1>1, <1>2 DEF Is, Proper

LEMMA DeviceRegistrationProper == Proper(DeviceRegistration)
<1>1. DOMAIN DeviceRegistration = 1..5 /\ Len(DeviceRegistration) = 5
  BY DEF DeviceRegistration
<1>2. /\ Is(DeviceRegistration[1], "device_id") /\ Is(DeviceRegistration[2], "role")
      /\ Is(DeviceRegistration[3], "descriptor")
      /\ Is(DeviceRegistration[4], "descriptor_ref")
      /\ Is(DeviceRegistration[5], "stream_refs")
  BY LegalKinds, MustSound, MustBeSound, MayBeSound, MaySound, OrEmptySound
     DEF Is, DeviceRegistration
<1> QED
  BY <1>1, <1>2 DEF Is, Proper

LEMMA SessionMetadataProper == Proper(SessionMetadata)
<1>1. DOMAIN SessionMetadata = 1..11 /\ Len(SessionMetadata) = 11
  BY DEF SessionMetadata
<1>2. /\ Is(SessionMetadata[1], "session_id") /\ Is(SessionMetadata[2], "origin")
      /\ Is(SessionMetadata[3], "producers") /\ Is(SessionMetadata[4], "schema_version")
      /\ Is(SessionMetadata[5], "contract_version")
      /\ Is(SessionMetadata[6], "sentrixsync_version")
  BY LegalKinds, MustSound, MustBeSound, OrEmptySound, OrSound, OrVersionSound
     DEF Is, SessionMetadata
<1>3. /\ Is(SessionMetadata[7], "created_at")
      /\ Is(SessionMetadata[8], "reference_clock_policy")
      /\ Is(SessionMetadata[9], "grid_rate_hz")
      /\ Is(SessionMetadata[10], "rejection_tolerance_us")
      /\ Is(SessionMetadata[11], "notes")
  BY LegalKinds, OrSound, MaySound DEF Is, SessionMetadata
<1> QED
  BY <1>1, <1>2, <1>3 DEF Is, Proper

LEMMA CalibrationRefProper == Proper(CalibrationRef)
<1>1. DOMAIN CalibrationRef = 1..7 /\ Len(CalibrationRef) = 7
  BY DEF CalibrationRef
<1>2. /\ Is(CalibrationRef[1], "calibration_id") /\ Is(CalibrationRef[2], "kind")
      /\ Is(CalibrationRef[3], "uri") /\ Is(CalibrationRef[4], "device_id")
      /\ Is(CalibrationRef[5], "device_ids") /\ Is(CalibrationRef[6], "tier")
      /\ Is(CalibrationRef[7], "confidence")
  BY LegalKinds, MustSound, MaySound, MayBeSound
     DEF Is, CalibrationRef
<1> QED
  BY <1>1, <1>2 DEF Is, Proper

LEMMA ExportRecordProper == Proper(ExportRecord)
<1>1. DOMAIN ExportRecord = 1..6 /\ Len(ExportRecord) = 6
  BY DEF ExportRecord
<1>2. /\ Is(ExportRecord[1], "format") /\ Is(ExportRecord[2], "uri")
      /\ Is(ExportRecord[3], "produced_at") /\ Is(ExportRecord[4], "frame_count")
      /\ Is(ExportRecord[5], "sample_count") /\ Is(ExportRecord[6], "consumer_hint")
  BY LegalKinds, MustSound, MaySound
     DEF Is, ExportRecord
<1> QED
  BY <1>1, <1>2 DEF Is, Proper

LEMMA GroundTruthBlockProper == Proper(GroundTruthBlock)
<1>1. DOMAIN GroundTruthBlock = 1..2 /\ Len(GroundTruthBlock) = 2
  BY DEF GroundTruthBlock
<1>2. /\ Is(GroundTruthBlock[1], "clock_models") /\ Is(GroundTruthBlock[2], "note")
  BY LegalKinds, OrEmptySound, MaySound
     DEF Is, GroundTruthBlock
<1> QED
  BY <1>1, <1>2 DEF Is, Proper

LEMMA SessionProper == Proper(Session)
<1>1. DOMAIN Session = 1..8 /\ Len(Session) = 8
  BY DEF Session
<1>2. /\ Is(Session[1], "metadata") /\ Is(Session[2], "devices")
      /\ Is(Session[3], "calibration_refs") /\ Is(Session[4], "timeline")
      /\ Is(Session[5], "sync_report") /\ Is(Session[6], "validation_report")
      /\ Is(Session[7], "exports") /\ Is(Session[8], "ground_truth")
  BY LegalKinds, MustBeSound, OrEmptySound, MayBeSound
     DEF Is, Session
<1> QED
  BY <1>1, <1>2 DEF Is, Proper

LEMMA ClockModelProper == Proper(ClockModel)
<1>1. DOMAIN ClockModel = 1..9 /\ Len(ClockModel) = 9
  BY DEF ClockModel
<1>2. /\ Is(ClockModel[1], "device_id") /\ Is(ClockModel[2], "ref_clock_id")
      /\ Is(ClockModel[3], "alpha") /\ Is(ClockModel[4], "beta_us")
      /\ Is(ClockModel[5], "segments") /\ Is(ClockModel[6], "method")
      /\ Is(ClockModel[7], "fit_residual_us") /\ Is(ClockModel[8], "n_events")
      /\ Is(ClockModel[9], "clock_confidence")
  BY LegalKinds, MustSound, OrSound, MaySound, MayBeSound
     DEF Is, ClockModel
<1> QED
  BY <1>1, <1>2 DEF Is, Proper

LEMMA SubframeBucketsProper == Proper(SubframeBuckets)
<1>1. DOMAIN SubframeBuckets = 1..3 /\ Len(SubframeBuckets) = 3
  BY DEF SubframeBuckets
<1>2. /\ Is(SubframeBuckets[1], "anchor_stream") /\ Is(SubframeBuckets[2], "rule")
      /\ Is(SubframeBuckets[3], "R")
  BY LegalKinds, MustSound, MaySound
     DEF Is, SubframeBuckets
<1> QED
  BY <1>1, <1>2 DEF Is, Proper

LEMMA TimelineRefProper == Proper(TimelineRef)
<1>1. DOMAIN TimelineRef = 1..9 /\ Len(TimelineRef) = 9
  BY DEF TimelineRef
<1>2. /\ Is(TimelineRef[1], "timeline_id") /\ Is(TimelineRef[2], "reference_clock_id")
      /\ Is(TimelineRef[3], "grid_rate_hz") /\ Is(TimelineRef[4], "t_start_us")
      /\ Is(TimelineRef[5], "t_end_us") /\ Is(TimelineRef[6], "n_grid")
      /\ Is(TimelineRef[7], "manifest_uri") /\ Is(TimelineRef[8], "aligned_table_uri")
      /\ Is(TimelineRef[9], "subframe_buckets")
  BY LegalKinds, MustSound, MaySound, MayBeSound
     DEF Is, TimelineRef
<1> QED
  BY <1>1, <1>2 DEF Is, Proper

LEMMA SyncReportProper == Proper(SyncReport)
<1>1. DOMAIN SyncReport = 1..7 /\ Len(SyncReport) = 7
  BY DEF SyncReport
<1>2. /\ Is(SyncReport[1], "reference_clock_id")
      /\ Is(SyncReport[2], "reference_selection") /\ Is(SyncReport[3], "sync_resid_us")
      /\ Is(SyncReport[4], "per_device") /\ Is(SyncReport[5], "sync_method")
      /\ Is(SyncReport[6], "coverage") /\ Is(SyncReport[7], "dropout")
  BY LegalKinds, MustSound, OrEmptySound, MaySound
     DEF Is, SyncReport
<1> QED
  BY <1>1, <1>2 DEF Is, Proper

LEMMA ValidationReportProper == Proper(ValidationReport)
<1>1. DOMAIN ValidationReport = 1..4 /\ Len(ValidationReport) = 4
  BY DEF ValidationReport
<1>2. /\ Is(ValidationReport[1], "gate_verdict")
      /\ Is(ValidationReport[2], "property_checks")
      /\ Is(ValidationReport[3], "roundtrip_accuracy")
      /\ Is(ValidationReport[4], "gate_detail")
  BY LegalKinds, MustBeSound, OrEmptySound, MaySound
     DEF Is, ValidationReport
<1> QED
  BY <1>1, <1>2 DEF Is, Proper

LEMMA SyncEventProper == Proper(SyncEvent)
<1>1. DOMAIN SyncEvent = 1..7 /\ Len(SyncEvent) = 7
  BY DEF SyncEvent
<1>2. /\ Is(SyncEvent[1], "event_id") /\ Is(SyncEvent[2], "tier")
      /\ Is(SyncEvent[3], "observations") /\ Is(SyncEvent[4], "detector")
      /\ Is(SyncEvent[5], "quality") /\ Is(SyncEvent[6], "kind")
      /\ Is(SyncEvent[7], "meta")
  BY LegalKinds, MustSound, MustBeSound, MaySound
     DEF Is, SyncEvent
<1> QED
  BY <1>1, <1>2 DEF Is, Proper

LEMMA GateThresholdsProper == Proper(GateThresholds)
<1>1. DOMAIN GateThresholds = 1..5 /\ Len(GateThresholds) = 5
  BY DEF GateThresholds
<1>2. /\ Is(GateThresholds[1], "release_resid_us")
      /\ Is(GateThresholds[2], "certified_resid_us")
      /\ Is(GateThresholds[3], "hardfail_resid_us")
      /\ Is(GateThresholds[4], "min_coverage") /\ Is(GateThresholds[5], "max_dropout")
  BY LegalKinds, OrSound
     DEF Is, GateThresholds
<1> QED
  BY <1>1, <1>2 DEF Is, Proper

LEMMA ReferenceConfigProper == Proper(ReferenceConfig)
<1>1. DOMAIN ReferenceConfig = 1..4 /\ Len(ReferenceConfig) = 4
  BY DEF ReferenceConfig
<1>2. /\ Is(ReferenceConfig[1], "reference_clock_policy")
      /\ Is(ReferenceConfig[2], "grid_rate_hz")
      /\ Is(ReferenceConfig[3], "rejection_tolerance_us")
      /\ Is(ReferenceConfig[4], "gates")
  BY LegalKinds, OrSound, MaySound, MayBeSound
     DEF Is, ReferenceConfig
<1> QED
  BY <1>1, <1>2 DEF Is, Proper

LEMMA ClassesProper == \A c \in DOMAIN Schema : Proper(Schema[c])
BY ClockDescriptorProper, StreamDescriptorProper, SampleProper, DeviceDescriptorProper,
   DeviceRegistrationProper, SessionMetadataProper, CalibrationRefProper, ExportRecordProper,
   GroundTruthBlockProper, SessionProper, ClockModelProper, SubframeBucketsProper,
   TimelineRefProper, SyncReportProper, ValidationReportProper, SyncEventProper,
   GateThresholdsProper, ReferenceConfigProper DEF Schema

LEMMA FieldsAre ==
    ASSUME NEW c \in DOMAIN Schema
    PROVE  /\ \A f \in Fields(c) : /\ Sound(f) /\ f.name \in Names(c)
                                   /\ (CHOOSE g \in Fields(c) : g.name = f.name) = f
           /\ \A n \in Names(c) : \E f \in Fields(c) : f.name = n
<1>1. \A f \in Fields(c) : Sound(f)
  BY ClassesProper DEF Fields, Proper
<1>2. \A f, g \in Fields(c) : f.name = g.name => f = g
  BY ClassesProper DEF Fields, Proper
<1>3. \A f \in Fields(c) : f.name \in Names(c)
  BY DEF Names
<1>4. \A n \in Names(c) : \E f \in Fields(c) : f.name = n
  BY DEF Names
<1>5. \A f \in Fields(c) : (CHOOSE g \in Fields(c) : g.name = f.name) = f
  BY <1>2
<1> QED
  BY <1>1, <1>3, <1>4, <1>5

(* What a class is looked at for by name.                                  *)
LEMMA NamedFields ==
    /\ \A f \in Fields("SessionMetadata") :
         f.name = "contract_version" => f = Or("contract_version", Current, Filled)
    /\ "contract_version" \in Names("SessionMetadata")
    /\ \A f \in Fields("Session") : f.name = "exports" => f = OrEmpty("exports", Number, "strict")
<1>1. /\ Is(SessionMetadata[5], "contract_version") /\ 5 \in DOMAIN SessionMetadata
      /\ SessionMetadata[5] = Or("contract_version", Current, Filled)
  BY LegalKinds, OrSound DEF Is, SessionMetadata
<1>2. /\ Is(Session[7], "exports") /\ 7 \in DOMAIN Session
      /\ Session[7] = OrEmpty("exports", Number, "strict")
  <2>1. Session[7] = OrEmpty("exports", Number, "strict") /\ 7 \in DOMAIN Session
    BY DEF Session
  <2> QED
    BY <2>1, OrEmptySound DEF Is
<1>3. Schema["SessionMetadata"] = SessionMetadata /\ Schema["Session"] = Session
  BY DEF Schema
<1> QED
  BY <1>1, <1>2, <1>3, SessionMetadataProper, SessionProper DEF Is, Proper, Fields, Names

LEMMA RelatedFields ==
    /\ {"payload_ref", "payload_inline"} \subseteq Names("Sample")
    /\ {"streams", "device_id"} \subseteq Names("DeviceDescriptor")
    /\ {"descriptor", "descriptor_ref", "device_id", "stream_refs"}
         \subseteq Names("DeviceRegistration")
    /\ {"ground_truth", "metadata", "sync_report", "timeline"} \subseteq Names("Session")
    /\ {"t_start_us", "t_end_us"} \subseteq Names("TimelineRef")
    /\ {"certified_resid_us", "release_resid_us", "hardfail_resid_us"}
         \subseteq Names("GateThresholds")
<1>1. {"payload_ref", "payload_inline"} \subseteq Names("Sample")
  BY DEF Names, Fields, Schema, Sample, May, Field
<1>2. {"streams", "device_id"} \subseteq Names("DeviceDescriptor")
  BY DEF Names, Fields, Schema, DeviceDescriptor, Must, MustBe, Field
<1>3. {"descriptor", "descriptor_ref", "device_id", "stream_refs"}
        \subseteq Names("DeviceRegistration")
  BY DEF Names, Fields, Schema, DeviceRegistration, Must, May, MayBe, OrEmpty, Field
<1>4. {"ground_truth", "metadata", "sync_report", "timeline"} \subseteq Names("Session")
  <2>1. /\ Is(Session[1], "metadata") /\ Is(Session[4], "timeline")
        /\ Is(Session[5], "sync_report") /\ Is(Session[8], "ground_truth")
    BY LegalKinds, MustBeSound, MayBeSound DEF Is, Session
  <2>3. {1, 4, 5, 8} \subseteq DOMAIN Session
    <3>1. DOMAIN Session = 1..8
      BY DEF Session
    <3> QED
      BY <3>1
  <2>2. Schema["Session"] = Session
    BY DEF Schema
  <2> QED
    BY <2>1, <2>2, <2>3 DEF Names, Fields, Is
<1>5. {"t_start_us", "t_end_us"} \subseteq Names("TimelineRef")
  BY DEF Names, Fields, Schema, TimelineRef, May, Field
<1>6. {"certified_resid_us", "release_resid_us", "hardfail_resid_us"} \subseteq Names("GateThresholds")
  BY DEF Names, Fields, Schema, GateThresholds, Or, Field
<1> QED
  BY <1>1, <1>2, <1>3, <1>4, <1>5, <1>6

-----------------------------------------------------------------------------
(* What a document that was written as it should be is read as.            *)

Entities(c) == [Names(c) -> Value]

LEMMA WrittenIs ==
    ASSUME NEW c \in DOMAIN Schema, NEW e \in Entities(c)
    PROVE  /\ Written(c, e) \in SUBSET Names(c) /\ DOMAIN ToDict(c, e) = Written(c, e)
           /\ \A n \in Written(c, e) : ToDict(c, e)[n] = e[n] /\ e[n] \in Value \ {None}
           /\ \A n \in Names(c) \ Written(c, e) :
                e[n] = None \/ (c = "Session" /\ n = "exports" /\ e[n] = Zero)
  BY DEF Written, ToDict, Entities

LEMMA DefaultIs ==
    ASSUME NEW f, Sound(f), ~f.required
    PROVE  /\ Default(f) \in Value /\ Default(f) # Bad
           /\ f.default # Current => Default(f) = f.default
           /\ Converted(f, Default(f)) = Default(f)
<1>1. Version(build) \in {Ok, Other}
  BY DEF Version
<1>2. Default(f) \in {None, Zero, Ok, Other}
  BY <1>1 DEF Default, Sound
<1>3. f.default # Current => Default(f) = f.default
  BY DEF Default
<1>4. /\ f.read \in {"part", "open part"} => Default(f) = None
      /\ f.read = "or empty" => Default(f) = Zero
  BY <1>3 DEF Sound
<1>5. Converted(f, Default(f)) = Default(f)
  BY <1>2, <1>4 DEF Converted
<1> QED
  BY <1>2, <1>3, <1>5 DEF Value

(* What validate admits is neither refused nor changed.                    *)
LEMMA LegalIsRead ==
    ASSUME NEW f, Sound(f), NEW v \in f.legal, v # None
    PROVE  ~Refuses(f, v) /\ Converted(f, v) = v
  BY DEF Sound, Refuses, Converted, Value

LEMMA FromDictIs ==
    ASSUME NEW c \in DOMAIN Schema, NEW d
    PROVE  /\ DOMAIN FromDict(c, d) = Names(c)
           /\ \A f \in Fields(c) : FromDict(c, d)[f.name] = Converted(f, Found(d, f))
<1>1. \A f \in Fields(c) : f.name \in Names(c) /\ (CHOOSE g \in Fields(c) : g.name = f.name) = f
  BY FieldsAre
<1> QED
  BY <1>1 DEF FromDict

(* The field stands in the document as it was written, or as it was left out. *)
Stands(c, e, d, n) == /\ n \in DOMAIN d <=> n \in Written(c, e)
                      /\ n \in DOMAIN d => d[n] = e[n]

LEMMA ReadBack ==
    ASSUME NEW c \in DOMAIN Schema, NEW e \in Entities(c), ValidEntity(c, e), NEW f \in Fields(c),
           NEW d, Stands(c, e, d, f.name)
    PROVE  /\ f.required => f.name \in DOMAIN d
           /\ ~Refuses(f, Found(d, f))
           /\ \/ Converted(f, Found(d, f)) = e[f.name]
              \/ /\ f.name = "sentrixsync_version" /\ e[f.name] = None /\ f.legal = Value
                 /\ Converted(f, Found(d, f)) \in Value
<1> DEFINE n == f.name
<1>1. Sound(f) /\ n \in Names(c)
  BY FieldsAre
<1>2. e[n] \in f.legal
  BY DEF ValidEntity
<1>3. CASE n \in Written(c, e)
  <2>1. n \in DOMAIN d /\ Found(d, f) = e[n] /\ e[n] # None
    BY <1>3, WrittenIs DEF Found, Stands
  <2> QED
    BY <1>1, <1>2, <2>1, LegalIsRead
<1>4. CASE n \notin Written(c, e)
  <2>1. Found(d, f) = Default(f)
    BY <1>4 DEF Found, Stands
  <2>2. CASE e[n] = None
    <3>1. /\ ~f.required /\ f.read \in {"plain", "exact", "part", "open part"}
          /\ f.default = None \/ (n = "sentrixsync_version" /\ f.legal = Value)
      BY <1>1, <1>2, <2>2 DEF Sound
    <3>2. ~Refuses(f, Default(f))
      <4>1. f.read \in {"exact", "part"} => Default(f) = None
        BY <1>1, <3>1, DefaultIs DEF Sound
      <4> QED
        BY <3>1, <4>1 DEF Refuses
    <3>3. Converted(f, Default(f)) = Default(f) /\ Default(f) \in Value
          /\ (f.default = None => Default(f) = None)
      BY <1>1, <3>1, DefaultIs
    <3> QED
      BY <2>1, <2>2, <3>1, <3>2, <3>3
  <2>3. CASE c = "Session" /\ n = "exports" /\ e[n] = Zero
    <3>1. f = OrEmpty("exports", Number, "strict")
      BY <2>3, NamedFields
    <3>2. ~f.required /\ f.default = Zero /\ f.read = "strict"
      BY <3>1 DEF OrEmpty, Field
    <3>3. Default(f) = Zero /\ Converted(f, Zero) = Zero /\ ~Refuses(f, Zero)
      BY <3>2 DEF Default, Converted, Refuses
    <3> QED
      BY <2>1, <2>3, <3>2, <3>3
  <2> QED
    BY <1>1, <1>4, <2>2, <2>3, WrittenIs
<1> QED
  BY <1>3, <1>4

(* The rules that relate fields look at none that may change.              *)
LEMMA SameRules ==
    ASSUME NEW c \in DOMAIN Schema, NEW e, NEW r, Coherent(c, e),
           \A n \in Names(c) : n # "sentrixsync_version" => r[n] = e[n]
    PROVE  Coherent(c, r)
<1>1. c = "Sample" => r.payload_ref = e.payload_ref /\ r.payload_inline = e.payload_inline
  BY RelatedFields
<1>2. c = "DeviceDescriptor" => r.streams = e.streams /\ r.device_id = e.device_id
  BY RelatedFields
<1>3. c = "DeviceRegistration" =>
        /\ r.descriptor = e.descriptor /\ r.descriptor_ref = e.descriptor_ref
        /\ r.device_id = e.device_id /\ r.stream_refs = e.stream_refs
  BY RelatedFields
<1>4. c = "Session" => /\ r.ground_truth = e.ground_truth /\ r.metadata = e.metadata
                       /\ r.sync_report = e.sync_report /\ r.timeline = e.timeline
  BY RelatedFields
<1>5. c = "TimelineRef" => r.t_start_us = e.t_start_us /\ r.t_end_us = e.t_end_us
  BY RelatedFields
<1>6. c = "GateThresholds" => /\ r.certified_resid_us = e.certified_resid_us
                              /\ r.release_resid_us = e.release_resid_us
                              /\ r.hardfail_resid_us = e.hardfail_resid_us
  BY RelatedFields
<1> QED
  BY <1>1, <1>2, <1>3, <1>4, <1>5, <1>6 DEF Coherent

LEMMA Reloaded ==
    ASSUME NEW c \in DOMAIN Schema, NEW e \in Entities(c), ValidEntity(c, e)
    PROVE  LET d == ToDict(c, e)
           IN  /\ Readable(c, d) /\ ~Unsupported(c, d) /\ ValidEntity(c, FromDict(c, d))
               /\ \A n \in Names(c) : \/ FromDict(c, d)[n] = e[n]
                                      \/ n = "sentrixsync_version" /\ e[n] = None
<1> DEFINE d == ToDict(c, e)
           r == FromDict(c, d)
<1>1. \A f \in Fields(c) :
        /\ f.required => f.name \in DOMAIN d
        /\ ~Refuses(f, Found(d, f))
        /\ \/ Converted(f, Found(d, f)) = e[f.name]
           \/ /\ f.name = "sentrixsync_version" /\ e[f.name] = None /\ f.legal = Value
              /\ Converted(f, Found(d, f)) \in Value
  <2> SUFFICES ASSUME NEW f \in Fields(c)
               PROVE  /\ f.required => f.name \in DOMAIN d
                      /\ ~Refuses(f, Found(d, f))
                      /\ \/ Converted(f, Found(d, f)) = e[f.name]
                         \/ /\ f.name = "sentrixsync_version" /\ e[f.name] = None /\ f.legal = Value
                            /\ Converted(f, Found(d, f)) \in Value
    OBVIOUS
  <2>1. Stands(c, e, d, f.name)
    BY WrittenIs DEF Stands
  <2> QED
    BY <2>1, ReadBack
<1>2. \A f \in Fields(c) : \/ r[f.name] = e[f.name]
                           \/ /\ f.name = "sentrixsync_version" /\ e[f.name] = None
                              /\ f.legal = Value /\ r[f.name] \in Value
  BY <1>1, FromDictIs
<1> HIDE DEF d, r
<1>3. Readable(c, d)
  BY <1>1 DEF Readable
<1>4. \A n \in Names(c) : r[n] = e[n] \/ (n = "sentrixsync_version" /\ e[n] = None)
  BY <1>2, FieldsAre
<1>5. ValidEntity(c, r)
  <2>1. \A f \in Fields(c) : r[f.name] \in f.legal
    BY <1>2 DEF ValidEntity
  <2>2. Coherent(c, r)
    <3>1. Coherent(c, e)
      BY DEF ValidEntity
    <3> QED
      BY <1>4, <3>1, SameRules
  <2> QED
    BY <2>1, <2>2 DEF ValidEntity
<1>6. ~Unsupported(c, d)
  <2> SUFFICES ASSUME c = "SessionMetadata", "contract_version" \in DOMAIN d
               PROVE  d["contract_version"] \notin {Zero, Bad}
    BY DEF Unsupported
  <2>1. PICK f \in Fields(c) : f.name = "contract_version"
    BY NamedFields DEF Names
  <2>2. f.legal = Filled
    BY <2>1, NamedFields DEF Or, Field
  <2>3. e["contract_version"] \in Filled
    BY <2>1, <2>2 DEF ValidEntity
  <2>4. d["contract_version"] = e["contract_version"]
    BY WrittenIs DEF d
  <2> QED
    BY <2>3, <2>4 DEF Filled
<1> QED
  BY <1>3, <1>4, <1>5, <1>6 DEF d, r

-----------------------------------------------------------------------------
(* The invariant: a document holds of the entity that was saved what was   *)
(* not damaged, and what was loaded is what the document at hand is read   *)
(* as, by the program that runs.                                           *)

ClassInv == class \in Classes /\ class \in DOMAIN Schema

HoldsSaved(d) ==
    /\ DOMAIN d \subseteq Names(class)
    /\ \A n \in DOMAIN d : d[n] \in Value

(* Away from the damage, given where that is. *)
Spared(d, at, short) ==
    \A j \in DOMAIN Schema[class] :
        \/ j = at
        \/ short /\ j > at /\ Schema[class][j].name \notin DOMAIN d
        \/ Stands(class, saved, d, Schema[class][j].name)

DocInv == doc # NoDoc => /\ HoldsSaved(doc) /\ Spared(doc, hit, cut)
                         /\ checked => ValidEntity(class, saved)
                         /\ hit = 0 => doc = ToDict(class, saved)

ReadInv == /\ outcome \in {"loaded", "unchecked"} =>
                doc # NoDoc /\ Accepted(outcome = "loaded") /\ entity = FromDict(class, doc)
           /\ outcome = "refused" => doc # NoDoc /\ ~Accepted(TRUE)

EntityInv == EntityTypeOK /\ ClassInv /\ DocInv /\ ReadInv

LEMMA NamesTypical ==
    ASSUME NEW c \in DOMAIN Schema, NEW e \in Typical(c)
    PROVE  e \in Entities(c)
<1>1. CASE e = [n \in Names(c) |-> IF n = "payload_inline" THEN None ELSE Ok]
  BY <1>1 DEF Entities, Value
<1>2. CASE e = [n \in Names(c) |-> LET f == CHOOSE g \in Fields(c) : g.name = n
                IN  IF f.required \/ n = "descriptor" \/ n = "payload_ref" \/ n = "producers"
                       \/ f.default = Current THEN Ok
                    ELSE f.default]
  <2>1. \A n \in Names(c) : LET f == CHOOSE g \in Fields(c) : g.name = n IN Sound(f)
    BY FieldsAre
  <2>2. \A n \in Names(c) : LET f == CHOOSE g \in Fields(c) : g.name = n
                            IN  f.default \in Value \/ f.default = Current
    BY <2>1 DEF Sound, Value
  <2>3. Ok \in Value
    BY DEF Value
  <2> QED
    BY <1>2, <2>2, <2>3 DEF Entities
<1> QED
  BY <1>1, <1>2 DEF Typical

LEMMA EntityInitInv == EntityInit => EntityInv
<1> SUFFICES ASSUME EntityInit PROVE EntityInv
  OBVIOUS
<1>1. class \in Classes /\ class \in DOMAIN Schema
  BY ClassAssumption DEF EntityInit
<1>2. entity \in Entities(class)
  <2>1. PICK e \in Typical(class), odd \in SUBSET Names(class) : \E v \in [odd -> Value] :
               entity = [n \in Names(class) |-> IF n \in odd THEN v[n] ELSE e[n]]
    BY DEF EntityInit
  <2>2. PICK v \in [odd -> Value] :
               entity = [n \in Names(class) |-> IF n \in odd THEN v[n] ELSE e[n]]
    BY <2>1
  <2>3. e \in Entities(class)
    BY <1>1, NamesTypical
  <2> QED
    BY <2>2, <2>3 DEF Entities
<1>3. EntityTypeOK
  <2>1. saved = entity /\ harm = 0 /\ doc = NoDoc /\ build = "old" /\ hit = 0
        /\ cut = FALSE /\ checked = FALSE /\ outcome = "none"
    BY DEF EntityInit
  <2>2. MaxHarm \in Nat
    BY ClassAssumption
  <2>3. entity \in [Names(class) -> Value] /\ saved \in [Names(class) -> Value]
    BY <1>2, <2>1 DEF Entities
  <2>4. harm \in 0..MaxHarm
    BY <2>1, <2>2
  <2> QED
    BY <2>1, <2>3, <2>4 DEF EntityTypeOK
<1> QED
  BY <1>1, <1>3 DEF EntityInit, EntityInv, ClassInv, DocInv, ReadInv

(* A document of the values a field may have is read as an entity.         *)
LEMMA ReadsAsEntity ==
    ASSUME ClassInv, EntityTypeOK, HoldsSaved(doc), Readable(class, doc)
    PROVE  FromDict(class, doc) \in Entities(class)
<1>1. class \in DOMAIN Schema
  BY DEF ClassInv
<1>2. \A f \in Fields(class) : Converted(f, Found(doc, f)) \in Value
  <2> SUFFICES ASSUME NEW f \in Fields(class)
               PROVE  Converted(f, Found(doc, f)) \in Value
    OBVIOUS
  <2>1. Sound(f)
    BY <1>1, FieldsAre
  <2>2. Found(doc, f) \in Value
    <3>1. CASE f.name \in DOMAIN doc
      BY <3>1 DEF HoldsSaved, Found
    <3>2. CASE f.name \notin DOMAIN doc
      <4>1. ~f.required
        BY <3>2 DEF Readable
      <4>2. Default(f) \in Value
        BY <2>1, <4>1, DefaultIs
      <4> QED
        BY <3>2, <4>2 DEF Found
    <3> QED
      BY <3>1, <3>2
  <2> QED
    BY <2>2 DEF Converted, Value
<1>3. \A f \in Fields(class) : FromDict(class, doc)[f.name] \in Value
  BY <1>1, <1>2, FromDictIs
<1>4. \A n \in Names(class) : FromDict(class, doc)[n] \in Value
  BY <1>1, <1>3, FieldsAre
<1>5. FromDict(class, doc) = [n \in Names(class) |-> FromDict(class, doc)[n]]
  BY DEF FromDict
<1> QED
  BY <1>4, <1>5 DEF Entities

(* Reading depends on the document and on the program that runs.           *)
LEMMA SameReading ==
    ASSUME class' = class, doc' = doc, build' = build
    PROVE  /\ FromDict(class, doc)' = FromDict(class, doc)
           /\ Accepted(TRUE)' <=> Accepted(TRUE)
           /\ Accepted(FALSE)' <=> Accepted(FALSE)
<1>1. FromDict(class, doc)' = FromDict(class, doc)
  BY DEF FromDict, Found, Default, Version
<1>2. Readable(class, doc)' <=> Readable(class, doc)
  BY DEF Readable, Found, Default, Version
<1>3. Unsupported(class, doc)' <=> Unsupported(class, doc)
  BY DEF Unsupported
<1> QED
  BY <1>1, <1>2, <1>3 DEF Accepted

-----------------------------------------------------------------------------
(* Away from the damage the document is as the save left it.               *)
LEMMA DamageInv ==
    ASSUME EntityInv, doc # NoDoc, NEW i \in DOMAIN Schema[class], NEW short \in BOOLEAN,
           NEW d, HoldsSaved(d), Damage(i, short, d),
           \A j \in DOMAIN Schema[class] :
              LET n == Schema[class][j].name
              IN  \/ j = i
                  \/ short /\ j > i /\ n \notin DOMAIN d
                  \/ /\ n \in DOMAIN d <=> n \in DOMAIN doc
                     /\ n \in DOMAIN d => d[n] = doc[n]
    PROVE  EntityInv'
<1>1. /\ hit = 0 /\ harm < MaxHarm /\ harm' = harm + 1 /\ doc' = d /\ outcome' = "none"
      /\ hit' = i /\ cut' = short /\ class' = class /\ entity' = entity /\ build' = build
      /\ saved' = saved /\ checked' = checked
  BY DEF Damage
<1>2. class \in DOMAIN Schema /\ saved \in Entities(class) /\ doc = ToDict(class, saved)
  BY <1>1 DEF EntityInv, ClassInv, EntityTypeOK, Entities, DocInv
<1>3. \A n : (n \in DOMAIN doc <=> n \in Written(class, saved))
             /\ (n \in DOMAIN doc => doc[n] = saved[n])
  BY <1>2, WrittenIs
<1>4. Spared(d, i, short)
  BY <1>3 DEF Spared, Stands
<1>5. HoldsSaved(doc)' /\ Spared(doc, hit, cut)'
  BY <1>1, <1>4 DEF HoldsSaved, Spared, Stands, Written
<1>6. i # 0
  BY <1>2, ClassesProper DEF Proper
<1>7. DocInv'
  BY <1>1, <1>5, <1>6 DEF EntityInv, DocInv
<1>8. EntityTypeOK'
  <2>1. MaxHarm \in Nat /\ harm \in 0..MaxHarm
    BY ClassAssumption DEF EntityInv, EntityTypeOK
  <2>2. harm' \in 0..MaxHarm
    BY <1>1, <2>1
  <2> QED
    BY <1>1, <2>2 DEF EntityInv, EntityTypeOK, HoldsSaved
<1> QED
  BY <1>1, <1>7, <1>8 DEF EntityInv, ClassInv, ReadInv

(* The i-th field written over, and of the others those kept: what is kept *)
(* is as it was.                                                           *)
LEMMA SettingIs ==
    ASSUME EntityInv, doc # NoDoc, NEW i \in DOMAIN Schema[class], NEW v \in Value,
           NEW keys \in SUBSET DOMAIN doc
    PROVE  /\ HoldsSaved(Setting(i, v, keys))
           /\ \A j \in DOMAIN Schema[class] :
                LET n == Schema[class][j].name
                    d == Setting(i, v, keys)
                IN  \/ j = i
                    \/ /\ n \in DOMAIN d <=> n \in keys
                       /\ n \in DOMAIN d => d[n] = doc[n]
<1>1. class \in DOMAIN Schema /\ HoldsSaved(doc)
  BY DEF EntityInv, ClassInv, DocInv
<1> DEFINE k == Schema[class][i].name
           d == Setting(i, v, keys)
<1>2. k \in Names(class)
  BY DEF Names, Fields
<1>3. /\ DOMAIN d = keys \cup {k} /\ d[k] = v
      /\ \A n \in keys : n # k => d[n] = doc[n]
  BY DEF Setting
<1>4. HoldsSaved(d)
  <2> HIDE DEF d, k
  <2> QED
    BY <1>1, <1>2, <1>3 DEF HoldsSaved
<1>5. ASSUME NEW j \in DOMAIN Schema[class], j # i PROVE Schema[class][j].name # k
  BY <1>1, <1>5, ClassesProper DEF Proper
<1>6. ASSUME NEW j \in DOMAIN Schema[class], j # i, NEW n, n = Schema[class][j].name
      PROVE  /\ n \in DOMAIN d <=> n \in keys
             /\ n \in DOMAIN d => d[n] = doc[n]
  <2>1. n # k
    BY <1>5, <1>6
  <2> HIDE DEF d, k
  <2> QED
    BY <1>3, <2>1
<1> QED
  BY <1>4, <1>6

(* Before the i-th field: of the fields that come earlier those there are, *)
(* and none of the later ones.                                             *)
LEMMA BeforeIs ==
    ASSUME ClassInv, NEW i \in DOMAIN Schema[class]
    PROVE  /\ Before(i) \subseteq DOMAIN doc
           /\ \A j \in DOMAIN Schema[class] :
                LET n == Schema[class][j].name
                IN  \/ j = i
                    \/ j > i /\ n \notin Before(i)
                    \/ n \in Before(i) <=> n \in DOMAIN doc
<1>1. class \in DOMAIN Schema /\ DOMAIN Schema[class] \subseteq Nat \ {0}
  BY ClassesProper DEF ClassInv, Proper
<1>2. Before(i) \subseteq DOMAIN doc
  BY DEF Before
<1>3. ASSUME NEW j \in DOMAIN Schema[class], j < i, Schema[class][j].name \in DOMAIN doc
      PROVE  Schema[class][j].name \in Before(i)
  <2>1. j \in 1..i - 1
    BY <1>1, <1>3
  <2> QED
    BY <1>3, <2>1 DEF Before
<1>4. ASSUME NEW j \in DOMAIN Schema[class], j > i PROVE Schema[class][j].name \notin Before(i)
  <2> SUFFICES ASSUME NEW l \in 1..i - 1, Schema[class][l].name = Schema[class][j].name
               PROVE  FALSE
    BY DEF Before
  <2>1. i \in Nat /\ j \in Nat /\ l # j
    BY <1>1, <1>4
  <2>2. DOMAIN Schema[class] = 1..Len(Schema[class]) /\ Len(Schema[class]) \in Nat
    BY <1>1, ClassesProper DEF Proper
  <2>3. l \in DOMAIN Schema[class]
    BY <1>1, <2>2
  <2> QED
    BY <1>1, <2>1, <2>3, ClassesProper DEF Proper
<1>5. \A j \in DOMAIN Schema[class] : j \in Nat /\ i \in Nat
  BY <1>1
<1> QED
  BY <1>2, <1>3, <1>4, <1>5

LEMMA EntityStepInv == EntityInv /\ [EntityNext]_entityVars => EntityInv'
<1> SUFFICES ASSUME EntityInv, [EntityNext]_entityVars PROVE EntityInv'
  OBVIOUS
<1> USE DEF EntityInv
<1>1. ASSUME NEW validate \in BOOLEAN, Save(validate) PROVE EntityInv'
  <2>1. /\ doc' = ToDict(class, entity) /\ hit' = 0 /\ cut' = FALSE /\ saved' = entity
        /\ checked' = validate /\ outcome' = "none" /\ class' = class /\ entity' = entity
        /\ build' = build /\ harm' = harm
    BY <1>1 DEF Save
  <2>2. entity \in Entities(class) /\ class \in DOMAIN Schema
    BY <1>1 DEF Save, EntityTypeOK, Entities, ClassInv
  <2>3. Written(class, entity) \in SUBSET Names(class)
        /\ DOMAIN ToDict(class, entity) = Written(class, entity)
        /\ \A n \in Written(class, entity) : ToDict(class, entity)[n] = entity[n]
    BY <2>2, WrittenIs
  <2>4. HoldsSaved(doc)' /\ Spared(doc, hit, cut)'
    <3>1. \A n \in Names(class) : entity[n] \in Value
      BY <2>2 DEF Entities
    <3>2. HoldsSaved(doc)'
      BY <2>1, <2>3, <3>1 DEF HoldsSaved
    <3>3. \A n : Stands(class, entity, ToDict(class, entity), n)
      BY <2>3 DEF Stands
    <3>4. Spared(ToDict(class, entity), 0, FALSE)'
      BY <2>1, <3>3 DEF Spared, Stands, Written
    <3> QED
      BY <2>1, <3>2, <3>3 DEF Spared, Stands, Written
  <2>5. DocInv'
    <3>1. checked' => ValidEntity(class', saved')
      BY <1>1, <2>1 DEF Save
    <3> QED
      BY <2>1, <2>4, <3>1 DEF DocInv
  <2>6. EntityTypeOK'
    BY <2>1, <2>2, <2>3 DEF EntityTypeOK, Entities
  <2> QED
    BY <2>1, <2>5, <2>6 DEF ClassInv, ReadInv
<1>2. ASSUME NEW validate \in BOOLEAN, Load(validate) PROVE EntityInv'
  <2>1. /\ doc # NoDoc /\ class' = class /\ build' = build /\ doc' = doc /\ hit' = hit /\ cut' = cut
        /\ harm' = harm /\ saved' = saved /\ checked' = checked
    BY <1>2 DEF Load
  <2>2. DocInv' /\ ClassInv'
    BY <2>1 DEF DocInv, ClassInv, HoldsSaved, Spared, Stands, Written, ToDict
  <2>3. CASE Accepted(validate)
    <3>1. entity' = FromDict(class, doc)
          /\ outcome' = IF validate THEN "loaded" ELSE "unchecked"
      BY <1>2, <2>3 DEF Load
    <3>2. entity' \in Entities(class)
      <4>1. HoldsSaved(doc) /\ Readable(class, doc)
        BY <2>1, <2>3 DEF DocInv, Accepted
      <4> QED
        BY <3>1, <4>1, ReadsAsEntity
    <3>3. EntityTypeOK'
      BY <2>1, <3>1, <3>2 DEF EntityTypeOK, Entities
    <3>4. ReadInv'
      <4>1. entity' = FromDict(class, doc)'
        BY <2>1, <3>1, SameReading
      <4>2. Accepted(validate)'
        BY <2>1, <2>3, SameReading
      <4>3. outcome' = "loaded" <=> validate
        BY <3>1
      <4>4. outcome' \in {"loaded", "unchecked"}
        BY <3>1
      <4> QED
        BY <2>1, <4>1, <4>2, <4>3, <4>4 DEF ReadInv
    <3> QED
      BY <2>2, <3>3, <3>4
  <2>4. CASE ~Accepted(validate)
    <3>1. entity' = entity /\ outcome' = "refused"
      BY <1>2, <2>4 DEF Load
    <3>2. ~Accepted(TRUE)
      BY <2>4 DEF Accepted
    <3>3. ~Accepted(TRUE)'
      BY <2>1, <3>2, SameReading
    <3>4. ReadInv'
      BY <2>1, <3>1, <3>3 DEF ReadInv
    <3>5. EntityTypeOK'
      BY <2>1, <3>1 DEF EntityTypeOK
    <3> QED
      BY <2>2, <3>4, <3>5
  <2> QED
    BY <2>3, <2>4
<1>3. CASE CutDocument
  <2>1. PICK i \in DOMAIN Schema[class] :
           \/ Damage(i, TRUE, Only(Before(i)))
           \/ \E v \in Value : Damage(i, TRUE, Setting(i, v, Before(i)))
    BY <1>3 DEF CutDocument
  <2>2. doc # NoDoc /\ Before(i) \in SUBSET DOMAIN doc
    BY <1>3, BeforeIs DEF CutDocument
  <2>3. CASE Damage(i, TRUE, Only(Before(i)))
    <3>1. /\ DOMAIN Only(Before(i)) = Before(i)
          /\ \A n \in Before(i) : Only(Before(i))[n] = doc[n]
      BY DEF Only
    <3>2. HoldsSaved(Only(Before(i)))
      BY <2>2, <3>1 DEF HoldsSaved, DocInv
    <3> QED
      BY <2>2, <2>3, <3>1, <3>2, BeforeIs, DamageInv
  <2>4. CASE \E v \in Value : Damage(i, TRUE, Setting(i, v, Before(i)))
    <3>1. PICK v \in Value : Damage(i, TRUE, Setting(i, v, Before(i)))
      BY <2>4
    <3> DEFINE d == Setting(i, v, Before(i))
    <3>2. /\ HoldsSaved(d)
          /\ \A j \in DOMAIN Schema[class] :
               LET n == Schema[class][j].name
               IN  \/ j = i
                   \/ /\ n \in DOMAIN d <=> n \in Before(i)
                      /\ n \in DOMAIN d => d[n] = doc[n]
      BY <2>2, SettingIs
    <3>3. Damage(i, TRUE, d)
      BY <3>1
    <3> HIDE DEF d
    <3> QED
      BY <2>2, <3>2, <3>3, BeforeIs, DamageInv
  <2> QED
    BY <2>1, <2>3, <2>4
<1>4. CASE RemoveEntry
  <2>1. PICK i \in DOMAIN Schema[class] :
           Damage(i, FALSE, Only(DOMAIN doc \ {Schema[class][i].name}))
    BY <1>4 DEF RemoveEntry
  <2> DEFINE keys == DOMAIN doc \ {Schema[class][i].name}
             d == Only(keys)
  <2>2. doc # NoDoc
    BY <1>4 DEF RemoveEntry
  <2>3. DOMAIN d = keys /\ \A n \in keys : d[n] = doc[n]
    BY DEF Only
  <2>4. HoldsSaved(d)
    BY <2>2, <2>3 DEF HoldsSaved, DocInv
  <2>5. \A j \in DOMAIN Schema[class] : j # i => Schema[class][j].name # Schema[class][i].name
    BY ClassesProper DEF Proper, ClassInv
  <2>6. Damage(i, FALSE, d)
    BY <2>1
  <2>7. \A j \in DOMAIN Schema[class] :
           LET n == Schema[class][j].name
           IN  \/ j = i
               \/ /\ n \in DOMAIN d <=> n \in DOMAIN doc
                  /\ n \in DOMAIN d => d[n] = doc[n]
    BY <2>3, <2>5
  <2> HIDE DEF d, keys
  <2> QED
    BY <2>2, <2>4, <2>6, <2>7, DamageInv
<1>5. CASE EditEntry
  <2>1. PICK i \in DOMAIN Schema[class], v \in Value :
           Damage(i, FALSE, Setting(i, v, DOMAIN doc))
    BY <1>5 DEF EditEntry
  <2> DEFINE d == Setting(i, v, DOMAIN doc)
  <2>2. doc # NoDoc
    BY <1>5 DEF EditEntry
  <2>3. /\ HoldsSaved(d)
        /\ \A j \in DOMAIN Schema[class] :
             LET n == Schema[class][j].name
             IN  \/ j = i
                 \/ /\ n \in DOMAIN d <=> n \in DOMAIN doc
                    /\ n \in DOMAIN d => d[n] = doc[n]
    BY <2>2, SettingIs
  <2>4. Damage(i, FALSE, d)
    BY <2>1
  <2> HIDE DEF d
  <2> QED
    BY <2>2, <2>3, <2>4, DamageInv
<1>6. CASE Upgrade
  <2>1. /\ build' = "new" /\ entity' = Nothing /\ outcome' = "none" /\ class' = class
        /\ doc' = doc /\ hit' = hit /\ cut' = cut /\ harm' = harm /\ saved' = saved
        /\ checked' = checked
    BY <1>6 DEF Upgrade
  <2>2. DocInv' /\ ClassInv' /\ EntityTypeOK' /\ ReadInv'
    BY <2>1 DEF DocInv, ClassInv, HoldsSaved, Spared, Stands, Written, ToDict, EntityTypeOK, ReadInv
  <2> QED
    BY <2>2
<1>7. CASE UNCHANGED entityVars
  <2>1. /\ class' = class /\ entity' = entity /\ build' = build /\ doc' = doc /\ hit' = hit /\ cut' = cut
        /\ harm' = harm /\ saved' = saved /\ checked' = checked /\ outcome' = outcome
    BY <1>7 DEF entityVars
  <2>2. DocInv' /\ ClassInv' /\ EntityTypeOK'
    BY <2>1 DEF DocInv, ClassInv, HoldsSaved, Spared, Stands, Written, ToDict, EntityTypeOK
  <2>3. ReadInv'
    <3>1. entity = FromDict(class, doc) => entity' = FromDict(class, doc)'
      BY <2>1, SameReading
    <3>2. \A v \in BOOLEAN : Accepted(v) => Accepted(v)'
      BY <2>1, SameReading
    <3>3. ~Accepted(TRUE) => ~Accepted(TRUE)'
      BY <2>1, SameReading
    <3> QED
      BY <2>1, <3>1, <3>2, <3>3 DEF ReadInv
  <2> QED
    BY <2>2, <2>3
<1> QED
  BY <1>1, <1>2, <1>3, <1>4, <1>5, <1>6, <1>7 DEF EntityNext

-----------------------------------------------------------------------------
LEMMA InvLoud == EntityInv => Loud
<1> SUFFICES ASSUME EntityInv, outcome \in {"loaded", "unchecked"}
             PROVE  /\ \A f \in Fields(class) :
                         /\ f.required => f.name \in DOMAIN doc
                         /\ f.read = "exact" => entity[f.name] \in {Ok, Other, None}
                    /\ class = "SessionMetadata" => entity["contract_version"] \notin {Zero, Bad}
  BY DEF Loud
<1>1. /\ class \in DOMAIN Schema /\ entity = FromDict(class, doc)
      /\ ~Unsupported(class, doc) /\ Readable(class, doc)
  BY DEF EntityInv, ClassInv, ReadInv, Accepted
<1>2. \A f \in Fields(class) : /\ f.required => f.name \in DOMAIN doc
                               /\ ~Refuses(f, Found(doc, f))
                               /\ entity[f.name] = Converted(f, Found(doc, f))
  BY <1>1, FromDictIs DEF Readable
<1>3. \A f \in Fields(class) : f.read = "exact" => entity[f.name] \in {Ok, Other, None}
  <2> SUFFICES ASSUME NEW f \in Fields(class), f.read = "exact"
               PROVE  entity[f.name] \in {Ok, Other, None}
    OBVIOUS
  <2>1. Found(doc, f) \in {Ok, Other, None}
    BY <1>2 DEF Refuses
  <2>2. Converted(f, Found(doc, f)) = Found(doc, f)
    BY DEF Converted
  <2> QED
    BY <1>2, <2>1, <2>2
<1>4. ASSUME class = "SessionMetadata" PROVE entity["contract_version"] \notin {Zero, Bad}
  <2>1. PICK f \in Fields("SessionMetadata") : f.name = "contract_version"
    BY NamedFields DEF Names
  <2>2. f.read = "plain" /\ f.default = Current
    BY <2>1, NamedFields DEF Or, Field
  <2>3. entity["contract_version"] = Found(doc, f)
    BY <1>2, <1>4, <2>1, <2>2 DEF Converted
  <2>4. CASE "contract_version" \in DOMAIN doc
    BY <1>1, <1>4, <2>1, <2>3, <2>4 DEF Unsupported, Found
  <2>5. CASE "contract_version" \notin DOMAIN doc
    BY <2>1, <2>2, <2>3, <2>5 DEF Found, Default, Version
  <2> QED
    BY <2>4, <2>5
<1> QED
  BY <1>2, <1>3, <1>4

LEMMA InvRoundTrip == EntityInv => RoundTrip
<1> SUFFICES ASSUME EntityInv, doc # NoDoc, hit = 0, checked
             PROVE  /\ outcome # "refused"
                    /\ outcome \in {"loaded", "unchecked"} =>
                         \A n \in Names(class) : \/ entity[n] = saved[n]
                                                 \/ n = "sentrixsync_version" /\ saved[n] = None
  BY DEF RoundTrip
<1>1. /\ class \in DOMAIN Schema /\ saved \in Entities(class) /\ ValidEntity(class, saved)
      /\ doc = ToDict(class, saved)
  BY DEF EntityInv, EntityTypeOK, Entities, ClassInv, DocInv
<1>2. /\ Readable(class, doc) /\ ~Unsupported(class, doc) /\ ValidEntity(class, FromDict(class, doc))
      /\ \A n \in Names(class) : \/ FromDict(class, doc)[n] = saved[n]
                                 \/ n = "sentrixsync_version" /\ saved[n] = None
  BY <1>1, Reloaded
<1>3. Accepted(TRUE)
  BY <1>2 DEF Accepted
<1> QED
  BY <1>2, <1>3 DEF EntityInv, ReadInv

LEMMA InvDamageConfined == EntityInv => DamageConfined
<1> SUFFICES ASSUME EntityInv, outcome = "loaded", checked, NEW i \in DOMAIN Schema[class]
             PROVE  LET f == Schema[class][i]
                        n == f.name
                    IN  \/ entity[n] = saved[n]
                        \/ n = "sentrixsync_version" /\ saved[n] = None
                        \/ i = hit
                        \/ cut /\ i > hit /\ ~f.required /\ entity[n] = Default(f)
  BY DEF DamageConfined
<1> DEFINE f == Schema[class][i]
           n == f.name
<1>1. /\ class \in DOMAIN Schema /\ doc # NoDoc /\ entity = FromDict(class, doc)
      /\ Readable(class, doc) /\ Spared(doc, hit, cut) /\ ValidEntity(class, saved)
      /\ saved \in Entities(class)
  BY DEF EntityInv, ClassInv, ReadInv, Accepted, DocInv, EntityTypeOK, Entities
<1>2. f \in Fields(class)
  BY DEF Fields
<1>3. /\ f.required => n \in DOMAIN doc
      /\ entity[n] = Converted(f, Found(doc, f)) /\ Sound(f)
  BY <1>1, <1>2, FromDictIs, FieldsAre DEF Readable
<1>4. \/ i = hit
      \/ cut /\ i > hit /\ n \notin DOMAIN doc
      \/ Stands(class, saved, doc, n)
  BY <1>1 DEF Spared
<1>5. CASE cut /\ i > hit /\ n \notin DOMAIN doc
  <2>1. ~f.required /\ Found(doc, f) = Default(f)
    BY <1>3, <1>5 DEF Found
  <2>2. Converted(f, Default(f)) = Default(f)
    BY <1>3, <2>1, DefaultIs
  <2> QED
    BY <1>3, <1>5, <2>1, <2>2
<1>6. CASE Stands(class, saved, doc, n)
  <2>1. \/ Converted(f, Found(doc, f)) = saved[n]
        \/ n = "sentrixsync_version" /\ saved[n] = None
    BY <1>1, <1>2, <1>6, ReadBack
  <2> QED
    BY <1>3, <2>1
<1> QED
  BY <1>4, <1>5, <1>6

(* Documents, of every class, each edited or cut short once after its      *)
(* save, under any number of loads, saves and an upgrade: entities and     *)
(* documents are of their types, and what has lost a required field, names *)
(* no known tier, role, origin or kernel, or is of an unsupported contract *)
(* is never loaded, validated or not (the from_dict methods of core/).     *)
THEOREM DocumentsCorrect == EntitySpec => []DocumentInv
<1>1. EntityInit => EntityInv
  BY EntityInitInv
<1>2. EntityInv /\ [EntityNext]_entityVars => EntityInv'
  BY EntityStepInv
<1>3. EntityInv => DocumentInv
  BY InvLoud DEF EntityInv, DocumentInv
<1> QED
  BY <1>1, <1>2, <1>3, PTL DEF EntitySpec

(* What was valid when saved is never refused, and is loaded as it was     *)
(* (to_dict, then from_dict, then validate, of every class of core/).      *)
THEOREM RoundTripCorrect == EntitySpec => []RoundTrip
<1>1. EntityInit => EntityInv
  BY EntityInitInv
<1>2. EntityInv /\ [EntityNext]_entityVars => EntityInv'
  BY EntityStepInv
<1>3. EntityInv => RoundTrip
  BY InvRoundTrip
<1> QED
  BY <1>1, <1>2, <1>3, PTL DEF EntitySpec

(* Wherever a document was edited or cut short, inside an entry or between *)
(* two, what a validated load returns differs from what was saved only in  *)
(* the field at which that was done and, after a cut, in later optional    *)
(* fields, which read as never given (from_dict reads every field by its   *)
(* name, and none from another's entry).                                   *)
THEOREM DamageIsConfined == EntitySpec => []DamageConfined
<1>1. EntityInit => EntityInv
  BY EntityInitInv
<1>2. EntityInv /\ [EntityNext]_entityVars => EntityInv'
  BY EntityStepInv
<1>3. EntityInv => DamageConfined
  BY InvDamageConfined
<1> QED
  BY <1>1, <1>2, <1>3, PTL DEF EntitySpec
=============================================================================

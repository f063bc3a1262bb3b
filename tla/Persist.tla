------------------------------ MODULE Persist ------------------------------
(***************************************************************************)
(* The on-disk bundle of a synchronization result: `save_sync_result`,     *)
(* `load_sync_result` and `load_session` of persist.py.  A bundle is a     *)
(* directory of three files, each rewritten in place, in this order: the   *)
(* manifest sync_result.json, the arrays arrays.npz, and session.json if   *)
(* the caller passed a session.  Nothing locks the directory and nothing   *)
(* ties the files of one save together, so a writer may die between two of *)
(* them and a loader in another process may read between two of them.      *)
(***************************************************************************)
EXTENDS Naturals

CONSTANTS Result,        \* synchronization results
          SessionDoc,    \* session manifests
          NoSession,     \* session=None
          ArrayKeys,     \* result |-> the number of arrays its manifest names
          MaxSaves       \* bound on the saves of a behaviour

(* What a file may be when it is not a whole document.  A write opens the  *)
(* file for writing, which empties it: until the write ends the file holds *)
(* a proper prefix, which neither json nor numpy will read.                *)
Absent == "absent"
Torn == "torn"
NotFound == "error"      \* a load that raised
Failed == << >>          \* the same, where a load answers with a pair
NoneLoaded == "none"     \* load_session's None
Idle == "idle"
Empty == "empty"
Damaged == "damaged"

ASSUME ResultAssumption ==
    /\ Result \cap {Absent, Torn, Idle, Empty, Damaged, NotFound, "mixed"} = {}
    /\ SessionDoc \cap {Absent, Torn, NotFound, NoneLoaded, NoSession} = {}
    /\ NoSession \notin {Absent, Torn, NotFound, NoneLoaded}
    /\ ArrayKeys \in [Result -> Nat]
    /\ MaxSaves \in Nat

VARIABLES manifest, arrays,
          sessionFile, \* the three files
          writer,    \* the running save: [at, result, session]
          reader,    \* the running load: Idle or the manifest it has read
          answer,    \* the outcome of the last load_sync_result
          saves,     \* saves begun (bounds the behaviours)
          damaged,   \* history: the last save begun has not ended
          spoiled,   \* history: a save ran during the running load
          lastDoc    \* history: the session argument of the last ended save

files == <<manifest, arrays, sessionFile>>
history == <<saves, damaged, spoiled, lastDoc>>
bundleVars == <<files, writer, reader, answer, history>>

Resting == [at |-> "rest", result |-> NoSession, session |-> NoSession]

BundleInit ==
    /\ manifest = Absent /\ arrays = Absent /\ sessionFile = Absent
    /\ writer = Resting
    /\ reader = Idle /\ answer = Failed
    /\ saves = 0 /\ damaged = FALSE /\ spoiled = FALSE /\ lastDoc = NoSession

-----------------------------------------------------------------------------
(* save_sync_result. *)

(* The manifest is serialized before its file is opened. *)
OpenManifest(r, s) ==
    /\ writer.at = "rest"
    /\ saves < MaxSaves
    /\ manifest' = Torn
    /\ writer' = [at |-> "manifest", result |-> r, session |-> s]
    /\ saves' = saves + 1
    /\ damaged' = TRUE
    /\ spoiled' = (reader # Idle)
    /\ UNCHANGED <<arrays, sessionFile, reader, answer, lastDoc>>

(* Slip: a save without a session returns before its arrays are written. *)
WriteManifestSlip ==
    /\ writer.at = "manifest"
    /\ manifest' = writer.result
    /\ IF writer.session = NoSession
       THEN writer' = Resting /\ damaged' = FALSE /\ lastDoc' = NoSession
       ELSE writer' = [writer EXCEPT !.at = "between"] /\ UNCHANGED <<damaged, lastDoc>>
    /\ UNCHANGED <<arrays, sessionFile, reader, answer, saves, spoiled>>

WriteManifest ==
    /\ writer.at = "manifest"
    /\ manifest' = writer.result
    /\ writer' = [writer EXCEPT !.at = "between"]
    /\ UNCHANGED <<arrays, sessionFile, reader, answer, history>>

OpenArrays ==
    /\ writer.at = "between"
    /\ arrays' = Torn
    /\ writer' = [writer EXCEPT !.at = "arrays"]
    /\ UNCHANGED <<manifest, sessionFile, reader, answer, history>>

(* Slip: a session.json that is there is not written again. *)
WriteArraysOnceSlip ==
    /\ writer.at = "arrays"
    /\ arrays' = writer.result
    /\ IF writer.session = NoSession \/ sessionFile # Absent
       THEN writer' = Resting /\ damaged' = FALSE /\ lastDoc' = writer.session
       ELSE writer' = [writer EXCEPT !.at = "after"] /\ UNCHANGED <<damaged, lastDoc>>
    /\ UNCHANGED <<manifest, sessionFile, reader, answer, saves, spoiled>>

(* Without a session the call returns here and leaves session.json alone.  *)
WriteArrays ==
    /\ writer.at = "arrays"
    /\ arrays' = writer.result
    /\ IF writer.session = NoSession
       THEN writer' = Resting /\ damaged' = FALSE /\ lastDoc' = NoSession
       ELSE writer' = [writer EXCEPT !.at = "after"] /\ UNCHANGED <<damaged, lastDoc>>
    /\ UNCHANGED <<manifest, sessionFile, reader, answer, saves, spoiled>>

OpenSession ==
    /\ writer.at = "after"
    /\ sessionFile' = Torn
    /\ writer' = [writer EXCEPT !.at = "session"]
    /\ UNCHANGED <<manifest, arrays, reader, answer, history>>

WriteSession ==
    /\ writer.at = "session"
    /\ sessionFile' = writer.session
    /\ writer' = Resting
    /\ damaged' = FALSE
    /\ lastDoc' = writer.session
    /\ UNCHANGED <<manifest, arrays, reader, answer, saves, spoiled>>

(* The writer dies, or a write or the session's serialization raises: the  *)
(* files stay as they are.                                                 *)
Interrupt ==
    /\ writer.at # "rest"
    /\ writer' = Resting
    /\ UNCHANGED <<files, reader, answer, history>>

-----------------------------------------------------------------------------
(* load_sync_result: the manifest is read, then the arrays it names.       *)

ReadManifest ==
    /\ reader = Idle
    /\ manifest \in Result
    /\ reader' = manifest
    /\ spoiled' = damaged
    /\ UNCHANGED <<files, writer, answer, saves, damaged, lastDoc>>

(* No manifest, or one that does not parse. *)
ManifestUnreadable ==
    /\ reader = Idle
    /\ manifest \notin Result
    /\ answer' = Failed
    /\ UNCHANGED <<files, writer, reader, history>>

(* Slips: the archive only has to exist; it must have arrays to spare. *)
ArraysServeSlip(m) == arrays # Absent

ArraysServeMoreSlip(m) == arrays \in Result /\ ArrayKeys[m] < ArrayKeys[arrays]

(* Arrays are looked up by their position in the save that wrote them: any *)
(* archive with enough of them will do.                                    *)
ArraysServe(m) == arrays \in Result /\ ArrayKeys[m] <= ArrayKeys[arrays]

ReadArrays ==
    /\ reader # Idle
    /\ answer' = IF ArraysServe(reader) THEN <<reader, arrays>> ELSE Failed
    /\ reader' = Idle
    /\ UNCHANGED <<files, writer, history>>

(* What load_session returns now.  It checks the manifest, then returns    *)
(* whatever session.json holds.                                            *)
SessionLoaded ==
    CASE manifest \notin Result -> NotFound
      [] manifest \in Result /\ sessionFile = Absent -> NoneLoaded
      [] manifest \in Result /\ sessionFile = Torn -> NotFound
      [] OTHER -> sessionFile

-----------------------------------------------------------------------------
SaveBundle ==
    \/ \E r \in Result, s \in SessionDoc \cup {NoSession} : OpenManifest(r, s)
    \/ WriteManifest \/ OpenArrays \/ WriteArrays
    \/ OpenSession \/ WriteSession

LoadBundle == ReadManifest \/ ManifestUnreadable \/ ReadArrays

BundleNext == SaveBundle \/ Interrupt \/ LoadBundle

BundleSpec == BundleInit /\ [][BundleNext]_bundleVars

-----------------------------------------------------------------------------
(* Properties. *)

BundleFile == {Absent, Torn} \cup Result

(* What the files, the processes and the history variables may hold. *)
BundleTypeOK ==
    /\ manifest \in BundleFile /\ arrays \in BundleFile
    /\ sessionFile \in {Absent, Torn} \cup SessionDoc
    /\ writer \in [at : {"rest", "manifest", "between", "arrays", "after", "session"},
                   result : Result \cup {NoSession},
                   session : SessionDoc \cup {NoSession}]
    /\ writer.at # "rest" => writer.result \in Result
    /\ writer.at \in {"after", "session"} => writer.session # NoSession
    /\ reader \in {Idle} \cup Result
    /\ answer \in {Failed} \cup (Result \X Result)
    /\ saves \in 0..MaxSaves
    /\ damaged \in BOOLEAN /\ spoiled \in BOOLEAN
    /\ lastDoc \in SessionDoc \cup {NoSession}

(* With BundleTypeOK, the inductive invariant behind the refinement.  A    *)
(* save that has written a file has left that file as it should be; a      *)
(* bundle that is not damaged has one result in both files; a load that no *)
(* save has overlapped still has the manifest it read on disk.             *)
Undamaged ==
    /\ writer.at # "rest" => damaged
    /\ ~damaged => manifest = Absent \/ (manifest \in Result /\ arrays = manifest)
    /\ writer.at \in {"between", "arrays", "after", "session"} => manifest = writer.result
    /\ writer.at \in {"after", "session"} => arrays = writer.result
    /\ (reader # Idle /\ ~spoiled) => ~damaged /\ reader = manifest

(* The two together, which no crash or overlap of a save and a load may    *)
(* break.                                                                  *)
BundleInv == BundleTypeOK /\ Undamaged

(* The register the bundle is: the manifest names its content unless the   *)
(* last save was cut short.                                                *)
Store == IF damaged THEN Damaged
         ELSE IF manifest = Absent THEN Empty ELSE manifest

Saving == IF writer.at = "rest" THEN Idle ELSE writer.result

BoundTo == IF reader = Idle THEN Idle ELSE IF spoiled THEN Damaged ELSE reader

(* A load whose manifest and arrays come from two saves. *)
Mixed == "mixed"
Outcome(pair) == IF pair = Failed THEN NotFound
                 ELSE IF pair[1] = pair[2] THEN pair[1] ELSE Mixed

Register == INSTANCE BundleStore
              WITH store <- Store, saving <- Saving, load <- BoundTo,
                   answer <- Outcome(answer)

(* A load that no save overlaps, of a bundle whose last save ran to its    *)
(* end, returns that save's result, all of it, whatever earlier saves and  *)
(* crashes left in the directory.                                          *)
ImplementsRegister == Register!Spec

(* In a directory only one save has ever written to, a load never returns  *)
(* anything but that save's result, even if it overlapped the save or the  *)
(* save was interrupted: a half-written first bundle is always detected.   *)
FirstSaveDetected ==
    saves <= 1 => answer = Failed \/ answer[1] = answer[2]

(* A session passed to a save that ended is the one load_session returns,  *)
(* whatever an earlier save left in session.json.                          *)
SessionKept == (~damaged /\ lastDoc # NoSession) => SessionLoaded = lastDoc

(* What a load that nothing disturbs would return now. *)
LoadedNow == IF manifest \in Result /\ ArraysServe(manifest)
             THEN <<manifest, arrays>> ELSE Failed

(* "The returned object is field-equivalent to the original"               *)
(* (persist.py:159): when no save is running, a load that succeeds has its *)
(* manifest and its arrays from one result.                                *)
FieldEquivalent ==
    (writer.at = "rest" /\ LoadedNow # Failed) => LoadedNow[1] = LoadedNow[2]
=============================================================================

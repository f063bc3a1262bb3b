----------------------------- MODULE Documents -----------------------------
(***************************************************************************)
(* The data classes of the program and the documents they are kept in: the *)
(* `validate`, `to_dict` and `from_dict` of core/, of config.py, and the   *)
(* loaders on top of them.  An entity is saved, its document is cut short  *)
(* or edited by hand, the program is upgraded, the document is loaded,     *)
(* perhaps saved again.                                                    *)
(*                                                                         *)
(* A class is the sequence of its fields, in the order they are written.   *)
(* Of a value only what validation and conversion tell apart is kept:      *)
(* None, one that is empty or zero, two proper ones (the smaller first,    *)
(* and an entity or a list stands for the identity it carries), and one of *)
(* the wrong form.                                                         *)
(***************************************************************************)
EXTENDS Naturals, Sequences, FiniteSets, TLC

CONSTANTS Classes, \* the names of the classes looked at
          MaxOdd,  \* bound on the fields in which an entity is not typical
          MaxHarm  \* bound on the times documents are damaged

None == "none"
Zero == "zero"
Ok == "ok"
Other == "other"
Bad == "bad"

Value == {None, Zero, Ok, Other, Bad}

(* What `validate` admits. *)
Free == Value                    \* anything: the field is not looked at
Fixed == {Ok}
Flag == {Zero, Ok}
Filled == {Ok, Other}            \* a non-empty text or list, a positive number
Number == {Zero, Ok, Other}      \* also a mapping or list that may be empty
Optional(legal) == legal \cup {None}

(* How `from_dict` reads a field (see Converted), and what it takes for a  *)
(* missing one.  Current is the version of the program that reads.         *)
Current == "current"
Field(name, required, default, legal, read) ==
    [name |-> name, required |-> required, default |-> default, legal |-> legal, read |-> read]

Must(name, legal) == Field(name, TRUE, None, legal, "plain")
MustBe(name, legal, read) == Field(name, TRUE, None, legal, read)
May(name, legal) == Field(name, FALSE, None, Optional(legal), "plain")
MayBe(name, legal, read) == Field(name, FALSE, None, Optional(legal), read)
Or(name, default, legal) == Field(name, FALSE, default, legal, "plain")
OrEmpty(name, legal, read) == Field(name, FALSE, Zero, legal, read)

-----------------------------------------------------------------------------
(* core/device.py *)

ClockDescriptor ==
    <<Must("clock_id", Filled), Or("timestamp_unit", Ok, Fixed), Or("resolution_us", Ok, Filled),
      May("nominal_epoch", Free), May("expected_offset_us", Free), May("expected_skew_ppm", Free),
      May("expected_drift", Free)>>

StreamDescriptor ==
    <<Must("stream_id", Filled), Must("device_id", Filled), Must("kind", Filled),
      MustBe("kernel", Filled, "exact"), Must("payload_kind", Filled), Must("units", Filled),
      May("nominal_rate_hz", Filled), May("payload_shape", Number),
      Or("subframe_capable", Zero, Flag), May("quality_floor", Number)>>

Sample ==
    <<Must("stream_id", Filled), Must("t_device_us", Number), May("payload_ref", Filled),
      May("payload_inline", Free), May("seq", Number), May("t_recv_us", Number),
      Or("valid", Ok, Flag), May("confidence", Number), May("meta", Number)>>

DeviceDescriptor ==
    <<Must("device_id", Filled), Must("modality", Filled), Must("producer", Filled),
      Must("is_synthetic", Flag), MustBe("clock", Filled, "exact"),
      MustBe("evidence_tiers", Filled, "strict"), MustBe("streams", Filled, "strict"),
      Or("reference_candidate", Zero, Flag), OrEmpty("calibration_refs", Number, "letters"),
      May("topology_ref", Filled), May("topology_hash", Filled), May("param_tiers", Free),
      May("notes", Free), Or("contract_version", Current, Filled)>>

DeviceRegistration ==
    <<Must("device_id", Filled), MustBe("role", Filled, "exact"),
      MayBe("descriptor", Filled, "part"), May("descriptor_ref", Filled),
      OrEmpty("stream_refs", Number, "strict")>>

(* core/session.py *)

SessionMetadata ==
    <<Must("session_id", Filled), MustBe("origin", Filled, "exact"),
      OrEmpty("producers", Filled, "letters"), Or("schema_version", Current, Filled),
      Or("contract_version", Current, Filled), Or("sentrixsync_version", Current, Free),
      May("created_at", Free), Or("reference_clock_policy", Ok, Filled),
      May("grid_rate_hz", Filled), May("rejection_tolerance_us", Number), May("notes", Free)>>

CalibrationRef ==
    <<Must("calibration_id", Filled), Must("kind", Filled), Must("uri", Filled),
      May("device_id", Free), May("device_ids", Number), MayBe("tier", Filled, "exact"),
      May("confidence", Number)>>

ExportRecord ==
    <<Must("format", Filled), Must("uri", Filled), May("produced_at", Free),
      May("frame_count", Number), May("sample_count", Number), May("consumer_hint", Free)>>

GroundTruthBlock == <<OrEmpty("clock_models", Number, "strict"), May("note", Free)>>

(* Of the metadata the origin matters: Ok is synthetic, Other is real.     *)
Session ==
    <<MustBe("metadata", Filled, "exact"), OrEmpty("devices", Filled, "strict"),
      OrEmpty("calibration_refs", Number, "strict"), MayBe("timeline", Filled, "part"),
      MayBe("sync_report", Filled, "part"), MayBe("validation_report", Filled, "part"),
      OrEmpty("exports", Number, "strict"), MayBe("ground_truth", Filled, "open part")>>

(* core/timeline.py, core/events.py *)

ClockModel ==
    <<Must("device_id", Filled), Must("ref_clock_id", Filled), Or("alpha", Ok, Filled),
      Or("beta_us", Zero, Number), May("segments", Free), MayBe("method", Filled, "exact"),
      May("fit_residual_us", Number), May("n_events", Number), May("clock_confidence", Number)>>

SubframeBuckets == <<Must("anchor_stream", Filled), Must("rule", Filled), May("R", Filled)>>

TimelineRef ==
    <<Must("timeline_id", Filled), Must("reference_clock_id", Filled),
      Must("grid_rate_hz", Filled), May("t_start_us", Number), May("t_end_us", Number),
      May("n_grid", Number), May("manifest_uri", Free), May("aligned_table_uri", Free),
      MayBe("subframe_buckets", Filled, "part")>>

SyncReport ==
    <<Must("reference_clock_id", Filled), Must("reference_selection", Filled),
      Must("sync_resid_us", Number), OrEmpty("per_device", Number, "or empty"),
      May("sync_method", Free), May("coverage", Number), May("dropout", Number)>>

ValidationReport ==
    <<MustBe("gate_verdict", Filled, "exact"), OrEmpty("property_checks", Number, "strict"),
      May("roundtrip_accuracy", Number), May("gate_detail", Free)>>

SyncEvent ==
    <<Must("event_id", Filled), MustBe("tier", Filled, "exact"),
      MustBe("observations", Filled, "strict"), May("detector", Free), May("quality", Number),
      May("kind", Free), May("meta", Number)>>

(* config.py *)

GateThresholds ==
    <<Or("release_resid_us", Ok, Filled), Or("certified_resid_us", Ok, Filled),
      Or("hardfail_resid_us", Ok, Filled), Or("min_coverage", Ok, Number),
      Or("max_dropout", Ok, Number)>>

ReferenceConfig ==
    <<Or("reference_clock_policy", Ok, Fixed), May("grid_rate_hz", Filled),
      May("rejection_tolerance_us", Number), MayBe("gates", Filled, "open part")>>

Schema == [ClockDescriptor |-> ClockDescriptor, StreamDescriptor |-> StreamDescriptor,
           Sample |-> Sample, DeviceDescriptor |-> DeviceDescriptor,
           DeviceRegistration |-> DeviceRegistration, SessionMetadata |-> SessionMetadata,
           CalibrationRef |-> CalibrationRef, ExportRecord |-> ExportRecord,
           GroundTruthBlock |-> GroundTruthBlock, Session |-> Session, ClockModel |-> ClockModel,
           SubframeBuckets |-> SubframeBuckets, TimelineRef |-> TimelineRef,
           SyncReport |-> SyncReport, ValidationReport |-> ValidationReport,
           SyncEvent |-> SyncEvent, GateThresholds |-> GateThresholds,
           ReferenceConfig |-> ReferenceConfig]

ASSUME ClassAssumption == Classes \subseteq DOMAIN Schema
                           /\ MaxOdd \in Nat /\ MaxHarm \in Nat

Fields(c) == {Schema[c][i] : i \in DOMAIN Schema[c]}
Names(c) == {f.name : f \in Fields(c)}

VARIABLES class,   \* the class of the entity
          entity,  \* the entity: field name |-> value
          build,   \* the program that runs: "old" or "new"
          doc,     \* the document: key |-> value, or NoDoc
          hit,     \* history: the field at which the document was damaged, 0 if it
                   \* is as a save left it
          cut,     \* history: it was cut short there
          harm,    \* how often a document was damaged
          saved,   \* history: the entity last saved
          checked, \* history: it was validated when saved
          outcome  \* of the last call: "none", "loaded", "unchecked" (loaded
                   \* without validation) or "refused"

entityVars == <<class, entity, build, doc, hit, cut, harm, saved, checked, outcome>>

NoDoc == ("no document" :> None)

Version(b) == IF b = "old" THEN Ok ELSE Other

-----------------------------------------------------------------------------
(* validate *)

Rank(v) == CASE v = Zero -> 0 [] v = Ok -> 1 [] OTHER -> 2

(* The residual bands in units in which their defaults are 1, 2 and 4; the *)
(* other value of each of them is 3.                                       *)
Band(default, v) == IF v = Other THEN 3 ELSE default

(* The rules that relate fields.  A part has the identity its value says:  *)
(* a descriptor its device, a report the clock it is relative to.          *)
Coherent(c, e) ==
    /\ c = "Sample" => (e.payload_ref = None) # (e.payload_inline = None)
    /\ c = "DeviceDescriptor" => e.streams = e.device_id
    /\ c = "DeviceRegistration" =>
         /\ e.descriptor # None \/ e.descriptor_ref # None
         /\ e.descriptor # None => /\ e.descriptor = e.device_id
                                   /\ e.stream_refs \in {Zero, e.device_id}
    /\ c = "Session" =>
         /\ e.ground_truth # None => e.metadata = Ok
         /\ e.sync_report # None /\ e.timeline # None => e.sync_report = e.timeline
    /\ c = "TimelineRef" =>
         (e.t_start_us # None /\ e.t_end_us # None => Rank(e.t_start_us) <= Rank(e.t_end_us))
    /\ c = "GateThresholds" =>
         /\ Band(1, e.certified_resid_us) <= Band(2, e.release_resid_us)
         /\ Band(2, e.release_resid_us) <= Band(4, e.hardfail_resid_us)

ValidEntity(c, e) == (\A f \in Fields(c) : e[f.name] \in f.legal) /\ Coherent(c, e)

-----------------------------------------------------------------------------
(* to_dict *)

(* Slip: what is at its default need not be written. *)
WrittenSlip(c, e) == {f.name : f \in {g \in Fields(c) :
                        e[g.name] # (IF g.default = Current THEN Version(build) ELSE g.default)}}

(* None is not written, nor an empty list of exports. *)
Written(c, e) == {n \in Names(c) : e[n] # None} \ {n \in {"exports"} : c = "Session" /\ e[n] = Zero}

ToDict(c, e) == [n \in Written(c, e) |-> e[n]]

(* Session.to_dict goes through the lists and calls the parts that are not *)
(* None; whoever else is written writes whatever is there.                 *)
Writable(c, e) ==
    c = "Session" => /\ e.metadata \in Filled
                     /\ e.devices \in Number /\ e.calibration_refs \in Number /\ e.exports # Bad
                     /\ {e.timeline, e.sync_report, e.validation_report, e.ground_truth}
                          \subseteq Optional(Filled)

(* from_dict *)

Default(f) == IF f.default = Current THEN Version(build) ELSE f.default

(* Slip: an unknown name is left to validate. *)
RefusesSlip(f, v) ==
    CASE f.read = "strict" -> v \in {None, Bad}
      [] f.read = "letters" -> v = None
      [] f.read = "or empty" -> v = Bad
      [] f.read = "part" -> v = Zero
      [] OTHER -> FALSE

(* Refused: an unknown name, a mapping or list that is none, an empty part *)
(* where the part has required fields.                                     *)
Refuses(f, v) ==
    CASE f.read = "exact" -> v \notin {Ok, Other} \cup (IF f.required THEN {} ELSE {None})
      [] f.read = "strict" -> v \in {None, Bad}
      [] f.read = "letters" -> v = None
      [] f.read = "or empty" -> v = Bad
      [] f.read = "part" -> v = Zero
      [] OTHER -> FALSE

(* A part that is no mapping is taken for none, an empty one without       *)
(* required fields for one at its defaults, and a text in the place of a   *)
(* list for the list of its letters.                                       *)
Converted(f, v) == CASE f.read \in {"part", "open part"} /\ v = Bad -> None
                     [] f.read = "open part" /\ v = Zero -> Ok
                     [] f.read = "letters" /\ v = Bad -> Other
                     [] f.read = "or empty" /\ v = None -> Zero
                     [] OTHER -> v

(* Slip: what is false, zero or empty is taken for missing. *)
FoundSlip(d, f) == IF f.name \in DOMAIN d /\ d[f.name] \notin {None, Zero} THEN d[f.name]
                   ELSE Default(f)

Found(d, f) == IF f.name \in DOMAIN d THEN d[f.name] ELSE Default(f)

Readable(c, d) == \A f \in Fields(c) : /\ f.required => f.name \in DOMAIN d
                                       /\ ~Refuses(f, Found(d, f))

FromDict(c, d) == [n \in Names(c) |-> LET f == CHOOSE g \in Fields(c) : g.name = n
                                      IN  Converted(f, Found(d, f))]

(* load_session looks at the contract's version before all else. *)
Unsupported(c, d) == c = "SessionMetadata" /\ "contract_version" \in DOMAIN d
                     /\ d["contract_version"] \in {Zero, Bad}

-----------------------------------------------------------------------------
(* An entity is typical if all of it is set, or nothing that need not be.  *)
Typical(c) ==
    {[n \in Names(c) |-> IF n = "payload_inline" THEN None ELSE Ok],
     [n \in Names(c) |-> LET f == CHOOSE g \in Fields(c) : g.name = n
                         IN  IF f.required \/ n = "descriptor" \/ n = "payload_ref" \/ n = "producers"
                                \/ f.default = Current THEN Ok
                             ELSE f.default]}

Nothing == ("nothing" :> None)

EntityInit ==
    /\ class \in Classes
    /\ \E e \in Typical(class) :
         \E odd \in {S \in SUBSET Names(class) : Cardinality(S) <= MaxOdd} :
            \E v \in [odd -> Value] :
               entity = [n \in Names(class) |-> IF n \in odd THEN v[n] ELSE e[n]]
    /\ build = "old"
    /\ doc = NoDoc /\ hit = 0 /\ cut = FALSE /\ harm = 0
    /\ saved = entity /\ checked = FALSE
    /\ outcome = "none"

Save(validate) ==
    /\ entity # Nothing
    /\ Writable(class, entity) /\ (validate => ValidEntity(class, entity))
    /\ doc' = ToDict(class, entity)
    /\ hit' = 0 /\ cut' = FALSE /\ saved' = entity /\ checked' = validate
    /\ outcome' = "none"
    /\ UNCHANGED <<class, entity, build, harm>>

Damage(i, short, d) == /\ hit = 0 /\ harm < MaxHarm
                       /\ harm' = harm + 1
                       /\ doc' = d
                       /\ hit' = i /\ cut' = short
                       /\ outcome' = "none"
                       /\ UNCHANGED <<class, entity, build, saved, checked>>

(* The keys that come before the i-th field, and the document with only    *)
(* some of its keys, and with a value at the i-th field.                   *)
Before(i) == {Schema[class][j].name : j \in 1..i - 1} \cap DOMAIN doc
Only(keys) == [n \in keys |-> doc[n]]
Setting(i, v, keys) == LET k == Schema[class][i].name
                       IN  [n \in keys \cup {k} |-> IF n = k THEN v ELSE doc[n]]

(* A save is cut short.  JSON that is cut never parses, YAML does between  *)
(* two entries and in many places inside one: of a number fewer digits are *)
(* left, of a text or a list its beginning, of a part its first entries,   *)
(* or nothing at all, which reads as None.                                 *)
CutDocument ==
    doc # NoDoc /\ \E i \in DOMAIN Schema[class] :
        \/ Damage(i, TRUE, Only(Before(i)))
        \/ /\ Schema[class][i].name \in DOMAIN doc
           /\ \E v \in Value : Damage(i, TRUE, Setting(i, v, Before(i)))

(* Someone removes an entry, or writes one, or another in its place.       *)
RemoveEntry ==
    doc # NoDoc /\ \E i \in DOMAIN Schema[class] :
        /\ Schema[class][i].name \in DOMAIN doc
        /\ Damage(i, FALSE, Only(DOMAIN doc \ {Schema[class][i].name}))
EditEntry ==
    doc # NoDoc /\ \E i \in DOMAIN Schema[class], v \in Value :
        Damage(i, FALSE, Setting(i, v, DOMAIN doc))

(* Another version of the program takes over; what was in memory is gone.  *)
Upgrade == /\ build = "old" /\ doc # NoDoc
           /\ build' = "new"
           /\ entity' = Nothing /\ outcome' = "none"
           /\ UNCHANGED <<class, doc, hit, cut, harm, saved, checked>>

Accepted(validate) == /\ ~Unsupported(class, doc)
                      /\ Readable(class, doc)
                      /\ validate => ValidEntity(class, FromDict(class, doc))

Load(validate) ==
    /\ doc # NoDoc
    /\ IF Accepted(validate)
       THEN /\ entity' = FromDict(class, doc)
            /\ outcome' = IF validate THEN "loaded" ELSE "unchecked"
       ELSE /\ outcome' = "refused"
            /\ UNCHANGED entity
    /\ UNCHANGED <<class, build, doc, hit, cut, harm, saved, checked>>

EntityNext == \/ \E validate \in BOOLEAN : Save(validate) \/ Load(validate)
              \/ CutDocument \/ RemoveEntry \/ EditEntry \/ Upgrade

EntitySpec == EntityInit /\ [][EntityNext]_entityVars

-----------------------------------------------------------------------------
(* Properties. *)

EntityTypeOK ==
    /\ entity \in {Nothing} \cup [Names(class) -> Value]
    /\ saved \in [Names(class) -> Value]
    /\ harm \in 0..MaxHarm /\ (doc = NoDoc \/ DOMAIN doc \subseteq Names(class))
    /\ build \in {"old", "new"} /\ checked \in BOOLEAN
    /\ hit \in {0} \cup DOMAIN Schema[class] /\ cut \in BOOLEAN
    /\ outcome \in {"none", "loaded", "unchecked", "refused"}

(* "missing required fields fail loudly" (core/types.py:15), also without  *)
(* validation; and so do names of no known tier, role, origin or kernel,   *)
(* and manifests of a contract that is not supported.                      *)
Loud == outcome \in {"loaded", "unchecked"} =>
           /\ \A f \in Fields(class) :
                /\ f.required => f.name \in DOMAIN doc
                /\ f.read = "exact" => entity[f.name] \in {Ok, Other, None}
           /\ class = "SessionMetadata" => entity["contract_version"] \notin {Zero, Bad}

DocumentInv == EntityTypeOK /\ Loud

(* An entity that was validated when it was saved is loaded as it was, by  *)
(* this program or a later one: the versions it carries, a False or a 0 or *)
(* an empty list that a default might replace, every optional part.  (But  *)
(* a framework version that is None, which nothing validates, comes back   *)
(* as that of the program that loads.)                                     *)
RoundTrip ==
    (doc # NoDoc /\ hit = 0 /\ checked) =>
        /\ outcome # "refused"
        /\ outcome \in {"loaded", "unchecked"} =>
              \A n \in Names(class) : \/ entity[n] = saved[n]
                                      \/ n = "sentrixsync_version" /\ saved[n] = None

(* Damage stays where it was done: what a validated load makes of a        *)
(* damaged document differs from what was saved and validated only in the  *)
(* field that was damaged and, if the document was cut short there, in     *)
(* later fields, which then were optional and read as never given.  (Not   *)
(* that damage is noticed: where it leaves a value that validate admits,   *)
(* 12 of what was 1200, that is loaded, and so is what a cut left over.)   *)
DamageConfined ==
    (outcome = "loaded" /\ checked) =>
        \A i \in DOMAIN Schema[class] :
            LET f == Schema[class][i]
                n == f.name
            IN  \/ entity[n] = saved[n]
                \/ n = "sentrixsync_version" /\ saved[n] = None
                \/ i = hit
                \/ cut /\ i > hit /\ ~f.required /\ entity[n] = Default(f)
=============================================================================

# SentrixSync in TLA+

SentrixSync brings the recordings of several devices onto one timeline. Devices
record streams on clocks of their own and all of them see some shared events (a
flash, a tap). From the events the program fits maps between clocks, composes
the maps into one clock model per device, corrects every sample to reference
time, joins every stream to a common grid, scores each grid point and stores the
result as a bundle on disk.

This directory models its core logic in TLA+, checks it with TLC and proves the
properties that matter most with TLAPS. Paths below are relative to
`src/sentrixsync/` of the repository. `PROJECT.json` ties every definition to the
lines it stands for.

    tlc -workers 2 -config persist.cfg MCPersist     # a run
    tlapm StorageProofs.tla                          # a proof

## 1. The system

The program is sequential Python: no threads, no async code, no network. What
makes it hard is elsewhere: algorithms whose intermediate state goes stale (a
search that relabels, a greedy clustering with a running mean), off-by-one
hazards at gaps and boundaries, call protocols with side doors, and files that
are rewritten in place while a process may die or another may read.

| Component | State | Operations | Hard behaviour | Correct when |
|---|---|---|---|---|
| Clock reconciliation, `sync/graph.py` | five label dicts, a lazy-deletion heap, the settled set | `build_edges`, `reconcile` | labels replaced before they are settled, stale heap entries, edges crossed against the direction of their fit, disconnected devices, a clamped cost | every label is derived from its parent's present label, paths are the most reliable ones, true clocks are recovered on any path, unreachable devices claim nothing |
| Clock estimation, `clock/estimate.py` | none | TLS, regression and RANSAC fits, confidence | degenerate point sets, outliers rejected by the fit itself, a refit with no inlier | a fit is a positive rate with a confidence in [0,1] |
| Result bundle, `persist.py` | three files of a directory | `save_sync_result`, `load_sync_result`, `load_session` | a crash between or in the middle of writes, a load that overlaps a save, files of an earlier save | a load gives the last saved result, whole, or fails |
| Session lifecycle, `lifecycle.py`, `manifest.py` | manager state, session, manifest file | start, register, attach, finalize, mark, save, load | any order of calls, a cut manifest, loading into any state, skipped validation | identifiers unique, registration frozen, deferred stages not entered, stored manifests valid |
| Event association, `detect/matcher.py` | clusters with a running sum and count | `associate_detections`, `match_detections` | missing, duplicate and interleaved detections, a drifting centroid | fiducials found, events do not cross, no observer lost |
| Timeline, `sync/timeline.py`, `sync/join.py`, `sync/confidence.py` | grid, join results, buckets, confidence | `build`, `asof_join`, `subframe_buckets`, `compute_R`, `build_confidence` | gaps, simultaneous samples, first and last sample, unsorted recordings, rounding, full buckets | no value without a near sample, nothing from the future in a hold stream, no sample in a wrong frame |
| Engine and metrics, `sync/engine.py`, `sync/metrics.py` | none of its own | `synchronize`, residual, coverage, dropout, round-trip accuracy, gate | unreachable devices, no shared events, thresholds at their edges | a zero residual means true clocks, better metrics get no worse verdict |
| Ingestion, `ingest/` | open adapters with a cursor per stream, batches | `ingest_session`, `select_reference`, adapters' open, read, close | any call of an adapter raises, a second call with the same adapters, ties in reference selection | every opened adapter is closed, batches are whole, one reference, the manager's protocol is kept |
| SentrixSim adapter, `ingest/sentrixsim_adapter.py`, `core/uri.py` | the caller's arrays, a cache of samples, cursors | constructor, `read`, payload references | an array the caller uses again before or after it was read, a location with a `#` in it | a row once returned is returned the same again and refers to itself |
| Forward clock, `clock/forward.py` | random generator | device stamps, loss | ties broken by index and running maximum | stamps never go back, the estimator recovers the clock |
| Detectors, `detect/detector.py`, `detect/corrupt.py` | none | `find_impulse_peaks`, `corrupt_detections` | detections lost, repeated, made up, moved | one peak per impulse, events that are the fiducials |
| Entities, types, configuration: `core/`, `config.py` | none | `validate`, `to_dict`, `from_dict`, loaders | None and missing, defaults that differ between versions, documents cut short or edited | what was saved is loaded, damage stays in the field it hit, required fields are not made up |
| Scenarios and benchmarks | none | synthetic data | - | - |

How they interact. `ingest_session` yields device registrations and streams;
`SessionManager` registers devices and stores the session manifest. Detections
go through `associate_detections` and become events. `synchronize` calls
`reconcile` (events to clock models), corrects every stream with its device's
model, calls `TimelineBuilder.build`, then `build_confidence`, then the metrics
and the gate, all as plain calls that hand their results on. `save_sync_result`
stores the result, and other processes load it. The only state two processes
share is on disk: the bundle and the manifest.

## 2. Modules

| Module | Models | Extends |
|---|---|---|
| `Reconcile` | `build_edges`, `reconcile` step by step | - |
| `ReconcileProps` | the simple paths of the graph as a reference, and what they promise | `Reconcile` |
| `ReconcileProofs` | theorems | `ReconcileProps`, `ArraysProofs` |
| `BundleStore` | abstract specification of a bundle: a register | - |
| `Persist` | the file operations of a save, the two reads of a load, crashes | `INSTANCE BundleStore` |
| `Lifecycle` | `SessionManager`, `Session.validate`, the manifest file | - |
| `Arrays` | numpy and list operations (external): stable sort, searchsorted, clip, round | - |
| `ArraysProofs` | lemmas on these operations | `Arrays` |
| `Association` | the greedy pass; `match_detections` as a reference | `Arrays` |
| `AssociationProofs` | theorems | `Detectors`, `ArraysProofs` |
| `Detectors` | signals, peaks, failures of detectors, then the greedy pass | `Association` |
| `Estimate` | `ransac_affine`, `tls_affine`, `fit_piecewise_affine`, `to_reference` | `Arrays` |
| `Subframe` | `subframe_buckets`, `compute_R` | `Arrays` |
| `Timeline` | `synchronize` steps 2 and 3: correct, grid, join, score | `Subframe` |
| `TimelineProofs` | theorems | `Timeline`, `ArraysProofs` |
| `Forward` | `enforce_monotonic_int_us`, the loss masks, the clocks that scenarios inject, in front of the estimator | `Estimate` |
| `ForwardProofs` | theorems on both | `Forward`, `ArraysProofs` |
| `SimAdapter` | `SentrixSimAdapter`, its base class with a cursor per stream, payload references | - |
| `Ingest` | `ingest_session`, `select_reference` | `SimAdapter`, `INSTANCE Lifecycle` |
| `IngestProofs` | theorems, among them the refinement of the manager | `Ingest` |
| `Documents` | the data classes: validation, conversion to and from documents, damaged documents, other versions of the program | - |
| `StorageProofs` | theorems on what is kept on disk, among them the refinement of `BundleStore` | `Lifecycle`, `Persist`, `Documents` |
| `Engine` | `synchronize` around the search: fits the events give, event times, metrics, gate | `Arrays`, `INSTANCE Reconcile` |
| `EngineProofs` | theorems | `Engine`, `ArraysProofs`, `INSTANCE ReconcileProofs` |
| `MCReconcile`, `MCEstimate`, `MCPersist`, `MCDetectors`, `MCTimeline`, `MCIngest`, `MCEngine`, `MCDocuments` | small instances for TLC | the module they name (`MCEstimate`: `Forward`) |

A definition whose name ends in `Slip` is never part of a specification. It is a
plausible mistake in the definition after it; putting it in that definition's
place makes the property that guards against it fail, which shows the property
is not vacuous.

### Reconcile

One variable per local variable of `reconcile`. A dict is a function whose domain
is its keys (`Updated` is assignment), the heap is a set of `<<cost, device>>`
whose least element is popped, devices are numbered in name order because the
heap breaks ties by name. One iteration of the `while` loop is `PopStale` (the
popped device is settled already) or `Settle` (settle and relax all its edges);
`HeapEmpty` leaves the loop, `BuildModels` and `BuildPaths` are the two loops after.

Abstractions. A pair's fit is an input, drawn from the constant `Fits`: how many
events both devices saw, how many the fit used, its residual and its map. A
confidence is kept as its negated logarithm, the form in which the code adds it,
so `Loss` is a natural number and a product is a sum; `Cost` is `Loss` clamped as
`max(conf, 1e-9)` clamps it, while `conf` accumulates the unclamped value, as in
the code. Rates are 1 and -1, for which `1/alpha` is exact; maps with such rates
do not commute, so a wrong direction or order of composition is visible. Maps
stay integers and the proofs hold for all integer offsets.

### BundleStore and Persist

`save_sync_result` writes `sync_result.json`, `arrays.npz` and, given a session,
`session.json`, each with a call that first empties the file. Every call is two
steps (open, then complete), and `Interrupt` may come between any two: the
process dies or a write raises. A load is two steps (`ReadManifest`,
`ReadArrays`), so saves of another process may come between. The manifest names
arrays by position (`a0`, `a1`, ...), so any archive with enough arrays serves it
(`ArraysServe`): that is how parts of two results can be combined.

The register of `BundleStore` promises a result exactly while no save is under
way and the last one ran to its end. A save spoils it and every load in
progress; a load that is not spoiled returns the register's content, and must
not fail when there is one. The mapping: `Store` is `Damaged` if the last save
has not ended, else what the manifest holds; `BoundTo` is what the running load
has read, `Damaged` if a save has run since; `Outcome` maps a pair of parts to the
result they both come from, to `NotFound`, or to `Mixed`, a value the register
never has. `damaged`, `spoiled`, `lastDoc` are history variables.
Two writers at a time are not modelled: the program has no such use.

### Lifecycle

One action per method of `SessionManager`, `Start` and `LoadManager` its two
constructors. A rejected call changes nothing and is no step. Of a session the
model keeps what decides validity: origin, registrations, the ground-truth flag,
and the number of calibrations. A save validates (unless told not to), then
empties the file (`BeginSave`), then fills it (`EndSave`); `Crash` in between
leaves a part. Cut JSON never parses; `Cut` lists what cut YAML may read as, in
the order `to_dict` writes the entries. It may be cut between two entries or inside one:
a registration that is cut before the end of its role, its last required field, is
refused by `from_dict`, as is a calibration without a uri, while a shorter uri or a
ground truth with fewer clocks reads as one, so that `Cut` may also leave all the
model keeps of a session. What becomes of each field is the subject of `Documents`.

### Association

One iteration of the loop over sorted detections is `Open`, `Join`, `Replace` or
`Ignore`; `Finish` filters clusters and reports events. A cluster keeps the
positions it holds, the running sum and the count, and distances to its centroid
are compared after multiplying by the count, so they are exact. As in the code,
`Replace` leaves sum and count alone. A coarse clock is a shift (`Common`): the code can
also multiply by a rate (`matcher.py:69-71`), which is 1 wherever the program gives one.

### Detectors

The pipeline of `run_with_corruption` up to the events. `Detect` finds the peaks of
every device's signal, which has samples at regular times and at the instants
the device observed (`_event_signal`); `Corrupt` is one iteration of the loop over
devices in `corrupt_detections`: which detections are lost, repeated, made up and
moved is a free choice, `MaxFaults` of them in all; `Associate` sorts what is left
and `Group` is every step of `Association`. The model knows which fiducials each
device observed (`visible`), which the program cannot see. Its runs also
start from `Association`'s own initial states, lists of detections without a
world behind them.

Events can only be held against the fiducials where the detections leave no doubt (`Clear`).
Being closer to each other than the tolerance just when they are of one fiducial is
enough if any two events must have an observer in common (`2 * MinObservers` is more than the
number of devices). If not, two fiducials apart in the world may come out in the other order,
each seen by devices the other is not seen by, when coarse clocks are off by more than the fiducials are
apart; so `Clear` then also asks that the coarse clocks keep the order of the fiducials.

### Estimate

One sample of RANSAC is `Sample`, any two events: the draw is left open, so every
seed is covered. `FitAll` and `FitBest` are the two ways out of the loop, `Refit` the fit
after the inliers were counted again. Fits are exact: a line through two events
has a rational rate, and a total least squares rate is a root, which is only
ever compared, so `RateLeq` compares squares of whole numbers. What is left out is
rounding: an event at exactly the threshold may count either way in floating
point. `Split` cuts the events into segments, `Predict` maps each event with the
segment `to_reference` picks. `tls_affine` itself fits twice: `Kept` is what it fits
the second time, the events whose residual is at most three times the root mean square
(`Inside`, again in whole numbers). The square of one residual is at most the sum of
all, so up to nine events are all kept, and from ten on one may go.
The fits of the segments are not computed: which segment serves an event depends on how the
events were dealt, not on the fits.

### Forward

What the scenarios do with a device: `Stamp` schedules a stream and makes its stamps
increase (`Enforced`, step by step as `enforce_monotonic_int_us` computes it), `Lose` is one
sample of a keep mask, `Observe` gives the local times of the events by a plain or a
piecewise clock, and then `Estimate` runs on what came out. Random draws are any
choice; jitter is at most one unit on one event. Times are whole numbers of
1/`Scale` microseconds, so rounding happens. A local time is kept multiplied by the
rates' numerators (`Unit`), which makes it whole. In the bad state of the Gilbert model all is
lost, as `loss_in_bad` is 1 wherever it is called.

### Documents

A data class is the sequence of its fields in the order they are written; a field
says whether it is required, what a missing one is read as, what `validate` admits and how
`from_dict` reads it. Of a value the model keeps what these tell apart: None, an empty or
zero one, two proper ones, one of the wrong form. `Coherent` has the rules that
relate fields. An entity is written by `ToDict`, which leaves out None. Its document
may be cut short (`CutDocument`), between two entries or inside one, which then holds any value
(PyYAML reads `frame_count: 1200` cut to `12` as a number), it may lose an entry (`RemoveEntry`), or have
one written or replaced by any value, a well-formed one included (`EditEntry`). `hit` and `cut` remember
where the damage was and whether what comes after it is gone; a document is damaged at most
once before it is saved again. Another version of the program, with other default versions, may take over
(`Upgrade`); `FromDict` reads it back, with or without validation. `Refuses` lists what
`from_dict` raises on, `Converted` what it makes of the rest: a part that is not a
mapping is taken for none; an empty part is refused where it has required fields and else
(`ground_truth`, `gates`) reads as one at its defaults; a text where a list of texts belongs is taken
for its letters. The
classes, their fields and the helpers of `core/types.py` are all there; nested entities
are a value of their parent's field and a class of their own.

### Timeline and Subframe

Each stage is one action: the program does not interleave them and no one can
observe a stage half done. Positions run from 1 and 0 stands for the code's -1.
Clock models are quotients, rounded half to even as numpy does. Weights and
interpolation confidences are kept as numerators. The clock component is a
decreasing function of the distance to the nearest event, so the model keeps
that distance. `ComponentsAt` leaves out the `source_confidence_per_sample` branch of
`build_confidence`: the engine, its only caller, gives no such confidences (`engine.py:108`). `NoSamples` is the builder's refusal.

### SimAdapter

An adapter has the caller's arrays, whether it is open, a cursor per stream and a
cache. numpy does not copy an array that is of int64 already, so `arrays` stays in the
caller's hands: `Reuse` is the caller recording something else into one. `Samples` are
made of the array at the first read and cached for good, across `Close` and `Open`.
A payload reference is the sequence of its pieces, one of which may be a hash:
`Parse`, `Joined` and `Build` are `parse_payload_uri`, `PayloadURI.__str__` and `build_payload_uri`, and
`Acceptable` is what the constructor lets through.

### Ingest

One call of `ingest_session` is `Begin`, then one action per iteration of its loops
(`OpenAdapter`, `Consider`, `ReadSample`, `FinishBatch`, `RegisterDevice`, `CloseAdapter`) and
one per step between them. `AdapterRaises` lets any call of an adapter raise, a
`Refuse...` action is a failed `require`, and both lead to the `finally` block; `RefuseSession` is
any failure of `finalize_registration`, a forbidden ground truth or a part of the session that does not
validate by itself; a close
that raises ends the call there (`CloseRaises`). The adapters outlive the call, so
up to `MaxCalls` calls find them as the call before left them, or with an array used
again in between (`ReuseArray`). Identifiers are
numbered in their order as strings, which is how the code breaks ties. The
manager's variables are those of `Lifecycle`, and `ImplementsManager` says that every
step of a call is a step of the manager that keeps its protocol: it never uses
`mark`, never registers late, never finalizes what does not validate. An
exception drops the manager, which is the `Crash` of `Lifecycle` to it.

### Engine

`synchronize` as four stages: `Reconciling` (every step of `Reconcile`), `Locate`
(event times in reference time), `Measure`, `Judge`. The model keeps the world the
program cannot see: true clocks, who observed which event, and with what
error. From it come the observations, the number of events a pair shares,
and its fit, which is either exact or a wrong one. The round-trip accuracy,
which the program computes from ground truth, is thus available to say what the
residual, which it computes without, is worth. The residual is kept as the sum
of squared spreads and their number, coverage and dropout as quotients, and a
stream as four numbers (expected, received, grid points, valid ones).

## 3. What is checked

Passing runs:

| Run | Instance | Shows |
|---|---|---|
| `reconcile` | 4 devices, every graph of good, poor and clamped edges (costs 1, 3 and 4) whose maps agree or not, rates 1 and -1, all families of true clocks with offsets 0, 1 | the inductive invariant; no edge can improve a final label; true clocks recovered whatever the path and direction; reachable means connected; reported paths are simple and carry the reported hops, cost and confidence; most reliable as long as no edge is clamped; settled labels final; termination |
| `persist` | 3 results (two with as many arrays, one with more), 2 session documents, 3 saves | the bundle implements the register; a half-written first bundle is always detected; a session given to a save that ended is the one loaded |
| `lifecycle` | 2 device identifiers in both roles, 1 calibration, JSON and YAML, loads into the two states a caller can resume in | unique identifiers; valid stored manifests; a manifest that a crash has robbed of devices fails validation or names the reference that was saved; registration frozen |
| `detectors` | 3 devices with shifted clocks, one of which is known wrongly; two fiducials, each observed by any of them; up to 2 failures of any kind. By itself, `Association` on every set of up to 4 detections at 5 instants, tolerance 2; and on two fiducials seen by all three | the events are the fiducials, with all their observers, at the detected times; events never cross; no observer lost; well separated fiducials are found and kept apart; agreement with `match_detections`; closed clusters stay closed |
| `estimate` | 4 or 5 events in order on clocks of 6 to 8 instants, every such pair of sequences; 1 to 4 events in any order, some at one instant; 11 events of which the fit rejects one; 2 samples, threshold 1; 1 to 3 segments. And what `Forward` makes: regular and arbitrary schedules of 4 or 5 samples with every loss model, 9 plain and 2 piecewise clocks, jitter of one unit or none | the fit is of a clock that runs forwards, and the refit is never left without an inlier; the true clock is found once it was sampled; segments serve the events they were fitted to; stamps of any schedule never go back, are not negative and late by no more than their index, before and after a loss; the clock that was injected is recovered exactly |
| `timeline` | a hold and a continuous stream of up to 3 samples, out of order, simultaneous, with gaps beyond the tolerance; slow, fast, halved, reversed clocks; three grid steps, one of a fractional number of microseconds | a sound grid; valid exactly near a usable sample; right bracket; nearest event; faithful buckets, and all samples in them with the `R` that `compute_R` gives |
| `ingest` | fleets of 1 to 3 adapters in every order, equal or different in each criterion of selection, with up to 2 streams (one empty, one out of order), with the same identifier or not; locations with a hash at the start, in the middle, at the end; 2 calls with the same adapters, one array used again; a limit of 1 sample or none | adapters closed whatever raises; whole prefixes in every batch, each sample referring to its own row; a row once returned is returned the same again; the reference does not depend on the order; ground truth validated; the manager's protocol kept |
| `engine` | 3 devices, 1 or 3 events seen by every combination of two or three of them, forward and reversed clocks, exact and wrong fits, a bad observation, streams at and around two sets of thresholds | reachability follows the events; without observation errors the residual is zero exactly if every reachable device has its true clock; events land where they happened; better metrics get no worse verdict |
| `documents` | all 18 classes, two typical entities of each with any value in any one field; one cut between or inside its entries, one entry lost, or any value written to any one; two versions of the program; saves and loads with and without validation, any number of times | required fields and unknown names fail loudly; a validated entity is loaded as it was by either version; a damaged document differs from what was saved only in the field that was hit and, after a cut, in later optional ones, which read as never given |

Runs whose property comes from a comment or document and does not hold:

| Run | Claim | What happens |
|---|---|---|
| `persist_mixed` | `persist.py:159`: a loaded result is "field-equivalent to the original" | a second save dies after the manifest; the next load combines it with the old arrays |
| `timeline_gaps` | `docs/CONTRACT.md:227`: a value interpolated across a gap longer than tau is invalid | a continuous stream is valid if the nearer neighbour is within tau, whatever the gap |
| `ingest_order` | `docs/CONTRACT.md:149`: a stream that goes back in time is "rejected at ingestion with a clear error" | `ingest_session` never calls `SampleBatch.validate`; such a stream is ingested |

Also met while modelling, without a run of their own:
`lifecycle.py:105` says DEVICES_REGISTERED is entered by validating, but
`mark(DEVICES_REGISTERED)` is allowed from CREATED and validates nothing;
`sync/graph.py:6` and `:107` promise the tree of lowest cumulative residual, but
the search minimises the sum of -log(confidence), which also counts events, so
a path of larger residual may win, and `sync/graph.py:145` stores that sum, which has no
unit, in `fit_residual_us`, which by its name (`core/timeline.py:51`), the example of
`docs/SESSION_SCHEMA.md:255` (280.0) and the "cumulative edge residual" of
`docs/IMPLEMENTATION_NOTES.md:121-122` is a residual in microseconds; the model calls it by what it
is, `cost`, and `PathsInv` says that it is the cost of the path, not that it is a residual; `sync/join.py:27` says `source_index` is -1 if
no sample is within tolerance, but it is set to the latest sample however far
(`valid` tells); `sync/join.py:115` says a full bucket flags overflow through `m_k`,
but `m_k` is capped at R and looks the same as an exactly full one;
`detect/matcher.py:57` says detections within tolerance form a fiducial, but the
centroid drifts, so an event may span more than the tolerance;
`detect/matcher.py:74-75` compares with the centroid of a cluster, but after a
replacement sum and count are still those of the detection that was replaced;
`core/session.py:242` forbids ground truth in real sessions, but ground truth attached
after `finalize_registration` is checked by no one until the next save;
`sync/confidence.py:53` speaks of the nearest event "used to fit that device's
clock", but every observed event counts; `sync/engine.py:167` says "Devices with no
usable model are skipped", but unreachable ones have an (identity) model and are
not; with no event to compare, the residual is 0 and the verdict may be CERTIFIED
with every follower unreachable; a close that raises leaves the adapters after it
open; `clock/forward.py:53` promises strictly increasing stamps, but
[5, 5, 6] becomes [5, 6, 6] (`StampsConform` says what does hold);
`persist.py:216` says `load_session` gives the session "if `session.json` was saved, else None", but a
save without a session leaves an earlier `session.json`, which is loaded with the new
result; `sentrixsync_version` is validated by nothing, and None or a missing entry reads as
the version of the program that loads and is saved so the next time; `docs/CONTRACT.md:257`
wants consumers to check `contract_version`, but a missing one is taken for the current one;
`producers` and a device's `calibration_refs` are read by `list(...)`, so a text becomes a list of its
letters and validates; an optional part that is not a mapping (`timeline`, `sync_report`, `validation_report`,
`ground_truth`, `descriptor`, `subframe_buckets`, `gates`) is dropped without a word, while an empty
mapping there raises, unless it is `ground_truth` or `gates`, which then are at their defaults; an empty
reference configuration loads as all defaults; a YAML manifest that is cut inside a number or a text
(`frame_count: 1200` to `12`) parses, validates and is loaded with what is left, and an
optional entry at the end that is cut off reads as its default (`valid` of a sample as True); an adapter whose arrays are used again before
every stream was read returns streams of two recordings; `from_parquet` fills in the caller's
descriptor before the constructor refuses a path with a `#` in it, and may combine a
caller's `topology_ref` with the file's `topology_hash`.

### Bounds, and why they are enough

- `N = 4` has paths of three edges, cycles, several relabellings of one device before
  it is settled, stale heap entries, edges crossed in both directions, and
  isolated devices. Two cheap edges may cost less than, as much as or more than
  a dear one. The search theorems hold for every `N` and all fits.
- Three saves: one to leave an old bundle, one to be cut short, one to repair it
  or to overlap a load. The theorems hold for every `MaxSaves`.
- Two identifiers, of which one may be registered in both roles, reach every
  outcome of validation (none, one or two references; refused duplicates).
  `MaxCalibrations = 1` tells a cut list from a whole one.
- Four detections make chains (three near each other in turn), duplicates,
  replacements after a join and interleaving of devices; the six-detection input
  makes two complete events. Distances run from 0 to beyond the tolerance.
- Two fiducials and two failures of detectors: a fiducial may lose both observers,
  or be repeated and moved, or meet a made-up detection; three failures add none
  of another kind. Impulses are wider than the sampling step.
- Four and five events make a true line with one or two outliers; two samples
  are enough for the best one to come first, last, or never. Of the eleven events the fit
  rejects one that RANSAC counts as an inlier; their times are so
  small that the squares compared stay within TLC's integers. They fall on three instants, so what
  the rejection does to `FitUsable`, which asks for events in order, is proved and not run.
- Three samples make a gap between two near ones; times 0..7 with tolerance 2
  make gaps of both kinds, and every grid point in a gap, at its edges and at a
  sample occurs.
- One to three adapters: with two, one may fail while the other is open, and ids
  may collide; with three, a running best is replaced twice, or not, in every
  order. Two calls: what one leaves behind, the next one finds. A limit of 1
  cuts streams of 2 and 3 samples and not the empty one.
- `MaxReuses = 1`: an array is used again before its first read, or after it. A longer
  list of rows adds nothing a list of three does not have.
- Schedules of four samples from {-1, 1, 2, 3} have ties, ties of three, ties right
  before a later stamp that the added index passes, steps back, and a negative
  start. Two stretches make one change of rate, to and from a rate of 2 or 1/2.
- `SessionKept` is about saves that pass a session; what a save without one leaves is
  told above (`persist.py:216`).
- One odd field and one damage at a time: fields are read and validated one by one, but for
  the pairs in `Coherent`, and these depend on fields that the two typical entities
  set or leave out. Two versions are enough, as nothing compares versions.
- Three devices and three events, with 2 needed for an edge, reach the third
  device directly, through the second, or not at all. Only fits with as many events
  as are shared occur (outliers are what `Reconcile` adds).

`CHECK_DEADLOCK FALSE` is said where the program ends by itself (a search, a pass, a
pipeline that finished, calls that were all made). `persist` and `lifecycle` check
for deadlock.

### Fairness

Only `Reconcile` assumes fairness, weak fairness of `Next`: it is one sequential loop
with no wait, so a step that can be taken is taken. `Terminates` is checked under it
and says that the loop, which pushes and pops entries that may be stale, does
not go round for ever. `Persist`, `Lifecycle` and `Ingest` assume none: a caller need
not call, and a process may die; all their properties are safety. `Detectors`,
`Association`, `Estimate`, `Timeline` and `Engine` work through a fixed number of steps.

## 4. What is proved

For all values of the constants that meet the modules' assumptions (device
counts, fits, results, bounds arbitrary).

`ReconcileProofs`. The inductive invariant is `SearchInv`. `TreeConsistent` alone is not
inductive: a parent could be relabelled after a child has used its label. What
rules that out is that only settled devices are parents and that devices are
settled in order of distance (`SettledFirst`), which needs the heap to hold the
present label of every unsettled device (`HeapCovers`); `Relaxed` says every edge of
a settled device was taken into account. The main step is `SettlePreserves`, with
`SettleEffect` stating what relaxing does to each label.

- `SearchCorrect`, `TypeCorrect`, `TreeCorrect`: the invariant and two of its parts.
- `FixedPointReached`: `Relaxed` once the heap is empty, when all that is known is settled.
- `TruthRecovered`: if all edges are those of true clocks, maps along any path
  telescope (`Telescope`, `LinkOfTruth`) to the device's true clock.
- `LabelsOnlyImprove`: an action property, from the same invariant.
- `PartitionCorrect`: the devices reported reachable are exactly those connected to
  the reference (in every set that holds it and is closed under edges), and
  the others claim no confidence.
- `PathsCorrect`: climbing from a device to its parent lowers `hops` by one (`ChainIs`), so the walk back to
  the reference meets no device twice and is within the bound of `Chain` (`WalkFits`); its edges add up to
  the labels, `cost` among them, as each was relaxed from the label its parent still has (`AlongWalk`, `SumTelescopes`). Along any other
  path from the reference, the label of every device is at most the sum so far (`NoneCheaper`, one
  relaxation per edge), and without clamped edges costs are losses (`DistIsConf`).

`StorageProofs` is about three modules. Of the bundle, the inductive invariant is
`BundleTypeOK /\ Undamaged`: a save has left the files it has passed as they should be, an
undamaged bundle has one result in both files, and a load that nothing overlapped
still has on disk what it read.

- `BundleTypeCorrect` and `BundleCorrect`: the two parts.
- `Refinement`: `BundleSpec => Register!Spec`, step by step: opening the manifest begins a
  save, the write that ends the save ends it, a load of an undamaged bundle
  answers with its result, everything else stutters.
- `FirstSaveIsDetected`: while there was one save, whatever is in a file is of that save.
- `SessionIsKept`: with `DocKept` (the session of a save that ended lies beside a manifest), as
  nothing but another save with a session overwrites it.

Of the session manager, the inductive invariant `IInv` is type correctness, unique
identifiers, with three more facts: while a save is under way, the
session in hand is the one saved last (`SaveInHand`); if the last save
validated, that session was valid (`LastIsValid`), which survives attaching ground truth only because a
save checks again; and the devices on disk are the first of those saved last (`FileOfLast`), whatever
a crash has left (`CutOf`).

- `SessionsCorrect`, `StoredValid`: for any identifiers, any number of
  calibrations and any states to load into.
- `ReferenceIsKept`: devices that are the first of others with one reference hold that one or
  none (`SameReference`), so a part that validates, and hence has one, has that one.
  Both validations are needed: without the save's, a session with two
  references might lose either.
- `RegistrationIsFrozen`: an action property, from the same invariant.

Of the entities, the inductive invariant `EntityInv` says that a document stands as the entity
saved was written, but for the field that was hit and, after a cut, what came later and is gone (`DocInv`, with
`Spared`), and that what was loaded is what the
document at hand is read as by the program that runs (`ReadInv`). Of the 18 classes
the proofs use two facts only: the fields of a class have different names, and each
field is `Sound`, that is, `from_dict` neither refuses nor changes what `validate` admits, and
None, which is not written, is admitted only where a missing field reads as None
again (one lemma per class, `ClassesProper` for all). A field that broke this rule, say an
optional one with a default other than None, would break the proof of its class; the only
exception is `sentrixsync_version`, which `RoundTrip` names.

- `DocumentsCorrect`, `RoundTripCorrect` (by `Reloaded`: a valid entity, written and read, is valid
  again, as no rule of `Coherent` looks at the field that may change, `SameRules`) and
  `DamageIsConfined` (by `ReadBack`: a field that stands as it was written, or was left out, reads as
  it was, whatever became of the others): for any number of odd fields, damages, loads and saves.

`IngestProofs`. The inductive invariant `IInv` has six parts. `Shape`: a cache that is filled has one
sample per row, which refers to that row and has a time the row had since the
adapter was made; an array used again changes the array, not what was cached of it.
`Control`: which adapters are open, in terms of how far the call is. `Gathered`: batches are
whole prefixes of the caches, the stream under way is read up to its cursor, the
streams after it are still at their start, in adapters not reached yet as well (this
is where opening must rewind). `Past`: what an earlier call returned is in the caches too.
`Choosing`: no device considered so far comes before the best. `Managing`: the session holds the
devices read so far. `Choosing` needs that a finite set of rates has a greatest (`Greatest`,
by well-founded induction on subsets) and that keys are totally ordered (`OrderOfKeys`).

- `InvariantHolds`; from it `AdaptersAreClosed`, `ReadsWholePrefixes`, `IsRepeatable`, `BuildsSession`:
  for any fleets, limits, numbers of calls and of arrays used again.
- `KeepsProtocol`: `Spec => ImplementsManager`. `Begin`, `Raise` and `CloseRaises` map to the manager's `Crash` (or
  a stutter), `StartManager` to `Start`, `RegisterDevice`, `AttachGroundTruth` and `Finalize` to the
  actions of those names; that `Finalize` finds a valid session is what `Managing` gives.

`ArraysProofs` says of `Sort`, `SearchLeft`, `SearchRight` and `Round` what the proofs about their
callers need, for arrays of any length: `Sorts` (the same elements, in order; the ranks `Sort`
chooses by are a bijection, `Ranks`), `RightOf` and `LeftOf` (the position exists and splits the array),
`RoundedInOrder`, `RoundedNear`, `RoundedExact` and `RoundedSteps` (multiples of a quotient, rounded, differ by
its whole part or one more). Sums over sets, which the community modules define by
folds, exist and satisfy the equation of their definition (`SumExists`, `SumTake`), and are linear
(`SumsCombine`). What needs induction is by a least counterexample (`Least`,
from well-founded induction on subsets) or on natural numbers stated as a set (`Induct`).

`TimelineProofs`. The inductive invariant `IInv` says that each stage that is past has left what it
computes of the stages before it; the properties then are facts about the operators.

- `JoinIsHonest`: of all usable samples the two around the grid point hold the nearest
  (`GapsAreNear`, `JoinedAt`), and sorting does not change which samples there are (`Aligned`); on a
  clock that runs forwards it changes nothing (`Times`).
- `ScoresAreNearest`: the two events around a grid point hold the nearest one, also before
  the first and after the last, where both clip to the same (`NearestEvent`).
- `GridIsRight`: from `Span` (finitely many streams have a first and a last sample) and the
  lemmas on rounding.
- `BucketsAreFaithful`: a frame is an interval of positions (`BucketIsFaithful`), and more than `R` samples a
  period apart do not fit into it (`Spread`, `FramesFit`).

`ForwardProofs`. The invariant `ForwardInv` has a part for each stage: `StreamInv` on the stamps, `WorldInv` on the
local times of the events, and `EstimateInv`, the inductive invariant of `Estimate` alone. The
latter says that the best sample is the consensus of some pair that was drawn and no pair
drawn has a larger one (`SearchInv`), what each of the ways out of the loop fitted (`FitInv`), and how the events
were dealt to the segments (`SegmentInv`).

- `StampsCorrect`: whatever the schedule and the losses, stamps do not go back and lag the
  running maximum of the schedule by no more than their index.
- `SegmentsCorrect`: segments of `(s * n) \div k` events are never shorter than two (`Dealt`), and as they are cut
  from events in order, the middle between two segments separates them (`ServesOwn`).
- `TrueClockCorrect`: the events of `C` lie on the line through two of them, rising `dy` in `dx`, so the
  moments of their fit are those of that line (`MomentsOnLine`, by the linearity of sums), the root in
  the fitted rate is exact (`RateOfLine`), and being near the fit is being near the line
  (`FitOnLine`): the consensus is the mask, and the refit changes nothing. Nor does the rejection of
  outliers: all residuals from such a line are zero (`NoResidual`, `KeptOnLine`).
- `FitCorrect`: a refit of events in order never misses all of them, however many there are and whatever
  `Kept` left out. The argument is about any set of events in order whose spread about the
  sampled line is bounded, and a part of a consensus is one as well (`ConsensusRefits`). The rate of the fit is a root, so sums of
  numbers `q - Sqrt(r) * p` are compared by squares (`Over`, `OverAdds`, `OverTotals`). It lies between the two
  regressions, of `y` on `x` and of `x` on `y` (`Correlated`, the inequality of Cauchy and Schwarz, and
  `BetweenRegressions`). Suppose every event of a consensus were beyond the threshold of it. Some are above, some below, as
  the line goes through their mean. No two of them are further apart from the sampled line than twice the threshold
  (`Spread`), so all above are later than all below, or all earlier, as the sampled
  line is steeper than the fit or not. In the first case the fit would be below the
  first regression, in the second above the other (`SomeNear`, with the events' times as weights: `OverWeighted`). And
  moments of events in order are positive (`MomentInOrder`), hence the rate is.
- `RecoveredCorrect`: the local times of events on an exact clock lie on a line (`OnLineIf`, `ExactTimes`), for a piecewise
  clock stretch by stretch (`LocalInStretch`), and so do those of every segment that is of one stretch.
- `ForwardSegments`: what the forward clock makes satisfies what `Estimate` assumes of its evidence, so the
  theorems on the estimator hold of what it observes.

`AssociationProofs`. The detections are in order of time (from `Sorts`); the inductive invariant
`IInv` says so, that what a cluster holds comes before what later ones hold (`Ordered`), and that
a placed detection is `CoveredBy` the cluster that was the newest when it came.

- `ClustersAreSound`: a step only touches the newest cluster (`PlaceEffect`), so `Ordered` is kept, and
  with it two events cannot cross. `ClosedForGood` is the same lemma as an action property.
- `FiducialsAreFound`: the pass compares with a centroid of detections it may since have replaced, and
  with the newest cluster only. `SepInv` says why this is enough when closeness is transitive: the
  centroid lies between two placed detections close to all the cluster holds (`Centred`),
  so being near it is being near them (`FitsIsNear`); and what is close to an older cluster is
  close to all that came after it. That `match_detections` agrees needs counting only: the
  clusters enumerate each device's detections in order (`UpToKth`).
- `EventsCorrect` is about the whole way from signals to events (`DetectSpec`). Its invariant `DetectInv` adds to
  the two above what is true of detections (`Faithful`: each is near a fiducial its device observed until one is
  made up, and at its true time until a detector failed) and that the pass is over exactly those
  (`Listed`: laying them end to end and sorting lose and add nothing, `Flattened`, `SortedHolds`). Peaks are
  true times as a region over the threshold holds a sample at an impulse (`PeakInSeen`): the one the
  region's first sample is near cannot lie before it, or the sample in front were over the threshold too.
  Where the detections are `Clear`, closeness is being of one fiducial (`CloseShows`), so it is transitive, and a cluster
  holds all that detected its fiducial (`ClusterPortrays`). The order (`PortraysInOrder`) comes from
  a device in both events: its detections could only be the wrong way round if one of them were
  near both fiducials, which `Clear` excludes (`InOrder`).
- `DetectedSound` and `DetectedClosed`: on the detections of failing detectors, what `ClustersAreSound`, `FiducialsAreFound` and
  `ClosedForGood` say of lists of detections holds as well.

`EngineProofs`. Every step of the engine's search is a step of `Reconcile` (`SameSearch`), and what
`ReconcileProofs` assumes holds of the fits that events give (`SearchAssumptions`), so its
invariants are part of the engine's `IInv`, as lemmas of the instance. The rest of `IInv` says
what each stage that is past has made of the ones before it.

- `StagesInRange`: worst coverage and dropout exist and are fractions (`Bounds`, by induction on the number of
  devices, as quotients compare by products), the residual is a sum of squares over events
  (`SumExists`, `SumZero`), and reachable is who no cut of too few shared events separates from the reference
  (`EdgesAre`, `ConnectedIs`, from `Partition`).
- `TruthTold`: a clock map is determined by its values at two times (`Determined`), so with two shared events per
  edge truth spreads from the reference along the edges (`TruthSpreads`): the set of devices with true
  clocks is a cut, and hence holds all reachable ones. Conversely true clocks place an event
  where it happened (`TruePlace`). This is where `MinEvents >= 2` is needed, which is the default of
  `build_edges`; with edges of one event the residual would prove nothing about rates.
- `EventsAreLocated` follows from the same lemma, and `VerdictIsMonotone` from the arithmetic of the thresholds
  (`BetterResidual`, `BetterStreams`); that no stream is hidden by the others is `Worst` with the transitivity of
  comparing quotients (`LeqTransitive`).

Assumptions: `ResultAssumption` (results and documents are none of the marker
strings, as a file cannot be both), `DeviceAssumption`, `LossAssumption`,
`FitAssumption`, `TruthAssumption`, `LoadAssumption` (a manager is loaded into one of its states), `FleetAssumption` (a
fleet is a sequence of at least one adapter), `LimitAssumption`, `StreamAssumption` (finitely many streams),
`ToleranceAssumption`, `DetectorAssumption` (finitely many devices, each once in the order of detection, and fiducials), `KernelAssumption`, `RecordingAssumption`, `StepAssumption`, on the
world of the engine `GateAssumption` (thresholds in order, as `GateThresholds.validate` checks),
`ClockAssumption`, `ObservedAssumption`, `ErrorAssumption`, `DeliveryAssumption` (no more valid grid points than grid points), on the
estimator `EvidenceAssumption` (as many times on one clock as on the other, at least one) and
`NumberAssumption`, on the forward clock `ForwardAssumption` (rates are quotients of positive whole numbers; the events a scenario schedules
are in order of time: they come from `linspace` or are sorted, `scenarios/robustness.py:114`), and `ClassAssumption` (the
classes looked at are among those of the schema). TLC evaluates them on every run.

Only model-checked: `Terminates` (liveness is out of TLAPS's reach). Every invariant and
every safety property of a passing run is stated by a theorem.

What is not true, and hence no property: that the refit keeps two inliers. The proof attempt
shows how it can fail. Let two devices see five events at 0, 1, 2, 9, 10 and at 0, 28, 30, 31, 33, with a
threshold of 13. The line through the last two, of rate 2, has all five in its consensus. The total least
squares line through these has a rate of about 4.4, and only the first event is within 13 of it
(the residuals are 5.1, 18.6, 16.2, 13.6 and 16.0). The last fit is made from this one event, an offset at
rate 1. Here all events are within three thresholds of each other, and the clock runs far from
rate 1. Nothing in the code or its documents says that more inliers are left, and `FitUsable` asks for one.

## 5. What is not modelled

- Floating-point rounding, and the regression against an exact reference
  (`fit_affine`, `fit_offset_only`), which the engine does not use. `Reconcile` and
  `Engine` take a pair's fit as an input; `Estimate` says what fits there are, and
  that their rate is positive when events are in order.
- Of the SentrixSim adapter, reading a parquet file (I/O of a library) and the topology
  provenance it copies from its metadata, which no part of the program reads.
- Of the forward clock, `ref_from_local`, which nothing calls, and the distributions of its
  noise.
- `alignment_rmse_us` and `event_residual_us`, which the engine does not use.
- A rate other than 1 of a coarse clock, and a confidence given per sample
  (`source_confidence_per_sample`), neither of which any caller passes.
- The registry of payload schemes, and wording: messages of failed checks, formats of files.
- The detector registry, benchmarks, and of the scenarios what does not lead from
  signals to events: generators of test data.
- Correction by `ClockModel.segments`: `fit_piecewise_affine` is the only place that sets
  it, and the engine, which corrects with rate and offset, never calls it.

## 6. Plan

Done: reconciliation, bundle, lifecycle, association, timeline, ingestion, engine, estimation,
detectors, forward clock, documents, adapter, in this order: first the algorithm every result
rests on, then the state shared between processes, the call protocol, the pipeline around
the search, and what feeds and stores it.

What would come next:

1. `Detectors` and `Estimate` in front of `Engine`, so that events come from detections rather than
   from the world: what a crossed or split event would do to the clock models.

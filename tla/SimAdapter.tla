----------------------------- MODULE SimAdapter -----------------------------
(***************************************************************************)
(* The adapter of ingest/sentrixsim_adapter.py and its base class in       *)
(* ingest/adapter.py: streams of timestamps that the caller passes as      *)
(* arrays, a cursor per stream, and a cache of the samples made of them.   *)
(* An array that is one of int64 already is not copied, and a stream's     *)
(* samples are made when it is first read: until then the caller may still *)
(* change them by using the array again.                                   *)
(*                                                                         *)
(* A payload reference (core/uri.py) is the sequence of its pieces after   *)
(* the scheme: Hash, which starts the fragment, and others.                *)
(***************************************************************************)
EXTENDS Naturals, Sequences, FiniteSets, FiniteSetsExt

CONSTANTS N,         \* number of device identifiers
          Fleets,    \* sequences of adapters, as the caller wants them
          MaxReuses  \* bound on the times an array is used again

Device == 1..N
Tier == {"hardware_ptp", "shared_event", "wall_clock"}

Hash == <<"#">>
Text == <<"text">>

(* A stream is its nominal rate (0 if not declared) and the timestamps the *)
(* device gave its samples.                                                *)
Stream == [rate : Nat, stamps : Seq(Nat)]
Adapter == [id : Device, candidate : BOOLEAN, tiers : SUBSET Tier,
            streams : Seq(Stream), truth : BOOLEAN, base : Seq({Hash, Text})]

ASSUME DeviceAssumption == N \in Nat /\ MaxReuses \in Nat
ASSUME FleetAssumption == Fleets \subseteq Seq(Adapter) \ {<< >>}

VARIABLES fleet,   \* the adapters
          arrays,  \* adapter |-> stream |-> the timestamps in the caller's array
          reuses,  \* how often an array was used again
          isOpen,  \* adapter |-> its _opened
          cursor,  \* adapter |-> stream |-> its read cursor
          cache    \* adapter |-> stream |-> its samples, if they were made

adapters == <<arrays, reuses, isOpen, cursor, cache>>

-----------------------------------------------------------------------------
(* parse_payload_uri, PayloadURI.__str__, build_payload_uri *)

Parse(u) ==
    LET h == {i \in DOMAIN u : u[i] = Hash}
    IN  IF h = {} THEN [location |-> u, fragment |-> << >>]
        ELSE [location |-> SubSeq(u, 1, Min(h) - 1), fragment |-> SubSeq(u, Min(h) + 1, Len(u))]

Joined(location, fragment) == IF fragment = << >> THEN location
                              ELSE location \o <<Hash>> \o fragment

Build(location, fragment) == LET p == Parse(Joined(location, fragment))
                             IN  Joined(p.location, p.fragment)

(* What a constructor accepts. *)
Acceptable(base) == Parse(base).location # << >> /\ \A i \in DOMAIN base : base[i] # Hash

Row(k, i) == <<"row", k, i>>
PayloadRef(base, k, i) == Build(base, <<Row(k, i)>>)

-----------------------------------------------------------------------------
AdaptersInit ==
    /\ fleet \in {f \in Fleets : \A i \in DOMAIN f : Acceptable(f[i].base)}
    /\ arrays = [i \in DOMAIN fleet |->
                   [k \in DOMAIN fleet[i].streams |-> fleet[i].streams[k].stamps]]
    /\ reuses = 0
    /\ isOpen = [i \in DOMAIN fleet |-> FALSE]
    /\ cursor = [i \in DOMAIN fleet |-> << >>]
    /\ cache = [i \in DOMAIN fleet |-> [k \in DOMAIN fleet[i].streams |-> << >>]]

Samples(i, k) ==
    [n \in DOMAIN arrays[i][k] |-> [t |-> arrays[i][k][n], seq |-> n - 1,
                                    ref |-> PayloadRef(fleet[i].base, k, n - 1)]]

(* Slip: samples are made at every read. *)
SamplesForSlip(i, k) == Samples(i, k)

(* There is no telling an empty stream that was read from one that was     *)
(* not, and no need to.                                                    *)
SamplesFor(i, k) == IF cache[i][k] # << >> THEN cache[i][k] ELSE Samples(i, k)

(* Slip: an adapter that was never closed goes on where it was. *)
RewoundSlip(i) == IF cursor[i] # << >> THEN cursor[i] ELSE [k \in DOMAIN fleet[i].streams |-> 0]

Rewound(i) == [k \in DOMAIN fleet[i].streams |-> 0]

Open(i) == /\ isOpen' = [isOpen EXCEPT ![i] = TRUE]
           /\ cursor' = [cursor EXCEPT ![i] = Rewound(i)]
           /\ UNCHANGED <<arrays, reuses, cache>>

(* The samples survive the close. *)
Close(i) == /\ isOpen' = [isOpen EXCEPT ![i] = FALSE]
            /\ cursor' = [cursor EXCEPT ![i] = << >>]
            /\ UNCHANGED <<arrays, reuses, cache>>

Exhausted(i, k) == cursor[i][k] >= Len(SamplesFor(i, k))
NextSample(i, k) == SamplesFor(i, k)[cursor[i][k] + 1]

(* A read that gives a sample, and one that gives None. *)
Read(i, k) == /\ ~Exhausted(i, k)
              /\ cache' = [cache EXCEPT ![i][k] = SamplesFor(i, k)]
              /\ cursor' = [cursor EXCEPT ![i][k] = @ + 1]
              /\ UNCHANGED <<arrays, reuses, isOpen>>

ReadNone(i, k) == /\ Exhausted(i, k)
                  /\ cache' = [cache EXCEPT ![i][k] = SamplesFor(i, k)]
                  /\ UNCHANGED <<arrays, reuses, isOpen, cursor>>

(* The caller records something else into an array: another first time.    *)
Reuse(i, k) == /\ reuses < MaxReuses /\ arrays[i][k] # << >>
               /\ arrays' = [arrays EXCEPT ![i][k][1] = @ + 1]
               /\ reuses' = reuses + 1
               /\ UNCHANGED <<isOpen, cursor, cache>>
=============================================================================

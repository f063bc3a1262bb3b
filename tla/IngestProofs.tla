---------------------------- MODULE IngestProofs ----------------------------
(***************************************************************************)
(* Ingestion, for any fleets of adapters with any streams, any number of   *)
(* calls, and arrays that are used again any number of times.              *)
(*                                                                         *)
(* The inductive invariant has six parts, most of which use the ones       *)
(* before: what adapters hold (Shape), which of them are open (Control),   *)
(* what the call has read (Gathered) and an earlier call had (Past), which *)
(* device is the reference (Choosing), and what was made of the session    *)
(* (Managing).                                                             *)
(***************************************************************************)
EXTENDS Ingest, FiniteSetTheorems, TLAPS

-----------------------------------------------------------------------------
(* The adapters.  A row of a stream's cache is numbered, refers to itself, *)
(* and has the time it had in the array at some moment.                    *)

Piece == {Hash, Text} \cup {Row(k, n) : k \in Nat, n \in Nat}
Recorded == [t : Nat, seq : Nat, ref : Seq(Piece)]

Given(i, k) == fleet[i].streams[k].stamps

Own(b, i, k, n) == /\ b.seq = n - 1
                   /\ b.t \in Given(i, k)[n]..arrays[i][k][n]
                   /\ b.ref = PayloadRef(fleet[i].base, k, n - 1)

Rows(i, k) ==
    /\ Len(arrays[i][k]) = Len(Given(i, k))
    /\ \A n \in DOMAIN Given(i, k) : Given(i, k)[n] <= arrays[i][k][n]
    /\ cache[i][k] # << >> => /\ Len(cache[i][k]) = Len(Given(i, k))
                              /\ \A n \in DOMAIN Given(i, k) : Own(cache[i][k][n], i, k, n)
    /\ k \in DOMAIN cursor[i] => cursor[i][k] <= Len(Given(i, k))

Shape ==
    /\ fleet \in Fleets /\ \A i \in DOMAIN fleet : Acceptable(fleet[i].base)
    /\ isOpen \in [DOMAIN fleet -> BOOLEAN]
    /\ arrays \in [DOMAIN fleet -> Seq(Seq(Nat))]
    /\ cursor \in [DOMAIN fleet -> Seq(Nat)]
    /\ cache \in [DOMAIN fleet -> Seq(Seq(Recorded))]
    /\ reuses \in Nat
    /\ \A i \in DOMAIN fleet :
         /\ Len(arrays[i]) = Len(fleet[i].streams) /\ Len(cache[i]) = Len(fleet[i].streams)
         /\ Len(cursor[i]) = IF isOpen[i] THEN Len(fleet[i].streams) ELSE 0
         /\ \A k \in DOMAIN fleet[i].streams : Rows(i, k)

(* Which adapters are open, and where the call is. *)
Control ==
    /\ pc \in {"idle", "open", "select", "read", "finalize", "close"}
    /\ opened \in 0..Len(fleet) /\ at \in 1..(Len(fleet) + 1) /\ best \in DOMAIN fleet
    /\ calls \in Nat
    /\ call \in [origin : {"real", "synthetic"}, reference : Device \cup {NoDevice},
                 limit : Nat \cup {Unlimited}]
    /\ outcome \in {"none", "raised", "returned"} /\ unclosed \in BOOLEAN
    /\ outcome = "returned" => pc \in {"close", "idle"}
    /\ unclosed => pc = "idle"
    /\ pc = "open" => at = 1 /\ \A i \in 1..opened : isOpen[i]
    /\ pc \in {"select", "read", "finalize"} => /\ opened = Len(fleet) /\ UniqueIds
                                                /\ \A i \in DOMAIN fleet : isOpen[i]
    /\ pc = "close" => at <= opened + 1 /\ \A i \in 1..at - 1 : ~isOpen[i]
    /\ pc = "idle" => \A i \in 1..opened : isOpen[i] => unclosed /\ i >= at

(* What the call has read: batches that are whole prefixes of the cached   *)
(* samples, and a part of the stream that comes next.                      *)
Wanted(i, k) == IF call.limit = Unlimited THEN Len(Given(i, k))
                ELSE Min({call.limit, Len(Given(i, k))})

Cached(b, i, k) == \A n \in DOMAIN b : cache[i][k] # << >> /\ b[n] = cache[i][k][n]

Complete(i) == (pc = "read" /\ i < at) \/ pc = "finalize" \/ outcome = "returned"

Fresh(i) == batches[i] = << >> /\ \A k \in DOMAIN cursor[i] : cursor[i][k] = 0

Prefixes ==
    /\ drawn \in Seq(Recorded)
    /\ batches \in [DOMAIN fleet -> Seq(Seq(Recorded))]
    /\ call.limit # Unlimited => Len(drawn) <= call.limit
    /\ \A i \in DOMAIN fleet :
         /\ Len(batches[i]) <= Len(fleet[i].streams)
         /\ \A k \in DOMAIN batches[i] : /\ Len(batches[i][k]) = Wanted(i, k)
                                         /\ Cached(batches[i][k], i, k)

UnderWay(i) ==
    IF Len(batches[i]) = Len(fleet[i].streams) THEN drawn = << >>
    ELSE /\ Cached(drawn, i, Len(batches[i]) + 1)
         /\ cursor[i][Len(batches[i]) + 1] = Len(drawn)
         /\ \A k \in DOMAIN fleet[i].streams : k > Len(batches[i]) + 1 => cursor[i][k] = 0

Gathered ==
    /\ Prefixes
    /\ \A i \in DOMAIN fleet : Complete(i) => Len(batches[i]) = Len(fleet[i].streams)
    /\ pc \in {"open", "select"} => drawn = << >> /\ \A i \in DOMAIN fleet : batches[i] = << >>
    /\ pc \in {"open", "select"} => \A i \in 1..opened : Fresh(i)
    /\ pc = "read" => \A i \in at + 1..Len(fleet) : Fresh(i)
    /\ pc = "read" => IF at > Len(fleet) THEN drawn = << >> ELSE UnderWay(at)

Past ==
    earlier # << >> =>
        /\ DOMAIN earlier = DOMAIN fleet
        /\ \A i \in DOMAIN fleet :
             /\ DOMAIN earlier[i] = DOMAIN fleet[i].streams
             /\ \A k \in DOMAIN fleet[i].streams : Cached(earlier[i][k], i, k)

(* The reference: no device considered so far comes before the best.       *)
After(j, i) == /\ ~Exceeds(Key(fleet[j]), Key(fleet[i]))
               /\ Key(fleet[j]) = Key(fleet[i]) => fleet[i].id < fleet[j].id

Chosen == pc \in {"read", "finalize"} \/ outcome = "returned"

Choosing ==
    /\ (pc = "select" /\ call.reference = NoDevice) =>
         \A j \in 1..at - 1 : j # best => After(j, best)
    /\ Chosen => /\ UniqueIds /\ Known
                 /\ call.reference = NoDevice =>
                      \A j \in DOMAIN fleet \ {best} : After(j, best)

(* The session: the devices read so far, in their roles.                   *)
Entry(j) == [id |-> fleet[j].id,
             role |-> IF fleet[j].id = Reference THEN "reference" ELSE "follower"]

Managing ==
    /\ session \in Manager!Sessions
    /\ state = (IF pc \in {"read", "finalize"} THEN "created"
                ELSE IF outcome = "returned" THEN "devices_registered" ELSE NoManager)
    /\ ~Chosen => session = NewSession("real")
    /\ Chosen => /\ session.origin = call.origin /\ session.calibrations = 0
                 /\ Len(session.devices) = IF pc = "read" THEN at - 1 ELSE Len(fleet)
                 /\ \A j \in 1..Len(session.devices) : session.devices[j] = Entry(j)
                 /\ session.truth <=> (pc # "read" /\ \E i \in DOMAIN fleet : fleet[i].truth)
    /\ pc \in {"open", "select"} => truths = {}
    /\ pc = "read" => (truths # {} <=> \E i \in 1..at - 1 : fleet[i].truth)
    /\ outcome = "returned" => TruthAllowed

IInv == Shape /\ Control /\ Gathered /\ Past /\ Choosing /\ Managing

-----------------------------------------------------------------------------
(* Types that follow from the assumptions. *)

LEMMA FleetType ==
    ASSUME NEW f \in Fleets
    PROVE  /\ f \in Seq(Adapter) /\ Len(f) \in Nat \ {0} /\ DOMAIN f = 1..Len(f)
           /\ \A i \in DOMAIN f :
                /\ f[i] \in Adapter /\ f[i].streams \in Seq(Stream) /\ f[i].id \in Device
                /\ f[i].base \in Seq({Hash, Text})
                /\ Len(f[i].streams) \in Nat
                /\ DOMAIN f[i].streams = 1..Len(f[i].streams)
                /\ \A k \in DOMAIN f[i].streams :
                     /\ f[i].streams[k].stamps \in Seq(Nat)
                     /\ Len(f[i].streams[k].stamps) \in Nat
                     /\ DOMAIN f[i].streams[k].stamps = 1..Len(f[i].streams[k].stamps)
<1>1. f \in Seq(Adapter) /\ f # << >>
  BY FleetAssumption
<1>2. Len(f) \in Nat \ {0} /\ DOMAIN f = 1..Len(f)
  BY <1>1
<1>3. ASSUME NEW i \in DOMAIN f
      PROVE  /\ f[i] \in Adapter /\ f[i].streams \in Seq(Stream) /\ f[i].id \in Device
             /\ f[i].base \in Seq({Hash, Text})
  <2>1. f[i] \in Adapter
    BY <1>1
  <2> QED
    BY <2>1 DEF Adapter
<1>4. ASSUME NEW i \in DOMAIN f, NEW k \in DOMAIN f[i].streams
      PROVE  f[i].streams[k].stamps \in Seq(Nat)
  <2>1. f[i].streams[k] \in Stream
    BY <1>3
  <2> QED
    BY <2>1 DEF Stream
<1> QED
  BY <1>1, <1>2, <1>3, <1>4

LEMMA Single ==
    ASSUME NEW S, NEW s \in Seq(S), NEW j \in 1..Len(s)
    PROVE  SubSeq(s, j, j) = <<s[j]>>
<1> DEFINE w == SubSeq(s, j, j)
<1>1. w \in Seq(S) /\ Len(w) = 1 /\ w[1] = s[j]
  OBVIOUS
<1> HIDE DEF w
<1>2. w = <<w[1]>>
  BY <1>1
<1> QED
  BY <1>1, <1>2 DEF w

(* What is read back from a row's reference is its recording and the row.  *)
LEMMA RowReference ==
    ASSUME NEW base \in Seq({Hash, Text}), Acceptable(base), NEW k \in Nat, NEW n \in Nat
    PROVE  /\ PayloadRef(base, k, n) \in Seq(Piece)
           /\ Parse(PayloadRef(base, k, n)) = [location |-> base, fragment |-> <<Row(k, n)>>]
<1> DEFINE u == base \o <<Hash>> \o <<Row(k, n)>>
           m == Len(base) + 1
<1>1. m \in Nat \ {0} /\ Row(k, n) \in Piece /\ Hash \in Piece /\ base \in Seq(Piece)
  BY DEF Piece
<1>2. u \in Seq(Piece) /\ Len(u) = m + 1 /\ u[m] = Hash /\ u[m + 1] = Row(k, n)
  BY <1>1
<1>3. \A i \in 1..m - 1 : u[i] = base[i]
  BY <1>1
<1>4. Row(k, n) # Hash
  BY DEF Row, Hash
<1>5. \A i \in 1..m - 1 : u[i] # Hash
  BY <1>1, <1>3 DEF Acceptable
<1>6. {i \in DOMAIN u : u[i] = Hash} = {m}
  BY <1>1, <1>2, <1>4, <1>5
<1>7. Min({m}) = m
  BY <1>1 DEF Min
<1>8. SubSeq(u, 1, m - 1) = base
  BY <1>1, <1>2, <1>3
<1>9. SubSeq(u, m + 1, Len(u)) = <<Row(k, n)>>
  <2> HIDE DEF u
  <2>1. m + 1 \in 1..Len(u)
    BY <1>1, <1>2
  <2>2. SubSeq(u, m + 1, m + 1) = <<u[m + 1]>>
    BY <1>2, <2>1, Single
  <2> QED
    BY <1>2, <2>2
<1>10. Parse(u) = [location |-> base, fragment |-> <<Row(k, n)>>]
  BY <1>6, <1>7, <1>8, <1>9 DEF Parse
<1>11. <<Row(k, n)>> # << >>
  OBVIOUS
<1>12. Joined(base, <<Row(k, n)>>) = u
  BY <1>11 DEF Joined
<1>13. PayloadRef(base, k, n) = u
  <2> HIDE DEF u
  <2>1. Build(base, <<Row(k, n)>>) = Joined(Parse(u).location, Parse(u).fragment)
    BY <1>12 DEF Build
  <2> QED
    BY <1>10, <1>12, <2>1 DEF PayloadRef
<1> QED
  BY <1>2, <1>10, <1>13

-----------------------------------------------------------------------------
(* What each operation of an adapter does to it. *)

(* A stream's samples are its rows, whether they were made before or are   *)
(* made now.                                                               *)
LEMMA SamplesOfStream ==
    ASSUME Shape, NEW i \in DOMAIN fleet, NEW k \in DOMAIN fleet[i].streams
    PROVE  /\ SamplesFor(i, k) \in Seq(Recorded)
           /\ Len(SamplesFor(i, k)) = Len(Given(i, k)) /\ Len(Given(i, k)) \in Nat
           /\ \A n \in DOMAIN Given(i, k) : Own(SamplesFor(i, k)[n], i, k, n)
<1>1. /\ k \in Nat /\ fleet[i].base \in Seq({Hash, Text}) /\ Given(i, k) \in Seq(Nat)
      /\ DOMAIN Given(i, k) = 1..Len(Given(i, k)) /\ Len(Given(i, k)) \in Nat
  BY FleetType DEF Shape, Given
<1>2. Acceptable(fleet[i].base) /\ Rows(i, k)
  BY DEF Shape
<1>3. /\ arrays[i][k] \in Seq(Nat) /\ DOMAIN arrays[i][k] = DOMAIN Given(i, k)
      /\ cache[i][k] \in Seq(Recorded)
  <2>1. k \in 1..Len(fleet[i].streams)
    BY FleetType DEF Shape
  <2>2. arrays[i] \in Seq(Seq(Nat)) /\ cache[i] \in Seq(Seq(Recorded))
    BY DEF Shape
  <2>3. k \in 1..Len(arrays[i]) /\ k \in 1..Len(cache[i])
    BY <2>1 DEF Shape
  <2>4. arrays[i][k] \in Seq(Nat) /\ cache[i][k] \in Seq(Recorded)
    BY <2>2, <2>3
  <2> QED
    BY <1>1, <1>2, <2>4 DEF Rows
<1>4. CASE cache[i][k] # << >>
  BY <1>1, <1>2, <1>3, <1>4 DEF SamplesFor, Rows
<1>5. CASE cache[i][k] = << >>
  <2> DEFINE s == Samples(i, k)
  <2>1. DOMAIN s = 1..Len(Given(i, k))
    BY <1>1, <1>3 DEF Samples
  <2>2. ASSUME NEW n \in DOMAIN s
        PROVE  s[n] \in Recorded /\ Own(s[n], i, k, n)
    <3>1. n \in 1..Len(Given(i, k)) /\ n - 1 \in Nat
      BY <2>1, <1>1
    <3>2. s[n] = [t |-> arrays[i][k][n], seq |-> n - 1,
                  ref |-> PayloadRef(fleet[i].base, k, n - 1)]
      BY <3>1, <1>1, <1>3 DEF Samples
    <3>3. arrays[i][k][n] \in Nat /\ Given(i, k)[n] \in Nat /\ Given(i, k)[n] <= arrays[i][k][n]
      <4>1. arrays[i][k][n] \in Nat
        BY <2>1, <1>3, <1>1
      <4> QED
        BY <4>1, <3>1, <1>1, <1>2 DEF Rows
    <3>4. PayloadRef(fleet[i].base, k, n - 1) \in Seq(Piece)
      BY <3>1, <1>1, <1>2, RowReference
    <3> QED
      BY <3>1, <3>2, <3>3, <3>4 DEF Recorded, Own
  <2>3. s = [n \in 1..Len(Given(i, k)) |-> s[n]]
    BY <1>1, <1>3 DEF Samples
  <2> HIDE DEF s
  <2>4. s \in Seq(Recorded) /\ Len(s) = Len(Given(i, k))
    BY <2>1, <2>2, <2>3, <1>1
  <2>5. SamplesFor(i, k) = s
    BY <1>5 DEF SamplesFor, s
  <2> QED
    BY <1>1, <2>1, <2>2, <2>4, <2>5
<1> QED
  BY <1>4, <1>5

(* Opening an adapter rewinds its streams and touches no other adapter.    *)
LEMMA OpenShape ==
    ASSUME Shape, NEW i \in DOMAIN fleet, Open(i), UNCHANGED fleet
    PROVE  /\ Shape' /\ isOpen'[i] /\ cache' = cache
           /\ \A k \in DOMAIN cursor'[i] : cursor'[i][k] = 0
           /\ \A j \in DOMAIN fleet \ {i} : isOpen'[j] = isOpen[j] /\ cursor'[j] = cursor[j]
<1>1. /\ DOMAIN fleet[i].streams = 1..Len(fleet[i].streams)
      /\ Len(fleet[i].streams) \in Nat
  BY FleetType DEF Shape
<1>2. /\ cursor' = [cursor EXCEPT ![i] = Rewound(i)] /\ isOpen' = [isOpen EXCEPT ![i] = TRUE]
      /\ arrays' = arrays /\ cache' = cache /\ reuses' = reuses /\ fleet' = fleet
  BY DEF Open
<1>3. Rewound(i) \in Seq(Nat) /\ Len(Rewound(i)) = Len(fleet[i].streams)
  BY <1>1 DEF Rewound
<1>4. \A k \in DOMAIN Rewound(i) : Rewound(i)[k] = 0
  BY DEF Rewound
<1> HIDE DEF Rewound
<1>5. /\ cursor' \in [DOMAIN fleet -> Seq(Nat)] /\ cursor'[i] = Rewound(i)
      /\ isOpen' \in [DOMAIN fleet -> BOOLEAN] /\ isOpen'[i]
      /\ \A j \in DOMAIN fleet \ {i} : isOpen'[j] = isOpen[j] /\ cursor'[j] = cursor[j]
  BY <1>2, <1>3 DEF Shape
<1>6. ASSUME NEW j \in DOMAIN fleet, NEW k \in DOMAIN fleet[j].streams
      PROVE  Rows(j, k)'
  <2>1. Rows(j, k) /\ Len(Given(j, k)) \in Nat
    BY FleetType DEF Shape, Given
  <2>2. k \in DOMAIN cursor'[j] => cursor'[j][k] <= Len(Given(j, k))
    BY <1>4, <1>5, <2>1 DEF Rows
  <2> QED
    BY <1>2, <2>1, <2>2 DEF Rows, Given, Own
<1>7. \A j \in DOMAIN fleet : Len(cursor'[j]) = IF isOpen'[j] THEN Len(fleet[j].streams) ELSE 0
  BY <1>3, <1>5 DEF Shape
<1>8. Shape'
  BY <1>2, <1>5, <1>6, <1>7 DEF Shape
<1> QED
  BY <1>2, <1>4, <1>5, <1>8

(* Closing an adapter closes that adapter only.                            *)
LEMMA CloseShape ==
    ASSUME Shape, NEW i \in DOMAIN fleet, Close(i), UNCHANGED fleet
    PROVE  /\ Shape' /\ ~isOpen'[i] /\ cache' = cache
           /\ \A j \in DOMAIN fleet \ {i} : isOpen'[j] = isOpen[j]
<1>1. /\ cursor' = [cursor EXCEPT ![i] = << >>] /\ isOpen' = [isOpen EXCEPT ![i] = FALSE]
      /\ arrays' = arrays /\ cache' = cache /\ reuses' = reuses /\ fleet' = fleet
  BY DEF Close
<1>2. /\ cursor' \in [DOMAIN fleet -> Seq(Nat)] /\ cursor'[i] = << >>
      /\ isOpen' \in [DOMAIN fleet -> BOOLEAN] /\ ~isOpen'[i]
      /\ \A j \in DOMAIN fleet \ {i} : isOpen'[j] = isOpen[j] /\ cursor'[j] = cursor[j]
  BY <1>1 DEF Shape
<1>e. DOMAIN cursor'[i] = {} /\ Len(cursor'[i]) = 0
  BY <1>2
<1>3. ASSUME NEW j \in DOMAIN fleet, NEW k \in DOMAIN fleet[j].streams
      PROVE  Rows(j, k)'
  <2>1. Rows(j, k)
    BY DEF Shape
  <2>2. k \in DOMAIN cursor'[j] => cursor'[j][k] <= Len(Given(j, k))
    BY <1>2, <1>e, <2>1 DEF Rows
  <2> QED
    BY <1>1, <2>1, <2>2 DEF Rows, Given, Own
<1>4. \A j \in DOMAIN fleet : Len(cursor'[j]) = IF isOpen'[j] THEN Len(fleet[j].streams) ELSE 0
  BY <1>2, <1>e DEF Shape
<1>5. Shape'
  BY <1>1, <1>2, <1>3, <1>4 DEF Shape
<1> QED
  BY <1>1, <1>2, <1>5

(* Making the samples of a stream: the ones that were made stay. *)
CacheKept == \A j \in DOMAIN fleet : \A k \in DOMAIN fleet[j].streams :
                cache[j][k] # << >> => cache'[j][k] = cache[j][k]

(* A stream that is read gets its samples, if it had none.                 *)
LEMMA Caching ==
    ASSUME Shape, NEW i \in DOMAIN fleet, NEW k \in DOMAIN fleet[i].streams,
           cache' = [cache EXCEPT ![i][k] = SamplesFor(i, k)], UNCHANGED <<fleet, arrays>>
    PROVE  /\ cache' \in [DOMAIN fleet -> Seq(Seq(Recorded))]
           /\ \A j \in DOMAIN fleet : Len(cache'[j]) = Len(fleet[j].streams)
           /\ \A j \in DOMAIN fleet : \A l \in DOMAIN fleet[j].streams :
                cache'[j][l] # << >> =>
                   /\ Len(cache'[j][l]) = Len(Given(j, l))
                   /\ \A n \in DOMAIN Given(j, l) : Own(cache[j][l][n], j, l, n)'
           /\ cache'[i][k] = SamplesFor(i, k)
           /\ CacheKept
<1>1. k \in 1..Len(cache[i]) /\ cache[i] \in Seq(Seq(Recorded)) /\ SamplesFor(i, k) \in Seq(Recorded)
  BY FleetType, SamplesOfStream DEF Shape
<1> DEFINE c == [cache[i] EXCEPT ![k] = SamplesFor(i, k)]
<1>2. c \in Seq(Seq(Recorded)) /\ Len(c) = Len(cache[i])
  BY <1>1
<1>3. c[k] = SamplesFor(i, k) /\ \A l \in DOMAIN fleet[i].streams \ {k} : c[l] = cache[i][l]
  BY <1>1, FleetType DEF Shape
<1>4. cache' = [cache EXCEPT ![i] = c]
  OBVIOUS
<1> HIDE DEF c
<1>5. cache' \in [DOMAIN fleet -> Seq(Seq(Recorded))] /\ cache'[i] = c
      /\ \A j \in DOMAIN fleet \ {i} : cache'[j] = cache[j]
  BY <1>2, <1>4 DEF Shape
<1>6. \A j \in DOMAIN fleet : Len(cache'[j]) = Len(fleet[j].streams)
  BY <1>2, <1>5 DEF Shape
<1>7. CacheKept
  <2>1. cache[i][k] # << >> => SamplesFor(i, k) = cache[i][k]
    BY DEF SamplesFor
  <2> QED
    BY <1>3, <1>5, <2>1 DEF CacheKept
<1>8. ASSUME NEW j \in DOMAIN fleet, NEW l \in DOMAIN fleet[j].streams, cache'[j][l] # << >>
      PROVE  /\ Len(cache'[j][l]) = Len(Given(j, l))
             /\ \A n \in DOMAIN Given(j, l) : Own(cache[j][l][n], j, l, n)'
  <2>1. Rows(j, l)
    BY DEF Shape
  <2>2. cache'[j][l] = SamplesFor(j, l)
    BY <1>3, <1>5, <1>8 DEF SamplesFor
  <2>3. /\ Len(SamplesFor(j, l)) = Len(Given(j, l))
        /\ \A n \in DOMAIN Given(j, l) : Own(SamplesFor(j, l)[n], j, l, n)
    BY SamplesOfStream
  <2>4. arrays' = arrays /\ fleet' = fleet
    OBVIOUS
  <2>5. \A n \in DOMAIN Given(j, l) :
          Own(SamplesFor(j, l)[n], j, l, n) => Own(cache[j][l][n], j, l, n)'
    BY <2>2, <2>4 DEF Own, Given
  <2> QED
    BY <2>2, <2>3, <2>5
<1> QED
  BY <1>3, <1>5, <1>6, <1>7, <1>8

(* A read gives the next cached sample and moves one cursor by one.        *)
LEMMA ReadShape ==
    ASSUME Shape, NEW i \in DOMAIN fleet, NEW k \in DOMAIN fleet[i].streams, isOpen[i],
           Read(i, k), UNCHANGED fleet
    PROVE  /\ Shape' /\ CacheKept /\ UNCHANGED isOpen
           /\ cache'[i][k] # << >> /\ NextSample(i, k) \in Recorded
           /\ cursor[i][k] + 1 \in DOMAIN cache'[i][k]
           /\ NextSample(i, k) = cache'[i][k][cursor[i][k] + 1]
           /\ cursor[i][k] \in Nat /\ cursor'[i][k] = cursor[i][k] + 1
           /\ \A l \in DOMAIN fleet[i].streams \ {k} : cursor'[i][l] = cursor[i][l]
           /\ \A j \in DOMAIN fleet \ {i} : cursor'[j] = cursor[j]
<1>1. /\ cache' = [cache EXCEPT ![i][k] = SamplesFor(i, k)] /\ ~Exhausted(i, k)
      /\ cursor' = [cursor EXCEPT ![i][k] = @ + 1]
      /\ arrays' = arrays /\ isOpen' = isOpen /\ reuses' = reuses /\ fleet' = fleet
  BY DEF Read
<1>2. k \in 1..Len(cursor[i]) /\ cursor[i] \in Seq(Nat) /\ cursor[i][k] \in Nat
  BY FleetType DEF Shape
<1> DEFINE c == [cursor[i] EXCEPT ![k] = @ + 1]
<1>3. c \in Seq(Nat) /\ Len(c) = Len(cursor[i]) /\ c[k] = cursor[i][k] + 1
  BY <1>2
<1>4. \A l \in DOMAIN fleet[i].streams \ {k} : c[l] = cursor[i][l]
  BY <1>2, FleetType DEF Shape
<1>5. cursor' = [cursor EXCEPT ![i] = c]
  BY <1>1
<1> HIDE DEF c
<1>6. cursor' \in [DOMAIN fleet -> Seq(Nat)] /\ cursor'[i] = c
      /\ \A j \in DOMAIN fleet \ {i} : cursor'[j] = cursor[j]
  BY <1>3, <1>5 DEF Shape
<1>7. cursor[i][k] + 1 <= Len(Given(i, k))
  <2>1. Len(SamplesFor(i, k)) = Len(Given(i, k)) /\ Len(Given(i, k)) \in Nat
    BY SamplesOfStream
  <2> QED
    BY <1>1, <1>2, <2>1 DEF Exhausted
<1>8. ASSUME NEW j \in DOMAIN fleet, NEW l \in DOMAIN fleet[j].streams
      PROVE  Rows(j, l)'
  <2>1. Rows(j, l)
    BY DEF Shape
  <2>4. DOMAIN cursor'[j] = DOMAIN cursor[j]
    <3>1. DOMAIN c = 1..Len(cursor[i]) /\ DOMAIN cursor[i] = 1..Len(cursor[i])
      BY <1>2, <1>3
    <3> QED
      BY <1>6, <3>1
  <2>2. l \in DOMAIN cursor'[j] => cursor'[j][l] <= Len(Given(j, l))
    BY <1>3, <1>4, <1>6, <1>7, <2>1, <2>4 DEF Rows
  <2>3. cache'[j][l] # << >> => /\ Len(cache'[j][l]) = Len(Given(j, l))
                                /\ \A n \in DOMAIN Given(j, l) : Own(cache[j][l][n], j, l, n)'
    BY <1>1, Caching
  <2>5. Len(arrays'[j][l]) = Len(Given(j, l)) /\ Given(j, l)' = Given(j, l)
    BY <1>1, <2>1 DEF Rows, Given
  <2> QED
    BY <1>1, <2>1, <2>2, <2>3, <2>5 DEF Rows
<1>9. Shape'
  BY <1>1, <1>3, <1>6, <1>8, Caching DEF Shape
<1>10. cache'[i][k] = SamplesFor(i, k) /\ SamplesFor(i, k) \in Seq(Recorded)
       /\ Len(SamplesFor(i, k)) = Len(Given(i, k)) /\ Len(Given(i, k)) \in Nat
  BY <1>1, Caching, SamplesOfStream
<1>11. cursor[i][k] + 1 \in 1..Len(SamplesFor(i, k))
  BY <1>2, <1>7, <1>10
<1>12. SamplesFor(i, k) # << >>
  BY <1>11
<1>13. CacheKept
  BY <1>1, Caching
<1>14. NextSample(i, k) = SamplesFor(i, k)[cursor[i][k] + 1] /\ NextSample(i, k) \in Recorded
  BY <1>10, <1>11 DEF NextSample
<1> QED
  BY <1>1, <1>2, <1>3, <1>4, <1>6, <1>9, <1>10, <1>11, <1>12, <1>13, <1>14

(* A read gives nothing only at the end of the stream.                     *)
LEMMA ReadNoneShape ==
    ASSUME Shape, NEW i \in DOMAIN fleet, NEW k \in DOMAIN fleet[i].streams, isOpen[i],
           ReadNone(i, k), UNCHANGED fleet
    PROVE  /\ Shape' /\ CacheKept /\ UNCHANGED <<isOpen, cursor>>
           /\ cursor[i][k] = Len(Given(i, k))
<1>1. /\ cache' = [cache EXCEPT ![i][k] = SamplesFor(i, k)] /\ Exhausted(i, k)
      /\ arrays' = arrays /\ isOpen' = isOpen /\ reuses' = reuses /\ fleet' = fleet
      /\ cursor' = cursor
  BY DEF ReadNone
<1>2. k \in DOMAIN cursor[i] /\ cursor[i][k] \in Nat
  <2>1. k \in 1..Len(cursor[i]) /\ cursor[i] \in Seq(Nat)
    BY FleetType DEF Shape
  <2> QED
    BY <2>1
<1>3. cursor[i][k] = Len(Given(i, k))
  <2>1. Len(SamplesFor(i, k)) = Len(Given(i, k)) /\ Len(Given(i, k)) \in Nat
    BY SamplesOfStream
  <2>2. cursor[i][k] <= Len(Given(i, k))
    BY <1>2 DEF Shape, Rows
  <2> QED
    BY <1>1, <1>2, <2>1, <2>2 DEF Exhausted
<1>4. ASSUME NEW j \in DOMAIN fleet, NEW l \in DOMAIN fleet[j].streams
      PROVE  Rows(j, l)'
  <2>1. Rows(j, l)
    BY DEF Shape
  <2>2. cache'[j][l] # << >> => /\ Len(cache'[j][l]) = Len(Given(j, l))
                                /\ \A n \in DOMAIN Given(j, l) : Own(cache[j][l][n], j, l, n)'
    BY <1>1, Caching
  <2>3. Given(j, l)' = Given(j, l)
    BY <1>1 DEF Given
  <2> QED
    BY <1>1, <2>1, <2>2, <2>3 DEF Rows
<1>5. Shape'
  BY <1>1, <1>4, Caching DEF Shape
<1>6. CacheKept
  BY <1>1, Caching
<1> QED
  BY <1>1, <1>3, <1>5, <1>6

(* An array used again keeps its length, and its times do not decrease.    *)
LEMMA ReuseShape ==
    ASSUME Shape, NEW i \in DOMAIN fleet, NEW k \in DOMAIN fleet[i].streams,
           Reuse(i, k), UNCHANGED fleet
    PROVE  Shape' /\ UNCHANGED <<isOpen, cursor, cache>>
<1>1. /\ arrays' = [arrays EXCEPT ![i][k][1] = @ + 1] /\ arrays[i][k] # << >>
      /\ isOpen' = isOpen /\ cursor' = cursor /\ cache' = cache /\ fleet' = fleet
      /\ reuses' = reuses + 1
  BY DEF Reuse
<1>2. arrays[i] \in Seq(Seq(Nat)) /\ k \in 1..Len(arrays[i])
  BY FleetType DEF Shape
<1>3. arrays[i][k] \in Seq(Nat) /\ 1 \in 1..Len(arrays[i][k])
  <2>1. arrays[i][k] \in Seq(Nat)
    BY <1>2
  <2> QED
    BY <1>1, <2>1
<1> DEFINE b == [arrays[i][k] EXCEPT ![1] = @ + 1]
           a == [arrays[i] EXCEPT ![k] = b]
<1>4. b \in Seq(Nat) /\ Len(b) = Len(arrays[i][k])
      /\ \A n \in 1..Len(b) : b[n] \in Nat /\ arrays[i][k][n] \in Nat /\ arrays[i][k][n] <= b[n]
  BY <1>3
<1>5. a = [arrays[i] EXCEPT ![k] = b]
  OBVIOUS
<1>6. arrays' = [arrays EXCEPT ![i] = a]
  BY <1>1
<1> HIDE DEF b, a
<1>7. a \in Seq(Seq(Nat)) /\ Len(a) = Len(arrays[i]) /\ a[k] = b
      /\ \A l \in DOMAIN fleet[i].streams \ {k} : a[l] = arrays[i][l]
  BY <1>2, <1>4, <1>5, FleetType DEF Shape
<1>8. arrays' \in [DOMAIN fleet -> Seq(Seq(Nat))] /\ arrays'[i] = a
      /\ \A j \in DOMAIN fleet \ {i} : arrays'[j] = arrays[j]
  BY <1>6, <1>7 DEF Shape
<1>9. ASSUME NEW j \in DOMAIN fleet, NEW l \in DOMAIN fleet[j].streams
      PROVE  Rows(j, l)'
  <2>1. Rows(j, l) /\ Len(Given(j, l)) \in Nat /\ Given(j, l) \in Seq(Nat)
        /\ DOMAIN Given(j, l) = 1..Len(Given(j, l))
    BY FleetType DEF Shape, Given
  <2>2. /\ arrays[j][l] \in Seq(Nat) /\ Len(arrays'[j][l]) = Len(arrays[j][l])
        /\ \A n \in 1..Len(arrays[j][l]) :
             arrays'[j][l][n] \in Nat /\ arrays[j][l][n] \in Nat
             /\ arrays[j][l][n] <= arrays'[j][l][n]
    <3>1. CASE j = i /\ l = k
      BY <1>3, <1>4, <1>7, <1>8, <3>1
    <3>2. CASE ~(j = i /\ l = k)
      <4>1. arrays'[j][l] = arrays[j][l]
        BY <1>7, <1>8, <3>2
      <4>2. arrays[j] \in Seq(Seq(Nat)) /\ l \in 1..Len(arrays[j])
        BY FleetType DEF Shape
      <4>3. arrays[j][l] \in Seq(Nat)
        BY <4>2
      <4> QED
        BY <4>1, <4>3
    <3> QED
      BY <3>1, <3>2
  <2>3. Len(arrays[j][l]) = Len(Given(j, l)) /\ Given(j, l)' = Given(j, l)
    BY <1>1, <2>1 DEF Rows, Given
  <2>4. \A n \in DOMAIN Given(j, l) : Given(j, l)[n] <= arrays'[j][l][n]
    <3> SUFFICES ASSUME NEW n \in DOMAIN Given(j, l) PROVE Given(j, l)[n] <= arrays'[j][l][n]
      OBVIOUS
    <3>1. Given(j, l)[n] <= arrays[j][l][n] /\ Given(j, l)[n] \in Nat
      BY <2>1 DEF Rows
    <3> QED
      BY <2>1, <2>2, <2>3, <3>1
  <2>5. \A n \in DOMAIN Given(j, l) : Own(cache[j][l][n], j, l, n) => Own(cache[j][l][n], j, l, n)'
    <3> SUFFICES ASSUME NEW n \in DOMAIN Given(j, l), Own(cache[j][l][n], j, l, n)
                 PROVE  Own(cache[j][l][n], j, l, n)'
      OBVIOUS
    <3>1. Given(j, l)[n] \in Nat /\ arrays[j][l][n] \in Nat /\ arrays'[j][l][n] \in Nat
          /\ arrays[j][l][n] <= arrays'[j][l][n]
      BY <2>1, <2>2, <2>3
    <3> QED
      BY <1>1, <2>3, <3>1 DEF Own
  <2> QED
    BY <1>1, <2>1, <2>2, <2>3, <2>4, <2>5 DEF Rows
<1>10. reuses' \in Nat /\ \A j \in DOMAIN fleet : Len(arrays'[j]) = Len(arrays[j])
  BY <1>1, <1>7, <1>8 DEF Shape
<1>11. Shape'
  BY <1>1, <1>8, <1>9, <1>10 DEF Shape
<1> QED
  BY <1>1, <1>11

LEMMA SameShape ==
    ASSUME Shape, UNCHANGED <<fleet, adapters>>
    PROVE  Shape' /\ CacheKept
<1>1. /\ fleet' = fleet /\ arrays' = arrays /\ reuses' = reuses /\ isOpen' = isOpen
      /\ cursor' = cursor /\ cache' = cache
  BY DEF adapters
<1> QED
  BY <1>1 DEF Shape, Rows, Given, Own, CacheKept

-----------------------------------------------------------------------------
(* Each part of the invariant is kept by every step. *)

LEMMA Started == Init => Shape /\ Control
<1> SUFFICES ASSUME Init PROVE Shape /\ Control
  OBVIOUS
<1>1. /\ fleet \in Fleets /\ \A i \in DOMAIN fleet : Acceptable(fleet[i].base)
      /\ arrays = [i \in DOMAIN fleet |->
                     [k \in DOMAIN fleet[i].streams |-> fleet[i].streams[k].stamps]]
      /\ reuses = 0 /\ isOpen = [i \in DOMAIN fleet |-> FALSE]
      /\ cursor = [i \in DOMAIN fleet |-> << >>]
      /\ cache = [i \in DOMAIN fleet |-> [k \in DOMAIN fleet[i].streams |-> << >>]]
  BY DEF Init, AdaptersInit
<1>2. ASSUME NEW i \in DOMAIN fleet
      PROVE  /\ arrays[i] \in Seq(Seq(Nat)) /\ Len(arrays[i]) = Len(fleet[i].streams)
             /\ cache[i] \in Seq(Seq(Recorded)) /\ Len(cache[i]) = Len(fleet[i].streams)
             /\ cursor[i] = << >> /\ ~isOpen[i]
             /\ \A k \in DOMAIN fleet[i].streams : Rows(i, k)
  <2>1. /\ DOMAIN fleet[i].streams = 1..Len(fleet[i].streams) /\ Len(fleet[i].streams) \in Nat
        /\ \A k \in DOMAIN fleet[i].streams :
             /\ fleet[i].streams[k].stamps \in Seq(Nat)
             /\ DOMAIN fleet[i].streams[k].stamps = 1..Len(fleet[i].streams[k].stamps)
    BY <1>1, FleetType
  <2>2. /\ arrays[i] = [k \in 1..Len(fleet[i].streams) |-> fleet[i].streams[k].stamps]
        /\ cache[i] = [k \in 1..Len(fleet[i].streams) |-> << >>]
    BY <1>1, <2>1
  <2>3. arrays[i] \in Seq(Seq(Nat)) /\ Len(arrays[i]) = Len(fleet[i].streams)
    BY <2>1, <2>2
  <2>4. cache[i] \in Seq(Seq(Recorded)) /\ Len(cache[i]) = Len(fleet[i].streams)
    <3>1. << >> \in Seq(Recorded)
      OBVIOUS
    <3> QED
      BY <2>1, <2>2, <3>1
  <2>5. cursor[i] = << >> /\ ~isOpen[i] /\ DOMAIN cursor[i] = {}
    BY <1>1
  <2>6. ASSUME NEW k \in DOMAIN fleet[i].streams PROVE Rows(i, k)
    <3>1. arrays[i][k] = Given(i, k) /\ cache[i][k] = << >>
      BY <2>1, <2>2 DEF Given
    <3>2. \A n \in DOMAIN Given(i, k) : Given(i, k)[n] \in Nat
      BY <2>1 DEF Given
    <3> QED
      BY <2>5, <3>1, <3>2 DEF Rows
  <2> QED
    BY <2>3, <2>4, <2>5, <2>6
<1>3. Shape
  <2>1. arrays \in [DOMAIN fleet -> Seq(Seq(Nat))] /\ cache \in [DOMAIN fleet -> Seq(Seq(Recorded))]
        /\ isOpen \in [DOMAIN fleet -> BOOLEAN] /\ cursor \in [DOMAIN fleet -> Seq(Nat)]
    <3>1. << >> \in Seq(Nat)
      OBVIOUS
    <3> QED
      BY <1>1, <1>2, <3>1
  <2>2. \A i \in DOMAIN fleet : Len(cursor[i]) = 0
    BY <1>2
  <2> QED
    BY <1>1, <1>2, <2>1, <2>2 DEF Shape
<1>4. Control
  <2>1. Len(fleet) \in Nat \ {0} /\ DOMAIN fleet = 1..Len(fleet)
    BY <1>1, FleetType
  <2>2. call \in [origin : {"real", "synthetic"}, reference : Device \cup {NoDevice},
                  limit : Nat \cup {Unlimited}]
    BY DEF Init
  <2>3. /\ pc = "idle" /\ opened = 0 /\ at = 1 /\ best = 1 /\ calls = 0 /\ outcome = "none"
        /\ unclosed = FALSE
    BY DEF Init
  <2>4. unclosed \in BOOLEAN /\ ~unclosed
    BY <2>3
  <2> QED
    BY <2>1, <2>2, <2>3, <2>4 DEF Control
<1> QED
  BY <1>3, <1>4

LEMMA ShapeStep ==
    ASSUME Shape, Control, Gathered, [Next]_vars
    PROVE  Shape' /\ CacheKept /\ fleet' = fleet
<1>0. fleet' = fleet /\ Len(fleet) \in Nat \ {0} /\ DOMAIN fleet = 1..Len(fleet)
  <2>1. Len(fleet) \in Nat \ {0} /\ DOMAIN fleet = 1..Len(fleet)
    BY FleetType DEF Shape
  <2>2. fleet' = fleet
    BY DEF Next, Step, vars, Begin, ReuseArray, OpenAdapter, CheckIds, RefuseIds, Consider,
           StartManager, RefuseReference, AdapterRaises, Raise, ReadSample, FinishBatch,
           RegisterDevice, AttachGroundTruth, Finalize, RefuseSession, CloseAdapter, CloseRaises, End
  <2> QED
    BY <2>1, <2>2
<1>1. CASE UNCHANGED adapters
  BY <1>0, <1>1, SameShape
<1>2. CASE ReuseArray
  <2>1. PICK i \in DOMAIN fleet : \E k \in DOMAIN fleet[i].streams : Reuse(i, k)
    BY <1>2 DEF ReuseArray
  <2>2. PICK k \in DOMAIN fleet[i].streams : Reuse(i, k)
    BY <2>1
  <2> QED
    BY <1>0, <2>2, ReuseShape DEF CacheKept
<1>3. CASE OpenAdapter
  <2>1. Open(opened + 1) /\ opened + 1 \in DOMAIN fleet
    BY <1>0, <1>3 DEF OpenAdapter, Control, Open
  <2> QED
    BY <1>0, <2>1, OpenShape DEF CacheKept
<1>4. CASE CloseAdapter
  <2>1. Close(at) /\ at \in DOMAIN fleet
    BY <1>0, <1>4 DEF CloseAdapter, MoreToClose, Control
  <2> QED
    BY <1>0, <2>1, CloseShape DEF CacheKept
<1>5. ASSUME Reading
      PROVE  at \in DOMAIN fleet /\ Present \in DOMAIN fleet[at].streams /\ isOpen[at]
  <2>1. at \in DOMAIN fleet /\ isOpen[at]
    BY <1>0, <1>5 DEF Reading, Control
  <2>2. Len(batches[at]) \in Nat
    BY <2>1 DEF Gathered, Prefixes
  <2> QED
    BY <2>1, <2>2, <1>5, FleetType DEF Reading, Present, Streams, Shape
<1>6. CASE ReadSample
  BY <1>0, <1>5, <1>6, ReadShape DEF ReadSample
<1>7. CASE FinishBatch
  BY <1>0, <1>1, <1>5, <1>7, ReadNoneShape DEF FinishBatch
<1> QED
  BY <1>1, <1>2, <1>3, <1>4, <1>6, <1>7
     DEF Next, Step, vars, Begin, CheckIds, RefuseIds, Consider, StartManager, RefuseReference,
         AdapterRaises, Raise, RegisterDevice, AttachGroundTruth, Finalize, RefuseSession,
         CloseRaises, End

LEMMA ControlStep ==
    ASSUME Shape, Control, Gathered, [Next]_vars
    PROVE  Control'
<1>0. Shape' /\ fleet' = fleet /\ Len(fleet) \in Nat \ {0} /\ DOMAIN fleet = 1..Len(fleet)
  BY ShapeStep, FleetType DEF Shape
<1>u. UniqueIds' = UniqueIds
  BY <1>0 DEF UniqueIds
<1>i. UNCHANGED adapters => isOpen' = isOpen
  BY DEF adapters
<1>l. Len(fleet') \in Nat \ {0} /\ DOMAIN fleet' = 1..Len(fleet')
  BY <1>0
<1>c. calls \in Nat /\ opened \in 0..Len(fleet)
  BY DEF Control
<1> USE <1>0, <1>u, <1>i, <1>l
<1>1. ASSUME NEW o \in {"real", "synthetic"}, NEW r \in Device \cup {NoDevice}, NEW l \in Limits,
             Begin(o, r, l)
      PROVE  Control'
  <2>1. call' \in [origin : {"real", "synthetic"}, reference : Device \cup {NoDevice},
                   limit : Nat \cup {Unlimited}]
    BY <1>1, LimitAssumption DEF Begin
  <2>2. /\ pc' = "open" /\ opened' = 0 /\ at' = 1 /\ best' = 1 /\ calls' = calls + 1
        /\ outcome' = "none" /\ unclosed' = FALSE /\ isOpen' = isOpen
    BY <1>1 DEF Begin
  <2>3. unclosed' \in BOOLEAN /\ ~unclosed'
    BY <2>2
  <2>4. opened' \in 0..Len(fleet') /\ at' \in 1..(Len(fleet') + 1) /\ best' \in DOMAIN fleet'
    BY <2>2
  <2>5. calls' \in Nat
    BY <1>c, <2>2
  <2>6. \A i \in 1..opened' : isOpen'[i]
    BY <2>2
  <2> QED
    BY <2>1, <2>2, <2>3, <2>4, <2>5, <2>6 DEF Control
<1>2. CASE UNCHANGED vars \/ ReuseArray
  <2>1. isOpen' = isOpen
    BY <1>2 DEF vars, ReuseArray, Reuse
  <2>2. UNCHANGED <<pc, opened, at, best, calls, call, outcome, unclosed>>
    BY <1>2 DEF vars, locals, ReuseArray
  <2> QED
    BY <2>1, <2>2 DEF Control
<1>3. CASE OpenAdapter
  <2> DEFINE i == opened + 1
  <2>1. Open(i) /\ i \in DOMAIN fleet /\ opened' = i
    BY <1>3 DEF OpenAdapter, Control, Open
  <2>2. isOpen'[i] /\ \A j \in DOMAIN fleet \ {i} : isOpen'[j] = isOpen[j]
    BY <2>1, OpenShape
  <2> QED
    BY <1>3, <2>1, <2>2 DEF OpenAdapter, Control
<1>4. CASE CheckIds
  BY <1>4 DEF CheckIds, Control, locals
<1>5. CASE Consider
  BY <1>5 DEF Consider, Selecting, Control
<1>6. CASE StartManager
  BY <1>6 DEF StartManager, Control
<1>7. CASE pc \in {"open", "select", "read", "finalize"} /\ Raise
  <2>1. /\ pc' = "close" /\ at' = 1 /\ outcome' = "raised" /\ ~unclosed' /\ unclosed' = unclosed
        /\ isOpen' = isOpen /\ opened' = opened /\ best' = best /\ calls' = calls /\ call' = call
    BY <1>7 DEF Raise, Control
  <2>2. unclosed' \in BOOLEAN
    BY <2>1 DEF Control
  <2>3. at' \in 1..(Len(fleet') + 1) /\ at' <= opened' + 1 /\ \A i \in 1..at' - 1 : ~isOpen'[i]
    <3>1. opened' \in Nat
      BY <1>c, <2>1
    <3> QED
      BY <2>1, <3>1
  <2>4. opened' \in 0..Len(fleet') /\ best' \in DOMAIN fleet' /\ calls' \in Nat
    BY <2>1 DEF Control
  <2>5. call' \in [origin : {"real", "synthetic"}, reference : Device \cup {NoDevice},
                   limit : Nat \cup {Unlimited}]
    BY <2>1 DEF Control
  <2> QED
    BY <2>1, <2>2, <2>3, <2>4, <2>5 DEF Control
<1>8. CASE ReadSample
  BY <1>8 DEF ReadSample, Reading, Read, Control
<1>9. CASE FinishBatch
  <2>1. isOpen' = isOpen
    BY <1>9 DEF FinishBatch, ReadNone
  <2> QED
    BY <1>9, <2>1 DEF FinishBatch, Reading, Control
<1>10. CASE RegisterDevice
  BY <1>10 DEF RegisterDevice, Control
<1>11. CASE AttachGroundTruth
  BY <1>11 DEF AttachGroundTruth, Control, locals
<1>12. CASE Finalize
  BY <1>12 DEF Finalize, Control
<1>13. CASE CloseAdapter
  <2>1. Close(at) /\ at \in DOMAIN fleet
    BY <1>13 DEF CloseAdapter, MoreToClose, Control
  <2>2. ~isOpen'[at] /\ \A j \in DOMAIN fleet \ {at} : isOpen'[j] = isOpen[j]
    BY <2>1, CloseShape
  <2> QED
    BY <1>13, <2>1, <2>2 DEF CloseAdapter, MoreToClose, Control
<1>14. CASE CloseRaises
  BY <1>14 DEF CloseRaises, MoreToClose, Control, locals
<1>15. CASE End
  BY <1>15 DEF End, MoreToClose, Control, locals
<1> QED
  BY <1>1, <1>2, <1>3, <1>4, <1>5, <1>6, <1>7, <1>8, <1>9, <1>10, <1>11, <1>12, <1>13, <1>14, <1>15
     DEF Next, Step, RefuseIds, RefuseReference, AdapterRaises, RefuseSession

LEMMA Smaller ==
    ASSUME NEW a \in Nat, NEW b \in Nat
    PROVE  /\ a <= b => Min({a, b}) = a
           /\ b <= a => Min({a, b}) = b
  BY DEF Min

(* What was read stays what the caches hold. *)
LEMMA StaysCached ==
    ASSUME CacheKept, fleet' = fleet, NEW i \in DOMAIN fleet, NEW k \in DOMAIN fleet[i].streams,
           NEW b, Cached(b, i, k), NEW n \in DOMAIN b
    PROVE  cache'[i][k] # << >> /\ b[n] = cache'[i][k][n]
  BY DEF CacheKept, Cached

(* Batches that were read stay whole prefixes of the caches.               *)
LEMMA StaysGathered ==
    ASSUME Shape, Gathered, CacheKept, fleet' = fleet, call' = call,
           NEW i \in DOMAIN fleet, NEW k \in DOMAIN batches[i]
    PROVE  /\ Len(batches[i][k]) = Wanted(i, k)'
           /\ \A n \in DOMAIN batches[i][k] : /\ cache'[i][k] # << >>
                                              /\ batches[i][k][n] = cache'[i][k][n]
<1>1. k \in DOMAIN fleet[i].streams
  <2>1. batches[i] \in Seq(Seq(Recorded)) /\ Len(batches[i]) <= Len(fleet[i].streams)
    BY DEF Gathered, Prefixes
  <2>2. DOMAIN fleet[i].streams = 1..Len(fleet[i].streams) /\ Len(fleet[i].streams) \in Nat
    BY FleetType DEF Shape
  <2> QED
    BY <2>1, <2>2
<1>2. Cached(batches[i][k], i, k) /\ Len(batches[i][k]) = Wanted(i, k)
  BY DEF Gathered, Prefixes
<1>3. \A n \in DOMAIN batches[i][k] : cache'[i][k] # << >> /\ batches[i][k][n] = cache'[i][k][n]
  BY <1>1, <1>2, StaysCached
<1> QED
  BY <1>2, <1>3 DEF Wanted, Given

LEMMA StillPrefixes ==
    ASSUME Shape, Gathered, CacheKept, fleet' = fleet, UNCHANGED <<call, batches>>,
           drawn' \in Seq(Recorded), call.limit # Unlimited => Len(drawn') <= call.limit
    PROVE  Prefixes'
  BY StaysGathered DEF Gathered, Prefixes, Cached

(* The device that is read next is about to be read from its start. *)
LEMMA FreshIsUnderWay ==
    ASSUME Shape, NEW i \in DOMAIN fleet, isOpen[i], Fresh(i), drawn = << >>
    PROVE  UnderWay(i)
<1>1. Len(batches[i]) = 0 /\ Len(drawn) = 0 /\ DOMAIN drawn = {}
  BY DEF Fresh
<1>2. /\ DOMAIN cursor[i] = DOMAIN fleet[i].streams /\ Len(fleet[i].streams) \in Nat
      /\ DOMAIN fleet[i].streams = 1..Len(fleet[i].streams)
  <2>1. cursor[i] \in Seq(Nat) /\ Len(cursor[i]) = Len(fleet[i].streams)
    BY DEF Shape
  <2> QED
    BY <2>1, FleetType DEF Shape
<1>3. CASE Len(fleet[i].streams) = 0
  BY <1>1, <1>3 DEF UnderWay
<1>4. CASE Len(fleet[i].streams) # 0
  BY <1>1, <1>2, <1>4 DEF UnderWay, Fresh, Cached
<1> QED
  BY <1>3, <1>4

LEMMA GatheredStep ==
    ASSUME Shape, Control, Gathered, [Next]_vars
    PROVE  Gathered'
<1>0. /\ Shape' /\ CacheKept /\ fleet' = fleet
      /\ Len(fleet) \in Nat \ {0} /\ DOMAIN fleet = 1..Len(fleet)
      /\ at \in 1..(Len(fleet) + 1) /\ opened \in 0..Len(fleet)
      /\ drawn \in Seq(Recorded) /\ (call.limit # Unlimited => Len(drawn) <= call.limit)
  BY ShapeStep, FleetType DEF Shape, Control, Gathered, Prefixes
<1>b. ASSUME NEW i \in DOMAIN fleet
      PROVE  /\ batches[i] \in Seq(Seq(Recorded)) /\ Len(batches[i]) <= Len(fleet[i].streams)
             /\ Len(fleet[i].streams) \in Nat
             /\ DOMAIN fleet[i].streams = 1..Len(fleet[i].streams)
  BY FleetType DEF Gathered, Prefixes, Shape
<1>1. ASSUME NEW o \in {"real", "synthetic"}, NEW r \in Device \cup {NoDevice}, NEW l \in Limits,
             Begin(o, r, l)
      PROVE  Gathered'
  <2>1. /\ pc' = "open" /\ opened' = 0 /\ drawn' = << >> /\ outcome' = "none"
        /\ batches' = [i \in DOMAIN fleet |-> << >>] /\ call'.limit = l
    BY <1>1 DEF Begin
  <2>2. drawn' \in Seq(Recorded) /\ (l # Unlimited => Len(drawn') <= l)
    BY <2>1, LimitAssumption
  <2>3. << >> \in Seq(Seq(Recorded)) /\ Len(<< >>) = 0 /\ DOMAIN << >> = {}
    OBVIOUS
  <2>4. Prefixes'
    BY <1>0, <1>b, <2>1, <2>2, <2>3 DEF Prefixes
  <2> QED
    BY <1>0, <2>1, <2>4 DEF Gathered, Complete
<1>2. CASE UNCHANGED vars
  BY <1>2, <1>0, StillPrefixes
     DEF vars, adapters, locals, Gathered, Prefixes, UnderWay, Fresh, Complete, Cached
<1>3. CASE ReuseArray
  <2>1. Prefixes' /\ pc' = "idle" /\ outcome' = outcome /\ batches' = batches /\ pc = "idle"
    BY <1>0, <1>3, StillPrefixes DEF ReuseArray, locals
  <2> QED
    BY <1>0, <2>1 DEF Gathered, Complete
<1>4. CASE OpenAdapter
  <2> DEFINE j == opened + 1
  <2>1. /\ Open(j) /\ j \in DOMAIN fleet /\ opened' = j /\ pc = "open" /\ pc' = "open"
        /\ outcome' = outcome /\ batches' = batches /\ drawn' = drawn /\ UNCHANGED call
    BY <1>0, <1>4 DEF OpenAdapter, Open
  <2>2. /\ \A k \in DOMAIN cursor'[j] : cursor'[j][k] = 0
        /\ \A i \in DOMAIN fleet \ {j} : cursor'[i] = cursor[i]
    BY <1>0, <2>1, OpenShape
  <2>3. Prefixes'
    BY <1>0, <2>1, StillPrefixes
  <2>4. ~(outcome = "returned")
    BY <2>1 DEF Control
  <2>5. \A i \in 1..opened' : Fresh(i)'
    BY <1>0, <2>1, <2>2 DEF Gathered, Fresh
  <2> QED
    BY <1>0, <2>1, <2>3, <2>4, <2>5 DEF Gathered, Complete
<1>5. CASE CheckIds \/ Consider
  <2>1. /\ UNCHANGED <<adapters, opened, batches, drawn, outcome, call>>
        /\ pc \in {"open", "select"} /\ pc' = "select"
    BY <1>5 DEF CheckIds, Consider, locals
  <2>2. Prefixes' /\ cursor' = cursor
    BY <1>0, <2>1, StillPrefixes DEF adapters
  <2>3. ~(outcome = "returned")
    BY <2>1 DEF Control
  <2> QED
    BY <1>0, <2>1, <2>2, <2>3 DEF Gathered, Complete, Fresh
<1>6. CASE StartManager
  <2>1. /\ UNCHANGED <<adapters, opened, batches, drawn, outcome, call>> /\ at' = 1
        /\ pc = "select" /\ pc' = "read"
    BY <1>6 DEF StartManager
  <2>2. Prefixes' /\ cursor' = cursor /\ isOpen' = isOpen
    BY <1>0, <2>1, StillPrefixes DEF adapters
  <2>3. ~(outcome = "returned") /\ \A i \in DOMAIN fleet : isOpen[i] /\ Fresh(i)
    BY <1>0, <2>1 DEF Control, Gathered
  <2>4. 1 \in DOMAIN fleet /\ drawn = << >>
    BY <1>0, <2>1 DEF Gathered
  <2>5. UnderWay(1)
    BY <2>3, <2>4, FreshIsUnderWay
  <2>6. UnderWay(at)'
    BY <1>0, <2>1, <2>2, <2>5, SameShape DEF UnderWay, Cached, adapters
  <2> QED
    BY <1>0, <2>1, <2>2, <2>3, <2>4, <2>6 DEF Gathered, Complete, Fresh
<1>7. CASE Raise \/ CloseRaises
  <2>1. /\ UNCHANGED <<adapters, batches, drawn, call>>
        /\ pc' \in {"close", "idle"} /\ outcome' = "raised"
    BY <1>7 DEF Raise, CloseRaises, locals
  <2>2. Prefixes'
    BY <1>0, <2>1, StillPrefixes
  <2> QED
    BY <2>1, <2>2 DEF Gathered, Complete
<1>8. CASE CloseAdapter \/ End
  <2>1. /\ UNCHANGED <<batches, drawn, call, outcome>>
        /\ pc' \in {"close", "idle"}
    BY <1>8 DEF CloseAdapter, End, locals
  <2>2. Prefixes'
    BY <1>0, <2>1, StillPrefixes
  <2> QED
    BY <1>0, <2>1, <2>2 DEF Gathered, Complete
<1>9. CASE AttachGroundTruth \/ Finalize
  <2>1. /\ UNCHANGED <<batches, drawn, call>>
        /\ pc' \in {"finalize", "close"}
        /\ \/ pc = "finalize"
           \/ pc = "read" /\ at > Len(fleet)
    BY <1>9 DEF AttachGroundTruth, Finalize, locals
  <2>2. Prefixes'
    BY <1>0, <2>1, StillPrefixes
  <2>3. \A i \in DOMAIN fleet : Complete(i)
    BY <1>0, <2>1 DEF Complete
  <2> QED
    BY <1>0, <2>1, <2>2, <2>3 DEF Gathered
<1>10. CASE RegisterDevice
  <2>1. /\ UNCHANGED <<adapters, batches, drawn, call, outcome>> /\ at' = at + 1
        /\ pc = "read" /\ pc' = "read" /\ at \in DOMAIN fleet
        /\ Len(batches[at]) + 1 > Len(fleet[at].streams)
    BY <1>0, <1>10 DEF RegisterDevice, Present, Streams
  <2>2. Prefixes' /\ cursor' = cursor /\ isOpen' = isOpen
    BY <1>0, <2>1, StillPrefixes DEF adapters
  <2>3. Len(batches[at]) = Len(fleet[at].streams)
    BY <1>b, <2>1
  <2>4. /\ drawn = << >> /\ \A i \in at + 1..Len(fleet) : Fresh(i)
        /\ ~(outcome = "returned")
    BY <1>0, <2>1, <2>3 DEF Gathered, UnderWay, Control
  <2>5. ASSUME at + 1 <= Len(fleet) PROVE UnderWay(at)'
    <3> DEFINE j == at + 1
    <3>1. j \in DOMAIN fleet /\ isOpen[j] /\ Fresh(j)
      BY <1>0, <2>1, <2>4, <2>5 DEF Control
    <3>2. UnderWay(j)
      BY <2>4, <3>1, FreshIsUnderWay
    <3> QED
      BY <1>0, <2>1, <2>2, <3>2 DEF UnderWay, Cached, adapters
  <2>6. \A i \in DOMAIN fleet : Complete(i)' => Len(batches[i]) = Len(fleet[i].streams)
    BY <1>0, <2>1, <2>3, <2>4 DEF Complete, Gathered
  <2> QED
    BY <1>0, <2>1, <2>2, <2>4, <2>5, <2>6 DEF Gathered, Fresh
<1>r. ASSUME Reading
      PROVE  /\ pc = "read" /\ at \in DOMAIN fleet /\ isOpen[at] /\ ~(outcome = "returned")
             /\ Present \in DOMAIN fleet[at].streams /\ Len(batches[at]) \in Nat
             /\ Len(batches[at]) # Len(fleet[at].streams)
             /\ Cached(drawn, at, Present) /\ cursor[at][Present] = Len(drawn)
             /\ \A k \in DOMAIN fleet[at].streams : k > Present => cursor[at][k] = 0
  <2>1. pc = "read" /\ at \in DOMAIN fleet /\ isOpen[at] /\ ~(outcome = "returned")
    BY <1>0, <1>r DEF Reading, Control
  <2>2. /\ Present \in DOMAIN fleet[at].streams /\ Len(batches[at]) \in Nat
        /\ Len(batches[at]) # Len(fleet[at].streams)
    BY <1>b, <1>r, <2>1 DEF Reading, Present, Streams
  <2>3. UnderWay(at)
    BY <1>0, <2>1 DEF Gathered
  <2> QED
    BY <2>1, <2>2, <2>3 DEF UnderWay, Present
<1>11. CASE ReadSample
  <2> DEFINE k == Present
             x == NextSample(at, k)
  <2>1. /\ UNCHANGED <<fleet, call, pc, opened, at, batches, outcome>> /\ Reading /\ ~Full
        /\ Read(at, k) /\ drawn' = Append(drawn, x)
    BY <1>11 DEF ReadSample
  <2>2. /\ x \in Recorded /\ cache'[at][k] # << >> /\ x = cache'[at][k][Len(drawn) + 1]
        /\ cursor'[at][k] = Len(drawn) + 1
        /\ \A l \in DOMAIN fleet[at].streams \ {k} : cursor'[at][l] = cursor[at][l]
        /\ \A j \in DOMAIN fleet \ {at} : cursor'[j] = cursor[j]
    BY <1>0, <1>r, <2>1, ReadShape
  <2> HIDE DEF x
  <2>3. /\ drawn' \in Seq(Recorded) /\ Len(drawn') = Len(drawn) + 1 /\ Len(drawn) \in Nat
        /\ drawn'[Len(drawn) + 1] = x /\ \A n \in 1..Len(drawn) : drawn'[n] = drawn[n]
        /\ DOMAIN drawn' = 1..(Len(drawn) + 1) /\ DOMAIN drawn = 1..Len(drawn)
    BY <1>0, <2>1, <2>2
  <2>4. call.limit # Unlimited => Len(drawn') <= call.limit
    <3>1. call.limit \in Nat \cup {Unlimited}
      BY DEF Control
    <3> QED
      BY <2>1, <2>3, <3>1 DEF Full
  <2>5. Prefixes'
    BY <1>0, <2>1, <2>3, <2>4, StillPrefixes
  <2>6. \A n \in DOMAIN drawn' : drawn'[n] = cache'[at][k][n]
    <3> TAKE n \in DOMAIN drawn'
    <3>1. CASE n = Len(drawn) + 1
      BY <2>2, <2>3, <3>1
    <3>2. CASE n \in DOMAIN drawn
      BY <1>0, <1>r, <2>1, <2>3, <3>2, StaysCached
    <3> QED
      BY <2>3, <3>1, <3>2
  <2>7. UnderWay(at)'
    BY <1>0, <1>r, <2>1, <2>2, <2>3, <2>6 DEF UnderWay, Cached, Present
  <2>8. \A i \in at + 1..Len(fleet) : Fresh(i)'
    BY <1>0, <1>r, <2>1, <2>2 DEF Gathered, Fresh
  <2>9. \A i \in DOMAIN fleet : Complete(i)' => Len(batches[i]) = Len(fleet[i].streams)
    BY <1>0, <1>r, <2>1 DEF Complete, Gathered
  <2> QED
    BY <1>0, <1>r, <2>1, <2>5, <2>7, <2>8, <2>9 DEF Gathered
<1>12. CASE FinishBatch
  <2> DEFINE k == Present
  <2>1. /\ UNCHANGED <<fleet, call, pc, opened, at, outcome>> /\ Reading
        /\ batches' = [batches EXCEPT ![at] = Append(@, drawn)] /\ drawn' = << >>
    BY <1>12 DEF FinishBatch
  <2>2. cursor' = cursor
    BY <1>12 DEF FinishBatch, adapters, ReadNone
  <2>3. Len(drawn) = Wanted(at, k)
    <3>1. /\ Len(drawn) \in Nat /\ Len(Given(at, k)) \in Nat /\ Len(drawn) <= Len(Given(at, k))
          /\ call.limit \in Nat \cup {Unlimited}
      <4>1. Rows(at, k) /\ k \in DOMAIN cursor[at]
        <5>1. Len(cursor[at]) = Len(fleet[at].streams) /\ cursor[at] \in Seq(Nat)
          BY <1>r, <2>1 DEF Shape
        <5> QED
          BY <1>b, <1>r, <2>1, <5>1 DEF Shape
      <4>2. Len(Given(at, k)) \in Nat
        BY <1>r, <2>1, FleetType DEF Shape, Given
      <4> QED
        BY <1>0, <1>r, <2>1, <4>1, <4>2 DEF Rows, Control
    <3>2. CASE Full
      BY <1>0, <3>1, <3>2, Smaller, LimitAssumption DEF Full, Wanted
    <3>3. CASE ~Full
      <4>1. ReadNone(at, k)
        BY <1>12, <3>3 DEF FinishBatch
      <4>2. Len(drawn) = Len(Given(at, k))
        BY <1>0, <1>r, <2>1, <4>1, ReadNoneShape
      <4> QED
        BY <3>1, <3>3, <4>2, Smaller DEF Full, Wanted
    <3> QED
      BY <3>2, <3>3
  <2>4. /\ batches' \in [DOMAIN fleet -> Seq(Seq(Recorded))]
        /\ \A j \in DOMAIN fleet \ {at} : batches'[j] = batches[j]
        /\ batches'[at] = Append(batches[at], drawn)
    BY <1>0, <1>b, <1>r, <2>1 DEF Gathered, Prefixes
  <2>5. /\ Len(batches'[at]) = k /\ batches'[at][k] = drawn
        /\ \A l \in 1..k - 1 : batches'[at][l] = batches[at][l]
        /\ DOMAIN batches'[at] = 1..k /\ DOMAIN batches[at] = 1..k - 1 /\ k \in Nat
    BY <1>0, <1>b, <1>r, <2>1, <2>4 DEF Present
  <2>6. \A i, l : Wanted(i, l)' = Wanted(i, l)
    BY <2>1 DEF Wanted, Given
  <2>7. \A n \in DOMAIN drawn : cache'[at][k] # << >> /\ drawn[n] = cache'[at][k][n]
    BY <1>0, <1>r, <2>1, StaysCached
  <2> HIDE DEF k
  <2>8. ASSUME NEW i \in DOMAIN fleet, NEW l \in DOMAIN batches'[i]
        PROVE  Len(batches'[i][l]) = Wanted(i, l)' /\ Cached(batches[i][l], i, l)'
    <3>1. CASE i = at /\ l = k
      <4>1. Len(batches'[i][l]) = Wanted(i, l)'
        BY <2>3, <2>5, <2>6, <3>1
      <4>2. Cached(batches[i][l], i, l)'
        BY <2>5, <2>7, <3>1 DEF Cached
      <4> QED
        BY <4>1, <4>2
    <3>2. CASE ~(i = at /\ l = k)
      <4>1. l \in DOMAIN batches[i] /\ batches'[i][l] = batches[i][l]
        <5>1. CASE i = at
          <6>1. l \in 1..k /\ l # k
            BY <2>5, <3>2, <5>1
          <6>2. l \in 1..k - 1
            BY <2>5, <6>1
          <6> QED
            BY <2>5, <5>1, <6>2
        <5> QED
          BY <2>4, <5>1
      <4> QED
        BY <1>0, <2>1, <4>1, StaysGathered DEF Cached
    <3> QED
      BY <3>1, <3>2
  <2>9. \A i \in DOMAIN fleet : Len(batches'[i]) <= Len(fleet[i].streams)
    BY <1>b, <1>r, <2>1, <2>4, <2>5 DEF k
  <2>10. drawn' \in Seq(Recorded) /\ (call'.limit # Unlimited => Len(drawn') <= call'.limit)
    <3>1. call.limit \in Nat \cup {Unlimited}
      BY DEF Control
    <3> QED
      BY <2>1, <3>1
  <2>11. Prefixes'
    BY <1>0, <2>4, <2>8, <2>9, <2>10 DEF Prefixes
  <2>12. UnderWay(at)'
    <3>1. DOMAIN drawn' = {} /\ Len(drawn') = 0
      BY <2>1
    <3> QED
      BY <1>0, <1>b, <1>r, <2>1, <2>2, <2>5, <3>1 DEF UnderWay, Cached, k
  <2>13. \A i \in at + 1..Len(fleet) : Fresh(i)'
    <3> TAKE i \in at + 1..Len(fleet)
    <3>1. i \in DOMAIN fleet \ {at}
      BY <1>0
    <3>2. Fresh(i) /\ batches'[i] = batches[i]
      BY <1>r, <2>1, <2>4, <3>1 DEF Gathered
    <3> QED
      BY <2>2, <3>2 DEF Fresh
  <2>14. \A i \in DOMAIN fleet : Complete(i)' => Len(batches'[i]) = Len(fleet[i].streams)
    BY <1>0, <1>r, <2>1, <2>4 DEF Complete, Gathered
  <2> QED
    BY <1>0, <1>r, <2>1, <2>11, <2>12, <2>13, <2>14 DEF Gathered
<1> QED
  BY <1>1, <1>2, <1>3, <1>4, <1>5, <1>6, <1>7, <1>8, <1>9, <1>10, <1>11, <1>12
     DEF Next, Step, RefuseIds, RefuseReference, AdapterRaises, RefuseSession

LEMMA PastStep ==
    ASSUME Shape, Control, Gathered, Past, [Next]_vars
    PROVE  Past'
<1>0. CacheKept /\ fleet' = fleet
  BY ShapeStep
<1>1. ASSUME NEW o \in {"real", "synthetic"}, NEW r \in Device \cup {NoDevice}, NEW l \in Limits,
             Begin(o, r, l), outcome = "returned"
      PROVE  Past'
  <2>1. earlier' = batches /\ cache' = cache
    BY <1>1 DEF Begin, adapters
  <2>2. DOMAIN batches = DOMAIN fleet
    BY DEF Gathered, Prefixes
  <2>3. ASSUME NEW i \in DOMAIN fleet PROVE DOMAIN batches[i] = DOMAIN fleet[i].streams
    <3>1. batches[i] \in Seq(Seq(Recorded)) /\ Len(batches[i]) = Len(fleet[i].streams)
      BY <1>1 DEF Gathered, Prefixes, Complete
    <3> QED
      BY <3>1, FleetType DEF Shape
  <2> QED
    BY <1>0, <2>1, <2>2, <2>3 DEF Past, Gathered, Prefixes, Cached
<1>2. CASE UNCHANGED earlier
  BY <1>0, <1>2, StaysCached DEF Past, Cached
<1> QED
  BY <1>1, <1>2
     DEF Next, Step, vars, Begin, ReuseArray, OpenAdapter, CheckIds, RefuseIds, Consider,
         StartManager, RefuseReference, AdapterRaises, Raise, ReadSample, FinishBatch,
         RegisterDevice, AttachGroundTruth, Finalize, RefuseSession, CloseAdapter, CloseRaises, End

LEMMA GatheredAtFirst == Init => Gathered /\ Past
<1> SUFFICES ASSUME Init PROVE Gathered /\ Past
  OBVIOUS
<1>1. /\ pc = "idle" /\ drawn = << >> /\ batches = [i \in DOMAIN fleet |-> << >>]
      /\ outcome = "none" /\ call.limit = Unlimited /\ earlier = << >>
  BY DEF Init
<1>2. /\ << >> \in Seq(Seq(Recorded)) /\ Len(<< >>) = 0 /\ DOMAIN << >> = {}
      /\ << >> \in Seq(Recorded)
  OBVIOUS
<1>3. \A i \in DOMAIN fleet : Len(fleet[i].streams) \in Nat
  BY FleetType, Started DEF Shape
<1> QED
  BY <1>1, <1>2, <1>3 DEF Gathered, Prefixes, Past, Complete

-----------------------------------------------------------------------------
(* The reference. *)

(* Of finitely many numbers one is the greatest: of the sets of them that  *)
(* have none, a smallest would lose its element and have one.              *)
LEMMA Greatest ==
    ASSUME NEW n \in Nat \ {0}, NEW r \in [1..n -> Nat]
    PROVE  \E u \in 1..n : \A v \in 1..n : r[v] <= r[u]
<1> DEFINE Low == {U \in SUBSET (1..n) : U # {} /\ ~ \E u \in U : \A v \in U : r[v] <= r[u]}
<1> SUFFICES ASSUME 1..n \in Low PROVE FALSE
  <2>1. 1 \in 1..n
    OBVIOUS
  <2> QED
    BY <2>1
<1>1. IsFiniteSet(1..n)
  BY FS_Interval
<1>2. Low \subseteq FiniteSubsetsOf(1..n)
  BY <1>1, FS_FiniteSubsetsOfFinite
<1>3. PICK U \in Low : \A V \in Low : ~ (<<V, U>> \in StrictSubsetOrdering(1..n))
  <2>1. IsWellFoundedOn(StrictSubsetOrdering(1..n), FiniteSubsetsOf(1..n))
    BY FS_StrictSubsetOrderingWellFounded
  <2>2. Low # {}
    OBVIOUS
  <2> HIDE DEF Low
  <2> QED
    BY <1>2, <2>1, <2>2, WFMin
<1>4. U \in SUBSET (1..n) /\ U # {} /\ ~ \E u \in U : \A v \in U : r[v] <= r[u]
  BY <1>3
<1>5. PICK x \in U : TRUE
  BY <1>4
<1> DEFINE V == U \ {x}
<1>6. V \in SUBSET (1..n) /\ <<V, U>> \in StrictSubsetOrdering(1..n)
  BY <1>4, <1>5 DEF StrictSubsetOrdering
<1>7. \A v \in 1..n : r[v] \in Nat
  OBVIOUS
<1>8. V # {}
  BY <1>4, <1>5, <1>7
<1>9. PICK m \in V : \A v \in V : r[v] <= r[m]
  BY <1>3, <1>6, <1>8
<1>10. x \in 1..n /\ m \in 1..n /\ r[x] \in Nat /\ r[m] \in Nat
  BY <1>4, <1>5, <1>6, <1>7, <1>9
<1>11. CASE r[x] <= r[m]
  BY <1>4, <1>9, <1>11
<1>12. CASE r[m] <= r[x]
  <2>1. \A v \in U : r[v] <= r[x]
    <3> TAKE v \in U
    <3>1. v \in 1..n /\ r[v] \in Nat
      BY <1>4, <1>7
    <3>2. CASE v = x
      BY <1>10, <3>2
    <3>3. CASE v \in V
      <4>1. r[v] <= r[m]
        BY <1>9, <3>3
      <4> QED
        BY <1>10, <1>12, <3>1, <4>1
    <3> QED
      BY <3>2, <3>3
  <2> QED
    BY <1>4, <1>5, <2>1
<1> HIDE DEF V
<1>13. r[x] <= r[m] \/ r[m] <= r[x]
  BY <1>10
<1> QED
  BY <1>11, <1>12, <1>13

(* The keys of the devices are quadruples of numbers, in lexical order.    *)
Quadruple == Nat \X Nat \X Nat \X Nat

LEMMA Lexical ==
    ASSUME NEW k \in Quadruple, NEW l \in Quadruple
    PROVE  /\ \A i \in 1..4 : k[i] \in Nat /\ l[i] \in Nat
           /\ k = l <=> k[1] = l[1] /\ k[2] = l[2] /\ k[3] = l[3] /\ k[4] = l[4]
           /\ Exceeds(k, l) <=>
                 \/ k[1] > l[1]
                 \/ k[1] = l[1] /\ k[2] > l[2]
                 \/ k[1] = l[1] /\ k[2] = l[2] /\ k[3] > l[3]
                 \/ k[1] = l[1] /\ k[2] = l[2] /\ k[3] = l[3] /\ k[4] > l[4]
<1>1. k = <<k[1], k[2], k[3], k[4]>> /\ l = <<l[1], l[2], l[3], l[4]>>
  BY DEF Quadruple
<1>2. DOMAIN k = {1, 2, 3, 4}
  BY <1>1
<1>3. \A i \in 1..4 : k[i] \in Nat /\ l[i] \in Nat
  BY DEF Quadruple
<1>4. Exceeds(k, l) <=> \E i \in {1, 2, 3, 4} : k[i] > l[i] /\ \A j \in 1..(i - 1) : k[j] = l[j]
  BY <1>2 DEF Exceeds
<1>5. 1..(1 - 1) = {} /\ 1..(2 - 1) = {1} /\ 1..(3 - 1) = {1, 2} /\ 1..(4 - 1) = {1, 2, 3}
  OBVIOUS
<1>6. /\ \A j \in 1..(1 - 1) : k[j] = l[j]
      /\ (\A j \in 1..(2 - 1) : k[j] = l[j]) <=> k[1] = l[1]
      /\ (\A j \in 1..(3 - 1) : k[j] = l[j]) <=> k[1] = l[1] /\ k[2] = l[2]
      /\ (\A j \in 1..(4 - 1) : k[j] = l[j]) <=> k[1] = l[1] /\ k[2] = l[2] /\ k[3] = l[3]
  BY <1>5
<1> QED
  BY <1>1, <1>3, <1>4, <1>6

(* Of two different keys one exceeds the other, and exceeding is an order. *)
LEMMA OrderOfKeys ==
    ASSUME NEW k \in Quadruple, NEW l \in Quadruple, NEW m \in Quadruple
    PROVE  /\ Exceeds(k, l) => ~Exceeds(l, k) /\ k # l
           /\ ~Exceeds(k, l) /\ k # l => Exceeds(l, k)
           /\ ~Exceeds(m, l) /\ Exceeds(k, l) => ~Exceeds(m, k) /\ m # k
  BY Lexical

(* A device's key is such a quadruple: its rates and tiers have a greatest. *)
LEMMA KeyType ==
    ASSUME NEW d \in Adapter
    PROVE  Key(d) \in Quadruple
<1>1. \A b \in BOOLEAN : Sign(b) \in Nat
  BY DEF Sign
<1>2. d.candidate \in BOOLEAN /\ ("hardware_ptp" \in d.tiers) \in BOOLEAN /\ d.tiers \subseteq Tier
  BY DEF Adapter
<1>3. MaxRate(d) \in Nat
  <2> DEFINE R == {0} \cup {d.streams[i].rate : i \in DOMAIN d.streams}
             r == [i \in 1..Len(d.streams) |-> d.streams[i].rate]
  <2>1. d.streams \in Seq(Stream) /\ DOMAIN d.streams = 1..Len(d.streams) /\ Len(d.streams) \in Nat
    BY DEF Adapter
  <2>2. \A i \in DOMAIN d.streams : d.streams[i].rate \in Nat
    <3> TAKE i \in DOMAIN d.streams
    <3>1. d.streams[i] \in Stream
      BY <2>1
    <3> QED
      BY <3>1 DEF Stream
  <2>3. \E x \in R : \A y \in R : x >= y
    <3>1. CASE Len(d.streams) = 0
      BY <2>1, <3>1
    <3>2. CASE Len(d.streams) # 0
      <4>1. r \in [1..Len(d.streams) -> Nat]
        BY <2>1, <2>2
      <4>2. PICK u \in 1..Len(d.streams) : \A v \in 1..Len(d.streams) : r[v] <= r[u]
        BY <2>1, <3>2, <4>1, Greatest
      <4>3. d.streams[u].rate \in R /\ d.streams[u].rate \in Nat
        BY <2>1, <2>2
      <4>4. \A y \in R : d.streams[u].rate >= y
        <5> TAKE y \in R
        <5>1. CASE y = 0
          BY <4>3, <5>1
        <5>2. CASE \E i \in DOMAIN d.streams : y = d.streams[i].rate
          <6>1. PICK i \in DOMAIN d.streams : y = d.streams[i].rate
            BY <5>2
          <6>2. r[i] <= r[u] /\ r[i] = y /\ r[u] = d.streams[u].rate
            BY <2>1, <4>2, <6>1
          <6> QED
            BY <2>2, <4>3, <6>1, <6>2
        <5> QED
          BY <5>1, <5>2
      <4> QED
        BY <4>3, <4>4
    <3> QED
      BY <3>1, <3>2
  <2>4. R \subseteq Nat
    BY <2>2
  <2>5. MaxRate(d) = Max(R)
    BY DEF MaxRate
  <2> HIDE DEF R
  <2> QED
    BY <2>3, <2>4, <2>5 DEF Max
<1>4. BestTierRank(d) \in Nat
  <2> DEFINE R == {0} \cup {Rank[t] : t \in d.tiers}
  <2>1. \A t \in Tier : Rank[t] \in {1, 2, 3}
    BY DEF Rank
  <2>2. R \subseteq 0..3 /\ 0 \in R
    BY <1>2, <2>1
  <2>3. BestTierRank(d) = Max(R)
    BY DEF BestTierRank
  <2> HIDE DEF R
  <2>4. R \subseteq {0, 1, 2, 3}
    BY <2>2
  <2>6. R \subseteq Nat
    BY <2>2
  <2>5. \E x \in R : \A y \in R : x >= y
    <3>1. CASE 3 \in R
      BY <2>4, <3>1
    <3>2. CASE 3 \notin R /\ 2 \in R
      BY <2>4, <3>2
    <3>3. CASE 3 \notin R /\ 2 \notin R /\ 1 \in R
      BY <2>4, <3>3
    <3>4. CASE 3 \notin R /\ 2 \notin R /\ 1 \notin R
      BY <2>2, <2>4, <3>4
    <3> QED
      BY <3>1, <3>2, <3>3, <3>4
  <2> QED
    BY <2>3, <2>5, <2>6 DEF Max
<1> QED
  BY <1>1, <1>2, <1>3, <1>4 DEF Key, Quadruple

(* A device that is better than the best so far comes before all it beat.  *)
LEMMA AfterIsAnOrder ==
    ASSUME fleet \in Seq(Adapter), \A h \in DOMAIN fleet : fleet[h].id \in Nat,
           NEW i \in DOMAIN fleet, NEW j \in DOMAIN fleet, NEW h \in DOMAIN fleet
    PROVE  /\ Better(fleet[i], fleet[j]) => After(j, i)
           /\ ~Better(fleet[i], fleet[j]) /\ fleet[i].id # fleet[j].id => After(i, j)
           /\ After(h, j) /\ Better(fleet[i], fleet[j]) => After(h, i)
<1>0. /\ fleet[i] \in Adapter /\ fleet[j] \in Adapter /\ fleet[h] \in Adapter
      /\ fleet[i].id \in Nat /\ fleet[j].id \in Nat /\ fleet[h].id \in Nat
  OBVIOUS
<1>1. Key(fleet[i]) \in Quadruple /\ Key(fleet[j]) \in Quadruple /\ Key(fleet[h]) \in Quadruple
  BY <1>0, KeyType
<1>2. Better(fleet[i], fleet[j]) => After(j, i)
  BY <1>0, <1>1, OrderOfKeys DEF Better, After
<1>3. ~Better(fleet[i], fleet[j]) /\ fleet[i].id # fleet[j].id => After(i, j)
  BY <1>0, <1>1, OrderOfKeys DEF Better, After
<1>4. After(h, j) /\ Better(fleet[i], fleet[j]) => After(h, i)
  BY <1>0, <1>1, OrderOfKeys DEF Better, After
<1> QED
  BY <1>2, <1>3, <1>4

LEMMA ChoosingStep ==
    ASSUME Shape, Control, Gathered, Choosing, [Next]_vars
    PROVE  Choosing'
<1>0. /\ fleet' = fleet /\ fleet \in Seq(Adapter) /\ DOMAIN fleet = 1..Len(fleet)
      /\ Len(fleet) \in Nat \ {0} /\ \A h \in DOMAIN fleet : fleet[h].id \in Nat
      /\ at \in 1..(Len(fleet) + 1) /\ best \in DOMAIN fleet
  BY ShapeStep, FleetType, DeviceAssumption DEF Shape, Control, Device
<1>1. ASSUME NEW o \in {"real", "synthetic"}, NEW r \in Device \cup {NoDevice}, NEW l \in Limits,
             Begin(o, r, l)
      PROVE  Choosing'
  BY <1>1 DEF Begin, Choosing, Chosen
<1>2. CASE Consider
  <2>1. /\ pc = "select" /\ pc' = "select" /\ call.reference = NoDevice /\ at \in DOMAIN fleet
        /\ at' = at + 1 /\ UNCHANGED <<call, outcome>> /\ outcome # "returned" /\ UniqueIds
        /\ best' = IF Better(fleet[at], fleet[best]) THEN at ELSE best
    BY <1>0, <1>2 DEF Consider, Selecting, Control
  <2>2. \A j \in 1..at - 1 : j # best => After(j, best)
    BY <2>1 DEF Choosing
  <2>3. ASSUME NEW j \in 1..at, j # best' PROVE After(j, best')
    <3>1. CASE Better(fleet[at], fleet[best])
      <4>1. best' = at /\ j \in 1..at - 1 /\ j \in DOMAIN fleet
        BY <1>0, <2>1, <2>3, <3>1
      <4>2. CASE j = best
        BY <1>0, <2>1, <3>1, <4>1, <4>2, AfterIsAnOrder
      <4>3. CASE j # best
        <5>1. After(j, best)
          BY <2>2, <4>1, <4>3
        <5> QED
          BY <1>0, <2>1, <3>1, <4>1, <5>1, AfterIsAnOrder
      <4> QED
        BY <4>2, <4>3
    <3>2. CASE ~Better(fleet[at], fleet[best])
      <4>1. best' = best
        BY <2>1, <3>2
      <4>2. CASE j = at
        <5>1. fleet[at].id # fleet[best].id
          BY <1>0, <2>1, <2>3, <4>1, <4>2 DEF UniqueIds
        <5> QED
          BY <1>0, <2>1, <3>2, <4>1, <4>2, <5>1, AfterIsAnOrder
      <4>3. CASE j # at
        BY <1>0, <2>2, <2>3, <4>1, <4>3
      <4> QED
        BY <4>2, <4>3
    <3> QED
      BY <3>1, <3>2
  <2>4. \A j \in 1..at' - 1 : j # best' => After(j, best)'
    BY <1>0, <2>1, <2>3 DEF After
  <2> QED
    BY <2>1, <2>4 DEF Choosing, Chosen
<1>3. CASE StartManager
  <2>1. /\ pc = "select" /\ pc' = "read" /\ UNCHANGED <<call, best, outcome>> /\ Known /\ UniqueIds
        /\ call.reference = NoDevice => at > Len(fleet)
    BY <1>3 DEF StartManager, Selecting, Control
  <2>2. call.reference = NoDevice => \A j \in DOMAIN fleet \ {best} : After(j, best)
    BY <1>0, <2>1 DEF Choosing
  <2> QED
    BY <1>0, <2>1, <2>2 DEF Choosing, Chosen, UniqueIds, Known, Reference, After
<1>4. CASE Raise \/ CloseRaises
  BY <1>4 DEF Raise, CloseRaises, Choosing, Chosen
<1>5. CASE OpenAdapter
  BY <1>5 DEF OpenAdapter, Choosing, Chosen, Control
<1>6. CASE CheckIds
  <2>1. /\ pc' = "select" /\ outcome' # "returned" /\ at' = 1
    BY <1>6 DEF CheckIds, Control, locals
  <2> QED
    BY <2>1 DEF Choosing, Chosen
<1>7. CASE UNCHANGED <<call, best>> /\ (Chosen' => Chosen) /\ pc' # "select"
  <2>1. Known' = Known /\ UniqueIds' = UniqueIds
        /\ \A j \in DOMAIN fleet \ {best} : After(j, best)' <=> After(j, best)
    BY <1>0, <1>7 DEF Known, UniqueIds, Reference, After
  <2> QED
    BY <1>0, <1>7, <2>1 DEF Choosing
<1>8. CASE UNCHANGED vars
  <2>1. UNCHANGED <<fleet, pc, at, best, call, outcome>>
    BY <1>8 DEF vars, locals
  <2> QED
    BY <2>1 DEF Choosing, Chosen, UniqueIds, Known, Reference, After
<1>9. CASE \/ ReadSample \/ FinishBatch \/ RegisterDevice \/ AttachGroundTruth \/ Finalize
           \/ CloseAdapter \/ End \/ ReuseArray
  <2>1. UNCHANGED <<call, best>> /\ pc' # "select" /\ (Chosen' => Chosen)
    BY <1>9
       DEF ReadSample, FinishBatch, RegisterDevice, AttachGroundTruth, Finalize, CloseAdapter, End,
           ReuseArray, Reading, locals, Chosen
  <2> QED
    BY <1>7, <2>1
<1> QED
  BY <1>1, <1>2, <1>3, <1>4, <1>5, <1>6, <1>8, <1>9
     DEF Next, Step, RefuseIds, RefuseReference, AdapterRaises, RefuseSession

-----------------------------------------------------------------------------
(* The session. *)

LEMMA EntryOf ==
    ASSUME NEW j
    PROVE  /\ Entry(j).id = fleet[j].id
           /\ fleet[j].id = Reference => Entry(j).role = "reference"
           /\ fleet[j].id # Reference => Entry(j).role = "follower"
  BY DEF Entry

LEMMA NewSessionType == \A o \in {"real", "synthetic"} : NewSession(o) \in Manager!Sessions
  BY DEF NewSession, Manager!Sessions, Manager!Origin, Manager!Registration

LEMMA ManagedAtFirst == Init => Choosing /\ Managing
  BY NewSessionType DEF Init, Choosing, Managing, Chosen

LEMMA ManagingStep ==
    ASSUME Shape, Control, Gathered, Choosing, Managing, [Next]_vars
    PROVE  Managing'
<1>0. /\ fleet' = fleet /\ DOMAIN fleet = 1..Len(fleet) /\ Len(fleet) \in Nat \ {0}
      /\ at \in 1..(Len(fleet) + 1)
      /\ \A i \in DOMAIN fleet : fleet[i].id \in Device /\ fleet[i].truth \in BOOLEAN
  BY ShapeStep, FleetType DEF Shape, Control, Adapter
<1>1. ASSUME NEW o \in {"real", "synthetic"}, NEW r \in Device \cup {NoDevice}, NEW l \in Limits,
             Begin(o, r, l)
      PROVE  Managing'
  BY <1>1, NewSessionType DEF Begin, Managing, Chosen
<1>2. CASE Raise \/ CloseRaises
  BY <1>2, NewSessionType DEF Raise, CloseRaises, Managing, Chosen
<1>3. CASE \/ UNCHANGED vars \/ OpenAdapter \/ CheckIds \/ Consider \/ ReadSample \/ FinishBatch
           \/ CloseAdapter \/ End \/ ReuseArray
  <2>1. /\ UNCHANGED <<call, outcome, truths, state, session>>
        /\ \/ UNCHANGED <<pc, at, best>>
           \/ UNCHANGED <<pc, at, best>> /\ pc = "read"
           \/ pc \in {"open", "select"} /\ pc' \in {"open", "select"}
           \/ pc = "close" /\ pc' \in {"close", "idle"} /\ UNCHANGED best
    BY <1>3
       DEF vars, OpenAdapter, CheckIds, Consider, ReadSample, FinishBatch, CloseAdapter, End,
           ReuseArray, Reading, locals, manager
  <2>2. CASE pc \in {"open", "select"} /\ pc' \in {"open", "select"}
    <3>1. outcome # "returned"
      BY <2>2 DEF Control
    <3> QED
      BY <2>1, <2>2, <3>1 DEF Managing, Chosen
  <2>3. CASE UNCHANGED <<pc, at, best>>
    BY <1>0, <2>1, <2>3 DEF Managing, Chosen, Entry, Reference, TruthAllowed
  <2>4. CASE pc = "close" /\ pc' \in {"close", "idle"} /\ UNCHANGED best
    BY <1>0, <2>1, <2>4 DEF Managing, Chosen, Entry, Reference, TruthAllowed
  <2> QED
    BY <2>1, <2>2, <2>3, <2>4
<1>4. CASE StartManager
  <2>1. /\ pc = "select" /\ pc' = "read" /\ at' = 1 /\ UNCHANGED <<call, best, truths, outcome>>
        /\ state' = "created" /\ session' = NewSession(call.origin)
        /\ outcome # "returned" /\ truths = {} /\ call.origin \in {"real", "synthetic"}
    BY <1>4 DEF StartManager, Control, Managing
  <2>2. /\ session' \in Manager!Sessions /\ session'.origin = call.origin
        /\ session'.calibrations = 0 /\ session'.truth = FALSE
        /\ session'.devices = << >> /\ Len(session'.devices) = 0
    BY <2>1, NewSessionType DEF NewSession
  <2> QED
    BY <1>0, <2>1, <2>2 DEF Managing, Chosen
<1> DEFINE D == session.devices
<1>5. ASSUME Chosen
      PROVE  /\ D \in Seq(Manager!Registration) /\ session \in Manager!Sessions
             /\ session.truth \in BOOLEAN
  BY DEF Managing, Manager!Sessions
<1>6. CASE RegisterDevice
  <2>1. /\ pc = "read" /\ pc' = "read" /\ at \in DOMAIN fleet /\ at' = at + 1
        /\ UNCHANGED <<call, best, outcome, state>> /\ outcome # "returned"
        /\ session' = [session EXCEPT !.devices = Append(@, Entry(at))]
        /\ truths' = IF fleet[at].truth THEN truths \cup {fleet[at].id} ELSE truths
    BY <1>0, <1>6 DEF RegisterDevice, Control, Entry
  <2>2. Entry(at) \in Manager!Registration
    BY <1>0, <2>1 DEF Entry, Manager!Registration, Manager!Role
  <2>3. /\ session' \in Manager!Sessions /\ session'.devices = Append(D, Entry(at))
        /\ session'.origin = session.origin /\ session'.calibrations = session.calibrations
        /\ session'.truth = session.truth
    BY <1>5, <2>1, <2>2 DEF Manager!Sessions, Chosen
  <2>4. /\ Len(D) = at - 1 /\ D \in Seq(Manager!Registration)
        /\ \A j \in 1..Len(D) : D[j] = Entry(j)
    BY <1>5, <2>1 DEF Managing, Chosen
  <2>5. /\ Len(session'.devices) = at
        /\ \A j \in 1..at : session'.devices[j] = Entry(j)
    <3> HIDE DEF D
    <3> HIDE DEF Entry
    <3>1. Len(Append(D, Entry(at))) = at
      BY <1>0, <2>1, <2>2, <2>4
    <3>2. ASSUME NEW j \in 1..at PROVE Append(D, Entry(at))[j] = Entry(j)
      <4>1. CASE j = at
        BY <1>0, <2>1, <2>2, <2>4, <4>1
      <4>2. CASE j # at
        BY <1>0, <2>1, <2>2, <2>4, <4>2
      <4> QED
        BY <4>1, <4>2
    <3> QED
      BY <2>3, <3>1, <3>2
  <2>6. \A j : Entry(j)' = Entry(j)
    BY <1>0, <2>1 DEF Entry, Reference
  <2>7. truths' # {} <=> \E i \in 1..at : fleet[i].truth
    <3>1. truths # {} <=> \E i \in 1..at - 1 : fleet[i].truth
      BY <2>1 DEF Managing
    <3>2. CASE fleet[at].truth
      BY <1>0, <2>1, <3>2
    <3>3. CASE ~fleet[at].truth
      <4>1. (\E i \in 1..at : fleet[i].truth) <=> \E i \in 1..at - 1 : fleet[i].truth
        BY <1>0, <2>1, <3>3
      <4> QED
        BY <2>1, <3>1, <3>3, <4>1
    <3> QED
      BY <3>2, <3>3
  <2> QED
    BY <1>0, <2>1, <2>3, <2>5, <2>6, <2>7 DEF Managing, Chosen
<1>7. CASE AttachGroundTruth
  <2>1. /\ pc = "read" /\ pc' = "finalize" /\ at = Len(fleet) + 1
        /\ UNCHANGED <<call, best, outcome, state>> /\ outcome # "returned"
        /\ session' = [session EXCEPT !.truth = (truths # {})]
    BY <1>0, <1>7 DEF AttachGroundTruth, Control, locals
  <2>2. /\ session' \in Manager!Sessions /\ session'.devices = D
        /\ session'.origin = session.origin /\ session'.calibrations = session.calibrations
        /\ session'.truth = (truths # {})
    BY <1>5, <2>1 DEF Manager!Sessions, Chosen
  <2>3. \A j : Entry(j)' = Entry(j)
    BY <1>0, <2>1 DEF Entry, Reference
  <2>4. /\ Len(D) = Len(fleet) /\ \A j \in 1..Len(D) : D[j] = Entry(j)
        /\ session.origin = call.origin /\ session.calibrations = 0 /\ state = "created"
        /\ truths # {} <=> \E i \in 1..at - 1 : fleet[i].truth
    BY <1>0, <2>1 DEF Managing, Chosen
  <2>5. truths # {} <=> \E i \in DOMAIN fleet : fleet[i].truth
    <3>1. 1..at - 1 = DOMAIN fleet
      BY <1>0, <2>1
    <3> QED
      BY <2>4, <3>1
  <2>6. Chosen'
    BY <2>1 DEF Chosen
  <2> HIDE DEF D
  <2> QED
    BY <1>0, <2>1, <2>2, <2>3, <2>4, <2>5, <2>6 DEF Managing
<1>8. CASE Finalize
  <2>1. /\ pc = "finalize" /\ pc' = "close" /\ outcome' = "returned" /\ state' = "devices_registered"
        /\ UNCHANGED <<call, best, session>> /\ TruthAllowed
    BY <1>8 DEF Finalize
  <2>2. \A j : Entry(j)' = Entry(j)
    BY <1>0, <2>1 DEF Entry, Reference
  <2> QED
    BY <1>0, <2>1, <2>2 DEF Managing, Chosen, TruthAllowed
<1> QED
  BY <1>1, <1>2, <1>3, <1>4, <1>6, <1>7, <1>8
     DEF Next, Step, RefuseIds, RefuseReference, AdapterRaises, RefuseSession

-----------------------------------------------------------------------------
(* What the invariant gives. *)

THEOREM InvariantHolds == Spec => []IInv
<1>1. Init => IInv
  BY Started, GatheredAtFirst, ManagedAtFirst DEF IInv
<1>2. IInv /\ [Next]_vars => IInv'
  BY ShapeStep, ControlStep, GatheredStep, PastStep, ChoosingStep, ManagingStep DEF IInv
<1> QED
  BY <1>1, <1>2, PTL DEF Spec

(* The adapters a call opened are closed at its end, or a close raised.    *)
THEOREM AdaptersAreClosed == Spec => []AdaptersInv
<1>1. IInv => AdaptersInv
  <2> SUFFICES ASSUME IInv PROVE AdaptersInv
    OBVIOUS
  <2>1. ASSUME NEW i \in DOMAIN fleet, NEW k \in DOMAIN cursor[i]
        PROVE  cursor[i][k] \in 0..Len(fleet[i].streams[k].stamps)
    <3>1. cursor[i] \in Seq(Nat) /\ Len(cursor[i]) \in {0, Len(fleet[i].streams)}
      BY DEF IInv, Shape
    <3>2. /\ DOMAIN fleet[i].streams = 1..Len(fleet[i].streams)
          /\ \A l \in DOMAIN fleet[i].streams : Len(fleet[i].streams[l].stamps) \in Nat
      BY FleetType DEF IInv, Shape
    <3>3. k \in DOMAIN fleet[i].streams /\ cursor[i][k] \in Nat
      BY <3>1, <3>2
    <3>4. Rows(i, k)
      BY <3>3 DEF IInv, Shape
    <3> QED
      BY <3>2, <3>3, <3>4 DEF Rows, Given
  <2>2. TypeOK
    BY <2>1 DEF TypeOK, IInv, Shape, Control, Gathered, Prefixes, Managing
  <2>3. AdaptersClosed
    BY DEF AdaptersClosed, IInv, Control
  <2> QED
    BY <2>2, <2>3 DEF AdaptersInv
<1> QED
  BY <1>1, InvariantHolds, PTL

(* A call that returns has read every stream in full up to the limit,      *)
(* whatever came before, and each sample refers to its own row.            *)
THEOREM ReadsWholePrefixes == Spec => []WholePrefixes
<1>1. IInv => WholePrefixes
  <2> SUFFICES ASSUME IInv, outcome = "returned", NEW i \in DOMAIN fleet
               PROVE  /\ DOMAIN batches[i] = DOMAIN fleet[i].streams
                      /\ \A k \in DOMAIN batches[i] :
                           /\ Len(batches[i][k]) = Wanted(i, k)
                           /\ \A n \in DOMAIN batches[i][k] :
                                /\ batches[i][k][n].seq = n - 1
                                /\ batches[i][k][n].t \in Given(i, k)[n]..arrays[i][k][n]
                                /\ Parse(batches[i][k][n].ref) =
                                      [location |-> fleet[i].base, fragment |-> <<Row(k, n - 1)>>]
    BY DEF WholePrefixes, Wanted, Given
  <2>1. DOMAIN batches[i] = DOMAIN fleet[i].streams
    <3>1. batches[i] \in Seq(Seq(Recorded)) /\ Len(batches[i]) = Len(fleet[i].streams)
      BY DEF IInv, Gathered, Prefixes, Complete
    <3> QED
      BY <3>1, FleetType DEF IInv, Shape
  <2>2. ASSUME NEW k \in DOMAIN batches[i], NEW n \in DOMAIN batches[i][k]
        PROVE  /\ batches[i][k][n].seq = n - 1
               /\ batches[i][k][n].t \in Given(i, k)[n]..arrays[i][k][n]
               /\ Parse(batches[i][k][n].ref) =
                     [location |-> fleet[i].base, fragment |-> <<Row(k, n - 1)>>]
    <3>1. cache[i][k] # << >> /\ batches[i][k][n] = cache[i][k][n]
      BY DEF IInv, Gathered, Prefixes, Cached
    <3>2. Rows(i, k)
      BY <2>1 DEF IInv, Shape
    <3>3. /\ Given(i, k) \in Seq(Nat) /\ DOMAIN Given(i, k) = 1..Len(Given(i, k))
          /\ Len(Given(i, k)) \in Nat /\ k \in Nat /\ fleet[i].base \in Seq({Hash, Text})
      BY <2>1, FleetType DEF IInv, Shape, Given
    <3>4. n \in DOMAIN Given(i, k)
      <4>1. cache[i][k] \in Seq(Recorded) /\ batches[i][k] \in Seq(Recorded)
        <5>1. cache[i] \in Seq(Seq(Recorded)) /\ batches[i] \in Seq(Seq(Recorded))
              /\ Len(cache[i]) = Len(fleet[i].streams)
          BY DEF IInv, Shape, Gathered, Prefixes
        <5>2. k \in 1..Len(cache[i]) /\ k \in 1..Len(batches[i])
          <6>1. /\ DOMAIN fleet[i].streams = 1..Len(fleet[i].streams)
                /\ Len(fleet[i].streams) \in Nat
            BY FleetType DEF IInv, Shape
          <6>2. DOMAIN cache[i] = 1..Len(cache[i]) /\ DOMAIN batches[i] = 1..Len(batches[i])
            BY <5>1
          <6> QED
            BY <2>1, <5>1, <6>1, <6>2
        <5> QED
          BY <5>1, <5>2
      <4>2. Len(batches[i][k]) = Wanted(i, k)
        BY DEF IInv, Gathered, Prefixes
      <4>3. Len(batches[i][k]) <= Len(Given(i, k))
        <5>1. call.limit \in Nat \cup {Unlimited}
          BY DEF IInv, Control
        <5>2. CASE call.limit = Unlimited
          BY <3>3, <4>2, <5>2 DEF Wanted
        <5>3. CASE call.limit \in Nat
          <6>1. \/ Wanted(i, k) = call.limit /\ call.limit <= Len(Given(i, k))
                \/ Wanted(i, k) = Len(Given(i, k))
            BY <3>3, <5>3, Smaller, LimitAssumption DEF Wanted
          <6> QED
            BY <3>3, <4>2, <5>3, <6>1
        <5> QED
          BY <5>1, <5>2, <5>3
      <4> QED
        BY <3>3, <4>1, <4>3
    <3>5. Own(cache[i][k][n], i, k, n)
      BY <3>1, <3>2, <3>4 DEF Rows
    <3>6. n - 1 \in Nat /\ Acceptable(fleet[i].base)
      BY <3>3, <3>4 DEF IInv, Shape
    <3>7. Parse(PayloadRef(fleet[i].base, k, n - 1)) =
            [location |-> fleet[i].base, fragment |-> <<Row(k, n - 1)>>]
      BY <3>3, <3>6, RowReference
    <3> QED
      BY <3>1, <3>5, <3>7 DEF Own
  <2> QED
    BY <2>1, <2>2 DEF IInv, Gathered, Prefixes
<1> QED
  BY <1>1, InvariantHolds, PTL

(* A row that was returned once is returned the same again: the samples of *)
(* a stream are made once, and a cache once filled does not change.        *)
THEOREM IsRepeatable == Spec => []Repeatable
<1>1. IInv => Repeatable
  <2> SUFFICES ASSUME IInv, outcome = "returned", earlier # << >>, NEW i \in DOMAIN fleet,
                      NEW k \in DOMAIN batches[i],
                      NEW n \in DOMAIN batches[i][k] \cap DOMAIN earlier[i][k]
               PROVE  batches[i][k][n] = earlier[i][k][n]
    BY DEF Repeatable
  <2>1. k \in DOMAIN fleet[i].streams
    <3>1. batches[i] \in Seq(Seq(Recorded)) /\ Len(batches[i]) = Len(fleet[i].streams)
      BY DEF IInv, Gathered, Prefixes, Complete
    <3> QED
      BY <3>1, FleetType DEF IInv, Shape
  <2>2. batches[i][k][n] = cache[i][k][n]
    BY DEF IInv, Gathered, Prefixes, Cached
  <2>3. earlier[i][k][n] = cache[i][k][n]
    BY <2>1 DEF IInv, Past, Cached
  <2> QED
    BY <2>2, <2>3
<1> QED
  BY <1>1, InvariantHolds, PTL

(* The session a call returns has one reference, the one that was asked    *)
(* for or comes before all others, and all the ground truth.               *)
THEOREM BuildsSession == Spec => []SessionBuilt
<1>1. IInv => SessionBuilt
  <2> SUFFICES ASSUME IInv, outcome = "returned" PROVE OneReference /\ TruthChecked
    BY DEF SessionBuilt, OneReference, TruthChecked
  <2>1. /\ DOMAIN fleet = 1..Len(fleet) /\ UniqueIds /\ Known /\ best \in DOMAIN fleet
        /\ Len(session.devices) = Len(fleet)
        /\ \A j \in DOMAIN fleet : session.devices[j] = Entry(j)
    <3>1. pc \in {"close", "idle"} /\ Chosen
      BY DEF IInv, Control, Chosen
    <3> QED
      BY <3>1, FleetType DEF IInv, Shape, Control, Choosing, Managing
  <2>2. PICK i \in DOMAIN fleet : fleet[i].id = Reference
    BY <2>1 DEF Known
  <2>3. ASSUME NEW j \in DOMAIN fleet
        PROVE  /\ session.devices[j].id = fleet[j].id
               /\ (session.devices[j].role = "reference") <=> (j = i)
    <3>1. fleet[j].id = Reference <=> j = i
      BY <2>1, <2>2 DEF UniqueIds
    <3>2. CASE j = i
      BY <2>1, <3>1, <3>2, EntryOf
    <3>3. CASE j # i
      BY <2>1, <3>1, <3>3, EntryOf
    <3> QED
      BY <3>2, <3>3
  <2>4. IF call.reference # NoDevice THEN fleet[i].id = call.reference
        ELSE \A j \in DOMAIN fleet \ {i} : After(j, i)
    <3>1. CASE call.reference # NoDevice
      BY <2>2, <3>1 DEF Reference
    <3>2. CASE call.reference = NoDevice
      <4>1. i = best
        BY <2>1, <2>2, <3>2 DEF Reference, UniqueIds
      <4> QED
        BY <3>2, <4>1 DEF IInv, Choosing, Chosen
    <3> QED
      BY <3>1, <3>2
  <2>5. OneReference
    BY <2>2, <2>3, <2>4 DEF OneReference, After
  <2>6. TruthChecked
    <3>1. pc \in {"close", "idle"} /\ Chosen /\ call.origin \in {"real", "synthetic"}
      BY DEF IInv, Control, Chosen
    <3> QED
      BY <3>1 DEF IInv, Managing, TruthChecked, TruthAllowed
  <2> QED
    BY <2>5, <2>6
<1> QED
  BY <1>1, InvariantHolds, PTL

(* To the manager, a call is a client that keeps its protocol.             *)
THEOREM KeepsProtocol == Spec => ImplementsManager
<1>1. Init => Manager!Init
  BY DEF Init, Manager!Init, Manager!NoManager, NoManager, NewSession, Manager!NewSession,
         Manager!NoFile
<1>2. ASSUME IInv, [Next]_vars
      PROVE  [ManagerStep]_manager
  <2>0. Shape /\ Control /\ Gathered /\ Choosing /\ Managing
    BY <1>2 DEF IInv
  <2>d. UNCHANGED Manager!disk
    BY DEF Manager!disk
  <2>n. Manager!NoManager = NoManager /\ \A o : Manager!NewSession(o) = NewSession(o)
    BY DEF Manager!NoManager, NoManager, NewSession, Manager!NewSession
  <2>f. /\ fleet' = fleet /\ DOMAIN fleet = 1..Len(fleet) /\ Len(fleet) \in Nat \ {0}
        /\ at \in 1..(Len(fleet) + 1)
        /\ \A i \in DOMAIN fleet : fleet[i].id \in Device
    <3>1. fleet' = fleet
      BY <1>2, <2>0, ShapeStep
    <3> QED
      BY <2>0, <3>1, FleetType DEF Shape, Control
  <2>1. CASE state' = NoManager /\ session' = NewSession("real")
    <3>1. CASE state = NoManager
      <4>1. session = NewSession("real")
        BY <2>0, <3>1 DEF Managing, Chosen, NoManager
      <4> QED
        BY <2>1, <3>1, <4>1 DEF manager
    <3>2. CASE state # NoManager
      <4>1. Manager!Crash
        BY <2>1, <2>n, <3>2 DEF Manager!Crash
      <4> QED
        BY <4>1 DEF ManagerStep
    <3> QED
      BY <3>1, <3>2
  <2>2. CASE UNCHANGED manager
    BY <2>2
  <2>3. CASE StartManager
    <3>1. call.origin \in Manager!Origin
      BY <2>0 DEF Control, Manager!Origin
    <3>2. Manager!Start(call.origin)
      BY <2>3, <2>d, <2>n DEF StartManager, Manager!Start
    <3> QED
      BY <3>1, <3>2 DEF ManagerStep
  <2>4. CASE RegisterDevice
    <3>1. /\ pc = "read" /\ at \in DOMAIN fleet /\ state' = state /\ Chosen
          /\ session' = [session EXCEPT !.devices = Append(@, Entry(at))]
      BY <2>4, <2>f DEF RegisterDevice, Entry, Chosen
    <3>2. /\ state = "created" /\ UniqueIds /\ Len(session.devices) = at - 1
          /\ \A j \in 1..Len(session.devices) : session.devices[j] = Entry(j)
      BY <2>0, <3>1 DEF Managing, Choosing
    <3>3. Entry(at) \in Manager!Registration
      BY <2>f, <3>1 DEF Entry, Manager!Registration, Manager!Role
    <3>4. Entry(at).id \notin Manager!Ids(session)
      <4>1. ASSUME NEW j \in 1..Len(session.devices)
            PROVE  session.devices[j].id # Entry(at).id
        <5>1. j \in DOMAIN fleet /\ j # at
          BY <2>f, <3>1, <3>2
        <5> QED
          BY <3>1, <3>2, <5>1, EntryOf DEF UniqueIds
      <4> QED
        BY <4>1 DEF Manager!Ids
    <3>5. Manager!RegisterDevice(Entry(at))
      BY <2>d, <2>n, <3>1, <3>2, <3>4
         DEF Manager!RegisterDevice, Manager!Running, Manager!Admissible, NoManager
    <3> QED
      BY <3>3, <3>5 DEF ManagerStep
  <2>5. CASE AttachGroundTruth
    <3>1. /\ session' = [session EXCEPT !.truth = (truths # {})] /\ state' = state
          /\ state = "created" /\ session.truth = FALSE /\ session \in Manager!Sessions
      <4>1. pc = "read" /\ Chosen
        BY <2>5 DEF AttachGroundTruth, Chosen
      <4> QED
        BY <2>0, <2>5, <4>1 DEF AttachGroundTruth, Managing, Manager!Sessions
    <3>2. CASE truths = {}
      <4>1. session' = session
        BY <3>1, <3>2 DEF Manager!Sessions
      <4> QED
        BY <3>1, <4>1 DEF manager
    <3>3. CASE truths # {}
      <4>1. Manager!AttachGroundTruth
        BY <2>d, <2>n, <3>1, <3>3 DEF Manager!AttachGroundTruth, Manager!Running, NoManager
      <4> QED
        BY <4>1 DEF ManagerStep
    <3> QED
      BY <3>2, <3>3
  <2>6. CASE Finalize
    <3>1. /\ state' = "devices_registered" /\ session' = session /\ TruthAllowed /\ pc = "finalize"
          /\ Chosen
      BY <2>6 DEF Finalize, Chosen
    <3>2. /\ state = "created" /\ UniqueIds /\ Known /\ Len(session.devices) = Len(fleet)
          /\ \A j \in DOMAIN fleet : session.devices[j] = Entry(j)
      BY <2>0, <2>f, <3>1 DEF Managing, Choosing
    <3>3. PICK i \in DOMAIN fleet : fleet[i].id = Reference
      BY <3>2 DEF Known
    <3>4. Manager!UniqueIds(session)
      <4>1. \A j \in DOMAIN fleet : session.devices[j].id = fleet[j].id
        BY <3>2, EntryOf
      <4> QED
        BY <2>f, <3>2, <4>1 DEF Manager!UniqueIds, UniqueIds
    <3>5. Manager!References(session) = {i}
      <4>1. ASSUME NEW j \in DOMAIN fleet
            PROVE  session.devices[j].role = "reference" <=> j = i
        <5>1. fleet[j].id = Reference <=> j = i
          BY <3>2, <3>3 DEF UniqueIds
        <5>2. CASE j = i
          BY <3>2, <5>1, <5>2, EntryOf
        <5>3. CASE j # i
          BY <3>2, <5>1, <5>3, EntryOf
        <5> QED
          BY <5>2, <5>3
      <4> QED
        BY <2>f, <3>2, <4>1 DEF Manager!References
    <3>6. Manager!Valid(session)
      BY <2>f, <3>1, <3>2, <3>4, <3>5
         DEF Manager!Valid, Manager!ExactlyOneReference, Manager!TruthAllowed, TruthAllowed
    <3>7. Manager!FinalizeRegistration
      BY <2>d, <2>n, <3>1, <3>2, <3>6
         DEF Manager!FinalizeRegistration, Manager!Running, NoManager
    <3> QED
      BY <3>7 DEF ManagerStep
  <2>7. CASE UNCHANGED vars
    BY <2>2, <2>7 DEF vars, manager
  <2>8. ASSUME NEW o \in {"real", "synthetic"}, NEW r \in Device \cup {NoDevice}, NEW l \in Limits,
               Begin(o, r, l)
        PROVE  [ManagerStep]_manager
    BY <2>1, <2>8 DEF Begin
  <2>9. CASE Raise \/ CloseRaises
    BY <2>1, <2>9 DEF Raise, CloseRaises
  <2>10. CASE \/ OpenAdapter \/ CheckIds \/ Consider \/ ReadSample \/ FinishBatch
              \/ CloseAdapter \/ End \/ ReuseArray
    BY <2>2, <2>10
       DEF OpenAdapter, CheckIds, Consider, ReadSample, FinishBatch, CloseAdapter, End, ReuseArray
  <2> QED
    BY <1>2, <2>3, <2>4, <2>5, <2>6, <2>7, <2>8, <2>9, <2>10
       DEF Next, Step, RefuseIds, RefuseReference, AdapterRaises, RefuseSession
<1> QED
  BY <1>1, <1>2, InvariantHolds, PTL DEF Spec, ImplementsManager
=============================================================================

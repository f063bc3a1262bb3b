------------------------- MODULE AssociationProofs -------------------------
(***************************************************************************)
(* What grouping detections into events promises, for any devices, shifts, *)
(* tolerances and detections.                                              *)
(***************************************************************************)
EXTENDS Detectors, ArraysProofs

-----------------------------------------------------------------------------
(* The inductive invariant.  The detections are in order of time.          *)
InTime ==
    /\ entries \in Seq(Entry)
    /\ \A p, q \in 1..Len(entries) : p < q => entries[p].ct <= entries[q].ct

ClusterRecord == [held : UNION {[D -> Nat] : D \in SUBSET Device}, sum : Int, cnt : Nat]

Placed ==
    /\ next \in 1..Len(entries) + 1
    /\ clusters \in Seq(ClusterRecord)
    /\ done \in BOOLEAN

(* A cluster holds placed detections, each under its own device. *)
Owns(c) ==
    /\ DOMAIN c.held \subseteq Device /\ IsFiniteSet(DOMAIN c.held) /\ DOMAIN c.held # {}
    /\ \A d \in DOMAIN c.held : c.held[d] \in 1..next - 1 /\ entries[c.held[d]].dev = d
    /\ c.sum \in Int /\ c.cnt = Cardinality(DOMAIN c.held)

Owned == \A k \in Cluster : Owns(clusters[k])

(* What a cluster holds comes before what later clusters hold. *)
Ordered ==
    \A k \in Cluster : \A j \in 1..k - 1 :
        \A d \in DOMAIN clusters[j].held, e \in DOMAIN clusters[k].held :
            clusters[j].held[d] < clusters[k].held[e]

(* Every placed detection has its device in the cluster that was the       *)
(* newest when it was placed: earlier ones hold something before it, later *)
(* ones nothing.                                                           *)
CoveredBy(p, k) ==
    /\ entries[p].dev \in DOMAIN clusters[k].held
    /\ \A j \in 1..k - 1 : \E d \in DOMAIN clusters[j].held : clusters[j].held[d] < p
    /\ \A j \in k + 1..Len(clusters) : \A d \in DOMAIN clusters[j].held : p < clusters[j].held[d]

Covered == \A p \in 1..next - 1 : \E k \in Cluster : CoveredBy(p, k)

Resulting ==
    /\ ~done => events = << >>
    /\ done => /\ next = Len(entries) + 1
               /\ events = [k \in DOMAIN Kept |-> Observations(clusters[Kept[k]])]

IInv == InTime /\ Placed /\ Owned /\ Ordered /\ Covered /\ Resulting

-----------------------------------------------------------------------------
(* The initial state: sorting puts the detections in order.                *)
LEMMA SortedInTime ==
    ASSUME NEW s \in Seq(Detection)
    PROVE  /\ Sorted(Common(s)) \in Seq(Entry)
           /\ \A p, q \in 1..Len(Sorted(Common(s))) :
                p < q => Sorted(Common(s))[p].ct <= Sorted(Common(s))[q].ct
<1> DEFINE c == Common(s)
           n == Len(s)
           keys == [i \in DOMAIN c |-> c[i].ct]
<1>1. n \in Nat /\ DOMAIN s = 1..n /\ \A i \in 1..n : s[i].lt \in Int /\ s[i].dev \in Device
  <2>1. n \in Nat /\ DOMAIN s = 1..n
    OBVIOUS
  <2>2. \A i \in 1..n : s[i] \in Detection
    OBVIOUS
  <2> QED
    BY <2>1, <2>2 DEF Detection
<1>2. c = [i \in 1..n |-> [ct |-> s[i].lt + Shift[s[i].dev], dev |-> s[i].dev]]
  BY <1>1 DEF Common
<1> HIDE DEF n, c
<1>3. \A i \in 1..n : c[i] \in Entry /\ c[i].ct \in Int
  <2> TAKE i \in 1..n
  <2>1. Shift[s[i].dev] \in Int
    BY <1>1, ShiftAssumption
  <2>2. s[i].lt + Shift[s[i].dev] \in Int
    BY <1>1, <2>1
  <2> QED
    BY <1>1, <1>2, <2>2 DEF Entry
<1>4. c \in Seq(Entry) /\ Len(c) = n /\ DOMAIN c = 1..n
  BY <1>1, <1>2, <1>3
<1>5. keys \in Seq(Int) /\ Len(keys) = Len(c) /\ \A i \in 1..n : keys[i] = c[i].ct
  BY <1>1, <1>3, <1>4
<1>6. Sorted(c) = SortedBy(c, keys)
  BY DEF Sorted
<1> HIDE DEF keys
<1>7. PICK at \in [1..Len(c) -> 1..Len(c)] :
             /\ SortedBy(c, keys) = [k \in 1..Len(c) |-> c[at[k]]]
             /\ \A k, l \in 1..Len(c) : k < l => keys[at[k]] <= keys[at[l]]
  BY <1>4, <1>5, SortsBy
<1>8. \A k \in 1..n : at[k] \in 1..n /\ Sorted(c)[k] = c[at[k]]
  BY <1>4, <1>6, <1>7
<1>9. Sorted(c) \in Seq(Entry) /\ Len(Sorted(c)) = n
  BY <1>1, <1>3, <1>4, <1>6, <1>7, <1>8
<1>10. ASSUME NEW p \in 1..n, NEW q \in 1..n, p < q
       PROVE  Sorted(c)[p].ct <= Sorted(c)[q].ct
  BY <1>4, <1>5, <1>7, <1>8, <1>10
<1> QED
  BY <1>9, <1>10 DEF c

(* Before anything is placed. *)
Fresh == next = 1 /\ clusters = << >> /\ events = << >> /\ done = FALSE

LEMMA FreshIInv == InTime /\ Fresh => IInv
<1> SUFFICES ASSUME InTime, Fresh PROVE IInv
  OBVIOUS
<1>1. Len(entries) \in Nat /\ Len(clusters) = 0 /\ next = 1 /\ done = FALSE
  BY DEF Fresh, InTime
<1>2. Placed
  <2>1. clusters \in Seq(ClusterRecord)
    BY DEF Fresh
  <2>2. 1 \in 1..Len(entries) + 1
    BY <1>1
  <2> QED
    BY <1>1, <2>1, <2>2 DEF Placed
<1>3. Owned /\ Ordered /\ Covered
  BY <1>1 DEF Owned, Ordered, Covered, Cluster
<1>4. Resulting
  BY <1>1 DEF Resulting, Fresh
<1> QED
  BY <1>2, <1>3, <1>4 DEF IInv


LEMMA InitIInv == Init => IInv
<1> SUFFICES ASSUME Init PROVE IInv
  OBVIOUS
<1>1. InTime
  <2>1. PICK s \in Inputs : entries = Sorted(Common(s))
    BY DEF Init
  <2>2. s \in Seq(Detection)
    BY InputAssumption
  <2> QED
    BY <2>1, <2>2, SortedInTime DEF InTime
<1> QED
  BY <1>1, FreshIInv DEF Init, Fresh

-----------------------------------------------------------------------------
(* What placing a detection does: it goes into the newest cluster or opens *)
(* one.                                                                    *)
Place == Open \/ Join \/ Replace \/ Ignore

(* The newest cluster afterwards, of the position that was next. *)
Grown(c, m) ==
    /\ DOMAIN c.held \subseteq Device /\ IsFiniteSet(DOMAIN c.held)
    /\ Current.dev \in DOMAIN c.held
    /\ \A d \in DOMAIN c.held :
         \/ d = Current.dev /\ c.held[d] = next
         \/ /\ m = Len(clusters) /\ d \in DOMAIN clusters[m].held
            /\ c.held[d] = clusters[m].held[d]
    /\ m = Len(clusters) => DOMAIN clusters[m].held \subseteq DOMAIN c.held
    /\ c.sum \in Int /\ c.cnt = Cardinality(DOMAIN c.held)

(* Its sum and divisor: those of a detection alone, or of one more, or as  *)
(* they were.                                                              *)
Weighed(c, m) ==
    \/ /\ m # Len(clusters) /\ ~Fits
       /\ c.sum = Current.ct /\ c.cnt = 1 /\ DOMAIN c.held = {Current.dev}
    \/ /\ m = Len(clusters) /\ Fits
       /\ \/ c.sum = clusters[m].sum + Current.ct /\ c.cnt = clusters[m].cnt + 1
          \/ c.sum = clusters[m].sum /\ c.cnt = clusters[m].cnt

LEMMA PlaceFacts ==
    ASSUME IInv, Place
    PROVE  /\ next \in 1..Len(entries) /\ next' = next + 1
           /\ UNCHANGED <<entries, events, done>>
           /\ Current.dev \in Device /\ Current.ct \in Int
<1>1. Placing /\ Advance
  BY DEF Place, Open, Join, Replace, Ignore
<1>2. next \in 1..Len(entries) + 1 /\ entries \in Seq(Entry)
  BY DEF IInv, InTime, Placed
<1>3. next \in 1..Len(entries)
  BY <1>1, <1>2 DEF Placing
<1>4. entries[next] \in Entry
  BY <1>2, <1>3
<1>5. next' = next + 1 /\ UNCHANGED <<entries, events, done>>
  BY <1>1 DEF Advance
<1>6. Current.dev \in Device /\ Current.ct \in Int
  BY <1>4 DEF Entry, Current
<1> QED
  BY <1>3, <1>5, <1>6

LEMMA OpenEffect ==
    ASSUME IInv, Open, NEW m, m = Len(clusters) + 1
    PROVE  /\ clusters' \in Seq(ClusterRecord) /\ Len(clusters') = m
           /\ \A k \in 1..m - 1 : clusters'[k] = clusters[k]
           /\ clusters'[m] = [held |-> [d \in {Current.dev} |-> next],
                              sum |-> Current.ct, cnt |-> 1]
           /\ Grown(clusters'[m], m)
<1> DEFINE c == [held |-> [d \in {Current.dev} |-> next], sum |-> Current.ct, cnt |-> 1]
<1>1. /\ next \in 1..Len(entries) /\ Current.dev \in Device /\ Current.ct \in Int
      /\ Len(entries) \in Nat /\ clusters \in Seq(ClusterRecord)
  BY PlaceFacts DEF Place, IInv, Placed, InTime
<1>2. c \in ClusterRecord
  <2>1. [d \in {Current.dev} |-> next] \in [{Current.dev} -> Nat]
    BY <1>1
  <2>2. {Current.dev} \in SUBSET Device
    BY <1>1
  <2> QED
    BY <1>1, <2>1, <2>2 DEF ClusterRecord
<1>3. clusters' = Append(clusters, c)
  BY DEF Open
<1> HIDE DEF c
<1>4. /\ clusters' \in Seq(ClusterRecord) /\ Len(clusters') = m
      /\ \A k \in 1..m - 1 : clusters'[k] = clusters[k]
      /\ clusters'[m] = c
  BY <1>1, <1>2, <1>3
<1>5. c.held = [d \in {Current.dev} |-> next] /\ c.sum = Current.ct /\ c.cnt = 1
  BY DEF c
<1>6. IsFiniteSet({Current.dev}) /\ Cardinality({Current.dev}) = 1
  BY FS_Singleton
<1>7. m # Len(clusters)
  BY <1>1
<1>8. Grown(c, m)
  BY <1>1, <1>5, <1>6, <1>7 DEF Grown
<1> QED
  BY <1>4, <1>8 DEF c

LEMMA TakeEffect ==
    ASSUME IInv, NEW m, m = Len(clusters), Join \/ Replace
    PROVE  /\ m \in Nat \ {0} /\ Fits
           /\ clusters' \in Seq(ClusterRecord) /\ Len(clusters') = m
           /\ \A k \in 1..m - 1 : clusters'[k] = clusters[k]
           /\ Grown(clusters'[m], m)
           /\ \/ /\ clusters'[m].sum = clusters[m].sum + Current.ct
                 /\ clusters'[m].cnt = clusters[m].cnt + 1
              \/ /\ clusters'[m].sum = clusters[m].sum
                 /\ clusters'[m].cnt = clusters[m].cnt
<1> DEFINE old == clusters[m]
           dev == Current.dev
           c == clusters'[m]
<1>1. /\ next \in 1..Len(entries) /\ dev \in Device /\ Current.ct \in Int
      /\ Len(entries) \in Nat /\ clusters \in Seq(ClusterRecord)
  BY PlaceFacts DEF Place, IInv, Placed, InTime
<1>2. Fits /\ m \in Nat \ {0} /\ Newest = old
  <2>1. clusters # << >> /\ Fits
    BY DEF Join, Replace, Fits
  <2>2. Len(clusters) # 0
    BY <1>1, <2>1
  <2> QED
    BY <1>1, <2>1, <2>2 DEF Newest
<1>3. m \in Cluster /\ Owns(old)
  BY <1>2 DEF IInv, Owned, Cluster
<1>4. PICK sum, cnt :
        /\ clusters' = [clusters EXCEPT ![m] = [held |-> Holding(old.held, next),
                                                sum |-> sum, cnt |-> cnt]]
        /\ \/ dev \notin DOMAIN old.held /\ sum = old.sum + Current.ct /\ cnt = old.cnt + 1
           \/ dev \in DOMAIN old.held /\ sum = old.sum /\ cnt = old.cnt
  BY <1>2 DEF Join, Replace
<1> DEFINE held == Holding(old.held, next)
<1>5. /\ DOMAIN held = DOMAIN old.held \cup {dev}
      /\ held[dev] = next
      /\ \A d \in DOMAIN old.held : d # dev => held[d] = old.held[d]
      /\ held = [d \in DOMAIN held |-> held[d]]
  BY DEF Holding, Current
<1> HIDE DEF held, old, dev
<1>6. /\ DOMAIN old.held \subseteq Device /\ IsFiniteSet(DOMAIN old.held)
      /\ \A d \in DOMAIN old.held : old.held[d] \in 1..next - 1
      /\ old.sum \in Int /\ old.cnt = Cardinality(DOMAIN old.held)
  BY <1>3 DEF Owns
<1>7. /\ IsFiniteSet(DOMAIN held) /\ cnt = Cardinality(DOMAIN held)
      /\ cnt \in Nat /\ sum \in Int
  <2>1. Cardinality(DOMAIN old.held) \in Nat
    BY <1>6, FS_CardinalityType
  <2>2. /\ IsFiniteSet(DOMAIN held)
        /\ Cardinality(DOMAIN held) = IF dev \in DOMAIN old.held THEN Cardinality(DOMAIN old.held)
                                      ELSE Cardinality(DOMAIN old.held) + 1
    BY <1>5, <1>6, FS_AddElement
  <2> QED
    BY <1>1, <1>4, <1>6, <2>1, <2>2
<1> DEFINE new == [held |-> held, sum |-> sum, cnt |-> cnt]
<1>8. new \in ClusterRecord
  <2>1. held \in [DOMAIN held -> Nat]
    <3>1. \A d \in DOMAIN held : held[d] \in Nat
      BY <1>1, <1>5, <1>6
    <3> QED
      BY <1>5, <3>1
  <2>2. DOMAIN held \in SUBSET Device
    BY <1>1, <1>5, <1>6
  <2> QED
    BY <1>7, <2>1, <2>2 DEF ClusterRecord
<1>9. clusters' = [clusters EXCEPT ![m] = new]
  BY <1>4 DEF held
<1>10. new.held = held /\ new.sum = sum /\ new.cnt = cnt
  OBVIOUS
<1> HIDE DEF new
<1>11. /\ clusters' \in Seq(ClusterRecord) /\ Len(clusters') = m
       /\ \A k \in 1..m - 1 : clusters'[k] = clusters[k]
       /\ c = new
  BY <1>1, <1>2, <1>8, <1>9
<1>12. Grown(new, m)
  <2>1. DOMAIN held \subseteq Device /\ dev \in DOMAIN held /\ DOMAIN old.held \subseteq DOMAIN held
    BY <1>1, <1>5, <1>6
  <2>2. \A d \in DOMAIN held : \/ d = dev /\ held[d] = next
                               \/ d \in DOMAIN old.held /\ held[d] = old.held[d]
    BY <1>5
  <2> QED
    BY <1>7, <1>10, <2>1, <2>2 DEF Grown, old, dev
<1> QED
  BY <1>2, <1>4, <1>10, <1>11, <1>12 DEF old

(* One description of all four steps. *)
LEMMA PlaceEffect ==
    ASSUME IInv, Place
    PROVE  \E m \in {Len(clusters), Len(clusters) + 1} :
             /\ m \in Nat \ {0} /\ Len(clusters) \in Nat
             /\ clusters' \in Seq(ClusterRecord) /\ Len(clusters') = m
             /\ \A k \in 1..m - 1 : clusters'[k] = clusters[k]
             /\ Grown(clusters'[m], m)
             /\ Weighed(clusters'[m], m)
<1>1. clusters \in Seq(ClusterRecord) /\ Len(clusters) \in Nat
  BY DEF IInv, Placed
<1>2. CASE Open
  <2> DEFINE m == Len(clusters) + 1
  <2>1. m \in Nat \ {0}
    BY <1>1
  <2>2. /\ clusters' \in Seq(ClusterRecord) /\ Len(clusters') = m
        /\ \A k \in 1..m - 1 : clusters'[k] = clusters[k]
        /\ clusters'[m].sum = Current.ct /\ clusters'[m].cnt = 1
        /\ DOMAIN clusters'[m].held = {Current.dev}
        /\ Grown(clusters'[m], m)
    BY <1>2, OpenEffect
  <2>3. Weighed(clusters'[m], m)
    BY <1>1, <1>2, <2>2 DEF Weighed, Open
  <2> QED
    BY <1>1, <2>1, <2>2, <2>3
<1>3. CASE Join \/ Replace
  <2> DEFINE m == Len(clusters)
  <2>1. /\ m \in Nat \ {0} /\ clusters' \in Seq(ClusterRecord) /\ Len(clusters') = m
        /\ \A k \in 1..m - 1 : clusters'[k] = clusters[k]
        /\ Grown(clusters'[m], m)
    BY <1>3, TakeEffect
  <2>2. Weighed(clusters'[m], m)
    BY <1>3, TakeEffect DEF Weighed
  <2> QED
    BY <1>1, <2>1, <2>2
<1>4. CASE Ignore
  <2>1. clusters' = clusters /\ Fits /\ clusters # << >> /\ Current.dev \in DOMAIN Newest.held
    BY <1>4 DEF Ignore, Fits
  <2>2. Len(clusters) \in Nat \ {0}
    BY <1>1, <2>1
  <2> DEFINE m == Len(clusters)
  <2>3. Owns(clusters[m]) /\ Current.dev \in DOMAIN clusters[m].held
    BY <2>1, <2>2 DEF IInv, Owned, Cluster, Newest
  <2>4. Grown(clusters[m], m)
    BY <2>3 DEF Grown, Owns
  <2>5. Weighed(clusters[m], m)
    BY <2>1 DEF Weighed
  <2> QED
    BY <1>1, <2>1, <2>2, <2>4, <2>5
<1> QED
  BY <1>2, <1>3, <1>4 DEF Place

LEMMA PlaceIInv ==
    ASSUME IInv, Place
    PROVE  IInv'
<1>1. /\ next \in 1..Len(entries) /\ next' = next + 1
      /\ UNCHANGED <<entries, events, done>>
      /\ Current.dev \in Device
  BY PlaceFacts
<1>2. PICK m \in {Len(clusters), Len(clusters) + 1} :
             /\ m \in Nat \ {0} /\ Len(clusters) \in Nat
             /\ clusters' \in Seq(ClusterRecord) /\ Len(clusters') = m
             /\ \A k \in 1..m - 1 : clusters'[k] = clusters[k]
             /\ Grown(clusters'[m], m)
  BY PlaceEffect
<1>3. InTime /\ Placed /\ Owned /\ Ordered /\ Covered /\ Resulting
  BY DEF IInv
<1>4. Len(entries) \in Nat /\ next - 1 \in Nat /\ next \in Nat /\ next \in Int
  BY <1>1, <1>3 DEF InTime
<1>5. InTime'
  BY <1>1, <1>3 DEF InTime
<1>6. Placed'
  BY <1>1, <1>2, <1>3, <1>4 DEF Placed
<1>7. \A k \in 1..m - 1 : k \in Cluster /\ clusters'[k] = clusters[k] /\ Owns(clusters[k])
  BY <1>2, <1>3 DEF Cluster, Owned
<1>8. \A d \in DOMAIN clusters'[m].held :
         \/ clusters'[m].held[d] = next /\ d = Current.dev
         \/ /\ m \in Cluster /\ d \in DOMAIN clusters[m].held
            /\ clusters'[m].held[d] = clusters[m].held[d]
  BY <1>2 DEF Grown, Cluster
<1>9. Cluster' = 1..m /\ Cluster \subseteq 1..m /\ m \in 1..m
  BY <1>2 DEF Cluster
<1>10. Owned'
  <2> SUFFICES ASSUME NEW k \in 1..m PROVE Owns(clusters[k])'
    BY <1>9 DEF Owned
  <2>1. CASE k # m
    <3>1. k \in 1..m - 1
      BY <1>2, <2>1
    <3>2. clusters'[k] = clusters[k] /\ Owns(clusters[k])
      BY <1>7, <3>1
    <3> QED
      BY <1>1, <1>4, <3>2 DEF Owns
  <2>2. CASE k = m
    <3> DEFINE c == clusters'[m]
    <3>1. \A d \in DOMAIN c.held : c.held[d] \in 1..next /\ entries[c.held[d]].dev = d
      <4> TAKE d \in DOMAIN c.held
      <4>1. CASE c.held[d] = next /\ d = Current.dev
        BY <1>1, <4>1 DEF Current
      <4>2. CASE m \in Cluster /\ d \in DOMAIN clusters[m].held /\ c.held[d] = clusters[m].held[d]
        <5>1. c.held[d] \in 1..next - 1 /\ entries[c.held[d]].dev = d
          BY <1>3, <4>2 DEF Owned, Owns
        <5> HIDE DEF c
        <5>2. \A x \in 1..next - 1 : x \in 1..next
          BY <1>4
        <5> QED
          BY <5>1, <5>2
      <4> QED
        BY <1>8, <4>1, <4>2
    <3>2. /\ DOMAIN c.held \subseteq Device /\ IsFiniteSet(DOMAIN c.held)
          /\ DOMAIN c.held # {}
          /\ c.sum \in Int /\ c.cnt = Cardinality(DOMAIN c.held)
      BY <1>2 DEF Grown
    <3>3. next' - 1 = next
      BY <1>1, <1>4
    <3> QED
      BY <1>1, <2>2, <3>1, <3>2, <3>3 DEF Owns
  <2> QED
    BY <2>1, <2>2
<1>11. Ordered'
  <2> SUFFICES ASSUME NEW k \in 1..m, NEW j \in 1..k - 1,
                      NEW d \in DOMAIN clusters'[j].held, NEW e \in DOMAIN clusters'[k].held
               PROVE  clusters'[j].held[d] < clusters'[k].held[e]
    BY <1>9 DEF Ordered
  <2>1. j \in 1..m - 1 /\ j \in Cluster /\ clusters'[j] = clusters[j]
    BY <1>2, <1>7
  <2>2. clusters[j].held[d] \in 1..next - 1
    BY <1>3, <2>1 DEF Owned, Owns
  <2>3. CASE k # m
    <3>1. k \in 1..m - 1
      BY <1>2, <2>3
    <3>2. k \in Cluster /\ clusters'[k] = clusters[k]
      BY <1>7, <3>1
    <3> QED
      BY <1>3, <2>1, <3>2 DEF Ordered
  <2>4. CASE k = m
    <3>1. CASE clusters'[m].held[e] = next
      <4>1. \A x \in 1..next - 1 : x < next
        BY <1>4
      <4>2. clusters[j].held[d] < next
        BY <2>1, <2>2, <4>1
      <4> QED
        BY <2>1, <2>4, <3>1, <4>2
    <3>2. CASE /\ m \in Cluster /\ e \in DOMAIN clusters[m].held
               /\ clusters'[m].held[e] = clusters[m].held[e]
      BY <1>3, <2>1, <2>4, <3>2 DEF Ordered
    <3> QED
      BY <1>8, <2>4, <3>1, <3>2
  <2> QED
    BY <2>3, <2>4
<1>12. Covered'
  <2> SUFFICES ASSUME NEW p \in 1..next PROVE \E k \in 1..m : CoveredBy(p, k)'
    BY <1>1, <1>4, <1>9 DEF Covered
  <2>1. CASE p = next
    <3>1. entries'[p].dev \in DOMAIN clusters'[m].held
      BY <1>1, <1>2, <2>1 DEF Grown, Current
    <3>2. ASSUME NEW j \in 1..m - 1
          PROVE  \E d \in DOMAIN clusters'[j].held : clusters'[j].held[d] < p
      <4>1. clusters'[j] = clusters[j] /\ Owns(clusters[j])
        BY <1>7
      <4>2. PICK d \in DOMAIN clusters[j].held : TRUE
        BY <4>1 DEF Owns
      <4>3. clusters[j].held[d] \in 1..next - 1
        BY <4>1 DEF Owns
      <4> QED
        BY <1>4, <2>1, <4>1, <4>2, <4>3
    <3>3. m + 1..Len(clusters') = {}
      BY <1>2
    <3> QED
      BY <1>9, <3>1, <3>2, <3>3 DEF CoveredBy
  <2>2. CASE p # next
    <3>1. p \in 1..next - 1
      BY <1>1, <1>4, <2>2
    <3>2. PICK k \in Cluster : CoveredBy(p, k)
      BY <1>3, <3>1 DEF Covered
    <3>3. k \in 1..m /\ k \in Nat
      BY <1>9 DEF Cluster
    <3>4. entries'[p].dev \in DOMAIN clusters'[k].held
      <4>1. CASE k # m
        BY <1>1, <1>2, <1>7, <3>2, <3>3, <4>1 DEF CoveredBy
      <4>2. CASE k = m
        <5>1. m = Len(clusters)
          BY <1>2, <4>2 DEF Cluster
        <5> QED
          BY <1>1, <1>2, <3>2, <4>2, <5>1 DEF CoveredBy, Grown
      <4> QED
        BY <4>1, <4>2
    <3>5. ASSUME NEW j \in 1..k - 1
          PROVE  \E d \in DOMAIN clusters'[j].held : clusters'[j].held[d] < p
      <4>1. j \in 1..m - 1
        BY <1>2, <3>3
      <4>2. clusters'[j] = clusters[j]
        BY <1>7, <4>1
      <4> QED
        BY <3>2, <4>2 DEF CoveredBy
    <3>6. ASSUME NEW j \in k + 1..m, NEW d \in DOMAIN clusters'[j].held
          PROVE  p < clusters'[j].held[d]
      <4>1. ASSUME j \in Cluster PROVE j \in k + 1..Len(clusters)
        BY <1>2, <3>3, <4>1 DEF Cluster
      <4>2. CASE j # m
        <5>1. j \in 1..m - 1
          BY <1>2, <3>3, <4>2
        <5> QED
          BY <1>7, <3>2, <4>1, <5>1 DEF CoveredBy
      <4>3. CASE j = m
        <5>1. CASE clusters'[m].held[d] = next
          <6>1. p < next
            BY <1>4, <3>1
          <6> QED
            BY <4>3, <5>1, <6>1
        <5>2. CASE /\ m \in Cluster /\ d \in DOMAIN clusters[m].held
                   /\ clusters'[m].held[d] = clusters[m].held[d]
          BY <3>2, <4>1, <4>3, <5>2 DEF CoveredBy
        <5> QED
          BY <1>8, <4>3, <5>1, <5>2
      <4> QED
        BY <4>2, <4>3
    <3> QED
      BY <1>2, <3>3, <3>4, <3>5, <3>6 DEF CoveredBy
  <2> QED
    BY <2>1, <2>2
<1>13. Resulting'
  <2>1. ~done
    BY <1>1, <1>3, <1>4 DEF Resulting, Placed
  <2> QED
    BY <1>1, <1>3, <2>1 DEF Resulting
<1> QED
  BY <1>5, <1>6, <1>10, <1>11, <1>12, <1>13 DEF IInv

LEMMA NextIInv == IInv /\ [Next]_vars => IInv'
<1> SUFFICES ASSUME IInv, [Next]_vars PROVE IInv'
  OBVIOUS
<1>1. CASE Place
  BY <1>1, PlaceIInv
<1>2. CASE Finish \/ UNCHANGED vars
  <2>1. UNCHANGED <<entries, next, clusters>>
    BY <1>2 DEF Finish, vars
  <2>2. InTime' /\ Owned' /\ Ordered' /\ Covered'
    BY <2>1 DEF IInv, InTime, Owned, Owns, Ordered, Covered, CoveredBy, Cluster
  <2>3. Placed'
    BY <1>2, <2>1 DEF IInv, Placed, Finish, vars
  <2>4. Resulting'
    <3>1. CASE Finish
      <4>1. next = Len(entries) + 1
        BY <3>1 DEF Finish, Placing, IInv, InTime, Placed
      <4> QED
        BY <2>1, <3>1, <4>1 DEF Finish, Resulting, Kept, Enough, Observations
    <3>2. CASE UNCHANGED vars
      BY <3>2 DEF vars, IInv, Resulting, Kept, Enough, Observations
    <3> QED
      BY <1>2, <3>1, <3>2
  <2> QED
    BY <2>2, <2>3, <2>4 DEF IInv
<1> QED
  BY <1>1, <1>2 DEF Next, Place

(* What clusters hold, in which order, and that no detection is lost.      *)
THEOREM InvariantHolds == Spec => []IInv
BY InitIInv, NextIInv, PTL DEF Spec

-----------------------------------------------------------------------------
(* The events are what the clusters that are kept hold, in their order.    *)
LEMMA KeptAscends ==
    ASSUME clusters \in Seq(ClusterRecord)
    PROVE  \E n \in Nat :
             /\ DOMAIN Kept = 1..n
             /\ \A k \in 1..n : Kept[k] \in Cluster /\ Enough(clusters[Kept[k]])
             /\ \A j, k \in 1..n : j < k => Kept[j] < Kept[k]
             /\ \A c \in Cluster : Enough(clusters[c]) => \E k \in 1..n : Kept[k] = c
<1> DEFINE S == {k \in 1..Len(clusters) : Enough(clusters[k])}
           n == Cardinality(S)
<1>1. Len(clusters) \in Nat
  OBVIOUS
<1>2. S \in SUBSET Int /\ IsFiniteSet(S)
  <2>1. IsFiniteSet(1..Len(clusters))
    BY <1>1, UpTo
  <2>2. S \in SUBSET (1..Len(clusters))
    OBVIOUS
  <2> HIDE DEF S
  <2>3. IsFiniteSet(S)
    BY <2>1, <2>2, FS_Subset
  <2> QED
    BY <1>1, <2>2, <2>3
<1>3. Kept = Ascending(S)
  BY DEF Kept
<1>4. \A k \in S : k \in Cluster /\ Enough(clusters[k])
  BY DEF Cluster
<1>5. \A c \in Cluster : Enough(clusters[c]) => c \in S
  BY DEF Cluster
<1> HIDE DEF S
<1>6. /\ n \in Nat /\ Kept \in [1..n -> S]
      /\ \A j, k \in 1..n : j < k => Kept[j] < Kept[k]
      /\ \A x \in S : \E k \in 1..n : Kept[k] = x
  BY <1>2, <1>3, Ascends
<1> HIDE DEF n
<1> QED
  BY <1>4, <1>5, <1>6

LEMMA FirstHeld ==
    ASSUME IInv, NEW k \in Cluster
    PROVE  /\ \E d \in DOMAIN clusters[k].held : FirstOf(clusters[k]) = clusters[k].held[d]
           /\ \A d \in DOMAIN clusters[k].held : FirstOf(clusters[k]) <= clusters[k].held[d]
<1> DEFINE c == clusters[k]
           S == DOMAIN c.held
<1>1. Owns(c) /\ next - 1 \in Int
  BY DEF IInv, Owned, Placed, InTime
<1>2. c \in ClusterRecord
  BY DEF IInv, Placed, Cluster
<1> HIDE DEF c
<1>3. c.held \in [S -> Nat]
  BY <1>2 DEF ClusterRecord
<1>4. c.held \in [S -> Int] /\ IsFiniteSet(S) /\ S # {}
  BY <1>1, <1>3 DEF Owns
<1>5. PICK a \in S : \A d \in S : c.held[a] <= c.held[d]
  <2> DEFINE h == c.held
  <2>1. h \in [S -> Int]
    BY <1>4
  <2> HIDE DEF S, h
  <2>2. \E a \in S : \A d \in S : h[a] <= h[d]
    BY <1>4, <2>1, LeastValue
  <2> QED
    BY <2>2 DEF h
<1>6. \E p \in {c.held[d] : d \in DOMAIN c.held} : \A d \in DOMAIN c.held : p <= c.held[d]
  BY <1>5
<1>7. /\ FirstOf(c) \in {c.held[d] : d \in DOMAIN c.held}
      /\ \A d \in DOMAIN c.held : FirstOf(c) <= c.held[d]
  BY <1>6 DEF FirstOf
<1> QED
  BY <1>7 DEF c

LEMMA ClustersAccount == IInv => ClusterInv
<1> SUFFICES ASSUME IInv PROVE ClusterInv
  OBVIOUS
<1>1. InTime /\ Placed /\ Owned /\ Ordered /\ Covered /\ Resulting
  BY DEF IInv
<1>2. /\ Len(entries) \in Nat /\ next \in Int /\ Len(clusters) \in Nat
      /\ \A k \in Cluster : k \in Nat
  BY <1>1 DEF InTime, Placed, Cluster
<1>3. TypeOK
  BY <1>1 DEF InTime, Placed, Owned, Owns, TypeOK
<1>4. NoObserverLost
  <2> SUFFICES ASSUME NEW p \in 1..next - 1
               PROVE  \E k \in Cluster :
                        /\ entries[p].dev \in DOMAIN clusters[k].held
                        /\ \A j \in 1..k - 1 : FirstOf(clusters[j]) < p
                        /\ \A j \in k + 1..Len(clusters) : p < FirstOf(clusters[j])
    BY DEF NoObserverLost
  <2>1. PICK k \in Cluster : CoveredBy(p, k)
    BY <1>1 DEF Covered
  <2>2. \A j \in Cluster : /\ \E d \in DOMAIN clusters[j].held :
                                FirstOf(clusters[j]) = clusters[j].held[d]
                           /\ \A d \in DOMAIN clusters[j].held :
                                /\ FirstOf(clusters[j]) <= clusters[j].held[d]
                                /\ clusters[j].held[d] \in Int
    BY <1>1, <1>2, FirstHeld DEF Owned, Owns
  <2>3. ASSUME NEW j \in 1..k - 1 PROVE FirstOf(clusters[j]) < p
    <3>1. j \in Cluster
      BY <1>2 DEF Cluster
    <3>2. PICK d \in DOMAIN clusters[j].held : clusters[j].held[d] < p
      BY <2>1 DEF CoveredBy
    <3>3. FirstOf(clusters[j]) <= clusters[j].held[d] /\ clusters[j].held[d] \in Int
      BY <2>2, <3>1
    <3>4. FirstOf(clusters[j]) \in Int
      BY <2>2, <3>1
    <3> QED
      BY <1>2, <3>2, <3>3, <3>4
  <2>4. ASSUME NEW j \in k + 1..Len(clusters) PROVE p < FirstOf(clusters[j])
    <3>1. j \in Cluster
      BY <1>2 DEF Cluster
    <3> QED
      BY <2>1, <2>2, <3>1 DEF CoveredBy
  <2> QED
    BY <2>1, <2>3, <2>4 DEF CoveredBy
<1>5. NoCrossing
  <2>1. CASE ~done
    <3>1. DOMAIN events = {}
      BY <1>1, <2>1 DEF Resulting
    <3> QED
      BY <3>1 DEF NoCrossing
  <2>2. CASE done
    <3>1. events = [k \in DOMAIN Kept |-> Observations(clusters[Kept[k]])]
      BY <1>1, <2>2 DEF Resulting
    <3>2. PICK n \in Nat : /\ DOMAIN Kept = 1..n
                           /\ \A k \in 1..n : Kept[k] \in Cluster
                           /\ \A j, k \in 1..n : j < k => Kept[j] < Kept[k]
      BY <1>1, KeptAscends DEF Placed
    <3> SUFFICES ASSUME NEW j \in 1..n, NEW k \in 1..n, j < k,
                        NEW d \in DOMAIN events[j] \cap DOMAIN events[k]
                 PROVE  events[j][d] <= events[k][d]
      BY <3>1, <3>2 DEF NoCrossing
    <3> DEFINE a == Kept[j]
               b == Kept[k]
               p == clusters[a].held[d]
               q == clusters[b].held[d]
    <3>3. a \in Cluster /\ b \in Cluster /\ a \in 1..b - 1
      <4>1. a \in Cluster /\ b \in Cluster /\ a < b
        BY <3>2
      <4> QED
        BY <1>2, <4>1 DEF Cluster
    <3>4. /\ d \in DOMAIN clusters[a].held /\ d \in DOMAIN clusters[b].held
          /\ events[j][d] = Local(entries[p]) /\ events[k][d] = Local(entries[q])
      BY <3>1, <3>2 DEF Observations
    <3> HIDE DEF a, b
    <3>5. /\ p \in 1..next - 1 /\ q \in 1..next - 1 /\ p < q
          /\ entries[p].dev = d /\ entries[q].dev = d
      BY <1>1, <3>3, <3>4 DEF Owned, Owns, Ordered
    <3>6. p \in 1..Len(entries) /\ q \in 1..Len(entries)
      BY <1>1, <1>2, <3>5 DEF Placed
    <3> HIDE DEF p, q
    <3>7. entries[p] \in Entry /\ entries[q] \in Entry /\ entries[p].ct <= entries[q].ct
      BY <1>1, <3>5, <3>6 DEF InTime
    <3>8. entries[p].ct \in Int /\ entries[q].ct \in Int /\ Shift[d] \in Int
      BY <3>5, <3>7, ShiftAssumption DEF Entry
    <3> QED
      BY <3>4, <3>5, <3>7, <3>8 DEF Local
  <2> QED
    BY <1>1, <2>1, <2>2 DEF Placed
<1> QED
  BY <1>3, <1>4, <1>5 DEF ClusterInv

(* No detection is lost, each divisor counts what its cluster holds, and   *)
(* events do not cross.                                                    *)
THEOREM ClustersAreSound == Spec => []ClusterInv
BY InvariantHolds, ClustersAccount, PTL

LEMMA ClosedStep ==
    ASSUME IInv, [Next]_vars, NEW k \in Cluster
    PROVE  /\ k < Len(clusters) => clusters'[k] = clusters[k]
           /\ DOMAIN clusters[k].held \subseteq DOMAIN clusters'[k].held
<1>1. CASE Place
  <2>1. PICK m \in {Len(clusters), Len(clusters) + 1} :
             /\ m \in Nat \ {0} /\ Len(clusters) \in Nat
             /\ clusters' \in Seq(ClusterRecord) /\ Len(clusters') = m
             /\ \A i \in 1..m - 1 : clusters'[i] = clusters[i]
             /\ Grown(clusters'[m], m)
    BY <1>1, PlaceEffect
  <2>2. k < m => clusters'[k] = clusters[k]
    BY <2>1 DEF Cluster
  <2>3. ~(k < m) => k = m /\ m = Len(clusters)
    BY <2>1 DEF Cluster
  <2>4. k < Len(clusters) => k < m
    BY <2>1 DEF Cluster
  <2> QED
    BY <2>1, <2>2, <2>3, <2>4 DEF Grown
<1>2. CASE Finish \/ UNCHANGED vars
  BY <1>2 DEF Finish, vars
<1> QED
  BY <1>1, <1>2 DEF Next, Place

(* Only the newest cluster changes, and no cluster loses an observer.      *)
THEOREM ClosedForGood == Spec => ClosedStaysClosed
<1>1. IInv /\ [Next]_vars =>
        [\A k \in Cluster :
           /\ k < Len(clusters) => clusters'[k] = clusters[k]
           /\ DOMAIN clusters[k].held \subseteq DOMAIN clusters'[k].held]_vars
  BY ClosedStep
<1> QED
  BY <1>1, InvariantHolds, PTL DEF Spec, ClosedStaysClosed

-----------------------------------------------------------------------------
(* When the detections are well separated: what a cluster holds is close,  *)
(* what two clusters hold is not, every placed detection is close to what  *)
(* the cluster with its device holds, and every centroid lies between two  *)
(* placed detections that are close to what the cluster holds.             *)
Near(p, k) == \A d \in DOMAIN clusters[k].held : Close(p, clusters[k].held[d])

Together == \A k \in Cluster : \A d \in DOMAIN clusters[k].held : Near(clusters[k].held[d], k)

Apart == \A j, k \in Cluster : j # k =>
           \A d \in DOMAIN clusters[j].held, e \in DOMAIN clusters[k].held :
             ~Close(clusters[j].held[d], clusters[k].held[e])

Home(p, k) == entries[p].dev \in DOMAIN clusters[k].held /\ Near(p, k)

Homed == \A p \in 1..next - 1 : \E k \in Cluster : Home(p, k)

Between(k, a, b) ==
    /\ Near(a, k) /\ Near(b, k)
    /\ entries[a].ct * clusters[k].cnt <= clusters[k].sum
    /\ clusters[k].sum <= entries[b].ct * clusters[k].cnt

Centred == \A k \in Cluster : \E a, b \in 1..next - 1 : Between(k, a, b)

SepInv == WellSeparated => Together /\ Apart /\ Homed /\ Centred

(* A quotient sum / cnt within [a, b], and a point x not before b. *)
LEMMA Centroid ==
    ASSUME NEW x \in Int, NEW a \in Int, NEW b \in Int, NEW sum \in Int,
           NEW cnt \in Nat \ {0}, NEW tol \in Nat,
           a <= x, b <= x, a * cnt <= sum, sum <= b * cnt
    PROVE  /\ Abs(x * cnt - sum) <= tol * cnt => x - b <= tol
           /\ x - a <= tol => Abs(x * cnt - sum) <= tol * cnt
<1>1. x * cnt \in Int /\ a * cnt \in Int /\ b * cnt \in Int /\ tol * cnt \in Int
  OBVIOUS
<1>2. b * cnt <= x * cnt
  OBVIOUS
<1>3. Abs(x * cnt - sum) = x * cnt - sum
  <2>1. x * cnt - sum >= 0
    BY <1>1, <1>2
  <2> QED
    BY <1>1, <2>1 DEF Abs
<1>4. ASSUME Abs(x * cnt - sum) <= tol * cnt PROVE x - b <= tol
  <2> SUFFICES ASSUME x - b > tol PROVE FALSE
    OBVIOUS
  <2>1. (x - b) * cnt > tol * cnt
    OBVIOUS
  <2>2. (x - b) * cnt = x * cnt - b * cnt
    OBVIOUS
  <2> QED
    BY <1>1, <1>3, <1>4, <2>1, <2>2
<1>5. ASSUME x - a <= tol PROVE Abs(x * cnt - sum) <= tol * cnt
  <2>1. (x - a) * cnt <= tol * cnt
    BY <1>5
  <2>2. (x - a) * cnt = x * cnt - a * cnt
    OBVIOUS
  <2> QED
    BY <1>1, <1>3, <2>1, <2>2
<1> QED
  BY <1>4, <1>5

(* Closeness of detections.                                                *)
LEMMA Closeness ==
    ASSUME IInv
    PROVE  /\ \A p \in 1..Len(entries) : entries[p].ct \in Int /\ Close(p, p)
           /\ \A p, q \in 1..Len(entries) :
                /\ Close(p, q) => Close(q, p)
                /\ p <= q => (Close(p, q) <=> entries[q].ct - entries[p].ct <= Tolerance)
           /\ \A p, q, r \in 1..Len(entries) : p <= q /\ q <= r /\ Close(p, r) => Close(q, r)
<1>1. /\ Len(entries) \in Nat
      /\ \A p \in 1..Len(entries) : entries[p].ct \in Int
      /\ \A p, q \in 1..Len(entries) : p <= q => entries[p].ct <= entries[q].ct
  <2>1. entries \in Seq(Entry)
    BY DEF IInv, InTime
  <2>2. \A p \in 1..Len(entries) : entries[p] \in Entry
    BY <2>1
  <2>3. \A p \in 1..Len(entries) : entries[p].ct \in Int
    BY <2>2 DEF Entry
  <2>4. \A p, q \in 1..Len(entries) : p < q => entries[p].ct <= entries[q].ct
    BY DEF IInv, InTime
  <2> QED
    BY <2>1, <2>3, <2>4
<1>2. Tolerance \in Nat
  BY ToleranceAssumption
<1>3. \A p \in 1..Len(entries) : Close(p, p)
  BY <1>1, <1>2 DEF Close, Abs
<1>4. ASSUME NEW p \in 1..Len(entries), NEW q \in 1..Len(entries)
      PROVE  /\ Close(p, q) => Close(q, p)
             /\ p <= q => (Close(p, q) <=> entries[q].ct - entries[p].ct <= Tolerance)
  BY <1>1, <1>2 DEF Close, Abs
<1>5. ASSUME NEW p \in 1..Len(entries), NEW q \in 1..Len(entries), NEW r \in 1..Len(entries),
             p <= q, q <= r, Close(p, r)
      PROVE  Close(q, r)
  <2>1. p <= r
    BY <1>5
  <2>2. entries[r].ct - entries[p].ct <= Tolerance
    BY <1>4, <1>5, <2>1
  <2>3. entries[p].ct <= entries[q].ct
    BY <1>1, <1>5
  <2>4. entries[r].ct - entries[q].ct <= Tolerance
    BY <1>1, <1>2, <2>2, <2>3
  <2> QED
    BY <1>4, <1>5, <2>4
<1> QED
  BY <1>1, <1>3, <1>4, <1>5

(* The next detection goes into the newest cluster just when it is close   *)
(* to what that cluster holds.                                             *)
LEMMA FitsIsNear ==
    ASSUME IInv, SepInv, WellSeparated, Placing, clusters # << >>
    PROVE  LET m == Len(clusters) IN
           /\ m \in Cluster
           /\ Fits => Near(next, m)
           /\ (\E d \in DOMAIN clusters[m].held : Close(next, clusters[m].held[d])) => Fits
<1> DEFINE m == Len(clusters)
           t == next
<1>1. InTime /\ Placed /\ Owned /\ Len(entries) \in Nat
  BY DEF IInv, InTime
<1>2. m \in Cluster /\ t \in 1..Len(entries) /\ Newest = clusters[m]
  <2>1. m \in Nat /\ m # 0
    BY <1>1 DEF Placed
  <2> QED
    BY <1>1, <2>1 DEF Cluster, Placed, Placing, Newest
<1>3. PICK a \in 1..t - 1, b \in 1..t - 1 : Between(m, a, b)
  BY <1>2 DEF SepInv, Centred
<1>4. /\ a \in 1..Len(entries) /\ b \in 1..Len(entries) /\ a < t /\ b < t
      /\ \A d \in DOMAIN clusters[m].held : clusters[m].held[d] \in 1..Len(entries)
  <2>1. \A x \in 1..t - 1 : x \in 1..Len(entries) /\ x < t
    BY <1>1, <1>2
  <2> QED
    BY <1>1, <1>2, <2>1 DEF Owned, Owns
<1>5. /\ clusters[m].sum \in Int /\ clusters[m].cnt \in Nat \ {0}
      /\ DOMAIN clusters[m].held # {}
  <2>1. Owns(clusters[m])
    BY <1>1, <1>2 DEF Owned
  <2>2. Cardinality(DOMAIN clusters[m].held) \in Nat \ {0}
    BY <2>1, FS_CardinalityType, FS_EmptySet DEF Owns
  <2> QED
    BY <2>1, <2>2 DEF Owns
<1> DEFINE x == entries[t].ct
           xa == entries[a].ct
           xb == entries[b].ct
           sum == clusters[m].sum
           cnt == clusters[m].cnt
<1>6. x \in Int /\ xa \in Int /\ xb \in Int /\ Tolerance \in Nat
  BY <1>2, <1>4, Closeness, ToleranceAssumption
<1>7. xa <= x /\ xb <= x
  BY <1>1, <1>2, <1>4 DEF InTime
<1>8. xa * cnt <= sum /\ sum <= xb * cnt
  BY <1>3 DEF Between
<1>9. Fits <=> Abs(x * cnt - sum) <= Tolerance * cnt
  BY <1>2 DEF Fits, Within, Distance, Current
<1>10. sum \in Int /\ cnt \in Nat \ {0}
  BY <1>5
<1>11. ~Fits \/ x - xb <= Tolerance
  <2> HIDE DEF x, xa, xb, sum, cnt
  <2> QED
    BY <1>6, <1>7, <1>8, <1>9, <1>10, Centroid
<1>12. Fits \/ ~(x - xa <= Tolerance)
  <2> HIDE DEF x, xa, xb, sum, cnt
  <2> QED
    BY <1>6, <1>7, <1>8, <1>9, <1>10, Centroid
<1>13. \A p, q, r \in 1..Len(entries) :
         /\ Close(p, q) => Close(q, p)
         /\ p <= q => (Close(p, q) <=> entries[q].ct - entries[p].ct <= Tolerance)
         /\ Close(p, q) /\ Close(q, r) => Close(p, r)
  BY Closeness DEF WellSeparated
<1>14. ASSUME Fits PROVE Near(t, m)
  <2>1. b <= t
    BY <1>2, <1>4
  <2>2. Close(t, b)
    BY <1>2, <1>4, <1>11, <1>13, <1>14, <2>1
  <2>3. ASSUME NEW d \in DOMAIN clusters[m].held PROVE Close(t, clusters[m].held[d])
    <3>1. Close(b, clusters[m].held[d])
      BY <1>3 DEF Between, Near
    <3> QED
      BY <1>2, <1>4, <1>13, <2>2, <3>1
  <2> QED
    BY <2>3 DEF Near
<1>15. ASSUME NEW d \in DOMAIN clusters[m].held, Close(t, clusters[m].held[d]) PROVE Fits
  <2>1. Close(a, clusters[m].held[d])
    BY <1>3 DEF Between, Near
  <2>2. Close(clusters[m].held[d], t)
    BY <1>2, <1>4, <1>13, <1>15
  <2>3. Close(a, t)
    BY <1>2, <1>4, <1>13, <2>1, <2>2
  <2>4. a <= t
    BY <1>2, <1>4
  <2>5. x - xa <= Tolerance
    BY <1>2, <1>4, <1>13, <2>3, <2>4
  <2> QED
    BY <1>12, <2>5
<1> QED
  BY <1>2, <1>14, <1>15

LEMMA SepPlace ==
    ASSUME IInv, SepInv, WellSeparated, Place, NEW t, t = next
    PROVE  (Together /\ Apart /\ Homed /\ Centred)'
<1> DEFINE Pos == 1..Len(entries)
<1>1. /\ t \in Pos /\ next' = t + 1 /\ entries' = entries
      /\ Current.ct = entries[t].ct /\ Current.dev = entries[t].dev
  BY PlaceFacts DEF Current
<1>2. PICK m \in {Len(clusters), Len(clusters) + 1} :
             /\ m \in Nat \ {0} /\ Len(clusters) \in Nat
             /\ Len(clusters') = m
             /\ \A k \in 1..m - 1 : clusters'[k] = clusters[k]
             /\ Grown(clusters'[m], m)
             /\ Weighed(clusters'[m], m)
  BY PlaceEffect
<1>3. InTime /\ Placed /\ Owned /\ Ordered /\ Together /\ Apart /\ Homed /\ Centred
  BY DEF IInv, SepInv
<1>4. /\ \A p \in Pos : Close(p, p) /\ entries[p].ct \in Int
      /\ \A p, q \in Pos : Close(p, q) => Close(q, p)
      /\ \A p, q, r \in Pos : Close(p, q) /\ Close(q, r) => Close(p, r)
      /\ \A p, q, r \in Pos : p <= q /\ q <= r /\ Close(p, r) => Close(q, r)
  BY Closeness DEF WellSeparated
<1>5. Len(entries) \in Nat /\ \A p \in 1..t - 1 : p \in Pos /\ p < t
  BY <1>1, <1>3 DEF InTime
<1>6. \A k \in Cluster : /\ DOMAIN clusters[k].held # {}
                         /\ \A d \in DOMAIN clusters[k].held :
                              /\ clusters[k].held[d] \in Pos
                              /\ clusters[k].held[d] \in 1..t - 1
  BY <1>3, <1>5 DEF Owned, Owns
<1>7. Cluster' = 1..m /\ \A k \in 1..m - 1 : k \in Cluster
  BY <1>2 DEF Cluster
<1>8. m = Len(clusters) => m \in Cluster /\ Near(t, m) /\ Fits
  <2> SUFFICES ASSUME m = Len(clusters) PROVE m \in Cluster /\ Near(t, m) /\ Fits
    OBVIOUS
  <2>1. Fits /\ m \in Cluster
    BY <1>2 DEF Weighed, Cluster
  <2>2. Placing /\ clusters # << >>
    BY <2>1 DEF Fits, Place, Open, Join, Replace, Ignore
  <2> QED
    BY <2>1, <2>2, FitsIsNear
<1>9. ASSUME NEW j \in 1..m - 1, NEW d \in DOMAIN clusters[j].held
      PROVE  ~Close(t, clusters[j].held[d])
  <2> DEFINE q == clusters[j].held[d]
  <2> SUFFICES ASSUME Close(t, q) PROVE FALSE
    OBVIOUS
  <2>1. j \in Cluster /\ q \in Pos /\ q \in 1..t - 1 /\ Close(q, t)
    BY <1>1, <1>4, <1>6, <1>7
  <2>2. CASE m = Len(clusters)
    <3>1. m \in Cluster /\ Near(t, m) /\ j # m
      BY <1>2, <1>8, <2>2
    <3>2. PICK e \in DOMAIN clusters[m].held : clusters[m].held[e] \in Pos
      BY <1>6, <3>1
    <3>3. Close(t, clusters[m].held[e])
      BY <3>1 DEF Near
    <3>4. Close(q, clusters[m].held[e])
      <4> HIDE DEF q
      <4> QED
        BY <1>1, <1>4, <2>1, <3>2, <3>3
    <3> QED
      BY <1>3, <2>1, <3>1, <3>4 DEF Apart
  <2>3. CASE m # Len(clusters)
    <3> DEFINE n == Len(clusters)
    <3>1. ~Fits /\ n \in Cluster /\ clusters # << >> /\ Placing
      <4>1. clusters # << >> /\ n \in Cluster
        BY <1>2, <2>1 DEF Cluster
      <4>2. Placing
        BY DEF Place, Open, Join, Replace, Ignore
      <4> QED
        BY <1>2, <2>3, <4>1, <4>2 DEF Weighed
    <3>2. \A e \in DOMAIN clusters[n].held : ~Close(t, clusters[n].held[e])
      BY <3>1, FitsIsNear
    <3>3. j # n
      BY <3>2
    <3>4. j \in 1..n - 1
      BY <1>2, <2>1, <3>3 DEF Cluster
    <3>5. PICK e \in DOMAIN clusters[n].held :
                 clusters[n].held[e] \in Pos /\ clusters[n].held[e] \in 1..t - 1
      BY <1>6, <3>1
    <3> DEFINE r == clusters[n].held[e]
    <3>6. q < r
      BY <1>3, <3>1, <3>4, <3>5 DEF Ordered
    <3>7. r \in Pos /\ r < t /\ ~Close(t, r)
      BY <1>5, <3>2, <3>5
    <3>8. q \in Pos /\ Close(q, t)
      BY <2>1
    <3> HIDE DEF q, r
    <3>9. q <= r /\ r <= t
      BY <1>1, <1>5, <3>6, <3>7, <3>8
    <3> QED
      BY <1>1, <1>4, <3>7, <3>8, <3>9
  <2> QED
    BY <2>2, <2>3
<1> DEFINE held == clusters'[m].held
<1>10. \A d \in DOMAIN held : held[d] \in Pos /\ Close(t, held[d])
  <2> TAKE d \in DOMAIN held
  <2>1. CASE held[d] = t
    BY <1>1, <1>4, <2>1
  <2>2. CASE m = Len(clusters) /\ d \in DOMAIN clusters[m].held /\ held[d] = clusters[m].held[d]
    BY <1>6, <1>8, <2>2 DEF Near
  <2> QED
    BY <1>2, <2>1, <2>2 DEF Grown
<1>11. ASSUME NEW p \in Pos, Close(p, t) PROVE \A d \in DOMAIN held : Close(p, held[d])
  <2> HIDE DEF held
  <2> QED
    BY <1>1, <1>4, <1>10, <1>11
<1>12. ASSUME m = Len(clusters), NEW p \in Pos, Near(p, m) PROVE Close(p, t)
  <2>1. m \in Cluster /\ Near(t, m)
    BY <1>8, <1>12
  <2>2. PICK d \in DOMAIN clusters[m].held : clusters[m].held[d] \in Pos
    BY <1>6, <2>1
  <2>3. Close(p, clusters[m].held[d]) /\ Close(t, clusters[m].held[d])
    BY <1>12, <2>1 DEF Near
  <2> QED
    BY <1>1, <1>4, <2>2, <2>3
<1>13. ASSUME NEW p \in Pos, NEW k \in 1..m,
              \A d \in DOMAIN clusters'[k].held : Close(p, clusters'[k].held[d])
       PROVE  Near(p, k)'
  BY <1>1, <1>13 DEF Near, Close
<1>14. ASSUME NEW p \in Pos, NEW k \in 1..m - 1, Near(p, k) PROVE Near(p, k)'
  <2>1. clusters'[k] = clusters[k] /\ k \in 1..m
    BY <1>2
  <2>2. \A d \in DOMAIN clusters'[k].held : Close(p, clusters'[k].held[d])
    BY <1>14, <2>1 DEF Near
  <2> QED
    BY <1>13, <2>1, <2>2
<1>15. m \in 1..m
  BY <1>2
<1>16. Together'
  <2>1. ASSUME NEW k \in 1..m, NEW d \in DOMAIN clusters'[k].held
        PROVE  Near(clusters[k].held[d], k)'
    <3> DEFINE p == clusters'[k].held[d]
    <3> SUFFICES p \in Pos /\ \A e \in DOMAIN clusters'[k].held : Close(p, clusters'[k].held[e])
      BY <1>1 DEF Near, Close
    <3>1. CASE k # m
      <4>1. k \in 1..m - 1
        BY <1>2, <3>1
      <4>2. k \in Cluster /\ clusters'[k] = clusters[k]
        BY <1>2, <1>7, <4>1
      <4> QED
        BY <1>3, <1>6, <4>2 DEF Together, Near
    <3>2. CASE k = m
      <4>1. p \in Pos /\ Close(t, p)
        BY <1>10, <3>2
      <4>2. Close(p, t)
        <5> HIDE DEF p
        <5> QED
          BY <1>1, <1>4, <4>1
      <4> QED
        BY <1>11, <3>2, <4>1, <4>2
    <3> QED
      BY <3>1, <3>2
  <2> QED
    BY <1>7, <2>1 DEF Together
<1>17. Apart'
  <2>1. ASSUME NEW j \in 1..m - 1, NEW d \in DOMAIN clusters'[j].held, NEW e \in DOMAIN held
        PROVE  /\ ~Close(clusters'[j].held[d], held[e])
               /\ ~Close(held[e], clusters'[j].held[d])
    <3> DEFINE q == clusters[j].held[d]
               p == held[e]
    <3>1. clusters'[j] = clusters[j] /\ j \in Cluster /\ d \in DOMAIN clusters[j].held
      BY <1>2, <1>7
    <3>2. q \in Pos /\ ~Close(t, q)
      BY <1>6, <1>9, <3>1
    <3>3. p \in Pos /\ Close(t, p)
      BY <1>10
    <3>4. ~Close(q, p) /\ ~Close(p, q)
      <4> HIDE DEF q, p
      <4> QED
        BY <1>1, <1>4, <3>2, <3>3
    <3> QED
      BY <3>1, <3>4
  <2>2. ASSUME NEW j \in 1..m, NEW k \in 1..m, j # k,
               NEW d \in DOMAIN clusters'[j].held, NEW e \in DOMAIN clusters'[k].held
        PROVE  ~Close(clusters'[j].held[d], clusters'[k].held[e])
    <3>1. CASE k = m
      <4>1. j \in 1..m - 1
        BY <1>2, <2>2, <3>1
      <4> QED
        BY <2>1, <3>1, <4>1
    <3>2. CASE j = m
      <4>1. k \in 1..m - 1
        BY <1>2, <2>2, <3>2
      <4> QED
        BY <2>1, <3>2, <4>1
    <3>3. CASE j # m /\ k # m
      <4>1. j \in 1..m - 1 /\ k \in 1..m - 1
        BY <1>2, <3>3
      <4>2. /\ clusters'[j] = clusters[j] /\ clusters'[k] = clusters[k]
            /\ j \in Cluster /\ k \in Cluster
        BY <1>2, <1>7, <4>1
      <4> QED
        BY <1>3, <2>2, <4>2 DEF Apart
    <3> QED
      BY <3>1, <3>2, <3>3
  <2> QED
    BY <1>1, <1>7, <2>2 DEF Apart, Close
<1>18. Homed'
  <2> SUFFICES ASSUME NEW p \in 1..t PROVE \E k \in 1..m : Home(p, k)'
    BY <1>1, <1>5, <1>7 DEF Homed
  <2>1. CASE p = t
    <3>1. entries[p].dev \in DOMAIN held
      BY <1>1, <1>2, <2>1 DEF Grown
    <3>2. Near(p, m)'
      BY <1>1, <1>10, <1>13, <1>15, <2>1
    <3> QED
      BY <1>1, <1>15, <3>1, <3>2 DEF Home
  <2>2. CASE p # t
    <3>1. p \in 1..t - 1 /\ p \in Pos
      BY <1>1, <1>5, <2>2
    <3>2. PICK k \in Cluster : Home(p, k)
      BY <1>3, <3>1 DEF Homed
    <3>3. CASE k = m
      <4>1. m = Len(clusters)
        BY <1>2, <3>3 DEF Cluster
      <4>2. entries[p].dev \in DOMAIN held
        BY <1>2, <3>2, <3>3, <4>1 DEF Grown, Home
      <4>3. Close(p, t)
        BY <1>12, <3>1, <3>2, <3>3, <4>1 DEF Home
      <4>4. Near(p, m)'
        BY <1>11, <1>13, <1>15, <3>1, <4>3
      <4> QED
        BY <1>1, <1>15, <4>2, <4>4 DEF Home
    <3>4. CASE k # m
      <4>1. k \in 1..m - 1 /\ k \in 1..m
        BY <1>2, <3>4 DEF Cluster
      <4>2. Near(p, k)' /\ clusters'[k] = clusters[k]
        BY <1>2, <1>14, <3>1, <3>2, <4>1 DEF Home
      <4> QED
        BY <1>1, <3>2, <4>1, <4>2 DEF Home
    <3> QED
      BY <3>3, <3>4
  <2> QED
    BY <2>1, <2>2
<1>19. Centred'
  <2> SUFFICES ASSUME NEW k \in 1..m PROVE \E a, b \in 1..t : Between(k, a, b)'
    BY <1>1, <1>5, <1>7 DEF Centred
  <2>1. t \in 1..t /\ \A p \in 1..t - 1 : p \in 1..t
    BY <1>1, <1>5
  <2>2. CASE k # m
    <3>1. k \in 1..m - 1
      BY <1>2, <2>2
    <3>2. k \in Cluster /\ clusters'[k] = clusters[k]
      BY <1>2, <1>7, <3>1
    <3>3. PICK a \in 1..t - 1, b \in 1..t - 1 : Between(k, a, b)
      BY <1>3, <3>2 DEF Centred
    <3>4. Near(a, k)' /\ Near(b, k)'
      BY <1>5, <1>14, <3>1, <3>3 DEF Between
    <3>5. Between(k, a, b)'
      BY <1>1, <3>2, <3>3, <3>4 DEF Between
    <3> QED
      BY <2>1, <3>5
  <2>3. CASE k = m /\ m # Len(clusters)
    <3>1. clusters'[m].sum = entries[t].ct /\ clusters'[m].cnt = 1
      BY <1>1, <1>2, <2>3 DEF Weighed
    <3>2. Near(t, m)'
      BY <1>1, <1>10, <1>13, <1>15
    <3>3. entries[t].ct \in Int
      BY <1>1, <1>4
    <3>4. entries[t].ct * 1 = entries[t].ct
      BY <3>3
    <3>5. Between(k, t, t)'
      BY <1>1, <2>3, <3>1, <3>2, <3>3, <3>4 DEF Between
    <3> QED
      BY <2>1, <3>5
  <2>4. CASE k = m /\ m = Len(clusters)
    <3>1. m \in Cluster
      BY <1>8, <2>4
    <3>2. PICK a \in 1..t - 1, b \in 1..t - 1 : Between(m, a, b)
      BY <1>3, <3>1 DEF Centred
    <3>3. a \in Pos /\ b \in Pos /\ a < t /\ b < t
      BY <1>5, <3>2
    <3>4. Near(a, m)' /\ Near(b, m)' /\ Near(t, m)'
      <4>1. Close(a, t) /\ Close(b, t)
        BY <1>12, <2>4, <3>2, <3>3 DEF Between
      <4>2. Close(t, t)
        BY <1>1, <1>4
      <4> QED
        BY <1>1, <1>11, <1>13, <1>15, <3>3, <4>1, <4>2
    <3> DEFINE x == entries[t].ct
               xa == entries[a].ct
               xb == entries[b].ct
               sum == clusters[m].sum
               cnt == clusters[m].cnt
    <3>5. x \in Int /\ xa \in Int /\ xb \in Int /\ xa <= x /\ xb <= x
      BY <1>1, <1>3, <1>4, <3>3 DEF InTime
    <3>6. sum \in Int /\ cnt \in Nat
      <4>1. Owns(clusters[m])
        BY <1>3, <3>1 DEF Owned
      <4> QED
        BY <4>1, FS_CardinalityType DEF Owns
    <3>7. xa * cnt <= sum /\ sum <= xb * cnt
      BY <3>2 DEF Between
    <3>8. CASE clusters'[m].sum = sum + x /\ clusters'[m].cnt = cnt + 1
      <4>1. xa * (cnt + 1) <= sum + x /\ sum + x <= x * (cnt + 1)
        <5> HIDE DEF x, xa, xb, sum, cnt
        <5>1. /\ xa * (cnt + 1) = xa * cnt + xa
              /\ x * (cnt + 1) = x * cnt + x
              /\ xb * cnt <= x * cnt
              /\ xa * cnt \in Int /\ xb * cnt \in Int /\ x * cnt \in Int
          BY <3>5, <3>6
        <5> QED
          BY <3>5, <3>6, <3>7, <5>1
      <4>2. Between(k, a, t)'
        BY <1>1, <2>4, <3>4, <3>8, <4>1 DEF Between
      <4> QED
        BY <2>1, <4>2
    <3>9. CASE clusters'[m].sum = sum /\ clusters'[m].cnt = cnt
      <4>1. Between(k, a, b)'
        BY <1>1, <2>4, <3>4, <3>7, <3>9 DEF Between
      <4> QED
        BY <2>1, <4>1
    <3> QED
      BY <1>1, <1>2, <2>4, <3>8, <3>9 DEF Weighed
  <2> QED
    BY <2>2, <2>3, <2>4
<1> QED
  BY <1>16, <1>17, <1>18, <1>19

LEMMA FreshSep == Fresh => SepInv
<1> SUFFICES ASSUME Fresh PROVE Together /\ Apart /\ Homed /\ Centred
  BY DEF SepInv
<1>1. Cluster = {} /\ 1..next - 1 = {}
  BY DEF Fresh, Cluster
<1> QED
  BY <1>1 DEF Together, Apart, Homed, Centred

LEMMA InitSep == Init => SepInv
BY FreshSep DEF Init, Fresh

LEMMA NextSep == IInv /\ SepInv /\ [Next]_vars => SepInv'
<1> SUFFICES ASSUME IInv, SepInv, [Next]_vars, WellSeparated'
             PROVE  (Together /\ Apart /\ Homed /\ Centred)'
  BY DEF SepInv
<1>1. CASE Place
  <2>1. entries' = entries
    BY <1>1, PlaceFacts
  <2>2. WellSeparated
    BY <2>1 DEF WellSeparated, Close
  <2> QED
    BY <1>1, <2>2, SepPlace
<1>2. CASE Finish \/ UNCHANGED vars
  <2>1. UNCHANGED <<entries, next, clusters>>
    BY <1>2 DEF Finish, vars
  <2>2. WellSeparated
    BY <2>1 DEF WellSeparated, Close
  <2>3. Together /\ Apart /\ Homed /\ Centred
    BY <2>2 DEF SepInv
  <2>4. Together' /\ Apart'
    BY <2>1, <2>3 DEF Together, Apart, Near, Close, Cluster
  <2>5. Homed'
    BY <2>1, <2>3 DEF Homed, Home, Near, Close, Cluster
  <2>6. Centred'
    BY <2>1, <2>3 DEF Centred, Between, Near, Close, Cluster
  <2> QED
    BY <2>4, <2>5, <2>6
<1> QED
  BY <1>1, <1>2 DEF Next, Place

LEMMA SepInvHolds == Spec => []SepInv
BY InitSep, NextSep, InvariantHolds, PTL DEF Spec

-----------------------------------------------------------------------------
(* When all are placed, a cluster holds the devices of a class.            *)
LEMMA ClassOfCluster ==
    ASSUME IInv, SepInv, WellSeparated, done,
           NEW k \in Cluster, NEW p \in 1..Len(entries), Near(p, k)
    PROVE  DOMAIN clusters[k].held = ClassDevices(p)
<1> DEFINE Pos == 1..Len(entries)
<1>1. Owned /\ Apart /\ Homed
  BY DEF IInv, SepInv
<1>2. next - 1 = Len(entries)
  BY DEF IInv, Resulting, InTime
<1>3. /\ \A q \in Pos : Close(q, p) => Close(p, q)
      /\ \A q \in Pos : Close(p, q) => Close(q, p)
      /\ \A q, r, x \in Pos : Close(q, r) /\ Close(r, x) => Close(q, x)
      /\ \A q, r \in Pos : Close(q, r) => Close(r, q)
  BY Closeness DEF WellSeparated
<1>4. \A j \in Cluster : /\ DOMAIN clusters[j].held # {}
                         /\ \A d \in DOMAIN clusters[j].held :
                              clusters[j].held[d] \in Pos /\ entries[clusters[j].held[d]].dev = d
  BY <1>1, <1>2 DEF Owned, Owns
<1>5. ASSUME NEW d \in DOMAIN clusters[k].held PROVE d \in ClassDevices(p)
  <2>1. /\ clusters[k].held[d] \in Pos /\ entries[clusters[k].held[d]].dev = d
        /\ Close(p, clusters[k].held[d])
    BY <1>4 DEF Near
  <2> QED
    BY <2>1 DEF ClassDevices
<1>6. ASSUME NEW d \in ClassDevices(p) PROVE d \in DOMAIN clusters[k].held
  <2>1. PICK q \in Pos : Close(p, q) /\ entries[q].dev = d
    BY DEF ClassDevices
  <2>2. PICK j \in Cluster : Home(q, j)
    BY <1>1, <1>2, <2>1 DEF Homed
  <2>3. j = k
    <3> SUFFICES ASSUME j # k PROVE FALSE
      OBVIOUS
    <3>1. PICK a \in DOMAIN clusters[j].held, b \in DOMAIN clusters[k].held :
            clusters[j].held[a] \in Pos /\ clusters[k].held[b] \in Pos
      BY <1>4
    <3>2. Close(q, clusters[j].held[a]) /\ Close(p, clusters[k].held[b])
      BY <2>2, <3>1 DEF Near, Home
    <3>3. Close(q, clusters[k].held[b])
      BY <1>3, <2>1, <3>1, <3>2
    <3>4. Close(clusters[j].held[a], clusters[k].held[b])
      BY <1>3, <2>1, <3>1, <3>2, <3>3
    <3> QED
      BY <1>1, <3>1, <3>4 DEF Apart
  <2> QED
    BY <2>1, <2>2, <2>3 DEF Home
<1> QED
  BY <1>5, <1>6

LEMMA FindsAll == IInv /\ SepInv => FindsFiducials
<1> SUFFICES ASSUME IInv, SepInv, done, WellSeparated
             PROVE  /\ {DOMAIN events[k] : k \in DOMAIN events}
                       = {D \in {ClassDevices(p) : p \in 1..Len(entries)} :
                            Cardinality(D) >= MinObservers}
                    /\ \A k \in Cluster : \A d, e \in DOMAIN clusters[k].held :
                         Close(clusters[k].held[d], clusters[k].held[e])
  BY DEF FindsFiducials
<1>1. Owned /\ Together /\ Homed /\ clusters \in Seq(ClusterRecord)
  BY DEF IInv, SepInv, Placed
<1>2. /\ next - 1 = Len(entries)
      /\ events = [k \in DOMAIN Kept |-> Observations(clusters[Kept[k]])]
  BY DEF IInv, Resulting, InTime
<1>3. PICK n \in Nat :
             /\ DOMAIN Kept = 1..n
             /\ \A k \in 1..n : Kept[k] \in Cluster /\ Enough(clusters[Kept[k]])
             /\ \A c \in Cluster : Enough(clusters[c]) => \E k \in 1..n : Kept[k] = c
  BY <1>1, KeptAscends
<1>4. DOMAIN events = 1..n /\ \A k \in 1..n : DOMAIN events[k] = DOMAIN clusters[Kept[k]].held
  BY <1>2, <1>3 DEF Observations
<1>5. ASSUME NEW k \in 1..n
      PROVE  /\ \E p \in 1..Len(entries) : DOMAIN events[k] = ClassDevices(p)
             /\ Cardinality(DOMAIN events[k]) >= MinObservers
  <2> DEFINE c == Kept[k]
  <2>1. c \in Cluster /\ Enough(clusters[c]) /\ DOMAIN events[k] = DOMAIN clusters[c].held
    BY <1>3, <1>4
  <2> HIDE DEF c
  <2>2. PICK d \in DOMAIN clusters[c].held : clusters[c].held[d] \in 1..Len(entries)
    BY <1>1, <1>2, <2>1 DEF Owned, Owns
  <2>3. Near(clusters[c].held[d], c)
    BY <1>1, <2>1, <2>2 DEF Together
  <2>4. DOMAIN clusters[c].held = ClassDevices(clusters[c].held[d])
    BY <2>1, <2>2, <2>3, ClassOfCluster
  <2> QED
    BY <2>1, <2>2, <2>4 DEF Enough
<1>6. ASSUME NEW p \in 1..Len(entries), Cardinality(ClassDevices(p)) >= MinObservers
      PROVE  \E k \in 1..n : ClassDevices(p) = DOMAIN events[k]
  <2>1. PICK c \in Cluster : Home(p, c)
    BY <1>1, <1>2 DEF Homed
  <2>2. DOMAIN clusters[c].held = ClassDevices(p)
    BY <2>1, ClassOfCluster DEF Home
  <2>3. Enough(clusters[c])
    BY <1>6, <2>2 DEF Enough
  <2>4. PICK k \in 1..n : Kept[k] = c
    BY <1>3, <2>3
  <2> QED
    BY <1>4, <2>2, <2>4
<1>7. {DOMAIN events[k] : k \in DOMAIN events}
        = {D \in {ClassDevices(p) : p \in 1..Len(entries)} : Cardinality(D) >= MinObservers}
  BY <1>4, <1>5, <1>6
<1>8. \A k \in Cluster : \A d, e \in DOMAIN clusters[k].held :
        Close(clusters[k].held[d], clusters[k].held[e])
  BY <1>1 DEF Together, Near
<1> QED
  BY <1>7, <1>8

-----------------------------------------------------------------------------
(* Counting an ascending enumeration: its k-th element has k up to it.     *)
Till(P, x) == {q \in P : q <= x}

LEMMA Enumerated ==
    ASSUME NEW n \in Nat, NEW f \in [1..n -> Int],
           \A i, j \in 1..n : i < j => f[i] < f[j], NEW k \in 0..n
    PROVE  Cardinality({f[j] : j \in 1..k}) = k
<1> DEFINE g == [j \in 1..k |-> f[j]]
           T == {f[j] : j \in 1..k}
<1>1. \A j \in 1..k : j \in 1..n /\ f[j] \in Int
  OBVIOUS
<1>2. g \in Surjection(1..k, T)
  BY DEF Surjection
<1>3. \A i, j \in 1..k : i # j => f[i] # f[j]
  <2> SUFFICES ASSUME NEW i \in 1..k, NEW j \in 1..k, i # j PROVE f[i] # f[j]
    OBVIOUS
  <2>1. i < j \/ j < i
    OBVIOUS
  <2>2. (i < j => f[i] < f[j]) /\ (j < i => f[j] < f[i])
    BY <1>1
  <2>3. f[i] \in Int /\ f[j] \in Int
    BY <1>1
  <2> QED
    BY <2>1, <2>2, <2>3
<1>4. g \in Injection(1..k, T)
  BY <1>3 DEF Injection, IsInjective
<1>5. k \in Nat
  OBVIOUS
<1> HIDE DEF g, T
<1>6. IsFiniteSet(1..k) /\ Cardinality(1..k) = k
  BY <1>5, UpTo
<1> QED
  BY <1>2, <1>4, <1>6, FS_Surjection DEF T

LEMMA UpToKth ==
    ASSUME NEW n \in Nat, NEW f \in [1..n -> Int],
           \A i, j \in 1..n : i < j => f[i] < f[j],
           NEW P, \A k \in 1..n : f[k] \in P, \A p \in P : \E k \in 1..n : p = f[k],
           NEW k \in 1..n
    PROVE  Cardinality(P) = n /\ Cardinality(Till(P, f[k])) = k
<1>1. n \in 0..n /\ k \in 0..n /\ P = {f[j] : j \in 1..n}
  OBVIOUS
<1>2. \A j \in 1..n : f[j] <= f[k] <=> j \in 1..k
  <2> TAKE j \in 1..n
  <2>1. (j < k => f[j] < f[k]) /\ (k < j => f[k] < f[j]) /\ f[j] \in Int /\ f[k] \in Int
    OBVIOUS
  <2> QED
    BY <2>1
<1>3. \A j \in 1..k : j \in 1..n
  OBVIOUS
<1>4. Till(P, f[k]) = {f[j] : j \in 1..k}
  BY <1>1, <1>2, <1>3 DEF Till
<1> QED
  BY <1>1, <1>4, Enumerated

LEMMA KeptAll ==
    ASSUME clusters \in Seq(ClusterRecord), \A k \in Cluster : Enough(clusters[k])
    PROVE  Kept = [k \in Cluster |-> k]
<1> DEFINE n == Len(clusters)
<1>1. n \in Nat
  OBVIOUS
<1>2. {k \in 1..n : Enough(clusters[k])} = 1..n
  BY DEF Cluster
<1>3. Kept = Ascending(1..n)
  BY <1>2 DEF Kept
<1> HIDE DEF n
<1>4. Cardinality(1..n) = n
  BY <1>1, UpTo
<1>5. \A x \in 1..n : {y \in 1..n : y <= x} = 1..x
  BY <1>1
<1>6. \A x \in 1..n : Cardinality({y \in 1..n : y <= x}) = x
  <2> TAKE x \in 1..n
  <2>1. x \in Nat /\ Cardinality(1..x) = x
    BY <1>1, UpTo
  <2> QED
    BY <1>5, <2>1
<1>7. ASSUME NEW k \in 1..n
      PROVE  (CHOOSE x \in 1..n : Cardinality({y \in 1..n : y <= x}) = k) = k
  BY <1>6
<1>8. Ascending(1..n) = [k \in 1..n |-> k]
  BY <1>4, <1>7 DEF Ascending
<1> QED
  BY <1>3, <1>8 DEF Cluster, n

LEMMA Agrees == IInv /\ SepInv => AgreesWithMatch
<1> SUFFICES ASSUME IInv, SepInv, done, WellSeparated, SeenByAll,
                    MinObservers <= Cardinality(Device)
             PROVE  events = Matched
  BY DEF AgreesWithMatch
<1> DEFINE Pos == 1..Len(entries)
           n == Len(clusters)
<1>1. Owned /\ Ordered /\ Together /\ Homed /\ InTime /\ clusters \in Seq(ClusterRecord)
  BY DEF IInv, SepInv, Placed
<1>2. /\ next - 1 = Len(entries) /\ n \in Nat
      /\ events = [k \in DOMAIN Kept |-> Observations(clusters[Kept[k]])]
  BY <1>1 DEF IInv, Resulting, InTime
<1>3. ASSUME NEW k \in Cluster
      PROVE  /\ DOMAIN clusters[k].held = Device
             /\ Device # {}
             /\ \A d \in Device :
                  clusters[k].held[d] \in Pos /\ entries[clusters[k].held[d]].dev = d
  <2>1. Owns(clusters[k])
    BY <1>1 DEF Owned
  <2>2. PICK d \in DOMAIN clusters[k].held : clusters[k].held[d] \in Pos
    BY <1>2, <2>1 DEF Owns
  <2>3. Near(clusters[k].held[d], k)
    BY <1>1, <2>2 DEF Together
  <2>4. DOMAIN clusters[k].held = ClassDevices(clusters[k].held[d])
    BY <2>2, <2>3, ClassOfCluster
  <2>5. ClassDevices(clusters[k].held[d]) = Device
    BY <2>2 DEF SeenByAll
  <2> QED
    BY <1>2, <2>1, <2>2, <2>4, <2>5 DEF Owns
<1>4. Kept = [k \in Cluster |-> k]
  <2>1. \A k \in Cluster : Enough(clusters[k])
    BY <1>3 DEF Enough
  <2> QED
    BY <1>1, <2>1, KeptAll
<1>5. events = [k \in Cluster |-> [d \in Device |-> Local(entries[clusters[k].held[d]])]]
  BY <1>2, <1>3, <1>4 DEF Observations
<1>6. ASSUME NEW d \in Device
      PROVE  /\ Cardinality(Positions(d)) = n
             /\ \A k \in 1..n : Nth(d, k) = clusters[k].held[d]
  <2> DEFINE f == [k \in 1..n |-> clusters[k].held[d]]
             P == Positions(d)
  <2>1. \A k \in 1..n : /\ f[k] = clusters[k].held[d] /\ f[k] \in Pos
                        /\ entries[f[k]].dev = d
    BY <1>3 DEF Cluster
  <2>2. f \in [1..n -> Int]
    BY <2>1
  <2>3. \A i, j \in 1..n : i < j => f[i] < f[j]
    <3> SUFFICES ASSUME NEW i \in 1..n, NEW j \in 1..n, i < j PROVE f[i] < f[j]
      OBVIOUS
    <3>1. i \in Cluster /\ j \in Cluster /\ i \in 1..j - 1
      BY <1>2 DEF Cluster
    <3>2. d \in DOMAIN clusters[i].held /\ d \in DOMAIN clusters[j].held
      BY <1>3, <3>1
    <3> QED
      BY <1>1, <3>1, <3>2 DEF Ordered
  <2>4. \A p \in P : \E k \in 1..n : p = f[k]
    <3> TAKE p \in P
    <3>1. p \in Pos /\ entries[p].dev = d
      BY DEF Positions
    <3>2. PICK k \in Cluster : Home(p, k)
      BY <1>1, <1>2, <3>1 DEF Homed
    <3>3. k \in 1..n /\ d \in DOMAIN clusters[k].held /\ Close(p, clusters[k].held[d])
      BY <3>1, <3>2 DEF Home, Near, Cluster
    <3>4. p = clusters[k].held[d]
      BY <1>3, <3>1, <3>2, <3>3 DEF SeenByAll
    <3> QED
      BY <3>3, <3>4
  <2>5. \A k \in 1..n : f[k] \in P
    BY <2>1 DEF Positions
  <2> HIDE DEF f, P, n
  <2>6. Cardinality(P) = n /\ \A k \in 1..n : Cardinality(Till(P, f[k])) = k
    <3>1. CASE n = 0
      <4>1. P = {} /\ 1..n = {}
        BY <2>4, <3>1
      <4> QED
        BY <3>1, <4>1, FS_EmptySet
    <3>2. ASSUME NEW k \in 1..n PROVE Cardinality(P) = n /\ Cardinality(Till(P, f[k])) = k
      BY <1>2, <2>2, <2>3, <2>4, <2>5, <3>2, UpToKth
    <3>3. n # 0 => 1 \in 1..n
      BY <1>2
    <3> QED
      BY <3>1, <3>2, <3>3
  <2>7. ASSUME NEW k \in 1..n PROVE Nth(d, k) = f[k]
    <3>1. f[k] \in P
      BY <2>5
    <3>2. \A p \in P : Cardinality(Till(P, p)) = k => p = f[k]
      BY <2>4, <2>6
    <3>3. (CHOOSE p \in P : Cardinality(Till(P, p)) = k) = f[k]
      BY <2>6, <3>1, <3>2
    <3> QED
      BY <3>3 DEF Nth, P, Till
  <2> QED
    BY <2>1, <2>6, <2>7 DEF P
<1>7. Cardinality(Positions(CHOOSE d \in Device : TRUE)) = n
  <2>1. CASE Device # {}
    <3>1. (CHOOSE d \in Device : TRUE) \in Device
      BY <2>1
    <3> QED
      BY <1>6, <3>1
  <2>2. CASE Device = {}
    <3>1. Cluster = {}
      BY <1>3, <2>2
    <3>2. n = 0
      <4>1. 1..n = {} /\ n \in Nat
        BY <1>2, <3>1 DEF Cluster
      <4> HIDE DEF n
      <4> QED
        BY <4>1
    <3>3. Pos = {}
      <4>1. \A p \in Pos : entries[p] \in Entry
        BY <1>1 DEF InTime
      <4> QED
        BY <2>2, <4>1 DEF Entry
    <3>4. Positions(CHOOSE d \in Device : TRUE) = {}
      BY <3>3 DEF Positions
    <3> QED
      BY <3>2, <3>4, FS_EmptySet
  <2> QED
    BY <2>1, <2>2
<1>8. Matched = [k \in 1..n |-> [d \in Device |-> Local(entries[Nth(d, k)])]]
  BY <1>7 DEF Matched
<1> QED
  BY <1>5, <1>6, <1>8 DEF Cluster

(* Well-separated fiducials become one event each, of every device that    *)
(* saw them, and where the other matcher applies both agree.               *)
THEOREM FiducialsAreFound == Spec => []FiducialInv
<1>1. IInv /\ SepInv => FiducialInv
  BY FindsAll, Agrees DEF FiducialInv
<1> QED
  BY <1>1, InvariantHolds, SepInvHolds, PTL

-----------------------------------------------------------------------------
(* From signals to events.  Sorting keeps the detections it is given, and  *)
(* laying sequences end to end keeps what they hold.                       *)
LEMMA SortedHolds ==
    ASSUME NEW s \in Seq(Detection)
    PROVE  LET e == Sorted(Common(s)) IN
           /\ \A p \in 1..Len(e) : \E i \in 1..Len(s) :
                e[p].dev = s[i].dev /\ e[p].ct = s[i].lt + Shift[s[i].dev]
           /\ \A i \in 1..Len(s) : \E p \in 1..Len(e) :
                e[p].dev = s[i].dev /\ e[p].ct = s[i].lt + Shift[s[i].dev]
<1> DEFINE c == Common(s)
           n == Len(s)
           keys == [i \in DOMAIN c |-> c[i].ct]
           e == Sorted(c)
<1>1. n \in Nat /\ DOMAIN s = 1..n /\ \A i \in 1..n : s[i] \in Detection
  OBVIOUS
<1>2. c = [i \in 1..n |-> [ct |-> s[i].lt + Shift[s[i].dev], dev |-> s[i].dev]]
  BY <1>1 DEF Common
<1>3. \A i \in 1..n : s[i].lt + Shift[s[i].dev] \in Int /\ s[i].dev \in Device
  <2> TAKE i \in 1..n
  <2>1. s[i].lt \in Int /\ s[i].dev \in Device
    BY <1>1 DEF Detection
  <2>2. Shift[s[i].dev] \in Int
    BY <2>1, ShiftAssumption
  <2> QED
    BY <2>1, <2>2
<1> HIDE DEF n, c
<1>4. c \in Seq(Entry) /\ Len(c) = n /\ DOMAIN c = 1..n
  <2>1. \A i \in 1..n : c[i] \in Entry
    BY <1>2, <1>3 DEF Entry
  <2> QED
    BY <1>1, <1>2, <2>1
<1>5. keys \in Seq(Int) /\ Len(keys) = Len(c)
  <2>1. \A i \in 1..n : c[i].ct \in Int
    BY <1>2, <1>3
  <2> QED
    BY <1>1, <1>4, <2>1
<1>6. e = SortedBy(c, keys)
  BY DEF Sorted
<1> HIDE DEF keys, e
<1> DEFINE Places(at) ==
             /\ SortedBy(c, keys) = [k \in 1..Len(c) |-> c[at[k]]]
             /\ \A i \in 1..Len(c) : \E k \in 1..Len(c) : at[k] = i
<1>7. PICK at \in [1..Len(c) -> 1..Len(c)] : Places(at)
  <2> HIDE DEF Places
  <2>1. \E at \in [1..Len(c) -> 1..Len(c)] :
              /\ SortedBy(c, keys) = [k \in 1..Len(c) |-> c[at[k]]]
              /\ \A k, l \in 1..Len(c) : k < l => keys[at[k]] <= keys[at[l]]
              /\ \A k, l \in 1..Len(c) :
                   k < l => \/ keys[at[k]] < keys[at[l]]
                            \/ keys[at[k]] = keys[at[l]] /\ at[k] < at[l]
              /\ \A i \in 1..Len(c) : \E k \in 1..Len(c) : at[k] = i
              /\ NonDecreasing(keys) => \A k \in 1..Len(c) : at[k] = k
    BY <1>4, <1>5, SortsBy, Zenon
  <2> QED
    BY <2>1 DEF Places
<1>8. /\ Len(e) = n /\ \A p \in 1..n : at[p] \in 1..n /\ e[p] = c[at[p]]
      /\ \A i \in 1..n : \E k \in 1..n : at[k] = i
  <2>1. e = [k \in 1..n |-> c[at[k]]] /\ at \in [1..n -> 1..n]
    BY <1>4, <1>6, <1>7
  <2> QED
    BY <1>1, <1>4, <1>7, <2>1
<1>9. ASSUME NEW p \in 1..n
      PROVE  e[p].dev = s[at[p]].dev /\ e[p].ct = s[at[p]].lt + Shift[s[at[p]].dev]
  <2>1. at[p] \in 1..n /\ e[p] = c[at[p]]
    BY <1>8
  <2>2. c[at[p]] = [ct |-> s[at[p]].lt + Shift[s[at[p]].dev], dev |-> s[at[p]].dev]
    BY <1>2, <2>1
  <2> QED
    BY <2>1, <2>2
<1>10. ASSUME NEW p \in 1..Len(e)
       PROVE  \E i \in 1..n : e[p].dev = s[i].dev /\ e[p].ct = s[i].lt + Shift[s[i].dev]
  <2>1. p \in 1..n /\ at[p] \in 1..n
    BY <1>8, <1>10
  <2> QED
    BY <1>9, <2>1
<1>11. ASSUME NEW i \in 1..n
       PROVE  \E p \in 1..Len(e) : e[p].dev = s[i].dev /\ e[p].ct = s[i].lt + Shift[s[i].dev]
  <2>1. PICK p \in 1..n : at[p] = i
    BY <1>8, <1>11
  <2>2. e[p].dev = s[i].dev /\ e[p].ct = s[i].lt + Shift[s[i].dev]
    BY <1>9, <2>1
  <2> QED
    BY <1>8, <2>2
<1> QED
  BY <1>10, <1>11 DEF n, c, e

(* What the first m of the sequences hold, one after the other.            *)
Holds(f, ss, m) ==
    /\ \A k \in 1..Len(f) : \E d \in 1..m : \E i \in 1..Len(ss[d]) : f[k] = ss[d][i]
    /\ \A d \in 1..m : \A i \in 1..Len(ss[d]) : \E k \in 1..Len(f) : f[k] = ss[d][i]

LEMMA HoldsMore ==
    ASSUME NEW S, NEW ss \in Seq(Seq(S)), NEW m \in Nat, m + 1 <= Len(ss),
           NEW f \in Seq(S), Holds(f, ss, m)
    PROVE  f \o ss[m + 1] \in Seq(S) /\ Holds(f \o ss[m + 1], ss, m + 1)
<1> DEFINE g == ss[m + 1]
           h == f \o g
<1>1. g \in Seq(S) /\ Len(f) \in Nat /\ Len(g) \in Nat
  OBVIOUS
<1>2. /\ h \in Seq(S) /\ Len(h) = Len(f) + Len(g)
      /\ \A k \in 1..Len(f) : h[k] = f[k]
      /\ \A k \in 1..Len(g) : h[Len(f) + k] = g[k]
  BY <1>1
<1>3. \A d \in 1..m + 1 : d \in 1..m \/ d = m + 1
  OBVIOUS
<1>4. \A k \in 1..Len(f) + Len(g) : k \in 1..Len(f) \/ (k - Len(f) \in 1..Len(g) /\ k = Len(f) + (k - Len(f)))
  BY <1>1
<1>5. /\ \A k \in 1..Len(g) : Len(f) + k \in 1..Len(f) + Len(g)
      /\ \A k \in 1..Len(f) : k \in 1..Len(f) + Len(g)
      /\ \A d \in 1..m : d \in 1..m + 1
      /\ m + 1 \in 1..m + 1
  BY <1>1
<1> HIDE DEF h
<1>6. ASSUME NEW k \in 1..Len(h)
      PROVE  \E d \in 1..m + 1 : \E i \in 1..Len(ss[d]) : h[k] = ss[d][i]
  <2>1. CASE k \in 1..Len(f)
    <3>1. PICK d \in 1..m : \E i \in 1..Len(ss[d]) : f[k] = ss[d][i]
      BY <2>1 DEF Holds
    <3> QED
      BY <1>2, <1>5, <2>1, <3>1
  <2>2. CASE k - Len(f) \in 1..Len(g) /\ k = Len(f) + (k - Len(f))
    <3> DEFINE i == k - Len(f)
    <3>1. i \in 1..Len(g) /\ h[k] = g[i]
      BY <1>2, <2>2
    <3> QED
      BY <1>5, <3>1
  <2> QED
    BY <1>2, <1>4, <1>6, <2>1, <2>2
<1>7. ASSUME NEW d \in 1..m + 1, NEW i \in 1..Len(ss[d])
      PROVE  \E k \in 1..Len(h) : h[k] = ss[d][i]
  <2>1. CASE d \in 1..m
    <3>1. PICK k \in 1..Len(f) : f[k] = ss[d][i]
      BY <2>1 DEF Holds
    <3> QED
      BY <1>2, <1>5, <3>1
  <2>2. CASE d = m + 1
    BY <1>2, <1>5, <2>2
  <2> QED
    BY <1>3, <1>7, <2>1, <2>2
<1> QED
  BY <1>2, <1>6, <1>7 DEF Holds, h

LEMMA Flattened ==
    ASSUME NEW S, NEW ss \in Seq(Seq(S))
    PROVE  FlattenSeq(ss) \in Seq(S) /\ Holds(FlattenSeq(ss), ss, Len(ss))
<1> DEFINE n == Len(ss)
           step(f, i) == IF i = 1 THEN ss[i] ELSE f[i - 1] \o ss[i]
           R(f) == f = [i \in 1..n |-> step(f, i)]
           F == CHOOSE f : R(f)
<1>1. n \in Nat /\ \A i \in 1..n : ss[i] \in Seq(S) /\ Len(ss[i]) \in Nat
  OBVIOUS
<1>2. CASE n = 0
  <2>1. FlattenSeq(ss) = ss /\ ss = << >>
    BY <1>2 DEF FlattenSeq
  <2> QED
    BY <1>2, <2>1 DEF Holds
<1>3. CASE n # 0
  <2>1. FlattenSeq(ss) = F[n]
    BY <1>3 DEF FlattenSeq
  <2> HIDE DEF n
  <2>2. \E f : R(f)
    <3> DEFINE Good == {m \in Nat : \E f \in [1..n -> Seq(S)] :
                                      \A i \in 1..n : i <= m => f[i] = step(f, i)}
    <3>1. 0 \in Good
      <4>1. [i \in 1..n |-> << >>] \in [1..n -> Seq(S)]
        OBVIOUS
      <4>2. \A i \in 1..n : ~(i <= 0)
        OBVIOUS
      <4> QED
        BY <4>1, <4>2
    <3>2. ASSUME NEW m \in Nat, m \in Good PROVE m + 1 \in Good
      <4>1. PICK f \in [1..n -> Seq(S)] : \A i \in 1..n : i <= m => f[i] = step(f, i)
        BY <3>2
      <4> DEFINE g == [f EXCEPT ![m + 1] = step(f, m + 1)]
      <4>2. m + 1 \in 1..n => step(f, m + 1) \in Seq(S)
        <5>1. CASE m + 1 = 1
          BY <1>1, <5>1
        <5>2. CASE m + 1 # 1 /\ m + 1 \in 1..n
          <6>1. f[m + 1 - 1] \in Seq(S) /\ ss[m + 1] \in Seq(S)
            BY <1>1, <5>2
          <6> QED
            BY <5>2, <6>1
        <5> QED
          BY <5>1, <5>2
      <4> HIDE DEF step
      <4>3. g \in [1..n -> Seq(S)]
        BY <4>2
      <4>4. \A i \in 1..n : i <= m + 1 => g[i] = step(f, i)
        BY <4>1
      <4>5. \A i \in 1..n : i <= m + 1 => step(g, i) = step(f, i)
        BY DEF step
      <4> HIDE DEF g
      <4>6. \A i \in 1..n : i <= m + 1 => g[i] = step(g, i)
        BY <4>4, <4>5
      <4>7. \E h \in [1..n -> Seq(S)] : \A i \in 1..n : i <= m + 1 => h[i] = step(h, i)
        BY <4>3, <4>6
      <4>8. m + 1 \in Nat
        OBVIOUS
      <4> QED
        BY <4>7, <4>8
    <3> HIDE DEF Good
    <3>3. n \in Good
      BY <1>1, <3>1, <3>2, Induct
    <3> HIDE DEF step
    <3>4. PICK f \in [1..n -> Seq(S)] : \A i \in 1..n : i <= n => f[i] = step(f, i)
      BY <3>3 DEF Good
    <3>5. f = [i \in 1..n |-> step(f, i)]
      BY <1>1, <3>4
    <3> QED
      BY <3>5
  <2>3. R(F)
    BY <2>2
  <2> HIDE DEF F
  <2>4. \A i \in 1..n : F[i] = IF i = 1 THEN ss[i] ELSE F[i - 1] \o ss[i]
    BY <2>3
  <2> HIDE DEF R, step
  <2> DEFINE Good == {m \in Nat : m + 1 \in 1..n => F[m + 1] \in Seq(S) /\ Holds(F[m + 1], ss, m + 1)}
  <2>5. 0 \in Good
    <3>1. 1 \in 1..n => F[1] = ss[1] /\ ss[1] \in Seq(S)
      BY <1>1, <2>4
    <3>2. Holds(ss[1], ss, 1)
      BY DEF Holds
    <3> QED
      BY <3>1, <3>2
  <2>6. ASSUME NEW m \in Nat, m \in Good PROVE m + 1 \in Good
    <3> SUFFICES ASSUME m + 1 + 1 \in 1..n
                 PROVE  F[m + 1 + 1] \in Seq(S) /\ Holds(F[m + 1 + 1], ss, m + 1 + 1)
      OBVIOUS
    <3>1. m + 1 \in 1..n /\ m + 1 \in Nat /\ m + 1 + 1 <= n
      BY <1>1
    <3>2. F[m + 1] \in Seq(S) /\ Holds(F[m + 1], ss, m + 1)
      BY <2>6, <3>1
    <3>3. F[m + 1 + 1] = F[m + 1] \o ss[m + 1 + 1]
      <4>1. m + 1 + 1 # 1 /\ m + 1 + 1 - 1 = m + 1
        OBVIOUS
      <4>2. PICK i : i = m + 1 + 1
        OBVIOUS
      <4>3. i \in 1..n /\ i # 1 /\ i - 1 = m + 1
        BY <4>1, <4>2
      <4>4. F[i] = F[i - 1] \o ss[i]
        BY <2>4, <4>3
      <4> QED
        BY <4>2, <4>3, <4>4
    <3> HIDE DEF Good
    <3> QED
      BY <3>1, <3>2, <3>3, HoldsMore DEF n
  <2>7. n - 1 \in Nat /\ n - 1 + 1 = n /\ n \in 1..n
    BY <1>1, <1>3
  <2>8. n - 1 \in Good
    <3> HIDE DEF Good
    <3> QED
      BY <2>5, <2>6, <2>7, Induct
  <2>9. F[n] \in Seq(S) /\ Holds(F[n], ss, n)
    BY <2>7, <2>8
  <2> QED
    BY <2>1, <2>9 DEF n
<1> QED
  BY <1>2, <1>3

(* The devices' detections, laid end to end in the order of the devices.   *)
Laid(s) == [k \in DOMAIN DeviceOrder |->
              [i \in DOMAIN s[DeviceOrder[k]] |->
                 [dev |-> DeviceOrder[k], lt |-> s[DeviceOrder[k]][i]]]]

IsOf(e, s, d, i) == e.dev = d /\ e.ct = s[d][i] + Shift[d]

Lists(e, s) ==
    /\ \A p \in 1..Len(e) : \E d \in Device : \E i \in 1..Len(s[d]) : IsOf(e[p], s, d, i)
    /\ \A d \in Device : \A i \in 1..Len(s[d]) : \E p \in 1..Len(e) : IsOf(e[p], s, d, i)

LEMMA Orders ==
    /\ Len(DeviceOrder) \in Nat /\ DOMAIN DeviceOrder = 1..Len(DeviceOrder)
    /\ \A k \in 1..Len(DeviceOrder) : DeviceOrder[k] \in Device
    /\ \A d \in Device : \E k \in 1..Len(DeviceOrder) : DeviceOrder[k] = d
    /\ \A j, k \in 1..Len(DeviceOrder) : DeviceOrder[j] = DeviceOrder[k] => j = k
<1> DEFINE n == Len(DeviceOrder)
<1>1. n \in Nat /\ DOMAIN DeviceOrder = 1..n /\ DeviceOrder \in [1..n -> Device]
  BY DetectorAssumption
<1>2. \A d \in Device : \E k \in 1..n : DeviceOrder[k] = d
  <2>1. ToSet(DeviceOrder) = Device
    BY DetectorAssumption
  <2> QED
    BY <1>1, <2>1 DEF ToSet
<1>3. DeviceOrder \in Surjection(1..n, Device)
  BY <1>1, <1>2 DEF Surjection
<1>4. IsFiniteSet(1..n) /\ Cardinality(1..n) = Cardinality(Device)
  BY <1>1, UpTo, DetectorAssumption
<1>5. DeviceOrder \in Injection(1..n, Device)
  BY <1>3, <1>4, FS_SurjSameCardinalityImpliesInj
<1> HIDE DEF n
<1>6. \A j, k \in 1..n : DeviceOrder[j] = DeviceOrder[k] => j = k
  BY <1>1, <1>5 DEF Injection, IsInjective
<1> QED
  BY <1>1, <1>2, <1>6 DEF n

LEMMA Listing ==
    ASSUME NEW s \in [Device -> Seq(Int)]
    PROVE  /\ FlattenSeq(Laid(s)) \in Seq(Detection)
           /\ Lists(Sorted(Common(FlattenSeq(Laid(s)))), s)
<1> DEFINE n == Len(DeviceOrder)
           ss == Laid(s)
           f == FlattenSeq(ss)
           e == Sorted(Common(f))
<1>1. /\ n \in Nat /\ DOMAIN DeviceOrder = 1..n
      /\ \A k \in 1..n : DeviceOrder[k] \in Device
      /\ \A d \in Device : \E k \in 1..n : DeviceOrder[k] = d
  BY Orders
<1>2. ss = [k \in 1..n |-> [i \in DOMAIN s[DeviceOrder[k]] |->
                 [dev |-> DeviceOrder[k], lt |-> s[DeviceOrder[k]][i]]]]
  BY <1>1 DEF Laid
<1> HIDE DEF n, ss
<1>3. ASSUME NEW k \in 1..n
      PROVE  /\ ss[k] \in Seq(Detection) /\ Len(ss[k]) = Len(s[DeviceOrder[k]])
             /\ \A i \in 1..Len(s[DeviceOrder[k]]) :
                  ss[k][i] = [dev |-> DeviceOrder[k], lt |-> s[DeviceOrder[k]][i]]
  <2> DEFINE d == DeviceOrder[k]
             t == s[d]
  <2>1. d \in Device /\ t \in Seq(Int)
    BY <1>1
  <2>2. ss[k] = [i \in DOMAIN t |-> [dev |-> d, lt |-> t[i]]]
    BY <1>2
  <2> HIDE DEF d, t
  <2>3. Len(t) \in Nat /\ DOMAIN t = 1..Len(t) /\ \A i \in 1..Len(t) : t[i] \in Int
    BY <2>1
  <2>4. \A i \in 1..Len(t) : [dev |-> d, lt |-> t[i]] \in Detection
    BY <2>1, <2>3 DEF Detection
  <2>5. ss[k] \in Seq(Detection) /\ Len(ss[k]) = Len(t)
        /\ \A i \in 1..Len(t) : ss[k][i] = [dev |-> d, lt |-> t[i]]
    BY <2>2, <2>3, <2>4
  <2> QED
    BY <2>5 DEF d, t
<1>4. ss \in Seq(Seq(Detection)) /\ Len(ss) = n
  BY <1>1, <1>2, <1>3
<1>5. f \in Seq(Detection) /\ Holds(f, ss, n)
  BY <1>4, Flattened
<1> HIDE DEF f
<1>6. /\ \A p \in 1..Len(e) : \E i \in 1..Len(f) :
           e[p].dev = f[i].dev /\ e[p].ct = f[i].lt + Shift[f[i].dev]
      /\ \A i \in 1..Len(f) : \E p \in 1..Len(e) :
           e[p].dev = f[i].dev /\ e[p].ct = f[i].lt + Shift[f[i].dev]
  BY <1>5, SortedHolds
<1> HIDE DEF e
<1>7. ASSUME NEW p \in 1..Len(e)
      PROVE  \E d \in Device : \E i \in 1..Len(s[d]) : IsOf(e[p], s, d, i)
  <2>1. PICK j \in 1..Len(f) : e[p].dev = f[j].dev /\ e[p].ct = f[j].lt + Shift[f[j].dev]
    BY <1>6
  <2>2. PICK k \in 1..n : \E i \in 1..Len(ss[k]) : f[j] = ss[k][i]
    BY <1>5 DEF Holds
  <2>3. PICK i \in 1..Len(ss[k]) : f[j] = ss[k][i]
    BY <2>2
  <2>4. /\ i \in 1..Len(s[DeviceOrder[k]])
        /\ f[j] = [dev |-> DeviceOrder[k], lt |-> s[DeviceOrder[k]][i]]
    BY <1>3, <2>3
  <2>5. f[j].dev = DeviceOrder[k] /\ f[j].lt = s[DeviceOrder[k]][i]
    BY <2>4
  <2>6. IsOf(e[p], s, DeviceOrder[k], i)
    BY <2>1, <2>5 DEF IsOf
  <2> QED
    BY <1>1, <2>4, <2>6
<1>8. ASSUME NEW d \in Device, NEW i \in 1..Len(s[d])
      PROVE  \E p \in 1..Len(e) : IsOf(e[p], s, d, i)
  <2>1. PICK k \in 1..n : DeviceOrder[k] = d
    BY <1>1
  <2>2. i \in 1..Len(ss[k]) /\ ss[k][i] = [dev |-> d, lt |-> s[d][i]]
    BY <1>3, <2>1
  <2>3. PICK j \in 1..Len(f) : f[j] = ss[k][i]
    BY <1>5, <2>2 DEF Holds
  <2>4. f[j].dev = d /\ f[j].lt = s[d][i]
    BY <2>2, <2>3
  <2>5. PICK p \in 1..Len(e) : e[p].dev = f[j].dev /\ e[p].ct = f[j].lt + Shift[f[j].dev]
    BY <1>6
  <2> QED
    BY <2>4, <2>5 DEF IsOf
<1>9. Lists(e, s)
  BY <1>7, <1>8 DEF Lists
<1> QED
  BY <1>5, <1>9 DEF e, f, ss

-----------------------------------------------------------------------------
(* A peak is a sample at an impulse: where the signal rises above the      *)
(* threshold one is near, and the samples on the way to it are above too.  *)
Sampled(d) == {SampleStep * k : k \in 0..(Duration - 1) \div SampleStep} \cup Seen(d)

Starts(s) == {i \in DOMAIN s : s[i].v > 0 /\ (i > 1 => s[i - 1].v = 0)}

LEMMA SampledFinite ==
    ASSUME visible \in [Device -> SUBSET Fiducials], NEW d \in Device
    PROVE  Sampled(d) \in SUBSET Int /\ IsFiniteSet(Sampled(d)) /\ Seen(d) \in SUBSET Int
<1> DEFINE m == (Duration - 1) \div SampleStep
           base == {SampleStep * k : k \in 0..m}
           g == [k \in 0..m |-> SampleStep * k]
           h == [f \in visible[d] |-> f - TrueShift[d]]
<1>1. Duration \in Nat \ {0} /\ SampleStep \in Nat \ {0} /\ TrueShift[d] \in Int
  BY DetectorAssumption
<1>2. m \in Int
  BY <1>1
<1> HIDE DEF m
<1>3. IsFiniteSet(0..m)
  BY <1>2, FS_Interval
<1>4. g \in Surjection(0..m, base)
  BY DEF Surjection
<1>5. base \in SUBSET Int
  BY <1>1, <1>2
<1>6. IsFiniteSet(base)
  BY <1>3, <1>4, FS_Surjection
<1>7. visible[d] \in SUBSET Int /\ IsFiniteSet(visible[d])
  <2>1. visible[d] \in SUBSET Fiducials
    OBVIOUS
  <2> QED
    BY <2>1, DetectorAssumption, FS_Subset
<1>8. h \in Surjection(visible[d], Seen(d))
  BY DEF Surjection, Seen
<1>9. IsFiniteSet(Seen(d))
  BY <1>7, <1>8, FS_Surjection
<1>10. Seen(d) \in SUBSET Int
  BY <1>1, <1>7 DEF Seen
<1>11. Sampled(d) = base \cup Seen(d)
  BY DEF Sampled, m
<1> HIDE DEF base
<1> QED
  BY <1>5, <1>6, <1>9, <1>10, <1>11, FS_Union

LEMMA PeakInSeen ==
    ASSUME visible \in [Device -> SUBSET Fiducials], NEW d \in Device,
           NEW n \in Nat, NEW times \in [1..n -> Int], NEW s,
           \A i, j \in 1..n : i < j => times[i] < times[j],
           \A o \in Seen(d) : \E i \in 1..n : times[i] = o,
           Len(s) = n, DOMAIN s = 1..n,
           \A i \in 1..n : s[i].t = times[i] /\ s[i].v = Level(d, times[i]),
           NEW i \in Starts(s)
    PROVE  s[Peak(s, i)].t \in Seen(d)
<1> DEFINE Top == {j \in Region(s, i) : s[j].v = 2}
<1>1. i \in 1..n /\ s[i].v > 0 /\ (i > 1 => s[i - 1].v = 0)
  BY DEF Starts
<1>2. Width \in Nat /\ Seen(d) \in SUBSET Int
  BY DetectorAssumption, SampledFinite
<1>3. \A j \in 1..n : /\ s[j].v \in 0..2 /\ times[j] \in Int
                      /\ s[j].v = 2 <=> times[j] \in Seen(d)
                      /\ s[j].v > 0 <=> times[j] \in Seen(d)
                                        \/ \E o \in Seen(d) : Abs(times[j] - o) <= Width
  BY DEF Level
<1>4. Region(s, i) = {j \in i..n : \A k \in i..j : s[k].v > 0}
  BY DEF Region
<1>5. Top # {}
  <2>1. PICK o \in Seen(d) : Abs(times[i] - o) <= Width
    <3>1. CASE times[i] \in Seen(d)
      <4>1. Abs(times[i] - times[i]) = 0
        BY <1>1, <1>3 DEF Abs
      <4> QED
        BY <1>2, <3>1, <4>1
    <3> QED
      BY <1>1, <1>3, <3>1
  <2>2. PICK j \in 1..n : times[j] = o
    OBVIOUS
  <2>3. \A a, b \in 1..n : a <= b => times[a] <= times[b]
    <3> TAKE a \in 1..n, b \in 1..n
    <3>1. a < b => times[a] < times[b]
      OBVIOUS
    <3> QED
      BY <1>3, <3>1
  <2>4. j >= i
    <3> SUFFICES ASSUME j < i PROVE FALSE
      BY <1>1
    <3>1. i - 1 \in 1..n /\ j <= i - 1 /\ i - 1 <= i /\ i > 1
      BY <1>1
    <3>2. s[i - 1].v = 0
      BY <1>1, <3>1
    <3>3. times[j] <= times[i - 1] /\ times[i - 1] <= times[i]
      BY <1>1, <2>3, <3>1
    <3>4. times[i - 1] \in Int /\ times[i] \in Int /\ o \in Int
      BY <1>1, <1>3, <2>2, <3>1
    <3>5. Abs(times[i - 1] - o) <= Width
      BY <1>2, <2>1, <2>2, <3>3, <3>4 DEF Abs
    <3>6. PICK k \in 1..n : k = i - 1
      BY <3>1
    <3>7. s[k].v > 0
      BY <1>3, <3>5, <3>6
    <3> QED
      BY <3>2, <3>6, <3>7
  <2>5. ASSUME NEW k \in i..j PROVE s[k].v > 0
    <3>1. k \in 1..n /\ i <= k /\ k <= j
      BY <1>1
    <3>2. times[i] <= times[k] /\ times[k] <= times[j]
      BY <1>1, <2>3, <3>1
    <3>3. times[i] \in Int /\ times[k] \in Int /\ o \in Int
      BY <1>1, <1>3, <2>2, <3>1
    <3>4. Abs(times[k] - o) <= Width
      BY <1>2, <2>1, <2>2, <3>2, <3>3 DEF Abs
    <3> QED
      BY <1>3, <3>1, <3>4
  <2>6. j \in Region(s, i)
    BY <1>4, <2>4, <2>5
  <2>7. s[j].v = 2
    BY <1>3, <2>2
  <2> QED
    BY <2>6, <2>7
<1>6. \A j \in Region(s, i) : j \in 1..n
  BY <1>1, <1>4
<1>7. PICK j \in Top : \A k \in Top : j <= k
  <2>1. Top \in SUBSET (1..n) /\ Top \in SUBSET Int
    BY <1>6
  <2>2. IsFiniteSet(1..n)
    BY UpTo
  <2> HIDE DEF Top
  <2>3. IsFiniteSet(Top)
    BY <2>1, <2>2, FS_Subset
  <2> QED
    BY <1>5, <2>1, <2>3, LeastOf
<1> DEFINE Best(p) == \A k \in Region(s, i) : s[k].v < s[p].v \/ (s[k].v = s[p].v /\ p <= k)
<1>8. j \in Region(s, i) /\ s[j].v = 2 /\ Best(j)
  <2>1. j \in Region(s, i) /\ s[j].v = 2
    OBVIOUS
  <2>2. ASSUME NEW k \in Region(s, i) PROVE s[k].v < s[j].v \/ (s[k].v = s[j].v /\ j <= k)
    <3>1. s[k].v \in 0..2
      BY <1>3, <1>6
    <3>2. s[k].v = 2 => j <= k
      BY <1>7
    <3> QED
      BY <2>1, <3>1, <3>2
  <2> QED
    BY <2>1, <2>2
<1>9. Peak(s, i) = CHOOSE p \in Region(s, i) : Best(p)
  BY DEF Peak
<1>10. Peak(s, i) \in Region(s, i) /\ Best(Peak(s, i))
  <2> HIDE DEF Best
  <2> QED
    BY <1>8, <1>9
<1>11. s[Peak(s, i)].v = 2
  <2>1. s[Peak(s, i)].v \in 0..2
    BY <1>3, <1>6, <1>10
  <2>2. s[j].v < s[Peak(s, i)].v \/ s[j].v = s[Peak(s, i)].v
    BY <1>8, <1>10
  <2> QED
    BY <1>8, <2>1, <2>2
<1> QED
  BY <1>3, <1>6, <1>10, <1>11

LEMMA DetectsSeen ==
    ASSUME visible \in [Device -> SUBSET Fiducials], NEW d \in Device
    PROVE  LET r == FindImpulsePeaks(EventSignal(d)) IN
           r \in Seq(Int) /\ \A i \in 1..Len(r) : r[i] \in Seen(d)
<1> DEFINE S == Sampled(d)
           n == Cardinality(S)
           times == Ascending(S)
           s == EventSignal(d)
           order == Ascending(Starts(s))
           m == Cardinality(Starts(s))
           r == FindImpulsePeaks(s)
<1>1. S \in SUBSET Int /\ IsFiniteSet(S) /\ Seen(d) \in SUBSET Int /\ Seen(d) \in SUBSET S
  BY SampledFinite DEF Sampled
<1>2. s = [i \in DOMAIN times |-> [t |-> times[i], v |-> Level(d, times[i])]]
  BY DEF EventSignal, Sampled
<1> HIDE DEF S
<1>3. /\ n \in Nat /\ times \in [1..n -> S]
      /\ \A i, j \in 1..n : i < j => times[i] < times[j]
      /\ \A x \in S : \E i \in 1..n : times[i] = x
  BY <1>1, Ascends
<1> HIDE DEF n, times, s
<1>4. /\ DOMAIN s = 1..n /\ Len(s) = n
      /\ \A i \in 1..n : s[i].t = times[i] /\ s[i].v = Level(d, times[i])
  <2>1. s = [i \in 1..n |-> [t |-> times[i], v |-> Level(d, times[i])]]
    BY <1>2, <1>3
  <2>2. DOMAIN s = 1..n
    BY <2>1
  <2> QED
    BY <1>3, <2>1, <2>2
<1>5. times \in [1..n -> Int] /\ \A o \in Seen(d) : \E i \in 1..n : times[i] = o
  BY <1>1, <1>3
<1>6. \A i \in Starts(s) : s[Peak(s, i)].t \in Seen(d)
  BY <1>3, <1>4, <1>5, PeakInSeen
<1>7. Starts(s) \in SUBSET Int /\ IsFiniteSet(Starts(s))
  <2>1. Starts(s) \in SUBSET (1..n)
    BY <1>4 DEF Starts
  <2>2. IsFiniteSet(1..n)
    BY <1>3, UpTo
  <2> QED
    BY <1>3, <2>1, <2>2, FS_Subset
<1>8. m \in Nat /\ order \in [1..m -> Starts(s)]
  BY <1>7, Ascends
<1>9. r = [k \in DOMAIN order |-> s[Peak(s, order[k])].t]
  BY DEF FindImpulsePeaks, Starts
<1> HIDE DEF m, order, r
<1>10. \A k \in 1..m : r[k] \in Seen(d)
  BY <1>6, <1>8, <1>9
<1>11. DOMAIN r = 1..m /\ r = [k \in 1..m |-> r[k]]
  BY <1>8, <1>9
<1>12. r \in Seq(Int) /\ Len(r) = m
  BY <1>1, <1>8, <1>10, <1>11
<1> QED
  BY <1>10, <1>12 DEF r, s

-----------------------------------------------------------------------------
(* What a failing detector leaves of its detections t, before they are     *)
(* moved, and after.                                                       *)
Leaves(t, lost, copied, off, extra) ==
    LET kept == Ascending(DOMAIN t \ lost)
        twice == Ascending(copied)
    IN  [k \in DOMAIN kept |-> t[kept[k]]]
        \o [k \in DOMAIN twice |-> t[twice[k]] + off[twice[k]]]
        \o extra

Moves(all, moved, by) == Sort([k \in DOMAIN all |-> all[k] + IF k \in moved THEN by[k] ELSE 0])

(* x is off from an element of t by at most w. *)
OffBy(x, t, w) == \E j \in 1..Len(t) : Abs(x - t[j]) <= w

LEMMA Left ==
    ASSUME NEW t \in Seq(Int), NEW lost \in SUBSET DOMAIN t, NEW copied \in SUBSET DOMAIN t,
           NEW off \in [copied -> -Jitter..Jitter], NEW extra \in Seq(Int)
    PROVE  LET all == Leaves(t, lost, copied, off, extra) IN
           /\ all \in Seq(Int)
           /\ extra = << >> => \A k \in 1..Len(all) : OffBy(all[k], t, Jitter)
           /\ extra = << >> /\ copied = {} => \A k \in 1..Len(all) : OffBy(all[k], t, 0)
<1> DEFINE kept == Ascending(DOMAIN t \ lost)
           twice == Ascending(copied)
           n == Len(t)
           u == [k \in DOMAIN kept |-> t[kept[k]]]
           v == [k \in DOMAIN twice |-> t[twice[k]] + off[twice[k]]]
           all == Leaves(t, lost, copied, off, extra)
<1>1. n \in Nat /\ DOMAIN t = 1..n /\ (\A j \in 1..n : t[j] \in Int) /\ Jitter \in Nat
  BY DetectorAssumption
<1>2. all = u \o v \o extra
  BY DEF Leaves
<1>3. /\ DOMAIN t \ lost \in SUBSET (1..n) /\ DOMAIN t \ lost \in SUBSET Int
      /\ copied \in SUBSET (1..n) /\ copied \in SUBSET Int
  BY <1>1
<1> HIDE DEF n
<1>4. IsFiniteSet(1..n)
  BY <1>1, UpTo
<1>5. IsFiniteSet(DOMAIN t \ lost) /\ IsFiniteSet(copied)
  <2>1. IsFiniteSet(DOMAIN t \ lost)
    BY <1>3, <1>4, FS_Subset
  <2>2. IsFiniteSet(copied)
    BY <1>3, <1>4, FS_Subset
  <2> QED
    BY <2>1, <2>2
<1>6. PICK a \in Nat : kept \in [1..a -> DOMAIN t \ lost]
  BY <1>3, <1>5, Ascends
<1>7. PICK b \in Nat : twice \in [1..b -> copied] /\ (copied = {} => b = 0)
  BY <1>3, <1>5, Ascends, FS_EmptySet
<1> HIDE DEF kept, twice
<1>8. /\ \A k \in 1..a : kept[k] \in 1..n
      /\ \A k \in 1..b : twice[k] \in 1..n /\ off[twice[k]] \in -Jitter..Jitter
  BY <1>1, <1>3, <1>6, <1>7
<1>9. /\ u = [k \in 1..a |-> t[kept[k]]]
      /\ v = [k \in 1..b |-> t[twice[k]] + off[twice[k]]]
  BY <1>6, <1>7
<1> HIDE DEF u, v, all
<1>10. \A k \in 1..a : u[k] \in Int /\ OffBy(u[k], t, 0) /\ OffBy(u[k], t, Jitter)
  <2> TAKE k \in 1..a
  <2>1. u[k] = t[kept[k]] /\ kept[k] \in 1..n /\ t[kept[k]] \in Int
    BY <1>1, <1>8, <1>9
  <2>2. Abs(u[k] - t[kept[k]]) <= 0 /\ Abs(u[k] - t[kept[k]]) <= Jitter
    BY <1>1, <2>1 DEF Abs
  <2> QED
    BY <2>1, <2>2 DEF OffBy, n
<1>11. \A k \in 1..b : v[k] \in Int /\ OffBy(v[k], t, Jitter)
  <2> TAKE k \in 1..b
  <2>1. /\ v[k] = t[twice[k]] + off[twice[k]] /\ twice[k] \in 1..n /\ t[twice[k]] \in Int
        /\ off[twice[k]] \in -Jitter..Jitter
    BY <1>1, <1>8, <1>9
  <2>2. v[k] \in Int /\ Abs(v[k] - t[twice[k]]) <= Jitter
    BY <1>1, <2>1 DEF Abs
  <2> QED
    BY <2>1, <2>2 DEF OffBy, n
<1>12. u \in Seq(Int) /\ Len(u) = a /\ v \in Seq(Int) /\ Len(v) = b
  <2>1. u \in [1..a -> Int] /\ v \in [1..b -> Int]
    BY <1>9, <1>10, <1>11
  <2>2. a \in Nat /\ b \in Nat
    OBVIOUS
  <2> QED
    BY <2>1, <2>2
<1>13. all \in Seq(Int)
  BY <1>2, <1>12
<1>14. ASSUME extra = << >>, NEW k \in 1..Len(all)
       PROVE  /\ OffBy(all[k], t, Jitter)
              /\ copied = {} => OffBy(all[k], t, 0)
  <2>1. /\ Len(all) = a + b
        /\ k <= a => all[k] = u[k]
        /\ k > a => all[k] = v[k - a]
    <3>1. u \o v \in Seq(Int) /\ Len(u \o v) = a + b
      <4>1. u \in Seq(Int) /\ v \in Seq(Int)
        BY <1>12
      <4>2. u \o v \in Seq(Int) /\ Len(u \o v) = Len(u) + Len(v)
        BY <4>1
      <4> QED
        BY <1>12, <4>2
    <3>2. all = u \o v
      BY <1>2, <1>14, <3>1
    <3>3. k \in 1..a + b
      BY <1>14, <3>1, <3>2
    <3> QED
      BY <1>12, <3>1, <3>2, <3>3
  <2>2. CASE k \in 1..a
    BY <1>10, <2>1, <2>2
  <2>3. CASE k \notin 1..a
    <3>1. k > a /\ k - a \in 1..b /\ k \in Int
      BY <1>13, <1>14, <2>1, <2>3
    <3>2. copied # {}
      BY <1>7, <3>1
    <3>3. OffBy(v[k - a], t, Jitter)
      BY <1>11, <3>1
    <3> QED
      BY <2>1, <3>1, <3>2, <3>3
  <2> QED
    BY <2>2, <2>3
<1> QED
  BY <1>13, <1>14 DEF all

LEMMA Triangle ==
    ASSUME NEW x \in Int, NEW y \in Int, NEW z \in Int, NEW a \in Int, NEW b \in Int,
           Abs(x - y) <= b, Abs(y - z) <= a
    PROVE  Abs(x - z) <= a + b
BY DEF Abs

LEMMA MovesNear ==
    ASSUME NEW all \in Seq(Int), NEW moved \in SUBSET DOMAIN all,
           NEW by \in [moved -> (-Noise..Noise) \ {0}]
    PROVE  LET r == Moves(all, moved, by) IN
           /\ r \in Seq(Int)
           /\ \A k \in 1..Len(r) : OffBy(r[k], all, Noise)
           /\ moved = {} => \A k \in 1..Len(r) : OffBy(r[k], all, 0)
<1> DEFINE n == Len(all)
           put == [k \in DOMAIN all |-> all[k] + IF k \in moved THEN by[k] ELSE 0]
           r == Moves(all, moved, by)
<1>1. n \in Nat /\ DOMAIN all = 1..n /\ (\A k \in 1..n : all[k] \in Int) /\ Noise \in Nat
  BY DetectorAssumption
<1>2. \A k \in 1..n : /\ put[k] \in Int /\ Abs(put[k] - all[k]) <= Noise
                      /\ moved = {} => Abs(put[k] - all[k]) <= 0
  <2> TAKE k \in 1..n
  <2>1. put[k] = all[k] + IF k \in moved THEN by[k] ELSE 0
    BY <1>1
  <2>2. k \in moved => by[k] \in -Noise..Noise
    OBVIOUS
  <2> QED
    BY <1>1, <2>1, <2>2 DEF Abs
<1>3. DOMAIN put = 1..n /\ put = [k \in 1..n |-> put[k]]
  BY <1>1
<1>4. r = Sort(put)
  BY DEF Moves
<1> HIDE DEF n, put, r
<1>5. put \in Seq(Int) /\ Len(put) = n
  BY <1>1, <1>2, <1>3
<1>6. /\ r \in Seq(Int) /\ Len(r) = n
      /\ \A k \in 1..n : \E i \in 1..n : r[k] = put[i]
  <2>1. /\ Sort(put) \in Seq(Int) /\ Len(Sort(put)) = Len(put)
        /\ \A k \in 1..Len(put) : \E i \in 1..Len(put) : Sort(put)[k] = put[i]
    BY <1>5, Sorts
  <2> QED
    BY <1>4, <1>5, <2>1
<1>7. ASSUME NEW k \in 1..n
      PROVE  OffBy(r[k], all, Noise) /\ (moved = {} => OffBy(r[k], all, 0))
  <2>1. PICK i \in 1..n : r[k] = put[i]
    BY <1>6
  <2> QED
    BY <1>2, <2>1 DEF OffBy, n
<1> QED
  BY <1>6, <1>7 DEF r

-----------------------------------------------------------------------------
(* The invariant of the pipeline: what is detected shows a fiducial until  *)
(* a detection is made up, at its true time as long as the device's        *)
(* detector has not failed, and what is grouped is what was detected.      *)
Distinct(s) == \A i, j \in 1..Len(s) : s[i] = s[j] => i = j

DetTypes ==
    /\ visible \in [Device -> SUBSET Fiducials]
    /\ stage \in {"detect", "corrupt", "group"}
    /\ detections \in [Device -> Seq(Int)]
    /\ todo \in Seq(Device) /\ Distinct(todo)
    /\ faults \in Nat /\ fabricated \in BOOLEAN

Waiting == stage # "group" => entries = << >> /\ Fresh

Untouched(d) == faults = 0 \/ \E i \in 1..Len(todo) : todo[i] = d

ShownBy(x, d) == \E f \in visible[d] : Abs(x - (f - TrueShift[d])) <= Jitter + Noise

Faithful ==
    stage # "detect" =>
        \A d \in Device : \A i \in 1..Len(detections[d]) :
            /\ Untouched(d) => detections[d][i] \in Seen(d)
            /\ fabricated \/ ShownBy(detections[d][i], d)

Piped == visible # [d \in Device |-> {}]

Listed == stage = "group" /\ Piped => Lists(entries, detections)

DetectInv == IInv /\ SepInv /\ DetTypes /\ Waiting /\ Faithful /\ Listed

LEMMA SeenShown ==
    ASSUME visible \in [Device -> SUBSET Fiducials], NEW d \in Device, NEW x \in Seen(d)
    PROVE  ShownBy(x, d)
<1>1. PICK f \in visible[d] : x = f - TrueShift[d]
  BY DEF Seen
<1>2. x \in Int
  BY SampledFinite
<1>3. Abs(x - (f - TrueShift[d])) <= Jitter + Noise
  BY <1>1, <1>2, DetectorAssumption DEF Abs
<1> QED
  BY <1>3 DEF ShownBy

LEMMA InitDetect == DetectInit => DetectInv
<1> SUFFICES ASSUME DetectInit PROVE DetectInv
  OBVIOUS
<1>1. IInv /\ SepInv
  <2>1. CASE Detecting
    <3>1. InTime /\ Fresh
      BY <2>1 DEF Detecting, InTime, Fresh
    <3> QED
      BY <3>1, FreshIInv, FreshSep
  <2>2. CASE Grouping
    BY <2>2, InitIInv, InitSep DEF Grouping
  <2> QED
    BY <2>1, <2>2 DEF DetectInit
<1>2. DetTypes
  <2>1. visible \in [Device -> SUBSET Fiducials]
    BY DEF DetectInit
  <2>2. stage \in {"detect", "corrupt", "group"}
    BY DEF DetectInit, Detecting, Grouping
  <2>3. detections \in [Device -> Seq(Int)] /\ todo \in Seq(Device) /\ Distinct(todo)
    BY DEF DetectInit, Distinct
  <2> QED
    BY <2>1, <2>2, <2>3 DEF DetTypes, DetectInit
<1>3. Waiting
  BY DEF DetectInit, Waiting, Detecting, Grouping, Fresh
<1>4. Faithful
  <2>1. \A d \in Device : 1..Len(detections[d]) = {}
    BY DEF DetectInit
  <2> QED
    BY <2>1 DEF Faithful
<1>5. Listed
  BY DEF Listed, Piped, DetectInit, Detecting
<1> QED
  BY <1>1, <1>2, <1>3, <1>4, <1>5 DEF DetectInv

LEMMA DetectStep == DetectInv /\ Detect => DetectInv'
<1> SUFFICES ASSUME DetectInv, Detect PROVE DetectInv'
  OBVIOUS
<1>1. DetTypes /\ Waiting
  BY DEF DetectInv
<1>2. /\ stage = "detect" /\ stage' = "corrupt" /\ todo' = DeviceOrder
      /\ UNCHANGED <<vars, visible, faults, fabricated>>
      /\ detections' = [d \in Device |-> FindImpulsePeaks(EventSignal(d))]
  BY DEF Detect
<1>3. IInv' /\ SepInv'
  BY <1>2, NextIInv, NextSep DEF DetectInv
<1>4. \A d \in Device : /\ detections'[d] \in Seq(Int)
                        /\ \A i \in 1..Len(detections'[d]) : detections'[d][i] \in Seen(d)
  BY <1>1, <1>2, DetectsSeen DEF DetTypes
<1>5. DetTypes'
  <2>1. DeviceOrder \in Seq(Device) /\ Distinct(DeviceOrder)
    BY Orders, DetectorAssumption DEF Distinct
  <2>2. detections' \in [Device -> Seq(Int)]
    BY <1>2, <1>4
  <2>3. todo' \in Seq(Device) /\ Distinct(todo')
    BY <1>2, <2>1
  <2> QED
    BY <1>1, <1>2, <2>2, <2>3 DEF DetTypes, Distinct
<1>6. Waiting'
  BY <1>1, <1>2 DEF Waiting, Fresh, vars
<1>7. Faithful'
  <2>1. ASSUME NEW d \in Device, NEW i \in 1..Len(detections'[d])
        PROVE  detections'[d][i] \in Seen(d) /\ ShownBy(detections'[d][i], d)
    <3>1. detections'[d][i] \in Seen(d)
      BY <1>4
    <3> QED
      BY <1>1, <3>1, SeenShown DEF DetTypes
  <2>2. \A d \in Device : Seen(d)' = Seen(d)
    BY <1>2 DEF Seen
  <2>3. \A d \in Device : \A i \in 1..Len(detections'[d]) :
          ShownBy(detections[d][i], d)' <=> ShownBy(detections'[d][i], d)
    BY <1>2 DEF ShownBy
  <2> QED
    BY <2>1, <2>2, <2>3 DEF Faithful
<1>8. Listed'
  BY <1>2 DEF Listed
<1> QED
  BY <1>3, <1>5, <1>6, <1>7, <1>8 DEF DetectInv

(* What a failing detector makes of detections at their true times. *)
LEMMA Corrupts ==
    ASSUME visible \in [Device -> SUBSET Fiducials], NEW d \in Device, NEW t \in Seq(Int),
           \A i \in 1..Len(t) : t[i] \in Seen(d),
           NEW lost \in SUBSET DOMAIN t, NEW copied \in SUBSET DOMAIN t,
           NEW off \in [copied -> -Jitter..Jitter], NEW extra \in Seq(Int),
           NEW moved \in SUBSET DOMAIN Leaves(t, lost, copied, off, extra),
           NEW by \in [moved -> (-Noise..Noise) \ {0}]
    PROVE  LET r == Moves(Leaves(t, lost, copied, off, extra), moved, by) IN
           /\ r \in Seq(Int)
           /\ extra = << >> => \A k \in 1..Len(r) : ShownBy(r[k], d)
           /\ extra = << >> /\ copied = {} /\ moved = {} =>
                \A k \in 1..Len(r) : r[k] \in Seen(d)
<1> DEFINE all == Leaves(t, lost, copied, off, extra)
           r == Moves(all, moved, by)
<1>1. /\ all \in Seq(Int)
      /\ extra = << >> => \A k \in 1..Len(all) : OffBy(all[k], t, Jitter)
      /\ extra = << >> /\ copied = {} => \A k \in 1..Len(all) : OffBy(all[k], t, 0)
  BY Left
<1>2. moved \in SUBSET DOMAIN all
  OBVIOUS
<1> HIDE DEF all
<1>3. /\ r \in Seq(Int)
      /\ \A k \in 1..Len(r) : OffBy(r[k], all, Noise)
      /\ moved = {} => \A k \in 1..Len(r) : OffBy(r[k], all, 0)
  BY <1>1, <1>2, MovesNear
<1> HIDE DEF r
<1>4. /\ \A k \in 1..Len(all) : all[k] \in Int
      /\ \A k \in 1..Len(r) : r[k] \in Int
      /\ \A j \in 1..Len(t) : t[j] \in Int
  BY <1>1, <1>3
<1>5. Jitter \in Nat /\ Noise \in Nat /\ TrueShift[d] \in Int
  BY DetectorAssumption
<1>6. ASSUME extra = << >>, NEW k \in 1..Len(r) PROVE ShownBy(r[k], d)
  <2>1. PICK i \in 1..Len(all) : Abs(r[k] - all[i]) <= Noise
    BY <1>3 DEF OffBy
  <2>2. PICK j \in 1..Len(t) : Abs(all[i] - t[j]) <= Jitter
    BY <1>1, <1>6 DEF OffBy
  <2>3. PICK f \in visible[d] : t[j] = f - TrueShift[d]
    BY DEF Seen
  <2>4. r[k] \in Int /\ all[i] \in Int /\ t[j] \in Int
    BY <1>4
  <2>5. Abs(r[k] - t[j]) <= Jitter + Noise
    <3>1. Jitter \in Int /\ Noise \in Int
      BY <1>5
    <3> QED
      BY <2>1, <2>2, <2>4, <3>1, Triangle, Zenon
  <2> QED
    BY <2>3, <2>5 DEF ShownBy
<1>7. ASSUME extra = << >>, copied = {}, moved = {}, NEW k \in 1..Len(r) PROVE r[k] \in Seen(d)
  <2>1. PICK i \in 1..Len(all) : Abs(r[k] - all[i]) <= 0
    BY <1>3, <1>7 DEF OffBy
  <2>2. PICK j \in 1..Len(t) : Abs(all[i] - t[j]) <= 0
    BY <1>1, <1>7 DEF OffBy
  <2>3. r[k] \in Int /\ all[i] \in Int /\ t[j] \in Int
    BY <1>4
  <2>4. r[k] = t[j]
    BY <2>1, <2>2, <2>3 DEF Abs
  <2> QED
    BY <2>4
<1> QED
  BY <1>3, <1>6, <1>7 DEF r, all

LEMMA CorruptStep == DetectInv /\ Corrupt => DetectInv'
<1> SUFFICES ASSUME DetectInv, Corrupt PROVE DetectInv'
  OBVIOUS
<1> DEFINE d == Head(todo)
           t == detections[d]
           left == MaxFaults - faults
<1>1. DetTypes /\ Waiting /\ Faithful
  BY DEF DetectInv
<1>2. /\ stage = "corrupt" /\ todo # << >> /\ todo' = Tail(todo)
      /\ UNCHANGED <<vars, visible, stage>>
  BY DEF Corrupt
<1>3. PICK lost \in SUBSET DOMAIN t, copied \in SUBSET DOMAIN t :
             /\ Cardinality(lost \cup copied) <= left
             /\ \E off \in [copied -> -Jitter..Jitter] :
                \E extra \in BoundedSeq(0..Duration - 1, left - Cardinality(lost \cup copied)) :
                  LET all == Leaves(t, lost, copied, off, extra)
                  IN  \E moved \in SUBSET DOMAIN all :
                      \E by \in [moved -> (-Noise..Noise) \ {0}] :
                        /\ faults' = faults + Cardinality(lost \cup copied)
                                       + Len(extra) + Cardinality(moved)
                        /\ faults' <= MaxFaults
                        /\ detections' = [detections EXCEPT ![d] = Moves(all, moved, by)]
                        /\ fabricated' = (fabricated \/ extra # << >>)
  BY DEF Corrupt, Leaves, Moves
<1>4. PICK off \in [copied -> -Jitter..Jitter],
           extra \in BoundedSeq(0..Duration - 1, left - Cardinality(lost \cup copied)) :
             \E moved \in SUBSET DOMAIN Leaves(t, lost, copied, off, extra) :
             \E by \in [moved -> (-Noise..Noise) \ {0}] :
               /\ faults' = faults + Cardinality(lost \cup copied)
                              + Len(extra) + Cardinality(moved)
               /\ detections' = [detections EXCEPT ![d] =
                                   Moves(Leaves(t, lost, copied, off, extra), moved, by)]
               /\ fabricated' = (fabricated \/ extra # << >>)
  BY <1>3
<1> DEFINE all == Leaves(t, lost, copied, off, extra)
<1>5. PICK moved \in SUBSET DOMAIN all :
             \E by \in [moved -> (-Noise..Noise) \ {0}] :
               /\ faults' = faults + Cardinality(lost \cup copied)
                              + Len(extra) + Cardinality(moved)
               /\ detections' = [detections EXCEPT ![d] = Moves(all, moved, by)]
               /\ fabricated' = (fabricated \/ extra # << >>)
  BY <1>4
<1>6. PICK by \in [moved -> (-Noise..Noise) \ {0}] :
               /\ faults' = faults + Cardinality(lost \cup copied)
                              + Len(extra) + Cardinality(moved)
               /\ detections' = [detections EXCEPT ![d] = Moves(all, moved, by)]
               /\ fabricated' = (fabricated \/ extra # << >>)
  BY <1>5
<1> DEFINE r == Moves(all, moved, by)
           losses == Cardinality(lost \cup copied)
<1>7. /\ d \in Device /\ t \in Seq(Int) /\ Tail(todo) \in Seq(Device)
      /\ Len(todo) \in Nat /\ Len(Tail(todo)) = Len(todo) - 1 /\ todo[1] = d /\ 1 \in 1..Len(todo)
      /\ \A i \in 1..Len(todo) - 1 : Tail(todo)[i] = todo[i + 1] /\ i + 1 \in 1..Len(todo)
  BY <1>1, <1>2 DEF DetTypes
<1>8. losses \in Nat /\ (losses = 0 => copied = {})
  <2>1. Len(t) \in Nat /\ DOMAIN t = 1..Len(t)
    BY <1>7
  <2>2. IsFiniteSet(1..Len(t)) /\ lost \cup copied \in SUBSET (1..Len(t))
    BY <2>1, UpTo
  <2>3. IsFiniteSet(lost \cup copied)
    BY <2>2, FS_Subset
  <2> QED
    BY <2>3, FS_CardinalityType, FS_EmptySet
<1>9. extra \in Seq(Int) /\ Len(extra) \in Nat /\ (Len(extra) = 0 => extra = << >>)
  <2> DEFINE z == left - losses
  <2>1. z \in Int
    BY <1>1, <1>8, DetectorAssumption DEF DetTypes
  <2>2. extra \in UNION {[1..m -> 0..Duration - 1] : m \in 0..z}
    BY <1>4 DEF BoundedSeq, SeqOf
  <2> HIDE DEF z
  <2>3. PICK m \in 0..z : extra \in [1..m -> 0..Duration - 1]
    BY <2>2
  <2>4. m \in Nat /\ extra \in [1..m -> Int]
    BY <2>1, <2>3
  <2> QED
    BY <2>4
<1>10. \A i \in 1..Len(t) : t[i] \in Seen(d)
  <2>1. Untouched(d)
    BY <1>7 DEF Untouched
  <2> QED
    BY <1>1, <1>2, <1>7, <2>1 DEF Faithful
<1>11. /\ r \in Seq(Int)
       /\ extra = << >> => \A k \in 1..Len(r) : ShownBy(r[k], d)
       /\ extra = << >> /\ copied = {} /\ moved = {} => \A k \in 1..Len(r) : r[k] \in Seen(d)
  BY <1>1, <1>7, <1>9, <1>10, Corrupts DEF DetTypes
<1>12. Cardinality(moved) \in Nat /\ (Cardinality(moved) = 0 => moved = {})
  <2> DEFINE n == Len(all)
  <2>1. all \in Seq(Int)
    BY <1>7, <1>9, Left
  <2> HIDE DEF all
  <2>2. n \in Nat /\ moved \in SUBSET (1..n)
    BY <2>1
  <2>3. IsFiniteSet(1..n)
    BY <2>2, UpTo
  <2>4. IsFiniteSet(moved)
    BY <2>2, <2>3, FS_Subset
  <2> QED
    BY <2>4, FS_CardinalityType, FS_EmptySet
<1> HIDE DEF r, all, losses
<1>13. /\ faults' = faults + losses + Len(extra) + Cardinality(moved)
       /\ detections' = [detections EXCEPT ![d] = r]
       /\ fabricated' = (fabricated \/ extra # << >>)
  BY <1>6 DEF r, losses
<1>14. /\ faults \in Nat /\ faults' \in Nat
       /\ faults' = 0 => faults = 0 /\ extra = << >> /\ copied = {} /\ moved = {}
  <2>1. faults \in Nat
    BY <1>1 DEF DetTypes
  <2>2. faults' \in Nat /\ (faults' = 0 => faults = 0 /\ losses = 0 /\ Len(extra) = 0 /\ Cardinality(moved) = 0)
    BY <1>8, <1>9, <1>12, <1>13, <2>1
  <2> QED
    BY <1>8, <1>9, <1>12, <2>1, <2>2
<1>15. \A e \in Device : detections'[e] = IF e = d THEN r ELSE detections[e]
  BY <1>1, <1>13 DEF DetTypes
<1>16. IInv' /\ SepInv'
  BY <1>2, NextIInv, NextSep DEF DetectInv
<1>17. \A i, j \in 1..Len(todo) : todo[i] = todo[j] => i = j
  BY <1>1 DEF DetTypes, Distinct
<1>18. DetTypes'
  <2>1. detections' \in [Device -> Seq(Int)]
    BY <1>1, <1>7, <1>11, <1>13 DEF DetTypes
  <2>2. Distinct(Tail(todo))
    <3> SUFFICES ASSUME NEW i \in 1..Len(todo) - 1, NEW j \in 1..Len(todo) - 1,
                        Tail(todo)[i] = Tail(todo)[j]
                 PROVE  i = j
      BY <1>7 DEF Distinct
    <3>1. todo[i + 1] = todo[j + 1] /\ i + 1 \in 1..Len(todo) /\ j + 1 \in 1..Len(todo)
      BY <1>7
    <3>2. i + 1 = j + 1
      BY <1>17, <3>1
    <3> QED
      BY <3>2
  <2>3. todo' \in Seq(Device) /\ Distinct(todo')
    BY <1>2, <1>7, <2>2
  <2>4. fabricated' \in BOOLEAN
    BY <1>13
  <2> QED
    BY <1>1, <1>2, <1>14, <2>1, <2>3, <2>4 DEF DetTypes, Distinct
<1>19. Waiting'
  BY <1>1, <1>2 DEF Waiting, Fresh, vars
<1>20. ASSUME NEW e \in Device, Untouched(e)'
       PROVE  IF e = d THEN extra = << >> /\ copied = {} /\ moved = {} ELSE Untouched(e)
  <2>1. CASE faults' = 0
    BY <1>14, <2>1 DEF Untouched
  <2>2. CASE \E i \in 1..Len(todo') : todo'[i] = e
    <3>1. PICK i \in 1..Len(todo) - 1 : Tail(todo)[i] = e
      BY <1>2, <1>7, <2>2
    <3>2. todo[i + 1] = e /\ i + 1 \in 1..Len(todo) /\ i + 1 # 1
      BY <1>7, <3>1
    <3>3. e # d
      BY <1>7, <1>17, <3>2
    <3> QED
      BY <3>2, <3>3 DEF Untouched
  <2> QED
    BY <1>20, <2>1, <2>2 DEF Untouched
<1>21. Faithful'
  <2>1. ASSUME NEW e \in Device, NEW i \in 1..Len(detections'[e])
        PROVE  /\ Untouched(e)' => detections'[e][i] \in Seen(e)
               /\ fabricated' \/ ShownBy(detections'[e][i], e)
    <3>1. CASE e = d
      BY <1>11, <1>13, <1>15, <1>20, <2>1, <3>1
    <3>2. CASE e # d
      <4>1. detections'[e] = detections[e] /\ i \in 1..Len(detections[e])
        BY <1>15, <2>1, <3>2
      <4>2. /\ Untouched(e) => detections[e][i] \in Seen(e)
            /\ fabricated \/ ShownBy(detections[e][i], e)
        BY <1>1, <1>2, <4>1 DEF Faithful
      <4> QED
        BY <1>13, <1>20, <3>2, <4>1, <4>2
    <3> QED
      BY <3>1, <3>2
  <2>2. \A e \in Device : Seen(e)' = Seen(e)
    BY <1>2 DEF Seen
  <2>3. \A e \in Device : \A i \in 1..Len(detections'[e]) :
          ShownBy(detections[e][i], e)' <=> ShownBy(detections'[e][i], e)
    BY <1>2 DEF ShownBy
  <2> QED
    BY <2>1, <2>2, <2>3 DEF Faithful
<1>22. Listed'
  BY <1>2 DEF Listed
<1> QED
  BY <1>16, <1>18, <1>19, <1>21, <1>22 DEF DetectInv

LEMMA AssociateStep == DetectInv /\ Associate => DetectInv'
<1> SUFFICES ASSUME DetectInv, Associate PROVE DetectInv'
  OBVIOUS
<1>1. DetTypes /\ Waiting /\ Faithful
  BY DEF DetectInv
<1>2. /\ stage = "corrupt" /\ stage' = "group"
      /\ entries' = Sorted(Common(FlattenSeq(Laid(detections))))
      /\ UNCHANGED <<next, clusters, events, done, visible, detections, todo, faults, fabricated>>
  BY DEF Associate, Laid
<1>3. /\ FlattenSeq(Laid(detections)) \in Seq(Detection)
      /\ Lists(Sorted(Common(FlattenSeq(Laid(detections)))), detections)
  BY <1>1, Listing DEF DetTypes
<1>4. InTime'
  BY <1>2, <1>3, SortedInTime DEF InTime
<1>5. Fresh'
  BY <1>1, <1>2 DEF Waiting, Fresh
<1>6. IInv' /\ SepInv'
  BY <1>4, <1>5, FreshIInv, FreshSep, PTL
<1>7. DetTypes' /\ Waiting'
  BY <1>1, <1>2 DEF DetTypes, Waiting, Distinct
<1>8. Faithful'
  BY <1>1, <1>2 DEF Faithful, Untouched, Seen, ShownBy
<1>9. Listed'
  BY <1>2, <1>3 DEF Listed, Lists, IsOf
<1> QED
  BY <1>6, <1>7, <1>8, <1>9 DEF DetectInv

LEMMA NextDetect == DetectInv /\ [DetectNext]_<<vars, detectVars>> => DetectInv'
<1> SUFFICES ASSUME DetectInv, [DetectNext]_<<vars, detectVars>> PROVE DetectInv'
  OBVIOUS
<1>1. CASE Detect
  BY <1>1, DetectStep
<1>2. CASE Corrupt
  BY <1>2, CorruptStep
<1>3. CASE Associate
  BY <1>3, AssociateStep
<1>4. CASE Group \/ UNCHANGED <<vars, detectVars>>
  <2>1. [Next]_vars /\ UNCHANGED detectVars
    BY <1>4 DEF Group
  <2>2. IInv' /\ SepInv'
    BY <2>1, NextIInv, NextSep DEF DetectInv
  <2>3. entries' = entries
    BY <2>1, PlaceFacts DEF Next, Place, Finish, vars, DetectInv
  <2>4. DetTypes /\ Waiting /\ Faithful /\ Listed
    BY DEF DetectInv
  <2>5. DetTypes' /\ Faithful'
    BY <2>1, <2>4 DEF DetTypes, Faithful, Untouched, Seen, ShownBy, Distinct, detectVars
  <2>6. Waiting'
    BY <1>4, <2>4 DEF Waiting, Fresh, Group, detectVars, vars
  <2>7. Listed'
    <3>1. UNCHANGED <<entries, stage, visible, detections>>
      BY <2>1, <2>3 DEF detectVars
    <3>2. stage = "group" /\ Piped => Lists(entries, detections)
      BY <2>4 DEF Listed
    <3>3. (stage = "group" /\ Piped)' => stage = "group" /\ Piped
      BY <3>1 DEF Piped
    <3>4. Lists(entries, detections) => Lists(entries, detections)'
      <4>1. Lists(entries, detections) = Lists(entries', detections')
        BY <3>1
      <4>2. Lists(entries', detections') => Lists(entries, detections)'
        BY Zenon DEF Lists, IsOf
      <4> QED
        BY <4>1, <4>2
    <3>5. (stage = "group" /\ Piped)' => Lists(entries, detections)'
      BY <3>2, <3>3, <3>4, Zenon
    <3> QED
      BY <3>5, Zenon DEF Listed
  <2> QED
    BY <2>2, <2>5, <2>6, <2>7 DEF DetectInv
<1> QED
  BY <1>1, <1>2, <1>3, <1>4 DEF DetectNext

THEOREM DetectInvHolds == DetectSpec => []DetectInv
BY InitDetect, NextDetect, PTL DEF DetectSpec

-----------------------------------------------------------------------------
(* The entry at p is a detection of the fiducial f. *)
Shows(p, f) == \E i \in Detects(entries[p].dev, f) :
                 entries[p].ct = detections[entries[p].dev][i] + Shift[entries[p].dev]

(* Every detection shows a fiducial, and the events can be told apart. *)
Settled == DetectInv /\ done /\ Piped /\ ~fabricated /\ Clear

LEMMA SettledFacts ==
    ASSUME Settled
    PROVE  /\ visible \in [Device -> SUBSET Fiducials] /\ Fiducials \in SUBSET Int
           /\ TrueShift \in [Device -> Int] /\ Shift \in [Device -> Int]
           /\ Tolerance \in Nat /\ Jitter + Noise \in Nat /\ MinObservers \in Nat
           /\ Len(entries) \in Nat
           /\ \A p \in 1..Len(entries) : entries[p].dev \in Device /\ entries[p].ct \in Int
           /\ \A d \in Device : /\ detections[d] \in Seq(Int)
                                /\ DOMAIN detections[d] = 1..Len(detections[d])
                                /\ \A i \in DOMAIN detections[d] : detections[d][i] \in Int
           /\ Lists(entries, detections)
           /\ \A d \in Device : \A i \in DOMAIN detections[d] :
                /\ ShownBy(detections[d][i], d)
                /\ faults = 0 => detections[d][i] \in Seen(d)
<1>1. DetTypes /\ Waiting /\ Faithful /\ Listed /\ InTime /\ Resulting
  BY DEF Settled, DetectInv, IInv
<1>2. stage = "group"
  BY <1>1 DEF Waiting, Fresh, Settled
<1>3. \A d \in Device : /\ detections[d] \in Seq(Int)
                        /\ DOMAIN detections[d] = 1..Len(detections[d])
                        /\ \A i \in DOMAIN detections[d] : detections[d][i] \in Int
  BY <1>1 DEF DetTypes
<1>4. \A d \in Device : \A i \in DOMAIN detections[d] :
                /\ ShownBy(detections[d][i], d)
                /\ faults = 0 => detections[d][i] \in Seen(d)
  BY <1>1, <1>2, <1>3 DEF Faithful, Untouched, Settled
<1>5. \A p \in 1..Len(entries) : entries[p].dev \in Device /\ entries[p].ct \in Int
  <2>1. \A p \in 1..Len(entries) : entries[p] \in Entry
    BY <1>1 DEF InTime
  <2> QED
    BY <2>1 DEF Entry
<1>6. Lists(entries, detections)
  BY <1>1, <1>2 DEF Listed, Settled
<1>7. Len(entries) \in Nat
  BY <1>1 DEF InTime
<1>8. visible \in [Device -> SUBSET Fiducials]
  BY <1>1 DEF DetTypes
<1>9. /\ Fiducials \in SUBSET Int /\ TrueShift \in [Device -> Int] /\ Shift \in [Device -> Int]
      /\ Tolerance \in Nat /\ Jitter + Noise \in Nat /\ MinObservers \in Nat
  BY DetectorAssumption, ShiftAssumption, ToleranceAssumption
<1> QED
  BY <1>3, <1>4, <1>5, <1>6, <1>7, <1>8, <1>9

(* Two detections are of one fiducial just when they are close. *)
LEMMA CloseShows ==
    ASSUME Settled, NEW p \in 1..Len(entries), NEW q \in 1..Len(entries),
           NEW f \in Fiducials, NEW g \in Fiducials, Shows(p, f), Shows(q, g)
    PROVE  Close(p, q) <=> f = g
<1> DEFINE d == entries[p].dev
           e == entries[q].dev
<1>1. d \in Device /\ e \in Device
  BY SettledFacts
<1>2. PICK i \in Detects(d, f) : entries[p].ct = detections[d][i] + Shift[d]
  BY DEF Shows
<1>3. PICK j \in Detects(e, g) : entries[q].ct = detections[e][j] + Shift[e]
  BY DEF Shows
<1>4. Abs((detections[e][j] + Shift[e]) - (detections[d][i] + Shift[d])) <= Tolerance <=> f = g
  BY <1>1, <1>2, <1>3 DEF Settled, Clear
<1>5. Abs(entries[q].ct - entries[p].ct) <= Tolerance <=> f = g
  BY <1>2, <1>3, <1>4
<1>6. entries[q].ct \in Int /\ entries[p].ct \in Int
  BY SettledFacts
<1>7. Abs(entries[q].ct - entries[p].ct) = Abs(entries[p].ct - entries[q].ct)
  BY <1>6 DEF Abs
<1> QED
  BY <1>5, <1>7 DEF Close

LEMMA AllShow ==
    ASSUME Settled
    PROVE  /\ \A p \in 1..Len(entries) : \E f \in Fiducials : Shows(p, f)
           /\ \A f \in Fiducials : \A d \in Detected(f) :
                \E p \in 1..Len(entries) : entries[p].dev = d /\ Shows(p, f)
           /\ WellSeparated
           /\ \A p \in 1..Len(entries) : \A f \in Fiducials :
                Shows(p, f) => ClassDevices(p) = Detected(f)
<1> DEFINE Pos == 1..Len(entries)
<1>1. ASSUME NEW p \in Pos PROVE \E f \in Fiducials : Shows(p, f)
  <2>1. PICK d \in Device : \E i \in 1..Len(detections[d]) : IsOf(entries[p], detections, d, i)
    BY SettledFacts DEF Lists
  <2>2. PICK i \in 1..Len(detections[d]) :
               entries[p].dev = d /\ entries[p].ct = detections[d][i] + Shift[d]
    BY <2>1 DEF IsOf
  <2>3. i \in DOMAIN detections[d] /\ ShownBy(detections[d][i], d) /\ visible[d] \in SUBSET Fiducials
    BY SettledFacts
  <2>4. PICK f \in Fiducials : Abs(detections[d][i] - (f - TrueShift[d])) <= Jitter + Noise
    BY <2>3 DEF ShownBy
  <2>5. i \in Detects(d, f)
    BY <2>3, <2>4 DEF Detects
  <2> QED
    BY <2>2, <2>5 DEF Shows
<1>2. ASSUME NEW f \in Fiducials, NEW d \in Detected(f)
      PROVE  \E p \in Pos : entries[p].dev = d /\ Shows(p, f)
  <2>1. d \in Device /\ Detects(d, f) # {}
    BY DEF Detected
  <2>2. PICK i \in Detects(d, f) : i \in 1..Len(detections[d])
    BY <2>1, SettledFacts DEF Detects
  <2>3. PICK p \in Pos : IsOf(entries[p], detections, d, i)
    BY <2>1, <2>2, SettledFacts DEF Lists
  <2> QED
    BY <2>2, <2>3 DEF IsOf, Shows
<1>3. WellSeparated
  <2> SUFFICES ASSUME NEW p \in Pos, NEW q \in Pos, NEW r \in Pos, Close(p, q), Close(q, r)
               PROVE  Close(p, r)
    BY DEF WellSeparated
  <2>1. PICK f \in Fiducials, g \in Fiducials, h \in Fiducials :
               Shows(p, f) /\ Shows(q, g) /\ Shows(r, h)
    BY <1>1
  <2>2. f = g
    BY <2>1, CloseShows
  <2>3. g = h
    BY <2>1, CloseShows
  <2> QED
    BY <2>1, <2>2, <2>3, CloseShows
<1>4. ASSUME NEW p \in Pos, NEW f \in Fiducials, Shows(p, f)
      PROVE  ClassDevices(p) = Detected(f)
  <2>1. ASSUME NEW d \in ClassDevices(p) PROVE d \in Detected(f)
    <3>1. PICK q \in Pos : Close(p, q) /\ entries[q].dev = d
      BY DEF ClassDevices
    <3>2. PICK g \in Fiducials : Shows(q, g)
      BY <1>1
    <3>3. f = g
      BY <1>4, <3>1, <3>2, CloseShows
    <3>4. Detects(d, f) # {} /\ d \in Device
      BY <3>1, <3>2, <3>3, SettledFacts DEF Shows
    <3> QED
      BY <3>4 DEF Detected
  <2>2. ASSUME NEW d \in Detected(f) PROVE d \in ClassDevices(p)
    <3>1. PICK q \in Pos : entries[q].dev = d /\ Shows(q, f)
      BY <1>2
    <3>2. Close(p, q)
      BY <1>4, <3>1, CloseShows
    <3> QED
      BY <3>1, <3>2 DEF ClassDevices
  <2> QED
    BY <2>1, <2>2
<1> QED
  BY <1>1, <1>2, <1>3, <1>4

(* Detections of two fiducials come in the order of the fiducials, on one  *)
(* device whatever its failures, and across devices where it matters.      *)
LEMMA InOrder ==
    ASSUME Settled, NEW p \in 1..Len(entries), NEW q \in 1..Len(entries),
           NEW f \in Fiducials, NEW g \in Fiducials, Shows(p, f), Shows(q, g), f # g,
           entries[p].ct <= entries[q].ct,
           entries[p].dev = entries[q].dev \/ ~(2 * MinObservers > Cardinality(Device))
    PROVE  f < g
<1> DEFINE d == entries[p].dev
           e == entries[q].dev
<1>1. /\ d \in Device /\ e \in Device /\ f \in Int /\ g \in Int
      /\ entries[p].ct \in Int /\ entries[q].ct \in Int
  BY SettledFacts
<1>2. PICK i \in Detects(d, f) : entries[p].ct = detections[d][i] + Shift[d]
  BY DEF Shows
<1>3. PICK j \in Detects(e, g) : entries[q].ct = detections[e][j] + Shift[e]
  BY DEF Shows
<1> SUFFICES ASSUME g < f PROVE FALSE
  BY <1>1
<1>4. CASE ~(2 * MinObservers > Cardinality(Device))
  <2>1. (detections[d][i] + Shift[d]) - (detections[e][j] + Shift[e]) > 0
    BY <1>1, <1>2, <1>3, <1>4 DEF Settled, Clear
  <2> QED
    BY <1>1, <1>2, <1>3, <2>1
<1>5. CASE d = e
  <2> DEFINE x == detections[d][i]
             y == detections[d][j]
             w == TrueShift[d]
             R == Jitter + Noise
  <2>1. /\ i \in DOMAIN detections[d] /\ j \in DOMAIN detections[d]
        /\ Abs(x - (f - w)) <= R /\ Abs(y - (g - w)) <= R
    BY <1>2, <1>3, <1>5 DEF Detects
  <2>2. x \in Int /\ y \in Int /\ w \in Int /\ R \in Nat /\ Shift[d] \in Int
    BY <1>1, <2>1, SettledFacts
  <2>3. x <= y
    BY <1>2, <1>3, <1>5, <2>2
  <2> HIDE DEF x, y, w, R
  <2>4. Abs(x - (g - w)) <= R
    BY <1>1, <2>1, <2>2, <2>3 DEF Abs
  <2>5. i \in Detects(d, g)
    BY <2>1, <2>4 DEF Detects, x, w, R
  <2>6. Abs((x + Shift[d]) - (x + Shift[d])) <= Tolerance
    BY <2>2, SettledFacts DEF Abs
  <2>7. f = g
    BY <1>1, <1>2, <2>5, <2>6 DEF Settled, Clear, x
  <2> QED
    BY <2>7
<1> QED
  BY <1>4, <1>5

(* The cluster c is what all that detected the fiducial f saw of it. *)
Portrays(c, f) ==
    /\ DOMAIN clusters[c].held = Detected(f)
    /\ \A d \in DOMAIN clusters[c].held :
         /\ clusters[c].held[d] \in 1..Len(entries)
         /\ entries[clusters[c].held[d]].dev = d /\ Shows(clusters[c].held[d], f)

LEMMA ClusterPortrays ==
    ASSUME Settled
    PROVE  /\ \A c \in Cluster : DOMAIN clusters[c].held # {} /\ \E f \in Fiducials : Portrays(c, f)
           /\ \A f \in Fiducials : Detected(f) # {} => \E c \in Cluster : Portrays(c, f)
<1>1. IInv /\ SepInv /\ done /\ WellSeparated
  BY AllShow DEF Settled, DetectInv
<1>2. Owned /\ Together /\ Homed /\ Len(entries) \in Nat /\ next - 1 = Len(entries)
  BY <1>1 DEF IInv, SepInv, InTime, Resulting
<1>3. ASSUME NEW c \in Cluster, NEW p \in 1..Len(entries), NEW f \in Fiducials,
             Near(p, c), Shows(p, f)
      PROVE  Portrays(c, f)
  <2>1. DOMAIN clusters[c].held = Detected(f)
    BY <1>1, <1>3, ClassOfCluster, AllShow
  <2>2. ASSUME NEW d \in DOMAIN clusters[c].held
        PROVE  /\ clusters[c].held[d] \in 1..Len(entries)
               /\ entries[clusters[c].held[d]].dev = d /\ Shows(clusters[c].held[d], f)
    <3> DEFINE q == clusters[c].held[d]
    <3>1. q \in 1..Len(entries) /\ entries[q].dev = d /\ Close(p, q)
      BY <1>2, <1>3 DEF Owned, Owns, Near
    <3>2. PICK g \in Fiducials : Shows(q, g)
      BY <3>1, AllShow
    <3>3. f = g
      BY <1>3, <3>1, <3>2, CloseShows
    <3> QED
      BY <3>1, <3>2, <3>3
  <2> QED
    BY <2>1, <2>2 DEF Portrays
<1>4. ASSUME NEW c \in Cluster
      PROVE  DOMAIN clusters[c].held # {} /\ \E f \in Fiducials : Portrays(c, f)
  <2>1. PICK d \in DOMAIN clusters[c].held : clusters[c].held[d] \in 1..Len(entries)
    BY <1>2 DEF Owned, Owns
  <2>2. Near(clusters[c].held[d], c)
    BY <1>2 DEF Together
  <2>3. PICK f \in Fiducials : Shows(clusters[c].held[d], f)
    BY <2>1, AllShow
  <2>4. Portrays(c, f)
    BY <1>3, <2>1, <2>2, <2>3
  <2> QED
    BY <2>1, <2>4
<1>5. ASSUME NEW f \in Fiducials, Detected(f) # {}
      PROVE  \E c \in Cluster : Portrays(c, f)
  <2>1. PICK p \in 1..Len(entries) : Shows(p, f)
    BY <1>5, AllShow
  <2>2. PICK c \in Cluster : Near(p, c)
    BY <1>2, <2>1 DEF Homed, Home
  <2> QED
    BY <1>3, <2>1, <2>2
<1> QED
  BY <1>4, <1>5

(* Of two clusters with enough observers, the earlier one portrays the     *)
(* earlier fiducial.                                                       *)
LEMMA PortraysInOrder ==
    ASSUME Settled, NEW j \in Cluster, NEW k \in Cluster, j < k,
           Enough(clusters[j]), Enough(clusters[k]),
           NEW f \in Fiducials, NEW g \in Fiducials, Portrays(j, f), Portrays(k, g)
    PROVE  f < g
<1> DEFINE D == DOMAIN clusters[j].held
           E == DOMAIN clusters[k].held
<1>1. IInv /\ Len(clusters) \in Nat /\ Owned /\ Ordered /\ Apart /\ InTime
  BY AllShow DEF Settled, DetectInv, SepInv, IInv, Placed
<1>2. j \in 1..k - 1
  BY <1>1 DEF Cluster
<1>3. D # {} /\ E # {} /\ D \subseteq Device /\ E \subseteq Device
  BY <1>1 DEF Owned, Owns
<1>4. PICK d \in D, e \in E : d = e \/ ~(2 * MinObservers > Cardinality(Device))
  <2>1. CASE 2 * MinObservers > Cardinality(Device)
    <3>1. IsFiniteSet(Device) /\ MinObservers \in Nat
      BY DetectorAssumption, ToleranceAssumption
    <3>2. Cardinality(D) >= MinObservers /\ Cardinality(E) >= MinObservers
      BY DEF Enough
    <3> HIDE DEF D, E
    <3>3. IsFiniteSet(D) /\ IsFiniteSet(E)
      <4>1. IsFiniteSet(D)
        BY <1>3, <3>1, FS_Subset
      <4>2. IsFiniteSet(E)
        BY <1>3, <3>1, FS_Subset
      <4> QED
        BY <4>1, <4>2
    <3>4. Cardinality(D) \in Nat /\ Cardinality(E) \in Nat /\ Cardinality(Device) \in Nat
      BY <3>1, <3>3, FS_CardinalityType
    <3>5. Cardinality(D) + Cardinality(E) > Cardinality(Device)
      BY <2>1, <3>1, <3>2, <3>4
    <3>6. D \cap E # {}
      BY <1>3, <3>1, <3>5, FS_MajoritiesIntersect
    <3> QED
      BY <3>6
  <2>2. CASE ~(2 * MinObservers > Cardinality(Device))
    BY <1>3, <2>2
  <2> QED
    BY <2>1, <2>2
<1> DEFINE p == clusters[j].held[d]
           q == clusters[k].held[e]
<1>5. /\ p \in 1..Len(entries) /\ entries[p].dev = d /\ Shows(p, f)
      /\ q \in 1..Len(entries) /\ entries[q].dev = e /\ Shows(q, g)
  BY DEF Portrays
<1>6. p < q
  BY <1>1, <1>2 DEF Ordered
<1>7. entries[p].ct <= entries[q].ct
  BY <1>1, <1>5, <1>6 DEF InTime
<1>8. j # k
  BY <1>1 DEF Cluster
<1>9. ~Close(p, q)
  BY <1>1, <1>8 DEF Apart
<1> HIDE DEF p, q
<1>10. f # g
  BY <1>5, <1>9, CloseShows
<1> QED
  BY <1>4, <1>5, <1>7, <1>10, InOrder

(* An increasing enumeration is the only one.                              *)
LEMMA AscendsOnly ==
    ASSUME NEW n \in Nat, NEW f \in [1..n -> Int],
           \A i, j \in 1..n : i < j => f[i] < f[j],
           NEW P, \A k \in 1..n : f[k] \in P, \A p \in P : \E k \in 1..n : p = f[k]
    PROVE  Ascending(P) = f
<1>1. \A k \in 1..n : Cardinality(P) = n /\ Cardinality(Till(P, f[k])) = k
  BY UpToKth
<1>2. Cardinality(P) = n
  <2>1. CASE n = 0
    <3>1. P = {}
      BY <2>1
    <3> QED
      BY <2>1, <3>1, FS_EmptySet
  <2>2. CASE n # 0
    <3>1. 1 \in 1..n
      BY <2>2
    <3> QED
      BY <1>1, <3>1
  <2> QED
    BY <2>1, <2>2
<1>3. Ascending(P) = [k \in 1..n |-> CHOOSE x \in P : Cardinality(Till(P, x)) = k]
  BY <1>2 DEF Ascending, Till
<1>4. ASSUME NEW k \in 1..n
      PROVE  (CHOOSE x \in P : Cardinality(Till(P, x)) = k) = f[k]
  <2>1. f[k] \in P /\ Cardinality(Till(P, f[k])) = k
    BY <1>1
  <2>2. ASSUME NEW x \in P, Cardinality(Till(P, x)) = k PROVE x = f[k]
    <3>1. PICK j \in 1..n : x = f[j]
      OBVIOUS
    <3>2. Cardinality(Till(P, f[j])) = j
      BY <1>1
    <3> QED
      BY <2>2, <3>1, <3>2
  <2> QED
    BY <2>1, <2>2
<1> QED
  BY <1>3, <1>4

LEMMA EventsFound == DetectInv => EventsAreFiducials
<1> DEFINE shared == {f \in Fiducials : Detected(f) # {} /\ Cardinality(Detected(f)) >= MinObservers}
           order == Ascending(shared)
<1> SUFFICES ASSUME Settled
             PROVE  /\ Len(events) = Len(order)
                    /\ \A k \in DOMAIN order :
                         /\ DOMAIN events[k] = Detected(order[k])
                         /\ \A d \in DOMAIN events[k] :
                              /\ \E i \in Detects(d, order[k]) : events[k][d] = detections[d][i]
                              /\ faults = 0 => events[k][d] = order[k] - TrueShift[d]
  BY DEF EventsAreFiducials, Settled, Piped
<1>1. /\ clusters \in Seq(ClusterRecord)
      /\ events = [k \in DOMAIN Kept |-> Observations(clusters[Kept[k]])]
  BY DEF Settled, DetectInv, IInv, Placed, Resulting
<1>2. PICK n \in Nat :
             /\ DOMAIN Kept = 1..n
             /\ \A k \in 1..n : Kept[k] \in Cluster /\ Enough(clusters[Kept[k]])
             /\ \A j, k \in 1..n : j < k => Kept[j] < Kept[k]
             /\ \A c \in Cluster : Enough(clusters[c]) => \E k \in 1..n : Kept[k] = c
  BY <1>1, KeptAscends
<1> DEFINE fid == [k \in 1..n |-> CHOOSE f \in Fiducials : Portrays(Kept[k], f)]
<1>3. \A k \in 1..n : fid[k] \in Fiducials /\ Portrays(Kept[k], fid[k])
  <2> TAKE k \in 1..n
  <2>1. \E f \in Fiducials : Portrays(Kept[k], f)
    BY <1>2, ClusterPortrays
  <2> QED
    BY <2>1
<1>4. fid \in [1..n -> Int]
  <2>1. \A k \in 1..n : fid[k] \in Int
    BY <1>3, SettledFacts
  <2> QED
    BY <2>1
<1> HIDE DEF fid
<1>5. ASSUME NEW j \in 1..n, NEW k \in 1..n, j < k PROVE fid[j] < fid[k]
  BY <1>2, <1>3, <1>5, PortraysInOrder
<1>6. ASSUME NEW k \in 1..n PROVE fid[k] \in shared
  <2>1. DOMAIN clusters[Kept[k]].held = Detected(fid[k])
    BY <1>3 DEF Portrays
  <2>2. DOMAIN clusters[Kept[k]].held # {}
    BY <1>2, ClusterPortrays
  <2>3. Cardinality(Detected(fid[k])) >= MinObservers
    BY <1>2, <2>1 DEF Enough
  <2> QED
    BY <1>3, <2>1, <2>2, <2>3
<1>7. ASSUME NEW f \in shared PROVE \E k \in 1..n : f = fid[k]
  <2>1. f \in Fiducials /\ Detected(f) # {} /\ Cardinality(Detected(f)) >= MinObservers
    OBVIOUS
  <2>2. PICK c \in Cluster : Portrays(c, f)
    BY <2>1, ClusterPortrays
  <2>3. DOMAIN clusters[c].held = Detected(f)
    BY <2>2 DEF Portrays
  <2>4. Enough(clusters[c])
    BY <2>1, <2>3 DEF Enough
  <2>5. PICK k \in 1..n : Kept[k] = c
    BY <1>2, <2>4
  <2>6. PICK d \in DOMAIN clusters[c].held : TRUE
    BY <2>1, <2>3
  <2>7. /\ clusters[c].held[d] \in 1..Len(entries)
        /\ Shows(clusters[c].held[d], f) /\ Shows(clusters[c].held[d], fid[k])
    BY <1>3, <2>2, <2>5, <2>6 DEF Portrays
  <2>8. Close(clusters[c].held[d], clusters[c].held[d])
    BY <2>1, <2>7, CloseShows
  <2>9. f = fid[k]
    BY <1>3, <2>1, <2>7, <2>8, CloseShows
  <2> QED
    BY <2>9
<1> HIDE DEF shared, order
<1>8. order = fid
  <2>1. Ascending(shared) = fid
    BY <1>4, <1>5, <1>6, <1>7, AscendsOnly
  <2> QED
    BY <2>1 DEF order
<1>9. DOMAIN order = 1..n /\ Len(order) = n
  BY <1>4, <1>8
<1>10. DOMAIN events = 1..n /\ Len(events) = n
  BY <1>1, <1>2
<1>11. ASSUME NEW k \in 1..n
       PROVE  /\ DOMAIN events[k] = Detected(fid[k])
              /\ \A d \in DOMAIN events[k] :
                   /\ \E i \in Detects(d, fid[k]) : events[k][d] = detections[d][i]
                   /\ faults = 0 => events[k][d] = fid[k] - TrueShift[d]
  <2> DEFINE c == Kept[k]
             f == fid[k]
  <2>1. events[k] = [d \in DOMAIN clusters[c].held |-> Local(entries[clusters[c].held[d]])]
    BY <1>1, <1>2 DEF Observations
  <2>2. f \in Fiducials /\ Portrays(c, f)
    BY <1>3
  <2> HIDE DEF c, f
  <2>3. DOMAIN events[k] = Detected(f)
    BY <2>1, <2>2 DEF Portrays
  <2>4. ASSUME NEW d \in DOMAIN events[k]
        PROVE  /\ \E i \in Detects(d, f) : events[k][d] = detections[d][i]
               /\ faults = 0 => events[k][d] = f - TrueShift[d]
    <3> DEFINE p == clusters[c].held[d]
    <3>1. d \in DOMAIN clusters[c].held /\ events[k][d] = Local(entries[p])
      BY <2>1
    <3>2. p \in 1..Len(entries) /\ entries[p].dev = d /\ Shows(p, f)
      BY <2>2, <3>1 DEF Portrays
    <3> HIDE DEF p
    <3>3. PICK i \in Detects(d, f) : entries[p].ct = detections[d][i] + Shift[d]
      BY <3>2 DEF Shows
    <3>4. d \in Device /\ i \in DOMAIN detections[d]
      BY <3>2, SettledFacts DEF Detects
    <3>5. detections[d][i] \in Int /\ Shift[d] \in Int /\ TrueShift[d] \in Int
      BY <3>4, SettledFacts
    <3>6. events[k][d] = detections[d][i]
      BY <3>1, <3>2, <3>3, <3>5 DEF Local
    <3>7. ASSUME faults = 0 PROVE events[k][d] = f - TrueShift[d]
      <4>1. detections[d][i] \in Seen(d)
        BY <3>4, <3>7, SettledFacts
      <4>2. PICK g \in visible[d] : detections[d][i] = g - TrueShift[d]
        BY <4>1 DEF Seen
      <4>3. g \in Fiducials
        BY <3>4, SettledFacts
      <4>4. i \in Detects(d, g)
        <5>1. Abs(detections[d][i] - (g - TrueShift[d])) <= Jitter + Noise
          BY <3>5, <4>2, SettledFacts DEF Abs
        <5> QED
          BY <3>4, <5>1 DEF Detects
      <4>5. Shows(p, g)
        BY <3>2, <3>3, <4>4 DEF Shows
      <4>6. Close(p, p)
        BY <2>2, <3>2, CloseShows
      <4>7. f = g
        BY <2>2, <3>2, <4>3, <4>5, <4>6, CloseShows
      <4> QED
        BY <3>6, <4>2, <4>7
    <3> QED
      BY <3>3, <3>6, <3>7
  <2> QED
    BY <2>3, <2>4 DEF f
<1> QED
  BY <1>8, <1>9, <1>10, <1>11

(* Whatever the devices see and however their detectors lose, repeat and   *)
(* move detections, the events are the fiducials enough of them detected,  *)
(* in order, as long as the detections leave no doubt which is which.      *)
THEOREM EventsCorrect == DetectSpec => []EventsAreFiducials
BY DetectInvHolds, EventsFound, PTL

(* On detections of failing detectors too, the clusters account for every  *)
(* detection, and well-separated fiducials are found.                      *)
THEOREM DetectedSound == DetectSpec => [](ClusterInv /\ FiducialInv)
<1>1. DetectInv => ClusterInv /\ FiducialInv
  BY ClustersAccount, FindsAll, Agrees DEF DetectInv, FiducialInv
<1> QED
  BY <1>1, DetectInvHolds, PTL

(* On detections of failing detectors too, closed clusters stay closed. *)
THEOREM DetectedClosed == DetectSpec => ClosedStaysClosed
<1>1. ASSUME DetectInv, [DetectNext]_<<vars, detectVars>>
      PROVE  [\A k \in Cluster :
                /\ k < Len(clusters) => clusters'[k] = clusters[k]
                /\ DOMAIN clusters[k].held \subseteq DOMAIN clusters'[k].held]_vars
  <2>1. CASE Associate
    BY <2>1 DEF Associate
  <2>2. CASE Detect \/ Corrupt \/ Group \/ UNCHANGED <<vars, detectVars>>
    <3>1. [Next]_vars
      BY <2>2 DEF Detect, Corrupt, Group
    <3> QED
      BY <1>1, <3>1, ClosedStep DEF DetectInv
  <2> QED
    BY <1>1, <2>1, <2>2 DEF DetectNext
<1> QED
  BY <1>1, DetectInvHolds, PTL DEF DetectSpec, ClosedStaysClosed
=============================================================================

------------------------------ MODULE Subframe ------------------------------
(***************************************************************************)
(* Fixed-size bucketing of a high-rate stream onto the intervals between   *)
(* consecutive anchor frames: `subframe_buckets` and `compute_R` of        *)
(* sync/join.py.                                                           *)
(***************************************************************************)
EXTENDS Arrays

(* The samples of frame k, [a_k, a_k+1), as positions in the sorted h. *)
Members(a, h, k) == SearchLeft(h, a[k]) + 1 .. SearchLeft(h, a[k + 1])

(* Slip: a bucket that is not full goes on into the next frame. *)
BucketSlip(a, h, R, k) ==
    LET m == Clip(Cardinality(Members(a, h, k)), 0, R)
    IN  [count |-> m, valid |-> m > 0,
         index |-> [i \in 1..R |-> SearchLeft(h, a[k]) + i]]

(* At most R of them are kept; a bucket that is not full repeats the last, *)
(* and that of an empty frame is left pointing at the first sample of all. *)
Bucket(a, h, R, k) ==
    LET first == SearchLeft(h, a[k]) + 1
        m == Clip(Cardinality(Members(a, h, k)), 0, R)
    IN  [count |-> m,
         valid |-> m > 0,
         index |-> [i \in 1..R |-> IF m = 0 THEN 1 ELSE first + Clip(i, 1, m) - 1]]

(* h as the caller has it, sorted first. *)
Buckets(a, h, R) == [k \in 1..Len(a) - 1 |-> Bucket(a, Sort(h), R, k)]

(* compute_R, of two periods instead of two rates: how many samples, one   *)
(* each `period`, start in an interval of length `frame`.                  *)
ComputeR(frame, period) == (frame + period - 1) \div period
=============================================================================

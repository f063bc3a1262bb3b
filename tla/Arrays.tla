------------------------------- MODULE Arrays -------------------------------
(***************************************************************************)
(* The numpy and Python operations on arrays that the program relies on:   *)
(* sorting, searching in a sorted array, rounding.  An array is a          *)
(* sequence; a position runs from 1, and 0 stands for "none" (the code     *)
(* counts from 0 and writes -1).                                           *)
(***************************************************************************)
EXTENDS Integers, Sequences, FiniteSets

(* A stable sort of s by keys, one for each element: `list.sort(key=...)`, *)
(* and with the elements as their keys `np.sort`.                          *)
SortedBy(s, keys) ==
    LET Rank(i) == Cardinality({j \in DOMAIN s : \/ keys[j] < keys[i]
                                                 \/ keys[j] = keys[i] /\ j <= i})
    IN  [k \in DOMAIN s |-> s[CHOOSE i \in DOMAIN s : Rank(i) = k]]

Sort(s) == SortedBy(s, s)

(* The elements of a set of numbers in order: `np.unique`. *)
Ascending(S) == [k \in 1..Cardinality(S) |->
                   CHOOSE x \in S : Cardinality({y \in S : y <= x}) = k]

NonDecreasing(s) == \A i, j \in DOMAIN s : i < j => s[i] <= s[j]

(* `np.searchsorted` of x in a non-decreasing s: the number of elements    *)
(* below x (side "left"), or not above it (side "right").                  *)
SearchLeft(s, x) ==
    CHOOSE n \in 0..Len(s) : /\ \A i \in 1..n : s[i] < x
                             /\ \A i \in n + 1..Len(s) : s[i] >= x

SearchRight(s, x) ==
    CHOOSE n \in 0..Len(s) : /\ \A i \in 1..n : s[i] <= x
                             /\ \A i \in n + 1..Len(s) : s[i] > x

(* `np.clip` and the absolute value. *)
Clip(x, lo, hi) == IF x < lo THEN lo ELSE IF x > hi THEN hi ELSE x
Abs(x) == IF x < 0 THEN -x ELSE x

(* `np.round` of num/den, den > 0: to the nearest integer, ties to even. *)
Round(num, den) ==
    LET q == num \div den
        r == 2 * (num % den)
    IN  IF r > den \/ (r = den /\ q % 2 = 1) THEN q + 1 ELSE q
=============================================================================

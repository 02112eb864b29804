----------------------------- MODULE Statistics -----------------------------
(***************************************************************************)
(* Sorted, Quantile and Mean of src/statistics.rs over sequences of        *)
(* integers.  A quantile is a pair <<num, den>> with 0 <= num <= den; the  *)
(* product of a quantile and a length is exact here, where the code rounds *)
(* it to an f64.                                                           *)
(***************************************************************************)
EXTENDS Known, Integers, Sequences, FiniteSetsExt

IsQuantile(q) == q \in Nat \X Nat /\ q[2] > 0 /\ q[1] <= q[2]

(* How many elements come no later than the one at i when the sequence is sorted;
   equal ones stay in their order. *)
Rank(s, i) == Cardinality({j \in DOMAIN s : s[j] < s[i] \/ (s[j] = s[i] /\ j <= i)})

(* The element of rank r is at r, as a stable sort leaves it. *)
Sorted(s) == [r \in DOMAIN s |-> s[CHOOSE i \in DOMAIN s : Rank(s, i) = r]]

(* The element of a sorted sequence at a quantile; the index is rounded up and
   counted from one, and there is no element 0.  In the mutated form it is rounded
   down. *)
AtFloor(sorted, q) ==
  IF sorted = << >> THEN Unknown
  ELSE LET rank == (q[1] * Len(sorted)) \div q[2]
       IN  sorted[IF rank = 0 THEN 1 ELSE rank]
AtQuantile(sorted, q) ==
  IF sorted = << >> THEN Unknown
  ELSE LET rank == (q[1] * Len(sorted) + q[2] - 1) \div q[2]
       IN  sorted[IF rank = 0 THEN 1 ELSE rank]

MedianOf(s) == AtQuantile(Sorted(s), <<1, 2>>)

Total(s) ==
  LET sum[n \in 0..Len(s)] == IF n = 0 THEN 0 ELSE sum[n - 1] + s[n]
  IN  sum[Len(s)]

(* The mean of integers, rounded towards zero. *)
MeanOf(s) ==
  LET sum == Total(s) IN
  IF s = << >> THEN Unknown
  ELSE IF sum >= 0 THEN sum \div Len(s) ELSE -((-sum) \div Len(s))
=============================================================================

-------------------------- MODULE StatisticsProofs --------------------------
(***************************************************************************)
(* Proofs about Statistics, for every sequence of integers and every       *)
(* quantile.                                                               *)
(*                                                                         *)
(* Induction is over sets: a set that has 0 and with n also n + 1 has all  *)
(* naturals (Induction), and likewise one of sequences, by their last      *)
(* element (SequenceInduction), and of finite sets, by any of theirs       *)
(* (SubsetInduction).  What a recursive function computes is known once    *)
(* there is one that satisfies its equation (SumExists, SumsOverExist).    *)
(*                                                                         *)
(* Sorted has the element of rank r at r; every rank is taken once because *)
(* ranks count ever larger sets of positions (EveryRankIsTaken).           *)
(***************************************************************************)
EXTENDS Statistics, FiniteSetTheorems, TLAPS

(* Naturals have a smallest one. *)
LEMMA SmallestExists ==
  ASSUME NEW S, S \subseteq Nat, S # {}
  PROVE  \E x \in S : \A y \in S : x <= y
<1> DEFINE R == OpToRel(<, Nat)
<1>1. IsWellFoundedOn(R, Nat)
  BY NatLessThanWellFounded
<1>2. PICK x \in S : \A y \in S : <<y, x>> \notin R
  <2>. HIDE DEF R
  <2>. QED
    BY WFMin, <1>1
<1>3. \A y \in S : ~(y < x)
  BY <1>2 DEF OpToRel
<1>. HIDE DEF R
<1>. QED
  BY <1>3

(* Induction over the naturals. *)
LEMMA Induction ==
  ASSUME NEW P, 0 \in P, \A n \in Nat : n \in P => n + 1 \in P
  PROVE  Nat \subseteq P
<1> SUFFICES ASSUME Nat \ P # {} PROVE FALSE
  OBVIOUS
<1>1. PICK n \in Nat \ P : \A m \in Nat \ P : n <= m
  BY SmallestExists
<1>2. n # 0 /\ n - 1 \in Nat
  OBVIOUS
<1>3. n - 1 \in P
  BY <1>1, <1>2
<1>. QED
  BY <1>2, <1>3

(* Sequences over a set are sequences over a larger one. *)
LEMMA SubsetSequences ==
  ASSUME NEW T, NEW S \in SUBSET T, NEW s \in Seq(S)
  PROVE  s \in Seq(T)
<1>1. PICK n \in Nat : n = Len(s) /\ s \in [1..n -> S]
  OBVIOUS
<1>2. s \in [1..n -> T]
  BY <1>1
<1>. QED
  BY <1>1, <1>2

(* A function that adds up the first elements of a sequence. *)
AddsUp(f, s) == f = [n \in 0..Len(s) |-> IF n = 0 THEN 0 ELSE f[n - 1] + s[n]]

(* One that does so for the first m. *)
AddsUpTo(f, s, m) ==
  f \in [0..m -> Int] /\ \A n \in 0..m : f[n] = IF n = 0 THEN 0 ELSE f[n - 1] + s[n]

(* There is a function for every sequence, so Total, which chooses one, adds up. *)
LEMMA SumExists ==
  ASSUME NEW s \in Seq(Int)
  PROVE  \E f : AddsUp(f, s)
<1> DEFINE P == {m \in Nat : m <= Len(s) => \E f : AddsUpTo(f, s, m)}
<1>0. Len(s) \in Nat
  OBVIOUS
<1>1. 0 \in P
  <2>1. AddsUpTo([n \in 0..0 |-> 0], s, 0)
    BY DEF AddsUpTo
  <2>. QED
    BY <2>1
<1>2. ASSUME NEW m \in Nat, m \in P PROVE m + 1 \in P
  <2>0. SUFFICES ASSUME m + 1 <= Len(s) PROVE \E f : AddsUpTo(f, s, m + 1)
    OBVIOUS
  <2>1. PICK f : AddsUpTo(f, s, m)
    BY <1>0, <1>2, <2>0
  <2>2. s[m + 1] \in Int
    BY <1>0, <2>0
  <2> DEFINE g == [n \in 0..(m + 1) |-> IF n = m + 1 THEN f[m] + s[m + 1] ELSE f[n]]
  <2>3. g \in [0..(m + 1) -> Int]
    BY <2>1, <2>2 DEF AddsUpTo
  <2>4. ASSUME NEW n \in 0..(m + 1)
        PROVE  g[n] = IF n = 0 THEN 0 ELSE g[n - 1] + s[n]
    BY <2>1 DEF AddsUpTo
  <2>5. AddsUpTo(g, s, m + 1)
    BY <2>3, <2>4 DEF AddsUpTo
  <2>. QED
    BY <2>5
<1>3. Len(s) \in P
  <2>. HIDE DEF P
  <2>. QED
    BY <1>0, <1>1, <1>2, Induction
<1>4. PICK f : AddsUpTo(f, s, Len(s))
  BY <1>0, <1>3
<1>5. AddsUp(f, s)
  BY <1>0, <1>4 DEF AddsUp, AddsUpTo
<1>. QED
  BY <1>5

(* Total is the last value of such a function. *)
LEMMA TotalAddsUp ==
  ASSUME NEW s \in Seq(Int)
  PROVE  \E f : AddsUp(f, s) /\ Total(s) = f[Len(s)]
<1> DEFINE g == CHOOSE f : AddsUp(f, s)
<1>1. AddsUp(g, s)
  BY SumExists
<1>2. Total(s) = g[Len(s)]
  BY Zenon DEF Total, AddsUp
<1>. QED
  BY <1>1, <1>2

(* The first elements of two sequences that agree on them add up to the same. *)
LEMMA SumsAgree ==
  ASSUME NEW s \in Seq(Int), NEW r \in Seq(Int), NEW f, NEW g, AddsUp(f, s), AddsUp(g, r),
         NEW m \in Nat, m <= Len(s), m <= Len(r), \A i \in 1..m : s[i] = r[i]
  PROVE  f[m] = g[m] /\ f[m] \in Int
<1> DEFINE P == {n \in Nat : n <= m => f[n] = g[n] /\ f[n] \in Int}
<1>0. Len(s) \in Nat /\ Len(r) \in Nat
  OBVIOUS
<1>1. 0 \in P
  BY <1>0 DEF AddsUp
<1>2. ASSUME NEW n \in Nat, n \in P PROVE n + 1 \in P
  <2>0. SUFFICES ASSUME n + 1 <= m PROVE f[n + 1] = g[n + 1] /\ f[n + 1] \in Int
    OBVIOUS
  <2>1. f[n] = g[n] /\ f[n] \in Int
    BY <1>2, <2>0
  <2>2. f[n + 1] = f[n] + s[n + 1] /\ g[n + 1] = g[n] + r[n + 1]
    <3>1. n + 1 \in 1..Len(s) /\ n + 1 \in 1..Len(r) /\ (n + 1) - 1 = n
      BY <1>0, <2>0
    <3>2. f[n + 1] = f[n] + s[n + 1]
      BY <3>1 DEF AddsUp
    <3>3. g[n + 1] = g[n] + r[n + 1]
      BY <3>1 DEF AddsUp
    <3>. QED
      BY <3>2, <3>3
  <2>3. s[n + 1] = r[n + 1] /\ s[n + 1] \in Int
    BY <1>0, <2>0
  <2>. QED
    BY <2>1, <2>2, <2>3
<1>3. m \in P
  <2>. HIDE DEF P
  <2>. QED
    BY <1>1, <1>2, Induction
<1>. QED
  BY <1>3

(* Total element by element. *)
LEMMA TotalOfNone == Total(<< >>) = 0
<1>1. << >> \in Seq(Int) /\ Len(<< >>) = 0
  OBVIOUS
<1>2. PICK f : AddsUp(f, << >>) /\ Total(<< >>) = f[0]
  BY <1>1, TotalAddsUp
<1>. QED
  BY <1>1, <1>2 DEF AddsUp

LEMMA TotalOfMore ==
  ASSUME NEW s \in Seq(Int), NEW x \in Int
  PROVE  Total(s) \in Int /\ Total(Append(s, x)) = Total(s) + x
<1> DEFINE r == Append(s, x)
           m == Len(s)
<1>0. m \in Nat /\ r \in Seq(Int) /\ Len(r) = m + 1 /\ r[m + 1] = x /\ \A i \in 1..m : r[i] = s[i]
  OBVIOUS
<1>1. PICK f : AddsUp(f, s) /\ Total(s) = f[m]
  BY TotalAddsUp
<1>2. PICK g : AddsUp(g, r) /\ Total(r) = g[m + 1]
  <2>. HIDE DEF r
  <2>. QED
    BY <1>0, TotalAddsUp
<1>. HIDE DEF r, m
<1>3. f[m] = g[m] /\ f[m] \in Int
  <2>1. m <= Len(s) /\ m <= Len(r)
    BY <1>0 DEF m
  <2>. QED
    BY <1>0, <1>1, <1>2, <2>1, SumsAgree
<1>4. g[m + 1] = g[m] + x
  BY <1>0, <1>2 DEF AddsUp
<1>. QED
  BY <1>0, <1>1, <1>2, <1>3, <1>4 DEF r
-----------------------------------------------------------------------------
(* Induction over sequences. *)
LEMMA SequenceInduction ==
  ASSUME NEW T, NEW P, << >> \in P,
         \A s \in Seq(T), x \in T : s \in P => Append(s, x) \in P
  PROVE  Seq(T) \subseteq P
<1> DEFINE Q == {n \in Nat : \A s \in Seq(T) : Len(s) = n => s \in P}
<1>1. 0 \in Q
  <2>1. \A s \in Seq(T) : Len(s) = 0 => s = << >>
    OBVIOUS
  <2>. QED
    BY <2>1
<1>2. ASSUME NEW n \in Nat, n \in Q PROVE n + 1 \in Q
  <2> SUFFICES ASSUME NEW s \in Seq(T), Len(s) = n + 1 PROVE s \in P
    OBVIOUS
  <2>1. PICK r : r = SubSeq(s, 1, n)
    OBVIOUS
  <2>2. r \in Seq(T) /\ Len(r) = n /\ s[n + 1] \in T /\ s = Append(r, s[n + 1])
    BY <2>1
  <2>3. r \in P
    BY <1>2, <2>2
  <2>. QED
    BY <2>2, <2>3
<1>3. Nat \subseteq Q
  <2>. HIDE DEF Q
  <2>. QED
    BY <1>1, <1>2, Induction
<1>. QED
  BY <1>3

(* Numbers that are all at least, or all at most, m add up to at least, or at most,
   m for each of them. *)
Bounds(m, s) ==
  /\ (\A i \in 1..Len(s) : m <= s[i]) => m * Len(s) <= Total(s)
  /\ (\A i \in 1..Len(s) : s[i] <= m) => Total(s) <= m * Len(s)
  /\ Total(s) \in Int

LEMMA TotalIsBounded ==
  ASSUME NEW m \in Int, NEW s \in Seq(Int)
  PROVE  Bounds(m, s)
<1> DEFINE P == {r \in Seq(Int) : Bounds(m, r)}
<1>1. << >> \in P
  <2>1. m * 0 = 0
    OBVIOUS
  <2>. QED
    BY <2>1, TotalOfNone DEF Bounds
<1>2. ASSUME NEW r \in Seq(Int), NEW x \in Int, Bounds(m, r) PROVE Bounds(m, Append(r, x))
  <2>1. PICK a : a = Append(r, x)
    OBVIOUS
  <2>2. Len(r) \in Nat /\ a \in Seq(Int) /\ Len(a) = Len(r) + 1
        /\ a[Len(a)] = x /\ \A i \in 1..Len(r) : a[i] = r[i]
    BY <2>1
  <2>3. Total(a) = Total(r) + x /\ Total(r) \in Int
    BY <2>1, TotalOfMore
  <2>4. m * Len(a) = m * Len(r) + m /\ m * Len(r) \in Int
    BY <2>2
  <2>5. ASSUME \A i \in 1..Len(a) : m <= a[i] PROVE m * Len(a) <= Total(a)
    <3>1. Len(a) \in 1..Len(a) /\ 1..Len(r) \subseteq 1..Len(a)
      BY <2>2
    <3>2. m <= x
      BY <2>2, <2>5, <3>1
    <3>3. \A i \in 1..Len(r) : m <= r[i]
      BY <2>2, <2>5, <3>1
    <3>4. m * Len(r) <= Total(r)
      BY <1>2, <3>3 DEF Bounds
    <3>. QED
      BY <2>3, <2>4, <3>2, <3>4
  <2>6. ASSUME \A i \in 1..Len(a) : a[i] <= m PROVE Total(a) <= m * Len(a)
    <3>1. Len(a) \in 1..Len(a) /\ 1..Len(r) \subseteq 1..Len(a)
      BY <2>2
    <3>2. x <= m
      BY <2>2, <2>6, <3>1
    <3>3. \A i \in 1..Len(r) : r[i] <= m
      BY <2>2, <2>6, <3>1
    <3>4. Total(r) <= m * Len(r)
      BY <1>2, <3>3 DEF Bounds
    <3>. QED
      BY <2>3, <2>4, <3>2, <3>4
  <2>7. Total(a) \in Int
    BY <2>3
  <2>. QED
    BY <2>1, <2>5, <2>6, <2>7 DEF Bounds
<1>3. s \in P
  <2>1. ASSUME NEW r \in Seq(Int), NEW x \in Int, r \in P PROVE Append(r, x) \in P
    BY <1>2, <2>1
  <2>. HIDE DEF P
  <2>. QED
    BY <1>1, <2>1, SequenceInduction
<1>. QED
  BY <1>3
-----------------------------------------------------------------------------
(* The elements of a sequence that come no later than the one at i. *)
UpTo(s, i) == {j \in DOMAIN s : s[j] < s[i] \/ (s[j] = s[i] /\ j <= i)}

LEMMA Intervals ==
  ASSUME NEW n \in Nat
  PROVE  IsFiniteSet(1..n) /\ Cardinality(1..n) = n
<1>1. IsFiniteSet(1..n) /\ Cardinality(1..n) = IF 1 > n THEN 0 ELSE n - 1 + 1
  BY FS_Interval
<1>2. (IF 1 > n THEN 0 ELSE n - 1 + 1) = n
  OBVIOUS
<1>. QED
  BY <1>1, <1>2

(* A rank is a position of the sorted sequence. *)
LEMMA RanksAreRanks ==
  ASSUME NEW s \in Seq(Int), NEW i \in DOMAIN s
  PROVE  /\ IsFiniteSet(UpTo(s, i)) /\ Cardinality(UpTo(s, i)) = Rank(s, i)
         /\ Rank(s, i) \in DOMAIN s
<1>1. PICK D : D = UpTo(s, i)
  OBVIOUS
<1>2. D \subseteq 1..Len(s) /\ i \in D /\ Len(s) \in Nat /\ DOMAIN s = 1..Len(s)
  BY <1>1 DEF UpTo
<1>3. IsFiniteSet(1..Len(s)) /\ Cardinality(1..Len(s)) = Len(s)
  BY <1>2, Intervals
<1>4. IsFiniteSet(D) /\ Cardinality(D) <= Len(s)
  BY <1>2, <1>3, FS_Subset
<1>5. Cardinality(D) \in Nat /\ Cardinality(D) # 0
  BY <1>2, <1>4, FS_EmptySet, FS_CardinalityType
<1>6. Rank(s, i) = Cardinality(D)
  BY <1>1 DEF Rank, UpTo
<1>. QED
  BY <1>1, <1>2, <1>4, <1>5, <1>6

(* What comes later has a higher rank. *)
LEMMA LaterRanks ==
  ASSUME NEW s \in Seq(Int), NEW i \in DOMAIN s, NEW j \in DOMAIN s,
         s[i] < s[j] \/ (s[i] = s[j] /\ i < j)
  PROVE  Rank(s, i) < Rank(s, j)
<1>1. PICK C, D : C = UpTo(s, i) /\ D = UpTo(s, j)
  OBVIOUS
<1>2. Cardinality(C) = Rank(s, i) /\ Cardinality(D) = Rank(s, j) /\ IsFiniteSet(D)
      /\ Rank(s, i) \in DOMAIN s /\ Rank(s, j) \in DOMAIN s
  BY <1>1, RanksAreRanks
<1>3. \A k \in DOMAIN s : s[k] \in Int
  OBVIOUS
<1>4. C \subseteq D /\ j \in D /\ j \notin C
  BY <1>1, <1>3 DEF UpTo
<1>5. Cardinality(C) <= Cardinality(D) /\ Cardinality(D) # Cardinality(C)
  BY <1>2, <1>4, FS_Subset
<1>. QED
  BY <1>2, <1>5

(* Ranks differ, so as many as there are positions take them all. *)
LEMMA EveryRankIsTaken ==
  ASSUME NEW s \in Seq(Int), NEW r \in DOMAIN s
  PROVE  \E i \in DOMAIN s : Rank(s, i) = r
<1> DEFINE f == [i \in DOMAIN s |-> Rank(s, i)]
<1>1. f \in [DOMAIN s -> DOMAIN s]
  BY RanksAreRanks
<1>2. ASSUME NEW i \in DOMAIN s, NEW j \in DOMAIN s, f[i] = f[j] PROVE i = j
  <2>1. s[i] \in Int /\ s[j] \in Int /\ i \in Nat /\ j \in Nat
    OBVIOUS
  <2>2. Rank(s, i) \in Int /\ Rank(s, j) \in Int /\ Rank(s, i) = Rank(s, j)
    BY <1>2, RanksAreRanks
  <2>3. ~(s[i] < s[j] \/ (s[i] = s[j] /\ i < j))
    BY <2>2, LaterRanks
  <2>4. ~(s[j] < s[i] \/ (s[j] = s[i] /\ j < i))
    BY <2>2, LaterRanks
  <2>. QED
    BY <2>1, <2>3, <2>4
<1>3. IsFiniteSet(DOMAIN s)
  BY Intervals
<1>4. f \in Injection(DOMAIN s, DOMAIN s)
  BY <1>1, <1>2 DEF Injection, IsInjective
<1>5. f \in Surjection(DOMAIN s, DOMAIN s)
  <2>. HIDE DEF f
  <2>. QED
    BY <1>3, <1>4, FS_Injection
<1>. QED
  BY <1>5 DEF Surjection
-----------------------------------------------------------------------------
(* A quotient rounded up; the rank of a quantile is one. *)
LEMMA RoundedUp ==
  ASSUME NEW x \in Nat, NEW b \in Nat, b > 0, NEW r, r = (x + b - 1) \div b
  PROVE  r \in Nat /\ r * b >= x /\ (r > 0 => (r - 1) * b < x)
<1>1. r \in Nat /\ r * b <= x + b - 1 /\ x + b - 1 < (r + 1) * b
  OBVIOUS
<1>2. (r + 1) * b = r * b + b /\ (r - 1) * b = r * b - b
  BY <1>1
<1>3. r * b \in Int
  BY <1>1
<1>. QED
  BY <1>1, <1>2, <1>3

(* No quantile lies behind the last element. *)
LEMMA RankIsInRange ==
  ASSUME NEW a \in Nat, NEW b \in Nat, b > 0, a <= b, NEW n \in Nat, NEW r \in Nat,
         (r > 0 => (r - 1) * b < a * n)
  PROVE  r <= n
<1> SUFFICES ASSUME r > n PROVE FALSE
  OBVIOUS
<1>1. a * n <= b * n
  OBVIOUS
<1>2. n * b <= (r - 1) * b
  OBVIOUS
<1>3. n * b = b * n
  OBVIOUS
<1>. QED
  BY <1>1, <1>2, <1>3

(* A quantile is the element of some rank, the one the quantile of the length
   rounds up to. *)
LEMMA QuantileHasRank ==
  ASSUME NEW s \in Seq(Int), s # << >>, NEW q, IsQuantile(q)
  PROVE  \E i \in DOMAIN s, r \in Nat :
           /\ AtQuantile(Sorted(s), q) = s[i]
           /\ Rank(s, i) = IF r = 0 THEN 1 ELSE r
           /\ r * q[2] >= q[1] * Len(s)
           /\ r > 0 => (r - 1) * q[2] < q[1] * Len(s)
<1>1. PICK a \in Nat, b \in Nat : a = q[1] /\ b = q[2] /\ b > 0 /\ a <= b
  BY DEF IsQuantile
<1>2. PICK n \in Nat : n = Len(s) /\ n > 0 /\ DOMAIN s = 1..n
  OBVIOUS
<1>3. PICK d : d = Sorted(s)
  OBVIOUS
<1>4. /\ DOMAIN d = 1..n /\ Len(d) = n /\ d # << >>
      /\ \A r \in 1..n : d[r] = s[CHOOSE i \in DOMAIN s : Rank(s, i) = r]
  <2>1. d = [r \in 1..n |-> s[CHOOSE i \in DOMAIN s : Rank(s, i) = r]]
    BY <1>2, <1>3 DEF Sorted
  <2>2. DOMAIN d = 1..n
    BY <2>1
  <2>3. Len(d) = n
    BY <1>2, <2>2
  <2>4. 1 \in DOMAIN d
    BY <1>2, <2>2
  <2>. QED
    BY <2>1, <2>2, <2>3, <2>4
<1>5. a * n \in Nat
  OBVIOUS
<1>6. PICK r : r = (a * n + b - 1) \div b
  OBVIOUS
<1>7. r \in Nat /\ r * b >= a * n /\ (r > 0 => (r - 1) * b < a * n)
  BY <1>1, <1>5, <1>6, RoundedUp
<1>8. r <= n
  BY <1>1, <1>7, RankIsInRange
<1>9. PICK x \in 1..n : x = IF r = 0 THEN 1 ELSE r
  BY <1>2, <1>7, <1>8
<1>10. AtQuantile(d, q) = d[x]
  BY <1>1, <1>4, <1>6, <1>9 DEF AtQuantile
<1>11. PICK i \in DOMAIN s : Rank(s, i) = x /\ d[x] = s[i]
  <2> DEFINE i == CHOOSE i \in DOMAIN s : Rank(s, i) = x
  <2>1. i \in DOMAIN s /\ Rank(s, i) = x
    BY <1>2, EveryRankIsTaken
  <2>2. d[x] = s[i]
    BY <1>4
  <2>. HIDE DEF i
  <2>. QED
    BY <2>1, <2>2
<1>. QED
  BY <1>1, <1>2, <1>3, <1>7, <1>9, <1>10, <1>11

(* How many numbers are not larger than v. *)
Count(s, v) == Cardinality({j \in DOMAIN s : s[j] <= v})

LEMMA CountIsNat ==
  ASSUME NEW s \in Seq(Int), NEW v
  PROVE  IsFiniteSet({j \in DOMAIN s : s[j] <= v}) /\ Count(s, v) \in Nat
<1>1. PICK n \in Nat : DOMAIN s = 1..n
  OBVIOUS
<1>2. {j \in DOMAIN s : s[j] <= v} \subseteq 1..n
  BY <1>1
<1>3. IsFiniteSet({j \in DOMAIN s : s[j] <= v})
  BY <1>2, Intervals, FS_Subset
<1>. QED
  BY <1>3, FS_CardinalityType DEF Count

LEMMA RankIsCounted ==
  ASSUME NEW s \in Seq(Int), NEW i \in DOMAIN s
  PROVE  Rank(s, i) <= Count(s, s[i])
<1>1. \A j \in DOMAIN s : s[j] \in Int
  OBVIOUS
<1>2. UpTo(s, i) \subseteq {j \in DOMAIN s : s[j] <= s[i]}
  BY <1>1 DEF UpTo
<1>3. Cardinality(UpTo(s, i)) <= Count(s, s[i])
  BY <1>2, CountIsNat, FS_Subset DEF Count
<1>. QED
  BY <1>3, RanksAreRanks

LEMMA SmallerIsCounted ==
  ASSUME NEW s \in Seq(Int), NEW i \in DOMAIN s, NEW v \in Int, v < s[i]
  PROVE  Count(s, v) < Rank(s, i)
<1>1. PICK C, D : C = {j \in DOMAIN s : s[j] <= v} /\ D = UpTo(s, i)
  OBVIOUS
<1>2. \A j \in DOMAIN s : s[j] \in Int
  OBVIOUS
<1>3. C \subseteq D /\ i \in D /\ i \notin C
  BY <1>1, <1>2 DEF UpTo
<1>4. IsFiniteSet(D) /\ Cardinality(D) = Rank(s, i) /\ Rank(s, i) \in Int
  BY <1>1, RanksAreRanks
<1>5. Cardinality(C) <= Cardinality(D) /\ Cardinality(C) # Cardinality(D)
  BY <1>3, <1>4, FS_Subset
<1>6. Cardinality(C) = Count(s, v) /\ Count(s, v) \in Nat
  BY <1>1, CountIsNat DEF Count
<1>. QED
  BY <1>4, <1>5, <1>6

(* v is the smallest of the numbers such that at least the share q of them are not
   larger. *)
NearestRank(s, q, v) ==
  /\ v \in {s[i] : i \in DOMAIN s}
  /\ Count(s, v) * q[2] >= q[1] * Len(s)
  /\ \A i \in DOMAIN s : Count(s, s[i]) * q[2] >= q[1] * Len(s) => v <= s[i]

(* A quantile of numbers is the one of nearest rank: it is one of the numbers, at
   least the share q of them are not larger, and it is the smallest such number,
   however many there are and whatever their order (Sorted::quantile). *)
THEOREM QuantilesAreOfNearestRank ==
  ASSUME NEW s \in Seq(Int), s # << >>, NEW q, IsQuantile(q)
  PROVE  NearestRank(s, q, AtQuantile(Sorted(s), q))
<1>1. PICK a \in Nat, b \in Nat : a = q[1] /\ b = q[2] /\ b > 0 /\ a <= b
  BY DEF IsQuantile
<1>2. PICK n \in Nat : n = Len(s)
  OBVIOUS
<1>3. PICK i \in DOMAIN s, r \in Nat :
        /\ AtQuantile(Sorted(s), q) = s[i]
        /\ Rank(s, i) = IF r = 0 THEN 1 ELSE r
        /\ r * b >= a * n
        /\ r > 0 => (r - 1) * b < a * n
  BY <1>1, <1>2, QuantileHasRank
<1>4. s[i] \in Int /\ a * n \in Int
  OBVIOUS
<1>5. Count(s, s[i]) * b >= a * n
  <2>1. PICK c \in Nat : c = Count(s, s[i])
    BY CountIsNat
  <2>2. c >= r
    BY <1>3, <2>1, RankIsCounted
  <2>3. c * b >= r * b
    BY <2>2
  <2>. QED
    BY <1>3, <1>4, <2>1, <2>3
<1>6. ASSUME NEW j \in DOMAIN s, Count(s, s[j]) * b >= a * n PROVE s[i] <= s[j]
  <2>1. s[j] \in Int
    OBVIOUS
  <2>2. SUFFICES ASSUME s[j] < s[i] PROVE FALSE
    BY <1>4, <2>1
  <2>3. PICK c \in Nat : c = Count(s, s[j])
    BY CountIsNat
  <2>4. c < Rank(s, i)
    BY <2>1, <2>2, <2>3, SmallerIsCounted
  <2>5. j \in UpTo(s, j) /\ Count(s, s[j]) # 0
    <3>1. j \in {l \in DOMAIN s : s[l] <= s[j]}
      BY <2>1
    <3>2. Cardinality({l \in DOMAIN s : s[l] <= s[j]}) # 0
      BY <3>1, CountIsNat, FS_EmptySet
    <3>. QED
      BY <3>2 DEF Count, UpTo
  <2>6. r > 0 /\ c <= r - 1
    BY <1>3, <2>3, <2>4, <2>5
  <2>7. c * b <= (r - 1) * b
    BY <2>6
  <2>8. (r - 1) * b \in Int /\ c * b \in Int
    BY <2>6
  <2>. QED
    BY <1>3, <1>4, <1>6, <2>3, <2>6, <2>7, <2>8
<1>. QED
  BY <1>1, <1>2, <1>3, <1>5, <1>6 DEF NearestRank
-----------------------------------------------------------------------------
(* A function that adds up the values of another over each subset of a set. *)
SumsOver(F, f, S) ==
  F = [R \in SUBSET S |->
         IF R = {} THEN 0
         ELSE f[CHOOSE x \in R : TRUE] + F[R \ {CHOOSE x \in R : TRUE}]]

(* One that does so for the small subsets, of no more than n elements. *)
Small(S, n) == {R \in SUBSET S : Cardinality(R) <= n}

SumsOverSmall(F, f, S, n) ==
  /\ F \in [Small(S, n) -> Int]
  /\ \A R \in Small(S, n) :
       F[R] = IF R = {} THEN 0
              ELSE f[CHOOSE x \in R : TRUE] + F[R \ {CHOOSE x \in R : TRUE}]

(* A subset without one of its elements. *)
LEMMA Removed ==
  ASSUME NEW S, IsFiniteSet(S), NEW R \in SUBSET S, NEW x \in R
  PROVE  /\ IsFiniteSet(R) /\ Cardinality(R) \in Nat /\ Cardinality(R) > 0
         /\ R \ {x} \in SUBSET S
         /\ Cardinality(R \ {x}) = Cardinality(R) - 1
<1>1. IsFiniteSet(R)
  BY FS_Subset
<1>2. Cardinality(R) \in Nat /\ Cardinality(R) # 0
  BY <1>1, FS_CardinalityType, FS_EmptySet
<1>3. Cardinality(R \ {x}) = Cardinality(R) - 1
  BY <1>1, FS_RemoveElement
<1>. QED
  BY <1>1, <1>2, <1>3

(* There is such a function, by induction on the size of subsets. *)
LEMMA SumsOverExist ==
  ASSUME NEW S, IsFiniteSet(S), NEW f \in [S -> Int]
  PROVE  \E F : SumsOver(F, f, S)
<1> DEFINE P == {n \in Nat : \E F : SumsOverSmall(F, f, S, n)}
<1>1. 0 \in P
  <2>1. ASSUME NEW R \in Small(S, 0) PROVE R = {}
    <3>1. IsFiniteSet(R) /\ Cardinality(R) \in Nat /\ Cardinality(R) <= 0
      BY FS_Subset, FS_CardinalityType DEF Small
    <3>2. Cardinality(R) = 0
      BY <3>1
    <3>. QED
      BY <3>1, <3>2, FS_EmptySet
  <2>2. PICK F : F = [R \in Small(S, 0) |-> 0]
    OBVIOUS
  <2>3. F \in [Small(S, 0) -> Int]
    BY <2>2
  <2>4. \A R \in Small(S, 0) : F[R] = 0
    BY <2>2
  <2>5. SumsOverSmall(F, f, S, 0)
    BY <2>1, <2>3, <2>4 DEF SumsOverSmall
  <2>. QED
    BY <2>5
<1>2. ASSUME NEW n \in Nat, n \in P PROVE n + 1 \in P
  <2>1. PICK F : SumsOverSmall(F, f, S, n)
    BY <1>2
  <2>2. PICK G : G = [R \in Small(S, n + 1) |->
                        IF R = {} THEN 0
                        ELSE f[CHOOSE x \in R : TRUE] + F[R \ {CHOOSE x \in R : TRUE}]]
    OBVIOUS
  <2>3. ASSUME NEW R \in Small(S, n + 1), R # {}, NEW x \in R
        PROVE  R \ {x} \in Small(S, n)
    <3>1. R \in SUBSET S /\ Cardinality(R) <= n + 1
      BY DEF Small
    <3>2. Cardinality(R) \in Nat /\ R \ {x} \in SUBSET S
          /\ Cardinality(R \ {x}) = Cardinality(R) - 1
      BY <3>1, Removed
    <3>3. Cardinality(R \ {x}) <= n
      BY <3>1, <3>2
    <3>. QED
      BY <3>2, <3>3 DEF Small
  <2>4. \A R \in Small(S, n) : R \in Small(S, n + 1)
    <3> SUFFICES ASSUME NEW R \in Small(S, n) PROVE R \in Small(S, n + 1)
      OBVIOUS
    <3>1. R \in SUBSET S /\ Cardinality(R) <= n
      BY DEF Small
    <3>2. Cardinality(R) \in Nat
      BY <3>1, FS_Subset, FS_CardinalityType
    <3>3. Cardinality(R) <= n + 1
      BY <3>1, <3>2
    <3>. QED
      BY <3>1, <3>3 DEF Small
  <2>5. ASSUME NEW R \in Small(S, n + 1)
        PROVE  G[R] \in Int
    <3>1. CASE R = {}
      BY <2>2, <3>1
    <3>2. CASE R # {}
      <4>1. PICK x \in R : x = CHOOSE y \in R : TRUE
        BY <3>2
      <4>2. G[R] = f[x] + F[R \ {x}]
        BY <2>2, <3>2, <4>1
      <4>3. F[R \ {x}] \in Int
        BY <2>1, <2>3, <3>2 DEF SumsOverSmall
      <4>4. x \in S
        BY DEF Small
      <4>. QED
        BY <4>2, <4>3, <4>4
    <3>. QED
      BY <3>1, <3>2
  <2>6. \A R \in Small(S, n) : G[R] = F[R]
    BY <2>1, <2>2, <2>4 DEF SumsOverSmall
  <2>7. ASSUME NEW R \in Small(S, n + 1), R # {}, NEW x \in R, x = CHOOSE y \in R : TRUE
        PROVE  G[R] = f[x] + G[R \ {x}]
    <3>1. R \ {x} \in Small(S, n)
      BY <2>3, <2>7
    <3>2. G[R] = f[x] + F[R \ {x}]
      BY <2>2, <2>7
    <3>. QED
      BY <2>6, <3>1, <3>2
  <2>8. \A R \in Small(S, n + 1) : R # {} => (CHOOSE y \in R : TRUE) \in R
    OBVIOUS
  <2>9. G \in [Small(S, n + 1) -> Int]
    BY <2>2, <2>5
  <2>10. ASSUME NEW R \in Small(S, n + 1)
         PROVE  G[R] = IF R = {} THEN 0
                       ELSE f[CHOOSE x \in R : TRUE] + G[R \ {CHOOSE x \in R : TRUE}]
    <3>1. CASE R = {}
      BY <2>2, <3>1
    <3>2. CASE R # {}
      <4>1. PICK x \in R : x = CHOOSE y \in R : TRUE
        BY <3>2
      <4>2. G[R] = f[x] + G[R \ {x}]
        BY <2>7, <3>2, <4>1
      <4>. QED
        BY <3>2, <4>1, <4>2
    <3>. QED
      BY <3>1, <3>2
  <2>11. SumsOverSmall(G, f, S, n + 1)
    BY <2>9, <2>10 DEF SumsOverSmall
  <2>. QED
    BY <2>11
<1>3. PICK n : n = Cardinality(S)
  OBVIOUS
<1>4. n \in Nat
  BY <1>3, FS_CardinalityType
<1>5. n \in P
  <2>. HIDE DEF P
  <2>. QED
    BY <1>1, <1>2, <1>4, Induction
<1>6. PICK F : SumsOverSmall(F, f, S, n)
  BY <1>5
<1>7. Small(S, n) = SUBSET S
  BY <1>3, FS_Subset DEF Small
<1>8. SumsOver(F, f, S)
  BY <1>6, <1>7 DEF SumsOver, SumsOverSmall
<1>. QED
  BY <1>8

(* Induction over the subsets of a finite set. *)
LEMMA SubsetInduction ==
  ASSUME NEW S, IsFiniteSet(S), NEW P, {} \in P,
         \A R \in SUBSET S : R # {} /\ (\A x \in R : R \ {x} \in P) => R \in P
  PROVE  SUBSET S \subseteq P
<1> DEFINE N == {n \in Nat : \A R \in SUBSET S : Cardinality(R) = n => R \in P}
<1>1. 0 \in N
  <2>1. \A R \in SUBSET S : Cardinality(R) = 0 => R = {}
    BY FS_Subset, FS_EmptySet
  <2>. QED
    BY <2>1
<1>2. ASSUME NEW n \in Nat, n \in N PROVE n + 1 \in N
  <2>0. SUFFICES ASSUME NEW R \in SUBSET S, Cardinality(R) = n + 1 PROVE R \in P
    OBVIOUS
  <2>1. R # {}
    BY <2>0, FS_EmptySet
  <2>2. ASSUME NEW x \in R PROVE R \ {x} \in P
    <3>1. R \ {x} \in SUBSET S /\ Cardinality(R \ {x}) = Cardinality(R) - 1
      BY Removed
    <3>2. Cardinality(R \ {x}) = n
      BY <2>0, <3>1
    <3>. QED
      BY <1>2, <3>1, <3>2
  <2>. QED
    BY <2>1, <2>2
<1>3. \A R \in SUBSET S : Cardinality(R) \in N
  <2>1. \A R \in SUBSET S : Cardinality(R) \in Nat
    BY FS_Subset, FS_CardinalityType
  <2>. HIDE DEF N
  <2>. QED
    BY <1>1, <1>2, <2>1, Induction
<1>. QED
  BY <1>3

LEMMA SumsAreInt ==
  ASSUME NEW S, IsFiniteSet(S), NEW f \in [S -> Int], NEW F, SumsOver(F, f, S)
  PROVE  \A R \in SUBSET S : F[R] \in Int
<1> DEFINE P == {R \in SUBSET S : F[R] \in Int}
<1>1. {} \in P
  BY DEF SumsOver
<1>2. ASSUME NEW R \in SUBSET S, R # {}, \A x \in R : R \ {x} \in P PROVE R \in P
  <2>1. PICK x \in R : x = CHOOSE y \in R : TRUE
    BY <1>2
  <2>2. F[R] = f[x] + F[R \ {x}]
    BY <1>2, <2>1 DEF SumsOver
  <2>3. F[R \ {x}] \in Int
    BY <1>2
  <2>. QED
    BY <2>2, <2>3
<1>3. SUBSET S \subseteq P
  <2>. HIDE DEF P
  <2>. QED
    BY <1>1, <1>2, SubsetInduction
<1>. QED
  BY <1>3

(* What is added first makes no difference. *)
AnyFirst(F, f, R) == \A x \in R : F[R] = f[x] + F[R \ {x}]

LEMMA AnyElementFirst ==
  ASSUME NEW S, IsFiniteSet(S), NEW f \in [S -> Int], NEW F, SumsOver(F, f, S)
  PROVE  \A R \in SUBSET S : AnyFirst(F, f, R)
<1> DEFINE P == {R \in SUBSET S : AnyFirst(F, f, R)}
<1>1. {} \in P
  BY DEF AnyFirst
<1>2. ASSUME NEW R \in SUBSET S, R # {}, \A x \in R : R \ {x} \in P PROVE R \in P
  <2>0. SUFFICES ASSUME NEW y \in R PROVE F[R] = f[y] + F[R \ {y}]
    BY DEF AnyFirst
  <2>1. PICK x \in R : x = CHOOSE z \in R : TRUE
    OBVIOUS
  <2>2. F[R] = f[x] + F[R \ {x}]
    BY <2>1 DEF SumsOver
  <2>3. CASE y = x
    BY <2>2, <2>3
  <2>4. CASE y # x
    <3>1. PICK A, B, C : A = R \ {x} /\ B = R \ {y} /\ C = A \ {y}
      OBVIOUS
    <3>2. C = B \ {x} /\ y \in A /\ x \in B /\ C \in SUBSET S
      BY <2>4, <3>1
    <3>3. AnyFirst(F, f, A) /\ AnyFirst(F, f, B)
      BY <1>2, <3>1
    <3>4. F[A] = f[y] + F[C] /\ F[B] = f[x] + F[C]
      BY <3>1, <3>2, <3>3 DEF AnyFirst
    <3>5. F[C] \in Int
      BY <3>2, SumsAreInt
    <3>. QED
      BY <2>2, <3>1, <3>4, <3>5
  <2>. QED
    BY <2>3, <2>4
<1>3. SUBSET S \subseteq P
  <2>. HIDE DEF P
  <2>. QED
    BY <1>1, <1>2, SubsetInduction
<1>. QED
  BY <1>3

(* Equal values have equal sums. *)
LEMMA SumsOfEqual ==
  ASSUME NEW S, IsFiniteSet(S), NEW f, NEW F, SumsOver(F, f, S), NEW g, NEW G, SumsOver(G, g, S),
         NEW R \in SUBSET S, \A x \in R : f[x] = g[x]
  PROVE  F[R] = G[R]
<1> DEFINE P == {Q \in SUBSET R : F[Q] = G[Q]}
<1>1. {} \in P
  BY DEF SumsOver
<1>2. ASSUME NEW Q \in SUBSET R, Q # {}, \A x \in Q : Q \ {x} \in P PROVE Q \in P
  <2>1. PICK x \in Q : x = CHOOSE y \in Q : TRUE
    BY <1>2
  <2>2. F[Q] = f[x] + F[Q \ {x}] /\ G[Q] = g[x] + G[Q \ {x}]
    BY <1>2, <2>1 DEF SumsOver
  <2>3. F[Q \ {x}] = G[Q \ {x}] /\ f[x] = g[x]
    BY <1>2
  <2>. QED
    BY <2>2, <2>3
<1>3. SUBSET R \subseteq P
  <2>1. IsFiniteSet(R)
    BY FS_Subset
  <2>. HIDE DEF P
  <2>. QED
    BY <1>1, <1>2, <2>1, SubsetInduction
<1>. QED
  BY <1>3

(* One value more and all others the same. *)
LEMMA SumsOfOneMore ==
  ASSUME NEW S, IsFiniteSet(S), NEW f \in [S -> Int], NEW g \in [S -> Int],
         NEW F, SumsOver(F, f, S), NEW G, SumsOver(G, g, S),
         NEW x \in S, NEW d \in Int, g[x] = f[x] + d, \A y \in S \ {x} : g[y] = f[y]
  PROVE  G[S] = F[S] + d
<1>0. S \in SUBSET S
  OBVIOUS
<1>1. F[S] = f[x] + F[S \ {x}]
  <2>1. AnyFirst(F, f, S)
    BY <1>0, AnyElementFirst
  <2>. QED
    BY <2>1 DEF AnyFirst
<1>2. G[S] = g[x] + G[S \ {x}]
  <2>1. AnyFirst(G, g, S)
    BY <1>0, AnyElementFirst
  <2>. QED
    BY <2>1 DEF AnyFirst
<1>3. G[S \ {x}] = F[S \ {x}]
  BY SumsOfEqual
<1>4. F[S \ {x}] \in Int
  BY SumsAreInt
<1>. QED
  BY <1>1, <1>2, <1>3, <1>4

LEMMA SumsOfZero ==
  ASSUME NEW S, IsFiniteSet(S), NEW f, \A x \in S : f[x] = 0, NEW F, SumsOver(F, f, S)
  PROVE  F[S] = 0
<1> DEFINE P == {R \in SUBSET S : F[R] = 0}
<1>1. {} \in P
  BY DEF SumsOver
<1>2. ASSUME NEW R \in SUBSET S, R # {}, \A x \in R : R \ {x} \in P PROVE R \in P
  <2>1. PICK x \in R : x = CHOOSE y \in R : TRUE
    BY <1>2
  <2>2. F[R] = f[x] + F[R \ {x}]
    BY <1>2, <2>1 DEF SumsOver
  <2>3. F[R \ {x}] = 0 /\ f[x] = 0
    BY <1>2
  <2>. QED
    BY <2>2, <2>3
<1>3. SUBSET S \subseteq P
  <2>. HIDE DEF P
  <2>. QED
    BY <1>1, <1>2, SubsetInduction
<1>. QED
  BY <1>3
-----------------------------------------------------------------------------
(* A sequence and its sorted form have the same elements, which ascend in the sorted
   one. *)
THEOREM SortedIsSorted ==
  ASSUME NEW s \in Seq(Int)
  PROVE  /\ Sorted(s) \in Seq(Int) /\ Len(Sorted(s)) = Len(s)
         /\ \A i, j \in DOMAIN s : i < j => Sorted(s)[i] <= Sorted(s)[j]
         /\ \E p \in Bijection(DOMAIN s, DOMAIN s) : \A r \in DOMAIN s : Sorted(s)[r] = s[p[r]]
<1> DEFINE p == [r \in DOMAIN s |-> CHOOSE i \in DOMAIN s : Rank(s, i) = r]
<1>1. ASSUME NEW r \in DOMAIN s PROVE p[r] \in DOMAIN s /\ Rank(s, p[r]) = r
  BY EveryRankIsTaken
<1>2. PICK d : d = Sorted(s)
  OBVIOUS
<1>3. d = [r \in DOMAIN s |-> s[p[r]]]
  BY <1>2 DEF Sorted
<1>4. p \in [DOMAIN s -> DOMAIN s]
  BY <1>1
<1>. HIDE DEF p
<1>5. d \in Seq(Int) /\ Len(d) = Len(s)
  <2>1. PICK n \in Nat : n = Len(s) /\ DOMAIN s = 1..n
    OBVIOUS
  <2>2. \A i \in 1..n : s[i] \in Int
    BY <2>1
  <2>3. d \in [1..n -> Int]
    BY <1>1, <1>3, <2>1, <2>2
  <2>. QED
    BY <2>1, <2>3
<1>6. ASSUME NEW i \in DOMAIN s, NEW j \in DOMAIN s, i < j PROVE d[i] <= d[j]
  <2>1. d[i] = s[p[i]] /\ d[j] = s[p[j]]
    BY <1>3
  <2>2. s[p[i]] \in Int /\ s[p[j]] \in Int
    <3>1. \A k \in DOMAIN s : s[k] \in Int
      OBVIOUS
    <3>. QED
      BY <1>1, <3>1
  <2>3. SUFFICES ASSUME s[p[j]] < s[p[i]] PROVE FALSE
    BY <2>1, <2>2
  <2>4. Rank(s, p[j]) < Rank(s, p[i])
    BY <1>1, <2>3, LaterRanks
  <2>. QED
    BY <1>1, <1>6, <2>4
<1>7. p \in Injection(DOMAIN s, DOMAIN s)
  BY <1>1, <1>4 DEF Injection, IsInjective
<1>8. p \in Surjection(DOMAIN s, DOMAIN s)
  <2>1. IsFiniteSet(DOMAIN s)
    BY Intervals
  <2>. QED
    BY <1>7, <2>1, FS_Injection
<1>9. p \in Bijection(DOMAIN s, DOMAIN s)
  BY <1>7, <1>8 DEF Bijection
<1>10. \A r \in DOMAIN s : d[r] = s[p[r]]
  BY <1>3
<1>. QED
  BY <1>2, <1>5, <1>6, <1>9, <1>10
-----------------------------------------------------------------------------
(* A quantile of naturals is a natural. *)
LEMMA QuantileIsElement ==
  ASSUME NEW s \in Seq(Nat), s # << >>, NEW q, IsQuantile(q)
  PROVE  \E i \in DOMAIN s : AtQuantile(Sorted(s), q) = s[i]
<1>1. s \in Seq(Int)
  BY SubsetSequences
<1>2. NearestRank(s, q, AtQuantile(Sorted(s), q))
  BY <1>1, QuantilesAreOfNearestRank
<1>. QED
  BY <1>2 DEF NearestRank

(* The smallest number for each of them adds up to no more than they do, and the
   largest to no less. *)
LEMMA ExtremesBound ==
  ASSUME NEW s \in Seq(Int), s # << >>
  PROVE  /\ AtQuantile(Sorted(s), <<0, 1>>) * Len(s) <= Total(s)
         /\ Total(s) <= AtQuantile(Sorted(s), <<1, 1>>) * Len(s)
<1>1. PICK n \in Nat : n = Len(s) /\ DOMAIN s = 1..n
  OBVIOUS
<1>2. PICK q0, q1 : q0 = <<0, 1>> /\ q1 = <<1, 1>>
  OBVIOUS
<1>3. IsQuantile(q0) /\ IsQuantile(q1)
  BY <1>2 DEF IsQuantile
<1>4. PICK v0, v1 : v0 = AtQuantile(Sorted(s), q0) /\ v1 = AtQuantile(Sorted(s), q1)
  OBVIOUS
<1>5. NearestRank(s, q0, v0) /\ NearestRank(s, q1, v1)
  BY <1>3, <1>4, QuantilesAreOfNearestRank
<1>6. v0 \in Int /\ v1 \in Int
  BY <1>5 DEF NearestRank
<1>7. \A i \in 1..n : v0 <= s[i]
  <2>1. ASSUME NEW i \in 1..n PROVE Count(s, s[i]) * q0[2] >= q0[1] * Len(s)
    <3>1. Count(s, s[i]) \in Nat
      BY CountIsNat
    <3>2. Count(s, s[i]) * 1 >= 0 * n
      BY <3>1
    <3>. QED
      BY <1>1, <1>2, <3>2
  <2>. QED
    BY <1>1, <1>5, <2>1 DEF NearestRank
<1>8. \A i \in 1..n : s[i] <= v1
  <2>1. PICK C : C = {j \in DOMAIN s : s[j] <= v1}
    OBVIOUS
  <2>2. Count(s, v1) >= n
    <3>1. Count(s, v1) * q1[2] >= q1[1] * Len(s)
      BY <1>5 DEF NearestRank
    <3>2. Count(s, v1) \in Nat
      BY CountIsNat
    <3>. QED
      BY <1>1, <1>2, <3>1, <3>2
  <2>3. C \subseteq 1..n /\ Cardinality(C) = Count(s, v1)
    BY <1>1, <2>1 DEF Count
  <2>4. IsFiniteSet(1..n) /\ Cardinality(1..n) = n
    BY Intervals
  <2>5. Cardinality(C) \in Nat /\ Cardinality(C) <= n
    <3>1. Cardinality(C) <= Cardinality(1..n)
      BY <2>3, <2>4, FS_Subset
    <3>2. Cardinality(C) \in Nat
      BY <2>3, CountIsNat
    <3>. QED
      BY <2>4, <3>1, <3>2
  <2>6. Cardinality(C) = Cardinality(1..n)
    BY <2>2, <2>3, <2>4, <2>5
  <2>7. C = 1..n
    BY <2>3, <2>4, <2>6, FS_Subset
  <2>. QED
    BY <2>1, <2>7
<1>9. Bounds(v0, s) /\ Bounds(v1, s)
  BY <1>6, TotalIsBounded
<1>. QED
  BY <1>1, <1>2, <1>4, <1>7, <1>8, <1>9 DEF Bounds

(* A quotient of at least one. *)
LEMMA AtLeastOnce ==
  ASSUME NEW a \in Nat, NEW n \in Nat, n > 0, n <= a
  PROVE  a \div n \in Nat /\ a \div n > 0
<1>1. PICK d : d = a \div n
  OBVIOUS
<1>2. d \in Int /\ a < (d + 1) * n
  BY <1>1
<1>3. SUFFICES ASSUME d <= 0 PROVE FALSE
  BY <1>1, <1>2
<1>4. (d + 1) * n <= n
  BY <1>2, <1>3
<1>. QED
  BY <1>2, <1>4

(* The mean of positive numbers is positive. *)
LEMMA MeanIsPositive ==
  ASSUME NEW s \in Seq(Int), s # << >>, \A i \in 1..Len(s) : 1 <= s[i]
  PROVE  MeanOf(s) \in Nat /\ MeanOf(s) > 0
<1>0. PICK n \in Nat : n = Len(s) /\ n > 0
  OBVIOUS
<1>1. PICK a : n = Len(s) /\ n > 0 /\ a = Total(s)
  BY <1>0
<1>2. Bounds(1, s)
  BY TotalIsBounded
<1>3. a \in Int /\ n <= a
  BY <1>1, <1>2 DEF Bounds
<1>4. MeanOf(s) = a \div n
  BY <1>1, <1>3 DEF MeanOf
<1>. QED
  BY <1>1, <1>3, <1>4, AtLeastOnce
=============================================================================

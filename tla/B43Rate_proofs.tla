----------------------------- MODULE B43Rate_proofs -----------------------------
(***************************************************************************)
(* Proofs about B43Rate, for any number of streams, rates and packets.      *)
(*                                                                         *)
(* The module first proves what the algorithm computes: the arithmetic of    *)
(* the estimates and of the counters, sums over the rates, and that the     *)
(* maximum of the groups' maxima is the maximum of all rates.  The inductive *)
(* invariant IInv then needs two facts no property states: as long as the   *)
(* statistics are on, every estimate is at least one percent, without which *)
(* no rate need have any throughput and an update would keep the old best;   *)
(* and while they are off nothing has been counted.                         *)
(***************************************************************************)
EXTENDS B43Rate, FiniteSetTheorems, WellFoundedInduction, TLAPS

(* A nonempty set of naturals has a least member.                          *)
LEMMA LeastNatural ==
  ASSUME NEW S \in SUBSET Nat, S # {}
  PROVE  \E x \in S : \A y \in S : x <= y
<1> DEFINE Below(x) == {y \in S : y <= x}
           Downs == {Below(x) : x \in S}
<1>0. \A x \in S : x \in Nat
  OBVIOUS
<1>1. \A x \in S : Below(x) \in FiniteSubsetsOf(S)
  <2> TAKE x \in S
  <2>1. \A y \in Below(x) : y \in 0 .. x
    BY <1>0
  <2>2. IsFiniteSet(0 .. x)
    BY <1>0, FS_Interval
  <2>3. IsFiniteSet(Below(x))
    BY <2>1, <2>2, FS_Subset
  <2> QED
    BY <2>3 DEF FiniteSubsetsOf
<1>2. Downs \subseteq FiniteSubsetsOf(S) /\ Downs # {}
  BY <1>1
<1>3. \E D \in Downs : \A E \in Downs : <<E, D>> \notin StrictSubsetOrdering(S)
  BY <1>2, WFMin, FS_StrictSubsetOrderingWellFounded
<1>4. PICK x \in S : \A y \in S : <<Below(y), Below(x)>> \notin StrictSubsetOrdering(S)
  BY <1>3
<1>5. ASSUME NEW y \in S, y < x PROVE FALSE
  <2>1. \A z \in S : z <= y => z <= x
    BY <1>0, <1>5
  <2>2. x \in Below(x) /\ x \notin Below(y)
    BY <1>0, <1>5
  <2> QED
    BY <1>4, <2>1, <2>2 DEF StrictSubsetOrdering
<1> QED
  BY <1>0, <1>5

(* Induction up to m, over the set of the numbers for which a claim holds.   *)
LEMMA Induction ==
  ASSUME NEW m \in Nat, NEW S, 0 \in S, \A n \in 0 .. m - 1 : n \in S => n + 1 \in S
  PROVE  \A n \in 0 .. m : n \in S
<1> DEFINE Bad == {n \in 0 .. m : n \notin S}
<1> SUFFICES ASSUME Bad # {} PROVE FALSE
  OBVIOUS
<1>1. Bad \in SUBSET Nat
  OBVIOUS
<1>2. PICK n \in Bad : \A k \in Bad : n <= k
  BY <1>1, LeastNatural
<1>3. n \in 0 .. m /\ n \notin S /\ n # 0
  BY <1>2
<1>4. n - 1 \in 0 .. m - 1 /\ n - 1 \notin Bad
  BY <1>2, <1>3
<1>5. n - 1 \in S
  BY <1>4
<1>6. (n - 1) + 1 \in S
  BY <1>4, <1>5
<1> QED
  BY <1>3, <1>6

-----------------------------------------------------------------------------
(* Rates and arithmetic.                                                   *)

(* The constants, one by one.                                              *)
LEMMA Constants ==
  /\ Streams \in Nat /\ Streams # 0 /\ PerStream \in Nat /\ PerStream # 0
  /\ UpdateInterval \in Nat /\ UpdateInterval # 0
  /\ RingSize \in Nat /\ RingSize # 0 /\ MaxPackets \in Nat /\ MaxPackets # 0
  /\ Streams * PerStream \in Nat /\ Streams * PerStream # 0
<1>1. /\ Streams \in Nat /\ Streams # 0 /\ PerStream \in Nat /\ PerStream # 0
      /\ UpdateInterval \in Nat /\ UpdateInterval # 0
      /\ RingSize \in Nat /\ RingSize # 0 /\ MaxPackets \in Nat /\ MaxPackets # 0
  BY RateAssumption
<1>2. Streams * PerStream >= PerStream
  BY <1>1
<1> QED
  BY <1>1, <1>2

(* A group and an index in it make a rate.                                 *)
LEMMA RateOf ==
  ASSUME NEW g \in Groups, NEW i \in Local
  PROVE  g * PerStream + i \in Rates
<1>1. g \in Nat /\ g + 1 <= Streams /\ i \in Nat /\ i < PerStream
  BY Constants DEF Groups, Local
<1>2. (g + 1) * PerStream <= Streams * PerStream
  BY <1>1, Constants
<1>3. (g + 1) * PerStream = g * PerStream + PerStream /\ g * PerStream \in Nat
  BY <1>1, Constants
<1> QED
  BY <1>1, <1>2, <1>3, Constants DEF Rates

(* A lower group has the lower rates.                                      *)
LEMMA GroupsInOrder ==
  ASSUME NEW g \in Groups, NEW h \in Groups, h < g, NEW i \in Local, NEW j \in Local
  PROVE  h * PerStream + j < g * PerStream + i
<1>1. g \in Nat /\ h \in Nat /\ h + 1 <= g /\ i \in Nat /\ j \in Nat /\ j < PerStream
  BY Constants DEF Groups, Local
<1>2. (h + 1) * PerStream <= g * PerStream
  BY <1>1, Constants
<1>3. (h + 1) * PerStream = h * PerStream + PerStream
      /\ h * PerStream \in Nat /\ g * PerStream \in Nat
  BY <1>1, Constants
<1> QED
  BY <1>1, <1>2, <1>3, Constants

(* Every rate has a group and an index in it.                              *)
LEMMA GroupOf ==
  ASSUME NEW r \in Rates
  PROVE  \E g \in Groups, i \in Local : r = g * PerStream + i
<1> DEFINE S == {n \in Nat : \E g \in Nat, i \in Local : n = g * PerStream + i}
           m == Streams * PerStream
<1>1. 0 \in S
  <2>1. 0 \in Local /\ 0 = 0 * PerStream + 0
    BY Constants DEF Local
  <2> QED
    BY <2>1
<1>2. ASSUME NEW n \in 0 .. m - 1, n \in S PROVE n + 1 \in S
  <2>1. PICK g \in Nat, i \in Local : n = g * PerStream + i
    BY <1>2
  <2>2. CASE i + 1 < PerStream
    <3>1. i + 1 \in Local
      BY <2>2, Constants DEF Local
    <3>2. n + 1 = g * PerStream + (i + 1) /\ n + 1 \in Nat
      BY <1>2, <2>1, Constants DEF Local
    <3> QED
      BY <3>1, <3>2
  <2>3. CASE ~(i + 1 < PerStream)
    <3>1. i + 1 = PerStream /\ 0 \in Local
      BY <2>3, Constants DEF Local
    <3>2. n + 1 = (g + 1) * PerStream + 0 /\ n + 1 \in Nat /\ g + 1 \in Nat
      <4>1. (g + 1) * PerStream = g * PerStream + PerStream /\ g * PerStream \in Nat
        BY Constants
      <4> DEFINE before == g * PerStream
                 after == (g + 1) * PerStream
      <4>2. before \in Nat /\ after = before + PerStream /\ n = before + i /\ i \in Nat
        BY <2>1, <4>1 DEF Local
      <4> HIDE DEF before, after
      <4>3. n + 1 = after + 0 /\ n + 1 \in Nat
        BY <3>1, <4>2, Constants
      <4> QED
        BY <4>3 DEF after
    <3> QED
      BY <3>1, <3>2
  <2> QED
    BY <2>2, <2>3
<1>3. \A n \in 0 .. m : n \in S
  <2> HIDE DEF S
  <2> QED
    BY <1>1, <1>2, Constants, Induction
<1>4. PICK g \in Nat, i \in Local : r = g * PerStream + i
  <2>1. r \in 0 .. m
    BY Constants DEF Rates
  <2> QED
    BY <1>3, <2>1
<1>5. g \in Groups
  <2> SUFFICES ASSUME g >= Streams PROVE FALSE
    BY Constants DEF Groups
  <2>1. g * PerStream >= Streams * PerStream
    BY Constants
  <2> QED
    BY <1>4, <2>1, Constants DEF Rates, Local
<1> QED
  BY <1>4, <1>5

(* As many successes as tries are the full probability of the code.         *)
LEMMA FullRate ==
  ASSUME NEW t \in Nat, t # 0
  PROVE  (t * OnePercent) \div t = OnePercent
BY DEF OnePercent

(* A weighted mean lies between the two values.                             *)
LEMMA EwmaBetween ==
  ASSUME NEW p \in Nat
  PROVE  /\ Ewma(p, OnePercent) \in Nat
         /\ p <= OnePercent => p <= Ewma(p, OnePercent) /\ Ewma(p, OnePercent) <= OnePercent
         /\ p >= OnePercent => OnePercent <= Ewma(p, OnePercent) /\ Ewma(p, OnePercent) <= p
BY DEF Ewma, OnePercent

(* What a remainder is.                                                    *)
LEMMA Remainder ==
  ASSUME NEW n \in Nat, n # 0, NEW q \in Nat, NEW r \in 0 .. n - 1
  PROVE  (q * n + r) % n = r
<1>1. q * n + r \in Nat
  OBVIOUS
<1> QED
  BY <1>1

(* The remainder counts up to the divisor and starts again.                 *)
LEMMA NextRemainder ==
  ASSUME NEW a \in Nat, NEW n \in Nat, n # 0, (a + 1) % n # 0
  PROVE  (a + 1) % n = (a % n) + 1
<1> DEFINE q == a \div n
           r == a % n
<1>1. q \in Nat /\ r \in 0 .. n - 1 /\ a = q * n + r
  OBVIOUS
<1> HIDE DEF q, r
<1>2. CASE r + 1 = n
  <2>1. (q + 1) * n = q * n + n /\ q * n \in Nat
    BY <1>1
  <2>2. a + 1 = (q + 1) * n + 0 /\ q + 1 \in Nat /\ 0 \in 0 .. n - 1
    BY <1>1, <1>2, <2>1
  <2>3. (a + 1) % n = 0
    BY <2>2, Remainder
  <2> QED
    BY <2>3
<1>3. CASE r + 1 # n
  <2>1. a + 1 = q * n + (r + 1) /\ r + 1 \in 0 .. n - 1
    BY <1>1, <1>3
  <2>2. (a + 1) % n = r + 1
    BY <1>1, <2>1, Remainder
  <2> QED
    BY <2>2 DEF r
<1> QED
  BY <1>2, <1>3

-----------------------------------------------------------------------------
(* Sums.                                                                   *)

(* What the sum over the first n rates is.                                  *)
Sums(f, g, n) ==
  /\ g \in [0 .. n -> Int]
  /\ g[0] = 0
  /\ \A i \in 1 .. n : g[i] = g[i - 1] + f[i - 1]

(* The sum is defined.                                                     *)
LEMMA SumExists ==
  ASSUME NEW f \in [Rates -> Nat]
  PROVE  \E g : Sums(f, g, Streams * PerStream) /\ SumRates(f) = g[Streams * PerStream]
<1> DEFINE m == Streams * PerStream
           Runs == {n \in 0 .. m : \E g : Sums(f, g, n)}
           Step(h) == [n \in 0 .. m |-> IF n = 0 THEN 0 ELSE h[n - 1] + f[n - 1]]
           h == CHOOSE h : h = Step(h)
<1>1. m \in Nat
  BY Constants
<1>2. 0 \in Runs
  <2>1. Sums(f, [i \in 0 .. 0 |-> 0], 0)
    BY DEF Sums
  <2> QED
    BY <1>1, <2>1
<1>3. ASSUME NEW n \in 0 .. m - 1, n \in Runs PROVE n + 1 \in Runs
  <2>1. PICK g : Sums(f, g, n)
    BY <1>3
  <2>2. n \in Nat /\ n + 1 \in 1 .. m /\ n \in Rates /\ n \in 0 .. n
    BY <1>1 DEF Rates
  <2>3. PICK v \in Int : v = g[n] + f[n]
    BY <2>1, <2>2 DEF Sums
  <2> DEFINE k == [i \in 0 .. n + 1 |-> IF i = n + 1 THEN v ELSE g[i]]
  <2>4. k \in [0 .. n + 1 -> Int]
    <3>1. \A i \in 0 .. n + 1 : i # n + 1 => i \in 0 .. n
      BY <2>2
    <3>2. \A i \in 0 .. n + 1 : (IF i = n + 1 THEN v ELSE g[i]) \in Int
      BY <2>1, <3>1 DEF Sums
    <3> QED
      BY <3>2
  <2>5. \A i \in 0 .. n : k[i] = g[i]
    <3> TAKE i \in 0 .. n
    <3>1. i \in 0 .. n + 1 /\ i # n + 1
      BY <2>2
    <3> QED
      BY <3>1
  <2>6. k[n + 1] = v
    BY <2>2
  <2> HIDE DEF k
  <2>7. k[0] = 0
    <3>1. 0 \in 0 .. n
      BY <2>2
    <3> QED
      BY <2>1, <2>5, <3>1 DEF Sums
  <2>8. \A i \in 1 .. n + 1 : k[i] = k[i - 1] + f[i - 1]
    <3> TAKE i \in 1 .. n + 1
    <3>1. CASE i = n + 1
      <4>1. k[i - 1] = g[n] /\ i - 1 = n
        BY <2>2, <2>5, <3>1
      <4> QED
        BY <2>3, <2>6, <3>1, <4>1
    <3>2. CASE i # n + 1
      <4>1. i \in 1 .. n /\ i - 1 \in 0 .. n /\ i \in 0 .. n
        BY <2>2, <3>2
      <4> QED
        BY <2>1, <2>5, <4>1 DEF Sums
    <3> QED
      BY <3>1, <3>2
  <2>9. Sums(f, k, n + 1)
    BY <2>4, <2>7, <2>8 DEF Sums
  <2> QED
    BY <2>2, <2>9
<1>4. PICK g : Sums(f, g, m)
  <2>1. \A n \in 0 .. m : n \in Runs
    <3> HIDE DEF Runs, m
    <3> QED
      BY <1>1, <1>2, <1>3, Induction
  <2> QED
    BY <1>1, <2>1
<1> HIDE DEF m
<1>5. g = Step(g)
  <2>1. \A n \in 0 .. m : n # 0 => n \in 1 .. m
    BY <1>1
  <2> QED
    BY <1>4, <2>1 DEF Sums
<1>6. h = Step(h)
  <2> HIDE DEF Step
  <2> QED
    BY <1>5
<1>7. SumRates(f) = h[m]
  BY DEF SumRates, h, m
<1> HIDE DEF h
<1>8. h[0] = 0 /\ \A n \in 1 .. m : h[n] = h[n - 1] + f[n - 1]
  BY <1>1, <1>6
<1> DEFINE Same == {n \in 0 .. m : h[n] = g[n]}
<1>9. 0 \in Same
  BY <1>1, <1>4, <1>8 DEF Sums
<1>10. ASSUME NEW n \in 0 .. m - 1, n \in Same PROVE n + 1 \in Same
  <2>1. n + 1 \in 1 .. m /\ (n + 1) - 1 = n /\ n + 1 \in 0 .. m
    BY <1>1
  <2>2. g[n + 1] = g[n] + f[n] /\ h[n + 1] = h[n] + f[n]
    BY <1>4, <1>8, <2>1 DEF Sums
  <2> QED
    BY <1>10, <2>1, <2>2
<1>11. h[m] = g[m]
  <2>1. \A n \in 0 .. m : n \in Same
    <3> HIDE DEF Same
    <3> QED
      BY <1>1, <1>9, <1>10, Induction
  <2> QED
    BY <1>1, <2>1
<1> QED
  BY <1>4, <1>7, <1>11 DEF m

(* Counters that are all zero sum to zero.                                  *)
LEMMA SumOfNone == SumRates([r \in Rates |-> 0]) = 0
<1> DEFINE f == [r \in Rates |-> 0]
           m == Streams * PerStream
<1>1. f \in [Rates -> Nat] /\ m \in Nat /\ \A r \in Rates : f[r] = 0
  BY Constants
<1> HIDE DEF f
<1>2. PICK g : Sums(f, g, m) /\ SumRates(f) = g[m]
  BY <1>1, SumExists
<1> DEFINE Zero == {n \in 0 .. m : g[n] = 0}
<1>3. 0 \in Zero
  BY <1>1, <1>2 DEF Sums
<1>4. ASSUME NEW n \in 0 .. m - 1, n \in Zero PROVE n + 1 \in Zero
  <2>1. n + 1 \in 1 .. m /\ (n + 1) - 1 = n /\ n + 1 \in 0 .. m /\ n \in Rates
    BY <1>1 DEF Rates
  <2>2. g[n + 1] = g[n] + f[n]
    BY <1>2, <2>1 DEF Sums
  <2> QED
    BY <1>1, <1>4, <2>1, <2>2
<1>5. \A n \in 0 .. m : n \in Zero
  <2> HIDE DEF Zero, m
  <2> QED
    BY <1>1, <1>3, <1>4, Induction
<1> QED
  BY <1>1, <1>2, <1>5 DEF f

(* One more of one rate is one more in the sum.                             *)
LEMMA SumOfOneMore ==
  ASSUME NEW f \in [Rates -> Nat], NEW c \in Rates
  PROVE  SumRates([f EXCEPT ![c] = @ + 1]) = SumRates(f) + 1
<1> DEFINE e == [f EXCEPT ![c] = @ + 1]
           m == Streams * PerStream
<1>1. m \in Nat /\ c \in 0 .. m - 1
  BY Constants DEF Rates
<1>2. /\ e \in [Rates -> Nat]
      /\ \A r \in Rates : e[r] = IF r = c THEN f[r] + 1 ELSE f[r]
  OBVIOUS
<1> HIDE DEF e
<1>3. PICK g : Sums(f, g, m) /\ SumRates(f) = g[m]
  BY SumExists
<1>4. PICK h : Sums(e, h, m) /\ SumRates(e) = h[m]
  BY <1>2, SumExists
<1> DEFINE Right == {n \in 0 .. m : h[n] = IF n <= c THEN g[n] ELSE g[n] + 1}
<1>5. 0 \in Right
  BY <1>1, <1>3, <1>4 DEF Sums
<1>6. ASSUME NEW n \in 0 .. m - 1, n \in Right PROVE n + 1 \in Right
  <2>1. n + 1 \in 1 .. m /\ (n + 1) - 1 = n /\ n + 1 \in 0 .. m /\ n \in Rates /\ n \in 0 .. m
    BY <1>1 DEF Rates
  <2>2. g[n + 1] = g[n] + f[n] /\ h[n + 1] = h[n] + e[n] /\ g[n] \in Int /\ f[n] \in Nat
    BY <1>3, <1>4, <2>1 DEF Sums
  <2>3. e[n] = IF n = c THEN f[n] + 1 ELSE f[n]
    BY <1>2, <2>1
  <2>4. h[n] = IF n <= c THEN g[n] ELSE g[n] + 1
    BY <1>6
  <2>5. h[n + 1] = IF n + 1 <= c THEN g[n + 1] ELSE g[n + 1] + 1
    BY <1>1, <2>2, <2>3, <2>4
  <2> QED
    BY <2>1, <2>5
<1>7. \A n \in 0 .. m : n \in Right
  <2> HIDE DEF Right, m
  <2> QED
    BY <1>1, <1>5, <1>6, Induction
<1>8. h[m] = g[m] + 1
  <2>1. m \in Right
    BY <1>1, <1>7
  <2> HIDE DEF m
  <2> QED
    BY <1>1, <2>1
<1> QED
  BY <1>3, <1>4, <1>8 DEF e

-----------------------------------------------------------------------------
(* The choice of the best rate.                                            *)

(* The least and the greater of two numbers.                                *)
LEMMA MinMaxOfTwo ==
  ASSUME NEW a \in Nat, NEW b \in Nat
  PROVE  Min({a, b}) = (IF a <= b THEN a ELSE b) /\ Max({a, b}) = (IF a <= b THEN b ELSE a)
<1>1. ASSUME NEW x \in {a, b}, \A y \in {a, b} : x <= y PROVE x = IF a <= b THEN a ELSE b
  BY <1>1
<1>2. ASSUME NEW x \in {a, b}, \A y \in {a, b} : x >= y PROVE x = IF a <= b THEN b ELSE a
  BY <1>2
<1>3. \E x \in {a, b} : \A y \in {a, b} : x <= y
  OBVIOUS
<1>4. \E x \in {a, b} : \A y \in {a, b} : x >= y
  OBVIOUS
<1>5. Min({a, b}) = IF a <= b THEN a ELSE b
  BY <1>1, <1>3 DEF Min
<1>6. Max({a, b}) = IF a <= b THEN b ELSE a
  BY <1>2, <1>4 DEF Max
<1> QED
  BY <1>5, <1>6

(* ArgMax is the lowest index of a greatest value.                          *)
LEMMA ArgMaxFacts ==
  ASSUME NEW n \in Nat, n # 0, NEW f \in [0 .. n - 1 -> Nat]
  PROVE  /\ ArgMax(f) \in 0 .. n - 1
         /\ \A j \in 0 .. n - 1 : f[j] <= f[ArgMax(f)]
         /\ \A j \in 0 .. n - 1 : j < ArgMax(f) => f[j] < f[ArgMax(f)]
<1> DEFINE D == 0 .. n - 1
           At == {i \in D : \A j \in D : f[j] <= f[i]}
           Seen == {k \in D : \E i \in 0 .. k : \A j \in 0 .. k : f[j] <= f[i]}
<1>1. 0 \in Seen
  OBVIOUS
<1>2. ASSUME NEW k \in 0 .. (n - 1) - 1, k \in Seen PROVE k + 1 \in Seen
  <2>1. PICK i \in 0 .. k : \A j \in 0 .. k : f[j] <= f[i]
    BY <1>2
  <2>2. k + 1 \in D /\ i \in 0 .. k + 1 /\ k + 1 \in 0 .. k + 1 /\ i \in D
    OBVIOUS
  <2>3. f[i] \in Nat /\ f[k + 1] \in Nat /\ \A j \in 0 .. k : f[j] \in Nat
    BY <2>2
  <2>4. CASE f[k + 1] <= f[i]
    <3>1. \A j \in 0 .. k + 1 : f[j] <= f[i]
      BY <2>1, <2>4
    <3> QED
      BY <2>2, <3>1
  <2>5. CASE ~(f[k + 1] <= f[i])
    <3>1. \A j \in 0 .. k + 1 : f[j] <= f[k + 1]
      BY <2>1, <2>3, <2>5
    <3> QED
      BY <2>2, <3>1
  <2> QED
    BY <2>4, <2>5
<1>3. n - 1 \in Seen
  <2>1. n - 1 \in Nat
    OBVIOUS
  <2>2. \A k \in 0 .. n - 1 : k \in Seen
    <3> HIDE DEF Seen
    <3> QED
      BY <1>1, <1>2, <2>1, Induction
  <2>3. n - 1 \in 0 .. n - 1
    BY <2>1
  <2> HIDE DEF Seen
  <2> QED
    BY <2>2, <2>3
<1>4. At \in SUBSET Nat /\ At # {}
  <2>1. PICK i \in 0 .. n - 1 : \A j \in 0 .. n - 1 : f[j] <= f[i]
    BY <1>3
  <2>2. i \in At
    BY <2>1
  <2>3. At \in SUBSET Nat
    OBVIOUS
  <2> HIDE DEF At
  <2> QED
    BY <2>2, <2>3
<1>5. \E x \in At : \A y \in At : x <= y
  <2> HIDE DEF At
  <2> QED
    BY <1>4, LeastNatural
<1>6. ArgMax(f) = Min(At)
  BY DEF ArgMax
<1>7. Min(At) \in At /\ \A y \in At : Min(At) <= y
  <2> HIDE DEF At
  <2> QED
    BY <1>5 DEF Min
<1> DEFINE a == Min(At)
<1> HIDE DEF a
<1>8. a \in D /\ \A j \in D : f[j] <= f[a]
  BY <1>7 DEF a
<1>9. ASSUME NEW j \in D, j < a PROVE f[j] < f[a]
  <2>1. j \notin At
    BY <1>7, <1>8, <1>9 DEF a
  <2>2. PICK k \in D : ~(f[k] <= f[j])
    BY <2>1
  <2>3. f[j] \in Nat /\ f[k] \in Nat /\ f[a] \in Nat
    BY <1>8
  <2> QED
    BY <1>8, <2>2, <2>3
<1> QED
  BY <1>6, <1>8, <1>9 DEF a

(* Throughputs are natural numbers, and positive from one percent on.        *)
LEMMA TpFacts ==
  ASSUME NEW p \in [Rates -> Nat], NEW r \in Rates
  PROVE  Tp(p, r) \in Nat /\ (p[r] >= OnePercent => Tp(p, r) > 0)
<1> DEFINE b == Bitrate[r]
           q == p[r] \div OnePercent
<1>1. b \in Nat /\ b >= 100
  BY RateAssumption
<1>2. q \in Nat /\ (p[r] >= OnePercent => q >= 1)
  BY DEF OnePercent
<1> HIDE DEF b, q
<1>3. b * q \in Nat /\ (q >= 1 => b * q >= 100)
  BY <1>1, <1>2
<1>4. Tp(p, r) = (b * q) \div 100
  BY DEF Tp, Throughput, b, q
<1> DEFINE x == b * q
<1> HIDE DEF x
<1>5. x \div 100 \in Nat /\ (x >= 100 => x \div 100 > 0)
  BY <1>3 DEF x
<1> QED
  BY <1>2, <1>3, <1>4, <1>5 DEF x

(* The indices the tables keep exist.                                       *)
LEMMA GroupFacts ==
  ASSUME NEW p \in [Rates -> Nat], NEW g \in Groups
  PROVE  /\ GroupBest(p, g) \in Local /\ GroupReliable(p, g) \in Local
         /\ \A i \in Local : /\ Tp(p, g * PerStream + i) <= Tp(p, g * PerStream + GroupBest(p, g))
                             /\ i < GroupBest(p, g) =>
                                  Tp(p, g * PerStream + i) < Tp(p, g * PerStream + GroupBest(p, g))
<1> DEFINE tp == [i \in Local |-> Tp(p, g * PerStream + i)]
           pr == [i \in Local |-> p[g * PerStream + i] \div OnePercent]
<1>1. tp \in [0 .. PerStream - 1 -> Nat]
  BY RateOf, TpFacts DEF Local
<1>2. pr \in [0 .. PerStream - 1 -> Nat]
  <2>1. \A i \in Local : p[g * PerStream + i] \in Nat
    BY RateOf
  <2>2. \A i \in Local : p[g * PerStream + i] \div OnePercent \in Nat
    BY <2>1 DEF OnePercent
  <2> QED
    BY <2>2 DEF Local
<1>3. GroupBest(p, g) = ArgMax(tp) /\ GroupReliable(p, g) = ArgMax(pr)
  BY DEF GroupBest, GroupReliable
<1>4. \A i \in Local : tp[i] = Tp(p, g * PerStream + i)
  OBVIOUS
<1> HIDE DEF tp, pr
<1>5. /\ ArgMax(tp) \in Local /\ ArgMax(pr) \in Local
      /\ \A i \in Local : tp[i] <= tp[ArgMax(tp)] /\ (i < ArgMax(tp) => tp[i] < tp[ArgMax(tp)])
  BY <1>1, <1>2, Constants, ArgMaxFacts DEF Local
<1> QED
  BY <1>3, <1>4, <1>5

(* The argument of the two-level maximum is that of a single pass.           *)
LEMMA BestOfBests ==
  ASSUME NEW p \in [Rates -> Nat], NEW old \in Rates
  PROVE  /\ StationBest(p, old) \in Rates
         /\ (\E r \in Rates : Tp(p, r) > 0) => StationBest(p, old) = FlatBest(p)
<1> DEFINE rate(g) == g * PerStream + GroupBest(p, g)
           tp == [h \in Groups |-> Tp(p, rate(h))]
           top == ArgMax(tp)
           best == rate(top)
<1>1. \A g \in Groups : rate(g) \in Rates
  BY GroupFacts, RateOf
<1>2. tp \in [0 .. Streams - 1 -> Nat] /\ \A g \in Groups : tp[g] = Tp(p, rate(g))
  BY <1>1, TpFacts DEF Groups
<1>3. StationBest(p, old) = IF Tp(p, best) > 0 THEN best ELSE old
  BY DEF StationBest
<1> HIDE DEF tp
<1>4. /\ top \in Groups
      /\ \A h \in Groups : tp[h] <= tp[top] /\ (h < top => tp[h] < tp[top])
  BY <1>2, Constants, ArgMaxFacts DEF Groups
<1> HIDE DEF top
<1>5. best \in Rates
  BY <1>1, <1>4
<1>6. ASSUME NEW s \in Rates
      PROVE  Tp(p, s) <= Tp(p, best) /\ (s < best => Tp(p, s) < Tp(p, best))
  <2>1. PICK h \in Groups, i \in Local : s = h * PerStream + i
    BY GroupOf
  <2>2. /\ Tp(p, s) <= Tp(p, rate(h))
        /\ i < GroupBest(p, h) => Tp(p, s) < Tp(p, rate(h))
    BY <2>1, GroupFacts
  <2>3. /\ Tp(p, rate(h)) <= Tp(p, best)
        /\ h < top => Tp(p, rate(h)) < Tp(p, best)
    BY <1>2, <1>4
  <2>4. Tp(p, s) \in Nat /\ Tp(p, rate(h)) \in Nat /\ Tp(p, best) \in Nat
    BY <1>1, <1>5, TpFacts
  <2>5. ASSUME s < best PROVE Tp(p, s) < Tp(p, best)
    <3>1. GroupBest(p, top) \in Local
      BY <1>4, GroupFacts
    <3>2. CASE h < top
      BY <2>2, <2>3, <2>4, <3>2
    <3>3. CASE h = top
      <4>1. i < GroupBest(p, h)
        <5>1. h * PerStream \in Nat /\ i \in Nat /\ GroupBest(p, h) \in Nat
          BY <3>1, <3>3, Constants DEF Groups, Local
        <5> QED
          BY <2>1, <2>5, <3>3, <5>1
      <4> QED
        BY <2>2, <3>3, <4>1
    <3>4. CASE top < h
      <4>1. best < s
        BY <1>4, <2>1, <3>1, <3>4, GroupsInOrder
      <4>2. best \in Int /\ s \in Int
        BY <1>5 DEF Rates
      <4> QED
        BY <2>5, <4>1, <4>2
    <3>5. h \in Int /\ top \in Int
      BY <1>4 DEF Groups
    <3> QED
      BY <3>2, <3>3, <3>4, <3>5
  <2> HIDE DEF rate
  <2> QED
    BY <2>2, <2>3, <2>4, <2>5
<1> DEFINE IsFlat(r) == \A s \in Rates : Tp(p, s) <= Tp(p, r) /\ (s < r => Tp(p, s) < Tp(p, r))
<1>7. ASSUME NEW r \in Rates, NEW q \in Rates, IsFlat(r), IsFlat(q) PROVE r = q
  <2>1. r \in Int /\ q \in Int /\ Tp(p, r) \in Nat /\ Tp(p, q) \in Nat
    BY TpFacts DEF Rates
  <2>2. ~(r < q) /\ ~(q < r)
    BY <1>7, <2>1
  <2> QED
    BY <2>1, <2>2
<1>8. FlatBest(p) = best
  <2>1. IsFlat(best)
    BY <1>6
  <2>2. FlatBest(p) = CHOOSE r \in Rates : IsFlat(r)
    BY DEF FlatBest
  <2> HIDE DEF IsFlat, best
  <2> QED
    BY <1>5, <1>7, <2>1, <2>2
<1>9. ASSUME NEW r \in Rates, Tp(p, r) > 0 PROVE Tp(p, best) > 0
  <2>1. Tp(p, r) \in Nat /\ Tp(p, best) \in Nat /\ Tp(p, r) <= Tp(p, best)
    BY <1>5, <1>6, TpFacts
  <2> QED
    BY <1>9, <2>1
<1> HIDE DEF best
<1> QED
  BY <1>3, <1>5, <1>8, <1>9

-----------------------------------------------------------------------------
(* The station.                                                            *)

(* The station after a packet is counted, before any update.                *)
Counted(st, r) ==
  [st EXCEPT !.total = @ + 1, !.attempts[r] = @ + 1, !.last[r] = @ + 1]

(* The estimates after an update.                                          *)
Estimates(st) == [r \in Rates |-> Estimate(st.prob[r], st.last[r], st.last[r])]

(* Zero counters and a table index fit.                                    *)
LEMMA Zeros ==
  /\ [r \in Rates |-> 0] \in [Rates -> Nat]
  /\ [g \in Groups |-> 0] \in [Groups -> Local]
  /\ 0 \in Groups /\ 0 \in Local /\ 0 \in Rates
  /\ 0 \in 0 .. MaxPackets /\ 0 \in 0 .. SampleCap
BY Constants DEF Groups, Local, Rates, SampleCap

(* A torn down station has sent nothing.                                    *)
LEMMA ClearedFacts ==
  /\ Cleared \in Stations
  /\ Cleared.total = 0
  /\ Cleared.attempts = [r \in Rates |-> 0] /\ Cleared.last = [r \in Rates |-> 0]
BY Zeros DEF Cleared, Stations

(* A new station has sent nothing, and takes every rate to work half of the *)
(* time.                                                                   *)
LEMMA FreshFacts ==
  /\ Fresh \in Stations
  /\ Fresh.total = 0 /\ Fresh.best = 0
  /\ Fresh.attempts = [r \in Rates |-> 0] /\ Fresh.last = [r \in Rates |-> 0]
  /\ \A r \in Rates : Fresh.prob[r] >= OnePercent
<1>1. [r \in Rates |-> 50 * OnePercent] \in [Rates -> Nat]
  BY DEF OnePercent
<1>2. [g \in Groups |-> DefaultRate] \in [Groups -> Local]
  BY RateAssumption
<1>3. /\ Fresh.total = 0 /\ Fresh.best = 0
      /\ Fresh.attempts = [r \in Rates |-> 0] /\ Fresh.last = [r \in Rates |-> 0]
      /\ Fresh.prob = [r \in Rates |-> 50 * OnePercent]
  BY DEF Fresh, Cleared
<1>4. Fresh \in Stations
  BY <1>1, <1>2, Zeros DEF Fresh, Cleared, Stations
<1> QED
  BY <1>3, <1>4 DEF OnePercent

(* Choosing a sample touches neither the counters nor the estimates.         *)
LEMMA SampledFacts ==
  ASSUME NEW st \in Stations
  PROVE  /\ Sampled(st) \in Stations /\ SampleIdx(st) \in Rates
         /\ Sampled(st).total = st.total /\ Sampled(st).best = st.best
         /\ Sampled(st).attempts = st.attempts /\ Sampled(st).last = st.last
         /\ Sampled(st).prob = st.prob
<1> DEFINE g == st.sampleGroup
           more == Min({st.samples + 1, SampleCap})
           next == (g + 1) % Streams
           idx == IF Faster(st, g) THEN st.maxTp[g] + 1 ELSE st.sampleIdx
<1>1. /\ g \in Groups /\ st.samples \in 0 .. SampleCap /\ st.sampleIdx \in Local
      /\ st.maxTp \in [Groups -> Local] /\ st.maxProb \in [Groups -> Local]
  BY DEF Stations
<1>2. more \in 0 .. SampleCap
  <2>1. more = IF st.samples + 1 <= SampleCap THEN st.samples + 1 ELSE SampleCap
    BY <1>1, MinMaxOfTwo DEF SampleCap
  <2> QED
    BY <1>1, <2>1 DEF SampleCap
<1>3. next \in Groups
  BY <1>1, Constants DEF Groups
<1>4. Faster(st, g) => st.maxTp[g] + 1 \in Local
  BY <1>1, Constants DEF Faster, Local
<1>5. idx \in Local
  BY <1>1, <1>4
<1>6. SampleIdx(st) \in Rates
  <2>1. \A i \in Local : i \in Rates
    <3>1. Streams * PerStream >= PerStream
      BY Constants
    <3> QED
      BY <3>1, Constants DEF Local, Rates
  <2> QED
    BY <1>1, <1>4, <2>1 DEF SampleIdx
<1>7. Sampled(st) = [st EXCEPT !.samples = more, !.sampleGroup = next, !.sampleIdx = idx]
  BY DEF Sampled
<1> HIDE DEF more, next, idx
<1>8. Sampled(st) \in Stations
  BY <1>2, <1>3, <1>5, <1>7 DEF Stations
<1>9. /\ Sampled(st).total = st.total /\ Sampled(st).best = st.best
      /\ Sampled(st).attempts = st.attempts /\ Sampled(st).last = st.last
      /\ Sampled(st).prob = st.prob
  BY <1>7 DEF Stations
<1> QED
  BY <1>6, <1>8, <1>9

(* A packet is counted once, for one rate.                                  *)
LEMMA CountedFacts ==
  ASSUME NEW st \in Stations, NEW r \in Rates, st.total < MaxPackets
  PROVE  /\ Counted(st, r) \in Stations
         /\ Counted(st, r).total = st.total + 1
         /\ Counted(st, r).attempts = [st.attempts EXCEPT ![r] = @ + 1]
         /\ Counted(st, r).last = [st.last EXCEPT ![r] = @ + 1]
         /\ Counted(st, r).prob = st.prob /\ Counted(st, r).best = st.best
<1> DEFINE a == [st.attempts EXCEPT ![r] = @ + 1]
           l == [st.last EXCEPT ![r] = @ + 1]
<1>1. st.attempts \in [Rates -> Nat] /\ st.last \in [Rates -> Nat] /\ st.total \in 0 .. MaxPackets
  BY DEF Stations
<1>2. a \in [Rates -> Nat] /\ l \in [Rates -> Nat] /\ st.total + 1 \in 0 .. MaxPackets
  BY <1>1, Constants
<1>3. Counted(st, r) = [st EXCEPT !.total = st.total + 1, !.attempts = a, !.last = l]
  BY DEF Counted, Stations
<1> HIDE DEF a, l
<1>4. Counted(st, r) \in Stations
  BY <1>2, <1>3 DEF Stations
<1>5. /\ Counted(st, r).total = st.total + 1
      /\ Counted(st, r).attempts = a /\ Counted(st, r).last = l
      /\ Counted(st, r).prob = st.prob /\ Counted(st, r).best = st.best
  BY <1>3 DEF Stations
<1> QED
  BY <1>4, <1>5 DEF a, l

(* An update moves every estimate towards full success.                     *)
LEMMA EstimatesFacts ==
  ASSUME NEW st \in Stations
  PROVE  /\ Estimates(st) \in [Rates -> Nat]
         /\ \A r \in Rates :
              /\ Estimates(st)[r] \in Nat
              /\ st.prob[r] <= OnePercent =>
                   st.prob[r] <= Estimates(st)[r] /\ Estimates(st)[r] <= OnePercent
              /\ st.prob[r] >= OnePercent =>
                   OnePercent <= Estimates(st)[r] /\ Estimates(st)[r] <= st.prob[r]
<1>1. \A r \in Rates : st.prob[r] \in Nat /\ st.last[r] \in Nat
  BY DEF Stations
<1>2. ASSUME NEW r \in Rates
      PROVE  LET e == Estimate(st.prob[r], st.last[r], st.last[r])
             IN /\ e \in Nat
                /\ st.prob[r] <= OnePercent => st.prob[r] <= e /\ e <= OnePercent
                /\ st.prob[r] >= OnePercent => OnePercent <= e /\ e <= st.prob[r]
  <2>1. CASE st.last[r] = 0
    BY <1>1, <2>1 DEF Estimate, OnePercent
  <2>2. CASE st.last[r] # 0
    <3>1. Estimate(st.prob[r], st.last[r], st.last[r]) = Ewma(st.prob[r], OnePercent)
      BY <1>1, <2>2, FullRate DEF Estimate
    <3> QED
      BY <1>1, <3>1, EwmaBetween
  <2> QED
    BY <2>1, <2>2
<1>3. \A r \in Rates : Estimates(st)[r] = Estimate(st.prob[r], st.last[r], st.last[r])
  BY DEF Estimates
<1>4. Estimates(st) \in [Rates -> Nat]
  BY <1>2 DEF Estimates
<1> QED
  BY <1>2, <1>3, <1>4

(* What an update leaves.                                                  *)
LEMMA UpdatedFacts ==
  ASSUME NEW st \in Stations
  PROVE  /\ Updated(st) \in Stations
         /\ Updated(st).total = st.total /\ Updated(st).attempts = st.attempts
         /\ Updated(st).last = [r \in Rates |-> 0]
         /\ Updated(st).prob = Estimates(st)
         /\ Updated(st).best = StationBest(Estimates(st), st.best)
<1> DEFINE p == Estimates(st)
           tp == [g \in Groups |-> GroupBest(p, g)]
           rel == [g \in Groups |-> GroupReliable(p, g)]
           z == [r \in Rates |-> 0]
           b == StationBest(p, st.best)
<1>1. p \in [Rates -> Nat]
  BY EstimatesFacts
<1>2. Updated(st) = [st EXCEPT !.last = z, !.prob = p, !.maxTp = tp, !.maxProb = rel, !.best = b]
  BY DEF Updated, Estimates, AfterUpdate
<1> HIDE DEF p
<1>3. tp \in [Groups -> Local] /\ rel \in [Groups -> Local]
  BY <1>1, GroupFacts
<1>4. b \in Rates
  <2>1. st.best \in Rates
    BY DEF Stations
  <2> HIDE DEF b
  <2> QED
    BY <1>1, <2>1, BestOfBests DEF b
<1>5. z \in [Rates -> Nat]
  OBVIOUS
<1> HIDE DEF tp, rel, b, z
<1>6. Updated(st) \in Stations
  BY <1>1, <1>2, <1>3, <1>4, <1>5 DEF Stations
<1>7. /\ Updated(st).total = st.total /\ Updated(st).attempts = st.attempts
      /\ Updated(st).last = z /\ Updated(st).prob = p /\ Updated(st).best = b
  BY <1>2 DEF Stations
<1> QED
  BY <1>6, <1>7 DEF p, z, b

-----------------------------------------------------------------------------
(* The inductive invariant.                                                *)

(* Every packet is an attempt of one rate, and in the estimates or not yet.  *)
Conserved(st) ==
  /\ SumRates(st.attempts) = st.total
  /\ SumRates(st.last) = st.total % UpdateInterval

(* Every rate may still be chosen: with all estimates below one percent no   *)
(* rate has any throughput and an update would keep the old best.           *)
Likely(st) == \A r \in Rates : st.prob[r] >= OnePercent

(* From the first update on the best rate is that of the estimates.         *)
BestKnown(st) == st.total >= UpdateInterval => st.best = FlatBest(st.prob)

IInv ==
  /\ TypeOK
  /\ Conserved(ms)
  /\ on => Likely(ms)
  /\ ~on => ms.total = 0
  /\ BestKnown(ms)

(* A station that has sent nothing satisfies the invariant.                 *)
LEMMA NothingSent ==
  ASSUME NEW st \in Stations, st.total = 0,
         st.attempts = [r \in Rates |-> 0], st.last = [r \in Rates |-> 0]
  PROVE  Conserved(st) /\ BestKnown(st)
<1>1. 0 % UpdateInterval = 0 /\ ~(0 >= UpdateInterval)
  BY Constants
<1> QED
  BY <1>1, SumOfNone DEF Conserved, BestKnown

(* A completed frame keeps the books and the best rate.                     *)
LEMMA RcUpdateFacts ==
  ASSUME NEW st \in Stations, NEW r \in Rates, st.total < MaxPackets,
         Conserved(st), Likely(st), BestKnown(st)
  PROVE  /\ RcUpdate(st, r) \in Stations
         /\ Conserved(RcUpdate(st, r)) /\ Likely(RcUpdate(st, r)) /\ BestKnown(RcUpdate(st, r))
         /\ \A q \in Rates :
              /\ Min({st.prob[q], OnePercent}) <= RcUpdate(st, r).prob[q]
              /\ RcUpdate(st, r).prob[q] <= Max({st.prob[q], OnePercent})
<1> DEFINE c == Counted(st, r)
<1>1. /\ c \in Stations /\ c.total = st.total + 1
      /\ c.attempts = [st.attempts EXCEPT ![r] = @ + 1]
      /\ c.last = [st.last EXCEPT ![r] = @ + 1]
      /\ c.prob = st.prob /\ c.best = st.best
  BY CountedFacts
<1>2. RcUpdate(st, r) = IF c.total % UpdateInterval = 0 THEN Updated(c) ELSE c
  BY DEF RcUpdate, Counted
<1> HIDE DEF c
<1>3. /\ st.total \in Nat /\ st.attempts \in [Rates -> Nat] /\ st.last \in [Rates -> Nat]
      /\ \A q \in Rates : st.prob[q] \in Nat /\ st.prob[q] >= OnePercent
  BY DEF Stations, Likely
<1>4. SumRates(c.attempts) = c.total
  BY <1>1, <1>3, SumOfOneMore DEF Conserved
<1>5. SumRates(c.last) = (st.total % UpdateInterval) + 1
  BY <1>1, <1>3, SumOfOneMore DEF Conserved
<1>6. OnePercent \in Nat
  BY DEF OnePercent
<1>7. CASE c.total % UpdateInterval = 0
  <2> DEFINE u == Updated(c)
  <2>1. /\ u \in Stations /\ u.total = c.total /\ u.attempts = c.attempts
        /\ u.last = [q \in Rates |-> 0] /\ u.prob = Estimates(c)
        /\ u.best = StationBest(Estimates(c), c.best)
    BY <1>1, UpdatedFacts
  <2> HIDE DEF u
  <2>2. Conserved(u)
    BY <1>4, <1>7, <2>1, SumOfNone DEF Conserved
  <2>3. \A q \in Rates : /\ u.prob[q] \in Nat
                         /\ OnePercent <= u.prob[q] /\ u.prob[q] <= st.prob[q]
    BY <1>1, <1>3, <2>1, EstimatesFacts
  <2>4. Likely(u)
    BY <1>6, <2>3 DEF Likely
  <2>5. BestKnown(u)
    <3>1. 0 \in Rates
      BY Zeros
    <3>2. Estimates(c) \in [Rates -> Nat] /\ c.best \in Rates
      BY <1>1, EstimatesFacts DEF Stations
    <3>3. Estimates(c)[0] >= OnePercent
      BY <1>6, <2>1, <2>3, <3>1
    <3>4. Tp(Estimates(c), 0) > 0
      BY <3>1, <3>2, <3>3, TpFacts
    <3>5. StationBest(Estimates(c), c.best) = FlatBest(Estimates(c))
      BY <3>1, <3>2, <3>4, BestOfBests
    <3> QED
      BY <2>1, <3>5 DEF BestKnown
  <2>6. \A q \in Rates : /\ Min({st.prob[q], OnePercent}) <= u.prob[q]
                         /\ u.prob[q] <= Max({st.prob[q], OnePercent})
    <3> TAKE q \in Rates
    <3>1. /\ Min({st.prob[q], OnePercent}) =
               (IF st.prob[q] <= OnePercent THEN st.prob[q] ELSE OnePercent)
          /\ Max({st.prob[q], OnePercent}) =
               (IF st.prob[q] <= OnePercent THEN OnePercent ELSE st.prob[q])
      BY <1>3, <1>6, MinMaxOfTwo
    <3> QED
      BY <1>3, <1>6, <2>3, <3>1
  <2>7. RcUpdate(st, r) = u
    BY <1>2, <1>7 DEF u
  <2> QED
    BY <2>1, <2>2, <2>4, <2>5, <2>6, <2>7
<1>8. CASE c.total % UpdateInterval # 0
  <2>1. c.total % UpdateInterval = (st.total % UpdateInterval) + 1
    BY <1>1, <1>3, <1>8, Constants, NextRemainder
  <2>2. Conserved(c)
    BY <1>4, <1>5, <2>1 DEF Conserved
  <2>3. Likely(c)
    BY <1>1 DEF Likely
  <2>4. c.total >= UpdateInterval => st.total >= UpdateInterval
    <3>1. UpdateInterval % UpdateInterval = 0
      <4>1. (1 * UpdateInterval + 0) % UpdateInterval = 0
        BY Constants, Remainder
      <4> QED
        BY <4>1, Constants
    <3>2. c.total # UpdateInterval
      BY <1>8, <3>1
    <3> QED
      BY <1>1, <1>3, <3>2, Constants
  <2>5. BestKnown(c)
    BY <1>1, <2>4 DEF BestKnown
  <2>6. \A q \in Rates : /\ Min({st.prob[q], OnePercent}) <= c.prob[q]
                         /\ c.prob[q] <= Max({st.prob[q], OnePercent})
    <3> TAKE q \in Rates
    <3>1. /\ Min({st.prob[q], OnePercent}) =
               (IF st.prob[q] <= OnePercent THEN st.prob[q] ELSE OnePercent)
          /\ Max({st.prob[q], OnePercent}) =
               (IF st.prob[q] <= OnePercent THEN OnePercent ELSE st.prob[q])
      BY <1>3, <1>6, MinMaxOfTwo
    <3> QED
      BY <1>1, <1>3, <1>6, <3>1
  <2>7. RcUpdate(st, r) = c
    BY <1>2, <1>8
  <2> QED
    BY <1>1, <2>2, <2>3, <2>5, <2>6, <2>7
<1> QED
  BY <1>7, <1>8

(* Before the first association nothing was sent.                           *)
LEMMA InitHolds == Init => IInv
<1> SUFFICES ASSUME Init PROVE IInv
  OBVIOUS
<1>1. TypeOK
  <2>1. 0 \in 0 .. RingSize
    BY Constants
  <2> QED
    BY <2>1, ClearedFacts, Zeros DEF Init, TypeOK
<1>2. Conserved(ms) /\ BestKnown(ms)
  BY ClearedFacts, NothingSent DEF Init
<1> QED
  BY <1>1, <1>2, ClearedFacts DEF Init, IInv

(* Every action keeps the invariant.                                        *)
LEMMA StepKeeps == IInv /\ [Next]_vars => IInv'
<1> SUFFICES ASSUME IInv, [Next]_vars PROVE IInv'
  OBVIOUS
<1>0. /\ bss \in {"idle", "other", "run"} /\ on \in BOOLEAN /\ ms \in Stations
      /\ cur \in Rates /\ posted \in Rates /\ flight \in 0 .. RingSize
      /\ RingSize \in Nat /\ 0 \in 0 .. RingSize
  BY Constants DEF IInv, TypeOK
<1>1. CASE Associate
  <2>1. /\ ms' = Fresh /\ on' = TRUE /\ bss' = "run"
        /\ cur' = 0 /\ posted' = posted /\ flight' = flight
    BY <1>1, FreshFacts DEF Associate
  <2>2. Conserved(Fresh) /\ BestKnown(Fresh) /\ Likely(Fresh)
    BY FreshFacts, NothingSent DEF Likely
  <2>3. TypeOK'
    BY <1>0, <2>1, FreshFacts, Zeros DEF TypeOK
  <2> QED
    BY <2>1, <2>2, <2>3 DEF IInv
<1>2. CASE Lose
  <2>1. bss' = "other" /\ UNCHANGED <<on, ms, cur, flight, posted>>
    BY <1>2 DEF Lose
  <2> QED
    BY <2>1 DEF IInv, TypeOK
<1>3. CASE Disassociate
  <2>1. /\ ms' = Cleared /\ on' = FALSE /\ bss' = "idle"
        /\ cur' = cur /\ posted' = posted /\ flight' = 0
    BY <1>3 DEF Disassociate
  <2>2. Conserved(Cleared) /\ BestKnown(Cleared) /\ Cleared.total = 0
    BY ClearedFacts, NothingSent
  <2>3. TypeOK'
    BY <1>0, <2>1, ClearedFacts DEF TypeOK
  <2> QED
    BY <2>1, <2>2, <2>3 DEF IInv
<1>4. CASE Post
  <2>1. bss' = bss /\ on' = on /\ cur' = cur /\ flight' \in 0 .. RingSize
    BY <1>0, <1>4 DEF Post
  <2>2. /\ ms' \in Stations /\ posted' \in Rates
        /\ ms'.total = ms.total /\ ms'.best = ms.best /\ ms'.prob = ms.prob
        /\ ms'.attempts = ms.attempts /\ ms'.last = ms.last
    <3>1. CASE on /\ ms.total > 0 /\ ms.total % SampleRate = 0
      BY <1>0, <1>4, <3>1, SampledFacts DEF Post
    <3>2. CASE ~(on /\ ms.total > 0 /\ ms.total % SampleRate = 0)
      <4>1. posted' = (IF on THEN ms.best ELSE 0) /\ ms' = ms
        BY <1>4, <3>2 DEF Post
      <4>2. ms.best \in Rates
        BY <1>0 DEF Stations
      <4> QED
        BY <1>0, <4>1, <4>2, Zeros
    <3> QED
      BY <3>1, <3>2
  <2>3. TypeOK'
    BY <1>0, <2>1, <2>2 DEF TypeOK
  <2>4. Conserved(ms') /\ BestKnown(ms')
    BY <2>2 DEF IInv, Conserved, BestKnown
  <2>5. (on' => Likely(ms')) /\ (~on' => ms'.total = 0)
    BY <2>1, <2>2 DEF IInv, Likely
  <2> QED
    BY <2>3, <2>4, <2>5 DEF IInv
<1>5. CASE Complete
  <2>1. /\ bss' = bss /\ on' = on /\ cur' = cur /\ posted' = posted
        /\ flight' \in 0 .. RingSize
    BY <1>0, <1>5 DEF Complete
  <2>2. CASE ~on /\ UNCHANGED ms
    <3>1. TypeOK'
      BY <1>0, <2>1, <2>2 DEF TypeOK
    <3> QED
      BY <2>1, <2>2, <3>1 DEF IInv
  <2>3. CASE on /\ ms.total < MaxPackets /\ ms' = RcUpdate(ms, cur)
    <3>1. Conserved(ms) /\ Likely(ms) /\ BestKnown(ms)
      BY <2>3 DEF IInv
    <3>2. ms' \in Stations /\ Conserved(ms') /\ Likely(ms') /\ BestKnown(ms')
      BY <1>0, <2>3, <3>1, RcUpdateFacts
    <3>3. TypeOK'
      BY <1>0, <2>1, <3>2 DEF TypeOK
    <3> QED
      BY <2>1, <2>3, <3>2, <3>3 DEF IInv
  <2> QED
    BY <1>5, <2>2, <2>3 DEF Complete
<1>6. CASE UNCHANGED vars
  BY <1>6 DEF vars, IInv, TypeOK
<1> QED
  BY <1>1, <1>2, <1>3, <1>4, <1>5, <1>6 DEF Next

(* The invariant holds whatever the number of streams, rates and packets,    *)
(* however often b43bsd_rc_update refreshes its tables.                     *)
THEOREM Invariant == Spec => []IInv
<1> QED
  BY InitHolds, StepKeeps, PTL DEF Spec

-----------------------------------------------------------------------------
(* What follows.                                                           *)

(* Every rate the driver hands out is one of the tables.                    *)
THEOREM TypeCorrect == Spec => []TypeOK
<1>1. IInv => TypeOK
  BY DEF IInv
<1> QED
  BY <1>1, Invariant, PTL

(* Late completions, losses and new associations lose no attempt and count  *)
(* none twice.                                                             *)
THEOREM AttemptsAreConserved == Spec => []AttemptsConserved
<1>1. IInv => AttemptsConserved
  BY DEF IInv, Conserved, AttemptsConserved
<1> QED
  BY <1>1, Invariant, PTL

(* The update of the tables within groups and over groups finds the rate     *)
(* one pass over all of them would, lowest first among equals.              *)
THEOREM BestIsTheFlatOne == Spec => []BestIsFlat
<1>1. ASSUME NEW p \in SmallTables, \E r \in Rates : Tp(p, r) > 0
      PROVE  StationBest(p, 0) = FlatBest(p)
  <2>1. p \in [Rates -> Nat]
    BY DEF SmallTables, OnePercent
  <2> QED
    BY <1>1, <2>1, BestOfBests, Zeros
<1>2. IInv => BestIsFlat
  BY <1>1 DEF IInv, BestKnown, BestIsFlat
<1> QED
  BY <1>2, Invariant, PTL

(* No report takes an estimate past what was observed.                      *)
THEOREM EstimatesStayBetween == Spec => EstimateBetween
<1> DEFINE Between ==
      bss' = bss =>
        \A r \in Rates :
          /\ Min({ms.prob[r], OnePercent}) <= ms'.prob[r]
          /\ ms'.prob[r] <= Max({ms.prob[r], OnePercent})
<1>0. OnePercent \in Nat
  BY DEF OnePercent
<1>1. ASSUME TypeOK, ms'.prob = ms.prob PROVE Between
  <2> SUFFICES ASSUME NEW r \in Rates
               PROVE  /\ Min({ms.prob[r], OnePercent}) <= ms.prob[r]
                      /\ ms.prob[r] <= Max({ms.prob[r], OnePercent})
    BY <1>1
  <2>1. ms.prob[r] \in Nat
    BY <1>1 DEF TypeOK, Stations
  <2>2. /\ Min({ms.prob[r], OnePercent}) =
             (IF ms.prob[r] <= OnePercent THEN ms.prob[r] ELSE OnePercent)
        /\ Max({ms.prob[r], OnePercent}) =
             (IF ms.prob[r] <= OnePercent THEN OnePercent ELSE ms.prob[r])
    BY <1>0, <2>1, MinMaxOfTwo
  <2> QED
    BY <1>0, <2>1, <2>2
<1>2. ASSUME IInv, [Next]_vars PROVE [Between]_vars
  <2> SUFFICES ASSUME bss' = bss PROVE Between
    OBVIOUS
  <2>0. TypeOK
    BY <1>2 DEF IInv
  <2>1. CASE Associate \/ Lose \/ Disassociate
    BY <2>1 DEF Associate, Lose, Disassociate
  <2>2. CASE Post
    <3>1. ms'.prob = ms.prob
      BY <2>0, <2>2, SampledFacts DEF Post, TypeOK
    <3> HIDE DEF Between
    <3> QED
      BY <1>1, <2>0, <3>1
  <2>3. CASE Complete
    <3>1. CASE ~on /\ UNCHANGED ms
      <4> HIDE DEF Between
      <4> QED
        BY <1>1, <2>0, <3>1
    <3>2. CASE on /\ ms.total < MaxPackets /\ ms' = RcUpdate(ms, cur)
      <4>1. ms \in Stations /\ cur \in Rates
        BY <2>0 DEF TypeOK
      <4> QED
        BY <1>2, <3>2, <4>1, RcUpdateFacts DEF IInv
    <3> QED
      BY <2>3, <3>1, <3>2 DEF Complete
  <2>4. CASE UNCHANGED vars
    <3>1. ms'.prob = ms.prob
      BY <2>4 DEF vars
    <3> HIDE DEF Between
    <3> QED
      BY <1>1, <2>0, <3>1
  <2> HIDE DEF Between
  <2> QED
    BY <1>2, <2>1, <2>2, <2>3, <2>4 DEF Next
<1>3. IInv /\ [Next]_vars => [Between]_vars
  BY <1>2
<1> QED
  BY <1>3, Invariant, PTL DEF Spec, EstimateBetween

=============================================================================

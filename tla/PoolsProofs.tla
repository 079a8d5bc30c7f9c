----------------------------- MODULE PoolsProofs -----------------------------
(***************************************************************************)
(* The proofs about the pools.  First, of how points are shared: the       *)
(* prefixes of a source are nested, whatever its weights.  Second, of the  *)
(* stage: at every step its journal holds what is needed to undo the call. *)
(* Third, of the blocks: however their points are taken, no slice is asked *)
(* for more than it holds.                                                 *)
(***************************************************************************)
EXTENDS Pools, SequenceTheorems, NaturalsInduction, WellFoundedInduction, TLAPS

(***************************************************************************)
(* Induction.  What holds at 0 and at each next number up to n holds at n: *)
(* of the numbers where it failed, one would be the least.                 *)
(***************************************************************************)
LEMMA Least ==
  ASSUME NEW T \in SUBSET Nat, T # {}
  PROVE  \E m \in T : \A k \in T : m <= k
<1> DEFINE R == OpToRel(<, Nat)
<1>1. PICK m \in T : \A k \in T : ~ (<<k, m>> \in R)
  BY NatLessThanWellFounded, WFMin
<1>2. \A k \in T : <<k, m>> \in R <=> k < m
  BY DEF OpToRel
<1> HIDE DEF R
<1>3. \A k \in T : ~(k < m)
  BY <1>1, <1>2
<1>4. QED
  BY <1>3

\* A set that holds 0 and with each number below n the next one.
LEMMA UpTo ==
  ASSUME NEW T, NEW n \in Nat, 0 \in T, \A k \in 0..(n - 1) : k \in T => k + 1 \in T
  PROVE  n \in T /\ 0..n \subseteq T
<1>1. SUFFICES ASSUME (0..n) \ T # {} PROVE FALSE
  OBVIOUS
<1>2. PICK m \in (0..n) \ T : \A k \in (0..n) \ T : m <= k
  <2>1. (0..n) \ T \in SUBSET Nat
    OBVIOUS
  <2>2. QED
    BY <1>1, <2>1, Least
<1>3. m # 0 /\ m - 1 \in 0..(n - 1) /\ m - 1 \notin (0..n) \ T
  BY <1>2
<1>4. m - 1 \in T
  BY <1>3
<1>5. (m - 1) + 1 = m
  BY <1>2
<1>6. QED
  BY <1>2, <1>3, <1>4, <1>5

----------------------------------------------------------------------------
\* Sums.
SumBy(f, w, n) == f = [i \in 0..n |-> IF i = 0 THEN 0 ELSE f[i - 1] + w[i]]

LEMMA SumByFacts ==
  ASSUME NEW f, NEW w, NEW n \in Nat, SumBy(f, w, n)
  PROVE  f[0] = 0 /\ \A i \in 1..n : f[i] = f[i - 1] + w[i]
<1> DEFINE F(i) == IF i = 0 THEN 0 ELSE f[i - 1] + w[i]
<1>1. f = [i \in 0..n |-> F(i)]
  BY DEF SumBy
<1> HIDE DEF F
<1>2. \A i \in 0..n : f[i] = F(i)
  BY <1>1
<1>3. QED
  BY <1>2 DEF F

LEMMA SumExists ==
  ASSUME NEW w, NEW n \in Nat
  PROVE  \E f : SumBy(f, w, n)
<1> DEFINE T == {m \in Nat : \E f : SumBy(f, w, m)}
<1>1. 0 \in T
  <2> DEFINE f == [i \in 0..0 |-> 0]
  <2>1. SumBy(f, w, 0)
    BY DEF SumBy
  <2>2. QED
    BY <2>1
<1>2. ASSUME NEW m \in 0..(n - 1), m \in T
      PROVE  m + 1 \in T
  <2>1. PICK f : SumBy(f, w, m)
    BY <1>2
  <2>2. m \in Nat /\ f[0] = 0 /\ \A i \in 1..m : f[i] = f[i - 1] + w[i]
    BY <2>1, SumByFacts
  <2> DEFINE g == [i \in 0..(m + 1) |-> IF i = m + 1 THEN f[m] + w[m + 1] ELSE f[i]]
             h == [i \in 0..(m + 1) |-> IF i = 0 THEN 0 ELSE g[i - 1] + w[i]]
  <2>3. g[0] = 0 /\ h[0] = 0
    BY <2>2
  <2>4. g[m + 1] = f[m] + w[m + 1] /\ h[m + 1] = f[m] + w[m + 1]
    BY <2>2
  <2>5. ASSUME NEW i \in 1..m PROVE g[i] = h[i]
    <3>1. g[i] = f[i] /\ g[i - 1] = f[i - 1] /\ h[i] = g[i - 1] + w[i]
      BY <2>2
    <3>2. QED
      BY <2>2, <3>1
  <2>6. \A i \in 0..(m + 1) : g[i] = h[i]
    <3> HIDE DEF g, h
    <3>1. QED
      BY <2>2, <2>3, <2>4, <2>5
  <2>7. g = h
    BY <2>6
  <2>8. SumBy(g, w, m + 1)
    BY <2>7 DEF SumBy
  <2>9. QED
    BY <2>2, <2>8
<1> HIDE DEF T
<1>3. n \in T
  BY <1>1, <1>2, UpTo
<1>4. QED
  BY <1>3 DEF T

LEMMA CumulativeIs ==
  ASSUME NEW w, Len(w) \in Nat
  PROVE  /\ Cumulative(w, 0) = 0
         /\ \A i \in 1..Len(w) : Cumulative(w, i) = Cumulative(w, i - 1) + w[i]
<1> DEFINE sum == CHOOSE f : SumBy(f, w, Len(w))
<1>1. SumBy(sum, w, Len(w))
  BY SumExists
<1>2. \A n : Cumulative(w, n) = sum[n]
  BY DEF Cumulative, SumBy
<1> HIDE DEF sum
<1>3. QED
  BY <1>1, <1>2, SumByFacts

----------------------------------------------------------------------------
(***************************************************************************)
(* Sums of sequences of naturals.                                          *)
(***************************************************************************)

LEMMA WeightsFacts ==
  ASSUME NEW w \in Seq(Nat)
  PROVE  Len(w) \in Nat /\ DOMAIN w = 1..Len(w) /\ \A i \in 1..Len(w) : w[i] \in Nat
BY LenProperties, ElementOfSeq

LEMMA CumulativeNat ==
  ASSUME NEW w \in Seq(Nat)
  PROVE  \A i \in 0..Len(w) : Cumulative(w, i) \in Nat
<1> DEFINE T == {i \in Nat : Cumulative(w, i) \in Nat}
<1>1. 0 \in T
  BY WeightsFacts, CumulativeIs
<1>2. ASSUME NEW i \in 0..(Len(w) - 1), i \in T PROVE i + 1 \in T
  <2>1. i + 1 \in 1..Len(w) /\ i + 1 \in Nat /\ w[i + 1] \in Nat /\ (i + 1) - 1 = i
    BY WeightsFacts
  <2>2. Cumulative(w, i + 1) = Cumulative(w, i) + w[i + 1]
    BY <2>1, WeightsFacts, CumulativeIs
  <2>3. QED
    BY <1>2, <2>1, <2>2
<1> HIDE DEF T
<1>3. 0..Len(w) \subseteq T
  BY <1>1, <1>2, UpTo, WeightsFacts
<1>4. QED
  BY <1>3 DEF T

LEMMA TotalNat == ASSUME NEW w \in Seq(Nat) PROVE Total(w) \in Nat
BY CumulativeNat, WeightsFacts DEF Total

\* What more there is in each place there is more in the sum.
LEMMA SumsCompare ==
  ASSUME NEW w \in Seq(Nat), NEW v \in Seq(Nat), Len(v) = Len(w),
         \A i \in 1..Len(w) : w[i] <= v[i]
  PROVE  Total(w) <= Total(v) /\ \A j \in 1..Len(w) : w[j] < v[j] => Total(w) < Total(v)
<1> DEFINE T == {i \in Nat : /\ Cumulative(w, i) <= Cumulative(v, i)
                             /\ \A j \in 1..i : w[j] < v[j] => Cumulative(w, i) < Cumulative(v, i)}
<1>1. 0 \in T
  BY WeightsFacts, CumulativeIs
<1>2. ASSUME NEW i \in 0..(Len(w) - 1), i \in T PROVE i + 1 \in T
  <2>1. /\ i + 1 \in 1..Len(w) /\ i \in 0..Len(w) /\ i + 1 \in Nat /\ (i + 1) - 1 = i
        /\ w[i + 1] \in Nat /\ v[i + 1] \in Nat /\ w[i + 1] <= v[i + 1]
    BY WeightsFacts
  <2>2. /\ Cumulative(w, i + 1) = Cumulative(w, i) + w[i + 1]
        /\ Cumulative(v, i + 1) = Cumulative(v, i) + v[i + 1]
    BY <2>1, WeightsFacts, CumulativeIs
  <2>3. Cumulative(w, i) \in Nat /\ Cumulative(v, i) \in Nat
    BY <2>1, CumulativeNat
  <2>4. Cumulative(w, i + 1) <= Cumulative(v, i + 1)
    BY SMTT(20), <1>2, <2>1, <2>2, <2>3
  <2>5. ASSUME NEW j \in 1..(i + 1), w[j] < v[j] PROVE Cumulative(w, i + 1) < Cumulative(v, i + 1)
    <3>1. CASE j = i + 1
      BY SMTT(20), <1>2, <2>1, <2>2, <2>3, <2>5, <3>1
    <3>2. CASE j # i + 1
      <4>1. j \in 1..i
        BY <2>1, <3>2
      <4>2. Cumulative(w, i) < Cumulative(v, i)
        BY <1>2, <2>5, <4>1
      <4>3. QED
        BY <2>1, <2>2, <2>3, <4>2
    <3>3. QED
      BY <3>1, <3>2
  <2>6. QED
    BY <2>1, <2>4, <2>5
<1> HIDE DEF T
<1>3. Len(w) \in T
  BY <1>1, <1>2, UpTo, WeightsFacts
<1>4. QED
  BY <1>3 DEF T, Total

\* One more in one place is one more in the sum.
LEMMA SumOfOneMore ==
  ASSUME NEW w \in Seq(Nat), NEW v \in Seq(Nat), Len(v) = Len(w), NEW k \in 1..Len(w),
         v[k] = w[k] + 1, \A i \in 1..Len(w) : i # k => v[i] = w[i]
  PROVE  Total(v) = Total(w) + 1
<1> DEFINE T == {i \in Nat : Cumulative(v, i) = Cumulative(w, i) + (IF k <= i THEN 1 ELSE 0)}
<1>1. 0 \in T
  BY WeightsFacts, CumulativeIs
<1>2. ASSUME NEW i \in 0..(Len(w) - 1), i \in T PROVE i + 1 \in T
  <2>1. /\ i + 1 \in 1..Len(w) /\ i \in 0..Len(w) /\ i + 1 \in Nat /\ (i + 1) - 1 = i
        /\ w[i + 1] \in Nat /\ v[i + 1] \in Nat
    BY WeightsFacts
  <2>2. /\ Cumulative(w, i + 1) = Cumulative(w, i) + w[i + 1]
        /\ Cumulative(v, i + 1) = Cumulative(v, i) + v[i + 1]
    BY <2>1, WeightsFacts, CumulativeIs
  <2>3. Cumulative(w, i) \in Nat /\ Cumulative(v, i) \in Nat
    BY <2>1, CumulativeNat
  <2>4. Cumulative(v, i) = Cumulative(w, i) + (IF k <= i THEN 1 ELSE 0)
    BY <1>2
  <2>5. Cumulative(v, i + 1) = Cumulative(w, i + 1) + (IF k <= i + 1 THEN 1 ELSE 0)
    <3>1. CASE k = i + 1
      BY SMTT(20), <2>1, <2>2, <2>3, <2>4, <3>1
    <3>2. CASE k < i + 1
      BY SMTT(20), <2>1, <2>2, <2>3, <2>4, <3>2
    <3>3. CASE k > i + 1
      BY <2>1, <2>2, <2>3, <2>4, <3>3
    <3>4. QED
      BY <2>1, <3>1, <3>2, <3>3
  <2>6. QED
    BY <2>1, <2>5
<1> HIDE DEF T
<1>3. Len(w) \in T
  BY <1>1, <1>2, UpTo, WeightsFacts
<1>4. QED
  BY <1>3, WeightsFacts DEF T, Total

\* The sum of the first places is theirs alone.
LEMMA SumsAgree ==
  ASSUME NEW w, NEW v, Len(w) \in Nat, Len(v) \in Nat,
         NEW m \in Nat, m <= Len(w), m <= Len(v), \A i \in 1..m : w[i] = v[i]
  PROVE  Cumulative(w, m) = Cumulative(v, m)
<1> DEFINE T == {i \in Nat : Cumulative(v, i) = Cumulative(w, i)}
<1>1. 0 \in T
  BY CumulativeIs
<1>2. ASSUME NEW i \in 0..(m - 1), i \in T PROVE i + 1 \in T
  <2>1. i + 1 \in 1..Len(w) /\ i + 1 \in 1..Len(v) /\ i + 1 \in 1..m /\ i + 1 \in Nat /\ (i + 1) - 1 = i
    OBVIOUS
  <2>2. /\ Cumulative(w, i + 1) = Cumulative(w, i) + w[i + 1]
        /\ Cumulative(v, i + 1) = Cumulative(v, i) + v[i + 1]
    BY <2>1, CumulativeIs
  <2>3. QED
    BY <1>2, <2>1, <2>2
<1> HIDE DEF T
<1>3. m \in T
  BY <1>1, <1>2, UpTo
<1>4. QED
  BY <1>3 DEF T

LEMMA SumsAdd ==
  ASSUME NEW w \in Seq(Nat), NEW v \in Seq(Nat), NEW u \in Seq(Nat), Len(v) = Len(w), Len(u) = Len(w),
         \A i \in 1..Len(w) : u[i] = w[i] + v[i]
  PROVE  Total(u) = Total(w) + Total(v)
<1> DEFINE T == {i \in Nat : Cumulative(u, i) = Cumulative(w, i) + Cumulative(v, i)}
<1>1. 0 \in T
  BY WeightsFacts, CumulativeIs
<1>2. ASSUME NEW i \in 0..(Len(w) - 1), i \in T PROVE i + 1 \in T
  <2>1. /\ i + 1 \in 1..Len(w) /\ i \in 0..Len(w) /\ i + 1 \in Nat /\ (i + 1) - 1 = i
        /\ w[i + 1] \in Nat /\ v[i + 1] \in Nat /\ u[i + 1] = w[i + 1] + v[i + 1]
    BY WeightsFacts
  <2>2. /\ Cumulative(w, i + 1) = Cumulative(w, i) + w[i + 1]
        /\ Cumulative(v, i + 1) = Cumulative(v, i) + v[i + 1]
        /\ Cumulative(u, i + 1) = Cumulative(u, i) + u[i + 1]
    BY <2>1, WeightsFacts, CumulativeIs
  <2>3. Cumulative(w, i) \in Nat /\ Cumulative(v, i) \in Nat /\ Cumulative(u, i) \in Nat
    BY <2>1, CumulativeNat
  <2>4. Cumulative(u, i) = Cumulative(w, i) + Cumulative(v, i)
    BY <1>2
  <2>5. Cumulative(u, i + 1) = Cumulative(w, i + 1) + Cumulative(v, i + 1)
    <3>1. \A a, b, x, y \in Nat : (a + b) + (x + y) = (a + x) + (b + y)
      OBVIOUS
    <3>2. Cumulative(u, i + 1) = (Cumulative(w, i) + Cumulative(v, i)) + (w[i + 1] + v[i + 1])
      BY <2>1, <2>2, <2>4
    <3>3. Cumulative(w, i) \in Nat /\ Cumulative(v, i) \in Nat /\ w[i + 1] \in Nat /\ v[i + 1] \in Nat
      BY <2>1, <2>3
    <3>4. PICK a \in Nat : a = Cumulative(w, i)
      BY <3>3
    <3>5. PICK b \in Nat : b = Cumulative(v, i)
      BY <3>3
    <3>6. PICK x \in Nat : x = w[i + 1]
      BY <3>3
    <3>7. PICK y \in Nat : y = v[i + 1]
      BY <3>3
    <3>8. (a + b) + (x + y) = (a + x) + (b + y)
      BY <3>1
    <3>9. QED
      BY <2>2, <3>2, <3>4, <3>5, <3>6, <3>7, <3>8
  <2>6. QED
    BY <2>1, <2>5
<1> HIDE DEF T
<1>3. Len(w) \in T
  BY <1>1, <1>2, UpTo, WeightsFacts
<1>4. QED
  BY <1>3 DEF T, Total

LEMMA DivFacts ==
  ASSUME NEW a \in Nat, NEW b \in Nat \ {0}
  PROVE  a \div b \in Nat /\ b * (a \div b) <= a /\ a < b * (a \div b) + b
OBVIOUS

----------------------------------------------------------------------------
(***************************************************************************)
(* Prefixes (SourcePrefix::allocation).  The seats of a share are worth    *)
(* its weight by one, by two and so on; an apportionment is fair when no   *)
(* seat not given is worth more than one given.  Floors are fair, a seat   *)
(* to the highest quotient keeps fair what was, and two fair ones of the   *)
(* same weights are nested.                                                *)
(***************************************************************************)

\* Whether an apportionment c of so many seats is the one by highest quotients: the last
\* seat of every share was worth more to it than the next one would be to another.
Fair(c, w) ==
  \A i, j \in 1..Len(w) : i # j /\ c[j] # 0 =>
     \/ w[j] * (c[i] + 1) > w[i] * c[j]
     \/ w[j] * (c[i] + 1) = w[i] * c[j] /\ j > i

\* Two shares' quotients are compared over a third.
LEMMA QuotientsOrder ==
  ASSUME NEW a \in Nat, NEW b \in Nat, NEW c \in Nat,
         NEW x \in Nat \ {0}, NEW y \in Nat \ {0}, NEW z \in Nat \ {0}
  PROVE  /\ b * x >= a * y /\ c * y >= b * z => c * x >= a * z
         /\ b * x > a * y /\ c * y >= b * z => c * x > a * z
         /\ b * x >= a * y /\ c * y > b * z => c * x > a * z
<1>1. \A k, l \in Nat : k * y >= l * y => k >= l
  OBVIOUS
<1>2. \A k, l \in Nat : k * y > l * y => k > l
  OBVIOUS
<1>3. (c * x) * y = (c * y) * x /\ (a * z) * y = (a * y) * z /\ (b * z) * x = (b * x) * z
  OBVIOUS
<1>4. c * x \in Nat /\ a * z \in Nat /\ c * y \in Nat /\ b * z \in Nat /\ b * x \in Nat /\ a * y \in Nat
  OBVIOUS
<1>5. c * y >= b * z => (c * y) * x >= (b * z) * x
  BY <1>4
<1>6. c * y > b * z => (c * y) * x > (b * z) * x
  BY <1>4
<1>7. b * x >= a * y => (b * x) * z >= (a * y) * z
  BY <1>4
<1>8. b * x > a * y => (b * x) * z > (a * y) * z
  BY <1>4
<1>9. (c * x) * y \in Nat /\ (a * z) * y \in Nat /\ (b * z) * x \in Nat
  BY <1>4
<1>10. b * x >= a * y /\ c * y >= b * z => (c * x) * y >= (a * z) * y
  BY <1>3, <1>5, <1>7, <1>9
<1>11. b * x > a * y /\ c * y >= b * z => (c * x) * y > (a * z) * y
  BY <1>3, <1>5, <1>8, <1>9
<1>12. b * x >= a * y /\ c * y > b * z => (c * x) * y > (a * z) * y
  BY <1>3, <1>6, <1>7, <1>9
<1>13. QED
  BY <1>1, <1>2, <1>4, <1>10, <1>11, <1>12

LEMMA FloorsAreQuotas ==
  ASSUME NEW w \in Seq(Nat), Total(w) # 0, NEW t \in Nat
  PROVE  /\ Floors(t, w) \in Seq(Nat) /\ Len(Floors(t, w)) = Len(w)
         /\ \A i \in 1..Len(w) : /\ Total(w) * Floors(t, w)[i] <= t * w[i]
                                 /\ t * w[i] < Total(w) * Floors(t, w)[i] + Total(w)
<1>1. PICK n \in Nat : n = Len(w)
  BY WeightsFacts
<1>2. PICK W \in Nat \ {0} : W = Total(w)
  BY TotalNat
<1>3. DOMAIN w = 1..n /\ \A i \in 1..n : w[i] \in Nat
  BY <1>1, WeightsFacts
<1>4. \A i \in 1..n : t * w[i] \in Nat
  BY <1>3
<1>5. Floors(t, w) = [i \in 1..n |-> (t * w[i]) \div W]
  BY <1>2, <1>3 DEF Floors
<1>6. \A i \in 1..n : /\ (t * w[i]) \div W \in Nat /\ W * ((t * w[i]) \div W) <= t * w[i]
                      /\ t * w[i] < W * ((t * w[i]) \div W) + W
  BY <1>4, DivFacts
<1>7. Floors(t, w) \in [1..n -> Nat]
  BY <1>5, <1>6
<1>8. Floors(t, w) \in Seq(Nat) /\ Len(Floors(t, w)) = n
  BY <1>7, SeqDef, LenProperties
<1>9. QED
  BY <1>1, <1>2, <1>5, <1>6, <1>8

LEMMA FloorsAreFair ==
  ASSUME NEW w \in Seq(Nat), Total(w) # 0, NEW t \in Nat
  PROVE  Fair(Floors(t, w), w)
<1>1. PICK c : c = Floors(t, w)
  OBVIOUS
<1>2. PICK W \in Nat \ {0} : W = Total(w)
  BY TotalNat
<1>3. c \in Seq(Nat) /\ Len(c) = Len(w)
      /\ \A i \in 1..Len(w) : W * c[i] <= t * w[i] /\ t * w[i] < W * c[i] + W
  BY <1>1, <1>2, FloorsAreQuotas
<1>4. ASSUME NEW i \in 1..Len(w), NEW j \in 1..Len(w), c[j] # 0
      PROVE  w[j] * (c[i] + 1) > w[i] * c[j]
  <2>1. PICK a \in Nat : a = w[i]
    BY WeightsFacts
  <2>2. PICK b \in Nat : b = w[j]
    BY WeightsFacts
  <2>3. PICK x \in Nat : x = c[i]
    BY <1>3, WeightsFacts
  <2>4. PICK y \in Nat \ {0} : y = c[j]
    BY <1>3, <1>4, WeightsFacts
  <2>5. t * a < W * (x + 1) /\ W * y <= t * b
    <3>1. t * a < W * x + W /\ W * y <= t * b
      BY <1>3, <2>1, <2>2, <2>3, <2>4
    <3>2. W * (x + 1) = W * x + W
      OBVIOUS
    <3>3. QED
      BY <3>1, <3>2
  <2>6. b # 0
    <3>1. W * y # 0 /\ W * y \in Nat
      OBVIOUS
    <3>2. b = 0 => t * b = 0
      OBVIOUS
    <3>3. QED
      BY <2>5, <3>1, <3>2
  <2>7. b * (t * a) < b * (W * (x + 1))
    <3>1. t * a \in Nat /\ W * (x + 1) \in Nat
      OBVIOUS
    <3>2. \A k, l \in Nat : k < l => b * k < b * l
      BY <2>6
    <3>3. QED
      BY <2>5, <3>1, <3>2
  <2>8. a * (W * y) <= a * (t * b)
    <3>1. W * y \in Nat /\ t * b \in Nat
      OBVIOUS
    <3>2. \A k, l \in Nat : k <= l => a * k <= a * l
      OBVIOUS
    <3>3. QED
      BY <2>5, <3>1, <3>2
  <2>9. b * (t * a) = a * (t * b) /\ b * (W * (x + 1)) = W * (b * (x + 1)) /\ a * (W * y) = W * (a * y)
    OBVIOUS
  <2>10. b * (x + 1) \in Nat /\ a * y \in Nat /\ a * (W * y) \in Nat /\ a * (t * b) \in Nat
         /\ b * (W * (x + 1)) \in Nat
    OBVIOUS
  <2>11. W * (a * y) < W * (b * (x + 1))
    BY <2>7, <2>8, <2>9, <2>10
  <2>12. \A k, l \in Nat : W * k < W * l => k < l
    OBVIOUS
  <2>13. a * y < b * (x + 1)
    BY <2>10, <2>11, <2>12
  <2>14. QED
    BY <2>1, <2>2, <2>3, <2>4, <2>10, <2>13
<1>5. QED
  BY <1>1, <1>4 DEF Fair

\* The floors of the quotas never exceed what is given away, and leave fewer points of
\* it than there are shares (the subtraction and the debug_assert of
\* SourcePrefix::allocation), for all weights, zeroes included, that are not all zero.
THEOREM FloorsAlmostSum ==
  ASSUME NEW w \in Seq(Nat), Total(w) # 0, NEW t \in Nat
  PROVE  Total(Floors(t, w)) <= t /\ t - Total(Floors(t, w)) < Len(w)
<1>1. PICK c : c = Floors(t, w)
  OBVIOUS
<1>2. PICK W \in Nat \ {0} : W = Total(w)
  BY TotalNat
<1>3. PICK n \in Nat : n = Len(w)
  BY WeightsFacts
<1>4. c \in Seq(Nat) /\ Len(c) = n /\ \A i \in 1..n : W * c[i] <= t * w[i] /\ t * w[i] < W * c[i] + W
  BY <1>1, <1>2, <1>3, FloorsAreQuotas
<1> DEFINE T == {k \in Nat : /\ W * Cumulative(c, k) <= t * Cumulative(w, k)
                             /\ k # 0 => t * Cumulative(w, k) < W * (Cumulative(c, k) + k)}
<1>5. 0 \in T
  BY <1>3, <1>4, CumulativeIs
<1>6. ASSUME NEW k \in 0..(n - 1), k \in T PROVE k + 1 \in T
  <2>1. k + 1 \in 1..n /\ k \in 0..n /\ k + 1 \in Nat /\ (k + 1) - 1 = k
    BY <1>3
  <2>2. PICK x \in Nat : x = c[k + 1]
    BY <1>4, <2>1, WeightsFacts
  <2>3. PICK a \in Nat : a = w[k + 1]
    BY <1>3, <2>1, WeightsFacts
  <2>4. PICK X \in Nat : X = Cumulative(c, k)
    BY <1>4, <2>1, CumulativeNat
  <2>5. PICK A \in Nat : A = Cumulative(w, k)
    BY <1>3, <2>1, CumulativeNat
  <2>6. Cumulative(c, k + 1) = X + x
    BY <1>3, <1>4, <2>1, <2>2, <2>4, CumulativeIs
  <2>7. Cumulative(w, k + 1) = A + a
    BY <1>3, <1>4, <2>1, <2>3, <2>5, CumulativeIs
  <2>8. W * x <= t * a /\ t * a < W * x + W
    BY <1>4, <2>1, <2>2, <2>3
  <2>9. W * X <= t * A /\ (k # 0 => t * A < W * (X + k)) /\ (k = 0 => A = 0 /\ X = 0)
    BY <1>3, <1>4, <1>6, <2>4, <2>5, CumulativeIs
  <2>10. W * (X + x) <= t * (A + a)
    <3>1. W * (X + x) = W * X + W * x /\ t * (A + a) = t * A + t * a
      OBVIOUS
    <3>2. W * X \in Nat /\ W * x \in Nat /\ t * A \in Nat /\ t * a \in Nat
      OBVIOUS
    <3>3. QED
      BY <2>8, <2>9, <3>1, <3>2
  <2>11. t * (A + a) < W * ((X + x) + (k + 1))
    <3>1. k \in Nat
      BY <2>1
    <3>2. W * ((X + x) + (k + 1)) = (W * (X + k)) + (W * x + W) /\ t * (A + a) = t * A + t * a
      BY <3>1
    <3>3. W * (X + k) \in Nat /\ W * x \in Nat /\ t * A \in Nat /\ t * a \in Nat
      BY <3>1
    <3>4. k = 0 => t * A = 0 /\ W * (X + k) = 0
      BY <2>9
    <3>5. t * A <= W * (X + k)
      BY <2>9, <3>3, <3>4
    <3>6. QED
      BY <2>8, <3>2, <3>3, <3>5
  <2>12. QED
    BY <2>1, <2>6, <2>7, <2>10, <2>11
<1> HIDE DEF T
<1>7. n \in T
  BY <1>3, <1>5, <1>6, UpTo
<1>8. PICK C \in Nat : C = Total(c)
  BY <1>4, TotalNat
<1>9. W * C <= t * W /\ (n # 0 => t * W < W * (C + n))
  BY <1>2, <1>3, <1>4, <1>7, <1>8 DEF T, Total
<1>10. n # 0
  <2>1. n = 0 => W = 0
    BY <1>2, <1>3, CumulativeIs DEF Total
  <2>2. QED
    BY <2>1
<1>11. \A k, l \in Nat : (W * k <= l * W => k <= l) /\ (l * W < W * k => l < k)
  OBVIOUS
<1>12. C <= t /\ t < C + n
  BY <1>9, <1>10, <1>11
<1>13. QED
  BY <1>1, <1>3, <1>8, <1>12

LEMMA AheadIsTransitive ==
  ASSUME NEW w \in Seq(Nat), NEW c \in Seq(Nat), Len(c) = Len(w),
         NEW i \in 1..Len(w), NEW j \in 1..Len(w), NEW k \in 1..Len(w), i < k,
         Ahead(c, w, i, j), Ahead(c, w, j, k)
  PROVE  Ahead(c, w, i, k)
<1>1. PICK a \in Nat, b \in Nat, d \in Nat : a = w[i] /\ b = w[j] /\ d = w[k]
  BY WeightsFacts
<1>2. c[i] + 1 \in Nat \ {0} /\ c[j] + 1 \in Nat \ {0} /\ c[k] + 1 \in Nat \ {0}
  <2>1. c[i] \in Nat /\ c[j] \in Nat /\ c[k] \in Nat
    BY WeightsFacts
  <2>2. \A m \in Nat : m + 1 \in Nat \ {0}
    OBVIOUS
  <2>3. QED
    BY <2>1, <2>2
<1>3. PICK x \in Nat \ {0} : x = c[i] + 1
  BY <1>2
<1>4. PICK y \in Nat \ {0} : y = c[j] + 1
  BY <1>2
<1>5. PICK z \in Nat \ {0} : z = c[k] + 1
  BY <1>2
<1>6. /\ b * x > a * y \/ b * x = a * y
      /\ d * y > b * z \/ d * y = b * z
  BY <1>1, <1>3, <1>4, <1>5 DEF Ahead
<1>7. /\ a * y \in Nat /\ b * x \in Nat /\ d * y \in Nat /\ b * z \in Nat /\ d * x \in Nat /\ a * z \in Nat
  OBVIOUS
<1>8. d * x >= a * z
  <2>1. b * x >= a * y /\ d * y >= b * z
    BY <1>6, <1>7
  <2>2. QED
    BY <2>1, QuotientsOrder
<1>9. d * x > a * z \/ d * x = a * z
  BY <1>7, <1>8
<1>10. QED
  BY <1>1, <1>3, <1>5, <1>9 DEF Ahead

LEMMA OneIsAhead ==
  ASSUME NEW w \in Seq(Nat), NEW c \in Seq(Nat), Len(c) = Len(w),
         NEW i \in 1..Len(w), NEW j \in 1..Len(w), i # j
  PROVE  Ahead(c, w, i, j) \/ Ahead(c, w, j, i)
<1>1. PICK a \in Nat, b \in Nat, x \in Nat, y \in Nat : a = w[i] /\ b = w[j] /\ x = c[i] /\ y = c[j]
  BY WeightsFacts
<1>2. b * (x + 1) \in Nat /\ a * (y + 1) \in Nat
  OBVIOUS
<1>3. i \in Nat /\ j \in Nat
  OBVIOUS
<1>4. QED
  BY <1>1, <1>2, <1>3 DEF Ahead

LEMMA WinnerIsAhead ==
  ASSUME NEW w \in Seq(Nat), NEW c \in Seq(Nat), Len(c) = Len(w), Len(w) # 0
  PROVE  /\ Winner(c, w) \in 1..Len(w)
         /\ \A i \in 1..Len(w) : i # Winner(c, w) => Ahead(c, w, i, Winner(c, w))
<1>1. PICK n \in Nat : n = Len(w)
  BY WeightsFacts
<1> DEFINE Best(j, k) == j \in 1..k /\ \A i \in 1..k : i # j => Ahead(c, w, i, j)
           T == {k \in Nat : k # 0 => \E j : Best(j, k)}
<1>2. 0 \in T
  OBVIOUS
<1>3. ASSUME NEW k \in 0..(n - 1), k \in T PROVE k + 1 \in T
  <2>1. k \in Nat /\ k + 1 \in 1..n /\ 1..(k + 1) = 1..k \cup {k + 1} /\ 1..k \subseteq 1..n
    BY <1>1
  <2>2. ASSUME k = 0 PROVE Best(k + 1, k + 1)
    BY <2>1, <2>2
  <2>3. ASSUME NEW j, k # 0, Best(j, k), Ahead(c, w, j, k + 1) PROVE Best(k + 1, k + 1)
    <3>1. j \in 1..n /\ j < k + 1
      BY <2>1, <2>3
    <3>2. ASSUME NEW i \in 1..k PROVE Ahead(c, w, i, k + 1)
      <4>1. CASE i = j
        BY <2>3, <4>1
      <4>2. CASE i # j
        <5>1. Ahead(c, w, i, j) /\ i \in 1..n /\ i < k + 1
          BY <2>1, <2>3, <3>2, <4>2
        <5>2. QED
          BY <1>1, <2>1, <2>3, <3>1, <5>1, AheadIsTransitive
      <4>3. QED
        BY <4>1, <4>2
    <3>3. QED
      BY <2>1, <3>2
  <2>4. ASSUME NEW j, Best(j, k), Ahead(c, w, k + 1, j) PROVE Best(j, k + 1)
    BY <2>1, <2>4
  <2>5. ASSUME NEW j, Best(j, k) PROVE Ahead(c, w, j, k + 1) \/ Ahead(c, w, k + 1, j)
    <3>1. j \in 1..n /\ j # k + 1
      BY <2>1, <2>5
    <3>2. QED
      BY <1>1, <2>1, <3>1, OneIsAhead
  <2>6. k # 0 => \E j : Best(j, k)
    BY <1>3
  <2>7. \E j : Best(j, k + 1)
    <3> HIDE DEF Best
    <3>1. QED
      BY <2>2, <2>3, <2>4, <2>5, <2>6
  <2> HIDE DEF Best
  <2>8. k + 1 \in Nat
    BY <2>1
  <2>9. QED
    BY <2>7, <2>8
<1> HIDE DEF T
<1>4. n \in T
  BY <1>2, <1>3, UpTo
<1>5. PICK j : Best(j, n)
  BY <1>1, <1>4 DEF T
<1>6. DOMAIN w = 1..n
  BY <1>1, WeightsFacts
<1>7. \A i \in DOMAIN w \ {j} : Ahead(c, w, i, j)
  BY <1>5, <1>6
<1>8. Winner(c, w) \in DOMAIN w /\ \A i \in DOMAIN w \ {Winner(c, w)} : Ahead(c, w, i, Winner(c, w))
  BY <1>5, <1>6, <1>7 DEF Winner
<1>9. QED
  BY <1>1, <1>6, <1>8

\* A seat for the winner keeps an apportionment fair.
LEMMA SeatedFacts ==
  ASSUME NEW w \in Seq(Nat), NEW c \in Seq(Nat), Len(c) = Len(w), Len(w) # 0
  PROVE  /\ Seated(c, w) \in Seq(Nat) /\ Len(Seated(c, w)) = Len(w)
         /\ Total(Seated(c, w)) = Total(c) + 1
         /\ Fair(c, w) => Fair(Seated(c, w), w)
<1>1. PICK k : k = Winner(c, w)
  OBVIOUS
<1>2. k \in 1..Len(w) /\ \A i \in 1..Len(w) : i # k => Ahead(c, w, i, k)
  BY <1>1, WinnerIsAhead
<1>3. PICK d : d = Seated(c, w)
  OBVIOUS
<1>4. DOMAIN w = 1..Len(w) /\ Len(w) \in Nat /\ \A i \in 1..Len(w) : c[i] \in Nat /\ w[i] \in Nat
  BY WeightsFacts
<1>5. d = [i \in 1..Len(w) |-> c[i] + (IF i = k THEN 1 ELSE 0)]
  BY <1>1, <1>3, <1>4 DEF Seated
<1>6. /\ d \in [1..Len(w) -> Nat]
      /\ d[k] = c[k] + 1 /\ \A i \in 1..Len(w) : i # k => d[i] = c[i]
  <2>1. \A i \in 1..Len(w) : d[i] = c[i] + (IF i = k THEN 1 ELSE 0)
    BY <1>5
  <2>2. d[k] = c[k] + 1 /\ \A i \in 1..Len(w) : i # k => d[i] = c[i]
    BY <1>2, <1>4, <2>1
  <2>3. \A i \in 1..Len(w) : c[i] + (IF i = k THEN 1 ELSE 0) \in Nat
    BY <1>4
  <2>4. d \in [1..Len(w) -> Nat]
    BY ONLY <1>5, <2>3
  <2>5. QED
    BY ONLY <2>2, <2>4
<1>7. d \in Seq(Nat) /\ Len(d) = Len(w)
  <2>1. PICK n \in Nat : n = Len(w)
    BY <1>4
  <2>2. d \in [1..n -> Nat]
    BY <1>6, <2>1
  <2>3. d \in Seq(Nat)
    BY ONLY <2>1, <2>2, SeqDef
  <2>4. DOMAIN d = 1..n
    BY ONLY <2>2
  <2>5. Len(d) = n
    BY ONLY <2>1, <2>3, <2>4, LenProperties
  <2>6. QED
    BY ONLY <2>1, <2>3, <2>5
<1>8. Total(d) = Total(c) + 1
  BY <1>2, <1>6, <1>7, SumOfOneMore
<1>9. ASSUME Fair(c, w), NEW i \in 1..Len(w), NEW j \in 1..Len(w), i # j, d[j] # 0
      PROVE  \/ w[j] * (d[i] + 1) > w[i] * d[j]
             \/ w[j] * (d[i] + 1) = w[i] * d[j] /\ j > i
  <2>1. CASE j = k
    <3>1. d[i] = c[i] /\ d[j] = c[j] + 1 /\ Ahead(c, w, i, j)
      BY <1>2, <1>6, <1>9, <2>1
    <3>2. QED
      BY <3>1 DEF Ahead
  <2>2. CASE i = k
    <3>1. d[i] = c[i] + 1 /\ d[j] = c[j]
      BY <1>6, <1>9, <2>2
    <3>2. PICK a \in Nat, b \in Nat, x \in Nat, y \in Nat \ {0} : a = w[i] /\ b = w[j] /\ x = c[i] /\ y = c[j]
      BY <1>4, <1>9, <3>1
    <3>3. b * (x + 1) > a * y \/ (b * (x + 1) = a * y /\ j > i)
      BY <1>9, <3>1, <3>2 DEF Fair
    <3>4. b * (x + 1) \in Nat /\ a * y \in Nat /\ b * ((x + 1) + 1) = b * (x + 1) + b
      OBVIOUS
    <3>5. b * ((x + 1) + 1) >= a * y
      BY <3>3, <3>4
    <3>6. b = 0 => b * (x + 1) = 0 /\ b * ((x + 1) + 1) = 0
      OBVIOUS
    <3>7. b # 0 => b * ((x + 1) + 1) > a * y
      BY <3>3, <3>4
    <3>8. b = 0 => b * ((x + 1) + 1) = a * y /\ j > i
      BY <3>3, <3>4, <3>6
    <3>9. QED
      BY <3>1, <3>2, <3>7, <3>8
  <2>3. CASE i # k /\ j # k
    <3>1. d[i] = c[i] /\ d[j] = c[j]
      BY <1>6, <2>3
    <3>2. QED
      BY <1>9, <3>1 DEF Fair
  <2>4. QED
    BY <2>1, <2>2, <2>3
<1>10. QED
  BY <1>3, <1>7, <1>8, <1>9 DEF Fair

\* The seats given one by one, from the floors on, as a function.
SeatsBy(f, c, w, n) == f = [k \in 0..n |-> IF k = 0 THEN c ELSE Seated(f[k - 1], w)]

LEMMA SeatsByFacts ==
  ASSUME NEW f, NEW c, NEW w, NEW n \in Nat, SeatsBy(f, c, w, n)
  PROVE  f[0] = c /\ \A k \in 1..n : f[k] = Seated(f[k - 1], w)
<1> DEFINE F(k) == IF k = 0 THEN c ELSE Seated(f[k - 1], w)
<1>1. f = [k \in 0..n |-> F(k)]
  BY DEF SeatsBy
<1> HIDE DEF F
<1>2. \A k \in 0..n : f[k] = F(k)
  BY <1>1
<1>3. QED
  BY <1>2 DEF F

LEMMA SeatsExist ==
  ASSUME NEW c, NEW w, NEW n \in Nat
  PROVE  \E f : SeatsBy(f, c, w, n)
<1> DEFINE T == {m \in Nat : \E f : SeatsBy(f, c, w, m)}
<1>1. 0 \in T
  <2> DEFINE f == [i \in 0..0 |-> c]
  <2>1. SeatsBy(f, c, w, 0)
    BY DEF SeatsBy
  <2>2. QED
    BY <2>1
<1>2. ASSUME NEW m \in 0..(n - 1), m \in T
      PROVE  m + 1 \in T
  <2>1. PICK f : SeatsBy(f, c, w, m)
    BY <1>2
  <2>2. m \in Nat /\ f[0] = c /\ \A i \in 1..m : f[i] = Seated(f[i - 1], w)
    BY <2>1, SeatsByFacts
  <2> DEFINE g == [i \in 0..(m + 1) |-> IF i = m + 1 THEN Seated(f[m], w) ELSE f[i]]
             h == [i \in 0..(m + 1) |-> IF i = 0 THEN c ELSE Seated(g[i - 1], w)]
  <2>3. g[0] = c /\ h[0] = c
    BY <2>2
  <2>4. g[m + 1] = Seated(f[m], w) /\ h[m + 1] = Seated(f[m], w)
    BY <2>2
  <2>5. ASSUME NEW i \in 1..m PROVE g[i] = h[i]
    <3>1. g[i] = f[i] /\ g[i - 1] = f[i - 1] /\ h[i] = Seated(g[i - 1], w)
      BY <2>2
    <3>2. QED
      BY <2>2, <3>1
  <2>6. \A i \in 0..(m + 1) : g[i] = h[i]
    <3> HIDE DEF g, h
    <3>1. QED
      BY <2>2, <2>3, <2>4, <2>5
  <2>7. g = h
    BY <2>6
  <2>8. SeatsBy(g, c, w, m + 1)
    BY <2>7 DEF SeatsBy
  <2>9. QED
    BY <2>2, <2>8
<1> HIDE DEF T
<1>3. n \in T
  BY <1>1, <1>2, UpTo
<1>4. QED
  BY <1>3 DEF T

LEMMA NothingFacts ==
  ASSUME NEW w \in Seq(Nat)
  PROVE  Nothing(w) \in Seq(Nat) /\ Len(Nothing(w)) = Len(w) /\ \A i \in 1..Len(w) : Nothing(w)[i] = 0
<1>1. PICK n \in Nat : n = Len(w) /\ DOMAIN w = 1..n
  BY WeightsFacts
<1>2. Nothing(w) = [i \in 1..n |-> 0]
  BY <1>1 DEF Nothing
<1>3. Nothing(w) \in [1..n -> Nat]
  BY <1>2
<1>4. QED
  BY <1>1, <1>2, <1>3, SeqDef, LenProperties

\* The shares of a prefix add up to exactly the points that are asked for, and none is
\* given to a share while another has a higher quotient (SourcePrefix::allocation: the
\* floors and then the winners, one by one).
THEOREM PrefixesAreExact ==
  ASSUME NEW w \in Seq(Nat), Total(w) # 0, NEW t \in Nat
  PROVE  /\ Prefix(t, w) \in Seq(Nat) /\ Len(Prefix(t, w)) = Len(w)
         /\ Total(Prefix(t, w)) = t
         /\ Fair(Prefix(t, w), w)
<1>1. PICK c : c = Floors(t, w)
  OBVIOUS
<1>2. /\ c \in Seq(Nat) /\ Len(c) = Len(w) /\ Total(c) \in Nat /\ Total(c) <= t
      /\ t - Total(c) < Len(w) /\ Fair(c, w)
  BY <1>1, FloorsAreQuotas, FloorsAreFair, FloorsAlmostSum, TotalNat
<1>3. PICK n \in Nat : n = t - Total(c)
  BY <1>2
<1>4. Len(w) # 0
  BY <1>2, <1>3
<1>5. PICK f : SeatsBy(f, c, w, n) /\ Prefix(t, w) = f[n]
  <2> DEFINE seats == CHOOSE f : SeatsBy(f, c, w, n)
  <2>1. SeatsBy(seats, c, w, n)
    BY SeatsExist
  <2>2. Prefix(t, w) = seats[n]
    BY <1>1, <1>3 DEF Prefix, SeatsBy
  <2>3. QED
    BY <2>1, <2>2
<1> DEFINE Good(k) == /\ f[k] \in Seq(Nat) /\ Len(f[k]) = Len(w) /\ Fair(f[k], w)
                      /\ Total(f[k]) = Total(c) + k
           T == {k \in Nat : Good(k)}
<1>6. 0 \in T
  BY <1>2, <1>5, SeatsByFacts
<1>7. ASSUME NEW k \in 0..(n - 1), k \in T PROVE k + 1 \in T
  <2>1. Good(k)
    BY <1>7
  <2>2. k \in Nat /\ k + 1 \in 1..n /\ (k + 1) - 1 = k
    OBVIOUS
  <2>3. f[k + 1] = Seated(f[k], w)
    BY <1>5, <2>2, SeatsByFacts
  <2>4. Good(k + 1)
    <3>1. /\ Seated(f[k], w) \in Seq(Nat) /\ Len(Seated(f[k], w)) = Len(w)
          /\ Total(Seated(f[k], w)) = Total(f[k]) + 1 /\ Fair(Seated(f[k], w), w)
      BY <1>4, <2>1, SeatedFacts
    <3>2. (Total(c) + k) + 1 = Total(c) + (k + 1)
      BY <1>2, <2>2
    <3>3. QED
      BY <2>1, <2>3, <3>1, <3>2
  <2> HIDE DEF Good
  <2>5. QED
    BY <2>2, <2>4
<1> HIDE DEF T
<1>8. n \in T
  BY <1>6, <1>7, UpTo
<1>9. Good(n)
  BY <1>8 DEF T
<1>10. Total(c) + n = t
  BY <1>2, <1>3
<1>11. QED
  BY <1>5, <1>9, <1>10

\* Of two fair apportionments, the one of more seats has no fewer of them anywhere.
LEMMA FairGrows ==
  ASSUME NEW w \in Seq(Nat), NEW c \in Seq(Nat), NEW d \in Seq(Nat),
         Len(c) = Len(w), Len(d) = Len(w), Fair(c, w), Fair(d, w), Total(c) <= Total(d)
  PROVE  \A i \in 1..Len(w) : c[i] <= d[i]
<1>1. SUFFICES ASSUME NEW j \in 1..Len(w), ~(c[j] <= d[j]) PROVE FALSE
  OBVIOUS
<1>2. \A i \in 1..Len(w) : c[i] \in Nat /\ d[i] \in Nat /\ w[i] \in Nat
  BY WeightsFacts
<1>3. PICK i \in 1..Len(w) : c[i] < d[i]
  <2>1. SUFFICES ASSUME \A i \in 1..Len(w) : ~(c[i] < d[i]) PROVE FALSE
    OBVIOUS
  <2>2. ASSUME NEW i \in 1..Len(w) PROVE d[i] <= c[i]
    <3>1. c[i] \in Nat /\ d[i] \in Nat
      BY <1>2
    <3>2. ~(c[i] < d[i])
      BY <2>1
    <3>3. QED
      BY SMTT(20), <3>1, <3>2
  <2>3. d[j] < c[j]
    BY <1>1, <1>2
  <2>4. Total(d) < Total(c)
    BY <2>2, <2>3, SumsCompare
  <2>5. Total(d) \in Nat /\ Total(c) \in Nat
    BY TotalNat
  <2>6. QED
    BY <2>4, <2>5
<1>4. PICK a \in Nat, b \in Nat, x \in Nat, y \in Nat : a = w[i] /\ b = w[j] /\ x = c[i] /\ y = c[j]
  BY <1>2
<1>5. PICK u \in Nat, v \in Nat : u = d[i] /\ v = d[j]
  BY <1>2
<1>6. x + 1 <= u /\ v + 1 <= y /\ i # j /\ y # 0 /\ u # 0
  <2>1. x < u /\ ~(y <= v)
    BY <1>1, <1>3, <1>4, <1>5
  <2>2. i # j
    BY <1>1, <1>2, <1>3
  <2>3. QED
    BY <2>1, <2>2
<1>7. b * (x + 1) > a * y \/ (b * (x + 1) = a * y /\ j > i)
  BY <1>4, <1>6 DEF Fair
<1>8. a * (v + 1) > b * u \/ (a * (v + 1) = b * u /\ i > j)
  BY <1>4, <1>5, <1>6 DEF Fair
<1>9. b * (x + 1) <= b * u
  <2>1. \A k, l \in Nat : k <= l => b * k <= b * l
    OBVIOUS
  <2>2. QED
    BY <1>6, <2>1
<1>10. a * (v + 1) <= a * y
  <2>1. \A k, l \in Nat : k <= l => a * k <= a * l
    OBVIOUS
  <2>2. QED
    BY <1>6, <2>1
<1>11. PICK p \in Nat, q \in Nat, r \in Nat, s \in Nat :
         p = b * (x + 1) /\ q = b * u /\ r = a * (v + 1) /\ s = a * y
  OBVIOUS
<1>12. /\ p > s \/ (p = s /\ j > i)
       /\ r > q \/ (r = q /\ i > j)
       /\ p <= q /\ r <= s
  BY <1>7, <1>8, <1>9, <1>10, <1>11
<1>13. QED
  BY SMTT(20), <1>12

\* However the points of a source are asked for, one by one or many at once, no
\* share of it is asked back what it gave: the first m points of it are among its
\* first n (SourcePrefix::credit subtracts the allocation of what was paid from that
\* of what is, share by share, and counts on it).
THEOREM PrefixesAreNested ==
  ASSUME NEW w \in Seq(Nat), Total(w) # 0
  PROVE  \A m, n \in Nat : m <= n => \A i \in 1..Len(w) : Prefix(m, w)[i] <= Prefix(n, w)[i]
<1>1. SUFFICES ASSUME NEW m \in Nat, NEW n \in Nat, m <= n
               PROVE  \A i \in 1..Len(w) : Prefix(m, w)[i] <= Prefix(n, w)[i]
  OBVIOUS
<1>2. Total(Prefix(m, w)) <= Total(Prefix(n, w))
  BY <1>1, PrefixesAreExact
<1>3. QED
  BY <1>2, PrefixesAreExact, FairGrows

\* Nor does a share give more than its weight, while no more is asked than they all have
\* (SourceBlock::consume takes its slices by such prefixes of their originals).
THEOREM PrefixesStayWithin ==
  ASSUME NEW w \in Seq(Nat), Total(w) # 0
  PROVE  \A n \in 0..Total(w) : \A i \in 1..Len(w) : Prefix(n, w)[i] <= w[i]
<1>1. SUFFICES ASSUME NEW n \in 0..Total(w)
               PROVE  \A i \in 1..Len(w) : Prefix(n, w)[i] <= w[i]
  OBVIOUS
<1>2. Fair(w, w)
  <2>1. ASSUME NEW i \in 1..Len(w), NEW j \in 1..Len(w), w[j] # 0 PROVE w[j] * (w[i] + 1) > w[i] * w[j]
    <3>1. PICK a \in Nat, b \in Nat : a = w[i] /\ b = w[j] /\ b # 0
      BY <2>1, WeightsFacts
    <3>2. PICK p \in Nat : p = a * b
      OBVIOUS
    <3>3. b * (a + 1) = p + b
      BY <3>2
    <3>4. p + b > p
      BY <3>1
    <3>5. b * (a + 1) > a * b
      BY <3>2, <3>3, <3>4
    <3>6. QED
      BY <3>1, <3>5
  <2>2. QED
    BY <2>1 DEF Fair
<1>3. n \in Nat /\ n <= Total(w)
  BY TotalNat
<1>4. Total(Prefix(n, w)) <= Total(w)
  BY <1>3, PrefixesAreExact
<1>5. QED
  BY <1>2, <1>3, <1>4, PrefixesAreExact, FairGrows

----------------------------------------------------------------------------
(***************************************************************************)
(* Proportional shares, and the slices of a block.                         *)
(***************************************************************************)

LEMMA WithinTotal ==
  ASSUME NEW w \in Seq(Nat), NEW k \in 1..Len(w)
  PROVE  w[k] <= Total(w)
<1> DEFINE T == {i \in Nat : k <= i => w[k] <= Cumulative(w, i)}
<1>1. 0 \in T
  BY WeightsFacts
<1>2. ASSUME NEW i \in 0..(Len(w) - 1), i \in T PROVE i + 1 \in T
  <2>1. /\ i + 1 \in 1..Len(w) /\ i \in 0..Len(w) /\ i + 1 \in Nat /\ (i + 1) - 1 = i
        /\ w[i + 1] \in Nat /\ w[k] \in Nat
    BY WeightsFacts
  <2>2. Cumulative(w, i + 1) = Cumulative(w, i) + w[i + 1] /\ Cumulative(w, i) \in Nat
    BY <2>1, WeightsFacts, CumulativeIs, CumulativeNat
  <2>3. k <= i + 1 => w[k] <= Cumulative(w, i + 1)
    BY <1>2, <2>1, <2>2
  <2>4. QED
    BY <2>1, <2>3
<1> HIDE DEF T
<1>3. Len(w) \in T
  BY <1>1, <1>2, UpTo, WeightsFacts
<1>4. QED
  BY <1>3, WeightsFacts DEF T, Total

LEMMA TotalOfAppend ==
  ASSUME NEW o \in Seq(Nat), NEW x \in Nat
  PROVE  /\ Append(o, x) \in Seq(Nat) /\ Len(Append(o, x)) = Len(o) + 1
         /\ Total(Append(o, x)) = Total(o) + x
<1>1. PICK a : a = Append(o, x)
  OBVIOUS
<1>2. PICK n \in Nat : n = Len(o)
  BY WeightsFacts
<1>3. /\ a \in Seq(Nat) /\ Len(a) = n + 1 /\ a[n + 1] = x
      /\ \A i \in 1..n : a[i] = o[i]
  BY <1>1, <1>2, AppendProperties
<1>4. Cumulative(a, n) = Cumulative(o, n)
  <2>1. Len(a) \in Nat /\ Len(o) \in Nat /\ n <= Len(a) /\ n <= Len(o)
    BY <1>2, <1>3
  <2>2. QED
    BY <1>3, <2>1, SumsAgree
<1>5. Cumulative(a, n + 1) = Cumulative(a, n) + x
  <2>1. Len(a) \in Nat /\ n + 1 \in 1..Len(a) /\ (n + 1) - 1 = n
    BY <1>3
  <2>2. Cumulative(a, n + 1) = Cumulative(a, (n + 1) - 1) + a[n + 1]
    BY <2>1, CumulativeIs
  <2>3. QED
    BY <1>3, <2>1, <2>2
<1>6. QED
  BY <1>1, <1>2, <1>3, <1>4, <1>5 DEF Total

LEMMA TotalOfEmpty == ASSUME NEW w, Len(w) = 0 PROVE Total(w) = 0
BY CumulativeIs DEF Total

LEMMA TotalOfOne ==
  ASSUME NEW w \in Seq(Nat), Len(w) = 1
  PROVE  Total(w) = w[1]
<1>1. Cumulative(w, 1) = Cumulative(w, 0) + w[1] /\ Cumulative(w, 0) = 0 /\ w[1] \in Nat
  BY CumulativeIs, WeightsFacts
<1>2. QED
  BY <1>1 DEF Total

\* Proportional shares of an amount are naturals that sum to it.
LEMMA ProportionalFacts ==
  ASSUME NEW w \in Seq(Nat), NEW a \in Nat
  PROVE  /\ Proportional(a, w) \in Seq(Nat) /\ Len(Proportional(a, w)) = Len(w)
         /\ Total(Proportional(a, w)) = IF Total(w) = 0 THEN 0 ELSE a
<1>1. PICK n \in Nat : n = Len(w) /\ DOMAIN w = 1..n
  BY WeightsFacts
<1>2. CASE Total(w) = 0
  <2>1. Proportional(a, w) = Nothing(w)
    BY <1>2 DEF Proportional
  <2>2. Nothing(w) \in Seq(Nat) /\ Len(Nothing(w)) = n /\ \A i \in 1..n : Nothing(w)[i] = 0
    BY <1>1, NothingFacts
  <2> DEFINE T == {i \in Nat : Cumulative(Nothing(w), i) = 0}
  <2>3. 0 \in T
    BY <2>2, CumulativeIs
  <2>4. ASSUME NEW i \in 0..(n - 1), i \in T PROVE i + 1 \in T
    <3>1. i + 1 \in 1..n /\ (i + 1) - 1 = i /\ i + 1 \in Nat
      OBVIOUS
    <3>2. Cumulative(Nothing(w), i + 1) = 0 + 0
      BY <2>2, <2>4, <3>1, CumulativeIs
    <3>3. QED
      BY <3>1, <3>2
  <2> HIDE DEF T
  <2>5. n \in T
    BY <2>3, <2>4, UpTo
  <2>6. QED
    BY <1>1, <1>2, <2>1, <2>2, <2>5 DEF T, Total
<1>3. CASE Total(w) # 0
  <2>1. PICK W \in Nat : W = Total(w) /\ W # 0
    BY <1>3, TotalNat
  <2> DEFINE D(i) == (a * Cumulative(w, i)) \div W
  <2>2. PICK p : p = Proportional(a, w)
    OBVIOUS
  <2>3. p = [i \in 1..n |-> D(i) - D(i - 1)]
    BY <1>1, <1>3, <2>1, <2>2 DEF Proportional
  <2>4. ASSUME NEW i \in 0..n PROVE D(i) \in Nat
    <3>1. PICK c \in Nat : c = Cumulative(w, i)
      BY <1>1, CumulativeNat
    <3>2. PICK x \in Nat : x = a * c
      OBVIOUS
    <3>3. x \div W \in Nat
      BY <2>1, DivFacts
    <3>4. QED
      BY <3>1, <3>2, <3>3
  <2>5. ASSUME NEW i \in 1..n PROVE D(i - 1) <= D(i)
    <3>1. /\ i \in 0..n /\ i - 1 \in 0..n /\ w[i] \in Nat
      BY <1>1, WeightsFacts
    <3>2. PICK b \in Nat : b = Cumulative(w, i - 1)
      BY <1>1, <3>1, CumulativeNat
    <3>3. PICK c \in Nat : c = Cumulative(w, i)
      BY <1>1, <3>1, CumulativeNat
    <3>4. b <= c
      BY <1>1, <3>1, <3>2, <3>3, CumulativeIs
    <3>5. PICK x \in Nat : x = a * b
      OBVIOUS
    <3>6. PICK y \in Nat : y = a * c
      OBVIOUS
    <3>7. x <= y
      BY <3>4, <3>5, <3>6
    <3>8. PICK q \in Nat : q = x \div W
      BY <2>1, DivFacts
    <3>9. PICK r \in Nat : r = y \div W
      BY <2>1, DivFacts
    <3>10. W * q <= x /\ y < W * r + W
      BY <2>1, <3>8, <3>9, DivFacts
    <3>11. q <= r
      <4>1. SUFFICES ASSUME q >= r + 1 PROVE FALSE
        OBVIOUS
      <4>2. W * q >= W * (r + 1)
        BY <4>1
      <4>3. W * (r + 1) = W * r + W
        OBVIOUS
      <4>4. QED
        BY <3>7, <3>10, <4>2, <4>3
    <3>12. QED
      BY <3>2, <3>3, <3>5, <3>6, <3>8, <3>9, <3>11
  <2>6. D(0) = 0
    <3>1. Cumulative(w, 0) = 0
      BY <1>1, CumulativeIs
    <3>2. a * 0 = 0 /\ 0 \div W = 0
      BY <2>1
    <3>3. QED
      BY <3>1, <3>2
  <2>7. D(n) = a
    <3>1. Cumulative(w, n) = W
      BY <1>1, <2>1 DEF Total
    <3>2. (a * W) \div W = a
      <4>1. PICK x \in Nat : x = a * W
        OBVIOUS
      <4>2. PICK q \in Nat : q = x \div W
        BY <2>1, DivFacts
      <4>3. W * q <= x /\ x < W * q + W
        BY <2>1, <4>2, DivFacts
      <4>4. W * q <= a * W /\ a * W < W * q + W
        BY <4>1, <4>3
      <4>5. ~(q >= a + 1) /\ ~(q + 1 <= a)
        <5>1. q >= a + 1 => W * q >= W * a + W
          OBVIOUS
        <5>2. q + 1 <= a => W * q + W <= W * a
          OBVIOUS
        <5>3. W * a = a * W /\ W * a \in Nat
          OBVIOUS
        <5>4. PICK wa \in Nat : wa = W * a
          OBVIOUS
        <5>5. PICK wq \in Nat : wq = W * q
          OBVIOUS
        <5>6. wq <= wa /\ wa < wq + W
          BY <4>4, <5>3, <5>4, <5>5
        <5>7. q >= a + 1 => wq >= wa + W
          BY <5>1, <5>4, <5>5
        <5>8. q + 1 <= a => wq + W <= wa
          BY <5>2, <5>4, <5>5
        <5>9. QED
          BY <2>1, <5>6, <5>7, <5>8
      <4>6. q = a
        BY <4>5
      <4>7. QED
        BY <4>1, <4>2, <4>6
    <3>3. QED
      BY <3>1, <3>2
  <2> HIDE DEF D
  <2>8. \A i \in 1..n : D(i) - D(i - 1) \in Nat
    <3>1. ASSUME NEW i \in 1..n PROVE D(i) - D(i - 1) \in Nat
      <4>1. i \in 0..n /\ i - 1 \in 0..n
        OBVIOUS
      <4>2. D(i) \in Nat /\ D(i - 1) \in Nat /\ D(i - 1) <= D(i)
        BY <2>4, <2>5, <4>1
      <4>3. QED
        BY <4>2
    <3>2. QED
      BY <3>1
  <2>9. p \in [1..n -> Nat]
    BY <2>3, <2>8
  <2>10. p \in Seq(Nat)
    BY <2>9, SeqDef
  <2>11. Len(p) = n
    BY <2>9, <2>10, LenProperties
  <2> DEFINE T == {i \in Nat : i <= n => Cumulative(p, i) = D(i)}
  <2>12. 0 \in T
    BY <2>6, <2>11, CumulativeIs
  <2>13. ASSUME NEW i \in 0..(n - 1), i \in T PROVE i + 1 \in T
    <3>1. i + 1 \in 1..n /\ i \in 0..n /\ i + 1 \in 0..n /\ (i + 1) - 1 = i /\ i + 1 \in Nat /\ i <= n
      OBVIOUS
    <3>2. Cumulative(p, i + 1) = Cumulative(p, i) + p[i + 1]
      BY <2>11, <3>1, CumulativeIs
    <3>3. p[i + 1] = D(i + 1) - D(i)
      BY <2>3, <3>1
    <3>4. D(i) \in Nat /\ D(i + 1) \in Nat
      BY <2>4, <3>1
    <3>5. Cumulative(p, i + 1) = D(i + 1)
      BY <2>13, <3>1, <3>2, <3>3, <3>4
    <3>6. QED
      BY <3>1, <3>5
  <2> HIDE DEF T
  <2>14. n \in T
    BY <2>12, <2>13, UpTo
  <2>15. Total(p) = a
    BY <2>7, <2>11, <2>14 DEF T, Total
  <2>16. QED
    BY <1>1, <1>3, <2>2, <2>10, <2>11, <2>15
<1>4. QED
  BY <1>2, <1>3

\* What the first n points of a block of these originals and this base take of every slice.
SlicesOf(o, base, n) ==
  IF Len(o) <= 1 THEN [i \in 1..Len(o) |-> (o[i] * n) \div (base + Total(o))]
  ELSE SubSeq(Prefix(n, Append(o, base)), 1, Len(o))

\* One slice takes the floor of its share, so that what it leaves fits the base.
LEMMA FloorFits ==
  ASSUME NEW x \in Nat, NEW base \in Nat, NEW n \in Nat, n <= base + x, base + x # 0
  PROVE  /\ (x * n) \div (base + x) \in Nat
         /\ (x * n) \div (base + x) <= x
         /\ (x * n) \div (base + x) <= n
         /\ n - (x * n) \div (base + x) <= base
<1>1. PICK W \in Nat : W = base + x
  OBVIOUS
<1>2. PICK y \in Nat : y = x * n
  OBVIOUS
<1>3. PICK c \in Nat : c = y \div W
  BY <1>1, DivFacts
<1>4. W * c <= y /\ y < W * c + W
  BY <1>1, <1>3, DivFacts
<1>5. PICK u \in Nat : u = W * c
  OBVIOUS
<1>6. c <= x
  <2>1. c >= x + 1 => W * c >= W * x + W
    OBVIOUS
  <2>2. x * n <= W * x
    <3>1. n <= W
      BY <1>1
    <3>2. QED
      BY <3>1
  <2>3. PICK v \in Nat : v = W * x
    OBVIOUS
  <2>4. u <= y /\ y <= v /\ (c >= x + 1 => u >= v + W) /\ W # 0
    BY <1>1, <1>2, <1>4, <1>5, <2>1, <2>2, <2>3
  <2>5. QED
    BY <2>4
<1>7. c <= n
  <2>1. c >= n + 1 => W * c >= W * n + W
    OBVIOUS
  <2>2. x * n <= W * n
    <3>1. x <= W
      BY <1>1
    <3>2. QED
      BY <3>1
  <2>3. PICK v \in Nat : v = W * n
    OBVIOUS
  <2>4. u <= y /\ y <= v /\ (c >= n + 1 => u >= v + W) /\ W # 0
    BY <1>1, <1>2, <1>4, <1>5, <2>1, <2>2, <2>3
  <2>5. QED
    BY <2>4
<1>8. n - c <= base
  <2>1. SUFFICES ASSUME n - c >= base + 1 PROVE FALSE
    OBVIOUS
  <2>2. PICK d \in Nat : d = W - n
    BY <1>1
  <2>3. n = W - d /\ c + 1 + d <= x
    BY <1>1, <2>1, <2>2
  <2>4. PICK e \in Nat : x = c + 1 + d + e
    <3>1. x - (c + 1 + d) \in Nat
      BY <2>3
    <3>2. QED
      BY <3>1
  \* W is at least x, so that d points fewer cost a slice of x at most d of its own.
  <2>5. x * d <= W * d
    <3>1. x <= W
      BY <1>1
    <3>2. QED
      BY <3>1
  <2>6. x * n = x * W - x * d
    BY <2>3
  <2>7. x * W = (c + 1 + d + e) * W
    BY <2>4
  <2>8. (c + 1 + d + e) * W = W * c + W + W * d + W * e
    OBVIOUS
  <2>9. PICK p \in Nat : p = x * d
    OBVIOUS
  <2>10. PICK q \in Nat : q = W * d
    OBVIOUS
  <2>11. PICK r \in Nat : r = W * e
    OBVIOUS
  <2>12. PICK s \in Nat : s = x * W
    OBVIOUS
  <2>13. s = u + W + q + r /\ y = s - p /\ p <= q /\ y < u + W
    BY <1>2, <1>4, <1>5, <2>5, <2>6, <2>7, <2>8, <2>9, <2>10, <2>11, <2>12
  <2>14. QED
    BY <2>13
<1>9. QED
  BY <1>1, <1>2, <1>3, <1>6, <1>7, <1>8

LEMMA FloorGrows ==
  ASSUME NEW x \in Nat, NEW W \in Nat \ {0}, x <= W, NEW m \in Nat, NEW n \in Nat, m <= n
  PROVE  /\ (x * m) \div W <= (x * n) \div W
         /\ m - (x * m) \div W <= n - (x * n) \div W
<1>1. PICK d \in Nat : n = m + d
  <2>1. n - m \in Nat
    OBVIOUS
  <2>2. QED
    BY <2>1
<1>2. PICK y \in Nat : y = x * m
  OBVIOUS
<1>3. PICK z \in Nat : z = x * n
  OBVIOUS
<1>4. PICK p \in Nat : p = x * d
  OBVIOUS
<1>5. z = y + p
  <2>1. x * (m + d) = x * m + x * d
    OBVIOUS
  <2>2. QED
    BY <1>1, <1>2, <1>3, <1>4, <2>1
<1>6. PICK b \in Nat : b = y \div W
  BY DivFacts
<1>7. PICK c \in Nat : c = z \div W
  BY DivFacts
<1>8. W * b <= y /\ y < W * b + W /\ W * c <= z /\ z < W * c + W
  BY <1>6, <1>7, DivFacts
<1>9. PICK u \in Nat : u = W * b
  OBVIOUS
<1>10. PICK v \in Nat : v = W * c
  OBVIOUS
<1>11. b <= c
  <2>1. b >= c + 1 => W * b >= W * c + W
    OBVIOUS
  <2>2. b >= c + 1 => u >= v + W
    BY <1>9, <1>10, <2>1
  <2>3. u <= y /\ z < v + W
    BY <1>8, <1>9, <1>10
  <2>4. QED
    BY <1>5, <2>2, <2>3
<1>12. c <= b + d
  <2>1. c >= b + d + 1 => W * c >= W * b + W * d + W
    OBVIOUS
  <2>2. PICK q \in Nat : q = W * d
    OBVIOUS
  <2>3. p <= q
    BY <1>4, <2>2
  <2>4. c >= b + d + 1 => v >= u + q + W
    BY <1>9, <1>10, <2>1, <2>2
  <2>5. v <= z /\ y < u + W
    BY <1>8, <1>9, <1>10
  <2>6. QED
    BY <1>5, <2>3, <2>4, <2>5
<1>13. m - b <= n - c
  BY <1>1, <1>12
<1>14. QED
  BY <1>2, <1>3, <1>6, <1>7, <1>11, <1>13

\* The first n points of a block: no slice gives more than it has, and the base gives the rest.
LEMMA SlicesFit ==
  ASSUME NEW o \in Seq(Nat), NEW base \in Nat, NEW n \in Nat,
         n <= base + Total(o), base + Total(o) # 0
  PROVE  /\ SlicesOf(o, base, n) \in Seq(Nat) /\ Len(SlicesOf(o, base, n)) = Len(o)
         /\ \A i \in 1..Len(o) : SlicesOf(o, base, n)[i] <= o[i]
         /\ Total(SlicesOf(o, base, n)) <= n
         /\ n - Total(SlicesOf(o, base, n)) <= base
<1>1. PICK k \in Nat : k = Len(o)
  BY WeightsFacts
<1>2. PICK W \in Nat : W = base + Total(o)
  BY TotalNat
<1>3. PICK c : c = SlicesOf(o, base, n)
  OBVIOUS
<1>4. CASE k = 0
  <2>1. c = <<>>
    BY <1>1, <1>3, <1>4 DEF SlicesOf
  <2>2. c \in Seq(Nat) /\ Len(c) = 0
    BY <2>1
  <2>3. Total(c) = 0 /\ Total(o) = 0
    BY <1>1, <1>4, <2>2, TotalOfEmpty
  <2>4. QED
    BY <1>1, <1>3, <1>4, <2>2, <2>3
<1>5. CASE k = 1
  <2>1. PICK x \in Nat : x = o[1] /\ Total(o) = x
    <3>1. Len(o) = 1 /\ 1 \in 1..Len(o)
      BY <1>1, <1>5
    <3>2. o[1] \in Nat /\ Total(o) = o[1]
      BY <3>1, WeightsFacts, TotalOfOne
    <3>3. QED
      BY <3>2
  <2>2. PICK f \in Nat : f = (x * n) \div (base + x) /\ f <= x /\ f <= n /\ n - f <= base
    BY <2>1, FloorFits
  <2>3. c = [i \in 1..1 |-> f]
    BY <1>1, <1>3, <1>5, <2>1, <2>2 DEF SlicesOf
  <2>4. c \in [1..1 -> Nat]
    BY <2>3
  <2>5. c \in Seq(Nat) /\ c[1] = f
    BY <2>3, <2>4, SeqDef
  <2>6. Len(c) = 1
    BY <2>4, <2>5, LenProperties
  <2>7. Total(c) = f
    BY <2>5, <2>6, TotalOfOne
  <2>8. QED
    BY <1>1, <1>3, <1>5, <2>1, <2>2, <2>5, <2>6, <2>7
<1>6. CASE k >= 2
  <2>1. PICK w : w = Append(o, base)
    OBVIOUS
  <2>2. /\ w \in Seq(Nat) /\ Len(w) = k + 1 /\ Total(w) = W
        /\ w[k + 1] = base /\ \A i \in 1..k : w[i] = o[i]
    BY <1>1, <1>2, <2>1, TotalOfAppend, AppendProperties, TotalNat
  <2>3. PICK p : p = Prefix(n, w)
    OBVIOUS
  <2>4. W # 0 /\ n \in 0..W
    BY <1>2
  <2>5. p \in Seq(Nat) /\ Len(p) = k + 1 /\ Total(p) = n
    BY <2>2, <2>3, <2>4, PrefixesAreExact
  <2>6. \A i \in 1..(k + 1) : p[i] <= w[i]
    BY <2>2, <2>3, <2>4, PrefixesStayWithin
  <2>7. c = SubSeq(p, 1, k)
    BY <1>1, <1>3, <1>6, <2>1, <2>3 DEF SlicesOf
  <2>8. \A i \in 1..(k + 1) : p[i] \in Nat
    BY <2>5, WeightsFacts
  <2>9. c \in Seq(Nat) /\ Len(c) = k /\ \A i \in 1..k : c[i] = p[i]
    <3>1. \A i \in 1..k : p[i] \in Nat
      BY <2>8
    <3>2. /\ SubSeq(p, 1, k) \in Seq(Nat) /\ Len(SubSeq(p, 1, k)) = k - 1 + 1
          /\ \A i \in 1..(k - 1 + 1) : SubSeq(p, 1, k)[i] = p[1 + i - 1]
      BY <1>6, <3>1, SubSeqProperties
    <3>3. \A i \in 1..k : 1 + i - 1 = i
      OBVIOUS
    <3>4. QED
      BY <2>7, <3>2, <3>3
  <2>10. Cumulative(c, k) = Cumulative(p, k)
    <3>1. Len(c) \in Nat /\ Len(p) \in Nat /\ k <= Len(c) /\ k <= Len(p)
      BY <2>5, <2>9
    <3>2. QED
      BY <2>9, <3>1, SumsAgree
  <2>11. Cumulative(p, k + 1) = Cumulative(p, k) + p[k + 1]
    <3>1. Len(p) \in Nat /\ k + 1 \in 1..Len(p) /\ (k + 1) - 1 = k
      BY <2>5
    <3>2. Cumulative(p, k + 1) = Cumulative(p, (k + 1) - 1) + p[k + 1]
      BY <3>1, CumulativeIs
    <3>3. QED
      BY <3>1, <3>2
  <2>12. n = Total(c) + p[k + 1]
    BY <2>5, <2>9, <2>10, <2>11 DEF Total
  <2>13. p[k + 1] \in Nat /\ p[k + 1] <= base
    BY <2>2, <2>6, <2>8
  <2>14. Total(c) \in Nat
    BY <2>9, TotalNat
  <2>15. \A i \in 1..k : c[i] <= o[i]
    <3>1. \A i \in 1..k : i \in 1..(k + 1)
      OBVIOUS
    <3>2. QED
      BY <2>2, <2>6, <2>9, <3>1
  <2>16. QED
    BY <1>1, <1>3, <2>9, <2>12, <2>13, <2>14, <2>15
<1>7. QED
  BY <1>4, <1>5, <1>6

\* More points take no less of any slice, and no less of the base.
LEMMA SlicesGrow ==
  ASSUME NEW o \in Seq(Nat), NEW base \in Nat, NEW m \in Nat, NEW n \in Nat, m <= n,
         n <= base + Total(o), base + Total(o) # 0
  PROVE  /\ \A i \in 1..Len(o) : SlicesOf(o, base, m)[i] <= SlicesOf(o, base, n)[i]
         /\ m - Total(SlicesOf(o, base, m)) <= n - Total(SlicesOf(o, base, n))
<1>1. PICK k \in Nat : k = Len(o)
  BY WeightsFacts
<1>2. PICK W \in Nat : W = base + Total(o)
  BY TotalNat
<1>3. PICK b : b = SlicesOf(o, base, m)
  OBVIOUS
<1>4. PICK c : c = SlicesOf(o, base, n)
  OBVIOUS
<1>5. /\ b \in Seq(Nat) /\ Len(b) = k
      /\ c \in Seq(Nat) /\ Len(c) = k
  <2>1. m <= base + Total(o)
    BY <1>2
  <2>2. QED
    BY <1>1, <1>3, <1>4, <2>1, SlicesFit
<1>6. CASE k = 0
  <2>1. Total(b) = 0 /\ Total(c) = 0
    BY <1>5, <1>6, TotalOfEmpty
  <2>2. QED
    BY <1>1, <1>3, <1>4, <1>6, <2>1
<1>7. CASE k = 1
  <2>1. PICK x \in Nat : x = o[1] /\ Total(o) = x
    <3>1. Len(o) = 1 /\ 1 \in 1..Len(o)
      BY <1>1, <1>7
    <3>2. o[1] \in Nat /\ Total(o) = o[1]
      BY <3>1, WeightsFacts, TotalOfOne
    <3>3. QED
      BY <3>2
  <2>2. W = base + x /\ x <= W /\ W # 0
    BY <1>2, <2>1
  <2>3. b[1] = (x * m) \div W /\ c[1] = (x * n) \div W
    BY <1>1, <1>3, <1>4, <1>7, <2>1, <2>2 DEF SlicesOf
  <2>4. b[1] <= c[1] /\ m - b[1] <= n - c[1]
    BY <2>2, <2>3, FloorGrows
  <2>5. Total(b) = b[1] /\ Total(c) = c[1]
    BY <1>5, <1>7, TotalOfOne
  <2>6. QED
    BY <1>1, <1>3, <1>4, <1>7, <2>4, <2>5
<1>8. CASE k >= 2
  <2>1. PICK w : w = Append(o, base)
    OBVIOUS
  <2>2. w \in Seq(Nat) /\ Len(w) = k + 1 /\ Total(w) = W
    BY <1>1, <1>2, <2>1, TotalOfAppend, TotalNat
  <2>3. W # 0
    BY <1>2
  <2>4. PICK p : p = Prefix(m, w)
    OBVIOUS
  <2>5. PICK q : q = Prefix(n, w)
    OBVIOUS
  <2>6. /\ p \in Seq(Nat) /\ Len(p) = k + 1 /\ Total(p) = m
        /\ q \in Seq(Nat) /\ Len(q) = k + 1 /\ Total(q) = n
    BY <2>2, <2>3, <2>4, <2>5, PrefixesAreExact
  <2>7. \A i \in 1..(k + 1) : p[i] <= q[i]
    BY <2>2, <2>3, <2>4, <2>5, PrefixesAreNested
  <2>8. b = SubSeq(p, 1, k) /\ c = SubSeq(q, 1, k)
    BY <1>1, <1>3, <1>4, <1>8, <2>1, <2>4, <2>5 DEF SlicesOf
  <2>9. ASSUME NEW r \in Seq(Nat), Len(r) = k + 1
        PROVE  /\ \A i \in 1..k : SubSeq(r, 1, k)[i] = r[i]
               /\ Total(r) = Total(SubSeq(r, 1, k)) + r[k + 1]
    <3>1. \A i \in 1..k : r[i] \in Nat
      BY <2>9, WeightsFacts
    <3>2. PICK s : s = SubSeq(r, 1, k)
      OBVIOUS
    <3>3. /\ s \in Seq(Nat) /\ Len(s) = k /\ \A i \in 1..k : s[i] = r[i]
      <4>1. /\ s \in Seq(Nat) /\ Len(s) = k - 1 + 1
            /\ \A i \in 1..(k - 1 + 1) : s[i] = r[1 + i - 1]
        BY <1>8, <3>1, <3>2, SubSeqProperties
      <4>2. \A i \in 1..k : 1 + i - 1 = i
        OBVIOUS
      <4>3. QED
        BY <4>1, <4>2
    <3>4. Cumulative(s, k) = Cumulative(r, k)
      <4>1. Len(s) \in Nat /\ Len(r) \in Nat /\ k <= Len(s) /\ k <= Len(r)
        BY <2>9, <3>3
      <4>2. QED
        BY <3>3, <4>1, SumsAgree
    <3>5. Cumulative(r, k + 1) = Cumulative(r, k) + r[k + 1]
      <4>1. Len(r) \in Nat /\ k + 1 \in 1..Len(r) /\ (k + 1) - 1 = k
        BY <2>9
      <4>2. Cumulative(r, k + 1) = Cumulative(r, (k + 1) - 1) + r[k + 1]
        BY <4>1, CumulativeIs
      <4>3. QED
        BY <4>1, <4>2
    <3>6. QED
      BY <2>9, <3>2, <3>3, <3>4, <3>5 DEF Total
  <2>10. /\ \A i \in 1..k : b[i] = p[i] /\ c[i] = q[i]
         /\ m = Total(b) + p[k + 1] /\ n = Total(c) + q[k + 1]
    BY <2>6, <2>8, <2>9
  <2>11. /\ p[k + 1] \in Nat /\ q[k + 1] \in Nat /\ p[k + 1] <= q[k + 1]
         /\ Total(b) \in Nat /\ Total(c) \in Nat
    BY SMTT(20), <1>5, <2>6, <2>7, WeightsFacts, TotalNat
  <2>12. m - Total(b) <= n - Total(c)
    <3>1. PICK x \in Nat : x = p[k + 1]
      BY <2>11
    <3>2. PICK y \in Nat : y = q[k + 1]
      BY <2>11
    <3>3. PICK s \in Nat : s = Total(b)
      BY <2>11
    <3>4. PICK t \in Nat : t = Total(c)
      BY <2>11
    <3>5. m = s + x /\ n = t + y /\ x <= y
      BY ONLY <2>10, <2>11, <3>1, <3>2, <3>3, <3>4
    <3>6. m - s <= n - t
      BY ONLY <3>5, x \in Nat, y \in Nat, s \in Nat, t \in Nat
    <3>7. QED
      BY ONLY <3>3, <3>4, <3>6
  <2>13. \A i \in 1..k : b[i] <= c[i]
    BY <2>7, <2>10
  <2>14. QED
    BY <1>1, <1>3, <1>4, <2>12, <2>13
<1>9. QED
  BY <1>6, <1>7, <1>8

LEMMA NoSlicesFirst ==
  ASSUME NEW o \in Seq(Nat), NEW base \in Nat, base + Total(o) # 0
  PROVE  \A i \in 1..Len(o) : SlicesOf(o, base, 0)[i] = 0
<1>1. PICK c : c = SlicesOf(o, base, 0)
  OBVIOUS
<1>2. Total(o) \in Nat
  BY TotalNat
<1>3. c \in Seq(Nat) /\ Len(c) = Len(o) /\ Total(c) <= 0
  <2>1. 0 <= base + Total(o)
    BY <1>2
  <2>2. QED
    BY <1>1, <2>1, SlicesFit
<1>4. ASSUME NEW i \in 1..Len(o) PROVE c[i] = 0
  <2>1. c[i] \in Nat /\ c[i] <= Total(c) /\ Total(c) \in Nat
    BY <1>3, WithinTotal, WeightsFacts, TotalNat
  <2>2. QED
    BY <1>3, <2>1
<1>5. QED
  BY <1>1, <1>4

----------------------------------------------------------------------------
(***************************************************************************)
(* What a credit brings to the steps of a stage.                           *)
(***************************************************************************)

Fields == {"gained", "effective", "modifier"}

CreditSteps == [op : {"credit"}, to : Rows, field : Fields, amount : Int]

LEMMA WeightsOf ==
  ASSUME NEW source \in Sources
  PROVE  /\ Len(source) \in Nat /\ DOMAIN source = 1..Len(source)
         /\ \A i \in 1..Len(source) : source[i].to \in Rows
         /\ Weights(source) \in Seq(Nat) /\ Len(Weights(source)) = Len(source)
         /\ Total(Weights(source)) # 0
<1>1. source \in Seq(Shares) /\ source # <<>>
  BY DEF Sources
<1>2. PICK n \in Nat : n = Len(source) /\ DOMAIN source = 1..n /\ n # 0
  <2>1. Len(source) \in Nat \ {0} /\ DOMAIN source = 1..Len(source)
    BY <1>1, LenProperties, EmptySeq
  <2>2. QED
    BY <2>1
<1>3. \A i \in 1..n : source[i] \in Shares
  BY <1>1, <1>2, ElementOfSeq
<1>4. \A i \in 1..n : source[i].to \in Rows /\ source[i].weight \in Nat /\ source[i].weight # 0
  BY <1>3 DEF Shares
<1>5. PICK w : w = Weights(source)
  OBVIOUS
<1>6. w = [i \in 1..n |-> source[i].weight]
  BY <1>2, <1>5 DEF Weights
<1>7. w \in [1..n -> Nat]
  BY <1>4, <1>6
<1>8. w \in Seq(Nat)
  BY <1>7, SeqDef
<1>9. Len(w) = n
  BY <1>7, <1>8, LenProperties
<1>10. 1 \in 1..n /\ w[1] \in Nat /\ w[1] # 0
  BY <1>2, <1>4, <1>6
<1>11. w[1] <= Total(w) /\ Total(w) \in Nat
  BY <1>8, <1>9, <1>10, WithinTotal, TotalNat
<1>12. Total(w) # 0
  BY <1>10, <1>11
<1>13. QED
  BY <1>2, <1>4, <1>5, <1>8, <1>9, <1>12

LEMMA UnknownIsSource == ASSUME NEW slot \in Slots PROVE UnknownFor(slot) \in Sources
<1>1. [to |-> UnknownOf(slot), weight |-> 1] \in Shares
  BY DEF Shares, Rows
<1>2. UnknownFor(slot) \in Seq(Shares) /\ UnknownFor(slot) # <<>>
  BY <1>1 DEF UnknownFor
<1>3. QED
  BY <1>2 DEF Sources

----------------------------------------------------------------------------
\* What is picked of a sequence, as a function of how much of it was looked at.
PickedBy(f, s, amounts, n) ==
  f = [k \in 0..n |-> IF k = 0 THEN <<>>
                      ELSE IF amounts[k] = 0 THEN f[k - 1] ELSE Append(f[k - 1], s[k])]

LEMMA PickedByFacts ==
  ASSUME NEW f, NEW s, NEW amounts, NEW n \in Nat, PickedBy(f, s, amounts, n)
  PROVE  /\ f[0] = <<>>
         /\ \A k \in 1..n : f[k] = IF amounts[k] = 0 THEN f[k - 1] ELSE Append(f[k - 1], s[k])
<1> DEFINE F(k) == IF k = 0 THEN <<>>
                   ELSE IF amounts[k] = 0 THEN f[k - 1] ELSE Append(f[k - 1], s[k])
<1>1. f = [k \in 0..n |-> F(k)]
  BY DEF PickedBy
<1> HIDE DEF F
<1>2. \A k \in 0..n : f[k] = F(k)
  BY <1>1
<1>3. QED
  BY <1>2 DEF F

LEMMA PickedExists ==
  ASSUME NEW s, NEW amounts, NEW n \in Nat
  PROVE  \E f : PickedBy(f, s, amounts, n)
<1> DEFINE T == {m \in Nat : \E f : PickedBy(f, s, amounts, m)}
           With1(q, k) == IF amounts[k] = 0 THEN q ELSE Append(q, s[k])
<1>1. 0 \in T
  <2> DEFINE f == [i \in 0..0 |-> <<>>]
  <2>1. PickedBy(f, s, amounts, 0)
    BY DEF PickedBy
  <2>2. QED
    BY <2>1
<1>2. ASSUME NEW m \in 0..(n - 1), m \in T
      PROVE  m + 1 \in T
  <2>1. PICK f : PickedBy(f, s, amounts, m)
    BY <1>2
  <2>2. m \in Nat /\ f[0] = <<>> /\ \A i \in 1..m : f[i] = With1(f[i - 1], i)
    BY <2>1, PickedByFacts
  <2> HIDE DEF With1
  <2> DEFINE g == [i \in 0..(m + 1) |-> IF i = m + 1 THEN With1(f[m], m + 1) ELSE f[i]]
             h == [i \in 0..(m + 1) |-> IF i = 0 THEN <<>> ELSE With1(g[i - 1], i)]
  <2>3. g[0] = <<>> /\ h[0] = <<>>
    BY <2>2
  <2>4. g[m + 1] = With1(f[m], m + 1) /\ h[m + 1] = With1(f[m], m + 1)
    BY <2>2
  <2>5. ASSUME NEW i \in 1..m PROVE g[i] = h[i]
    <3>1. g[i] = f[i] /\ g[i - 1] = f[i - 1] /\ h[i] = With1(g[i - 1], i)
      BY <2>2
    <3>2. QED
      BY <2>2, <3>1
  <2>6. \A i \in 0..(m + 1) : g[i] = h[i]
    <3> HIDE DEF g, h
    <3>1. QED
      BY <2>2, <2>3, <2>4, <2>5
  <2>7. g = h
    BY <2>6
  <2>8. PickedBy(g, s, amounts, m + 1)
    BY <2>7 DEF PickedBy, With1
  <2>9. QED
    BY <2>2, <2>8
<1> HIDE DEF T
<1>3. n \in T
  BY <1>1, <1>2, UpTo
<1>4. QED
  BY <1>3 DEF T

LEMMA PickedIs ==
  ASSUME NEW s, NEW amounts, Len(s) \in Nat
  PROVE  \E f : PickedBy(f, s, amounts, Len(s)) /\ Picked(s, amounts) = f[Len(s)]
<1> DEFINE picked == CHOOSE f : PickedBy(f, s, amounts, Len(s))
<1>1. PickedBy(picked, s, amounts, Len(s))
  BY PickedExists
<1>2. Picked(s, amounts) = picked[Len(s)]
  BY DEF Picked, PickedBy
<1> HIDE DEF picked
<1>3. QED
  BY <1>1, <1>2

LEMMA PickedTyped ==
  ASSUME NEW S, NEW s, NEW amounts, Len(s) \in Nat,
         \A i \in 1..Len(s) : amounts[i] # 0 => s[i] \in S
  PROVE  Picked(s, amounts) \in Seq(S)
<1>1. PICK n \in Nat : n = Len(s)
  OBVIOUS
<1>2. PICK f : PickedBy(f, s, amounts, n) /\ Picked(s, amounts) = f[n]
  BY <1>1, PickedIs
<1> DEFINE T == {k \in Nat : f[k] \in Seq(S)}
<1>3. 0 \in T
  <2>1. f[0] = <<>>
    BY <1>2, PickedByFacts
  <2>2. QED
    BY <2>1, EmptySeq
<1>4. ASSUME NEW k \in 0..(n - 1), k \in T PROVE k + 1 \in T
  <2>1. k + 1 \in 1..n /\ (k + 1) - 1 = k /\ k + 1 \in Nat
    OBVIOUS
  <2>2. f[k + 1] = IF amounts[k + 1] = 0 THEN f[k] ELSE Append(f[k], s[k + 1])
    BY <1>2, <2>1, PickedByFacts
  <2>3. amounts[k + 1] # 0 => s[k + 1] \in S
    BY <1>1, <2>1
  <2>4. f[k] \in Seq(S)
    BY <1>4
  <2>5. f[k + 1] \in Seq(S)
    BY <2>2, <2>3, <2>4, AppendProperties
  <2>6. QED
    BY <2>1, <2>5
<1> HIDE DEF T
<1>5. n \in T
  BY <1>3, <1>4, UpTo
<1>6. QED
  BY <1>2, <1>5 DEF T

LEMMA CreditEachTyped ==
  ASSUME NEW source \in Sources, NEW field \in Fields, NEW amounts,
         \A i \in 1..Len(source) : amounts[i] \in Int
  PROVE  CreditEach(source, field, amounts) \in Seq(CreditSteps)
<1>1. PICK n \in Nat : n = Len(source) /\ DOMAIN source = 1..n
  BY WeightsOf
<1>2. PICK s : s = [i \in 1..n |-> CreditStep(source[i].to, field, amounts[i])]
  OBVIOUS
<1>3. Len(s) = n
  BY <1>2
<1>4. ASSUME NEW i \in 1..n PROVE s[i] \in CreditSteps
  <2>1. source[i].to \in Rows /\ amounts[i] \in Int
    BY <1>1, WeightsOf
  <2>2. QED
    BY <1>2, <2>1 DEF CreditStep, CreditSteps
<1>5. Picked(s, amounts) \in Seq(CreditSteps)
  BY <1>3, <1>4, PickedTyped
<1>6. QED
  BY <1>1, <1>2, <1>5 DEF CreditEach

\* The next points of a source are of its shares, and take none back.
LEMMA NextSharesFacts ==
  ASSUME NEW source \in Sources, NEW paid \in Nat, NEW amount \in Nat
  PROVE  /\ DOMAIN NextShares(source, paid, amount) = 1..Len(source)
         /\ \A i \in 1..Len(source) : NextShares(source, paid, amount)[i] \in Nat
<1>1. PICK n \in Nat : n = Len(source) /\ DOMAIN source = 1..n
  BY WeightsOf
<1>2. PICK w : w = Weights(source)
  OBVIOUS
<1>3. w \in Seq(Nat) /\ Len(w) = n /\ Total(w) # 0
  BY <1>1, <1>2, WeightsOf
<1>4. PICK m \in Nat : m = paid + amount /\ paid <= m
  OBVIOUS
<1>5. PICK p : p = Prefix(paid, w)
  OBVIOUS
<1>6. PICK q : q = Prefix(m, w)
  OBVIOUS
<1>7. p \in Seq(Nat) /\ Len(p) = n /\ q \in Seq(Nat) /\ Len(q) = n
  BY <1>3, <1>5, <1>6, PrefixesAreExact
<1>8. \A i \in 1..n : p[i] <= q[i]
  BY <1>3, <1>4, <1>5, <1>6, PrefixesAreNested
<1>9. NextShares(source, paid, amount) = [i \in 1..n |-> q[i] - p[i]]
  BY <1>1, <1>2, <1>4, <1>5, <1>6 DEF NextShares
<1>10. \A i \in 1..n : p[i] \in Nat /\ q[i] \in Nat
  BY <1>7, WeightsFacts
<1>11. QED
  BY <1>1, <1>8, <1>9, <1>10

LEMMA NextCreditTyped ==
  ASSUME NEW source \in Sources, NEW field \in Fields, NEW paid \in Nat, NEW amount \in Nat
  PROVE  NextCredit(source, field, paid, amount) \in Seq(CreditSteps)
<1>1. \A i \in 1..Len(source) : NextShares(source, paid, amount)[i] \in Int
  BY NextSharesFacts
<1>2. QED
  BY <1>1, CreditEachTyped DEF NextCredit

LEMMA SourceCreditTyped ==
  ASSUME NEW source \in Sources, NEW field \in Fields, NEW amount \in Nat
  PROVE  SourceCredit(source, field, amount) \in Seq(CreditSteps)
<1>1. PICK w : w = Weights(source)
  OBVIOUS
<1>2. PICK p : p = Proportional(amount, w)
  OBVIOUS
<1>3. p \in Seq(Nat) /\ Len(p) = Len(source)
  BY <1>1, <1>2, WeightsOf, ProportionalFacts
<1>4. \A i \in 1..Len(source) : p[i] \in Int
  BY <1>3, WeightsFacts
<1>5. QED
  BY <1>1, <1>2, <1>4, CreditEachTyped DEF SourceCredit

\* Sequences put end to end, as a function of how many there are.
FlatBy(f, seqs, n) == f = [i \in 1..n |-> IF i = 1 THEN seqs[i] ELSE f[i - 1] \o seqs[i]]

LEMMA FlatByFacts ==
  ASSUME NEW f, NEW seqs, NEW n \in Nat, FlatBy(f, seqs, n)
  PROVE  \A i \in 1..n : f[i] = IF i = 1 THEN seqs[i] ELSE f[i - 1] \o seqs[i]
<1> DEFINE F(i) == IF i = 1 THEN seqs[i] ELSE f[i - 1] \o seqs[i]
<1>1. f = [i \in 1..n |-> F(i)]
  BY DEF FlatBy
<1> HIDE DEF F
<1>2. \A i \in 1..n : f[i] = F(i)
  BY <1>1
<1>3. QED
  BY <1>2 DEF F

LEMMA FlatExists ==
  ASSUME NEW seqs, NEW n \in Nat
  PROVE  \E f : FlatBy(f, seqs, n)
<1> DEFINE T == {m \in Nat : \E f : FlatBy(f, seqs, m)}
           With1(q, i) == IF i = 1 THEN seqs[i] ELSE q \o seqs[i]
<1>1. 0 \in T
  <2> DEFINE f == [i \in 1..0 |-> 0]
             g == [i \in 1..0 |-> IF i = 1 THEN seqs[i] ELSE f[i - 1] \o seqs[i]]
  <2>1. f = g
    OBVIOUS
  <2>2. FlatBy(f, seqs, 0)
    BY <2>1 DEF FlatBy
  <2>3. QED
    BY <2>2
<1>2. ASSUME NEW m \in 0..(n - 1), m \in T
      PROVE  m + 1 \in T
  <2>1. PICK f : FlatBy(f, seqs, m)
    BY <1>2
  <2>2. m \in Nat /\ \A i \in 1..m : f[i] = With1(f[i - 1], i)
    BY <2>1, FlatByFacts
  <2> DEFINE g == [i \in 1..(m + 1) |-> IF i = m + 1 THEN With1(f[m], m + 1) ELSE f[i]]
             h == [i \in 1..(m + 1) |-> With1(g[i - 1], i)]
  <2>3. ASSUME NEW i \in 1..(m + 1) PROVE g[i] = h[i]
    <3>1. CASE i = 1
      <4>1. h[1] = seqs[1]
        BY <2>2
      <4>2. g[1] = seqs[1]
        <5>1. CASE m = 0
          BY <5>1
        <5>2. CASE m # 0
          <6>1. 1 \in 1..m /\ g[1] = f[1]
            BY <2>2, <5>2
          <6>2. f[1] = With1(f[1 - 1], 1)
            BY <2>2, <6>1
          <6>3. QED
            BY <6>1, <6>2
        <5>3. QED
          BY <5>1, <5>2
      <4>3. QED
        BY <3>1, <4>1, <4>2
    <3>2. CASE i # 1 /\ i = m + 1
      <4>1. i - 1 \in 1..(m + 1) /\ i - 1 = m /\ i - 1 # m + 1
        BY <2>2, <3>2
      <4>2. g[i - 1] = f[m]
        BY <2>2, <4>1
      <4>3. h[i] = With1(g[i - 1], i)
        BY <2>2
      <4>4. g[i] = With1(f[m], m + 1)
        BY <3>2
      <4> HIDE DEF With1, g, h
      <4>5. QED
        BY <3>2, <4>2, <4>3, <4>4
    <3>3. CASE i # 1 /\ i # m + 1
      <4>1. i \in 1..m /\ i - 1 \in 1..(m + 1) /\ i - 1 # m + 1
        BY <2>2, <3>3
      <4>2. g[i] = f[i] /\ g[i - 1] = f[i - 1]
        BY <2>2, <4>1
      <4>3. h[i] = With1(g[i - 1], i)
        BY <2>2
      <4> HIDE DEF With1, g, h
      <4>4. QED
        BY <2>2, <4>1, <4>2, <4>3
    <3>4. QED
      BY <3>1, <3>2, <3>3
  <2>4. g = h
    <3>1. DOMAIN g = DOMAIN h
      OBVIOUS
    <3>2. QED
      BY <2>3
  <2>5. FlatBy(g, seqs, m + 1)
    BY <2>4 DEF FlatBy, With1
  <2> HIDE DEF g
  <2>6. QED
    BY <2>2, <2>5
<1> HIDE DEF T
<1>3. n \in T
  BY <1>1, <1>2, UpTo
<1>4. QED
  BY <1>3 DEF T

LEMMA FlattenTyped ==
  ASSUME NEW S, NEW seqs \in Seq(Seq(S))
  PROVE  FlattenSeq(seqs) \in Seq(S)
<1>1. PICK n \in Nat : n = Len(seqs)
  BY LenProperties
<1>2. \A i \in 1..n : seqs[i] \in Seq(S)
  BY <1>1, ElementOfSeq
<1>3. CASE n = 0
  <2>1. seqs = <<>>
    BY <1>1, <1>3, EmptySeq
  <2>2. QED
    BY <1>1, <1>3, <2>1, EmptySeq DEF FlattenSeq
<1>4. CASE n # 0
  <2>1. PICK f : FlatBy(f, seqs, n) /\ FlattenSeq(seqs) = f[n]
    <3> DEFINE flatten == CHOOSE f : FlatBy(f, seqs, n)
    <3>1. FlatBy(flatten, seqs, n)
      BY FlatExists
    <3>2. FlattenSeq(seqs) = flatten[n]
      BY <1>1, <1>4 DEF FlattenSeq, FlatBy
    <3> HIDE DEF flatten
    <3>3. QED
      BY <3>1, <3>2
  <2> DEFINE T == {k \in Nat : k # 0 => f[k] \in Seq(S)}
  <2>2. 0 \in T
    OBVIOUS
  <2>3. ASSUME NEW k \in 0..(n - 1), k \in T PROVE k + 1 \in T
    <3>1. k + 1 \in 1..n /\ (k + 1) - 1 = k /\ k + 1 \in Nat /\ (k + 1 = 1 <=> k = 0)
      OBVIOUS
    <3>2. f[k + 1] = IF k = 0 THEN seqs[k + 1] ELSE f[k] \o seqs[k + 1]
      BY <2>1, <3>1, FlatByFacts
    <3>3. seqs[k + 1] \in Seq(S)
      BY <1>2, <3>1
    <3>4. k # 0 => f[k] \in Seq(S)
      BY <2>3
    <3>5. f[k + 1] \in Seq(S)
      BY <3>2, <3>3, <3>4, ConcatProperties
    <3>6. QED
      BY <3>1, <3>5
  <2> HIDE DEF T
  <2>4. n \in T
    BY <2>2, <2>3, UpTo
  <2>5. QED
    BY <1>4, <2>1, <2>4 DEF T
<1>5. QED
  BY <1>3, <1>4

----------------------------------------------------------------------------
LEMMA OriginalsFacts ==
  ASSUME NEW b, b.mods \in Seq(Slice), b.base \in Nat
  PROVE  /\ Len(b.mods) \in Nat /\ DOMAIN b.mods = 1..Len(b.mods)
         /\ Originals(b) \in Seq(Nat) /\ Len(Originals(b)) = Len(b.mods)
         /\ \A i \in 1..Len(b.mods) : Originals(b)[i] = b.mods[i].original
         /\ Consumed(b) \in Seq(Nat) /\ Len(Consumed(b)) = Len(b.mods)
         /\ \A i \in 1..Len(b.mods) : Consumed(b)[i] = b.mods[i].consumed
         /\ Whole(b) = b.base + Total(Originals(b))
         /\ Whole(b) \in Nat
         /\ \A n : SlicesAfter(b, n) = SlicesOf(Originals(b), b.base, n)
<1>1. PICK k \in Nat : k = Len(b.mods) /\ DOMAIN b.mods = 1..k
  BY LenProperties
<1>2. \A i \in 1..k : b.mods[i] \in Slice
  BY <1>1, ElementOfSeq
<1>3. \A i \in 1..k : b.mods[i].original \in Nat /\ b.mods[i].consumed \in Nat
  BY <1>2 DEF Slice
<1>4. PICK o : o = Originals(b)
  OBVIOUS
<1>5. PICK c : c = Consumed(b)
  OBVIOUS
<1>6. /\ o = [i \in 1..k |-> b.mods[i].original]
      /\ c = [i \in 1..k |-> b.mods[i].consumed]
  BY <1>1, <1>4, <1>5 DEF Originals, Consumed
<1>7. o \in [1..k -> Nat] /\ c \in [1..k -> Nat]
  BY <1>3, <1>6
<1>8. o \in Seq(Nat) /\ c \in Seq(Nat)
  BY <1>7, SeqDef
<1>9. Len(o) = k /\ Len(c) = k
  BY <1>7, <1>8, LenProperties
<1>10. Whole(b) = b.base + Total(o)
  BY <1>4 DEF Whole
<1>11. Whole(b) \in Nat
  BY <1>8, <1>10, TotalNat
<1>12. ASSUME NEW n PROVE SlicesAfter(b, n) = SlicesOf(o, b.base, n)
  <2>1. CASE k <= 1
    <3>1. \A i \in 1..k : (b.mods[i].original * n) \div Whole(b) = (o[i] * n) \div (b.base + Total(o))
      BY <1>6, <1>10
    <3>2. QED
      BY <1>1, <1>9, <2>1, <3>1 DEF SlicesAfter, SlicesOf
  <2>2. CASE ~(k <= 1)
    BY <1>1, <1>4, <1>9, <2>2 DEF SlicesAfter, SlicesOf
  <2>3. QED
    BY <2>1, <2>2
<1>13. QED
  BY <1>1, <1>4, <1>5, <1>6, <1>8, <1>9, <1>10, <1>11, <1>12

\* What a block must be: its slices have given what its first points take.
Used(b) == Whole(b) - b.remaining

GoodBlock(b) ==
  /\ b \in Block
  /\ b.remaining <= Whole(b)
  /\ Consumed(b) = SlicesAfter(b, Used(b))
  /\ b.paid = Used(b) - Total(Consumed(b))

GoodBlocks == {b \in Block : GoodBlock(b)}

BlockHolds(b) ==
  /\ b.paid <= b.base
  /\ \A i \in DOMAIN b.mods : b.mods[i].consumed <= b.mods[i].original
  /\ b.paid + Total(Consumed(b)) + b.remaining = Whole(b)

LEMMA BlockFacts ==
  ASSUME NEW b \in Block
  PROVE  /\ b.source \in Sources /\ b.base \in Nat /\ b.paid \in Nat
         /\ b.remaining \in Nat /\ b.remaining # 0 /\ b.mods \in Seq(Slice)
         /\ b = [source |-> b.source, base |-> b.base, paid |-> b.paid,
                 remaining |-> b.remaining, mods |-> b.mods]
BY DEF Block

LEMMA GoodBlockHolds == ASSUME NEW b, GoodBlock(b) PROVE BlockHolds(b)
<1>1. b.base \in Nat /\ b.paid \in Nat /\ b.remaining \in Nat /\ b.remaining # 0 /\ b.mods \in Seq(Slice)
  BY BlockFacts DEF GoodBlock
<1>2. PICK o \in Seq(Nat) : o = Originals(b)
  BY <1>1, OriginalsFacts
<1>3. PICK W \in Nat : W = Whole(b) /\ W = b.base + Total(o)
  BY <1>1, <1>2, OriginalsFacts
<1>4. PICK n \in Nat : n = Used(b) /\ n <= W /\ n = W - b.remaining
  <2>1. Used(b) = W - b.remaining /\ b.remaining <= W
    BY <1>3 DEF GoodBlock, Used
  <2>2. QED
    BY <1>1, <2>1
<1>5. W # 0
  BY <1>1, <1>4
<1>6. PICK c : c = Consumed(b) /\ c = SlicesOf(o, b.base, n)
  BY <1>1, <1>2, <1>4, OriginalsFacts DEF GoodBlock
<1>7. /\ c \in Seq(Nat) /\ \A i \in 1..Len(o) : c[i] <= o[i]
      /\ Total(c) <= n /\ n - Total(c) <= b.base
  BY <1>1, <1>3, <1>4, <1>5, <1>6, SlicesFit
<1>8. b.paid = n - Total(c)
  BY <1>4, <1>6 DEF GoodBlock
<1>9. Total(c) \in Nat
  BY <1>7, TotalNat
<1>10. b.paid + Total(c) + b.remaining = W
  BY <1>1, <1>4, <1>8, <1>9
<1>11. ASSUME NEW i \in DOMAIN b.mods PROVE b.mods[i].consumed <= b.mods[i].original
  <2>1. i \in 1..Len(o) /\ c[i] = b.mods[i].consumed /\ o[i] = b.mods[i].original
    BY <1>1, <1>2, <1>6, OriginalsFacts
  <2>2. QED
    BY <1>7, <2>1
<1>12. QED
  BY <1>3, <1>6, <1>7, <1>8, <1>10, <1>11 DEF BlockHolds

----------------------------------------------------------------------------
(***************************************************************************)
(* The blocks: what takes from a good one, or makes one, leaves it good.   *)
(***************************************************************************)

\* What take of the next points of a block give.
LEMMA TakeFacts ==
  ASSUME NEW b, GoodBlock(b), NEW take \in Nat, take <= b.remaining
  PROVE  /\ Used(b) \in Nat /\ Used(b) + take \in Nat /\ Used(b) + take <= Whole(b)
         /\ After(b, take) = SlicesAfter(b, Used(b) + take)
         /\ After(b, take) \in Seq(Nat) /\ Len(After(b, take)) = Len(b.mods)
         /\ Deltas(b, take) \in Seq(Nat) /\ Len(Deltas(b, take)) = Len(b.mods)
         /\ \A i \in 1..Len(b.mods) : b.mods[i].consumed + Deltas(b, take)[i] = After(b, take)[i]
         /\ BasePart(b, take) \in Nat
         /\ b.paid + BasePart(b, take) = (Used(b) + take) - Total(After(b, take))
<1>1. b.base \in Nat /\ b.paid \in Nat /\ b.remaining \in Nat /\ b.remaining # 0 /\ b.mods \in Seq(Slice)
  BY BlockFacts DEF GoodBlock
<1>2. PICK o \in Seq(Nat) : o = Originals(b)
  BY <1>1, OriginalsFacts
<1>3. PICK W \in Nat : W = Whole(b) /\ W = b.base + Total(o)
  BY <1>1, <1>2, OriginalsFacts
<1>4. PICK n \in Nat : n = Used(b) /\ n + b.remaining = W
  <2>1. Used(b) = W - b.remaining /\ b.remaining <= W
    BY <1>3 DEF GoodBlock, Used
  <2>2. W - b.remaining \in Nat
    BY <1>1, <2>1
  <2>3. W - b.remaining + b.remaining = W
    BY <1>1
  <2>4. QED
    BY <2>1, <2>2, <2>3
<1>5. W # 0
  BY <1>1, <1>4
<1>6. PICK m \in Nat : m = n + take /\ n <= m /\ m <= W
  <2>1. n + take \in Nat /\ n <= n + take /\ n + take <= W
    BY <1>1, <1>4
  <2>2. QED
    BY <2>1
<1>7. PICK k \in Nat : k = Len(b.mods) /\ DOMAIN b.mods = 1..k
  BY <1>1, OriginalsFacts
<1>8. PICK c : c = Consumed(b) /\ c = SlicesOf(o, b.base, n)
  BY <1>1, <1>2, <1>4, OriginalsFacts DEF GoodBlock
<1>9. PICK a : a = After(b, take) /\ a = SlicesOf(o, b.base, m) /\ a = SlicesAfter(b, m)
  <2>1. After(b, take) = SlicesAfter(b, m)
    BY <1>4, <1>6 DEF After, Used
  <2>2. SlicesAfter(b, m) = SlicesOf(o, b.base, m)
    BY <1>1, <1>2, OriginalsFacts
  <2>3. QED
    BY <2>1, <2>2
<1>10. Len(o) = k
  BY <1>1, <1>2, <1>7, OriginalsFacts
<1>11. c \in Seq(Nat) /\ Len(c) = k /\ Total(c) <= n
  <2>1. n <= W
    BY <1>1, <1>4
  <2>2. QED
    BY <1>1, <1>3, <1>5, <1>8, <1>10, <2>1, SlicesFit
<1>12. a \in Seq(Nat) /\ Len(a) = k /\ Total(a) <= m
  BY <1>1, <1>3, <1>5, <1>6, <1>9, <1>10, SlicesFit
<1>13. (\A i \in 1..k : c[i] <= a[i]) /\ n - Total(c) <= m - Total(a)
  <2>1. m <= b.base + Total(o) /\ b.base + Total(o) # 0
    BY <1>3, <1>5, <1>6
  <2>2. PICK base \in Nat : base = b.base
    BY <1>1
  <2>3. /\ \A i \in 1..Len(o) : SlicesOf(o, base, n)[i] <= SlicesOf(o, base, m)[i]
        /\ n - Total(SlicesOf(o, base, n)) <= m - Total(SlicesOf(o, base, m))
    BY <1>6, <2>1, <2>2, SlicesGrow
  <2>4. QED
    BY <1>8, <1>9, <1>10, <2>2, <2>3
<1>14. PICK d : d = Deltas(b, take)
  OBVIOUS
<1>15. \A i \in 1..k : c[i] \in Nat /\ a[i] \in Nat /\ c[i] = b.mods[i].consumed
  BY <1>1, <1>7, <1>8, <1>11, <1>12, WeightsFacts, OriginalsFacts
<1>16. d = [i \in 1..k |-> a[i] - b.mods[i].consumed]
  BY <1>7, <1>9, <1>14 DEF Deltas
<1>17. \A i \in 1..k : d[i] = a[i] - c[i] /\ d[i] \in Nat /\ a[i] = c[i] + d[i]
  BY <1>13, <1>15, <1>16
<1>18. d \in [1..k -> Nat]
  BY <1>16, <1>17
<1>19. d \in Seq(Nat)
  BY <1>18, SeqDef
<1>20. Len(d) = k
  BY <1>18, <1>19, LenProperties
<1>21. Total(a) = Total(c) + Total(d)
  <2>1. Len(d) = Len(c) /\ Len(a) = Len(c) /\ \A i \in 1..Len(c) : a[i] = c[i] + d[i]
    BY <1>11, <1>12, <1>17, <1>20
  <2>2. QED
    BY <1>11, <1>12, <1>19, <2>1, SumsAdd
<1>22. Total(a) \in Nat /\ Total(c) \in Nat /\ Total(d) \in Nat
  BY <1>11, <1>12, <1>19, TotalNat
<1>23. BasePart(b, take) = take - Total(d)
  BY <1>14 DEF BasePart
<1>24. take - Total(d) \in Nat
  BY <1>6, <1>13, <1>21, <1>22
<1>25. b.paid = n - Total(c)
  BY <1>4, <1>8 DEF GoodBlock
<1>26. b.paid + BasePart(b, take) = m - Total(a)
  BY <1>6, <1>21, <1>22, <1>23, <1>25
<1>27. \A i \in 1..k : b.mods[i].consumed + d[i] = a[i]
  BY <1>15, <1>17
<1>28. Used(b) \in Nat /\ Used(b) + take \in Nat /\ Used(b) + take <= Whole(b)
  BY <1>3, <1>4, <1>6
<1>29. After(b, take) = SlicesAfter(b, Used(b) + take)
  BY <1>4, <1>6, <1>9
<1>30. BasePart(b, take) \in Nat
  BY <1>23, <1>24
<1>31. b.paid + BasePart(b, take) = (Used(b) + take) - Total(After(b, take))
  <2>1. m = Used(b) + take
    BY <1>4, <1>6
  <2>2. a = After(b, take)
    BY <1>9
  <2>3. QED
    BY <1>26, <2>1, <2>2
<1>32. \A i \in 1..Len(b.mods) : b.mods[i].consumed + Deltas(b, take)[i] = After(b, take)[i]
  BY <1>7, <1>9, <1>14, <1>27
<1>33. /\ After(b, take) \in Seq(Nat) /\ Len(After(b, take)) = Len(b.mods)
       /\ Deltas(b, take) \in Seq(Nat) /\ Len(Deltas(b, take)) = Len(b.mods)
  BY <1>7, <1>9, <1>12, <1>14, <1>19, <1>20
<1>34. QED
  BY <1>28, <1>29, <1>30, <1>31, <1>32, <1>33

\* The code's subtractions on the way never go below zero.
LEMMA GoodBlockCovers ==
  ASSUME NEW b, GoodBlock(b), NEW take \in Nat, take <= b.remaining
  PROVE  Covers(b, take)
<1>1. b.source \in Sources /\ b.paid \in Nat /\ b.mods \in Seq(Slice) /\ DOMAIN b.mods = 1..Len(b.mods)
  BY BlockFacts, LenProperties DEF GoodBlock
<1>2. BasePart(b, take) \in Nat
  BY TakeFacts
<1>3. \A x \in Range(NextShares(b.source, b.paid, BasePart(b, take))) : x >= 0
  <2>1. PICK s : s = NextShares(b.source, b.paid, BasePart(b, take))
    OBVIOUS
  <2>2. DOMAIN s = 1..Len(b.source) /\ \A i \in 1..Len(b.source) : s[i] \in Nat
    BY <1>1, <1>2, <2>1, NextSharesFacts
  <2>3. ASSUME NEW x \in Range(s) PROVE x >= 0
    <3>1. PICK i \in 1..Len(b.source) : x = s[i]
      BY <2>2 DEF Range
    <3>2. x \in Nat
      BY <2>2, <3>1
    <3>3. QED
      BY <3>2
  <2>4. QED
    BY <2>1, <2>3
<1>4. ASSUME NEW i \in DOMAIN b.mods
      PROVE  /\ Deltas(b, take)[i] >= 0
             /\ \A x \in Range(NextShares(b.mods[i].source, b.mods[i].consumed, Deltas(b, take)[i])) : x >= 0
  <2>1. PICK d \in Nat : d = Deltas(b, take)[i]
    <3>1. Deltas(b, take) \in Seq(Nat) /\ Len(Deltas(b, take)) = Len(b.mods)
      BY TakeFacts
    <3>2. QED
      BY <1>1, <3>1, WeightsFacts
  <2>2. b.mods[i] \in Slice
    BY <1>1, ElementOfSeq
  <2>3. b.mods[i].source \in Sources /\ b.mods[i].consumed \in Nat
    BY <2>2 DEF Slice
  <2>4. PICK s : s = NextShares(b.mods[i].source, b.mods[i].consumed, d)
    OBVIOUS
  <2>5. PICK n : n = Len(b.mods[i].source)
    OBVIOUS
  <2>6. DOMAIN s = 1..n /\ \A j \in 1..n : s[j] \in Nat
    BY <2>3, <2>4, <2>5, NextSharesFacts
  <2>7. ASSUME NEW x \in Range(s) PROVE x >= 0
    <3>1. PICK j \in 1..n : x = s[j]
      BY <2>6 DEF Range
    <3>2. x \in Nat
      BY <2>6, <3>1
    <3>3. QED
      BY <3>2
  <2>8. QED
    BY <2>1, <2>4, <2>7
<1>5. QED
  BY <1>2, <1>3, <1>4 DEF Covers

LEMMA BlockCreditsTyped ==
  ASSUME NEW b, GoodBlock(b), NEW take \in Nat, take <= b.remaining
  PROVE  BlockCredits(b, take) \in Seq(CreditSteps)
<1>1. b.source \in Sources /\ b.paid \in Nat /\ b.mods \in Seq(Slice)
  BY BlockFacts DEF GoodBlock
<1>2. PICK k \in Nat : k = Len(b.mods) /\ DOMAIN b.mods = 1..k
  BY <1>1, LenProperties
<1>3. BasePart(b, take) \in Nat
  BY TakeFacts
<1>4. NextCredit(b.source, "effective", b.paid, BasePart(b, take)) \in Seq(CreditSteps)
  BY <1>1, <1>3, NextCreditTyped DEF Fields
<1>5. PICK t : t = [i \in 1..k |->
                      NextCredit(b.mods[i].source, "modifier", b.mods[i].consumed, Deltas(b, take)[i])]
  OBVIOUS
<1>6. ASSUME NEW i \in 1..k PROVE t[i] \in Seq(CreditSteps)
  <2>1. PICK d \in Nat : d = Deltas(b, take)[i]
    <3>1. Deltas(b, take) \in Seq(Nat) /\ Len(Deltas(b, take)) = Len(b.mods)
      BY TakeFacts
    <3>2. QED
      BY <1>2, <3>1, WeightsFacts
  <2>2. b.mods[i] \in Slice
    BY <1>1, <1>2, ElementOfSeq
  <2>3. b.mods[i].source \in Sources /\ b.mods[i].consumed \in Nat
    BY <2>2 DEF Slice
  <2>4. NextCredit(b.mods[i].source, "modifier", b.mods[i].consumed, d) \in Seq(CreditSteps)
    BY <2>3, NextCreditTyped DEF Fields
  <2>5. QED
    BY <1>5, <2>1, <2>4
<1>7. t \in [1..k -> Seq(CreditSteps)]
  BY <1>5, <1>6
<1>8. t \in Seq(Seq(CreditSteps))
  BY <1>7, SeqDef
<1>9. FlattenSeq(t) \in Seq(CreditSteps)
  BY <1>8, FlattenTyped
<1>10. BlockCredits(b, take) = NextCredit(b.source, "effective", b.paid, BasePart(b, take)) \o FlattenSeq(t)
  BY <1>2, <1>5 DEF BlockCredits
<1>11. QED
  BY <1>4, <1>9, <1>10, ConcatProperties

\* Blocks of the same originals and base take alike.
LEMMA TakenIsGood ==
  ASSUME NEW b, GoodBlock(b), NEW take \in Nat, take < b.remaining
  PROVE  GoodBlock(Taken(b, take))
<1>1. /\ b.source \in Sources /\ b.base \in Nat /\ b.paid \in Nat
      /\ b.remaining \in Nat /\ b.remaining # 0 /\ b.mods \in Seq(Slice)
      /\ b = [source |-> b.source, base |-> b.base, paid |-> b.paid,
              remaining |-> b.remaining, mods |-> b.mods]
  BY BlockFacts DEF GoodBlock
<1>2. PICK k \in Nat : k = Len(b.mods) /\ DOMAIN b.mods = 1..k
  BY <1>1, LenProperties
<1>3. PICK a : a = After(b, take)
  OBVIOUS
<1>4. /\ Used(b) \in Nat /\ a = SlicesAfter(b, Used(b) + take) /\ a \in Seq(Nat) /\ Len(a) = k
      /\ BasePart(b, take) \in Nat
      /\ b.paid + BasePart(b, take) = (Used(b) + take) - Total(a)
  BY <1>1, <1>2, <1>3, TakeFacts
<1>5. PICK t : t = Taken(b, take)
  OBVIOUS
<1>6. PICK s : s = [i \in 1..k |-> [b.mods[i] EXCEPT !.consumed = a[i]]]
  OBVIOUS
<1>7. /\ t.source = b.source /\ t.base = b.base /\ t.paid = b.paid + BasePart(b, take)
      /\ t.remaining = b.remaining - take /\ t.mods = s
      /\ t = [source |-> t.source, base |-> t.base, paid |-> t.paid,
              remaining |-> t.remaining, mods |-> t.mods]
  BY <1>1, <1>2, <1>3, <1>5, <1>6 DEF Taken
<1>8. ASSUME NEW i \in 1..k
      PROVE  s[i] \in Slice /\ s[i].original = b.mods[i].original /\ s[i].consumed = a[i]
  <2>1. b.mods[i] \in Slice /\ a[i] \in Nat
    BY <1>1, <1>2, <1>4, ElementOfSeq
  <2>2. s[i] = [b.mods[i] EXCEPT !.consumed = a[i]]
    BY <1>6
  <2>3. QED
    BY <2>1, <2>2 DEF Slice
<1>9. s \in [1..k -> Slice]
  BY <1>6, <1>8
<1>10. s \in Seq(Slice)
  BY <1>9, SeqDef
<1>11. Len(s) = k /\ DOMAIN s = 1..k
  BY <1>9, <1>10, LenProperties
<1>12. t \in Block
  <2>1. t.paid \in Nat /\ t.remaining \in Nat \ {0}
    BY <1>1, <1>4, <1>7
  <2>2. QED
    BY <1>1, <1>7, <1>10, <2>1 DEF Block
<1>13. Originals(t) = Originals(b)
  <2>1. Originals(t) = [i \in 1..k |-> s[i].original]
    BY <1>7, <1>11 DEF Originals
  <2>2. Originals(b) = [i \in 1..k |-> b.mods[i].original]
    BY <1>2 DEF Originals
  <2>3. QED
    BY <1>8, <2>1, <2>2
<1>14. Whole(t) = Whole(b) /\ Whole(b) \in Nat
  BY <1>1, <1>7, <1>13, OriginalsFacts DEF Whole
<1>15. Used(t) = Used(b) + take
  BY <1>1, <1>7, <1>14 DEF Used
<1>16. Consumed(t) = a
  <2>1. Consumed(t) = [i \in 1..k |-> s[i].consumed]
    BY <1>7, <1>11 DEF Consumed
  <2>2. a \in [1..k -> Nat]
    BY <1>4, LenProperties
  <2>3. QED
    BY <1>8, <2>1, <2>2
<1>17. SlicesAfter(t, Used(t)) = a
  <2>1. /\ t.mods \in Seq(Slice) /\ t.base \in Nat
    BY <1>1, <1>7, <1>10
  <2>2. SlicesAfter(t, Used(t)) = SlicesOf(Originals(t), t.base, Used(t))
    BY <2>1, OriginalsFacts
  <2>3. SlicesAfter(b, Used(t)) = SlicesOf(Originals(b), b.base, Used(t))
    BY <1>1, OriginalsFacts
  <2>4. QED
    BY <1>4, <1>7, <1>13, <1>15, <2>2, <2>3
<1>18. t.remaining <= Whole(t)
  <2>1. b.remaining <= Whole(b)
    BY DEF GoodBlock
  <2>2. QED
    BY <1>1, <1>7, <1>14, <2>1
<1>19. Consumed(t) = SlicesAfter(t, Used(t))
  BY <1>16, <1>17
<1>20. t.paid = Used(t) - Total(Consumed(t))
  <2>1. t.paid = b.paid + BasePart(b, take)
    BY <1>7
  <2>2. b.paid + BasePart(b, take) = (Used(b) + take) - Total(a)
    BY <1>4
  <2>3. QED
    BY <1>15, <1>16, <2>1, <2>2
<1>21. GoodBlock(t)
  BY <1>12, <1>18, <1>19, <1>20 DEF GoodBlock
<1>22. QED
  BY <1>5, <1>21

Mods == Seq([source : Sources, amount : Nat])

NewSlice == [source : Sources, original : Nat \ {0}, consumed : {0}]

OriginalsOf(slices) == [i \in DOMAIN slices |-> slices[i].original]

LEMMA OriginalsOfTyped ==
  ASSUME NEW s \in Seq(NewSlice)
  PROVE  /\ OriginalsOf(s) \in Seq(Nat) /\ Len(OriginalsOf(s)) = Len(s)
         /\ Len(s) \in Nat /\ DOMAIN s = 1..Len(s)
         /\ \A i \in 1..Len(s) : s[i] \in NewSlice /\ OriginalsOf(s)[i] = s[i].original
<1>1. PICK n \in Nat : n = Len(s) /\ DOMAIN s = 1..n
  BY LenProperties
<1>2. \A i \in 1..n : s[i] \in NewSlice
  BY <1>1, ElementOfSeq
<1>3. \A i \in 1..n : s[i].original \in Nat
  BY <1>2 DEF NewSlice
<1>4. PICK o : o = OriginalsOf(s)
  OBVIOUS
<1>5. o = [i \in 1..n |-> s[i].original]
  BY <1>1, <1>4 DEF OriginalsOf
<1>6. o \in [1..n -> Nat]
  BY <1>3, <1>5
<1>7. o \in Seq(Nat)
  BY <1>6, SeqDef
<1>8. Len(o) = n
  BY <1>6, <1>7, LenProperties
<1>9. QED
  BY <1>1, <1>2, <1>4, <1>5, <1>7, <1>8

\* One more slice is its points more.
LEMMA OriginalsOfAppend ==
  ASSUME NEW s \in Seq(NewSlice), NEW e \in NewSlice
  PROVE  /\ Append(s, e) \in Seq(NewSlice)
         /\ Total(OriginalsOf(Append(s, e))) = Total(OriginalsOf(s)) + e.original
<1>1. PICK n \in Nat : n = Len(s)
  BY LenProperties
<1>2. PICK a : a = Append(s, e)
  OBVIOUS
<1>3. /\ a \in Seq(NewSlice) /\ Len(a) = n + 1 /\ a[n + 1] = e
      /\ \A i \in 1..n : a[i] = s[i]
  BY <1>1, <1>2, AppendProperties
<1>4. PICK o : o = OriginalsOf(s)
  OBVIOUS
<1>5. o \in Seq(Nat) /\ Len(o) = n /\ \A i \in 1..n : o[i] = s[i].original
  BY <1>1, <1>4, OriginalsOfTyped
<1>6. e.original \in Nat
  BY DEF NewSlice
<1>7. PICK p : p = OriginalsOf(a)
  OBVIOUS
<1>8. /\ p \in Seq(Nat) /\ Len(p) = n + 1
      /\ \A i \in 1..(n + 1) : p[i] = a[i].original
  BY <1>3, <1>7, OriginalsOfTyped
<1>9. PICK q : q = Append(o, e.original)
  OBVIOUS
<1>10. /\ q \in Seq(Nat) /\ Len(q) = n + 1 /\ Total(q) = Total(o) + e.original
       /\ q[n + 1] = e.original /\ \A i \in 1..n : q[i] = o[i]
  BY <1>5, <1>6, <1>9, TotalOfAppend, AppendProperties
<1>11. \A i \in 1..(n + 1) : p[i] = q[i]
  <2>1. ASSUME NEW i \in 1..n PROVE p[i] = q[i]
    <3>1. i \in 1..(n + 1)
      OBVIOUS
    <3>2. QED
      BY <1>3, <1>5, <1>8, <1>10, <3>1
  <2>2. p[n + 1] = q[n + 1]
    <3>1. n + 1 \in 1..(n + 1)
      OBVIOUS
    <3>2. QED
      BY <1>3, <1>8, <1>10, <3>1
  <2>3. \A i \in 1..(n + 1) : i \in 1..n \/ i = n + 1
    OBVIOUS
  <2>4. QED
    BY <2>1, <2>2, <2>3
<1>12. p = q
  BY <1>8, <1>10, <1>11, SeqEqual
<1>13. QED
  BY <1>2, <1>3, <1>4, <1>7, <1>10, <1>12

LEMMA BudgetFacts ==
  ASSUME NEW mods \in Mods, NEW amount \in Nat
  PROVE  /\ Len(mods) \in Nat /\ DOMAIN mods = 1..Len(mods)
         /\ \A i \in 1..Len(mods) : mods[i].source \in Sources
         /\ [i \in DOMAIN mods |-> mods[i].amount] \in Seq(Nat)
         /\ Len([i \in DOMAIN mods |-> mods[i].amount]) = Len(mods)
         /\ ModifierBudget(mods, amount) \in Nat /\ ModifierBudget(mods, amount) <= amount
         /\ Total([i \in DOMAIN mods |-> mods[i].amount]) = 0 => ModifierBudget(mods, amount) = 0
<1>1. PICK n \in Nat : n = Len(mods) /\ DOMAIN mods = 1..n
  BY LenProperties DEF Mods
<1>2. \A i \in 1..n : mods[i] \in [source : Sources, amount : Nat]
  BY <1>1, ElementOfSeq DEF Mods
<1>3. \A i \in 1..n : mods[i].amount \in Nat /\ mods[i].source \in Sources
  BY <1>2
<1>4. PICK w : w = [i \in DOMAIN mods |-> mods[i].amount]
  OBVIOUS
<1>5. w \in [1..n -> Nat]
  BY <1>1, <1>3, <1>4
<1>6. w \in Seq(Nat)
  BY <1>5, SeqDef
<1>7. Len(w) = n
  BY <1>5, <1>6, LenProperties
<1>8. PICK t \in Nat : t = Total(w)
  BY <1>6, TotalNat
<1>9. ModifierBudget(mods, amount) = IF t < amount THEN t ELSE amount
  BY <1>4, <1>8 DEF ModifierBudget
<1>10. /\ ModifierBudget(mods, amount) \in Nat /\ ModifierBudget(mods, amount) <= amount
       /\ t = 0 => ModifierBudget(mods, amount) = 0
  BY <1>8, <1>9
<1>11. QED
  BY <1>1, <1>3, <1>4, <1>6, <1>7, <1>8, <1>10

\* The slices of a new block are those of its modifiers that have a point, and
\* have all the points the modifiers take.
LEMMA NewSlicesFacts ==
  ASSUME NEW mods \in Mods, NEW amount \in Nat
  PROVE  /\ NewSlices(mods, amount) \in Seq(NewSlice)
         /\ Total(OriginalsOf(NewSlices(mods, amount))) = ModifierBudget(mods, amount)
<1>1. PICK n \in Nat : n = Len(mods) /\ DOMAIN mods = 1..n
  BY BudgetFacts
<1>2. PICK w : w = [i \in DOMAIN mods |-> mods[i].amount]
  OBVIOUS
<1>3. PICK d \in Nat : d = ModifierBudget(mods, amount) /\ (Total(w) = 0 => d = 0)
  BY <1>2, BudgetFacts
<1>4. w \in Seq(Nat) /\ Len(w) = n
  BY <1>1, <1>2, BudgetFacts
<1>5. PICK g : g = Proportional(d, w)
  OBVIOUS
<1>6. g \in Seq(Nat) /\ Len(g) = n /\ Total(g) = d
  BY <1>3, <1>4, <1>5, ProportionalFacts
<1>7. PICK s : s = [i \in 1..n |-> [source |-> mods[i].source, original |-> g[i], consumed |-> 0]]
  OBVIOUS
<1>8. Len(s) = n
  BY <1>7
<1>9. ASSUME NEW i \in 1..n
      PROVE  g[i] \in Nat /\ s[i].original = g[i] /\ (g[i] # 0 => s[i] \in NewSlice)
  <2>1. g[i] \in Nat /\ mods[i].source \in Sources
    BY <1>1, <1>6, WeightsFacts, BudgetFacts
  <2>2. s[i] = [source |-> mods[i].source, original |-> g[i], consumed |-> 0]
    BY <1>7
  <2>3. QED
    BY <2>1, <2>2 DEF NewSlice
<1>10. NewSlices(mods, amount) = Picked(s, g)
  BY <1>1, <1>2, <1>3, <1>5, <1>7 DEF NewSlices
<1>11. PICK f : PickedBy(f, s, g, n) /\ Picked(s, g) = f[n]
  BY <1>8, PickedIs
<1> DEFINE T == {k \in Nat : /\ f[k] \in Seq(NewSlice)
                             /\ Total(OriginalsOf(f[k])) = Cumulative(g, k)}
<1>12. 0 \in T
  <2>1. f[0] = <<>>
    BY <1>11, PickedByFacts
  <2>2. f[0] \in Seq(NewSlice) /\ Len(f[0]) = 0
    BY <2>1, EmptySeq
  <2>3. Total(OriginalsOf(f[0])) = 0
    BY <2>2, OriginalsOfTyped, TotalOfEmpty
  <2>4. Cumulative(g, 0) = 0
    BY <1>6, CumulativeIs
  <2>5. QED
    BY <2>2, <2>3, <2>4
<1>13. ASSUME NEW k \in 0..(n - 1), k \in T PROVE k + 1 \in T
  <2>1. k + 1 \in 1..n /\ (k + 1) - 1 = k /\ k + 1 \in Nat
    OBVIOUS
  <2>2. f[k + 1] = IF g[k + 1] = 0 THEN f[k] ELSE Append(f[k], s[k + 1])
    BY <1>11, <2>1, PickedByFacts
  <2>3. f[k] \in Seq(NewSlice) /\ Total(OriginalsOf(f[k])) = Cumulative(g, k)
    BY <1>13
  <2>4. Cumulative(g, k + 1) = Cumulative(g, k) + g[k + 1]
    <3>1. Len(g) \in Nat /\ k + 1 \in 1..Len(g)
      BY <1>6, <2>1
    <3>2. Cumulative(g, k + 1) = Cumulative(g, (k + 1) - 1) + g[k + 1]
      BY <3>1, CumulativeIs
    <3>3. QED
      BY <2>1, <3>2
  <2>5. Cumulative(g, k) \in Nat
    <3>1. k \in 0..Len(g)
      BY <1>6
    <3>2. QED
      BY <1>6, <3>1, CumulativeNat
  <2>6. f[k + 1] \in Seq(NewSlice) /\ Total(OriginalsOf(f[k + 1])) = Cumulative(g, k + 1)
    <3>1. CASE g[k + 1] = 0
      <4>1. f[k + 1] = f[k] /\ Cumulative(g, k + 1) = Cumulative(g, k)
        BY <2>2, <2>4, <2>5, <3>1
      <4>2. QED
        BY <2>3, <4>1
    <3>2. CASE g[k + 1] # 0
      <4>1. s[k + 1] \in NewSlice /\ s[k + 1].original = g[k + 1]
        BY <1>9, <2>1, <3>2
      <4>2. f[k + 1] = Append(f[k], s[k + 1])
        BY <2>2, <3>2
      <4>3. QED
        BY <2>3, <2>4, <4>1, <4>2, OriginalsOfAppend
    <3>3. QED
      BY <3>1, <3>2
  <2>7. QED
    BY <2>1, <2>6
<1> HIDE DEF T
<1>14. n \in T
  BY <1>12, <1>13, UpTo
<1>15. f[n] \in Seq(NewSlice) /\ Total(OriginalsOf(f[n])) = Cumulative(g, n)
  BY <1>14 DEF T
<1>16. Cumulative(g, n) = d
  BY <1>6 DEF Total
<1>17. QED
  BY <1>3, <1>10, <1>11, <1>15, <1>16

LEMMA NewBlockIsGood ==
  ASSUME NEW source \in Sources, NEW amount \in Nat \ {0}, NEW mods \in Mods
  PROVE  GoodBlock(NewBlock(source, amount, mods))
<1>1. PICK d \in Nat : d = ModifierBudget(mods, amount) /\ d <= amount
  BY BudgetFacts
<1>2. PICK s : s = NewSlices(mods, amount)
  OBVIOUS
<1>3. s \in Seq(NewSlice) /\ Total(OriginalsOf(s)) = d
  BY <1>1, <1>2, NewSlicesFacts
<1>4. PICK base \in Nat : base = amount - d
  BY <1>1
<1>5. PICK b : b = NewBlock(source, amount, mods)
  OBVIOUS
<1>6. b = [source |-> source, base |-> base, paid |-> 0, remaining |-> amount, mods |-> s]
  BY <1>1, <1>2, <1>4, <1>5 DEF NewBlock
<1>7. s \in Seq(Slice)
  <2>1. NewSlice \subseteq Slice
    BY DEF NewSlice, Slice
  <2>2. QED
    BY <1>3, <2>1, SeqMonotonic
<1>8. b \in Block
  BY <1>4, <1>6, <1>7 DEF Block
<1>9. /\ b.mods = s /\ b.base = base /\ b.paid = 0 /\ b.remaining = amount
  BY <1>6
<1>10. PICK o : o = Originals(b)
  OBVIOUS
<1>11. o = OriginalsOf(s)
  BY <1>9, <1>10 DEF Originals, OriginalsOf
<1>12. /\ o \in Seq(Nat) /\ Len(o) = Len(s) /\ Whole(b) = base + Total(o)
       /\ Consumed(b) \in Seq(Nat) /\ Len(Consumed(b)) = Len(s)
       /\ \A i \in 1..Len(s) : Consumed(b)[i] = s[i].consumed
       /\ SlicesAfter(b, 0) = SlicesOf(o, base, 0)
  BY <1>7, <1>9, <1>10, OriginalsFacts
<1>13. Whole(b) = amount /\ base + Total(o) = amount
  BY <1>1, <1>3, <1>4, <1>11, <1>12
<1>14. Used(b) = 0
  BY <1>9, <1>13 DEF Used
<1>15. Consumed(b) = SlicesAfter(b, 0)
  <2>1. PICK c : c = SlicesAfter(b, 0)
    OBVIOUS
  <2>2. c = SlicesOf(o, base, 0) /\ base + Total(o) # 0
    BY <1>12, <1>13, <2>1
  <2>3. 0 <= base + Total(o)
    BY <1>13
  <2>4. c \in Seq(Nat) /\ Len(c) = Len(s) /\ \A i \in 1..Len(s) : c[i] = 0
    <3>1. c \in Seq(Nat) /\ Len(c) = Len(o)
      BY <1>12, <2>2, <2>3, SlicesFit
    <3>2. \A i \in 1..Len(o) : c[i] = 0
      BY <1>12, <2>2, NoSlicesFirst
    <3>3. QED
      BY <1>12, <3>1, <3>2
  <2>5. \A i \in 1..Len(s) : Consumed(b)[i] = 0
    <3>1. \A i \in 1..Len(s) : s[i].consumed = 0
      BY <1>3, OriginalsOfTyped DEF NewSlice
    <3>2. QED
      BY <1>12, <3>1
  <2>6. PICK u : u = Consumed(b)
    OBVIOUS
  <2>7. u \in Seq(Nat) /\ Len(u) = Len(c) /\ \A i \in 1..Len(u) : u[i] = c[i]
    BY <1>12, <2>4, <2>5, <2>6
  <2>8. u = c
    BY <2>4, <2>7, SeqEqual
  <2>9. QED
    BY <2>1, <2>6, <2>8
<1>16. Total(Consumed(b)) = 0
  <2>1. 0 <= base + Total(o) /\ base + Total(o) # 0
    BY <1>13
  <2>2. Total(SlicesOf(o, base, 0)) <= 0 /\ SlicesOf(o, base, 0) \in Seq(Nat)
    BY <1>12, <2>1, SlicesFit
  <2>3. Total(SlicesOf(o, base, 0)) \in Nat
    BY <2>2, TotalNat
  <2>4. QED
    BY <1>12, <1>15, <2>2, <2>3
<1>17. b.remaining <= Whole(b)
  BY <1>9, <1>13
<1>18. b.paid = Used(b) - Total(Consumed(b))
  BY <1>9, <1>14, <1>16
<1>19. GoodBlock(b)
  BY <1>8, <1>14, <1>15, <1>17, <1>18 DEF GoodBlock
<1>20. QED
  BY <1>5, <1>19

\* A block without modifiers is good if it has paid what it lacks.
LEMMA PlainBlock ==
  ASSUME NEW b, b \in Block, b.mods = <<>>
  PROVE  GoodBlock(b) <=> (b.remaining <= b.base /\ b.paid = b.base - b.remaining)
<1>1. b.base \in Nat /\ b.paid \in Nat /\ b.remaining \in Nat /\ b.mods \in Seq(Slice) /\ Len(b.mods) = 0
  BY BlockFacts
<1>2. Len(Originals(b)) = 0 /\ Len(Consumed(b)) = 0 /\ Consumed(b) \in Seq(Nat) /\ Originals(b) \in Seq(Nat)
  BY <1>1, OriginalsFacts
<1>3. Total(Originals(b)) = 0 /\ Total(Consumed(b)) = 0
  BY <1>2, TotalOfEmpty
<1>4. Whole(b) = b.base
  BY <1>1, <1>3 DEF Whole
<1>5. Used(b) = b.base - b.remaining
  BY <1>4 DEF Used
<1>6. Consumed(b) = SlicesAfter(b, Used(b))
  <2>1. Consumed(b) = <<>>
    BY <1>2, EmptySeq
  <2>2. SlicesAfter(b, Used(b)) = SlicesOf(Originals(b), b.base, Used(b))
    BY <1>1, OriginalsFacts
  <2>3. SlicesOf(Originals(b), b.base, Used(b)) = <<>>
    BY <1>2 DEF SlicesOf
  <2>4. QED
    BY <2>1, <2>2, <2>3
<1>7. Used(b) - Total(Consumed(b)) = b.base - b.remaining
  BY <1>1, <1>3, <1>5
<1>8. QED
  BY <1>4, <1>6, <1>7 DEF GoodBlock

----------------------------------------------------------------------------
(***************************************************************************)
(* The queues of blocks and of Osty, and the steps of a stage.             *)
(***************************************************************************)

GoodPools == [blocks : Seq(GoodBlocks), osty : Seq(Summoned)]

CountSteps  == [op : {"count"}, amount : Nat]
PushSteps   == [op : {"push"}, slot : Slots, amount : Nat \ {0}, source : Sources, mods : Mods]
MeetSteps   == [op : {"hit", "lose", "absorb"}, slot : Slots, amount : Nat \ {0}]
SummonSteps == [op : {"summon"}, slot : Slots, source : Sources, amount : Nat \ {0}]
KillSteps   == [op : {"kill"}, slot : Slots, source : Sources \cup {None}]
BurySteps   == [op : {"bury"}, slot : Slots]

Steps == UNION {CountSteps, CreditSteps, PushSteps, MeetSteps, SummonSteps, KillSteps, BurySteps}

LEMMA StepsByOp ==
  ASSUME NEW step \in Steps
  PROVE  /\ step.op = "count" => step \in CountSteps
         /\ step.op = "credit" => step \in CreditSteps
         /\ step.op = "push" => step \in PushSteps
         /\ step.op \in {"hit", "lose", "absorb"} => step \in MeetSteps
         /\ step.op = "summon" => step \in SummonSteps
         /\ step.op = "kill" => step \in KillSteps
         /\ step.op = "bury" => step \in BurySteps
<1>1. CASE step \in CountSteps
  BY <1>1 DEF CountSteps
<1>2. CASE step \in CreditSteps
  BY <1>2 DEF CreditSteps
<1>3. CASE step \in PushSteps
  BY <1>3 DEF PushSteps
<1>4. CASE step \in MeetSteps
  BY <1>4 DEF MeetSteps
<1>5. CASE step \in SummonSteps
  BY <1>5 DEF SummonSteps
<1>6. CASE step \in KillSteps
  BY <1>6 DEF KillSteps
<1>7. CASE step \in BurySteps
  BY <1>7 DEF BurySteps
<1>8. QED
  BY <1>1, <1>2, <1>3, <1>4, <1>5, <1>6, <1>7 DEF Steps

LEMMA CreditsAreSteps == ASSUME NEW s \in Seq(CreditSteps) PROVE s \in Seq(Steps)
<1>1. CreditSteps \subseteq Steps
  BY DEF Steps
<1>2. QED
  BY <1>1, SeqMonotonic

LEMMA OneStep == ASSUME NEW step \in Steps PROVE <<step>> \in Seq(Steps)
OBVIOUS

LEMMA GoodBlocksAre == \A b : b \in GoodBlocks <=> GoodBlock(b)
BY DEF GoodBlocks, GoodBlock

LEMMA FrontTyped ==
  ASSUME NEW S, NEW q \in Seq(S), q # <<>>
  PROVE  Front(q) \in Seq(S) /\ Last(q) \in S /\ Len(q) \in Nat /\ Len(q) # 0 /\ Len(q) \in 1..Len(q)
<1>1. PICK n \in Nat : n = Len(q) /\ n # 0
  <2>1. Len(q) \in Nat \ {0}
    BY EmptySeq
  <2>2. QED
    BY <2>1
<1>2. \A i \in 1..n : q[i] \in S
  BY <1>1, ElementOfSeq
<1>3. \A i \in 1..(n - 1) : q[i] \in S
  BY <1>2
<1>4. SubSeq(q, 1, n - 1) \in Seq(S)
  BY <1>3, SubSeqProperties
<1>5. QED
  BY <1>1, <1>2, <1>4 DEF Front, Last

\* A queue of good blocks stays one when its head gives points.
LEMMA HeadTakenTyped ==
  ASSUME NEW q \in Seq(GoodBlocks), q # <<>>, NEW take \in Nat \ {0}, take <= q[1].remaining
  PROVE  HeadTaken(q, take) \in Seq(GoodBlocks)
<1>1. Tail(q) \in Seq(GoodBlocks)
  BY HeadTailProperties
<1>2. GoodBlock(q[1])
  <2>1. 1 \in 1..Len(q)
    BY FrontTyped
  <2>2. QED
    BY <2>1, ElementOfSeq, GoodBlocksAre
<1>3. CASE q[1].remaining = take
  BY <1>1, <1>3 DEF HeadTaken
<1>4. CASE q[1].remaining # take
  <2>1. q[1].remaining \in Nat
    BY <1>2, BlockFacts DEF GoodBlock
  <2>2. Taken(q[1], take) \in GoodBlocks
    BY <1>2, <1>4, <2>1, TakenIsGood, GoodBlocksAre
  <2>3. <<Taken(q[1], take)>> \in Seq(GoodBlocks)
    BY <2>2
  <2>4. HeadTaken(q, take) = <<Taken(q[1], take)>> \o Tail(q)
    BY <1>4 DEF HeadTaken
  <2>5. QED
    BY <1>1, <2>3, <2>4, ConcatProperties
<1>5. QED
  BY <1>3, <1>4

LEMMA MergedIsGood ==
  ASSUME NEW b, GoodBlock(b), b.mods = <<>>, NEW amount \in Nat \ {0}
  PROVE  GoodBlock([b EXCEPT !.base = @ + amount, !.remaining = @ + amount])
<1>1. /\ b.source \in Sources /\ b.base \in Nat /\ b.paid \in Nat
      /\ b.remaining \in Nat /\ b.remaining # 0 /\ b.mods \in Seq(Slice)
      /\ b = [source |-> b.source, base |-> b.base, paid |-> b.paid,
              remaining |-> b.remaining, mods |-> b.mods]
  BY BlockFacts DEF GoodBlock
<1>2. PICK t : t = [b EXCEPT !.base = @ + amount, !.remaining = @ + amount]
  OBVIOUS
<1>3. t = [source |-> b.source, base |-> b.base + amount, paid |-> b.paid,
           remaining |-> b.remaining + amount, mods |-> b.mods]
  BY <1>1, <1>2
<1>4. t \in Block
  <2>1. b.base + amount \in Nat /\ b.remaining + amount \in Nat \ {0}
    BY <1>1
  <2>2. QED
    BY <1>1, <1>3, <2>1 DEF Block
<1>5. b.remaining <= b.base /\ b.paid = b.base - b.remaining
  BY PlainBlock DEF GoodBlock
<1>6. /\ t.mods = <<>> /\ t.paid = b.paid /\ t.base = b.base + amount
      /\ t.remaining = b.remaining + amount
  BY <1>3
<1>7. t.remaining <= t.base /\ t.paid = t.base - t.remaining
  BY <1>1, <1>5, <1>6
<1>8. GoodBlock(t)
  BY <1>4, <1>6, <1>7, PlainBlock
<1>9. QED
  BY <1>2, <1>8

LEMMA ForgottenIsGood ==
  ASSUME NEW slot \in Slots, NEW b, GoodBlock(b), NEW amount \in Nat \ {0}
  PROVE  GoodBlock(Forgotten(slot, b, amount))
<1>1. PICK r \in Nat : r = b.remaining + amount /\ r # 0
  <2>1. b.remaining \in Nat
    BY BlockFacts DEF GoodBlock
  <2>2. b.remaining + amount \in Nat /\ b.remaining + amount # 0
    BY <2>1
  <2>3. QED
    BY <2>2
<1>2. PICK t : t = Forgotten(slot, b, amount)
  OBVIOUS
<1>3. t = [source |-> UnknownFor(slot), base |-> r, paid |-> 0, remaining |-> r, mods |-> <<>>]
  BY <1>1, <1>2 DEF Forgotten
<1>4. UnknownFor(slot) \in Sources
  BY UnknownIsSource
<1>5. <<>> \in Seq(Slice)
  BY EmptySeq
<1>6. t \in Block
  BY <1>1, <1>3, <1>4, <1>5 DEF Block
<1>7. t.mods = <<>> /\ t.paid = 0 /\ t.base = r /\ t.remaining = r
  BY <1>3
<1>8. t.remaining <= t.base /\ t.paid = t.base - t.remaining
  BY <1>7
<1>9. GoodBlock(t)
  BY <1>6, <1>7, <1>8, PlainBlock
<1>10. QED
  BY <1>2, <1>9

\* And when block is gained, whether it merges, is new, or is forgotten.
LEMMA PushedTyped ==
  ASSUME NEW q \in Seq(GoodBlocks), NEW slot \in Slots, NEW source \in Sources,
         NEW amount \in Nat \ {0}, NEW mods \in Mods
  PROVE  Pushed(q, slot, source, amount, mods) \in Seq(GoodBlocks)
<1>1. NewBlock(source, amount, mods) \in GoodBlocks
  BY NewBlockIsGood, GoodBlocksAre
<1>2. CASE Merges(q, source, amount, mods)
  <2>1. q # <<>> /\ Last(q).mods = <<>>
    BY <1>2 DEF Merges
  <2>2. PICK n \in Nat : n = Len(q) /\ n \in 1..Len(q)
    BY <2>1, FrontTyped
  <2>3. PICK b : b = q[n]
    OBVIOUS
  <2>4. GoodBlock(b) /\ b.mods = <<>>
    BY <2>1, <2>2, <2>3, ElementOfSeq, GoodBlocksAre DEF Last
  <2>5. PICK t : t = [b EXCEPT !.base = @ + amount, !.remaining = @ + amount]
    OBVIOUS
  <2>6. t \in GoodBlocks
    BY <2>4, <2>5, MergedIsGood, GoodBlocksAre
  <2>7. Pushed(q, slot, source, amount, mods) = [q EXCEPT ![n] = t]
    <3>1. Pushed(q, slot, source, amount, mods)
            = [q EXCEPT ![n].base = @ + amount, ![n].remaining = @ + amount]
      BY <1>2, <2>2 DEF Pushed
    <3>2. n \in DOMAIN q
      BY <2>2, LenProperties
    <3>3. q = [i \in DOMAIN q |-> q[i]]
      BY LenProperties
    <3>4. [q EXCEPT ![n].base = @ + amount, ![n].remaining = @ + amount] = [q EXCEPT ![n] = t]
      BY <2>3, <2>5, <3>2, <3>3
    <3>5. QED
      BY <3>1, <3>4
  <2>8. [q EXCEPT ![n] = t] \in Seq(GoodBlocks)
    BY <2>2, <2>6, ExceptSeq
  <2>9. QED
    BY <2>7, <2>8
<1>3. CASE ~Merges(q, source, amount, mods) /\ Len(q) = MaxBlocks
  <2>1. q # <<>>
    <3>1. Len(q) # 0
      BY <1>3, PoolConstants
    <3>2. QED
      BY <3>1, EmptySeq
  <2>2. Front(q) \in Seq(GoodBlocks) /\ GoodBlock(Last(q))
    BY <2>1, FrontTyped, GoodBlocksAre
  <2>3. Forgotten(slot, Last(q), amount) \in GoodBlocks
    BY <2>2, ForgottenIsGood, GoodBlocksAre
  <2>4. Pushed(q, slot, source, amount, mods) = Append(Front(q), Forgotten(slot, Last(q), amount))
    BY <1>3 DEF Pushed
  <2>5. QED
    BY <2>2, <2>3, <2>4, AppendProperties
<1>4. CASE ~Merges(q, source, amount, mods) /\ Len(q) # MaxBlocks
  <2>1. Pushed(q, slot, source, amount, mods) = Append(q, NewBlock(source, amount, mods))
    BY <1>4 DEF Pushed
  <2>2. QED
    BY <1>1, <2>1, AppendProperties
<1>5. QED
  BY <1>2, <1>3, <1>4

LEMMA LastTakenTyped ==
  ASSUME NEW q \in Seq(Summoned), q # <<>>, NEW take \in Nat \ {0}, take <= Last(q).remaining
  PROVE  LastTaken(q, take) \in Seq(Summoned)
<1>1. Front(q) \in Seq(Summoned) /\ Last(q) \in Summoned
  BY FrontTyped
<1>2. CASE Last(q).remaining = take
  BY <1>1, <1>2 DEF LastTaken
<1>3. CASE Last(q).remaining # take
  <2>1. PICK n \in Nat : n = Len(q) /\ n \in 1..Len(q)
    BY FrontTyped
  <2>2. PICK o : o = q[n] /\ o = Last(q)
    BY <2>1 DEF Last
  <2>3. o \in Summoned /\ o.paid \in Nat /\ o.remaining \in Nat
    BY <1>1, <2>2 DEF Summoned
  <2>4. PICK t : t = [o EXCEPT !.paid = @ + take, !.remaining = @ - take]
    OBVIOUS
  <2>5. o.paid + take \in Nat /\ o.remaining - take \in Nat \ {0}
    BY <1>3, <2>2, <2>3
  <2>6. t \in Summoned
    <3>1. /\ o.source \in Sources
          /\ o = [source |-> o.source, paid |-> o.paid, remaining |-> o.remaining]
      BY <2>3 DEF Summoned
    <3>2. t = [source |-> o.source, paid |-> o.paid + take, remaining |-> o.remaining - take]
      BY <2>4, <3>1
    <3>3. QED
      BY <2>5, <3>1, <3>2 DEF Summoned
  <2>7. LastTaken(q, take) = [q EXCEPT ![n].paid = @ + take, ![n].remaining = @ - take]
    BY <1>3, <2>1 DEF LastTaken
  <2>8. [q EXCEPT ![n].paid = @ + take, ![n].remaining = @ - take] = [q EXCEPT ![n] = t]
    <3>1. n \in DOMAIN q /\ q = [i \in DOMAIN q |-> q[i]]
      BY <2>1, LenProperties
    <3>2. QED
      BY <2>2, <2>4, <3>1
  <2>9. [q EXCEPT ![n] = t] \in Seq(Summoned)
    BY <2>1, <2>6, ExceptSeq
  <2>10. QED
    BY <2>7, <2>8, <2>9
<1>4. QED
  BY <1>2, <1>3

----------------------------------------------------------------------------
(***************************************************************************)
(* The stage: its journal restores what there was before the call.         *)
(***************************************************************************)

\* The ledger and the pools are what the stage may restore.
Shape ==
  /\ ledger = [r \in DOMAIN ledger |-> ledger[r]]
  /\ Len(pools) \in Nat
  /\ pools = [s \in 1..Len(pools) |-> pools[s]]

\* The rows: those there were are journaled or as they were.
RowsKept ==
  /\ before[1] = [r \in DOMAIN before[1] |-> before[1][r]]
  /\ stage.known = DOMAIN before[1]
  /\ stage.known \subseteq DOMAIN ledger
  /\ \A r \in stage.known :
        IF r \in DOMAIN stage.rows THEN stage.rows[r] = before[1][r] ELSE ledger[r] = before[1][r]

\* The pools: those there were are journaled or as they were.
PoolsKept ==
  /\ Len(before[2]) \in Nat
  /\ before[2] = [s \in 1..Len(before[2]) |-> before[2][s]]
  /\ stage.count = Len(before[2])
  /\ stage.count <= Len(pools)
  /\ \A s \in 1..stage.count :
        IF s \in DOMAIN stage.pools THEN stage.pools[s] = before[2][s] ELSE pools[s] = before[2][s]

CountersKept == stage.blockTotal = before[3] /\ stage.crowded = before[4]

\* What a stage is made of.
StageFields ==
  stage = [steps |-> stage.steps, known |-> stage.known, rows |-> stage.rows,
           count |-> stage.count, pools |-> stage.pools, blockTotal |-> stage.blockTotal,
           crowded |-> stage.crowded, lost |-> stage.lost]

Kept == stage # None => /\ StageFields
                        /\ before = <<before[1], before[2], before[3], before[4]>>
                        /\ RowsKept
                        /\ PoolsKept
                        /\ CountersKept

IInv == Shape /\ Kept

\* The journal restores what there was: Recoverable follows from the invariant.
LEMMA KeptRestores == ASSUME IInv PROVE Recoverable
<1>. SUFFICES ASSUME stage # None PROVE Restored = before
  BY DEF Recoverable
<1>. USE DEF IInv, Kept
<1>1. RestoredLedger = before[1]
  <2>1. RestoredLedger = [r \in DOMAIN before[1] |-> before[1][r]]
    BY DEF RestoredLedger, RowsKept
  <2>. QED BY <2>1 DEF RowsKept
<1>2. RestoredPools = before[2]
  <2>1. RestoredPools = [s \in 1..Len(before[2]) |-> before[2][s]]
    BY DEF RestoredPools, PoolsKept
  <2>. QED BY <2>1 DEF PoolsKept
<1>. QED BY <1>1, <1>2 DEF Restored, CountersKept

\* A stage that was just opened has nothing to restore.
LEMMA OpenKeeps == ASSUME IInv, NEW steps, Open(steps) PROVE IInv'
<1>. USE DEF IInv, Open, data
<1>1. Shape'
  BY DEF Shape
<1>2. stage' = [steps |-> steps, known |-> DOMAIN ledger, rows |-> <<>>,
                count |-> Len(pools), pools |-> <<>>,
                blockTotal |-> blockTotal, crowded |-> crowded, lost |-> FALSE]
  OBVIOUS
<1>3. before' = <<ledger, pools, blockTotal, crowded>>
  OBVIOUS
<1>4. DOMAIN stage'.rows = {} /\ DOMAIN stage'.pools = {}
  BY <1>2
<1>5. StageFields'
  BY <1>2 DEF StageFields
<1>6. RowsKept'
  BY <1>2, <1>3, <1>4 DEF RowsKept, Shape
<1>7. PoolsKept'
  BY <1>2, <1>3, <1>4 DEF PoolsKept, Shape
<1>8. CountersKept'
  BY <1>2, <1>3 DEF CountersKept
<1>. QED BY <1>1, <1>3, <1>5, <1>6, <1>7, <1>8 DEF Kept

\* A step that touches one row journals it, if it was there.
LEMMA RowStepKeeps ==
  ASSUME IInv, stage # None, NEW to, NEW row, NEW steps, UNCHANGED <<pools, before>>,
         ledger' = Put(ledger, to, row),
         stage' = [stage EXCEPT !.steps = steps, !.rows = RowJournal(to)]
  PROVE  IInv'
<1>. USE DEF IInv, Kept
<1>1. Shape'
  BY DEF Shape, Put
<1>2. stage' = [steps |-> steps, known |-> stage.known, rows |-> RowJournal(to),
                count |-> stage.count, pools |-> stage.pools, blockTotal |-> stage.blockTotal,
                crowded |-> stage.crowded, lost |-> stage.lost]
  BY DEF StageFields
<1>3. DOMAIN ledger' = DOMAIN ledger \cup {to}
  BY DEF Put
<1>4. ASSUME NEW r \in stage.known
      PROVE  IF r \in DOMAIN stage'.rows THEN stage'.rows[r] = before[1][r]
             ELSE ledger'[r] = before[1][r]
  <2>1. CASE to \in stage.known \ DOMAIN stage.rows
    <3>1. stage'.rows = Put(stage.rows, to, ledger[to])
      BY <2>1, <1>2 DEF RowJournal
    <3>2. ledger[to] = before[1][to]
      BY <2>1 DEF RowsKept
    <3>. QED BY <2>1, <3>1, <3>2, <1>3 DEF Put, RowsKept
  <2>2. CASE to \notin stage.known \ DOMAIN stage.rows
    <3>1. stage'.rows = stage.rows
      BY <2>2, <1>2 DEF RowJournal
    <3>. QED BY <2>2, <3>1, <1>3 DEF Put, RowsKept
  <2>. QED BY <2>1, <2>2
<1>5. RowsKept'
  BY <1>2, <1>3, <1>4 DEF RowsKept
<1>6. PoolsKept'
  BY <1>2 DEF PoolsKept
<1>7. StageFields' /\ CountersKept'
  BY <1>2 DEF StageFields, CountersKept
<1>. QED BY <1>1, <1>5, <1>6, <1>7

\* A step that touches one pool journals it, if it was there.
LEMMA PoolTouched ==
  ASSUME IInv, stage # None, NEW slot \in Slots, NEW pool, UNCHANGED before,
         pools' = WithPool(slot, pool), stage'.pools = PoolJournal(slot),
         stage'.count = stage.count
  PROVE  PoolsKept' /\ Len(pools') \in Nat /\ pools' = [s \in 1..Len(pools') |-> pools'[s]]
<1>. USE DEF IInv, Kept
<1>. DEFINE top == IF slot > Len(pools) THEN slot ELSE Len(pools)
<1>1. slot \in Nat /\ slot >= 1
  BY PoolConstants DEF Slots
<1>2. top \in Nat /\ top >= Len(pools)
  BY <1>1 DEF Shape
<1>3. pools' = [s \in 1..top |-> IF s = slot THEN pool ELSE PoolOf(s)]
  BY DEF WithPool
<1>4. Len(pools') = top
  BY <1>2, <1>3
<1>5. ASSUME NEW s \in 1..stage.count
      PROVE  IF s \in DOMAIN stage'.pools THEN stage'.pools[s] = before[2][s]
             ELSE pools'[s] = before[2][s]
  <2>1. s \in 1..Len(pools) /\ s \in 1..top
    BY <1>2 DEF PoolsKept, Shape
  <2>2. s # slot => pools'[s] = pools[s]
    BY <2>1, <1>3 DEF PoolOf, Shape
  <2>3. CASE slot <= stage.count /\ slot \notin DOMAIN stage.pools
    <3>1. stage'.pools = Put(stage.pools, slot, pools[slot])
      BY <2>3 DEF PoolJournal
    <3>2. slot \in 1..stage.count
      BY <1>1, <2>3 DEF PoolsKept
    <3>3. pools[slot] = before[2][slot]
      BY <2>3, <3>2 DEF PoolsKept
    <3>. QED BY <2>2, <3>1, <3>3 DEF Put, PoolsKept
  <2>4. CASE ~(slot <= stage.count /\ slot \notin DOMAIN stage.pools)
    <3>1. stage'.pools = stage.pools
      BY <2>4 DEF PoolJournal
    <3>2. s = slot => s \in DOMAIN stage.pools
      BY <2>4, <1>1 DEF PoolsKept
    <3>. QED BY <2>2, <3>1, <3>2 DEF PoolsKept
  <2>. QED BY <2>3, <2>4
<1>6. PoolsKept'
  BY <1>2, <1>4, <1>5 DEF PoolsKept, Shape
<1>7. pools' = [s \in 1..Len(pools') |-> pools'[s]]
  BY <1>3, <1>4
<1>. QED BY <1>2, <1>4, <1>6, <1>7

LEMMA ProceedWithKeeps ==
  ASSUME IInv, stage # None, NEW slot, NEW pool, NEW steps, NEW lost,
         ProceedWith(slot, pool, steps, lost)
  PROVE  IInv'
<1>. USE DEF IInv, Kept
<1>1. stage' = [steps |-> steps, known |-> stage.known, rows |-> stage.rows,
                count |-> stage.count, pools |-> PoolJournal(slot),
                blockTotal |-> stage.blockTotal, crowded |-> stage.crowded,
                lost |-> stage.lost \/ lost]
  BY DEF ProceedWith, StageFields
<1>2. slot \in Slots /\ pools' = WithPool(slot, pool) /\ UNCHANGED <<ledger, before>>
  BY DEF ProceedWith
<1>3. stage'.pools = PoolJournal(slot) /\ stage'.count = stage.count
  BY <1>1
<1>4. PoolsKept' /\ Len(pools') \in Nat /\ pools' = [s \in 1..Len(pools') |-> pools'[s]]
  BY <1>2, <1>3, PoolTouched
<1>5. Shape'
  BY <1>2, <1>4 DEF Shape
<1>6. RowsKept'
  BY <1>1, <1>2 DEF RowsKept
<1>7. StageFields' /\ CountersKept'
  BY <1>1, <1>2 DEF StageFields, CountersKept
<1>. QED BY <1>2, <1>4, <1>5, <1>6, <1>7

\* Outside a stage, only the shape of the ledger and of the pools matters.
LEMMA RollBackKeeps == ASSUME IInv, stage # None, RollBack PROVE IInv'
<1>1. ledger' = before[1] /\ pools' = before[2]
  BY KeptRestores DEF RollBack, Recoverable, Restored, IInv, Kept
<1>2. Shape'
  BY <1>1 DEF Shape, IInv, Kept, RowsKept, PoolsKept
<1>. QED BY <1>2 DEF IInv, Kept, RollBack

LEMMA InitKept == Init => IInv
<1>. SUFFICES ASSUME Init PROVE IInv
  OBVIOUS
<1>1. ledger = [r \in DOMAIN ledger |-> ledger[r]]
  BY DEF Init
<1>2. Len(pools) = 0 /\ pools = [s \in 1..0 |-> pools[s]]
  BY DEF Init
<1>. QED BY <1>1, <1>2 DEF Init, IInv, Shape, Kept

LEMMA CallKeeps ==
  ASSUME IInv,
         \/ \E s \in Receivers, p \in Snapshots \cup {None}, n \in Amounts, m \in Modifiers \cup {None} :
               BlockGained(s, p, n, m)
         \/ \E s \in Receivers, n \in Amounts : BlockPoolLoss(s, n)
         \/ \E s \in Receivers, p \in Snapshots, n \in Amounts : OstySummoned(s, p, n)
         \/ \E s \in Receivers, p \in Snapshots \cup {None} : OstyKilled(s, p)
         \/ \E results \in BoundedSeq(Results, MaxResults) : DamageCommit(results)
  PROVE  IInv'
<1>. DEFINE Opened == \E steps : Open(steps)
<1>1. ASSUME NEW s, NEW p, NEW n, NEW m, BlockGained(s, p, n, m) PROVE Opened
  BY <1>1 DEF BlockGained
<1>2. ASSUME NEW s, NEW n, BlockPoolLoss(s, n) PROVE Opened
  BY <1>2 DEF BlockPoolLoss
<1>3. ASSUME NEW s, NEW p, NEW n, OstySummoned(s, p, n) PROVE Opened
  BY <1>3 DEF OstySummoned
<1>4. ASSUME NEW s, NEW p, OstyKilled(s, p) PROVE Opened
  BY <1>4 DEF OstyKilled
<1>5. ASSUME NEW results, DamageCommit(results) PROVE Opened
  BY <1>5 DEF DamageCommit
<1>6. Opened
  <2>. HIDE DEF Opened
  <2>. QED BY <1>1, <1>2, <1>3, <1>4, <1>5
<1>. QED BY <1>6, OpenKeeps

LEMMA ClearKeeps == ASSUME IInv, NEW slot, BlockPoolClear(slot) PROVE IInv'
<1>. DEFINE cleared == [s \in 1..Len(pools) |->
                          IF s = slot THEN [pools[s] EXCEPT !.blocks = <<>>] ELSE pools[s]]
<1>1. DOMAIN pools = 1..Len(pools)
  BY DEF IInv, Shape
<1>2. pools' = cleared
  BY <1>1 DEF BlockPoolClear
<1>3. Len(cleared) = Len(pools)
  BY DEF IInv, Shape
<1>4. Shape'
  BY <1>2, <1>3 DEF BlockPoolClear, IInv, Shape
<1>. QED BY <1>4 DEF BlockPoolClear, IInv, Kept

LEMMA CountGainKeeps == ASSUME IInv, CountGain PROVE IInv'
<1>1. stage # None
  BY DEF CountGain, Doing
<1>2. CASE RollBack
  BY <1>1, <1>2, RollBackKeeps
<1>3. CASE Proceed(Rest) /\ UNCHANGED <<ledger, crowded>>
  <2>1. stage' = [steps |-> Rest, known |-> stage.known, rows |-> stage.rows,
                  count |-> stage.count, pools |-> stage.pools, blockTotal |-> stage.blockTotal,
                  crowded |-> stage.crowded, lost |-> stage.lost]
    BY <1>1, <1>3 DEF Proceed, IInv, Kept, StageFields
  <2>2. UNCHANGED <<ledger, pools, before>>
    BY <1>3 DEF Proceed
  <2>3. Shape' /\ RowsKept' /\ PoolsKept' /\ CountersKept' /\ StageFields'
    BY <1>1, <2>1, <2>2 DEF IInv, Kept, Shape, RowsKept, PoolsKept, CountersKept, StageFields
  <2>. QED BY <1>1, <2>2, <2>3 DEF IInv, Kept
<1>. QED BY <1>2, <1>3 DEF CountGain

LEMMA CreditKeeps == ASSUME IInv, Credit PROVE IInv'
<1>1. stage # None
  BY DEF Credit, Doing
<1>2. CASE RollBack
  BY <1>1, <1>2, RollBackKeeps
<1>3. ASSUME NEW to, NEW row, ledger' = Put(ledger, to, row), UNCHANGED <<pools, before>>,
             stage' = [stage EXCEPT !.steps = Rest, !.rows = RowJournal(to)]
      PROVE  IInv'
  BY <1>1, <1>3, RowStepKeeps
<1>. QED BY <1>2, <1>3 DEF Credit

\* No Osty left: a pool is touched, and a row may be made, which the journal need not have.
LEMMA NoOstyKeeps == ASSUME IInv, NoOstyLeft PROVE IInv'
<1>1. stage # None
  BY DEF NoOstyLeft, Doing
<1>. DEFINE step == Head(stage.steps)
<1>. DEFINE row == IF RowsFull THEN UnknownOf(Team) ELSE Osty
<1>2. /\ step.slot \in Slots
      /\ pools' = WithPool(step.slot, PoolOf(step.slot))
      /\ ledger' = IF row \in DOMAIN ledger THEN ledger ELSE Put(ledger, row, NoCredit)
      /\ stage' = [stage EXCEPT !.steps = <<CreditStep(row, "effective", step.amount)>> \o Rest,
                                !.pools = PoolJournal(step.slot)]
      /\ UNCHANGED before
  BY DEF NoOstyLeft
<1>. DEFINE slot == step.slot
            left == <<CreditStep(row, "effective", step.amount)>> \o Rest
            pool == PoolOf(slot)
<1>3. slot \in Slots /\ pools' = WithPool(slot, pool)
  BY <1>2
<1>4. stage' = [stage EXCEPT !.steps = left, !.pools = PoolJournal(slot)]
  BY <1>2
<1>5. ledger' = IF row \in DOMAIN ledger THEN ledger ELSE Put(ledger, row, NoCredit)
  BY <1>2
<1>6. UNCHANGED before
  BY <1>2
<1>. HIDE DEF step, row, slot, left, pool
<1>7. stage' = [steps |-> left, known |-> stage.known, rows |-> stage.rows,
                count |-> stage.count, pools |-> PoolJournal(slot),
                blockTotal |-> stage.blockTotal, crowded |-> stage.crowded, lost |-> stage.lost]
  BY <1>1, <1>4 DEF IInv, Kept, StageFields
<1>8. stage'.pools = PoolJournal(slot) /\ stage'.count = stage.count
  BY <1>7
<1>9. PoolsKept' /\ Len(pools') \in Nat /\ pools' = [s \in 1..Len(pools') |-> pools'[s]]
  BY <1>1, <1>3, <1>6, <1>8, PoolTouched
<1>10. /\ ledger' = [r \in DOMAIN ledger' |-> ledger'[r]]
       /\ DOMAIN ledger \subseteq DOMAIN ledger'
       /\ \A r \in DOMAIN ledger : ledger'[r] = ledger[r]
  BY <1>5 DEF IInv, Shape, Put
<1>11. RowsKept'
  BY <1>1, <1>6, <1>7, <1>10 DEF IInv, Kept, RowsKept
<1>12. StageFields' /\ CountersKept'
  BY <1>1, <1>6, <1>7 DEF IInv, Kept, StageFields, CountersKept
<1>. QED BY <1>1, <1>6, <1>9, <1>10, <1>11, <1>12 DEF IInv, Kept, Shape

\* The steps that only put another pool in place of the pool of their slot.
LEMMA PoolStepKeeps ==
  ASSUME IInv, Push \/ TakeBlock \/ NoBlockLeft \/ TakeOsty \/ SummonStep \/ KillStep \/ BuryStep
  PROVE  IInv'
<1>1. stage # None
  BY DEF Doing, Push, TakeBlock, NoBlockLeft, TakeOsty, SummonStep, KillStep, BuryStep
<1>. DEFINE Moved == \E slot, pool, steps, lost : ProceedWith(slot, pool, steps, lost)
<1>3. Moved \/ RollBack
  <2>1. CASE Push
    BY <2>1 DEF Push
  <2>2. CASE TakeBlock
    BY <2>2 DEF TakeBlock
  <2>3. CASE NoBlockLeft
    BY <2>3 DEF NoBlockLeft
  <2>4. CASE TakeOsty
    BY <2>4 DEF TakeOsty
  <2>5. CASE SummonStep
    BY <2>5 DEF SummonStep
  <2>6. CASE KillStep
    BY <2>6 DEF KillStep
  <2>7. CASE BuryStep
    BY <2>7 DEF BuryStep
  <2>. QED BY <2>1, <2>2, <2>3, <2>4, <2>5, <2>6, <2>7
<1>. QED BY <1>1, <1>3, ProceedWithKeeps, RollBackKeeps

LEMMA NextKeeps == IInv /\ [Next]_vars => IInv'
<1>. SUFFICES ASSUME IInv, [Next]_vars PROVE IInv'
  OBVIOUS
<1>1. ASSUME NEW s \in Receivers, BlockPoolClear(s) PROVE IInv'
  BY <1>1, ClearKeeps
<1>2. CASE Refuse
  BY <1>2 DEF Refuse, data, IInv, Shape, Kept
<1>3. CASE Commit
  BY <1>3 DEF Commit, data, IInv, Shape, Kept
<1>4. CASE FailCommit
  BY <1>4, RollBackKeeps DEF FailCommit
<1>5. CASE UNCHANGED vars
  BY <1>5 DEF vars, data, IInv, Shape, Kept, StageFields, RowsKept, PoolsKept, CountersKept
<1>. QED BY <1>1, <1>2, <1>3, <1>4, <1>5, CallKeeps, CountGainKeeps, CreditKeeps, NoOstyKeeps,
            PoolStepKeeps DEF Next

\* At every step of every call, whatever it has changed by then, its journal
\* restores what there was before it (LedgerStage::drop), for all pools, rows,
\* sources and amounts.
THEOREM CallsAreRecoverable == Spec => []Recoverable
<1>1. IInv => Recoverable
  BY KeptRestores
<1>. QED BY <1>1, InitKept, NextKeeps, PTL DEF Spec

\* A call that fails leaves the ledger, the pools and the two counters as they
\* were before its first step.
Undone == stage # None /\ RollBack => <<ledger', pools', blockTotal', crowded'>> = before

THEOREM FailureChangesNothing == Spec => [][Undone]_vars
<1>1. IInv /\ [Next]_vars => Undone
  BY KeptRestores DEF Undone, RollBack, Recoverable, Restored
<1>. QED BY <1>1, InitKept, NextKeeps, PTL DEF Spec

----------------------------------------------------------------------------
(***************************************************************************)
(* The pools: every block of theirs is good at every step of every call.   *)
(***************************************************************************)

\* The pools hold good blocks, and so do those a failed call would put back.
Sound ==
  /\ pools \in Seq(GoodPools)
  /\ stage # None => stage.steps \in Seq(Steps) /\ before[2] \in Seq(GoodPools)
  /\ ~short

LEMMA SlotFacts == ASSUME NEW slot \in Slots PROVE slot \in Nat \ {0}
BY PoolConstants DEF Slots

LEMMA PoolIsGood ==
  ASSUME pools \in Seq(GoodPools), NEW slot \in Nat \ {0}
  PROVE  PoolOf(slot) \in GoodPools
<1>1. CASE slot <= Len(pools)
  <2>1. slot \in 1..Len(pools)
    BY <1>1, LenProperties
  <2>2. pools[slot] \in GoodPools
    BY <2>1, ElementOfSeq
  <2>3. QED
    BY <1>1, <2>2 DEF PoolOf
<1>2. CASE ~(slot <= Len(pools))
  <2>1. PoolOf(slot) = EmptyPool
    BY <1>2 DEF PoolOf
  <2>2. EmptyPool \in GoodPools
    BY EmptySeq DEF EmptyPool, GoodPools
  <2>3. QED
    BY <2>1, <2>2
<1>3. QED
  BY <1>1, <1>2

LEMMA PoolTyped ==
  ASSUME Sound, NEW slot \in Slots
  PROVE  /\ PoolOf(slot) \in GoodPools
         /\ PoolOf(slot).blocks \in Seq(GoodBlocks)
         /\ PoolOf(slot).osty \in Seq(Summoned)
         /\ \A q \in Seq(GoodBlocks) : [PoolOf(slot) EXCEPT !.blocks = q] \in GoodPools
         /\ \A q \in Seq(Summoned) : [PoolOf(slot) EXCEPT !.osty = q] \in GoodPools
<1>1. PICK pool \in GoodPools : pool = PoolOf(slot)
  BY SlotFacts, PoolIsGood DEF Sound
<1>2. \A q \in Seq(GoodBlocks) : [pool EXCEPT !.blocks = q] \in GoodPools
  BY DEF GoodPools
<1>3. \A q \in Seq(Summoned) : [pool EXCEPT !.osty = q] \in GoodPools
  BY DEF GoodPools
<1>4. pool.blocks \in Seq(GoodBlocks) /\ pool.osty \in Seq(Summoned)
  BY DEF GoodPools
<1>5. QED
  BY <1>1, <1>2, <1>3, <1>4

LEMMA WithPoolTyped ==
  ASSUME Sound, NEW slot \in Slots, NEW pool \in GoodPools
  PROVE  WithPool(slot, pool) \in Seq(GoodPools)
<1>1. PICK n \in Nat : n = Len(pools)
  BY LenProperties DEF Sound
<1>2. PICK top \in Nat : top = IF slot > n THEN slot ELSE n
  BY SlotFacts
<1>3. PICK t : t = WithPool(slot, pool)
  OBVIOUS
<1>4. t = [s \in 1..top |-> IF s = slot THEN pool ELSE PoolOf(s)]
  BY <1>1, <1>2, <1>3 DEF WithPool
<1>5. ASSUME NEW s \in 1..top PROVE t[s] \in GoodPools
  <2>1. s \in Nat \ {0}
    OBVIOUS
  <2>2. PoolOf(s) \in GoodPools
    BY <2>1, PoolIsGood DEF Sound
  <2>3. QED
    BY <1>4, <2>2
<1>6. t \in [1..top -> GoodPools]
  BY <1>4, <1>5
<1>7. t \in Seq(GoodPools)
  BY <1>6, SeqDef
<1>8. QED
  BY <1>3, <1>7

----------------------------------------------------------------------------
LEMMA OpenSound == ASSUME Sound, NEW steps \in Seq(Steps), Open(steps) PROVE Sound'
<1>1. stage' = [steps |-> steps, known |-> DOMAIN ledger, rows |-> <<>>,
                count |-> Len(pools), pools |-> <<>>,
                blockTotal |-> blockTotal, crowded |-> crowded, lost |-> FALSE]
  BY DEF Open
<1>2. before' = <<ledger, pools, blockTotal, crowded>> /\ pools' = pools /\ short' = short
  BY DEF Open, data
<1>3. stage'.steps = steps /\ before'[2] = pools
  BY <1>1, <1>2
<1>4. QED
  BY <1>2, <1>3 DEF Sound

\* What is left of a stage's steps, put in its place.
LEMMA StepsPut ==
  ASSUME IInv, stage # None, NEW steps
  PROVE  /\ [stage EXCEPT !.steps = steps].steps = steps
         /\ \A x, y : [stage EXCEPT !.steps = steps, !.pools = x, !.lost = y].steps = steps
         /\ \A x : [stage EXCEPT !.steps = steps, !.pools = x].steps = steps
         /\ \A x : [stage EXCEPT !.steps = steps, !.rows = x].steps = steps
<1>1. stage = [steps |-> stage.steps, known |-> stage.known, rows |-> stage.rows,
           count |-> stage.count, pools |-> stage.pools, blockTotal |-> stage.blockTotal,
           crowded |-> stage.crowded, lost |-> stage.lost]
  BY DEF IInv, Kept, StageFields
<1>2. QED
  BY <1>1

LEMMA ProceedWithSound ==
  ASSUME IInv, Sound, stage # None, NEW slot \in Slots, NEW pool \in GoodPools,
         NEW steps \in Seq(Steps), NEW lost, ProceedWith(slot, pool, steps, lost), UNCHANGED short
  PROVE  Sound'
<1>1. /\ pools' = WithPool(slot, pool) /\ before' = before
      /\ stage' = [stage EXCEPT !.steps = steps, !.pools = PoolJournal(slot), !.lost = @ \/ lost]
  BY DEF ProceedWith
<1>2. stage'.steps = steps
  BY <1>1, StepsPut
<1>3. QED
  BY <1>1, <1>2, WithPoolTyped DEF Sound

LEMMA RollBackSound == ASSUME IInv, Sound, stage # None, RollBack, UNCHANGED short PROVE Sound'
<1>1. pools' = before[2]
  BY KeptRestores DEF RollBack, Recoverable, Restored, IInv, Kept
<1>2. stage' = None
  BY DEF RollBack
<1>3. QED
  BY <1>1, <1>2 DEF Sound

\* The step a stage is at, and those after it.
LEMMA AtStep ==
  ASSUME Sound, NEW op, Doing(op)
  PROVE  /\ stage # None /\ stage.steps # <<>>
         /\ Head(stage.steps) \in Steps /\ Head(stage.steps).op = op
         /\ Rest \in Seq(Steps)
<1>1. stage # None /\ stage.steps # <<>> /\ Head(stage.steps).op = op
  BY DEF Doing
<1>2. stage.steps \in Seq(Steps)
  BY <1>1 DEF Sound
<1>3. QED
  BY <1>1, <1>2, HeadTailProperties DEF Rest

LEMMA AtMeetStep ==
  ASSUME Sound, NEW op \in {"hit", "lose", "absorb"}, Doing(op)
  PROVE  /\ stage # None /\ Rest \in Seq(Steps) /\ Head(stage.steps) \in MeetSteps
         /\ Head(stage.steps).slot \in Slots
         /\ Head(stage.steps).amount \in Nat /\ Head(stage.steps).amount # 0
<1>1. PICK step \in Steps : step = Head(stage.steps) /\ step.op = op
  BY AtStep
<1>2. step \in MeetSteps
  BY <1>1, StepsByOp
<1>3. step.slot \in Slots /\ step.amount \in Nat /\ step.amount # 0
  BY <1>2 DEF MeetSteps
<1>4. QED
  BY <1>1, <1>2, <1>3, AtStep

\* A step that meets more than it takes stays, with what is left.
LEMMA WhatIsLeft ==
  ASSUME NEW step \in MeetSteps, NEW take \in Nat, take <= step.amount, take # step.amount
  PROVE  <<[step EXCEPT !.amount = @ - take]>> \in Seq(Steps)
<1>1. /\ step.op \in {"hit", "lose", "absorb"} /\ step.slot \in Slots /\ step.amount \in Nat
      /\ step = [op |-> step.op, slot |-> step.slot, amount |-> step.amount]
  BY DEF MeetSteps
<1>2. PICK t : t = [step EXCEPT !.amount = @ - take]
  OBVIOUS
<1>3. t = [op |-> step.op, slot |-> step.slot, amount |-> step.amount - take]
  BY <1>1, <1>2
<1>4. step.amount - take \in Nat \ {0}
  BY <1>1
<1>5. t \in MeetSteps
  BY <1>1, <1>3, <1>4 DEF MeetSteps
<1>6. t \in Steps
  BY <1>5 DEF Steps
<1>7. QED
  BY <1>2, <1>6, OneStep

LEMMA TakeBlockSound == ASSUME IInv, Sound, TakeBlock PROVE Sound'
<1>1. PICK op \in {"hit", "lose", "absorb"} : Doing(op)
  BY DEF TakeBlock
<1>2. PICK step : step = Head(stage.steps)
  OBVIOUS
<1>3. /\ stage # None /\ Rest \in Seq(Steps) /\ step \in MeetSteps
      /\ step.slot \in Slots /\ step.amount \in Nat /\ step.amount # 0
  BY <1>1, <1>2, AtMeetStep
<1>4. PICK pool : pool = PoolOf(step.slot)
  OBVIOUS
<1>5. /\ pool.blocks \in Seq(GoodBlocks)
      /\ \A q \in Seq(GoodBlocks) : [pool EXCEPT !.blocks = q] \in GoodPools
  BY <1>3, <1>4, PoolTyped
<1>6. pool.blocks # <<>>
  BY <1>2, <1>4 DEF TakeBlock
<1>7. PICK head : head = Head(pool.blocks)
  OBVIOUS
<1>8. head = pool.blocks[1] /\ GoodBlock(head)
  <2>1. head \in GoodBlocks
    BY <1>5, <1>6, <1>7, HeadTailProperties
  <2>2. Head(pool.blocks) = pool.blocks[1]
    BY <1>5, <1>6
  <2>3. QED
    BY <1>7, <2>1, <2>2, GoodBlocksAre
<1>9. head.remaining \in Nat /\ head.remaining # 0
  BY <1>8, BlockFacts DEF GoodBlock
<1>10. PICK take \in Nat :
         /\ take = IF step.amount < head.remaining THEN step.amount ELSE head.remaining
         /\ take # 0 /\ take <= head.remaining /\ take <= step.amount
  BY <1>3, <1>9
<1>11. PICK rest : rest = IF step.amount = take THEN Rest
                          ELSE <<[step EXCEPT !.amount = @ - take]>> \o Rest
  OBVIOUS
<1>12. rest \in Seq(Steps)
  <2>1. CASE step.amount = take
    BY <1>3, <1>11, <2>1
  <2>2. CASE step.amount # take
    <3>1. <<[step EXCEPT !.amount = @ - take]>> \in Seq(Steps)
      BY <1>3, <1>10, <2>2, WhatIsLeft
    <3>2. rest = <<[step EXCEPT !.amount = @ - take]>> \o Rest
      BY <1>11, <2>2
    <3>3. QED
      BY <1>3, <3>1, <3>2, ConcatProperties
  <2>3. QED
    BY <2>1, <2>2
<1>13. Covers(head, take)
  BY <1>8, <1>10, GoodBlockCovers
<1>14. PICK steps : steps = (IF step.op = "hit" THEN BlockCredits(head, take) ELSE <<>>) \o rest
  OBVIOUS
<1>15. steps \in Seq(Steps)
  <2>1. BlockCredits(head, take) \in Seq(Steps)
    BY <1>8, <1>10, BlockCreditsTyped, CreditsAreSteps
  <2>2. (IF step.op = "hit" THEN BlockCredits(head, take) ELSE <<>>) \in Seq(Steps)
    BY <2>1, EmptySeq
  <2>3. QED
    BY <1>12, <1>14, <2>2, ConcatProperties
<1>16. PICK after : after = [pool EXCEPT !.blocks = HeadTaken(@, take)]
  OBVIOUS
<1>17. after \in GoodPools
  <2>1. HeadTaken(pool.blocks, take) \in Seq(GoodBlocks)
    BY <1>5, <1>6, <1>8, <1>10, HeadTakenTyped
  <2>2. after = [pool EXCEPT !.blocks = HeadTaken(pool.blocks, take)]
    BY <1>16
  <2>3. QED
    BY <1>5, <2>1, <2>2
<1>18. ProceedWith(step.slot, after, steps, FALSE) /\ UNCHANGED short
  BY <1>2, <1>4, <1>7, <1>10, <1>11, <1>13, <1>14, <1>16 DEF TakeBlock
<1>19. QED
  BY <1>3, <1>15, <1>17, <1>18, ProceedWithSound

LEMMA TakeOstySound == ASSUME IInv, Sound, TakeOsty PROVE Sound'
<1>1. Doing("absorb")
  BY DEF TakeOsty
<1>2. PICK step : step = Head(stage.steps)
  OBVIOUS
<1>3. /\ stage # None /\ Rest \in Seq(Steps) /\ step \in MeetSteps
      /\ step.slot \in Slots /\ step.amount \in Nat /\ step.amount # 0
  BY <1>1, <1>2, AtMeetStep
<1>4. PICK pool : pool = PoolOf(step.slot)
  OBVIOUS
<1>5. /\ pool.osty \in Seq(Summoned)
      /\ \A q \in Seq(Summoned) : [pool EXCEPT !.osty = q] \in GoodPools
  BY <1>3, <1>4, PoolTyped
<1>6. pool.osty # <<>>
  BY <1>2, <1>4 DEF TakeOsty
<1>7. PICK last : last = Last(pool.osty)
  OBVIOUS
<1>8. last \in Summoned
  BY <1>5, <1>6, <1>7, FrontTyped
<1>9. last.source \in Sources /\ last.paid \in Nat /\ last.remaining \in Nat /\ last.remaining # 0
  BY <1>8 DEF Summoned
<1>10. PICK take \in Nat :
         /\ take = IF step.amount < last.remaining THEN step.amount ELSE last.remaining
         /\ take # 0 /\ take <= last.remaining /\ take <= step.amount
  BY <1>3, <1>9
<1>11. PICK rest : rest = IF step.amount = take THEN Rest
                          ELSE <<[step EXCEPT !.amount = @ - take]>> \o Rest
  OBVIOUS
<1>12. rest \in Seq(Steps)
  <2>1. CASE step.amount = take
    BY <1>3, <1>11, <2>1
  <2>2. CASE step.amount # take
    <3>1. <<[step EXCEPT !.amount = @ - take]>> \in Seq(Steps)
      BY <1>3, <1>10, <2>2, WhatIsLeft
    <3>2. rest = <<[step EXCEPT !.amount = @ - take]>> \o Rest
      BY <1>11, <2>2
    <3>3. QED
      BY <1>3, <3>1, <3>2, ConcatProperties
  <2>3. QED
    BY <2>1, <2>2
<1>13. PICK steps : steps = NextCredit(last.source, "effective", last.paid, take) \o rest
  OBVIOUS
<1>14. steps \in Seq(Steps)
  <2>1. NextCredit(last.source, "effective", last.paid, take) \in Seq(Steps)
    BY <1>9, NextCreditTyped, CreditsAreSteps DEF Fields
  <2>2. QED
    BY <1>12, <1>13, <2>1, ConcatProperties
<1>15. PICK after : after = [pool EXCEPT !.osty = LastTaken(@, take)]
  OBVIOUS
<1>16. after \in GoodPools
  <2>1. LastTaken(pool.osty, take) \in Seq(Summoned)
    BY <1>5, <1>6, <1>7, <1>10, LastTakenTyped
  <2>2. after = [pool EXCEPT !.osty = LastTaken(pool.osty, take)]
    BY <1>15
  <2>3. QED
    BY <1>5, <2>1, <2>2
<1>17. ProceedWith(step.slot, after, steps, FALSE) /\ UNCHANGED short
  BY <1>2, <1>4, <1>7, <1>10, <1>11, <1>13, <1>15 DEF TakeOsty
<1>18. QED
  BY <1>3, <1>14, <1>16, <1>17, ProceedWithSound

LEMMA CreditStepTyped ==
  ASSUME NEW to \in Rows, NEW field \in Fields, NEW amount \in Int
  PROVE  CreditStep(to, field, amount) \in Steps
BY DEF CreditStep, CreditSteps, Steps

LEMMA NoBlockLeftSound == ASSUME IInv, Sound, NoBlockLeft PROVE Sound'
<1>1. PICK op \in {"hit", "lose", "absorb"} : Doing(op)
  BY DEF NoBlockLeft
<1>2. PICK step : step = Head(stage.steps)
  OBVIOUS
<1>3. /\ stage # None /\ Rest \in Seq(Steps) /\ step \in MeetSteps
      /\ step.slot \in Slots /\ step.amount \in Nat /\ step.amount # 0
  BY <1>1, <1>2, AtMeetStep
<1>4. PICK steps : steps = (IF step.op = "hit"
                            THEN <<CreditStep(UnknownOf(step.slot), "effective", step.amount)>>
                            ELSE <<>>) \o Rest
  OBVIOUS
<1>5. steps \in Seq(Steps)
  <2>1. UnknownOf(step.slot) \in Rows
    BY <1>3 DEF Rows
  <2>2. <<CreditStep(UnknownOf(step.slot), "effective", step.amount)>> \in Seq(Steps)
    BY <1>3, <2>1, CreditStepTyped, OneStep DEF Fields
  <2>3. <<>> \in Seq(Steps)
    BY EmptySeq
  <2>4. QED
    BY <1>3, <1>4, <2>2, <2>3, ConcatProperties
<1>6. ProceedWith(step.slot, PoolOf(step.slot), steps, FALSE) /\ UNCHANGED short
  BY <1>2, <1>4 DEF NoBlockLeft
<1>7. PoolOf(step.slot) \in GoodPools
  BY <1>3, PoolTyped
<1>8. QED
  BY <1>3, <1>5, <1>6, <1>7, ProceedWithSound

LEMMA NoOstyLeftSound == ASSUME IInv, Sound, NoOstyLeft PROVE Sound'
<1>1. Doing("absorb")
  BY DEF NoOstyLeft
<1>2. PICK step : step = Head(stage.steps)
  OBVIOUS
<1>3. /\ stage # None /\ Rest \in Seq(Steps) /\ step \in MeetSteps
      /\ step.slot \in Slots /\ step.amount \in Nat /\ step.amount # 0
  BY <1>1, <1>2, AtMeetStep
<1>4. PICK row : row = IF RowsFull THEN UnknownOf(Team) ELSE Osty
  OBVIOUS
<1>5. row \in Rows
  <2>1. Team \in Slots
    BY PoolConstants DEF Team, Slots
  <2>2. QED
    BY <1>4, <2>1 DEF Rows
<1>6. PICK steps : steps = <<CreditStep(row, "effective", step.amount)>> \o Rest
  OBVIOUS
<1>7. steps \in Seq(Steps)
  <2>1. <<CreditStep(row, "effective", step.amount)>> \in Seq(Steps)
    BY <1>3, <1>5, CreditStepTyped, OneStep DEF Fields
  <2>2. QED
    BY <1>3, <1>6, <2>1, ConcatProperties
<1>8. /\ pools' = WithPool(step.slot, PoolOf(step.slot))
      /\ stage' = [stage EXCEPT !.steps = steps, !.pools = PoolJournal(step.slot)]
      /\ before' = before /\ short' = short
  BY <1>2, <1>4, <1>6 DEF NoOstyLeft
<1>9. stage'.steps = steps
  BY <1>3, <1>8, StepsPut
<1>10. pools' \in Seq(GoodPools)
  BY <1>3, <1>8, PoolTyped, WithPoolTyped
<1>11. QED
  BY <1>3, <1>7, <1>8, <1>9, <1>10 DEF Sound

LEMMA PushSound == ASSUME IInv, Sound, Push PROVE Sound'
<1>1. Doing("push")
  BY DEF Push
<1>2. PICK step \in Steps : step = Head(stage.steps) /\ step.op = "push"
  BY <1>1, AtStep
<1>3. step \in PushSteps
  BY <1>2, StepsByOp
<1>4. /\ step.slot \in Slots /\ step.amount \in Nat \ {0} /\ step.source \in Sources
      /\ step.mods \in Mods
  BY <1>3 DEF PushSteps
<1>5. PICK pool : pool = PoolOf(step.slot)
  OBVIOUS
<1>6. PICK q : q = Pushed(pool.blocks, step.slot, step.source, step.amount, step.mods)
  OBVIOUS
<1>7. q \in Seq(GoodBlocks)
  BY <1>4, <1>5, <1>6, PoolTyped, PushedTyped
<1>8. PICK after : after = [pool EXCEPT !.blocks = q]
  OBVIOUS
<1>9. after \in GoodPools
  BY <1>4, <1>5, <1>7, <1>8, PoolTyped
<1>10. PICK lost : lost = Forgets(pool.blocks, step.source, step.amount, step.mods)
  OBVIOUS
<1>11. ProceedWith(step.slot, after, Rest, lost) /\ UNCHANGED short
  BY <1>2, <1>5, <1>6, <1>8, <1>10 DEF Push
<1>12. stage # None /\ Rest \in Seq(Steps)
  BY <1>1, AtStep
<1>13. QED
  BY <1>4, <1>9, <1>11, <1>12, ProceedWithSound

LEMMA SummonStepSound == ASSUME IInv, Sound, SummonStep PROVE Sound'
<1>1. Doing("summon")
  BY DEF SummonStep
<1>2. PICK step \in Steps : step = Head(stage.steps) /\ step.op = "summon"
  BY <1>1, AtStep
<1>3. step.slot \in Slots /\ step.amount \in Nat \ {0} /\ step.source \in Sources
  BY <1>2, StepsByOp DEF SummonSteps
<1>4. stage # None /\ Rest \in Seq(Steps)
  BY <1>1, AtStep
<1>5. CASE RollBack /\ UNCHANGED short
  BY <1>4, <1>5, RollBackSound
<1>6. CASE ~(RollBack /\ UNCHANGED short)
  <2>1. PICK pool : pool = PoolOf(step.slot)
    OBVIOUS
  <2>2. PICK new : new = [source |-> step.source, paid |-> 0, remaining |-> step.amount]
    OBVIOUS
  <2>3. new \in Summoned
    BY <1>3, <2>2 DEF Summoned
  <2>4. PICK after : after = [pool EXCEPT !.osty = Append(@, new)]
    OBVIOUS
  <2>5. after \in GoodPools
    <3>1. pool.osty \in Seq(Summoned)
      BY <1>3, <2>1, PoolTyped
    <3>2. Append(pool.osty, new) \in Seq(Summoned)
      BY <2>3, <3>1, AppendProperties
    <3>3. after = [pool EXCEPT !.osty = Append(pool.osty, new)]
      BY <2>4
    <3>4. QED
      BY <1>3, <2>1, <3>2, <3>3, PoolTyped
  <2>6. ProceedWith(step.slot, after, Rest, FALSE) /\ UNCHANGED short
    BY <1>2, <1>6, <2>1, <2>2, <2>4 DEF SummonStep
  <2>7. QED
    BY <1>3, <1>4, <2>5, <2>6, ProceedWithSound
<1>7. QED
  BY <1>5, <1>6

BuryStepOf(slot) == [op |-> "bury", slot |-> slot]

LEMMA KillStepSound == ASSUME IInv, Sound, KillStep PROVE Sound'
<1>1. Doing("kill")
  BY DEF KillStep
<1>2. PICK step \in Steps : step = Head(stage.steps) /\ step.op = "kill"
  BY <1>1, AtStep
<1>3. step.slot \in Slots /\ (step.source \in Sources \/ step.source = None)
  BY <1>2, StepsByOp DEF KillSteps
<1>4. stage # None /\ Rest \in Seq(Steps)
  BY <1>1, AtStep
<1>5. PICK pool : pool = PoolOf(step.slot)
  OBVIOUS
<1>6. pool \in GoodPools /\ pool.osty \in Seq(Summoned)
  BY <1>3, <1>5, PoolTyped
<1>7. PICK left : left = Total([i \in DOMAIN pool.osty |-> pool.osty[i].remaining])
  OBVIOUS
<1>8. left \in Nat
  <2>1. PICK n \in Nat : n = Len(pool.osty) /\ DOMAIN pool.osty = 1..n
    BY <1>6, LenProperties
  <2>2. PICK r : r = [i \in DOMAIN pool.osty |-> pool.osty[i].remaining]
    OBVIOUS
  <2>3. \A i \in 1..n : pool.osty[i] \in Summoned
    BY <1>6, <2>1, ElementOfSeq
  <2>4. \A i \in 1..n : pool.osty[i].remaining \in Nat
    BY <2>3 DEF Summoned
  <2>5. r \in [1..n -> Nat]
    BY <2>1, <2>2, <2>4
  <2>6. r \in Seq(Nat)
    BY <2>5, SeqDef
  <2>7. QED
    BY <1>7, <2>2, <2>6, TotalNat
<1>9. PICK bury : bury = <<BuryStepOf(step.slot)>> \o Rest
  OBVIOUS
<1>10. bury \in Seq(Steps)
  <2>1. BuryStepOf(step.slot) \in Steps
    BY <1>3 DEF BuryStepOf, BurySteps, Steps
  <2>2. <<BuryStepOf(step.slot)>> \in Seq(Steps)
    BY <2>1, OneStep
  <2>3. QED
    BY <1>4, <1>9, <2>2, ConcatProperties
<1>11. PICK debits : debits = Proportional(left, Weights(step.source))
  OBVIOUS
<1>12. PICK steps : steps = IF step.source = None THEN bury
                            ELSE CreditEach(step.source, "effective", [i \in DOMAIN debits |-> -debits[i]])
                                   \o bury
  OBVIOUS
<1>13. steps \in Seq(Steps)
  <2>1. CASE step.source = None
    BY <1>10, <1>12, <2>1
  <2>2. CASE step.source # None
    <3>1. step.source \in Sources
      BY <1>3, <2>2
    <3>2. PICK w : w = Weights(step.source)
      OBVIOUS
    <3>3. w \in Seq(Nat) /\ Len(w) = Len(step.source) /\ debits \in Seq(Nat) /\ Len(debits) = Len(w)
      BY <1>8, <1>11, <3>1, <3>2, WeightsOf, ProportionalFacts
    <3>4. PICK m : m = [i \in DOMAIN debits |-> -debits[i]]
      OBVIOUS
    <3>5. \A i \in 1..Len(step.source) : i \in DOMAIN debits /\ debits[i] \in Nat
      BY <3>3, WeightsFacts
    <3>6. \A i \in 1..Len(step.source) : m[i] \in Int
      BY <3>4, <3>5
    <3>7. CreditEach(step.source, "effective", m) \in Seq(Steps)
      BY <3>1, <3>6, CreditEachTyped, CreditsAreSteps DEF Fields
    <3>8. steps = CreditEach(step.source, "effective", m) \o bury
      BY <1>12, <2>2, <3>4
    <3>9. QED
      BY <1>10, <3>7, <3>8, ConcatProperties
  <2>3. QED
    BY <2>1, <2>2
<1>14. ProceedWith(step.slot, pool, steps, FALSE) /\ UNCHANGED short
  BY <1>2, <1>5, <1>7, <1>9, <1>11, <1>12 DEF KillStep, BuryStepOf
<1>15. QED
  BY <1>3, <1>4, <1>6, <1>13, <1>14, ProceedWithSound

LEMMA BuryStepSound == ASSUME IInv, Sound, BuryStep PROVE Sound'
<1>1. Doing("bury")
  BY DEF BuryStep
<1>2. PICK step \in Steps : step = Head(stage.steps) /\ step.op = "bury"
  BY <1>1, AtStep
<1>3. step.slot \in Slots
  BY <1>2, StepsByOp DEF BurySteps
<1>4. stage # None /\ Rest \in Seq(Steps)
  BY <1>1, AtStep
<1>5. PICK after : after = [PoolOf(step.slot) EXCEPT !.osty = <<>>]
  OBVIOUS
<1>6. after \in GoodPools
  BY <1>3, <1>5, PoolTyped, EmptySeq
<1>7. ProceedWith(step.slot, after, Rest, FALSE) /\ UNCHANGED short
  BY <1>2, <1>5 DEF BuryStep
<1>8. QED
  BY <1>3, <1>4, <1>6, <1>7, ProceedWithSound

LEMMA CreditSound == ASSUME IInv, Sound, Credit PROVE Sound'
<1>1. Doing("credit")
  BY DEF Credit
<1>2. stage # None /\ Rest \in Seq(Steps)
  BY <1>1, AtStep
<1>3. CASE RollBack /\ UNCHANGED short
  BY <1>2, <1>3, RollBackSound
<1>4. CASE ~(RollBack /\ UNCHANGED short)
  <2>1. \E x : stage' = [stage EXCEPT !.steps = Rest, !.rows = x]
    BY <1>4 DEF Credit
  <2>2. pools' = pools /\ before' = before /\ short' = short
    BY <1>4 DEF Credit
  <2>3. stage'.steps = Rest
    BY <1>2, <2>1, StepsPut
  <2>4. QED
    BY <1>2, <2>2, <2>3 DEF Sound
<1>5. QED
  BY <1>3, <1>4

LEMMA CountGainSound == ASSUME IInv, Sound, CountGain PROVE Sound'
<1>1. Doing("count")
  BY DEF CountGain
<1>2. stage # None /\ Rest \in Seq(Steps)
  BY <1>1, AtStep
<1>3. CASE RollBack /\ UNCHANGED short
  BY <1>2, <1>3, RollBackSound
<1>4. CASE ~(RollBack /\ UNCHANGED short)
  <2>1. Proceed(Rest)
    BY <1>4 DEF CountGain
  <2>2. /\ stage' = [stage EXCEPT !.steps = Rest]
        /\ pools' = pools /\ before' = before /\ short' = short
    BY <2>1 DEF Proceed
  <2>3. stage'.steps = Rest
    BY <1>2, <2>2, StepsPut
  <2>4. QED
    BY <1>2, <2>2, <2>3 DEF Sound
<1>5. QED
  BY <1>3, <1>4

----------------------------------------------------------------------------
LEMMA ModifiersAre ==
  /\ Snapshots \subseteq Sources /\ Modifiers \subseteq Mods /\ Receivers \subseteq Slots
  /\ Amounts \subseteq Nat \ {0} /\ None \notin Sources /\ None \notin Mods
  /\ Kinds \subseteq {"hit", "absorb"}
BY PoolConstants DEF Mods

LEMMA BlockGainedSound ==
  ASSUME Sound, NEW s \in Receivers, NEW p \in Snapshots \cup {None}, NEW n \in Amounts,
         NEW m \in Modifiers \cup {None}, BlockGained(s, p, n, m)
  PROVE  Sound'
<1>1. s \in Slots /\ n \in Nat \ {0} /\ n \in Nat
  BY ModifiersAre
<1>2. PICK source : source = IF p = None THEN UnknownFor(s) ELSE p
  OBVIOUS
<1>3. source \in Sources /\ UnknownFor(s) \in Sources
  BY <1>1, <1>2, ModifiersAre, UnknownIsSource
<1>4. PICK pushed : pushed = IF m # None THEN source ELSE UnknownFor(s)
  OBVIOUS
<1>5. PICK mods : mods = IF m # None THEN m ELSE <<>>
  OBVIOUS
<1>6. pushed \in Sources
  BY <1>3, <1>4
<1>7. mods \in Mods
  <2>1. <<>> \in Mods
    BY EmptySeq DEF Mods
  <2>2. QED
    BY <1>5, <2>1, ModifiersAre
<1>8. PICK count : count = [op |-> "count", amount |-> n]
  OBVIOUS
<1>9. PICK push : push = [op |-> "push", slot |-> s, amount |-> n, source |-> pushed, mods |-> mods]
  OBVIOUS
<1>10. count \in Steps
  BY <1>1, <1>8 DEF CountSteps, Steps
<1>11. push \in PushSteps
  BY <1>1, <1>6, <1>7, <1>9 DEF PushSteps
<1>12. push \in Steps
  BY <1>11 DEF Steps
<1>13. SourceCredit(source, "gained", n) \in Seq(Steps)
  BY <1>1, <1>3, SourceCreditTyped, CreditsAreSteps DEF Fields
<1>14. PICK steps : steps = (<<count>> \o SourceCredit(source, "gained", n)) \o <<push>>
  OBVIOUS
<1>15. steps \in Seq(Steps)
  <2>1. <<count>> \in Seq(Steps) /\ <<push>> \in Seq(Steps)
    BY <1>10, <1>12, OneStep
  <2>2. <<count>> \o SourceCredit(source, "gained", n) \in Seq(Steps)
    BY <1>13, <2>1, ConcatProperties
  <2>3. QED
    BY <1>14, <2>1, <2>2, ConcatProperties
<1>16. Open(steps)
  BY <1>2, <1>4, <1>5, <1>8, <1>9, <1>14 DEF BlockGained
<1>17. QED
  BY <1>15, <1>16, OpenSound

LEMMA BlockPoolLossSound ==
  ASSUME Sound, NEW s \in Receivers, NEW n \in Amounts, BlockPoolLoss(s, n)
  PROVE  Sound'
<1>1. PICK step : step = [op |-> "lose", slot |-> s, amount |-> n]
  OBVIOUS
<1>2. step \in Steps
  BY <1>1, ModifiersAre DEF MeetSteps, Steps
<1>3. <<step>> \in Seq(Steps)
  BY <1>2, OneStep
<1>4. Open(<<step>>)
  BY <1>1 DEF BlockPoolLoss
<1>5. QED
  BY <1>3, <1>4, OpenSound

LEMMA OstySummonedSound ==
  ASSUME Sound, NEW s \in Receivers, NEW p \in Snapshots, NEW n \in Amounts, OstySummoned(s, p, n)
  PROVE  Sound'
<1>1. PICK step : step = [op |-> "summon", slot |-> s, source |-> p, amount |-> n]
  OBVIOUS
<1>2. step \in Steps
  BY <1>1, ModifiersAre DEF SummonSteps, Steps
<1>3. <<step>> \in Seq(Steps)
  BY <1>2, OneStep
<1>4. Open(<<step>>)
  BY <1>1 DEF OstySummoned
<1>5. QED
  BY <1>3, <1>4, OpenSound

LEMMA OstyKilledSound ==
  ASSUME Sound, NEW s \in Receivers, NEW p \in Snapshots \cup {None}, OstyKilled(s, p)
  PROVE  Sound'
<1>1. PICK step : step = [op |-> "kill", slot |-> s, source |-> p]
  OBVIOUS
<1>2. step \in Steps
  BY <1>1, ModifiersAre DEF KillSteps, Steps
<1>3. <<step>> \in Seq(Steps)
  BY <1>2, OneStep
<1>4. Open(<<step>>)
  BY <1>1 DEF OstyKilled
<1>5. QED
  BY <1>3, <1>4, OpenSound

LEMMA DamageCommitSound ==
  ASSUME Sound, NEW results \in BoundedSeq(Results, MaxResults), DamageCommit(results)
  PROVE  Sound'
<1>1. Results \subseteq Steps
  <2>1. Results \subseteq MeetSteps
    BY ModifiersAre DEF Results, MeetSteps
  <2>2. QED
    BY <2>1 DEF Steps
<1>2. results \in UNION {[1..m -> Results] : m \in 0..MaxResults}
  BY DEF BoundedSeq, SeqOf
<1>3. PICK m \in Nat : results \in [1..m -> Results]
  <2>1. MaxResults \in Nat
    BY PoolConstants
  <2>2. \A m \in 0..MaxResults : m \in Nat
    BY <2>1
  <2>3. QED
    BY <1>2, <2>2
<1>4. results \in [1..m -> Steps]
  BY <1>1, <1>3
<1>5. results \in Seq(Steps)
  BY <1>3, <1>4, SeqDef
<1>6. QED
  BY <1>5, OpenSound DEF DamageCommit

LEMMA ClearSound == ASSUME Sound, NEW slot, BlockPoolClear(slot) PROVE Sound'
<1>1. PICK n \in Nat : n = Len(pools) /\ DOMAIN pools = 1..n
  BY LenProperties DEF Sound
<1>2. PICK t : t = [s \in 1..n |-> IF s = slot THEN [pools[s] EXCEPT !.blocks = <<>>] ELSE pools[s]]
  OBVIOUS
<1>3. ASSUME NEW s \in 1..n PROVE t[s] \in GoodPools
  <2>1. PICK pool \in GoodPools : pool = pools[s]
    BY <1>1, ElementOfSeq DEF Sound
  <2>2. <<>> \in Seq(GoodBlocks)
    BY EmptySeq
  <2>3. [pool EXCEPT !.blocks = <<>>] \in GoodPools
    BY <2>2 DEF GoodPools
  <2>4. QED
    BY <1>2, <2>1, <2>3
<1>4. t \in [1..n -> GoodPools]
  BY <1>2, <1>3
<1>5. t \in Seq(GoodPools)
  BY <1>4, SeqDef
<1>6. pools' = t /\ stage' = stage /\ before' = before /\ short' = short
  BY <1>1, <1>2 DEF BlockPoolClear
<1>7. QED
  BY <1>5, <1>6 DEF Sound

LEMMA InitSound == Init => Sound
<1>1. SUFFICES ASSUME Init PROVE Sound
  OBVIOUS
<1>2. pools = <<>> /\ stage = None /\ short = FALSE
  BY <1>1 DEF Init
<1>3. <<>> \in Seq(GoodPools)
  BY EmptySeq
<1>4. pools \in Seq(GoodPools)
  BY <1>2, <1>3
<1>5. ~short
  BY <1>2
<1>6. QED
  BY <1>2, <1>4, <1>5 DEF Sound

LEMMA NextSound == IInv /\ Sound /\ [Next]_vars => Sound'
<1>1. SUFFICES ASSUME IInv, Sound, [Next]_vars PROVE Sound'
  OBVIOUS
<1>2. ASSUME NEW s \in Receivers, NEW p \in Snapshots \cup {None}, NEW n \in Amounts,
             NEW m \in Modifiers \cup {None}, BlockGained(s, p, n, m)
      PROVE  Sound'
  BY <1>1, <1>2, BlockGainedSound
<1>3. ASSUME NEW s \in Receivers, NEW n \in Amounts, BlockPoolLoss(s, n) PROVE Sound'
  BY <1>1, <1>3, BlockPoolLossSound
<1>4. ASSUME NEW s \in Receivers, BlockPoolClear(s) PROVE Sound'
  BY <1>1, <1>4, ClearSound
<1>5. ASSUME NEW s \in Receivers, NEW p \in Snapshots, NEW n \in Amounts, OstySummoned(s, p, n)
      PROVE  Sound'
  BY <1>1, <1>5, OstySummonedSound
<1>6. ASSUME NEW s \in Receivers, NEW p \in Snapshots \cup {None}, OstyKilled(s, p) PROVE Sound'
  BY <1>1, <1>6, OstyKilledSound
<1>7. ASSUME NEW results \in BoundedSeq(Results, MaxResults), DamageCommit(results) PROVE Sound'
  BY <1>1, <1>7, DamageCommitSound
<1>8. CASE Refuse
  BY <1>1, <1>8 DEF Refuse, data, Sound
<1>9. CASE Commit
  BY <1>1, <1>9 DEF Commit, data, Sound
<1>10. CASE FailCommit
  BY <1>1, <1>10, RollBackSound DEF FailCommit
<1>11. CASE UNCHANGED vars
  BY <1>1, <1>11 DEF vars, data, Sound
<1>12. QED
  BY <1>1, <1>2, <1>3, <1>4, <1>5, <1>6, <1>7, <1>8, <1>9, <1>10, <1>11, CountGainSound, CreditSound,
     PushSound, TakeBlockSound, NoBlockLeftSound, TakeOstySound, NoOstyLeftSound, SummonStepSound,
     KillStepSound, BuryStepSound DEF Next

LEMMA SoundSlicesHold == Sound => SlicesHold
<1>1. SUFFICES ASSUME Sound PROVE SlicesHold
  OBVIOUS
<1>2. ASSUME NEW s \in DOMAIN pools, NEW k \in DOMAIN pools[s].blocks
      PROVE  BlockHolds(pools[s].blocks[k])
  <2>1. pools[s] \in GoodPools
    BY <1>1, LenProperties, ElementOfSeq DEF Sound
  <2>2. pools[s].blocks \in Seq(GoodBlocks)
    BY <2>1 DEF GoodPools
  <2>3. pools[s].blocks[k] \in GoodBlocks
    BY <2>2, LenProperties, ElementOfSeq
  <2>4. QED
    BY <2>3, GoodBlocksAre, GoodBlockHolds
<1>3. ~short
  BY <1>1 DEF Sound
<1>4. QED
  BY <1>2, <1>3 DEF SlicesHold, BlockHolds

\* A block's points may be taken in any pieces, by hits and losses, after merges and
\* failures: no slice and no share of a source is asked back what it gave, none gives
\* more than it holds, and what was paid and what remains is always the whole block
\* (SourceBlock::consume), for all weights, amounts, modifiers and calls.
THEOREM NoSliceIsOverdrawn == Spec => []SlicesHold
BY InitKept, NextKeeps, InitSound, NextSound, SoundSlicesHold, PTL DEF Spec
=============================================================================

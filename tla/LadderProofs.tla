---------------------------- MODULE LadderProofs ----------------------------
(***************************************************************************)
(* Proofs about the accept ladder and the governor's horizon, for every    *)
(* pool, every weight, table length, hold, budget and reset cost, and for  *)
(* runs of any number of draws.  Recursive functions are shown to satisfy  *)
(* their defining equations by constructing a function that does.          *)
(***************************************************************************)
EXTENDS MCLadder, NumberFacts, SequenceTheorems

-----------------------------------------------------------------------------
(* Products.                                                               *)

LEMMA ProductMonotone ==
  ASSUME NEW a \in Nat, NEW b \in Nat, NEW c \in Nat, a <= b
  PROVE  c * a <= c * b /\ c * a \in Nat /\ c * b \in Nat
  OBVIOUS

LEMMA PairOfProducts ==
  ASSUME NEW h \in Nat, NEW l \in Nat, NEW a \in Nat, NEW b \in Nat,
         NEW x \in Nat, NEW y \in Nat, a <= x, b <= y
  PROVE  h * a + l * b <= h * x + l * y /\ h * a + l * b \in Nat
<1>1. h * a <= h * x /\ h * a \in Nat /\ h * x \in Nat
  BY ProductMonotone
<1>2. l * b <= l * y /\ l * b \in Nat /\ l * y \in Nat
  BY ProductMonotone
<1> QED BY <1>1, <1>2

\* h times l copies of p, and l times n copies of p, are l * (h + n) copies.
LEMMA Copies ==
  ASSUME NEW h \in Nat, NEW l \in Nat, NEW n \in Nat, NEW p \in Nat
  PROVE  h * (l * p) + l * (n * p) = (l * (h + n)) * p
<1>1. h * (l * p) = (l * h) * p
  OBVIOUS
<1>2. l * (n * p) = (l * n) * p
  OBVIOUS
<1>3. l * (h + n) = l * h + l * n
  OBVIOUS
<1>4. (l * h + l * n) * p = (l * h) * p + (l * n) * p
  OBVIOUS
<1> QED BY <1>1, <1>2, <1>3, <1>4

-----------------------------------------------------------------------------
(* What the draws of a sequence are worth: SumKept and KeptFrom.           *)

LEMMA LargerTyped ==
  ASSUME NEW a \in Nat, NEW b \in Nat
  PROVE  Larger(a, b) \in Nat /\ a <= Larger(a, b) /\ b <= Larger(a, b)
  BY DEF Larger

LEMMA Indices ==
  ASSUME NEW s \in Seq(Nat)
  PROVE  /\ Len(s) \in Nat /\ DOMAIN s = 1..Len(s)
         /\ IsFiniteSet(1..Len(s)) /\ Cardinality(1..Len(s)) = Len(s)
         /\ \A i \in 1..Len(s) : s[i] \in Nat
<1>1. Len(s) \in Nat /\ DOMAIN s = 1..Len(s) /\ \A i \in 1..Len(s) : s[i] \in Nat
  OBVIOUS
<1>2. IsFiniteSet(1..Len(s)) /\ Cardinality(1..Len(s)) = Len(s)
  <2>1. 1 \in Int /\ Len(s) \in Int
    BY <1>1
  <2>2. /\ IsFiniteSet(1..Len(s))
        /\ Cardinality(1..Len(s)) = IF 1 > Len(s) THEN 0 ELSE Len(s) - 1 + 1
    BY <2>1, FS_Interval
  <2> QED BY <1>1, <2>2
<1> QED BY <1>1, <1>2

Kept(s, prev) == [i \in 1..Len(s) |-> Larger(s[i], prev)]

LEMMA KeptTyped ==
  ASSUME NEW s \in Seq(Nat), NEW p \in Nat
  PROVE  Kept(s, p) \in [1..Len(s) -> Nat] /\ SumKept(s, p) = SumFunction(Kept(s, p))
<1>1. \A i \in 1..Len(s) : Larger(s[i], p) \in Nat
  BY LargerTyped, Indices
<1>2. SumKept(s, p) = SumFunction(Kept(s, p))
  BY Indices DEF SumKept, Kept
<1> QED BY <1>1, <1>2 DEF Kept

LEMMA SumKeptTyped ==
  ASSUME NEW s \in Seq(Nat), NEW p \in Nat
  PROVE  SumKept(s, p) \in Nat
<1>1. IsFiniteSet(1..Len(s))
  BY Indices
<1>2. SumFunction(Kept(s, p)) \in Nat
  BY <1>1, KeptTyped, SumTyped
<1> QED BY <1>2, KeptTyped

LEMMA SumKeptMonotone ==
  ASSUME NEW s \in Seq(Nat), NEW p \in Nat, NEW q \in Nat, p <= q
  PROVE  SumKept(s, p) <= SumKept(s, q)
<1>1. IsFiniteSet(1..Len(s))
  BY Indices
<1>2. \A i \in 1..Len(s) : Kept(s, p)[i] <= Kept(s, q)[i]
  <2>1. ASSUME NEW i \in 1..Len(s) PROVE Larger(s[i], p) <= Larger(s[i], q)
    <3>1. s[i] \in Nat
      BY Indices
    <3> QED BY <3>1 DEF Larger
  <2> QED BY <2>1 DEF Kept
<1>3. SumFunction(Kept(s, p)) <= SumFunction(Kept(s, q))
  BY <1>1, <1>2, KeptTyped, SumMonotone
<1> QED BY <1>3, KeptTyped

(* The constant function on the indices of s sums to Len(s) times it.      *)
LEMMA ConstantSum ==
  ASSUME NEW s \in Seq(Nat), NEW c \in Nat
  PROVE  /\ [i \in 1..Len(s) |-> c] \in [1..Len(s) -> Nat]
         /\ SumFunction([i \in 1..Len(s) |-> c]) = Len(s) * c
<1>1. IsFiniteSet(1..Len(s)) /\ Cardinality(1..Len(s)) = Len(s)
  BY Indices
<1>2. SumFunction([i \in 1..Len(s) |-> c]) = Cardinality(1..Len(s)) * c
  BY <1>1, SumConstant
<1> QED BY <1>1, <1>2

LEMMA SumKeptAtLeast ==
  ASSUME NEW s \in Seq(Nat), NEW p \in Nat
  PROVE  Len(s) * p <= SumKept(s, p)
<1> DEFINE c == [i \in 1..Len(s) |-> p]
<1>1. IsFiniteSet(1..Len(s))
  BY Indices
<1>2. c \in [1..Len(s) -> Nat] /\ SumFunction(c) = Len(s) * p
  BY ConstantSum
<1>3. \A i \in 1..Len(s) : c[i] <= Kept(s, p)[i]
  <2>1. ASSUME NEW i \in 1..Len(s) PROVE p <= Larger(s[i], p)
    BY Indices, LargerTyped
  <2> QED BY <2>1 DEF Kept
<1> HIDE DEF c
<1>4. SumFunction(c) <= SumFunction(Kept(s, p))
  BY <1>1, <1>2, <1>3, KeptTyped, SumMonotone
<1> QED BY <1>2, <1>4, KeptTyped

LEMMA SumKeptAtMost ==
  ASSUME NEW s \in Seq(Nat), NEW p \in Nat, NEW m \in Nat, p <= m,
         \A i \in 1..Len(s) : s[i] <= m
  PROVE  SumKept(s, p) <= Len(s) * m
<1> DEFINE c == [i \in 1..Len(s) |-> m]
<1>1. IsFiniteSet(1..Len(s))
  BY Indices
<1>2. c \in [1..Len(s) -> Nat] /\ SumFunction(c) = Len(s) * m
  BY ConstantSum
<1>3. \A i \in 1..Len(s) : Kept(s, p)[i] <= c[i]
  <2>1. ASSUME NEW i \in 1..Len(s) PROVE Larger(s[i], p) <= m
    BY DEF Larger
  <2> QED BY <2>1 DEF Kept
<1> HIDE DEF c
<1>4. SumFunction(Kept(s, p)) <= SumFunction(c)
  BY <1>1, <1>2, <1>3, KeptTyped, SumMonotone
<1> QED BY <1>2, <1>4, KeptTyped

(* A further draw is worth itself or what going on is worth.               *)
LEMMA SumKeptDraw ==
  ASSUME NEW s \in Seq(Nat), NEW x \in Nat, NEW p \in Nat
  PROVE  SumKept(Append(s, x), p) = SumKept(s, p) + Larger(x, p)
<1> DEFINE t == Append(s, x)
           n == Len(s)
<1>1. /\ t \in Seq(Nat) /\ n \in Nat /\ Len(t) = n + 1
      /\ t[n + 1] = x /\ \A i \in 1..n : t[i] = s[i]
  OBVIOUS
<1> HIDE DEF t
<1>2. Kept(t, p) \in [1..(n + 1) -> Nat] /\ Kept(s, p) \in [1..n -> Nat]
  BY <1>1, KeptTyped
<1>3. \A i \in 1..n : Kept(s, p)[i] = Kept(t, p)[i]
  BY <1>1 DEF Kept
<1>4. Kept(t, p)[n + 1] = Larger(x, p) /\ Larger(x, p) \in Nat
  <2>1. n + 1 \in 1..Len(t)
    BY <1>1
  <2> QED BY <1>1, <2>1, LargerTyped DEF Kept
<1> HIDE DEF n
<1>5. /\ SumFunction(Kept(t, p)) = Larger(x, p) + SumFunction(Kept(s, p))
      /\ SumFunction(Kept(s, p)) \in Nat
  BY <1>1, <1>2, <1>3, <1>4, SumAppended
<1>6. SumKept(t, p) = SumKept(s, p) + Larger(x, p)
  BY <1>1, <1>4, <1>5, KeptTyped
<1> QED BY <1>6 DEF t

(* Stopping at a fixed threshold is worth no more than stopping on what    *)
(* beats going on.                                                         *)
LEMMA KeptFromAtMost ==
  ASSUME NEW s \in Seq(Nat), NEW t \in Nat, NEW p \in Nat, NEW q \in Nat, q <= p
  PROVE  KeptFrom(s, t, q) \in Nat /\ KeptFrom(s, t, q) <= SumKept(s, p)
<1> DEFINE f == [i \in 1..Len(s) |-> IF s[i] >= t THEN s[i] ELSE q]
<1>1. IsFiniteSet(1..Len(s))
  BY Indices
<1>2. KeptFrom(s, t, q) = SumFunction(f)
  BY Indices DEF KeptFrom
<1>3. f \in [1..Len(s) -> Nat]
  BY Indices
<1>4. \A i \in 1..Len(s) : f[i] <= Kept(s, p)[i]
  <2>1. ASSUME NEW i \in 1..Len(s)
        PROVE  (IF s[i] >= t THEN s[i] ELSE q) <= Larger(s[i], p)
    <3>1. s[i] \in Nat
      BY Indices
    <3> QED BY <3>1 DEF Larger
  <2> QED BY <2>1 DEF Kept
<1> HIDE DEF f
<1>5. SumFunction(f) <= SumFunction(Kept(s, p)) /\ SumFunction(f) \in Nat
  BY <1>1, <1>3, <1>4, KeptTyped, SumMonotone, SumTyped
<1> QED BY <1>2, <1>5, KeptTyped
-----------------------------------------------------------------------------
(* One step of the continuation values.                                    *)

Numerator(obs, p) == HalfWeight * SumKept(Pool, p) + Len(Pool) * SumKept(obs, p)
Weight(obs)       == Len(Pool) * (HalfWeight + Len(obs))

LEMMA PoolTyped ==
  /\ Pool \in Seq(Nat) /\ Len(Pool) \in Nat \ {0}
  /\ HalfWeight \in Nat \ {0} /\ KMax \in Nat \ {0}
  BY PoolAssumption, HalfWeightAssumption, KMaxAssumption

LEMMA WeightTyped ==
  ASSUME NEW obs \in Seq(Nat)
  PROVE  Weight(obs) \in Nat \ {0}
<1>1. Len(obs) \in Nat
  OBVIOUS
<1>2. HalfWeight + Len(obs) \in Nat \ {0}
  BY <1>1, PoolTyped
<1>3. \A a, b \in Nat \ {0} : a * b \in Nat \ {0}
  OBVIOUS
<1> QED BY <1>2, <1>3, PoolTyped DEF Weight

LEMMA NumeratorTyped ==
  ASSUME NEW obs \in Seq(Nat), NEW p \in Nat
  PROVE  /\ Numerator(obs, p) \in Nat
         /\ Expected(obs, p) = Numerator(obs, p) \div Weight(obs)
         /\ Expected(obs, p) \in Nat
<1>1. SumKept(Pool, p) \in Nat /\ SumKept(obs, p) \in Nat
  BY PoolTyped, SumKeptTyped
<1>2. Numerator(obs, p) \in Nat
  <2>1. \A a, b, h, l \in Nat : h * a + l * b \in Nat
    BY ProductMonotone
  <2> QED BY <1>1, <2>1, PoolTyped DEF Numerator
<1>3. Expected(obs, p) = Numerator(obs, p) \div Weight(obs)
  BY DEF Expected, Numerator, Weight
<1> QED BY <1>2, <1>3, WeightTyped, Division

LEMMA ExpectedMonotone ==
  ASSUME NEW obs \in Seq(Nat), NEW p \in Nat, NEW q \in Nat, p <= q
  PROVE  Expected(obs, p) <= Expected(obs, q)
<1>1. /\ SumKept(Pool, p) \in Nat /\ SumKept(obs, p) \in Nat
      /\ SumKept(Pool, q) \in Nat /\ SumKept(obs, q) \in Nat
      /\ SumKept(Pool, p) <= SumKept(Pool, q) /\ SumKept(obs, p) <= SumKept(obs, q)
  BY PoolTyped, SumKeptTyped, SumKeptMonotone
<1>2. Numerator(obs, p) <= Numerator(obs, q)
  BY <1>1, PoolTyped, PairOfProducts DEF Numerator
<1>3. /\ Numerator(obs, p) \in Nat /\ Numerator(obs, q) \in Nat
      /\ Weight(obs) \in Nat \ {0}
  BY NumeratorTyped, WeightTyped
<1>4. Numerator(obs, p) \div Weight(obs) <= Numerator(obs, q) \div Weight(obs)
  BY <1>2, <1>3, DivisionMonotone
<1> QED BY <1>4, NumeratorTyped

(* Going on is worth at least what it was worth with one draw fewer.       *)
LEMMA NumeratorAtLeast ==
  ASSUME NEW obs \in Seq(Nat), NEW p \in Nat
  PROVE  Weight(obs) * p <= Numerator(obs, p)
<1> DEFINE lp == Len(Pool)
           n  == Len(obs)
<1>1. lp \in Nat /\ n \in Nat /\ HalfWeight \in Nat /\ lp * p \in Nat /\ n * p \in Nat
  <2>1. lp \in Nat /\ n \in Nat /\ HalfWeight \in Nat
    BY PoolTyped
  <2> QED BY <2>1, ProductMonotone
<1>2. lp * p <= SumKept(Pool, p) /\ n * p <= SumKept(obs, p)
  BY PoolTyped, SumKeptAtLeast
<1>3. SumKept(Pool, p) \in Nat /\ SumKept(obs, p) \in Nat
  BY PoolTyped, SumKeptTyped
<1> HIDE DEF lp, n
<1>4. HalfWeight * (lp * p) + lp * (n * p)
        <= HalfWeight * SumKept(Pool, p) + lp * SumKept(obs, p)
  BY <1>1, <1>2, <1>3, PairOfProducts
<1>5. HalfWeight * (lp * p) + lp * (n * p) = (lp * (HalfWeight + n)) * p
  BY <1>1, Copies
<1>6. (lp * (HalfWeight + n)) * p <= HalfWeight * SumKept(Pool, p) + lp * SumKept(obs, p)
  BY <1>4, <1>5
<1> QED BY <1>6 DEF Numerator, Weight, lp, n

LEMMA ExpectedAtLeast ==
  ASSUME NEW obs \in Seq(Nat), NEW p \in Nat
  PROVE  p <= Expected(obs, p)
<1>1. Numerator(obs, p) \in Nat /\ Weight(obs) \in Nat \ {0}
  BY NumeratorTyped, WeightTyped
<1>2. p <= Numerator(obs, p) \div Weight(obs)
  BY <1>1, NumeratorAtLeast, QuotientAtLeast
<1> QED BY <1>2, NumeratorTyped

(* No value exceeds the best draw.                                         *)
LEMMA ExpectedAtMost ==
  ASSUME NEW obs \in Seq(Nat), NEW p \in Nat, NEW m \in Nat, p <= m,
         \A i \in 1..Len(Pool) : Pool[i] <= m,
         \A i \in 1..Len(obs) : obs[i] <= m
  PROVE  Expected(obs, p) <= m
<1> DEFINE lp == Len(Pool)
           n  == Len(obs)
<1>1. lp \in Nat /\ n \in Nat /\ HalfWeight \in Nat /\ lp * m \in Nat /\ n * m \in Nat
  <2>1. lp \in Nat /\ n \in Nat /\ HalfWeight \in Nat
    BY PoolTyped
  <2> QED BY <2>1, ProductMonotone
<1>2. SumKept(Pool, p) <= lp * m /\ SumKept(obs, p) <= n * m
  BY PoolTyped, SumKeptAtMost
<1>3. SumKept(Pool, p) \in Nat /\ SumKept(obs, p) \in Nat
  BY PoolTyped, SumKeptTyped
<1> HIDE DEF lp, n
<1>4. HalfWeight * SumKept(Pool, p) + lp * SumKept(obs, p)
        <= HalfWeight * (lp * m) + lp * (n * m)
  BY <1>1, <1>2, <1>3, PairOfProducts
<1>5. HalfWeight * (lp * m) + lp * (n * m) = (lp * (HalfWeight + n)) * m
  BY <1>1, Copies
<1>6. HalfWeight * SumKept(Pool, p) + lp * SumKept(obs, p) <= (lp * (HalfWeight + n)) * m
  BY <1>4, <1>5
<1>7. Numerator(obs, p) <= Weight(obs) * m
  BY <1>6 DEF Numerator, Weight, lp, n
<1> QED BY <1>7, NumeratorTyped, WeightTyped, QuotientAtMost

(* Mixing copies of a smaller value in lowers an average.                  *)
LEMMA Diluted ==
  ASSUME NEW a \in Nat, NEW d \in Nat \ {0}, NEW l \in Nat, NEW p \in Nat, d * p <= a
  PROVE  (a + l * p) \div (d + l) <= a \div d
<1> DEFINE q == a \div d
<1>1. q \in Nat /\ a < d * q + d /\ p <= q
  BY Division, QuotientAtLeast
<1> HIDE DEF q
<1>2. l * p <= l * q /\ l * p \in Nat /\ l * q \in Nat /\ d * q \in Nat
  BY <1>1, ProductMonotone
<1>3. a + l * p < d * q + l * q + d
  BY <1>1, <1>2
<1>4. (d + l) * (q + 1) = d * q + l * q + d + l
  BY <1>1
<1>5. a + l * p < (d + l) * (q + 1)
  BY <1>2, <1>3, <1>4
<1>6. (a + l * p) \div (d + l) <= q
  <2> DEFINE e == d + l
             b == a + l * p
             r == b \div e
  <2>1. e \in Nat \ {0} /\ b \in Nat
    BY <1>2
  <2>2. r \in Nat /\ e * r <= b /\ b < e * (q + 1)
    BY <1>5, <2>1, Division
  <2> HIDE DEF e, b, r
  <2>3. SUFFICES ASSUME q + 1 <= r PROVE FALSE
    BY <1>1, <2>2 DEF r, b, e
  <2>4. e * (q + 1) <= e * r /\ e * (q + 1) \in Nat /\ e * r \in Nat
    BY <1>1, <2>1, <2>2, <2>3, ProductMonotone
  <2> QED BY <2>1, <2>2, <2>4
<1> QED BY <1>6 DEF q

(* A draw that is worth no more than going on lowers what going on is      *)
(* worth.                                                                  *)
LEMMA ExpectedPoorDraw ==
  ASSUME NEW obs \in Seq(Nat), NEW x \in Nat, NEW p \in Nat, x <= Expected(obs, p)
  PROVE  Expected(Append(obs, x), p) <= Expected(obs, p)
<1> DEFINE lp == Len(Pool)
           ap == Append(obs, x)
           m  == Larger(x, p)
<1>1. ap \in Seq(Nat) /\ Len(ap) = Len(obs) + 1 /\ Len(obs) \in Nat
  OBVIOUS
<1>2. lp \in Nat /\ HalfWeight \in Nat /\ m \in Nat
  BY PoolTyped, LargerTyped
<1>3. SumKept(Pool, p) \in Nat /\ SumKept(obs, p) \in Nat /\ SumKept(ap, p) = SumKept(obs, p) + m
  BY PoolTyped, SumKeptTyped, SumKeptDraw
<1>4. Weight(obs) * m <= Numerator(obs, p)
  <2>1. /\ Weight(obs) * p <= Numerator(obs, p)
        /\ Weight(obs) \in Nat \ {0} /\ Numerator(obs, p) \in Nat
        /\ Expected(obs, p) = Numerator(obs, p) \div Weight(obs)
    BY NumeratorTyped, WeightTyped, NumeratorAtLeast
  <2>2. /\ Expected(obs, p) \in Nat
        /\ Weight(obs) * Expected(obs, p) <= Numerator(obs, p)
    BY <2>1, Division
  <2>3. Weight(obs) * x <= Weight(obs) * Expected(obs, p) /\ Weight(obs) * x \in Nat
    BY <2>1, <2>2, ProductMonotone
  <2>4. Weight(obs) * x <= Numerator(obs, p)
    <3>1. Weight(obs) * Expected(obs, p) \in Nat
      BY <2>1, <2>2, ProductMonotone
    <3> QED BY <2>1, <2>2, <2>3, <3>1
  <2> QED BY <2>1, <2>4 DEF Larger
<1> HIDE DEF lp, ap, m
<1>5. Numerator(ap, p) = Numerator(obs, p) + lp * m
  <2>1. \A a, b, h, l \in Nat : h * a + l * (b + m) = h * a + l * b + l * m
    BY <1>2
  <2> QED BY <1>2, <1>3, <2>1 DEF Numerator, lp
<1>6. Weight(ap) = Weight(obs) + lp
  <2>1. \A h, l, n \in Nat : l * (h + (n + 1)) = l * (h + n) + l
    OBVIOUS
  <2> QED BY <1>1, <1>2, <2>1 DEF Weight, lp
<1>7. (Numerator(obs, p) + lp * m) \div (Weight(obs) + lp) <= Numerator(obs, p) \div Weight(obs)
  BY <1>2, <1>4, NumeratorTyped, WeightTyped, Diluted
<1>8. /\ Expected(ap, p) = Numerator(ap, p) \div Weight(ap)
      /\ Expected(obs, p) = Numerator(obs, p) \div Weight(obs)
  BY <1>1, NumeratorTyped
<1> QED BY <1>5, <1>6, <1>7, <1>8 DEF ap

-----------------------------------------------------------------------------
(* The continuation values.                                                *)

LEMMA ValuesUnfold ==
  ASSUME NEW obs \in Seq(Nat)
  PROVE  LET V == ContinuationValues(obs)
         IN  /\ V \in [0..KMax -> Nat] /\ V[0] = 0
             /\ \A k \in 1..KMax : V[k] = Expected(obs, V[k - 1])
<1> DEFINE Follows(g) ==
      g = [k \in 0..KMax |-> IF k = 0 THEN 0 ELSE Expected(obs, g[k - 1])]
<1>1. \A p \in Nat : Expected(obs, p) \in Nat
  BY NumeratorTyped
<1>2. KMax \in Nat
  BY PoolTyped
<1>3. \E f : Follows(f)
  <2> DEFINE step == [p \in Nat |-> Expected(obs, p)]
  <2>1. step \in [Nat -> Nat]
    BY <1>1
  <2>2. \A p \in Nat : step[p] = Expected(obs, p)
    OBVIOUS
  <2> HIDE DEF step
  <2>3. PICK f \in [0..KMax -> Nat] : f[0] = 0 /\ \A k \in 1..KMax : f[k] = step[f[k - 1]]
    BY <1>2, <2>1, RecursionExists
  <2>4. \A k \in 0..KMax : f[k] = IF k = 0 THEN 0 ELSE Expected(obs, f[k - 1])
    <3>1. ASSUME NEW k \in 1..KMax PROVE f[k] = Expected(obs, f[k - 1])
      <4>1. k - 1 \in 0..KMax /\ f[k] = step[f[k - 1]]
        BY <1>2, <2>3
      <4>2. f[k - 1] \in Nat
        BY <2>3, <4>1
      <4> QED BY <2>2, <4>1, <4>2
    <3> QED BY <1>2, <2>3, <3>1
  <2>5. f = [k \in 0..KMax |-> IF k = 0 THEN 0 ELSE Expected(obs, f[k - 1])]
    BY <2>3, <2>4
  <2> QED BY <2>5
<1>4. PICK g : Follows(g) /\ ContinuationValues(obs) = g
  BY <1>3, Zenon DEF ContinuationValues
<1>5. g[0] = 0 /\ \A k \in 1..KMax : g[k] = Expected(obs, g[k - 1])
  BY <1>2, <1>4
<1> DEFINE P == {k \in 0..KMax : g[k] \in Nat}
<1>6. \A k \in 0..KMax : k \in P
  <2>1. 0 \in P
    BY <1>2, <1>5
  <2>2. ASSUME NEW k \in 1..KMax, k - 1 \in P PROVE k \in P
    <3>1. g[k] \in Nat
      BY <1>1, <1>5, <2>2
    <3> QED BY <1>2, <3>1
  <2> HIDE DEF P
  <2> QED BY <1>2, <2>1, <2>2, UpInduction
<1>7. g \in [0..KMax -> Nat]
  <2>1. \A k \in 0..KMax : g[k] \in Nat
    BY <1>6
  <2>2. g = [k \in 0..KMax |-> g[k]]
    BY <1>4
  <2> QED BY <2>1, <2>2
<1> QED BY <1>4, <1>5, <1>7

(* The value of going on never falls with the draws left.                  *)
LEMMA ValuesMonotone ==
  ASSUME NEW obs \in Seq(Nat), NEW b \in 0..KMax, NEW a \in 0..b
  PROVE  ContinuationValues(obs)[a] <= ContinuationValues(obs)[b]
<1> DEFINE V == ContinuationValues(obs)
           P == {k \in 0..b : V[a] <= V[k] \/ k < a}
<1>1. KMax \in Nat /\ b \in Nat /\ a \in Nat /\ b <= KMax /\ a <= b
  BY PoolTyped
<1>2. /\ \A k \in 0..KMax : V[k] \in Nat
      /\ \A k \in 1..KMax : V[k] = Expected(obs, V[k - 1])
  BY ValuesUnfold
<1> HIDE DEF V
<1>3. ASSUME NEW k \in 1..b PROVE V[k - 1] <= V[k] /\ V[k - 1] \in Nat /\ V[k] \in Nat
  <2>1. k - 1 \in 0..KMax /\ k \in 1..KMax /\ k \in 0..KMax
    BY <1>1
  <2>2. V[k - 1] \in Nat /\ V[k] \in Nat /\ V[k] = Expected(obs, V[k - 1])
    BY <1>2, <2>1
  <2>3. V[k - 1] <= Expected(obs, V[k - 1])
    BY <2>2, ExpectedAtLeast
  <2> QED BY <2>2, <2>3
<1>4. 0 \in P
  <2>1. V[0] \in Nat
    BY <1>1, <1>2
  <2>2. a = 0 \/ 0 < a
    BY <1>1
  <2> QED BY <1>1, <2>1, <2>2
<1>5. ASSUME NEW k \in 1..b, k - 1 \in P PROVE k \in P
  <2>1. V[k - 1] <= V[k] /\ V[k - 1] \in Nat /\ V[k] \in Nat /\ V[a] \in Nat
    BY <1>1, <1>2, <1>3
  <2>2. CASE V[a] <= V[k - 1]
    <3>1. V[a] <= V[k]
      BY <2>1, <2>2
    <3> QED BY <3>1
  <2>3. CASE k - 1 < a
    <3>1. k < a \/ k = a
      BY <1>1, <2>3
    <3> QED BY <2>1, <3>1
  <2> QED BY <1>5, <2>2, <2>3
<1>6. b \in P
  <2>1. \A k \in 0..b : k \in P
    <3> HIDE DEF P
    <3> QED BY <1>1, <1>4, <1>5, UpInduction
  <2> QED BY <1>1, <2>1
<1>7. V[a] <= V[b]
  BY <1>1, <1>6
<1> QED BY <1>7 DEF V

(* A draw no better than the expected one raises no value.                 *)
LEMMA ValuesPoorDraw ==
  ASSUME NEW obs \in Seq(Nat), NEW x \in Nat, x <= ContinuationValues(obs)[1],
         NEW k \in 0..KMax
  PROVE  ContinuationValues(Append(obs, x))[k] <= ContinuationValues(obs)[k]
<1> DEFINE ap == Append(obs, x)
           V  == ContinuationValues(obs)
           W  == ContinuationValues(ap)
           P  == {i \in 0..KMax : W[i] <= V[i]}
<1>1. ap \in Seq(Nat)
  OBVIOUS
<1>2. KMax \in Nat /\ 1 \in 0..KMax
  BY PoolTyped
<1>3. /\ \A i \in 0..KMax : V[i] \in Nat /\ W[i] \in Nat
      /\ \A i \in 1..KMax : V[i] = Expected(obs, V[i - 1])
      /\ \A i \in 1..KMax : W[i] = Expected(ap, W[i - 1])
      /\ V[0] = 0 /\ W[0] = 0
  <2> HIDE DEF ap
  <2> QED BY <1>1, ValuesUnfold
<1>4. \A i \in 1..KMax : x <= V[i]
  <2> SUFFICES ASSUME NEW i \in 1..KMax PROVE x <= V[i]
    OBVIOUS
  <2>1. i \in 0..KMax /\ 1 \in 0..i
    BY <1>2
  <2>2. V[1] <= V[i]
    BY <2>1, ValuesMonotone
  <2>3. x <= V[1] /\ V[1] \in Nat /\ V[i] \in Nat
    BY <1>2, <1>3, <2>1
  <2> QED BY <2>2, <2>3
<1> HIDE DEF V, W
<1>5. 0 \in P
  BY <1>2, <1>3
<1>6. ASSUME NEW i \in 1..KMax, i - 1 \in P PROVE i \in P
  <2> DEFINE p == W[i - 1]
             q == V[i - 1]
  <2>1. p \in Nat /\ q \in Nat /\ p <= q /\ i \in 0..KMax
    BY <1>2, <1>3, <1>6
  <2>2. W[i] = Expected(ap, p) /\ V[i] = Expected(obs, q) /\ x <= V[i]
    BY <1>3, <1>4
  <2> HIDE DEF p, q
  <2>3. Expected(ap, q) <= Expected(obs, q)
    BY <2>1, <2>2, ExpectedPoorDraw
  <2> HIDE DEF ap
  <2>4. Expected(ap, p) <= Expected(ap, q)
    BY <1>1, <2>1, ExpectedMonotone
  <2>5. Expected(ap, p) \in Nat /\ Expected(ap, q) \in Nat /\ Expected(obs, q) \in Nat
    BY <1>1, <2>1, NumeratorTyped
  <2>6. W[i] <= V[i]
    BY <2>2, <2>3, <2>4, <2>5
  <2> QED BY <2>1, <2>6
<1>7. \A i \in 0..KMax : i \in P
  <2> HIDE DEF P
  <2> QED BY <1>2, <1>5, <1>6, UpInduction
<1> QED BY <1>7 DEF V, W

(* No value exceeds the best draw of the pool or of the run.               *)
LEMMA ValuesAtMost ==
  ASSUME NEW obs \in Seq(Nat), NEW m \in Nat,
         \A i \in 1..Len(Pool) : Pool[i] <= m,
         \A i \in 1..Len(obs) : obs[i] <= m
  PROVE  \A k \in 0..KMax : ContinuationValues(obs)[k] <= m
<1> DEFINE V == ContinuationValues(obs)
           P == {k \in 0..KMax : V[k] <= m}
<1>1. KMax \in Nat
  BY PoolTyped
<1>2. /\ \A k \in 0..KMax : V[k] \in Nat
      /\ V[0] = 0
      /\ \A k \in 1..KMax : V[k] = Expected(obs, V[k - 1])
  BY ValuesUnfold
<1> HIDE DEF V
<1>3. 0 \in P
  BY <1>1, <1>2
<1>4. ASSUME NEW k \in 1..KMax, k - 1 \in P PROVE k \in P
  <2>1. V[k - 1] \in Nat /\ V[k - 1] <= m /\ k \in 0..KMax
    BY <1>1, <1>2, <1>4
  <2>2. Expected(obs, V[k - 1]) <= m
    BY <2>1, ExpectedAtMost
  <2> QED BY <1>2, <2>1, <2>2
<1>5. \A k \in 0..KMax : k \in P
  <2> HIDE DEF P
  <2> QED BY <1>1, <1>3, <1>4, UpInduction
<1> QED BY <1>5 DEF V

LEMMA BestDraw ==
  ASSUME NEW s \in Seq(Nat), s # <<>>
  PROVE  \E j \in 1..Len(s) : \A i \in 1..Len(s) : s[i] <= s[j]
<1> DEFINE w == [i \in 1..Len(s) |-> s[i]]
<1>1. IsFiniteSet(1..Len(s)) /\ \A i \in 1..Len(s) : s[i] \in Nat
  BY Indices
<1>2. 1 \in 1..Len(s)
  OBVIOUS
<1>3. w \in [1..Len(s) -> Nat] /\ \A i \in 1..Len(s) : w[i] = s[i]
  BY <1>1
<1> HIDE DEF w
<1>4. PICK j \in 1..Len(s) : \A i \in 1..Len(s) : w[i] <= w[j]
  <2>1. 1..Len(s) # {}
    BY <1>2
  <2> QED BY <1>1, <1>3, <2>1, LargestValue
<1>5. \A i \in 1..Len(s) : s[i] <= s[j]
  BY <1>3, <1>4
<1> QED BY <1>5

(* One of the draws of the pool and of obs is at least every value.        *)
LEMMA ValuesBounded ==
  ASSUME NEW obs \in Seq(Nat)
  PROVE  \E x \in {Pool[i] : i \in 1..Len(Pool)} \cup {obs[i] : i \in 1..Len(obs)} :
           \A k \in 0..KMax : ContinuationValues(obs)[k] <= x
<1>1. PICK i \in 1..Len(Pool) : \A h \in 1..Len(Pool) : Pool[h] <= Pool[i]
  BY PoolAssumption, BestDraw
<1>2. Pool[i] \in Nat /\ \A h \in 1..Len(Pool) : Pool[h] \in Nat
  BY PoolTyped, Indices
<1>3. CASE \A h \in 1..Len(obs) : obs[h] <= Pool[i]
  <2>1. \A k \in 0..KMax : ContinuationValues(obs)[k] <= Pool[i]
    BY <1>1, <1>2, <1>3, ValuesAtMost
  <2> QED BY <2>1
<1>4. CASE ~ \A h \in 1..Len(obs) : obs[h] <= Pool[i]
  <2>1. PICK g \in 1..Len(obs) : ~(obs[g] <= Pool[i])
    BY <1>4
  <2>2. obs # <<>> /\ \A h \in 1..Len(obs) : obs[h] \in Nat
    BY <2>1, Indices
  <2>3. PICK j \in 1..Len(obs) : \A h \in 1..Len(obs) : obs[h] <= obs[j]
    BY <2>2, BestDraw
  <2>4. obs[j] \in Nat /\ obs[g] \in Nat /\ obs[g] <= obs[j]
    BY <2>2, <2>3
  <2>5. \A h \in 1..Len(Pool) : Pool[h] <= obs[j]
    <3>1. ASSUME NEW h \in 1..Len(Pool) PROVE Pool[h] <= obs[j]
      <4>1. Pool[h] \in Nat /\ Pool[h] <= Pool[i]
        BY <1>1, <1>2
      <4> QED BY <1>2, <2>1, <2>4, <4>1
    <3> QED BY <3>1
  <2>6. \A k \in 0..KMax : ContinuationValues(obs)[k] <= obs[j]
    BY <2>3, <2>4, <2>5, ValuesAtMost
  <2> QED BY <2>6
<1> QED BY <1>3, <1>4

-----------------------------------------------------------------------------
(* A fixed threshold does no better.                                       *)

LEMMA ExpectedFromAtMost ==
  ASSUME observed \in Seq(Nat), NEW t \in Nat, NEW p \in Nat, NEW q \in Nat, q <= p
  PROVE  ExpectedFrom(t, q) \in Nat /\ ExpectedFrom(t, q) <= Expected(observed, p)
<1> DEFINE a == HalfWeight * KeptFrom(Pool, t, q) + Len(Pool) * KeptFrom(observed, t, q)
<1>1. /\ KeptFrom(Pool, t, q) \in Nat /\ KeptFrom(observed, t, q) \in Nat
      /\ SumKept(Pool, p) \in Nat /\ SumKept(observed, p) \in Nat
      /\ KeptFrom(Pool, t, q) <= SumKept(Pool, p)
      /\ KeptFrom(observed, t, q) <= SumKept(observed, p)
  BY PoolTyped, SumKeptTyped, KeptFromAtMost
<1>2. a \in Nat /\ a <= Numerator(observed, p)
  BY <1>1, PoolTyped, PairOfProducts DEF Numerator
<1>3. ExpectedFrom(t, q) = a \div Weight(observed)
  BY DEF ExpectedFrom, Weight
<1> HIDE DEF a
<1>4. Numerator(observed, p) \in Nat /\ Weight(observed) \in Nat \ {0}
  BY NumeratorTyped, WeightTyped
<1>5. a \div Weight(observed) <= Numerator(observed, p) \div Weight(observed)
  BY <1>2, <1>4, DivisionMonotone
<1>6. a \div Weight(observed) \in Nat
  BY <1>2, <1>4, Division
<1> QED BY <1>3, <1>5, <1>6, NumeratorTyped

LEMMA FixedThresholdAtMost ==
  ASSUME observed \in Seq(Nat), NEW t \in Nat
  PROVE  \A k \in 0..KMax : FixedThresholdValue(t)[k] <= ContinuationValues(observed)[k]
<1> DEFINE Follows(g) == g = [k \in 0..KMax |-> IF k = 0 THEN 0 ELSE ExpectedFrom(t, g[k - 1])]
           V == ContinuationValues(observed)
<1>1. \A p \in Nat : ExpectedFrom(t, p) \in Nat
  <2>1. ASSUME NEW p \in Nat PROVE ExpectedFrom(t, p) \in Nat
    <3>1. p <= p
      OBVIOUS
    <3> QED BY <3>1, ExpectedFromAtMost
  <2> QED BY <2>1
<1>2. KMax \in Nat
  BY PoolTyped
<1>3. \E f : Follows(f)
  <2> DEFINE step == [p \in Nat |-> ExpectedFrom(t, p)]
  <2>1. step \in [Nat -> Nat]
    BY <1>1
  <2>2. \A p \in Nat : step[p] = ExpectedFrom(t, p)
    OBVIOUS
  <2> HIDE DEF step
  <2>3. PICK f \in [0..KMax -> Nat] : f[0] = 0 /\ \A k \in 1..KMax : f[k] = step[f[k - 1]]
    BY <1>2, <2>1, RecursionExists
  <2>4. \A k \in 0..KMax : f[k] = IF k = 0 THEN 0 ELSE ExpectedFrom(t, f[k - 1])
    <3>1. ASSUME NEW k \in 1..KMax PROVE f[k] = ExpectedFrom(t, f[k - 1])
      <4>1. k - 1 \in 0..KMax /\ f[k] = step[f[k - 1]]
        BY <1>2, <2>3
      <4>2. f[k - 1] \in Nat
        BY <2>3, <4>1
      <4> QED BY <2>2, <4>1, <4>2
    <3> QED BY <1>2, <2>3, <3>1
  <2>5. f = [k \in 0..KMax |-> IF k = 0 THEN 0 ELSE ExpectedFrom(t, f[k - 1])]
    BY <2>3, <2>4
  <2> QED BY <2>5
<1>4. PICK g : Follows(g) /\ FixedThresholdValue(t) = g
  BY <1>3, Zenon DEF FixedThresholdValue
<1>5. g[0] = 0 /\ \A k \in 1..KMax : g[k] = ExpectedFrom(t, g[k - 1])
  BY <1>2, <1>4
<1>6. /\ \A k \in 0..KMax : V[k] \in Nat
      /\ V[0] = 0
      /\ \A k \in 1..KMax : V[k] = Expected(observed, V[k - 1])
  BY ValuesUnfold
<1> HIDE DEF V
<1> DEFINE P == {k \in 0..KMax : g[k] \in Nat /\ g[k] <= V[k]}
<1>7. \A k \in 0..KMax : k \in P
  <2>1. 0 \in P
    BY <1>2, <1>5, <1>6
  <2>2. ASSUME NEW k \in 1..KMax, k - 1 \in P PROVE k \in P
    <3>1. g[k - 1] \in Nat /\ V[k - 1] \in Nat /\ g[k - 1] <= V[k - 1] /\ k \in 0..KMax
      BY <1>2, <1>6, <2>2
    <3>2. /\ ExpectedFrom(t, g[k - 1]) \in Nat
          /\ ExpectedFrom(t, g[k - 1]) <= Expected(observed, V[k - 1])
      BY <3>1, ExpectedFromAtMost
    <3> QED BY <1>5, <1>6, <3>1, <3>2
  <2> HIDE DEF P
  <2> QED BY <1>2, <2>1, <2>2, UpInduction
<1> QED BY <1>4, <1>7 DEF V

-----------------------------------------------------------------------------
(* The accept threshold.                                                   *)

Ramp(total) == Larger(3, total \div 2)
\* What the hold leaves of the bar with r attempts remaining.
Falling(total, r) == IF r >= Ramp(total) THEN Hold ELSE (Hold * r) \div Ramp(total)
\* What going on is worth with r attempts remaining.
GoingOn(obs, r) == ContinuationValues(obs)[Smaller(r, KMax)]

LEMMA ThresholdIs ==
  ASSUME NEW obs \in Seq(Nat), NEW total \in Nat, NEW i \in Nat
  PROVE  /\ total <= i => StopThreshold(i, total, obs) = 0
         /\ i < total => /\ total - i \in Nat \ {0}
                         /\ StopThreshold(i, total, obs)
                              = Smaller(Falling(total, total - i), GoingOn(obs, total - i))
<1>1. total <= i => total - i <= 0
  OBVIOUS
<1>2. i < total => ~(total - i <= 0) /\ total - i \in Nat \ {0}
  OBVIOUS
<1> QED BY <1>1, <1>2 DEF StopThreshold, Falling, Ramp, GoingOn

LEMMA FallingTyped ==
  ASSUME NEW total \in Nat, NEW r \in Nat
  PROVE  Falling(total, r) \in Nat /\ Falling(total, r) <= Hold
<1>1. Ramp(total) \in Nat \ {0} /\ Hold \in Nat
  BY HoldAssumption DEF Ramp, Larger
<1>2. CASE r >= Ramp(total)
  BY <1>1, <1>2 DEF Falling
<1>3. CASE ~(r >= Ramp(total))
  <2> DEFINE m == Ramp(total)
  <2>1. m \in Nat \ {0} /\ r <= m
    BY <1>1, <1>3
  <2>2. Falling(total, r) = (Hold * r) \div m
    BY <1>3 DEF Falling
  <2> HIDE DEF m
  <2>3. Hold * r <= Hold * m /\ Hold * r \in Nat
    BY <1>1, <2>1, ProductMonotone
  <2>4. Hold * r <= m * Hold
    BY <1>1, <2>1, <2>3
  <2>5. (Hold * r) \div m <= Hold /\ (Hold * r) \div m \in Nat
    BY <1>1, <2>1, <2>3, <2>4, QuotientAtMost, Division
  <2> QED BY <2>2, <2>5
<1> QED BY <1>2, <1>3

LEMMA GoingOnTyped ==
  ASSUME NEW obs \in Seq(Nat), NEW r \in Nat
  PROVE  GoingOn(obs, r) \in Nat /\ Smaller(r, KMax) \in 0..KMax
<1>1. Smaller(r, KMax) \in 0..KMax
  BY PoolTyped DEF Smaller
<1> QED BY <1>1, ValuesUnfold DEF GoingOn

LEMMA GoingOnMonotone ==
  ASSUME NEW obs \in Seq(Nat), NEW r \in Nat, NEW q \in Nat, q <= r
  PROVE  GoingOn(obs, q) <= GoingOn(obs, r)
<1>1. Smaller(q, KMax) \in 0..Smaller(r, KMax) /\ Smaller(r, KMax) \in 0..KMax
  BY PoolTyped DEF Smaller
<1> QED BY <1>1, ValuesMonotone DEF GoingOn

LEMMA SmallerMonotone ==
  ASSUME NEW a \in Nat, NEW b \in Nat, NEW x \in Nat, NEW y \in Nat, a <= x, b <= y
  PROVE  Smaller(a, b) \in Nat /\ Smaller(a, b) <= a /\ Smaller(a, b) <= Smaller(x, y)
  BY DEF Smaller

LEMMA ThresholdTyped ==
  ASSUME NEW obs \in Seq(Nat), NEW total \in Nat, NEW i \in Nat
  PROVE  StopThreshold(i, total, obs) \in Nat /\ StopThreshold(i, total, obs) <= Hold
<1>1. CASE total <= i
  <2>1. StopThreshold(i, total, obs) = 0
    BY <1>1, ThresholdIs
  <2> QED BY <2>1, HoldAssumption
<1>2. CASE ~(total <= i)
  <2>1. /\ total - i \in Nat
        /\ StopThreshold(i, total, obs)
             = Smaller(Falling(total, total - i), GoingOn(obs, total - i))
    BY <1>2, ThresholdIs
  <2>2. /\ Falling(total, total - i) \in Nat /\ Falling(total, total - i) <= Hold
        /\ GoingOn(obs, total - i) \in Nat
    BY <2>1, FallingTyped, GoingOnTyped
  <2> QED BY <2>1, <2>2, HoldAssumption DEF Smaller
<1> QED BY <1>1, <1>2

(* With a shorter horizon and an attempt more the hold leaves no more.     *)
LEMMA FallingShorter ==
  ASSUME NEW total \in Nat, NEW shorter \in Nat, NEW i \in Nat,
         shorter <= total, i + 1 < shorter
  PROVE  Falling(shorter, shorter - (i + 1)) <= Falling(total, total - i)
<1> DEFINE q == shorter - (i + 1)
           r == total - i
           l == Ramp(shorter)
           m == Ramp(total)
<1>1. q \in Nat /\ r \in Nat /\ q < r
  OBVIOUS
<1>2. l \in Nat \ {0} /\ m \in Nat \ {0} /\ l <= m /\ m + q <= l + r
  BY DEF Ramp, Larger
<1>3. r < m => q < l
  BY DEF Ramp, Larger
<1>4. Hold \in Nat
  BY HoldAssumption
<1>5. Falling(total, r) = IF r >= m THEN Hold ELSE (Hold * r) \div m
  BY DEF Falling
<1>6. Falling(shorter, q) = IF q >= l THEN Hold ELSE (Hold * q) \div l
  BY DEF Falling
<1>7. Falling(shorter, q) <= Hold
  BY <1>1, FallingTyped
<1> HIDE DEF q, r, l, m
<1>8. ASSUME r >= m PROVE Falling(shorter, q) <= Falling(total, r)
  BY <1>4, <1>5, <1>7, <1>8
<1>9. ASSUME r < m PROVE Falling(shorter, q) <= Falling(total, r)
  <2>1. q < l /\ q \in Nat /\ r \in Nat
    BY <1>1, <1>3, <1>9
  <2>2. PICK e \in Nat : m = l + e
    <3>1. m - l \in Nat /\ m = l + (m - l)
      BY <1>2
    <3> QED BY <3>1
  <2>3. q + e <= r
    BY <1>2, <2>1, <2>2
  <2>4. m * q <= l * r /\ m * q \in Nat /\ l * r \in Nat
    <3>1. m * q = l * q + e * q
      BY <1>2, <2>1, <2>2
    <3>2. e * q <= e * l /\ e * q \in Nat /\ e * l \in Nat
      BY <1>2, <2>1, <2>2, ProductMonotone
    <3>3. e * l = l * e
      BY <1>2, <2>2
    <3>4. l * (q + e) = l * q + l * e
      BY <1>2, <2>1, <2>2
    <3>5. l * (q + e) <= l * r /\ l * (q + e) \in Nat /\ l * r \in Nat
      BY <1>2, <2>1, <2>2, <2>3, ProductMonotone
    <3>6. l * q \in Nat
      BY <1>2, <2>1, ProductMonotone
    <3> QED BY <3>1, <3>2, <3>3, <3>4, <3>5, <3>6
  <2> DEFINE a == (Hold * q) \div l
  <2>5. Hold * q \in Nat /\ Hold * r \in Nat
    BY <1>4, <2>1, ProductMonotone
  <2>6. a \in Nat /\ l * a <= Hold * q
    BY <1>2, <2>5, Division
  <2> HIDE DEF a
  <2>7. m * a <= Hold * r
    <3>1. m * (l * a) <= m * (Hold * q) /\ m * (l * a) \in Nat /\ m * (Hold * q) \in Nat
      <4>1. l * a \in Nat
        BY <1>2, <2>6, ProductMonotone
      <4> QED BY <1>2, <2>5, <2>6, <4>1, ProductMonotone
    <3>2. m * (Hold * q) = Hold * (m * q) /\ m * (l * a) = l * (m * a)
      BY <1>2, <1>4, <2>1, <2>6
    <3>3. Hold * (m * q) <= Hold * (l * r) /\ Hold * (m * q) \in Nat /\ Hold * (l * r) \in Nat
      BY <1>4, <2>4, ProductMonotone
    <3>4. Hold * (l * r) = l * (Hold * r)
      BY <1>2, <1>4, <2>1
    <3>5. l * (m * a) <= l * (Hold * r)
      BY <3>1, <3>2, <3>3, <3>4
    <3>6. m * a \in Nat
      BY <1>2, <2>6, ProductMonotone
    <3>7. SUFFICES ASSUME Hold * r + 1 <= m * a PROVE FALSE
      BY <2>5, <3>6
    <3>8. l * (Hold * r + 1) <= l * (m * a)
      <4>1. Hold * r + 1 \in Nat
        BY <2>5
      <4> QED BY <1>2, <3>6, <3>7, <4>1, ProductMonotone
    <3>9. l * (Hold * r + 1) = l * (Hold * r) + l
      BY <1>2, <2>5
    <3>10. l * (Hold * r) \in Nat /\ l * (m * a) \in Nat
      BY <1>2, <2>5, <3>6, ProductMonotone
    <3> QED BY <1>2, <3>5, <3>8, <3>9, <3>10
  <2>8. a <= (Hold * r) \div m
    BY <1>2, <2>5, <2>6, <2>7, QuotientAtLeast
  <2> QED BY <1>2, <1>5, <1>6, <1>9, <2>1, <2>8 DEF a
<1> QED BY <1>1, <1>2, <1>8, <1>9 DEF q, r

(* A poor draw, an attempt more and a horizon no longer: the bar does not  *)
(* rise.                                                                   *)
LEMMA ThresholdPoorDraw ==
  ASSUME NEW obs \in Seq(Nat), NEW x \in Nat, x <= ContinuationValues(obs)[1],
         NEW total \in Nat, NEW shorter \in Nat, NEW i \in Nat, shorter <= total
  PROVE  StopThreshold(i + 1, shorter, Append(obs, x)) <= StopThreshold(i, total, obs)
<1>1. PICK ap : ap = Append(obs, x)
  OBVIOUS
<1>2. ap \in Seq(Nat) /\ i + 1 \in Nat
  BY <1>1
<1>3. CASE shorter <= i + 1
  <2>1. StopThreshold(i + 1, shorter, ap) = 0
    BY <1>2, <1>3, ThresholdIs
  <2> QED BY <1>1, <2>1, ThresholdTyped
<1>4. CASE ~(shorter <= i + 1)
  <2>1. PICK q, r : q = shorter - (i + 1) /\ r = total - i
    OBVIOUS
  <2>2. q \in Nat /\ r \in Nat /\ q <= r /\ i + 1 < shorter /\ i < total
    BY <1>4, <2>1
  <2>3. /\ StopThreshold(i + 1, shorter, ap) = Smaller(Falling(shorter, q), GoingOn(ap, q))
        /\ StopThreshold(i, total, obs) = Smaller(Falling(total, r), GoingOn(obs, r))
    BY <1>2, <2>1, <2>2, ThresholdIs
  <2>4. /\ Falling(shorter, q) \in Nat /\ GoingOn(ap, q) \in Nat /\ GoingOn(obs, q) \in Nat
        /\ Falling(total, r) \in Nat /\ GoingOn(obs, r) \in Nat
    BY <1>2, <2>2, FallingTyped, GoingOnTyped
  <2>5. GoingOn(ap, q) <= GoingOn(obs, q) /\ GoingOn(obs, q) <= GoingOn(obs, r)
    BY <1>1, <2>2, GoingOnTyped, GoingOnMonotone, ValuesPoorDraw DEF GoingOn
  <2>6. Falling(shorter, q) <= Falling(total, r)
    BY <2>1, <2>2, FallingShorter
  <2>7. GoingOn(ap, q) <= GoingOn(obs, r)
    BY <2>4, <2>5
  <2>8. StopThreshold(i + 1, shorter, ap) <= StopThreshold(i, total, obs)
    BY <2>3, <2>4, <2>6, <2>7, SmallerMonotone
  <2> QED BY <1>1, <2>8
<1> QED BY <1>3, <1>4

LEMMA ThresholdAbort ==
  ASSUME NEW obs \in Seq(Nat), NEW total \in Nat, NEW i \in Nat
  PROVE  StopThreshold(i, total, Append(obs, 0)) <= StopThreshold(i, total, obs)
<1>1. PICK ap : ap = Append(obs, 0)
  OBVIOUS
<1>2. ap \in Seq(Nat)
  BY <1>1
<1>3. CASE total <= i
  <2>1. StopThreshold(i, total, ap) = 0
    BY <1>2, <1>3, ThresholdIs
  <2> QED BY <1>1, <2>1, ThresholdTyped
<1>4. CASE ~(total <= i)
  <2>1. PICK r : r = total - i
    OBVIOUS
  <2>2. r \in Nat /\ i < total
    BY <1>4, <2>1
  <2>3. /\ StopThreshold(i, total, ap) = Smaller(Falling(total, r), GoingOn(ap, r))
        /\ StopThreshold(i, total, obs) = Smaller(Falling(total, r), GoingOn(obs, r))
    BY <1>2, <2>1, <2>2, ThresholdIs
  <2>4. Falling(total, r) \in Nat /\ GoingOn(ap, r) \in Nat /\ GoingOn(obs, r) \in Nat
    BY <1>2, <2>2, FallingTyped, GoingOnTyped
  <2>5. GoingOn(ap, r) <= GoingOn(obs, r)
    <3>1. 0 <= ContinuationValues(obs)[1]
      <4>1. 1 \in 0..KMax
        BY PoolTyped
      <4>2. ContinuationValues(obs) \in [0..KMax -> Nat]
        BY ValuesUnfold
      <4>3. ContinuationValues(obs)[1] \in Nat
        BY <4>1, <4>2
      <4> QED BY <4>3
    <3> QED BY <1>1, <2>2, <3>1, GoingOnTyped, ValuesPoorDraw DEF GoingOn
  <2>6. Falling(total, r) <= Falling(total, r)
    BY <2>4
  <2>7. StopThreshold(i, total, ap) <= StopThreshold(i, total, obs)
    BY <2>3, <2>4, <2>5, <2>6, SmallerMonotone
  <2> QED BY <1>1, <2>7
<1> QED BY <1>3, <1>4

-----------------------------------------------------------------------------
(* The horizon.                                                            *)

Least(T) == CHOOSE m \in T : \A k \in T : m <= k

LEMMA LeastIs ==
  ASSUME NEW T, T \subseteq Nat, T # {}
  PROVE  Least(T) \in T /\ \A k \in T : Least(T) <= k
BY LeastNumber DEF Least

(* The loop of attempts_left_in_budget ends at the first further attempt   *)
(* that does not fit, or at the cap.                                       *)
LEMMA HorizonIs ==
  ASSUME NEW elapsed, NEW sum, NEW n, sum # 0, n # 0, NEW cap \in Nat
  PROVE  LET left == AttemptsLeft(elapsed, sum, n, cap)
         IN  /\ left \in 0..cap
             /\ \A k \in 1..left : FitsAfter(k, elapsed, sum, n)
             /\ left < cap => ~FitsAfter(left + 1, elapsed, sum, n)
<1> DEFINE Fits(k) == FitsAfter(k, elapsed, sum, n)
           Ends(i) == {k \in i..cap : k = cap \/ ~Fits(k + 1)}
           Follows(g) == g = [i \in 0..Larger(cap, 0) |->
                                IF i < cap /\ Fits(i + 1) THEN g[i + 1] ELSE i]
<1>1. CASE cap = 0
  <2>1. AttemptsLeft(elapsed, sum, n, cap) = 0
    BY <1>1 DEF AttemptsLeft
  <2> QED BY <1>1, <2>1
<1>2. CASE cap # 0
  <2>1. Larger(cap, 0) = cap /\ ~(cap <= 0)
    BY <1>2 DEF Larger
  <2>2. \E f : Follows(f)
    <3> DEFINE f == [i \in 0..cap |-> Least(Ends(i))]
    <3>1. ASSUME NEW i \in 0..cap
          PROVE  Least(Ends(i)) = IF i < cap /\ Fits(i + 1) THEN Least(Ends(i + 1)) ELSE i
      <4>1. CASE i < cap /\ Fits(i + 1)
        <5>1. Ends(i) = Ends(i + 1)
          <6>1. ASSUME NEW k \in i..cap, k = cap \/ ~Fits(k + 1) PROVE k \in (i + 1)..cap
            <7>1. k # i
              BY <4>1, <6>1
            <7> QED BY <7>1
          <6>2. (i + 1)..cap \subseteq i..cap
            OBVIOUS
          <6> QED BY <6>1, <6>2
        <5> QED BY <4>1, <5>1
      <4>2. CASE ~(i < cap /\ Fits(i + 1))
        <5>1. i \in Ends(i)
          BY <4>2
        <5>2. Ends(i) \subseteq Nat /\ Ends(i) # {} /\ \A k \in Ends(i) : i <= k
          BY <5>1
        <5>3. Least(Ends(i)) \in Ends(i) /\ Least(Ends(i)) <= i
          <6> HIDE DEF Ends
          <6> QED BY <5>1, <5>2, LeastIs
        <5>4. Least(Ends(i)) = i
          <6>1. Least(Ends(i)) \in Nat /\ i <= Least(Ends(i))
            <7> HIDE DEF Ends
            <7> QED BY <5>2, <5>3
          <6> HIDE DEF Ends
          <6> QED BY <5>3, <6>1
        <5> QED BY <4>2, <5>4
      <4> QED BY <4>1, <4>2
    <3> HIDE DEF Ends, Fits
    <3>2. \A i \in 0..cap : f[i] = IF i < cap /\ Fits(i + 1) THEN f[i + 1] ELSE i
      <4>1. ASSUME NEW i \in 0..cap, i < cap PROVE i + 1 \in 0..cap
        BY <4>1
      <4> QED BY <3>1, <4>1
    <3> HIDE DEF f
    <3>3. f = [i \in 0..cap |-> f[i]]
      BY DEF f
    <3>4. f = [i \in 0..cap |-> IF i < cap /\ Fits(i + 1) THEN f[i + 1] ELSE i]
      BY <3>2, <3>3
    <3> QED BY <2>1, <3>4
  <2>3. PICK g : Follows(g) /\ AttemptsLeft(elapsed, sum, n, cap) = g[0]
    BY <2>1, <2>2, Zenon DEF AttemptsLeft
  <2> HIDE DEF Fits
  <2>4. \A i \in 0..cap : g[i] = IF i < cap /\ Fits(i + 1) THEN g[i + 1] ELSE i
    BY <2>1, <2>3
  <2> DEFINE P == {i \in 0..cap : /\ g[i] \in i..cap
                                  /\ \A k \in (i + 1)..g[i] : Fits(k)
                                  /\ g[i] < cap => ~Fits(g[i] + 1)}
  <2>5. cap \in P
    <3>1. g[cap] = cap
      BY <2>4
    <3> QED BY <3>1
  <2>6. ASSUME NEW i \in 1..cap, i \in P PROVE i - 1 \in P
    <3>1. i - 1 \in 0..cap /\ i - 1 < cap /\ (i - 1) + 1 = i
      OBVIOUS
    <3>2. g[i - 1] = IF Fits(i) THEN g[i] ELSE i - 1
      BY <2>4, <3>1
    <3>3. CASE Fits(i)
      <4>1. g[i - 1] = g[i] /\ g[i] \in i..cap
        BY <2>6, <3>2, <3>3
      <4>2. ASSUME NEW k \in ((i - 1) + 1)..g[i] PROVE Fits(k)
        <5>1. k = i \/ k \in (i + 1)..g[i]
          BY <4>1
        <5> QED BY <2>6, <3>3, <5>1
      <4>3. g[i] \in (i - 1)..cap
        BY <4>1
      <4> QED BY <2>6, <3>1, <4>1, <4>2, <4>3
    <3>4. CASE ~Fits(i)
      <4>1. g[i - 1] = i - 1
        BY <3>2, <3>4
      <4>2. ((i - 1) + 1)..(i - 1) = {} /\ i - 1 \in (i - 1)..cap
        OBVIOUS
      <4> QED BY <3>1, <3>4, <4>1, <4>2
    <3> QED BY <3>3, <3>4
  <2>7. 0 \in P
    <3>1. \A i \in 0..cap : i \in P
      <4> HIDE DEF P
      <4> QED BY <2>5, <2>6, DownInduction
    <3> QED BY <3>1
  <2> QED BY <2>3, <2>7 DEF Fits
<1> QED BY <1>1, <1>2

(* A further attempt fits exactly when the governor starts it after k      *)
(* resets and k - 1 attempts of the average length.                        *)
LEMMA FitsIsStart ==
  ASSUME NEW elapsed \in Nat, NEW n \in Nat \ {0}, NEW avg \in Nat, NEW k \in Nat \ {0},
         NEW sum \in Nat \ {0}, (k - 1) * sum = n * ((k - 1) * avg)
  PROVE  FitsAfter(k, elapsed, sum, n)
           <=> ShouldStart(2, elapsed + k * ResetCost + (k - 1) * avg, sum, n)
<1> DEFINE x == Budget - (elapsed + k * ResetCost + (k - 1) * avg)
           left == n * (Budget - elapsed - k * ResetCost) - (k - 1) * sum
<1>1. k * ResetCost \in Nat /\ (k - 1) * avg \in Nat /\ Budget \in Int
  <2>1. k \in Nat /\ k - 1 \in Nat /\ ResetCost \in Nat /\ Budget \in Nat
    BY TimeAssumption
  <2> QED BY <2>1, ProductMonotone
<1>2. left = n * x /\ x \in Int
  <2>1. \A a, b, c \in Int : n * (a - b) - n * c = n * (a - (b + c))
    OBVIOUS
  <2> DEFINE c == (k - 1) * avg
             b == elapsed + k * ResetCost
  <2>2. c \in Int /\ b \in Int /\ Budget \in Int
    BY <1>1
  <2>3. Budget - elapsed - k * ResetCost = Budget - b /\ x = Budget - (b + c)
    BY <1>1
  <2>4. (k - 1) * sum = n * c
    OBVIOUS
  <2>5. left = n * (Budget - b) - n * c
    BY <2>3, <2>4
  <2> HIDE DEF b, c, x, left
  <2> QED BY <2>1, <2>2, <2>3, <2>5
<1> HIDE DEF x, left
<1>3. n * x > 0 <=> x > 0
  BY <1>2
<1>4. 5 * (n * x) = 5 * n * x
  BY <1>2
<1>5. FitsAfter(k, elapsed, sum, n) <=> left > 0 /\ 5 * left > 4 * sum
  BY DEF FitsAfter, left
<1>6. ShouldStart(2, elapsed + k * ResetCost + (k - 1) * avg, sum, n)
        <=> x > 0 /\ 5 * n * x > 4 * sum
  BY DEF ShouldStart, x
<1> QED BY <1>2, <1>3, <1>4, <1>5, <1>6

-----------------------------------------------------------------------------
(* The run.                                                                *)

Typed ==
  /\ observed \in Seq(Scores)
  /\ clock \in Nat /\ durSum \in Nat
  /\ observed # <<>> => durSum # 0

(* The draws of a run are scores and its times are natural numbers, and    *)
(* the durations add up to something once there is one.                    *)
THEOREM RunTyped == Spec => []Typed
<1>1. Init => Typed
  BY DEF Init, Typed
<1>2. Typed /\ [Draw]_vars => Typed'
  <2> SUFFICES ASSUME Typed, [Draw]_vars PROVE Typed'
    OBVIOUS
  <2>1. CASE Draw
    <3>1. PICK s \in Scores, d \in Durations :
            /\ observed' = Append(observed, s)
            /\ durSum' = durSum + d /\ clock' = clock + d + ResetCost
      BY <2>1 DEF Draw
    <3>2. d \in Nat \ {0} /\ ResetCost \in Nat
      BY DrawsAssumption, TimeAssumption
    <3>3. observed' \in Seq(Scores)
      BY <3>1 DEF Typed
    <3>4. durSum' \in Nat /\ durSum' # 0 /\ clock' \in Nat
      BY <3>1, <3>2 DEF Typed
    <3> QED BY <3>3, <3>4 DEF Typed
  <2>2. CASE UNCHANGED vars
    BY <2>2 DEF Typed, vars
  <2> QED BY <2>1, <2>2
<1> QED BY <1>1, <1>2, PTL DEF Spec

LEMMA DrawsTyped == Typed => observed \in Seq(Nat)
<1> SUFFICES ASSUME Typed PROVE observed \in Seq(Nat)
  OBVIOUS
<1>1. Len(observed) \in Nat /\ observed \in [1..Len(observed) -> Scores]
  BY DEF Typed
<1>2. observed \in [1..Len(observed) -> Nat]
  BY <1>1, DrawsAssumption
<1> QED BY <1>1, <1>2, SeqDef

(* stop_threshold over main's growing pool and horizon: from one decision  *)
(* to the next the bar rises only after a draw better than the expected    *)
(* one.                                                                    *)
THEOREM BarFollowsTheDraws == Spec => BarRisesOnlyOnAGoodDraw
<1>1. ASSUME Typed, Draw, NEW total \in Totals, NEW shorter \in Totals,
             shorter <= total, Last(observed') <= ContinuationValues(observed)[1]
      PROVE  StopThreshold((Len(observed) + 1) + 1, shorter, observed')
               <= StopThreshold(Len(observed) + 1, total, observed)
  <2>1. PICK x \in Scores : observed' = Append(observed, x)
    BY <1>1 DEF Draw
  <2>2. x \in Nat /\ total \in Nat /\ shorter \in Nat
    BY DrawsAssumption DEF Totals
  <2>3. observed \in Seq(Nat)
    BY <1>1, DrawsTyped
  <2>4. Len(observed) + 1 \in Nat
    BY <2>3
  <2>5. Last(observed') = x
    BY <2>1, <2>2, <2>3 DEF Last
  <2>6. x <= ContinuationValues(observed)[1]
    BY <1>1, <2>5
  <2>7. StopThreshold((Len(observed) + 1) + 1, shorter, Append(observed, x))
          <= StopThreshold(Len(observed) + 1, total, observed)
    <3>1. PICK obs, i : obs = observed /\ i = Len(observed) + 1
      OBVIOUS
    <3>2. StopThreshold(i + 1, shorter, Append(obs, x)) <= StopThreshold(i, total, obs)
      BY <1>1, <2>2, <2>3, <2>4, <2>6, <3>1, ThresholdPoorDraw
    <3> QED BY <3>1, <3>2
  <2> QED BY <2>1, <2>7
<1>2. Typed /\ [Draw]_vars =>
        [\A total, shorter \in Totals :
           LET i == Len(observed) + 1
           IN  (shorter <= total /\ Last(observed') <= ContinuationValues(observed)[1])
                 => StopThreshold(i + 1, shorter, observed')
                      <= StopThreshold(i, total, observed)]_vars
  BY <1>1
<1> QED BY <1>2, RunTyped, PTL DEF Spec, BarRisesOnlyOnAGoodDraw

(* An abort joins the live pool as a zero and lowers the bar everywhere.   *)
THEOREM AbortsLower == Spec => []AbortsLowerTheBar
<1>1. Typed => AbortsLowerTheBar
  <2> SUFFICES ASSUME Typed, NEW total \in Totals, NEW i \in 1..total
               PROVE  StopThreshold(i, total, Append(observed, 0))
                        <= StopThreshold(i, total, observed)
    BY DEF AbortsLowerTheBar
  <2>1. total \in Nat /\ i \in Nat /\ observed \in Seq(Nat)
    BY DrawsTyped, DrawsAssumption DEF Totals
  <2> QED BY <2>1, ThresholdAbort
<1> QED BY <1>1, RunTyped, PTL

(* _continuation_values: the table is that of optimal stopping.            *)
THEOREM ValuesOptimal == Spec => []ValueIsOptimal
<1>1. Typed => ValueIsOptimal
  <2> SUFFICES ASSUME Typed PROVE ValueIsOptimal
    OBVIOUS
  <2> DEFINE V == ContinuationValues(observed)
             Draws == {Pool[i] : i \in DOMAIN Pool} \cup Scores
  <2>1. observed \in Seq(Nat) /\ KMax \in Nat /\ Draws \subseteq Nat
    <3>1. \A i \in DOMAIN Pool : Pool[i] \in Nat
      BY PoolTyped
    <3> QED BY <3>1, DrawsTyped, DrawsAssumption, PoolTyped
  <2>2. PICK x \in {Pool[i] : i \in 1..Len(Pool)} \cup {observed[i] : i \in 1..Len(observed)} :
          \A k \in 0..KMax : V[k] <= x
    BY <2>1, ValuesBounded
  <2>3. x \in Draws
    <3>1. DOMAIN Pool = 1..Len(Pool)
      BY PoolTyped
    <3>2. \A i \in 1..Len(observed) : observed[i] \in Scores
      BY DEF Typed
    <3> QED BY <2>2, <3>1, <3>2
  <2>4. ASSUME NEW k \in 1..KMax
        PROVE  /\ V[k - 1] <= V[k]
               /\ \E y \in Draws : V[k] <= y
               /\ \A t \in Draws : FixedThresholdValue(t)[k] <= V[k]
    <3>1. k \in 0..KMax /\ k - 1 \in 0..k
      BY <2>1
    <3>2. V[k - 1] <= V[k]
      BY <2>1, <3>1, ValuesMonotone
    <3>3. \A t \in Draws : FixedThresholdValue(t)[k] <= V[k]
      BY <2>1, <3>1, FixedThresholdAtMost
    <3> QED BY <2>2, <2>3, <3>1, <3>2, <3>3
  <2> QED BY <2>4 DEF ValueIsOptimal
<1> QED BY <1>1, RunTyped, PTL

(* attempts_left_in_budget: the ladder's horizon is the number of attempts *)
(* the governor would start, resets and averages charged.                  *)
THEOREM HorizonGoverned == Spec => []HorizonIsTheGovernors
<1>1. Typed => HorizonIsTheGovernors
  <2> DEFINE n   == Len(observed)
             avg == durSum \div n
             Starts(k) == ShouldStart(2, clock + k * ResetCost + (k - 1) * avg, durSum, n)
  <2> SUFFICES ASSUME Typed, n > 0, durSum % n = 0, NEW cap \in CapsLeft
               PROVE  LET left == AttemptsLeft(clock, durSum, n, cap)
                      IN  /\ \A k \in 1..left : Starts(k)
                          /\ left < cap => ~Starts(left + 1)
    BY DEF HorizonIsTheGovernors
  <2>1. n \in Nat \ {0} /\ durSum \in Nat \ {0} /\ clock \in Nat /\ cap \in Nat
    <3>1. observed \in Seq(Nat) /\ observed # <<>>
      BY DrawsTyped
    <3> QED BY <3>1, DrawsAssumption DEF Typed, CapsLeft
  <2>2. durSum % n = 0
    OBVIOUS
  <2> HIDE DEF n
  <2>3. avg \in Nat /\ durSum = n * avg
    BY <2>1, <2>2
  <2> HIDE DEF avg
  <2>4. ASSUME NEW k \in Nat \ {0} PROVE FitsAfter(k, clock, durSum, n) <=> Starts(k)
    <3>1. (k - 1) * durSum = n * ((k - 1) * avg)
      <4>1. \A a, b, c \in Int : a * (b * c) = b * (a * c)
        OBVIOUS
      <4> QED BY <2>1, <2>3, <4>1
    <3> QED BY <2>1, <2>3, <3>1, FitsIsStart
  <2> DEFINE left == AttemptsLeft(clock, durSum, n, cap)
  <2>5. /\ left \in 0..cap
        /\ \A k \in 1..left : FitsAfter(k, clock, durSum, n)
        /\ left < cap => ~FitsAfter(left + 1, clock, durSum, n)
    BY <2>1, HorizonIs
  <2> HIDE DEF left, Starts
  <2>6. \A k \in 1..left : Starts(k)
    BY <2>4, <2>5
  <2>7. left < cap => ~Starts(left + 1)
    BY <2>4, <2>5
  <2> QED BY <2>6, <2>7 DEF left
<1> QED BY <1>1, RunTyped, PTL

(* main: the horizon is empty exactly when the lookahead charged with one  *)
(* reset says that no further attempt can start.                           *)
THEOREM HorizonLookahead == Spec => []HorizonAgreesWithLookahead
<1>1. Typed => HorizonAgreesWithLookahead
  <2> DEFINE n == Len(observed)
  <2> SUFFICES ASSUME Typed, n > 0, NEW cap \in CapsLeft \ {0}
               PROVE  (AttemptsLeft(clock, durSum, n, cap) = 0)
                        <=> ~ShouldStart(2, clock + ResetCost, durSum, n)
    BY DEF HorizonAgreesWithLookahead
  <2>1. n \in Nat \ {0} /\ durSum \in Nat \ {0} /\ clock \in Nat /\ cap \in Nat \ {0}
    <3>1. observed \in Seq(Nat) /\ observed # <<>>
      BY DrawsTyped
    <3> QED BY <3>1, DrawsAssumption DEF Typed, CapsLeft
  <2> HIDE DEF n
  <2> DEFINE left == AttemptsLeft(clock, durSum, n, cap)
  <2>2. /\ left \in 0..cap
        /\ \A k \in 1..left : FitsAfter(k, clock, durSum, n)
        /\ left < cap => ~FitsAfter(left + 1, clock, durSum, n)
    BY <2>1, HorizonIs
  <2>3. FitsAfter(1, clock, durSum, n) <=> ShouldStart(2, clock + ResetCost, durSum, n)
    <3>1. /\ (1 - 1) * durSum = n * ((1 - 1) * 0) /\ 0 \in Nat /\ 1 \in Nat \ {0}
          /\ clock + 1 * ResetCost + (1 - 1) * 0 = clock + ResetCost
      BY <2>1, TimeAssumption
    <3>2. FitsAfter(1, clock, durSum, n)
            <=> ShouldStart(2, clock + 1 * ResetCost + (1 - 1) * 0, durSum, n)
      BY <2>1, <3>1, FitsIsStart
    <3> QED BY <3>1, <3>2
  <2> HIDE DEF left
  <2>4. left = 0 <=> ~FitsAfter(1, clock, durSum, n)
    <3>1. CASE left = 0
      BY <2>1, <2>2, <3>1
    <3>2. CASE left # 0
      <4>1. 1 \in 1..left
        BY <2>2, <3>2
      <4> QED BY <2>2, <3>2, <4>1
    <3> QED BY <3>1, <3>2
  <2> QED BY <2>3, <2>4 DEF left
<1> QED BY <1>1, RunTyped, PTL
=============================================================================

----------------------------- MODULE NumberFacts -----------------------------
(***************************************************************************)
(* Facts about numbers that the proofs rest on: induction, division, sums  *)
(* over finite sets, and ranks, which are tuples of natural numbers in     *)
(* lexicographic order.  Induction is stated for sets, not for predicates: *)
(* from the least element of a set of natural numbers.                     *)
(***************************************************************************)
EXTENDS Integers, FiniteSets, Functions, Folds, FiniteSetTheorems,
        WellFoundedInduction, TLAPS

-----------------------------------------------------------------------------
(* Induction.                                                              *)

LEMMA LeastNumber ==
  ASSUME NEW T, T \subseteq Nat, T # {}
  PROVE  \E m \in T : \A k \in T : m <= k
<1>1. PICK x \in T : \A y \in T : ~(<<y, x>> \in OpToRel(<, Nat))
  BY WFMin, NatLessThanWellFounded
<1>2. ASSUME NEW y \in T PROVE x <= y
  <2>1. x \in Nat /\ y \in Nat
    OBVIOUS
  <2>2. <<y, x>> \in Nat \X Nat
    BY <2>1
  <2>3. ~(y < x)
    BY <1>1, <2>2 DEF OpToRel
  <2> QED BY <2>1, <2>3
<1> QED BY <1>2

LEMMA Induction ==
  ASSUME NEW S, 0 \in S, \A n \in Nat : n \in S => n + 1 \in S
  PROVE  \A n \in Nat : n \in S
<1> SUFFICES ASSUME NEW n \in Nat, n \notin S PROVE FALSE
  OBVIOUS
<1>1. PICK m \in Nat \ S : \A k \in Nat \ S : m <= k
  BY LeastNumber
<1>2. m # 0
  OBVIOUS
<1>3. m - 1 \in Nat /\ m - 1 \in S
  BY <1>1, <1>2
<1> QED BY <1>3

(* Up and down an interval.                                                *)
LEMMA UpInduction ==
  ASSUME NEW n \in Nat, NEW P, 0 \in P, \A k \in 1..n : k - 1 \in P => k \in P
  PROVE  \A k \in 0..n : k \in P
<1> DEFINE S == {k \in Nat : k <= n => k \in P}
<1>1. 0 \in S
  OBVIOUS
<1>2. ASSUME NEW k \in Nat, k \in S PROVE k + 1 \in S
  <2>1. SUFFICES ASSUME k + 1 <= n PROVE k + 1 \in P
    OBVIOUS
  <2>2. k + 1 \in 1..n /\ (k + 1) - 1 = k /\ k \in P
    BY <1>2, <2>1
  <2> QED BY <2>2
<1>3. \A k \in Nat : k \in S
  <2> HIDE DEF S
  <2> QED BY <1>1, <1>2, Induction
<1> QED BY <1>3

LEMMA DownInduction ==
  ASSUME NEW n \in Nat, NEW P, n \in P, \A k \in 1..n : k \in P => k - 1 \in P
  PROVE  \A k \in 0..n : k \in P
<1> DEFINE Q == {k \in 0..n : n - k \in P}
<1>1. 0 \in Q
  OBVIOUS
<1>2. ASSUME NEW k \in 1..n, k - 1 \in Q PROVE k \in Q
  <2>1. n - (k - 1) \in 1..n /\ (n - (k - 1)) - 1 = n - k /\ n - (k - 1) \in P
    BY <1>2
  <2>2. n - k \in P
    BY <2>1
  <2> QED BY <2>2
<1>3. \A k \in 0..n : k \in Q
  <2> HIDE DEF Q
  <2> QED BY <1>1, <1>2, UpInduction
<1>4. ASSUME NEW k \in 0..n PROVE k \in P
  <2>1. n - k \in 0..n /\ n - (n - k) = k
    OBVIOUS
  <2> QED BY <1>3, <2>1
<1> QED BY <1>4

(* The cardinalities of a subset, with an element more or less.            *)
LEMMA Cards ==
  ASSUME NEW S, IsFiniteSet(S), NEW T \in SUBSET S
  PROVE  /\ IsFiniteSet(T) /\ Cardinality(T) \in Nat
         /\ Cardinality(T) <= Cardinality(S)
         /\ Cardinality(T) = 0 <=> T = {}
         /\ \A x \in T : /\ T \ {x} \in SUBSET S
                         /\ Cardinality(T \ {x}) + 1 = Cardinality(T)
         /\ \A x \in S \ T : Cardinality(T \cup {x}) = Cardinality(T) + 1
<1>1. IsFiniteSet(T) /\ Cardinality(T) <= Cardinality(S)
  BY FS_Subset
<1>2. Cardinality(T) \in Nat
  BY <1>1, FS_CardinalityType
<1>3. Cardinality(T) = 0 <=> T = {}
  BY <1>1, FS_EmptySet
<1>4. ASSUME NEW x \in T PROVE Cardinality(T \ {x}) + 1 = Cardinality(T)
  <2>1. Cardinality(T \ {x}) = Cardinality(T) - 1
    BY <1>1, FS_RemoveElement
  <2> QED BY <1>2, <2>1
<1>5. ASSUME NEW x \in S \ T PROVE Cardinality(T \cup {x}) = Cardinality(T) + 1
  BY <1>1, FS_AddElement
<1> QED BY <1>1, <1>2, <1>3, <1>4, <1>5

(* A set of subsets of a finite set that holds the empty set and grows     *)
(* element by element holds the whole set.                                 *)
LEMMA FiniteInduction ==
  ASSUME NEW S, IsFiniteSet(S), NEW P, {} \in P,
         \A T \in SUBSET S : \A x \in S \ T : T \in P => T \cup {x} \in P
  PROVE  \A T \in SUBSET S : T \in P
<1> DEFINE Upto == {n \in Nat : \A T \in SUBSET S : Cardinality(T) = n => T \in P}
<1>1. \A T \in SUBSET S : IsFiniteSet(T) /\ Cardinality(T) \in Nat
  BY Cards
<1>2. 0 \in Upto
  <2>1. ASSUME NEW T \in SUBSET S, Cardinality(T) = 0 PROVE T \in P
    BY <2>1, Cards
  <2> QED BY <2>1
<1>3. ASSUME NEW n \in Nat, n \in Upto PROVE n + 1 \in Upto
  <2>1. ASSUME NEW T \in SUBSET S, Cardinality(T) = n + 1 PROVE T \in P
    <3>1. T # {}
      <4>1. Cardinality(T) # 0
        BY <2>1
      <4> QED BY <4>1, Cards
    <3>2. PICK x \in T : TRUE
      BY <3>1
    <3>3. Cardinality(T \ {x}) = n
      <4>1. Cardinality(T \ {x}) + 1 = n + 1 /\ T \ {x} \in SUBSET S
        BY <2>1, <3>2, Cards
      <4> QED BY <1>1, <4>1
    <3>4. T \ {x} \in P
      BY <1>3, <3>3
    <3>5. x \in S \ (T \ {x}) /\ (T \ {x}) \cup {x} = T /\ T \ {x} \in SUBSET S
      BY <3>2
    <3> QED BY <3>4, <3>5
  <2> QED BY <2>1
<1>4. \A n \in Nat : n \in Upto
  <2> HIDE DEF Upto
  <2> QED BY <1>2, <1>3, Induction
<1> QED BY <1>1, <1>4

(* A function over 0..n that starts at 0 and follows a step exists.        *)
LEMMA RecursionExists ==
  ASSUME NEW n \in Nat, NEW step \in [Nat -> Nat]
  PROVE  \E f \in [0..n -> Nat] :
           f[0] = 0 /\ \A k \in 1..n : f[k] = step[f[k - 1]]
<1> DEFINE Upto == {m \in Nat : \E f \in [0..m -> Nat] :
                      f[0] = 0 /\ \A k \in 1..m : f[k] = step[f[k - 1]]}
<1>1. 0 \in Upto
  <2> DEFINE f == [k \in 0..0 |-> 0]
  <2>1. f \in [0..0 -> Nat] /\ f[0] = 0 /\ \A k \in 1..0 : f[k] = step[f[k - 1]]
    OBVIOUS
  <2> QED BY <2>1
<1>2. ASSUME NEW m \in Nat, m \in Upto PROVE m + 1 \in Upto
  <2>1. PICK f \in [0..m -> Nat] : f[0] = 0 /\ \A k \in 1..m : f[k] = step[f[k - 1]]
    BY <1>2
  <2> DEFINE g == [k \in 0..(m + 1) |-> IF k = m + 1 THEN step[f[m]] ELSE f[k]]
  <2>2. f[m] \in Nat
    BY <2>1
  <2>3. step[f[m]] \in Nat
    BY <2>2
  <2>4. g \in [0..(m + 1) -> Nat]
    BY <2>3
  <2>5. \A k \in 0..m : g[k] = f[k]
    OBVIOUS
  <2>6. g[m + 1] = step[f[m]]
    OBVIOUS
  <2> HIDE DEF g
  <2>7. ASSUME NEW k \in 1..(m + 1) PROVE g[k] = step[g[k - 1]]
    <3>1. CASE k = m + 1
      <4>1. k - 1 = m /\ m \in 0..m
        BY <3>1
      <4> QED BY <2>5, <2>6, <3>1, <4>1
    <3>2. CASE k # m + 1
      <4>1. k \in 1..m /\ k \in 0..m /\ k - 1 \in 0..m
        BY <3>2
      <4> QED BY <2>1, <2>5, <4>1
    <3> QED BY <3>1, <3>2
  <2>8. g[0] = 0
    BY <2>1, <2>5
  <2>9. m + 1 \in Nat /\ g[0] = 0 /\ \A k \in 1..(m + 1) : g[k] = step[g[k - 1]]
    BY <2>7, <2>8
  <2> QED BY <2>4, <2>9
<1>3. \A m \in Nat : m \in Upto
  <2> HIDE DEF Upto
  <2> QED BY <1>1, <1>2, Induction
<1> QED BY <1>3

-----------------------------------------------------------------------------
(* Division.                                                               *)

LEMMA Division ==
  ASSUME NEW a \in Nat, NEW d \in Nat \ {0}
  PROVE  /\ a \div d \in Nat
         /\ d * (a \div d) <= a /\ a < d * (a \div d) + d
  OBVIOUS

LEMMA DivisionMonotone ==
  ASSUME NEW a \in Nat, NEW b \in Nat, NEW d \in Nat \ {0}, a <= b
  PROVE  a \div d <= b \div d
  OBVIOUS

(* A quotient is bounded by what its multiple bounds.                      *)
LEMMA QuotientAtMost ==
  ASSUME NEW a \in Nat, NEW d \in Nat \ {0}, NEW q \in Nat, a <= d * q
  PROVE  a \div d <= q
<1>1. d * q \in Nat
  OBVIOUS
<1>2. (d * q) \div d = q
  OBVIOUS
<1> QED BY <1>1, <1>2, DivisionMonotone

LEMMA QuotientAtLeast ==
  ASSUME NEW a \in Nat, NEW d \in Nat \ {0}, NEW q \in Nat, d * q <= a
  PROVE  q <= a \div d
<1>1. d * q \in Nat
  OBVIOUS
<1>2. (d * q) \div d = q
  OBVIOUS
<1> QED BY <1>1, <1>2, DivisionMonotone

-----------------------------------------------------------------------------
(* Sums.  SumFunctionOnSet takes the elements in the order of CHOOSE; the  *)
(* lemmas show that the order does not matter.                             *)

Pick(T) == CHOOSE x \in T : TRUE

\* g[T] is the sum of w over T, for the subsets T of S.
Sums(g, w, S) ==
  /\ g \in [SUBSET S -> Nat]
  /\ \A T \in SUBSET S : g[T] = IF T = {} THEN 0 ELSE w[Pick(T)] + g[T \ {Pick(T)}]

LEMMA PickIn == ASSUME NEW T, T # {} PROVE Pick(T) \in T
  BY DEF Pick

LEMMA SumsExist ==
  ASSUME NEW S, IsFiniteSet(S), NEW w, \A x \in S : w[x] \in Nat
  PROVE  \E g : Sums(g, w, S)
<1> DEFINE Small(n) == {T \in SUBSET S : Cardinality(T) <= n}
           Upto == {n \in Nat : \E g \in [Small(n) -> Nat] : \A T \in Small(n) :
                      g[T] = IF T = {} THEN 0 ELSE w[Pick(T)] + g[T \ {Pick(T)}]}
<1>1. \A T \in SUBSET S : IsFiniteSet(T) /\ Cardinality(T) \in Nat
  BY Cards
<1>2. ASSUME NEW T \in SUBSET S, T # {}
      PROVE  /\ Pick(T) \in S /\ w[Pick(T)] \in Nat
             /\ T \ {Pick(T)} \in SUBSET S
             /\ Cardinality(T \ {Pick(T)}) = Cardinality(T) - 1
  BY <1>1, <1>2, PickIn, FS_RemoveElement
<1>3. 0 \in Upto
  <2> DEFINE g == [T \in Small(0) |-> 0]
  <2>1. \A T \in Small(0) : T = {}
    BY <1>1, FS_EmptySet
  <2>2. g \in [Small(0) -> Nat] /\ \A T \in Small(0) : g[T] = 0
    OBVIOUS
  <2> HIDE DEF g
  <2> QED BY <2>1, <2>2
<1>4. ASSUME NEW n \in Nat, n \in Upto PROVE n + 1 \in Upto
  <2>1. PICK g \in [Small(n) -> Nat] : \A T \in Small(n) :
          g[T] = IF T = {} THEN 0 ELSE w[Pick(T)] + g[T \ {Pick(T)}]
    BY <1>4
  <2> DEFINE h == [T \in Small(n + 1) |->
                     IF T = {} THEN 0 ELSE w[Pick(T)] + g[T \ {Pick(T)}]]
  <2>2. ASSUME NEW T \in Small(n + 1), T # {}
        PROVE  T \ {Pick(T)} \in Small(n)
    BY <1>1, <1>2, <2>2
  <2>3. h \in [Small(n + 1) -> Nat]
    <3>1. ASSUME NEW T \in Small(n + 1)
          PROVE  (IF T = {} THEN 0 ELSE w[Pick(T)] + g[T \ {Pick(T)}]) \in Nat
      <4>1. CASE T = {}
        BY <4>1
      <4>2. CASE T # {}
        <5>1. w[Pick(T)] \in Nat /\ g[T \ {Pick(T)}] \in Nat
          BY <1>2, <2>1, <2>2, <4>2
        <5> QED BY <4>2, <5>1
      <4> QED BY <4>1, <4>2
    <3> QED BY <3>1
  <2>4. \A T \in Small(n + 1) : h[T] = IF T = {} THEN 0 ELSE w[Pick(T)] + g[T \ {Pick(T)}]
    OBVIOUS
  <2>5. Small(n) \subseteq Small(n + 1)
    BY <1>1
  <2> HIDE DEF h, Small
  <2>6. \A T \in Small(n) : h[T] = g[T]
    BY <2>1, <2>4, <2>5
  <2>7. \A T \in Small(n + 1) : h[T] = IF T = {} THEN 0 ELSE w[Pick(T)] + h[T \ {Pick(T)}]
    BY <2>2, <2>4, <2>6
  <2> QED BY <2>3, <2>7
<1>5. \A n \in Nat : n \in Upto
  <2> HIDE DEF Upto
  <2> QED BY <1>3, <1>4, Induction
<1>6. Small(Cardinality(S)) = SUBSET S
  BY <1>1, FS_Subset
<1>7. Cardinality(S) \in Upto
  BY <1>1, <1>5
<1> QED BY <1>6, <1>7 DEF Sums

LEMMA SumIsOneOfThem ==
  ASSUME NEW S, IsFiniteSet(S), NEW w, \A x \in S : w[x] \in Nat
  PROVE  \E g : Sums(g, w, S) /\ SumFunctionOnSet(w, S) = g[S]
<1> DEFINE Follows(g) ==
      g = [T \in SUBSET S |-> IF T = {} THEN 0 ELSE w[Pick(T)] + g[T \ {Pick(T)}]]
<1>1. PICK f : Sums(f, w, S)
  BY SumsExist
<1>2. Follows(f)
  BY <1>1 DEF Sums
<1>3. PICK g : Follows(g) /\ SumFunctionOnSet(w, S) = g[S]
  BY <1>2, Zenon DEF SumFunctionOnSet, FoldFunctionOnSet, MapThenFoldSet, Pick
<1>4. \A T \in SUBSET S : g[T] = IF T = {} THEN 0 ELSE w[Pick(T)] + g[T \ {Pick(T)}]
  BY <1>3
<1>5. \A T \in SUBSET S : IsFiniteSet(T)
  BY FS_Subset
<1> DEFINE Upto == {n \in Nat : \A T \in SUBSET S : Cardinality(T) = n => g[T] \in Nat}
<1>6. 0 \in Upto
  <2>1. ASSUME NEW T \in SUBSET S, Cardinality(T) = 0 PROVE g[T] \in Nat
    <3>1. T = {}
      BY <2>1, Cards
    <3>2. g[T] = 0
      BY <1>4, <3>1
    <3> QED BY <3>2
  <2> QED BY <2>1
<1>7. ASSUME NEW n \in Nat, n \in Upto PROVE n + 1 \in Upto
  <2>1. ASSUME NEW T \in SUBSET S, Cardinality(T) = n + 1 PROVE g[T] \in Nat
    <3>1. T # {}
      <4>1. Cardinality(T) # 0
        BY <2>1
      <4> QED BY <4>1, Cards
    <3>2. Pick(T) \in T /\ w[Pick(T)] \in Nat
      BY <3>1, PickIn
    <3>3. Cardinality(T \ {Pick(T)}) = n /\ T \ {Pick(T)} \in SUBSET S
      <4>1. Cardinality(T \ {Pick(T)}) + 1 = n + 1 /\ T \ {Pick(T)} \in SUBSET S
        BY <2>1, <3>2, Cards
      <4>2. Cardinality(T \ {Pick(T)}) \in Nat
        BY <4>1, Cards
      <4> QED BY <4>1, <4>2
    <3>4. g[T \ {Pick(T)}] \in Nat
      BY <1>7, <3>3
    <3>5. g[T] = w[Pick(T)] + g[T \ {Pick(T)}]
      BY <1>4, <3>1
    <3> QED BY <3>2, <3>4, <3>5
  <2> QED BY <2>1
<1>8. \A n \in Nat : n \in Upto
  <2> HIDE DEF Upto
  <2> QED BY <1>6, <1>7, Induction
<1>9. g \in [SUBSET S -> Nat]
  <2>1. \A T \in SUBSET S : g[T] \in Nat
    BY <1>5, <1>8, FS_CardinalityType
  <2>2. g = [T \in SUBSET S |-> g[T]]
    BY <1>3
  <2> QED BY <2>1, <2>2
<1> QED BY <1>3, <1>4, <1>9 DEF Sums

LEMMA SumsEmpty == ASSUME NEW S, NEW w, NEW g, Sums(g, w, S) PROVE g[{}] = 0
<1>1. {} \in SUBSET S
  OBVIOUS
<1> QED BY <1>1 DEF Sums

(* Adding an element adds its weight, whichever element Pick takes first.  *)
LEMMA SumsAdd ==
  ASSUME NEW S, IsFiniteSet(S), NEW w, \A x \in S : w[x] \in Nat,
         NEW g, Sums(g, w, S)
  PROVE  \A T \in SUBSET S : \A x \in S \ T : g[T \cup {x}] = w[x] + g[T]
<1> DEFINE Upto == {n \in Nat : \A T \in SUBSET S : \A x \in T :
                      Cardinality(T) = n => g[T] = w[x] + g[T \ {x}]}
<1>1. \A T \in SUBSET S : IsFiniteSet(T) /\ Cardinality(T) \in Nat /\ g[T] \in Nat
  BY Cards DEF Sums
<1>2. 0 \in Upto
  <2>1. ASSUME NEW T \in SUBSET S, NEW x \in T, Cardinality(T) = 0 PROVE FALSE
    <3>1. T = {}
      BY <2>1, Cards
    <3> QED BY <3>1
  <2> QED BY <2>1
<1>3. ASSUME NEW n \in Nat, n \in Upto PROVE n + 1 \in Upto
  <2> SUFFICES ASSUME NEW T \in SUBSET S, NEW x \in T, Cardinality(T) = n + 1
               PROVE  g[T] = w[x] + g[T \ {x}]
    OBVIOUS
  <2> DEFINE p == Pick(T)
  <2>1. p \in T /\ g[T] = w[p] + g[T \ {p}]
    BY PickIn DEF Sums
  <2> HIDE DEF p
  <2>2. CASE x = p
    BY <2>1, <2>2
  <2>3. CASE x # p
    <3> DEFINE Tp == T \ {p}
               Tx == T \ {x}
               Tpx == T \ {p, x}
    <3>1. /\ Tp \in SUBSET S /\ Tx \in SUBSET S /\ Tpx \in SUBSET S
          /\ x \in Tp /\ p \in Tx /\ Tp \ {x} = Tpx /\ Tx \ {p} = Tpx
      BY <2>1, <2>3
    <3> HIDE DEF Tp, Tx, Tpx
    <3>2. Cardinality(Tp) = n /\ Cardinality(Tx) = n
      <4>1. Cardinality(Tp) + 1 = n + 1 /\ Cardinality(Tx) + 1 = n + 1
        BY <2>1, Cards DEF Tp, Tx
      <4>2. Cardinality(Tp) \in Nat /\ Cardinality(Tx) \in Nat
        BY <1>1, <3>1
      <4> QED BY <4>1, <4>2
    <3>3. g[Tp] = w[x] + g[Tpx]
      BY <1>3, <3>1, <3>2
    <3>4. g[Tx] = w[p] + g[Tpx]
      BY <1>3, <3>1, <3>2
    <3>5. w[p] \in Nat /\ w[x] \in Nat /\ g[Tpx] \in Nat
      BY <1>1, <2>1, <3>1
    <3>6. g[T] = w[p] + g[Tp]
      BY <2>1 DEF Tp
    <3>7. g[T] = w[x] + g[Tx]
      BY <3>3, <3>4, <3>5, <3>6
    <3> QED BY <3>7 DEF Tx
  <2> QED BY <2>2, <2>3
<1>4. \A n \in Nat : n \in Upto
  <2> HIDE DEF Upto
  <2> QED BY <1>2, <1>3, Induction
<1>5. ASSUME NEW T \in SUBSET S, NEW x \in S \ T PROVE g[T \cup {x}] = w[x] + g[T]
  <2>1. T \cup {x} \in SUBSET S /\ x \in T \cup {x} /\ (T \cup {x}) \ {x} = T
    BY <1>5
  <2>2. Cardinality(T \cup {x}) \in Nat
    BY <1>1, <2>1
  <2>3. g[T \cup {x}] = w[x] + g[(T \cup {x}) \ {x}]
    BY <1>4, <2>1, <2>2
  <2> QED BY <2>1, <2>3
<1> QED BY <1>5

(* The sum of a function over its finite domain: its type, its order, and  *)
(* what one more element adds.                                             *)
LEMMA SumTyped ==
  ASSUME NEW S, IsFiniteSet(S), NEW w \in [S -> Nat]
  PROVE  SumFunction(w) \in Nat
<1>1. PICK g : Sums(g, w, S) /\ SumFunctionOnSet(w, S) = g[S]
  BY SumIsOneOfThem
<1>2. g[S] \in Nat
  BY <1>1 DEF Sums
<1> QED BY <1>1, <1>2 DEF SumFunction

(* A sum of values that another sum dominates, value by value.             *)
LEMMA SumMonotone ==
  ASSUME NEW S, IsFiniteSet(S), NEW v \in [S -> Nat], NEW w \in [S -> Nat],
         \A x \in S : v[x] <= w[x]
  PROVE  SumFunction(v) <= SumFunction(w)
<1>1. PICK f : Sums(f, v, S) /\ SumFunctionOnSet(v, S) = f[S]
  BY SumIsOneOfThem
<1>2. PICK g : Sums(g, w, S) /\ SumFunctionOnSet(w, S) = g[S]
  BY SumIsOneOfThem
<1> DEFINE P == {T \in SUBSET S : f[T] <= g[T]}
<1>3. \A T \in SUBSET S : f[T] \in Nat /\ g[T] \in Nat
  BY <1>1, <1>2 DEF Sums
<1>4. {} \in P
  <2>1. f[{}] = 0 /\ g[{}] = 0
    BY <1>1, <1>2, SumsEmpty
  <2> QED BY <2>1
<1>5. ASSUME NEW T \in SUBSET S, NEW x \in S \ T, T \in P PROVE T \cup {x} \in P
  <2>1. f[T \cup {x}] = v[x] + f[T] /\ g[T \cup {x}] = w[x] + g[T]
    <3>1. (\A y \in S : v[y] \in Nat) /\ (\A y \in S : w[y] \in Nat)
      OBVIOUS
    <3> QED BY <1>1, <1>2, <3>1, SumsAdd
  <2>2. f[T] \in Nat /\ g[T] \in Nat /\ f[T] <= g[T] /\ v[x] <= w[x]
    BY <1>3, <1>5
  <2>3. f[T \cup {x}] <= g[T \cup {x}]
    BY <2>1, <2>2
  <2> QED BY <2>3
<1>6. S \in P
  <2> HIDE DEF P
  <2> QED BY <1>4, <1>5, FiniteInduction
<1> QED BY <1>1, <1>2, <1>6 DEF SumFunction

LEMMA SumConstant ==
  ASSUME NEW S, IsFiniteSet(S), NEW c \in Nat
  PROVE  SumFunction([x \in S |-> c]) = Cardinality(S) * c
<1> DEFINE w == [x \in S |-> c]
<1>0. w \in [S -> Nat] /\ \A x \in S : w[x] = c
  OBVIOUS
<1> HIDE DEF w
<1>1. PICK g : Sums(g, w, S) /\ SumFunctionOnSet(w, S) = g[S]
  BY <1>0, SumIsOneOfThem
<1> DEFINE P == {T \in SUBSET S : g[T] = Cardinality(T) * c}
<1>2. \A T \in SUBSET S : g[T] \in Nat
  BY <1>1 DEF Sums
<1>3. {} \in P
  <2>1. g[{}] = 0 /\ Cardinality({}) = 0
    BY <1>1, SumsEmpty, FS_EmptySet
  <2>2. Cardinality({}) * c = 0
    BY <2>1
  <2> QED BY <2>1, <2>2
<1>4. ASSUME NEW T \in SUBSET S, NEW x \in S \ T, T \in P PROVE T \cup {x} \in P
  <2>1. g[T \cup {x}] = c + g[T]
    BY <1>0, <1>1, SumsAdd
  <2>2. Cardinality(T) \in Nat /\ Cardinality(T \cup {x}) = Cardinality(T) + 1
    BY Cards
  <2>3. g[T \cup {x}] = Cardinality(T \cup {x}) * c
    BY <1>4, <2>1, <2>2
  <2> QED BY <2>3
<1>5. S \in P
  <2> HIDE DEF P
  <2> QED BY <1>3, <1>4, FiniteInduction
<1>6. SumFunction(w) = Cardinality(S) * c
  BY <1>0, <1>1, <1>5 DEF SumFunction
<1> QED BY <1>6 DEF w

(* One more element adds its value.                                        *)
LEMMA SumOneMore ==
  ASSUME NEW S, IsFiniteSet(S), NEW x, x \notin S, NEW R, R = S \cup {x},
         NEW v \in [S -> Nat], NEW w \in [R -> Nat],
         \A y \in S : v[y] = w[y], NEW c \in Nat, c = w[x]
  PROVE  SumFunction(w) = c + SumFunction(v) /\ SumFunction(v) \in Nat
<1>0. IsFiniteSet(R)
  BY FS_AddElement
<1>1. PICK f : Sums(f, v, S) /\ SumFunctionOnSet(v, S) = f[S]
  BY SumIsOneOfThem
<1>2. PICK g : Sums(g, w, R) /\ SumFunctionOnSet(w, R) = g[R]
  BY <1>0, SumIsOneOfThem
<1> DEFINE P == {T \in SUBSET S : f[T] = g[T]}
<1>3. {} \in P
  <2>1. f[{}] = 0 /\ g[{}] = 0
    BY <1>1, <1>2, SumsEmpty
  <2> QED BY <2>1
<1>4. ASSUME NEW T \in SUBSET S, NEW y \in S \ T, T \in P PROVE T \cup {y} \in P
  <2>1. f[T \cup {y}] = v[y] + f[T]
    BY <1>1, SumsAdd
  <2>2. g[T \cup {y}] = w[y] + g[T]
    <3>1. T \in SUBSET R /\ y \in R \ T /\ \A z \in R : w[z] \in Nat
      OBVIOUS
    <3> QED BY <1>0, <1>2, <3>1, SumsAdd
  <2> QED BY <1>4, <2>1, <2>2
<1>5. S \in P
  <2> HIDE DEF P
  <2> QED BY <1>3, <1>4, FiniteInduction
<1>6. g[R] = w[x] + g[S]
  <2>1. S \in SUBSET R /\ x \in R \ S /\ \A z \in R : w[z] \in Nat
    OBVIOUS
  <2>2. g[S \cup {x}] = w[x] + g[S]
    BY <1>0, <1>2, <2>1, SumsAdd
  <2> QED BY <2>2
<1>7. SumFunction(w) = w[x] + SumFunction(v)
  BY <1>1, <1>2, <1>5, <1>6 DEF SumFunction
<1>8. SumFunction(v) \in Nat
  BY SumTyped
<1> QED BY <1>7, <1>8

(* The same for the values of a sequence and one more value.               *)
LEMMA SumAppended ==
  ASSUME NEW n \in Nat, NEW v \in [1..n -> Nat], NEW w \in [1..(n + 1) -> Nat],
         NEW c \in Nat, \A i \in 1..n : v[i] = w[i], w[n + 1] = c
  PROVE  SumFunction(w) = c + SumFunction(v) /\ SumFunction(v) \in Nat
<1>1. IsFiniteSet(1..n)
  <2>1. 1 \in Int /\ n \in Int
    OBVIOUS
  <2> QED BY <2>1, FS_Interval
<1>2. n + 1 \notin 1..n /\ 1..(n + 1) = (1..n) \cup {n + 1}
  OBVIOUS
<1> QED BY <1>1, <1>2, SumOneMore

(* The largest of the values of a function on a finite set.                *)
LEMMA LargestValue ==
  ASSUME NEW S, IsFiniteSet(S), S # {}, NEW w \in [S -> Nat]
  PROVE  \E x \in S : \A y \in S : w[y] <= w[x]
<1> DEFINE P == {T \in SUBSET S : T = {} \/ \E x \in T : \A y \in T : w[y] <= w[x]}
<1>1. {} \in P
  OBVIOUS
<1>2. ASSUME NEW T \in SUBSET S, NEW z \in S \ T, T \in P PROVE T \cup {z} \in P
  <2>1. CASE T = {}
    <3>1. \A y \in T \cup {z} : w[y] <= w[z]
      BY <2>1
    <3> QED BY <3>1
  <2>2. CASE T # {}
    <3>1. PICK x \in T : \A y \in T : w[y] <= w[x]
      BY <1>2, <2>2
    <3>2. CASE w[z] <= w[x]
      BY <3>1, <3>2
    <3>3. CASE ~(w[z] <= w[x])
      <4>1. w[x] <= w[z] /\ w[x] \in Nat /\ w[z] \in Nat /\ \A y \in T : w[y] \in Nat
        BY <3>3
      <4>2. \A y \in T : w[y] <= w[z]
        BY <3>1, <4>1
      <4>3. \A y \in T \cup {z} : w[y] <= w[z]
        BY <4>1, <4>2
      <4> QED BY <4>3
    <3> QED BY <3>2, <3>3
  <2> QED BY <2>1, <2>2
<1>3. S \in P
  <2> HIDE DEF P
  <2> QED BY <1>1, <1>2, FiniteInduction
<1> QED BY <1>3
-----------------------------------------------------------------------------
(* Ranks: numbers compared in their order, the first that differs decides. *)
(* A step that lowers a rank can be taken only so often.                   *)

Ranks(n) == [1..n -> Nat]

Lower(n) ==
  {p \in Ranks(n) \X Ranks(n) :
     \E i \in 1..n : p[1][i] < p[2][i] /\ \A j \in 1..(i - 1) : p[1][j] = p[2][j]}

LEMMA LowerIsWellFounded ==
  ASSUME NEW n \in Nat
  PROVE  IsWellFoundedOn(Lower(n), Ranks(n))
<1> DEFINE Below(r, t, k) ==
             \E i \in 1..k : r[i] < t[i] /\ \A j \in 1..(i - 1) : r[j] = t[j]
<1>1. ASSUME NEW T \in SUBSET Ranks(n), T # {}
      PROVE  \E t \in T : \A r \in T : ~(<<r, t>> \in Lower(n))
  <2> DEFINE P == {k \in 0..n : \E t \in T : \A r \in T : ~Below(r, t, k)}
  <2>1. 0 \in P
    <3>1. PICK t \in T : TRUE
      BY <1>1
    <3>2. \A r \in T : ~Below(r, t, 0)
      OBVIOUS
    <3> QED BY <3>1, <3>2
  <2>2. ASSUME NEW k \in 1..n, k - 1 \in P PROVE k \in P
    <3>1. PICK s \in T : \A r \in T : ~Below(r, s, k - 1)
      BY <2>2
    <3> DEFINE Same == {r \in T : \A j \in 1..(k - 1) : r[j] = s[j]}
               Next_k == {r[k] : r \in Same}
    <3>2. Next_k \subseteq Nat /\ s[k] \in Next_k
      BY DEF Ranks
    <3>3. PICK m \in Next_k : \A x \in Next_k : m <= x
      <4> HIDE DEF Next_k
      <4> QED BY <3>2, LeastNumber
    <3>4. PICK t \in Same : m = t[k]
      OBVIOUS
    <3>5. ASSUME NEW r \in T, Below(r, t, k) PROVE FALSE
      <4>1. PICK i \in 1..k : r[i] < t[i] /\ \A j \in 1..(i - 1) : r[j] = t[j]
        BY <3>5
      <4>2. \A j \in 1..(k - 1) : t[j] = s[j]
        BY <3>4
      <4>3. CASE i = k
        <5>1. \A j \in 1..(k - 1) : r[j] = s[j]
          BY <4>1, <4>2, <4>3
        <5>2. r[k] \in Next_k
          BY <5>1
        <5>3. m <= r[k] /\ r[k] < m /\ m \in Nat /\ r[k] \in Nat
          BY <3>2, <3>3, <3>4, <4>1, <4>3, <5>2
        <5> QED BY <5>3
      <4>4. CASE i # k
        <5>1. i \in 1..(k - 1) /\ 1..(i - 1) \subseteq 1..(k - 1)
          BY <4>4
        <5>2. r[i] < s[i] /\ \A j \in 1..(i - 1) : r[j] = s[j]
          BY <4>1, <4>2, <5>1
        <5>3. Below(r, s, k - 1)
          BY <5>1, <5>2
        <5> QED BY <3>1, <5>3
      <4> QED BY <4>3, <4>4
    <3>6. t \in T /\ k \in 0..n
      BY <3>4
    <3> QED BY <3>5, <3>6
  <2>3. n \in P
    <3>1. \A k \in 0..n : k \in P
      <4> HIDE DEF P
      <4> QED BY <2>1, <2>2, UpInduction
    <3> QED BY <3>1
  <2>4. PICK t \in T : \A r \in T : ~Below(r, t, n)
    BY <2>3
  <2>5. ASSUME NEW r \in T, <<r, t>> \in Lower(n) PROVE FALSE
    <3>1. Below(r, t, n)
      BY <2>5 DEF Lower
    <3> QED BY <2>4, <3>1
  <2> QED BY <2>4, <2>5
<1> QED BY <1>1, MinWF

(* One way to a lower rank: one number falls, none before it rises.        *)
LEMMA LowerBy ==
  ASSUME NEW n \in Nat, NEW r \in Ranks(n), NEW s \in Ranks(n), NEW i \in 1..n,
         r[i] < s[i], \A j \in 1..(i - 1) : r[j] <= s[j]
  PROVE  <<r, s>> \in Lower(n)
<1> DEFINE D == {j \in 1..i : r[j] # s[j]}
<1>1. \A j \in 1..n : r[j] \in Nat /\ s[j] \in Nat
  BY DEF Ranks
<1>2. i \in D /\ D \subseteq Nat
  BY <1>1
<1>3. PICK m \in D : \A k \in D : m <= k
  <2> HIDE DEF D
  <2> QED BY <1>2, LeastNumber
<1>4. m \in 1..n /\ m \in 1..i /\ r[m] < s[m]
  <2>1. m \in 1..i /\ r[m] # s[m] /\ i \in 1..n
    BY <1>3
  <2>2. m \in 1..n /\ r[m] \in Nat /\ s[m] \in Nat
    BY <1>1, <2>1
  <2>3. m = i \/ m \in 1..(i - 1)
    BY <2>1
  <2> QED BY <2>1, <2>2, <2>3
<1>5. ASSUME NEW j \in 1..(m - 1) PROVE r[j] = s[j]
  <2>1. j \in 1..i /\ ~(m <= j)
    BY <1>4
  <2> QED BY <1>3, <2>1
<1> QED BY <1>4, <1>5 DEF Lower

=============================================================================

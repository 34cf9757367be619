-------------------------------- MODULE DexProofs --------------------------------
(***************************************************************************)
(* Proofs about DexPairs and DexRouter, for any number of tokens, pairs and *)
(* signers and for every amount.                                           *)
(*                                                                         *)
(* The pairs come first.  The inductive invariant Good(st) has three parts: *)
(* the pairs are listed one after the other (Listed), the account covers   *)
(* them (Covered), and each keeps what Worthy says of its record.  Worthy  *)
(* is stronger than the properties: with T the supply of a pair, T * T     *)
(* never exceeds the product of the reserves, nor kLast, nor does kLast    *)
(* exceed that product.  Without it the fee could take value from the      *)
(* shares, and a pair could be left with shares and no reserve.  Every     *)
(* call is judged by Improves(s, r): r is good, and each pair is better    *)
(* than it was, which is what the three action properties say of one step. *)
(*                                                                         *)
(* The transactions of con_dex compose these calls, and each leaves        *)
(* nothing over.  Between the calls of one transaction less holds: a       *)
(* payment has arrived that is in no pair yet, or a pair of the path has a *)
(* surplus.  Midway(s, p) says what is true there, and the path is         *)
(* followed by induction on its length.                                    *)
(***************************************************************************)
EXTENDS DexRouter, FiniteSetTheorems, WellFoundedInduction, TLAPS

--------------------------------------------------------------------------------
(* Sums over finite sets.                                                    *)

\* Sums over sets are defined by taking elements one at a time; what holds of them
\* follows by looking at the least cardinality at which it would not.
LEMMA LeastNumber ==
  ASSUME NEW T \in SUBSET Nat, T # {}
  PROVE  \E x \in T : \A y \in T : x <= y
<1>1. PICK x \in T : \A y \in T : ~(<<y, x>> \in OpToRel(<, Nat))
  <2>1. IsWellFoundedOn(OpToRel(<, Nat), Nat)
    BY NatLessThanWellFounded
  <2> QED
    BY <2>1, WFMin
<1>2. \A y \in T : ~(y < x)
  BY <1>1 DEF OpToRel
<1> QED
  BY <1>2

\* how SumFunctionOnSet takes a set apart
Pick(s) == CHOOSE x \in s : TRUE
Step(h, f, s) == IF s = {} THEN 0 ELSE f[Pick(s)] + h[s \ {Pick(s)}]
IsSum(h, f, S) == h = [s \in SUBSET S |-> Step(h, f, s)]

\* A sum is the value at S of the recursive function that defines it.
LEMMA SumIs == ASSUME NEW f, NEW S PROVE SumFunctionOnSet(f, S) = (CHOOSE h : IsSum(h, f, S))[S]
BY DEF SumFunctionOnSet, FoldFunctionOnSet, MapThenFoldSet, IsSum, Step, Pick

LEMMA PickIn == ASSUME NEW s, s # {} PROVE Pick(s) \in s
BY DEF Pick

LEMMA Smaller ==
  ASSUME NEW s, IsFiniteSet(s), NEW x \in s
  PROVE  /\ IsFiniteSet(s \ {x}) /\ Cardinality(s \ {x}) \in Nat
         /\ Cardinality(s) \in Nat /\ Cardinality(s \ {x}) = Cardinality(s) - 1
         /\ Cardinality(s) # 0
BY FS_RemoveElement, FS_CardinalityType, FS_EmptySet

\* That function exists on the subsets of a finite set.
LEMMA SumsExist == ASSUME NEW f, NEW S, IsFiniteSet(S) PROVE \E h : IsSum(h, f, S)
<1> DEFINE Upto(h, k) == h = [s \in SUBSET S |-> h[s]] /\ \A s \in SUBSET S : Cardinality(s) <= k => h[s] = Step(h, f, s)
           T == {k \in Nat : ~ \E h : Upto(h, k)}
<1>0. \A s \in SUBSET S : IsFiniteSet(s) /\ Cardinality(s) \in Nat
  BY FS_Subset, FS_CardinalityType
<1>1. T = {}
  <2>1. SUFFICES ASSUME T # {} PROVE FALSE
    OBVIOUS
  <2>2. PICK m \in T : \A y \in T : m <= y
    BY <2>1, LeastNumber
  <2>3. m # 0
    <3>1. Upto([s \in SUBSET S |-> 0], 0)
      <4>1. ASSUME NEW s \in SUBSET S, Cardinality(s) <= 0 PROVE s = {}
        BY <4>1, <1>0, FS_EmptySet
      <4> QED
        BY <4>1 DEF Step
    <3> QED
      BY <3>1
  <2>4. m - 1 \in Nat /\ m - 1 \notin T
    <3>1. m \in Nat /\ \A y \in T : m <= y
      BY <2>2
    <3> HIDE DEF T
    <3> QED
      BY <2>3, <3>1
  <2>5. PICK h : Upto(h, m - 1)
    BY <2>4
  <2>6. PICK g : g = [s \in SUBSET S |-> IF Cardinality(s) <= m - 1 THEN h[s] ELSE Step(h, f, s)]
    OBVIOUS
  <2>7. ASSUME NEW s \in SUBSET S, Cardinality(s) <= m PROVE g[s] = Step(g, f, s)
    <3>1. CASE s = {}
      <4>1. Cardinality(s) = 0
        BY <3>1, FS_EmptySet
      <4>2. Cardinality(s) <= m - 1
        BY <4>1, <2>4
      <4> QED
        BY <2>5, <2>6, <3>1, <4>2 DEF Step
    <3>2. CASE s # {}
      <4>1. Pick(s) \in s
        BY <3>2, PickIn
      <4>2. Cardinality(s \ {Pick(s)}) = Cardinality(s) - 1 /\ Cardinality(s) \in Nat
        BY <4>1, <1>0, Smaller
      <4>3. s \ {Pick(s)} \in SUBSET S /\ Cardinality(s \ {Pick(s)}) <= m - 1
        BY <4>2, <2>7, <2>4
      <4>4. g[s \ {Pick(s)}] = h[s \ {Pick(s)}]
        BY <4>3, <2>6
      <4>5. Step(g, f, s) = Step(h, f, s)
        BY <4>4 DEF Step
      <4>6. g[s] = Step(h, f, s)
        BY <2>5, <2>6
      <4> QED
        BY <4>5, <4>6
    <3> QED
      BY <3>1, <3>2
  <2>8. Upto(g, m)
    BY <2>6, <2>7
  <2> QED
    BY <2>2, <2>8
<1>2. Cardinality(S) \in Nat
  BY <1>0
<1>3. PICK h : Upto(h, Cardinality(S))
  BY <1>1, <1>2
<1>4. \A s \in SUBSET S : h[s] = Step(h, f, s)
  BY <1>3, FS_Subset
<1> QED
  BY <1>3, <1>4 DEF IsSum

\* What two sums have in common.
LEMMA SumsAgree ==
  ASSUME NEW f, NEW g, NEW S, NEW R, NEW h, NEW k, IsSum(h, f, S), IsSum(k, g, R),
         NEW Q \in SUBSET S, Q \in SUBSET R, IsFiniteSet(Q), \A x \in Q : f[x] = g[x]
  PROVE  h[Q] = k[Q]
<1> DEFINE T == {n \in Nat : \E s \in SUBSET Q : Cardinality(s) = n /\ h[s] # k[s]}
<1>1. SUFFICES ASSUME T # {} PROVE FALSE
  BY FS_CardinalityType
<1>2. PICK m \in T : \A y \in T : m <= y
  BY <1>1, LeastNumber
<1>3. PICK s \in SUBSET Q : Cardinality(s) = m /\ h[s] # k[s]
  BY <1>2
<1>4. h[s] = Step(h, f, s) /\ k[s] = Step(k, g, s)
  <2>1. s \in SUBSET S /\ s \in SUBSET R
    BY <1>3
  <2>2. h[s] = Step(h, f, s)
    BY <2>1 DEF IsSum
  <2>3. k[s] = Step(k, g, s)
    BY <2>1 DEF IsSum
  <2> QED
    BY <2>2, <2>3
<1>5. s # {}
  BY <1>3, <1>4 DEF Step
<1>6. Pick(s) \in s
  BY <1>5, PickIn
<1>7. Cardinality(s \ {Pick(s)}) = m - 1 /\ m - 1 \in Nat
  BY <1>3, <1>6, Smaller, FS_Subset
<1>8. h[s \ {Pick(s)}] = k[s \ {Pick(s)}]
  BY <1>2, <1>7
<1> QED
  BY <1>3, <1>4, <1>5, <1>6, <1>8 DEF Step

\* Functions that agree on a finite set have the same sum.
LEMMA SumAgrees ==
  ASSUME NEW f, NEW g, NEW S, IsFiniteSet(S), \A x \in S : f[x] = g[x]
  PROVE  SumFunctionOnSet(f, S) = SumFunctionOnSet(g, S)
<1>1. IsSum(CHOOSE h : IsSum(h, f, S), f, S) /\ IsSum(CHOOSE h : IsSum(h, g, S), g, S)
  BY SumsExist
<1> QED
  BY <1>1, SumIs, SumsAgree

LEMMA SumEmpty == ASSUME NEW f PROVE SumFunctionOnSet(f, {}) = 0
<1>1. PICK h : h = (CHOOSE x : IsSum(x, f, {})) /\ IsSum(h, f, {})
  BY SumsExist, FS_EmptySet
<1> QED
  BY <1>1, SumIs DEF IsSum, Step

\* A sum is the value at the element that is picked and the sum of the rest.
LEMMA SumPicks ==
  ASSUME NEW f, NEW S, IsFiniteSet(S), S # {}
  PROVE  SumFunctionOnSet(f, S) = f[Pick(S)] + SumFunctionOnSet(f, S \ {Pick(S)})
<1> DEFINE R == S \ {Pick(S)}
<1>1. PICK h : h = (CHOOSE x : IsSum(x, f, S)) /\ IsSum(h, f, S)
  BY SumsExist
<1>2. PICK k : k = (CHOOSE x : IsSum(x, f, R)) /\ IsSum(k, f, R)
  BY SumsExist, FS_Subset
<1>3. h[R] = k[R]
  BY <1>1, <1>2, SumsAgree, FS_Subset
<1>4. h[S] = f[Pick(S)] + h[R]
  BY <1>1 DEF IsSum, Step
<1> QED
  BY <1>1, <1>2, <1>3, <1>4, SumIs

\* A sum of natural numbers is one.
LEMMA SumType ==
  ASSUME NEW f, NEW S, IsFiniteSet(S), \A x \in S : f[x] \in Nat
  PROVE  SumFunctionOnSet(f, S) \in Nat
<1> DEFINE T == {n \in Nat : \E s \in SUBSET S : Cardinality(s) = n /\ SumFunctionOnSet(f, s) \notin Nat}
<1>1. SUFFICES ASSUME T # {} PROVE FALSE
  BY FS_CardinalityType
<1>2. PICK m \in T : \A y \in T : m <= y
  BY <1>1, LeastNumber
<1>3. PICK s \in SUBSET S : Cardinality(s) = m /\ SumFunctionOnSet(f, s) \notin Nat
  BY <1>2
<1>4. s # {} /\ IsFiniteSet(s)
  <2>1. SumFunctionOnSet(f, {}) \in Nat
    BY SumEmpty
  <2> QED
    BY <1>3, <2>1, FS_Subset
<1>5. Pick(s) \in s
  BY <1>4, PickIn
<1>6. Cardinality(s \ {Pick(s)}) = m - 1 /\ m - 1 \in Nat
  BY <1>3, <1>4, <1>5, Smaller
<1>7. SumFunctionOnSet(f, s \ {Pick(s)}) \in Nat
  BY <1>2, <1>6
<1> QED
  BY <1>3, <1>4, <1>5, <1>7, SumPicks

\* A sum with one more argument.
LEMMA SumAdds ==
  ASSUME NEW f, NEW S, IsFiniteSet(S), \A x \in S : f[x] \in Nat, NEW x \in S
  PROVE  SumFunctionOnSet(f, S) = f[x] + SumFunctionOnSet(f, S \ {x})
<1> DEFINE Fails(s) == \E y \in s : SumFunctionOnSet(f, s) # f[y] + SumFunctionOnSet(f, s \ {y})
           T == {n \in Nat : \E s \in SUBSET S : Cardinality(s) = n /\ Fails(s)}
<1>1. SUFFICES ASSUME T # {} PROVE FALSE
  BY FS_CardinalityType
<1>2. PICK m \in T : \A y \in T : m <= y
  BY <1>1, LeastNumber
<1>3. PICK s \in SUBSET S : Cardinality(s) = m /\ Fails(s)
  BY <1>2
<1>4. IsFiniteSet(s)
  BY FS_Subset
<1>5. PICK y \in s : SumFunctionOnSet(f, s) # f[y] + SumFunctionOnSet(f, s \ {y})
  BY <1>3
<1> DEFINE p == Pick(s)
<1>6. p \in s
  BY PickIn
<1>7. SumFunctionOnSet(f, s) = f[p] + SumFunctionOnSet(f, s \ {p})
  BY <1>4, <1>6, SumPicks
<1>8. p # y
  BY <1>5, <1>7
<1>9. ASSUME NEW z \in s PROVE s \ {z} \in SUBSET S /\ ~Fails(s \ {z})
  <2>1. Cardinality(s \ {z}) = m - 1 /\ m - 1 \in Nat
    BY <1>3, <1>4, Smaller
  <2> QED
    BY <2>1, <1>2
<1>10. SumFunctionOnSet(f, s \ {p}) = f[y] + SumFunctionOnSet(f, (s \ {p}) \ {y})
  BY <1>6, <1>8, <1>9
<1>11. SumFunctionOnSet(f, s \ {y}) = f[p] + SumFunctionOnSet(f, (s \ {y}) \ {p})
  BY <1>6, <1>8, <1>9
<1>12. (s \ {p}) \ {y} = (s \ {y}) \ {p}
  OBVIOUS
<1>13. SumFunctionOnSet(f, (s \ {p}) \ {y}) \in Nat /\ f[p] \in Nat /\ f[y] \in Nat
  BY SumType, FS_Subset, <1>6
<1>14. SumFunctionOnSet(f, s) = f[p] + (f[y] + SumFunctionOnSet(f, (s \ {p}) \ {y}))
  BY <1>7, <1>10
<1>15. f[y] + SumFunctionOnSet(f, s \ {y}) = f[y] + (f[p] + SumFunctionOnSet(f, (s \ {p}) \ {y}))
  BY <1>11, <1>12
<1> HIDE DEF p, T, Fails
<1> QED
  BY <1>5, <1>13, <1>14, <1>15

\* A sum whose function changes at one argument.
LEMMA SumChanges ==
  ASSUME NEW f, NEW g, NEW S, IsFiniteSet(S), NEW x \in S,
         \A y \in S : f[y] \in Nat /\ g[y] \in Nat, \A y \in S \ {x} : g[y] = f[y]
  PROVE  SumFunctionOnSet(g, S) = SumFunctionOnSet(f, S) - f[x] + g[x]
<1>1. SumFunctionOnSet(f, S) = f[x] + SumFunctionOnSet(f, S \ {x})
  BY SumAdds
<1>2. SumFunctionOnSet(g, S) = g[x] + SumFunctionOnSet(g, S \ {x})
  BY SumAdds
<1>3. IsFiniteSet(S \ {x})
  BY FS_Subset
<1>4. SumFunctionOnSet(f, S \ {x}) = SumFunctionOnSet(g, S \ {x}) /\ SumFunctionOnSet(f, S \ {x}) \in Nat
  BY <1>3, SumAgrees, SumType
<1> QED
  BY <1>1, <1>2, <1>4

\* ... and one with values that are not negative exceeds each of them.
LEMMA SumCovers ==
  ASSUME NEW f, NEW S, IsFiniteSet(S), \A y \in S : f[y] \in Nat, NEW x \in S
  PROVE  f[x] <= SumFunctionOnSet(f, S)
<1>1. SumFunctionOnSet(f, S) = f[x] + SumFunctionOnSet(f, S \ {x})
  BY SumAdds
<1>2. SumFunctionOnSet(f, S \ {x}) \in Nat
  BY SumType, FS_Subset
<1> QED
  BY <1>1, <1>2

--------------------------------------------------------------------------------
(* Arithmetic of ratios and roots.                                           *)

\* Products of natural numbers are ordered as their factors ...
LEMMA TimesMonotone ==
  ASSUME NEW a \in Nat, NEW b \in Nat, NEW c \in Nat, NEW d \in Nat, a <= b, c <= d
  PROVE  a * c <= b * d /\ a * c \in Nat /\ b * d \in Nat
<1>1. a * c <= b * c /\ a * c \in Nat
  OBVIOUS
<1>2. b * c <= b * d /\ b * d \in Nat
  OBVIOUS
<1> QED
  BY <1>1, <1>2

\* ... and a positive factor can be cancelled.
LEMMA TimesCancel ==
  ASSUME NEW a \in Nat, NEW b \in Nat, NEW c \in Nat, c > 0, a * c <= b * c
  PROVE  a <= b
<1>1. SUFFICES ASSUME b + 1 <= a PROVE FALSE
  OBVIOUS
<1>2. (b + 1) * c <= a * c
  BY <1>1, TimesMonotone
<1>3. (b + 1) * c = b * c + c
  OBVIOUS
<1> QED
  BY <1>2, <1>3

\* If a/b <= y/x and b/x' ...: two comparisons of products make a third.
LEMMA Chained ==
  ASSUME NEW a \in Nat, NEW b \in Nat, NEW c \in Nat, NEW x \in Nat, NEW y \in Nat, NEW z \in Nat,
         a * x <= b * y, z * b <= x * c, x > 0, b > 0
  PROVE  a * z <= c * y
<1>1. a * x \in Nat /\ b * y \in Nat /\ z * b \in Nat /\ x * c \in Nat /\ a * z \in Nat /\ c * y \in Nat
      /\ x * b \in Nat
  BY TimesMonotone
<1>2. (a * x) * (z * b) <= (b * y) * (x * c)
  BY <1>1, TimesMonotone
<1>3. (a * x) * (z * b) = (a * z) * (x * b)
  OBVIOUS
<1>4. (b * y) * (x * c) = (c * y) * (x * b)
  OBVIOUS
<1>5. x * b > 0
  OBVIOUS
<1> QED
  BY <1>1, <1>2, <1>3, <1>4, <1>5, TimesCancel

\* A square is ordered as its root.
LEMMA Squares ==
  ASSUME NEW a \in Nat, NEW b \in Nat
  PROVE  (a <= b) <=> (a * a <= b * b)
<1>1. a <= b => a * a <= b * b
  BY TimesMonotone
<1>2. b + 1 <= a => (b + 1) * (b + 1) <= a * a
  BY TimesMonotone
<1>3. (b + 1) * (b + 1) = b * b + 2 * b + 1
  OBVIOUS
<1>4. a * a \in Nat /\ b * b \in Nat
  BY TimesMonotone
<1> QED
  BY <1>1, <1>2, <1>3, <1>4

LEMMA Quotient ==
  ASSUME NEW n \in Nat, NEW d \in Nat, d > 0
  PROVE  n \div d \in Nat /\ (n \div d) * d <= n
OBVIOUS

\* Root is the largest number whose square does not exceed n.
LEMMA RootIs ==
  ASSUME NEW n \in Nat
  PROVE  /\ Root(n) \in Nat
         /\ Root(n) * Root(n) <= n
         /\ n < (Root(n) + 1) * (Root(n) + 1)
<1> DEFINE T == {m \in Nat : n < m * m}
<1>1. n + 1 \in T
  <2>1. (n + 1) * (n + 1) = n * n + 2 * n + 1
    OBVIOUS
  <2>2. n * n \in Nat
    BY TimesMonotone
  <2> QED
    BY <2>1, <2>2
<1>2. PICK m \in T : \A y \in T : m <= y
  BY <1>1, LeastNumber
<1>3. m # 0 /\ m <= n + 1 /\ m \in Nat /\ n < m * m
  BY <1>1, <1>2
<1>4. m - 1 \in Nat /\ m - 1 \notin T
  <2>1. \A y \in T : m <= y
    BY <1>2
  <2> HIDE DEF T
  <2> QED
    BY <1>3, <2>1
<1>5. ~(n < (m - 1) * (m - 1))
  BY <1>4
<1>6. (m - 1) * (m - 1) \in Nat
  BY <1>4, TimesMonotone
<1>7. m - 1 \in 0..n /\ (m - 1) * (m - 1) <= n /\ ((m - 1) + 1) * ((m - 1) + 1) > n
  <2>1. (m - 1) + 1 = m
    BY <1>3
  <2>2. m * m \in Nat
    BY <1>3, TimesMonotone
  <2> QED
    BY <1>3, <1>4, <1>5, <1>6, <2>1, <2>2
<1>8. \E r \in 0..n : r * r <= n /\ (r + 1) * (r + 1) > n
  BY <1>7
<1>9. Root(n) \in 0..n /\ Root(n) * Root(n) <= n /\ (Root(n) + 1) * (Root(n) + 1) > n
  BY <1>8 DEF Root
<1>10. (Root(n) + 1) * (Root(n) + 1) \in Nat
  BY <1>9, TimesMonotone
<1> QED
  BY <1>9, <1>10

\* The roots of two numbers are as the numbers.
LEMMA RootLess ==
  ASSUME NEW m \in Nat, NEW n \in Nat, Root(m) < Root(n)
  PROVE  m < n /\ m <= (Root(m) + 1) * (Root(m) + 1) /\ (Root(m) + 1) * (Root(m) + 1) <= n
<1>1. Root(m) \in Nat /\ Root(n) \in Nat /\ m < (Root(m) + 1) * (Root(m) + 1) /\ Root(n) * Root(n) <= n
  BY RootIs
<1>2. (Root(m) + 1) * (Root(m) + 1) <= Root(n) * Root(n)
  BY <1>1, TimesMonotone
<1>3. (Root(m) + 1) * (Root(m) + 1) \in Nat /\ Root(n) * Root(n) \in Nat
  BY <1>1, TimesMonotone
<1> QED
  BY <1>1, <1>2, <1>3

\* What has a square within n is within the root of n.
LEMMA BelowRoot ==
  ASSUME NEW a \in Nat, NEW n \in Nat, a * a <= n
  PROVE  a <= Root(n)
<1>1. Root(n) \in Nat /\ n < (Root(n) + 1) * (Root(n) + 1)
  BY RootIs
<1>2. SUFFICES ASSUME Root(n) + 1 <= a PROVE FALSE
  BY <1>1
<1>3. (Root(n) + 1) * (Root(n) + 1) <= a * a /\ (Root(n) + 1) * (Root(n) + 1) \in Nat /\ a * a \in Nat
  BY <1>1, <1>2, TimesMonotone
<1> QED
  BY <1>1, <1>3

\* internal_mintFee: the supply after the fee, T + f, when the root of k has grown from
\* k to K and T is not above k.
LEMMA FeeBounded ==
  ASSUME NEW T \in Nat, NEW k \in Nat, NEW K \in Nat, T <= k, k < K, T > 0,
         NEW f \in Nat, f = (T * (K - k)) \div (K * 5 + k)
  PROVE  /\ T + f <= K
         /\ f = 0 \/ (T + f) * (k + 1) <= K * T
<1> DEFINE D == K * 5 + k
           d == K - k
<1>1. D \in Nat /\ D > 0 /\ d \in Nat /\ d > 0
  OBVIOUS
<1>2. f * D <= T * d
  <2>1. T * d \in Nat
    BY <1>1, TimesMonotone
  <2> HIDE DEF D, d
  <2>2. f = (T * d) \div D
    BY DEF D, d
  <2> QED
    BY <1>1, <2>1, <2>2, Quotient
<1>3. (T + f) * D <= 6 * (K * T)
  <2>1. (T + f) * D = T * D + f * D
    <3> HIDE DEF D
    <3> QED
      BY <1>1
  <2>2. T * D + T * d = 6 * (K * T)
    OBVIOUS
  <2>3. T * D \in Nat /\ f * D \in Nat /\ T * d \in Nat
    BY <1>1, TimesMonotone
  <2> HIDE DEF D, d
  <2> QED
    BY <1>2, <2>1, <2>2, <2>3
<1>4. T + f <= K
  <2>1. 6 * (K * T) <= 6 * (K * k) /\ K * T \in Nat /\ K * k \in Nat
    BY TimesMonotone
  <2>2. 6 * (K * k) <= K * D /\ K * D \in Nat
    <3>1. K * (6 * k) <= K * D /\ K * D \in Nat
      BY <1>1, TimesMonotone
    <3>2. K * (6 * k) = 6 * (K * k)
      OBVIOUS
    <3> QED
      BY <3>1, <3>2
  <2>3. (T + f) * D \in Nat
    BY <1>1, TimesMonotone
  <2>4. (T + f) * D <= K * D
    <3> HIDE DEF D
    <3> QED
      BY <1>3, <2>1, <2>2, <2>3
  <2> HIDE DEF D
  <2> QED
    BY <1>1, <2>4, TimesCancel
<1>5. ASSUME f # 0 PROVE (T + f) * (k + 1) <= K * T
  <2>1. D <= T * d
    <3>1. 1 * D <= f * D /\ f * D \in Nat /\ T * d \in Nat
      BY <1>1, <1>5, TimesMonotone
    <3> HIDE DEF D, d
    <3> QED
      BY <1>1, <1>2, <3>1
  <2>2. T * d <= k * d /\ T * d \in Nat /\ k * d \in Nat
    BY <1>1, TimesMonotone
  <2>3. D <= k * d
    <3> HIDE DEF D, d
    <3> QED
      BY <1>1, <2>1, <2>2
  <2>4. d >= 7
    <3>1. SUFFICES ASSUME d <= 6 PROVE FALSE
      BY <1>1
    <3>2. k * d <= k * 6 /\ k * d \in Nat
      BY <1>1, <3>1, TimesMonotone
    <3> HIDE DEF d
    <3>3. D = 6 * k + 5 * d
      BY DEF D, d
    <3> HIDE DEF D
    <3> QED
      BY <1>1, <2>3, <3>2, <3>3
  <2>5. 6 * (k + 1) <= D
    BY <2>4
  <2>6. (T + f) * (6 * (k + 1)) <= (T + f) * D /\ (T + f) * (6 * (k + 1)) \in Nat /\ (T + f) * D \in Nat
    BY <1>1, <2>5, TimesMonotone
  <2>7. (T + f) * (6 * (k + 1)) = 6 * ((T + f) * (k + 1))
    OBVIOUS
  <2>8. (T + f) * (k + 1) \in Nat /\ K * T \in Nat
    BY TimesMonotone
  <2> HIDE DEF D
  <2> QED
    BY <1>3, <2>6, <2>7, <2>8
<1> QED
  BY <1>4, <1>5

\* The value of a share at kLast, with k = kLast and p the product of the reserves.
LEMMA FeeKeepsValue ==
  ASSUME NEW T \in Nat, NEW kLast \in Nat, NEW p \in Nat, T > 0, T * T <= kLast, kLast <= p,
         Root(kLast) < Root(p),
         NEW f \in Nat, f = (T * (Root(p) - Root(kLast))) \div (Root(p) * 5 + Root(kLast))
  PROVE  /\ (T + f) * (T + f) <= p
         /\ kLast * ((T + f) * (T + f)) <= p * (T * T)
<1> DEFINE k == Root(kLast)
           K == Root(p)
<1>1. k \in Nat /\ K \in Nat /\ K * K <= p
  BY RootIs
<1>2. kLast <= (k + 1) * (k + 1) /\ (k + 1) * (k + 1) \in Nat
  BY <1>1, RootLess, TimesMonotone
<1>3. T <= k
  BY BelowRoot
<1> HIDE DEF k, K
<1>4. k < K /\ f = (T * (K - k)) \div (K * 5 + k)
  BY DEF k, K
<1>5. T + f <= K /\ (f = 0 \/ (T + f) * (k + 1) <= K * T)
  BY <1>1, <1>3, <1>4, FeeBounded
<1>6. (T + f) * (T + f) <= K * K /\ (T + f) * (T + f) \in Nat /\ K * K \in Nat /\ T * T \in Nat
  BY <1>1, <1>5, TimesMonotone
<1>7. (T + f) * (T + f) <= p
  BY <1>1, <1>6
<1>8. CASE f = 0
  <2>1. T + f = T
    BY <1>8
  <2>2. kLast * (T * T) <= p * (T * T)
    BY <1>6, TimesMonotone
  <2> QED
    BY <1>7, <2>1, <2>2
<1>9. CASE (T + f) * (k + 1) <= K * T
  <2>1. (T + f) * (k + 1) \in Nat /\ K * T \in Nat
    BY <1>1, TimesMonotone
  <2>2. ((T + f) * (k + 1)) * ((T + f) * (k + 1)) <= (K * T) * (K * T)
    BY <1>9, <2>1, TimesMonotone
  <2>3. ((T + f) * (k + 1)) * ((T + f) * (k + 1)) = ((k + 1) * (k + 1)) * ((T + f) * (T + f))
    BY <1>1
  <2>4. (K * T) * (K * T) = (K * K) * (T * T)
    BY <1>1
  <2>5. kLast * ((T + f) * (T + f)) <= ((k + 1) * (k + 1)) * ((T + f) * (T + f))
        /\ kLast * ((T + f) * (T + f)) \in Nat /\ ((k + 1) * (k + 1)) * ((T + f) * (T + f)) \in Nat
    BY <1>2, <1>6, TimesMonotone
  <2>6. (K * K) * (T * T) <= p * (T * T) /\ (K * K) * (T * T) \in Nat /\ p * (T * T) \in Nat
    BY <1>1, <1>6, TimesMonotone
  <2>7. ((k + 1) * (k + 1)) * ((T + f) * (T + f)) <= (K * K) * (T * T)
    BY <2>2, <2>3, <2>4
  <2>8. kLast * ((T + f) * (T + f)) <= p * (T * T)
    BY <2>5, <2>6, <2>7
  <2> QED
    BY <1>7, <2>8
<1> QED
  BY <1>5, <1>8, <1>9

\* Two ratios that are kept keep their product.
LEMMA BothSides ==
  ASSUME NEW r0 \in Nat, NEW r1 \in Nat, NEW b0 \in Nat, NEW b1 \in Nat, NEW t \in Nat, NEW u \in Nat,
         u * r0 <= t * b0, u * r1 <= t * b1
  PROVE  (u * u) * (r0 * r1) <= (t * t) * (b0 * b1)
<1>1. u * r0 \in Nat /\ t * b0 \in Nat /\ u * r1 \in Nat /\ t * b1 \in Nat
  BY TimesMonotone
<1>2. (u * r0) * (u * r1) <= (t * b0) * (t * b1)
  BY <1>1, TimesMonotone
<1>3. (u * r0) * (u * r1) = (u * u) * (r0 * r1)
  OBVIOUS
<1>4. (t * b0) * (t * b1) = (t * t) * (b0 * b1)
  OBVIOUS
<1> QED
  BY <1>2, <1>3, <1>4

--------------------------------------------------------------------------------
(* The invariant and its parts.                                              *)

\* the states of st; what the pairs hold of a token together, in any of them
State == [num : Nat, pairs : [Pair -> PairRecord], feeOn : BOOLEAN,
          synced : [Token -> Nat], bal : [Token -> [Holder -> Nat]],
          appr : [Token -> [Holder \X Holder -> Nat]]]
Held(s) == [pi \in Pair \X Side |-> s.pairs[pi[1]].balance[pi[2]]]
Slots(s, t) == {pi \in Pair \X Side : s.pairs[pi[1]].token[pi[2]] = t}
Pooled(s, t) == SumFunctionOnSet(Held(s), Slots(s, t))

\* pairs are listed from 1 up, with two different tokens; the others are empty
Listed(s) == \A p \in Pair :
    IF p <= s.num
    THEN s.pairs[p].token[0] # s.pairs[p].token[1] /\ \A i \in Side : s.pairs[p].token[i] \in Token
    ELSE \A i \in Side : s.pairs[p].token[i] = 0 /\ s.pairs[p].balance[i] = 0

\* What the record of one pair keeps.  Seeded: the locked share is never burned, and
\* the product of the reserves never falls below the square of the supply.  Charged: the
\* same of kLast, from which the next fee counts.
Backed(pr) == \A i \in Side : pr.reserve[i] <= pr.balance[i]
Shared(pr) == pr.totalSupply = SumFunction(pr.lp)
Square(n) == n * n
Seeded(pr) == pr.totalSupply > 0 =>
    /\ pr.lp[Dead] > 0 /\ \A i \in Side : pr.reserve[i] > 0
    /\ Square(pr.totalSupply) <= Product(pr.reserve)
Charged(pr) == pr.kLast # 0 =>
    pr.totalSupply > 0 /\ Square(pr.totalSupply) <= pr.kLast /\ pr.kLast <= Product(pr.reserve)
Worthy(pr) == Backed(pr) /\ Shared(pr) /\ Seeded(pr) /\ Charged(pr)

\* the account covers what is known of it, which covers what the pairs hold
Covered(s) == \A t \in Token : Pooled(s, t) <= s.synced[t] /\ s.synced[t] <= s.bal[t][Dex]

\* The inductive invariant.
Good(s) == s \in State /\ s.num <= MaxPairs /\ Listed(s) /\ Covered(s) /\ \A p \in Pair : Worthy(s.pairs[p])

\* The accounts that are no signers are three, and the holders are finitely many.
LEMMA Holders ==
  /\ IsFiniteSet(Holder) /\ Dex \in Holder /\ Router \in Holder /\ Dead \in Holder
  /\ Account \subseteq Holder /\ Owner \in Account
  /\ Dex \notin Account /\ Dead \notin Account /\ Router \notin Account
  /\ Dex # Dead /\ Dex # Router /\ Dead # Router
<1>1. IsFiniteSet(Account) /\ Owner \in Account /\ Cardinality({Dex, Router, Dead}) = 3
      /\ {Dex, Router, Dead} \cap Account = {}
  BY HolderAssumption
<1>2. IsFiniteSet({Dex, Router, Dead})
  <2>1. IsFiniteSet({Dex}) /\ IsFiniteSet({Dex} \cup {Router})
    BY FS_Singleton, FS_AddElement
  <2>2. {Dex} \cup {Router} \cup {Dead} = {Dex, Router, Dead}
    OBVIOUS
  <2> QED
    BY <2>1, <2>2, FS_AddElement
<1>3. IsFiniteSet(Holder)
  BY <1>1, <1>2, FS_Union DEF Holder
<1>4. \A x, y : Cardinality({x, y}) # 3
  <2>1. SUFFICES ASSUME NEW x, NEW y PROVE Cardinality({x, y}) # 3
    OBVIOUS
  <2>2. IsFiniteSet({x}) /\ Cardinality({x}) = 1
    BY FS_Singleton
  <2>3. Cardinality({x} \cup {y}) = (IF y \in {x} THEN 1 ELSE 1 + 1)
    BY <2>2, FS_AddElement
  <2>4. {x} \cup {y} = {x, y}
    OBVIOUS
  <2> QED
    BY <2>3, <2>4
<1>5. Dex # Dead /\ Dex # Router /\ Dead # Router
  <2>1. ASSUME Dex = Dead PROVE FALSE
    <3>1. {Dex, Router, Dead} = {Dex, Router}
      BY <2>1
    <3> QED
      BY <3>1, <1>1, <1>4
  <2>2. ASSUME Dex = Router PROVE FALSE
    <3>1. {Dex, Router, Dead} = {Dex, Dead}
      BY <2>2
    <3> QED
      BY <3>1, <1>1, <1>4
  <2>3. ASSUME Dead = Router PROVE FALSE
    <3>1. {Dex, Router, Dead} = {Dex, Dead}
      BY <2>3
    <3> QED
      BY <3>1, <1>1, <1>4
  <2> QED
    BY <2>1, <2>2, <2>3
<1> QED
  BY <1>1, <1>3, <1>5 DEF Holder

LEMMA PairsFinite == IsFiniteSet(Pair \X Side)
<1>1. IsFiniteSet(Pair)
  BY AmountAssumption, FS_Interval DEF Pair
<1>2. IsFiniteSet(Side)
  <2>1. IsFiniteSet({0}) /\ IsFiniteSet({0} \cup {1})
    BY FS_Singleton, FS_AddElement
  <2>2. {0} \cup {1} = {0, 1}
    OBVIOUS
  <2> QED
    BY <2>1, <2>2 DEF Side
<1> QED
  BY <1>1, <1>2, FS_Product

\* A payment between two holders leaves the sum of what all hold.
LEMMA MoveIs ==
  ASSUME NEW f \in [Holder -> Nat], NEW a \in Holder, NEW b \in Holder, NEW n \in Nat, f[a] >= n
  PROVE  /\ Move(f, a, b, n) \in [Holder -> Nat]
         /\ \A h \in Holder : Move(f, a, b, n)[h] =
               f[h] - (IF h = a THEN n ELSE 0) + (IF h = b THEN n ELSE 0)
BY DEF Move

LEMMA MoveSum ==
  ASSUME NEW f \in [Holder -> Nat], NEW a \in Holder, NEW b \in Holder, NEW n \in Nat, f[a] >= n
  PROVE  SumFunction(Move(f, a, b, n)) = SumFunction(f)
<1> DEFINE g == [f EXCEPT ![a] = @ - n]
           m == Move(f, a, b, n)
<1>1. g \in [Holder -> Nat] /\ g[a] = f[a] - n /\ \A h \in Holder \ {a} : g[h] = f[h]
  OBVIOUS
<1>2. m = [g EXCEPT ![b] = @ + n]
  BY DEF Move
<1> HIDE DEF g, m
<1>3. m \in [Holder -> Nat] /\ m[b] = g[b] + n /\ \A h \in Holder \ {b} : m[h] = g[h]
  BY <1>1, <1>2
<1>4. SumFunctionOnSet(g, Holder) = SumFunctionOnSet(f, Holder) - f[a] + g[a]
  BY <1>1, Holders, SumChanges
<1>5. SumFunctionOnSet(m, Holder) = SumFunctionOnSet(g, Holder) - g[b] + m[b]
  BY <1>1, <1>3, Holders, SumChanges
<1>6. SumFunctionOnSet(f, Holder) \in Nat
  BY Holders, SumType
<1>7. f[a] \in Nat /\ g[b] \in Nat
  BY <1>1
<1>8. SumFunctionOnSet(m, Holder) = SumFunctionOnSet(f, Holder)
  BY <1>1, <1>3, <1>4, <1>5, <1>6, <1>7
<1>9. DOMAIN m = Holder /\ DOMAIN f = Holder
  BY <1>3
<1> QED
  BY <1>8, <1>9 DEF SumFunction, m

\* Shares made for someone count once.
LEMMA MintedSum ==
  ASSUME NEW pr \in PairRecord, NEW to \in Holder, NEW n \in Nat, Shared(pr)
  PROVE  /\ InternalMint(pr, to, n) \in PairRecord
         /\ Shared(InternalMint(pr, to, n))
<1> DEFINE g == [pr.lp EXCEPT ![to] = @ + n]
           r == InternalMint(pr, to, n)
<1>1. pr.lp \in [Holder -> Nat] /\ pr.totalSupply \in Nat
  BY DEF PairRecord
<1>2. g \in [Holder -> Nat] /\ g[to] = pr.lp[to] + n /\ \A h \in Holder \ {to} : g[h] = pr.lp[h]
  BY <1>1
<1>3. r = [pr EXCEPT !.totalSupply = @ + n, !.lp = g]
  BY DEF InternalMint, PairRecord
<1> HIDE DEF g, r
<1>4. r \in PairRecord /\ r.lp = g /\ r.totalSupply = pr.totalSupply + n
  <2>1. pr.totalSupply + n \in Nat
    BY <1>1
  <2>2. r = [pr EXCEPT !.totalSupply = pr.totalSupply + n, !.lp = g]
    BY <1>3
  <2> QED
    BY <1>2, <2>1, <2>2 DEF PairRecord
<1>5. SumFunctionOnSet(g, Holder) = SumFunctionOnSet(pr.lp, Holder) - pr.lp[to] + g[to]
  BY <1>1, <1>2, Holders, SumChanges
<1>6. SumFunctionOnSet(pr.lp, Holder) \in Nat /\ pr.lp[to] \in Nat
  BY <1>1, Holders, SumType
<1>7. SumFunctionOnSet(g, Holder) = SumFunctionOnSet(pr.lp, Holder) + n
  BY <1>2, <1>5, <1>6
<1>8. DOMAIN g = Holder /\ DOMAIN pr.lp = Holder
  BY <1>1, <1>2
<1> QED
  BY <1>4, <1>7, <1>8 DEF Shared, SumFunction, r

\* What the pools of a token hold when only pair p has changed, and not its tokens.
LEMMA PooledOfOne ==
  ASSUME NEW s, NEW r, NEW p \in Pair,
         \A q \in Pair, i \in Side : s.pairs[q].balance[i] \in Nat /\ r.pairs[q].balance[i] \in Nat,
         \A q \in Pair, i \in Side : r.pairs[q].token[i] = s.pairs[q].token[i],
         \A q \in Pair \ {p}, i \in Side : r.pairs[q].balance[i] = s.pairs[q].balance[i]
  PROVE  \A t \in Token :
            /\ Pooled(s, t) \in Nat /\ Pooled(r, t) \in Nat
            /\ \A i \in Side : s.pairs[p].token[i] = t /\ s.pairs[p].token[1 - i] # t =>
                  Pooled(r, t) = Pooled(s, t) - s.pairs[p].balance[i] + r.pairs[p].balance[i]
            /\ (\A i \in Side : s.pairs[p].token[i] # t) => Pooled(r, t) = Pooled(s, t)
<1> SUFFICES ASSUME NEW t \in Token
             PROVE /\ Pooled(s, t) \in Nat /\ Pooled(r, t) \in Nat
                   /\ \A i \in Side : s.pairs[p].token[i] = t /\ s.pairs[p].token[1 - i] # t =>
                         Pooled(r, t) = Pooled(s, t) - s.pairs[p].balance[i] + r.pairs[p].balance[i]
                   /\ (\A i \in Side : s.pairs[p].token[i] # t) => Pooled(r, t) = Pooled(s, t)
  OBVIOUS
<1> DEFINE S == Slots(s, t)
<1>1. S = Slots(r, t) /\ S \subseteq Pair \X Side
  BY DEF Slots
<1>2. IsFiniteSet(S)
  BY <1>1, PairsFinite, FS_Subset
<1>3. \A x \in S : Held(s)[x] \in Nat /\ Held(r)[x] \in Nat
  BY <1>1 DEF Held
<1>4. Pooled(s, t) = SumFunctionOnSet(Held(s), S) /\ Pooled(r, t) = SumFunctionOnSet(Held(r), S)
  BY <1>1 DEF Pooled
<1> HIDE DEF S
<1>5. Pooled(s, t) \in Nat /\ Pooled(r, t) \in Nat
  BY <1>2, <1>3, <1>4, SumType
<1>6. ASSUME NEW i \in Side, s.pairs[p].token[i] = t, s.pairs[p].token[1 - i] # t
      PROVE Pooled(r, t) = Pooled(s, t) - s.pairs[p].balance[i] + r.pairs[p].balance[i]
  <2>1. <<p, i>> \in S
    BY <1>6 DEF S, Slots
  <2>2. ASSUME NEW x \in S \ {<<p, i>>} PROVE Held(r)[x] = Held(s)[x]
    <3>1. PICK q \in Pair, j \in Side : x = <<q, j>> /\ s.pairs[q].token[j] = t
      BY <1>1 DEF S, Slots
    <3>2. q # p
      BY <3>1, <1>6, <2>2 DEF Side
    <3> QED
      BY <3>1, <3>2 DEF Held
  <2>3. Held(s)[<<p, i>>] = s.pairs[p].balance[i] /\ Held(r)[<<p, i>>] = r.pairs[p].balance[i]
    BY DEF Held
  <2> QED
    BY <1>2, <1>3, <1>4, <2>1, <2>2, <2>3, SumChanges
<1>7. ASSUME \A i \in Side : s.pairs[p].token[i] # t PROVE Pooled(r, t) = Pooled(s, t)
  <2>1. ASSUME NEW x \in S PROVE Held(r)[x] = Held(s)[x]
    <3>1. PICK q \in Pair, j \in Side : x = <<q, j>> /\ s.pairs[q].token[j] = t
      BY <1>1 DEF S, Slots
    <3>2. q # p
      BY <3>1, <1>7
    <3> QED
      BY <3>1, <3>2 DEF Held
  <2> QED
    BY <1>2, <1>4, <2>1, SumAgrees
<1> QED
  BY <1>5, <1>6, <1>7

\* Pools with the same tokens and balances hold the same.
LEMMA PooledSame ==
  ASSUME NEW s, NEW r,
         \A q \in Pair, i \in Side : r.pairs[q].token[i] = s.pairs[q].token[i]
                                     /\ r.pairs[q].balance[i] = s.pairs[q].balance[i]
  PROVE  \A t : Pooled(r, t) = Pooled(s, t)
<1>1. Held(r) = Held(s)
  BY DEF Held
<1>2. \A t : Slots(r, t) = Slots(s, t)
  BY DEF Slots
<1> QED
  BY <1>1, <1>2 DEF Pooled

LEMMA MinOfTwo ==
  ASSUME NEW a \in Int, NEW b \in Int
  PROVE  Min({a, b}) \in {a, b} /\ Min({a, b}) <= a /\ Min({a, b}) <= b
<1>1. \E x \in {a, b} : \A y \in {a, b} : x <= y
  <2>1. CASE a <= b
    BY <2>1
  <2>2. CASE b <= a
    BY <2>2
  <2> QED
    BY <2>1, <2>2
<1> QED
  BY <1>1 DEF Min

LEMMA MaxOfTwo ==
  ASSUME NEW a \in Int, NEW b \in Int
  PROVE  Max({a, b}) \in {a, b} /\ Max({a, b}) >= a /\ Max({a, b}) >= b
<1>1. \E x \in {a, b} : \A y \in {a, b} : x >= y
  <2>1. CASE a >= b
    BY <2>1
  <2>2. CASE b >= a
    BY <2>2
  <2> QED
    BY <2>1, <2>2
<1> QED
  BY <1>1 DEF Max

\* The types of what a record holds.
LEMMA PairTyped ==
  ASSUME NEW pr \in PairRecord
  PROVE  /\ pr.reserve \in [Side -> Nat] /\ pr.balance \in [Side -> Nat] /\ pr.lp \in [Holder -> Nat]
         /\ pr.totalSupply \in Nat /\ pr.kLast \in Nat /\ pr.token \in [Side -> Token \cup {0}]
         /\ pr.allowance \in [Holder \X Holder -> Nat]
         /\ pr.reserve[0] \in Nat /\ pr.reserve[1] \in Nat
         /\ pr.balance[0] \in Nat /\ pr.balance[1] \in Nat
         /\ Product(pr.reserve) \in Nat /\ Product(pr.balance) \in Nat
         /\ Square(pr.totalSupply) \in Nat
<1>1. /\ pr.reserve \in [Side -> Nat] /\ pr.balance \in [Side -> Nat] /\ pr.lp \in [Holder -> Nat]
      /\ pr.totalSupply \in Nat /\ pr.kLast \in Nat /\ pr.token \in [Side -> Token \cup {0}]
      /\ pr.allowance \in [Holder \X Holder -> Nat]
  BY DEF PairRecord
<1>2. /\ pr.reserve[0] \in Nat /\ pr.reserve[1] \in Nat
      /\ pr.balance[0] \in Nat /\ pr.balance[1] \in Nat
  BY <1>1 DEF Side
<1> QED
  BY <1>1, <1>2, TimesMonotone DEF Product, Square

LEMMA StateTyped ==
  ASSUME NEW s \in State
  PROVE  /\ s.num \in Nat /\ s.feeOn \in BOOLEAN /\ s.pairs \in [Pair -> PairRecord]
         /\ s.synced \in [Token -> Nat] /\ s.bal \in [Token -> [Holder -> Nat]]
         /\ s.appr \in [Token -> [Holder \X Holder -> Nat]]
         /\ \A p \in Pair : s.pairs[p] \in PairRecord
BY DEF State

\* what the fee leaves of a pair: more shares at most, and of no less value
FeeTaken(pr, feeOn, x) ==
    /\ x \in PairRecord /\ x.token = pr.token /\ x.reserve = pr.reserve /\ x.balance = pr.balance
    /\ x.lp[Dex] = pr.lp[Dex]
    /\ x.totalSupply >= pr.totalSupply /\ (pr.totalSupply = 0 => x.totalSupply = 0)
    /\ Shared(x) /\ Seeded(x)
    /\ ~feeOn => x.kLast = 0
    /\ pr.totalSupply > 0 =>
          Floor(pr, feeOn) * Square(x.totalSupply) <= Product(pr.reserve) * Square(pr.totalSupply)

\* The product below which the fee may not push the value of a share.
LEMMA FloorIs ==
  ASSUME NEW pr \in PairRecord, Worthy(pr), NEW feeOn \in BOOLEAN
  PROVE  /\ Floor(pr, feeOn) \in Nat /\ Floor(pr, feeOn) <= Product(pr.reserve)
         /\ feeOn /\ pr.kLast # 0 => Floor(pr, feeOn) = pr.kLast
<1>1. pr.kLast \in Nat /\ Product(pr.reserve) \in Nat
  BY PairTyped
<1>2. CASE feeOn /\ pr.kLast # 0
  <2>1. Floor(pr, feeOn) = Min({pr.kLast, Product(pr.reserve)})
    BY <1>2 DEF Floor
  <2>2. pr.kLast <= Product(pr.reserve)
    BY <1>2 DEF Worthy, Charged
  <2> DEFINE m == Min({pr.kLast, Product(pr.reserve)})
  <2>3. m \in {pr.kLast, Product(pr.reserve)} /\ m <= pr.kLast /\ m <= Product(pr.reserve)
    <3>1. pr.kLast \in Int /\ Product(pr.reserve) \in Int
      BY <1>1
    <3> QED
      BY <3>1, MinOfTwo
  <2> HIDE DEF m
  <2>4. m = pr.kLast
    BY <1>1, <2>2, <2>3
  <2> QED
    BY <1>1, <2>1, <2>2, <2>4 DEF m
<1>3. CASE ~(feeOn /\ pr.kLast # 0)
  <2>1. Floor(pr, feeOn) = Product(pr.reserve)
    BY <1>3 DEF Floor
  <2> QED
    BY <1>1, <1>3, <2>1
<1> QED
  BY <1>2, <1>3

\* internal_mintFee keeps what FeeTaken says.
LEMMA MintFeeTaken ==
  ASSUME NEW s \in State, NEW p \in Pair, Worthy(s.pairs[p])
  PROVE  FeeTaken(s.pairs[p], s.feeOn, MintFee(s, p))
<1> DEFINE pr == s.pairs[p]
           rootK == Root(Product(pr.reserve))
           rootKLast == Root(pr.kLast)
           fee == (pr.totalSupply * (rootK - rootKLast)) \div (rootK * 5 + rootKLast)
           x == MintFee(s, p)
<1>1. pr \in PairRecord /\ s.feeOn \in BOOLEAN
  BY StateTyped
<1>2. pr.totalSupply \in Nat /\ pr.kLast \in Nat /\ Product(pr.reserve) \in Nat /\ pr.lp \in [Holder -> Nat]
      /\ Square(pr.totalSupply) \in Nat
  BY <1>1, PairTyped
<1>3. Shared(pr) /\ Seeded(pr) /\ Charged(pr)
  BY DEF Worthy
<1>4. Floor(pr, s.feeOn) \in Nat /\ Floor(pr, s.feeOn) <= Product(pr.reserve)
      /\ (s.feeOn /\ pr.kLast # 0 => Floor(pr, s.feeOn) = pr.kLast)
  BY <1>1, FloorIs
<1>5. Floor(pr, s.feeOn) * Square(pr.totalSupply) <= Product(pr.reserve) * Square(pr.totalSupply)
  BY <1>2, <1>4, TimesMonotone
<1>6. CASE s.feeOn /\ pr.kLast # 0 /\ rootK > rootKLast
  <2>1. x = InternalMint(pr, Owner, fee)
    BY <1>6 DEF MintFee
  <2>2. rootK \in Nat /\ rootKLast \in Nat
    BY <1>2, RootIs
  <2>3. pr.totalSupply > 0 /\ pr.totalSupply * pr.totalSupply <= pr.kLast /\ pr.kLast <= Product(pr.reserve)
    BY <1>3, <1>6 DEF Charged, Square
  <2>4. fee \in Nat
    <3>1. pr.totalSupply * (rootK - rootKLast) \in Nat
      BY <1>2, <1>6, <2>2, TimesMonotone
    <3>2. rootK * 5 + rootKLast \in Nat /\ rootK * 5 + rootKLast > 0
      BY <1>6, <2>2
    <3> HIDE DEF rootK, rootKLast, pr
    <3> QED
      BY <3>1, <3>2, Quotient
  <2>5. /\ (pr.totalSupply + fee) * (pr.totalSupply + fee) <= Product(pr.reserve)
        /\ pr.kLast * ((pr.totalSupply + fee) * (pr.totalSupply + fee))
              <= Product(pr.reserve) * (pr.totalSupply * pr.totalSupply)
    BY <1>2, <1>6, <2>3, <2>4, FeeKeepsValue
  <2> HIDE DEF fee
  <2>6. x \in PairRecord /\ Shared(x)
    BY <1>1, <1>3, <2>1, <2>4, MintedSum, Holders
  <2>7. x = [pr EXCEPT !.totalSupply = pr.totalSupply + fee, !.lp = [pr.lp EXCEPT ![Owner] = @ + fee]]
    BY <1>1, <2>1 DEF InternalMint, PairRecord
  <2> HIDE DEF x, pr
  <2>8. /\ x.token = pr.token /\ x.reserve = pr.reserve /\ x.balance = pr.balance
        /\ x.totalSupply = pr.totalSupply + fee /\ x.lp = [pr.lp EXCEPT ![Owner] = @ + fee]
    BY <1>1, <2>7 DEF PairRecord
  <2>9. x.lp[Dex] = pr.lp[Dex] /\ x.lp[Dead] = pr.lp[Dead]
    BY <1>2, <2>8, Holders
  <2>10. Seeded(x)
    BY <1>3, <2>3, <2>5, <2>8, <2>9 DEF Seeded, Square
  <2>11. Floor(pr, s.feeOn) * Square(x.totalSupply) <= Product(pr.reserve) * Square(pr.totalSupply)
    BY <1>4, <1>6, <2>5, <2>8 DEF Square
  <2>12. x.totalSupply >= pr.totalSupply /\ pr.totalSupply # 0
    BY <1>2, <2>3, <2>4, <2>8
  <2>13. FeeTaken(pr, s.feeOn, x)
    BY <1>6, <2>6, <2>8, <2>9, <2>10, <2>11, <2>12 DEF FeeTaken
  <2> QED
    BY <2>13 DEF pr, x
<1>7. CASE ~s.feeOn
  <2>1. x = [pr EXCEPT !.kLast = 0]
    BY <1>7 DEF MintFee
  <2> HIDE DEF x, pr
  <2>2. /\ x \in PairRecord /\ x.token = pr.token /\ x.reserve = pr.reserve /\ x.balance = pr.balance
        /\ x.lp = pr.lp /\ x.totalSupply = pr.totalSupply /\ x.kLast = 0
    BY <1>1, <2>1 DEF PairRecord
  <2>3. Shared(x) /\ Seeded(x)
    BY <1>3, <2>2 DEF Shared, Seeded
  <2>4. Square(x.totalSupply) = Square(pr.totalSupply) /\ x.totalSupply >= pr.totalSupply
    BY <1>2, <2>2
  <2>5. FeeTaken(pr, s.feeOn, x)
    BY <1>5, <2>2, <2>3, <2>4 DEF FeeTaken
  <2> QED
    BY <2>5 DEF pr, x
<1>8. CASE s.feeOn /\ ~(pr.kLast # 0 /\ rootK > rootKLast)
  <2>1. x = pr
    BY <1>8 DEF MintFee
  <2> HIDE DEF x, pr
  <2>2. s.feeOn /\ pr.totalSupply >= pr.totalSupply
    BY <1>2, <1>8
  <2>3. FeeTaken(pr, s.feeOn, pr)
    BY <1>1, <1>3, <1>5, <2>2 DEF FeeTaken
  <2> QED
    BY <2>1, <2>3 DEF pr, x
<1> QED
  BY <1>6, <1>7, <1>8

--------------------------------------------------------------------------------
(* What a call does to a pair.                                               *)

\* what a transaction may do to a pair
Better(pr, feeOn, new) ==
    /\ new \in PairRecord /\ Worthy(new)
    /\ pr.totalSupply > 0 =>
          /\ new.totalSupply > 0
          /\ Floor(pr, feeOn) * Square(new.totalSupply) <= Product(new.reserve) * Square(pr.totalSupply)
    /\ pr.kLast # 0 /\ new.kLast # 0 =>
          pr.kLast * Square(new.totalSupply) <= new.kLast * Square(pr.totalSupply)

LEMMA SquarePositive ==
  ASSUME NEW n \in Nat, n > 0 PROVE Square(n) \in Nat /\ Square(n) > 0
<1>1. 1 * 1 <= n * n /\ n * n \in Nat
  BY TimesMonotone
<1> QED
  BY <1>1 DEF Square

LEMMA ProductPositive ==
  ASSUME NEW f, f[0] \in Nat, f[1] \in Nat, f[0] > 0, f[1] > 0
  PROVE  Product(f) \in Nat /\ Product(f) > 0
<1>1. 1 * 1 <= f[0] * f[1] /\ f[0] * f[1] \in Nat
  BY TimesMonotone
<1> QED
  BY <1>1 DEF Product

\* A pair whose shares are each worth no less than after the fee.
LEMMA Revalued ==
  ASSUME NEW pr \in PairRecord, Worthy(pr), NEW feeOn \in BOOLEAN, NEW x, FeeTaken(pr, feeOn, x),
         x.totalSupply > 0,
         NEW new \in PairRecord, Shared(new), new.reserve = new.balance,
         new.lp[Dead] > 0, new.totalSupply > 0, new.reserve[0] > 0, new.reserve[1] > 0,
         Square(new.totalSupply) * Product(x.reserve) <= Square(x.totalSupply) * Product(new.reserve),
         new.kLast = IF feeOn THEN Product(new.balance) ELSE 0
  PROVE  Better(pr, feeOn, new)
<1> DEFINE p == Product(x.reserve)
           c == Product(new.reserve)
           z == Square(new.totalSupply)
           m == Square(x.totalSupply)
           y == Square(pr.totalSupply)
           F == Floor(pr, feeOn)
<1>1. x \in PairRecord /\ x.reserve = pr.reserve /\ Seeded(x)
  BY DEF FeeTaken
<1>2. /\ pr.totalSupply \in Nat /\ x.totalSupply \in Nat /\ new.totalSupply \in Nat
      /\ y \in Nat /\ m \in Nat /\ z \in Nat /\ p \in Nat /\ c \in Nat /\ pr.kLast \in Nat
  BY <1>1, PairTyped
<1>3. pr.totalSupply > 0
  BY <1>2 DEF FeeTaken
<1>4. m <= p /\ p > 0
  <2>1. x.reserve[0] > 0 /\ x.reserve[1] > 0 /\ m <= p
    BY <1>1 DEF Seeded, Side
  <2>2. x.reserve[0] \in Nat /\ x.reserve[1] \in Nat
    BY <1>1, PairTyped
  <2> QED
    BY <2>1, <2>2, ProductPositive
<1>5. m > 0 /\ y > 0 /\ z > 0
  BY <1>2, <1>3, SquarePositive
<1>6. F \in Nat /\ (feeOn /\ pr.kLast # 0 => F = pr.kLast)
  BY FloorIs
<1>7. F * m <= p * y
  BY <1>1, <1>3 DEF FeeTaken
<1>8. z * p <= m * c
  OBVIOUS
<1>9. c = Product(new.balance)
  OBVIOUS
<1> HIDE DEF p, c, z, m, y, F
<1>10. F * z <= c * y
  BY <1>2, <1>4, <1>5, <1>6, <1>7, <1>8, Chained
<1>11. z <= c
  <2>1. m * c <= p * c /\ m * c \in Nat /\ p * c \in Nat /\ z * p \in Nat
    BY <1>2, <1>4, TimesMonotone
  <2>2. p * c = c * p
    BY <1>2
  <2>3. z * p <= c * p
    BY <1>8, <2>1, <2>2
  <2> QED
    BY <1>2, <1>4, <2>3, TimesCancel
<1>12. Backed(new)
  <2>1. new.reserve \in [Side -> Nat]
    BY PairTyped
  <2> QED
    BY <2>1 DEF Backed
<1>13. Seeded(new)
  BY <1>11 DEF Seeded, Side, z, c
<1>14. new.kLast # 0 => feeOn /\ new.kLast = c
  BY <1>9
<1>15. Charged(new)
  <2>1. c <= c
    BY <1>2
  <2> QED
    BY <1>11, <1>14, <2>1 DEF Charged, z, c
<1>16. pr.kLast # 0 /\ new.kLast # 0 => pr.kLast * z <= new.kLast * y
  BY <1>6, <1>10, <1>14
<1> QED
  BY <1>10, <1>12, <1>13, <1>15, <1>16 DEF Better, Worthy, F, z, c, y

\* The shares of a surplus are worth no more than the surplus.
LEMMA SharesIs ==
  ASSUME NEW x \in PairRecord, NEW surplus \in [Side -> Nat], x.totalSupply > 0,
         x.reserve[0] > 0, x.reserve[1] > 0
  PROVE  /\ Shares(x, surplus) \in Nat
         /\ \A i \in Side : Shares(x, surplus) * x.reserve[i] <= surplus[i] * x.totalSupply
<1>1. x.totalSupply \in Nat /\ x.reserve[0] \in Nat /\ x.reserve[1] \in Nat
  BY PairTyped
<1>2. surplus[0] \in Nat /\ surplus[1] \in Nat
  BY DEF Side
<1> DEFINE a == (surplus[0] * x.totalSupply) \div x.reserve[0]
           b == (surplus[1] * x.totalSupply) \div x.reserve[1]
<1>3. Shares(x, surplus) = Min({a, b})
  <2>1. {(surplus[i] * x.totalSupply) \div x.reserve[i] : i \in Side} = {a, b}
    BY DEF Side
  <2>2. x.totalSupply # 0 /\ ~ \E i \in Side : x.reserve[i] = 0
    BY <1>1 DEF Side
  <2> QED
    BY <2>1, <2>2 DEF Shares
<1>4. a \in Nat /\ a * x.reserve[0] <= surplus[0] * x.totalSupply
  <2>1. surplus[0] * x.totalSupply \in Nat
    BY <1>1, <1>2, TimesMonotone
  <2> QED
    BY <1>1, <2>1, Quotient
<1>5. b \in Nat /\ b * x.reserve[1] <= surplus[1] * x.totalSupply
  <2>1. surplus[1] * x.totalSupply \in Nat
    BY <1>1, <1>2, TimesMonotone
  <2> QED
    BY <1>1, <2>1, Quotient
<1> DEFINE L == Min({a, b})
<1> HIDE DEF a, b
<1>6. L \in {a, b} /\ L <= a /\ L <= b
  <2>1. a \in Int /\ b \in Int
    BY <1>4, <1>5
  <2> QED
    BY <2>1, MinOfTwo
<1> HIDE DEF L
<1>7. L \in Nat
  BY <1>4, <1>5, <1>6
<1>8. L * x.reserve[0] <= a * x.reserve[0] /\ L * x.reserve[1] <= b * x.reserve[1]
      /\ L * x.reserve[0] \in Nat /\ L * x.reserve[1] \in Nat
      /\ a * x.reserve[0] \in Nat /\ b * x.reserve[1] \in Nat
  BY <1>1, <1>4, <1>5, <1>6, <1>7, TimesMonotone
<1>9. surplus[0] * x.totalSupply \in Nat /\ surplus[1] * x.totalSupply \in Nat
  BY <1>1, <1>2, TimesMonotone
<1>10. L * x.reserve[0] <= surplus[0] * x.totalSupply /\ L * x.reserve[1] <= surplus[1] * x.totalSupply
  BY <1>4, <1>5, <1>8, <1>9
<1>11. \A i \in Side : L * x.reserve[i] <= surplus[i] * x.totalSupply
  BY <1>10 DEF Side
<1> QED
  BY <1>3, <1>7, <1>11 DEF L

\* what mint leaves of a pair
Minted(x, to, feeOn) ==
    LET surplus == [i \in Side |-> x.balance[i] - x.reserve[i]]
        seeded == IF x.totalSupply = 0 THEN InternalMint(x, Dead, MinimumLiquidity) ELSE x
    IN [InternalMint(seeded, to, Shares(x, surplus)) EXCEPT
            !.reserve = x.balance, !.kLast = IF feeOn THEN Product(x.balance) ELSE x.kLast]

\* Minting shares for a surplus lowers no share's value.
LEMMA MintedBetter ==
  ASSUME NEW pr \in PairRecord, Worthy(pr), NEW feeOn \in BOOLEAN, NEW x, FeeTaken(pr, feeOn, x),
         NEW to \in Account,
         Shares(x, [i \in Side |-> x.balance[i] - x.reserve[i]]) > 0
  PROVE  /\ Better(pr, feeOn, Minted(x, to, feeOn))
         /\ Minted(x, to, feeOn).token = pr.token /\ Minted(x, to, feeOn).balance = pr.balance
         /\ Minted(x, to, feeOn).reserve = pr.balance /\ Minted(x, to, feeOn).lp[Dex] = pr.lp[Dex]
<1> DEFINE surplus == [i \in Side |-> x.balance[i] - x.reserve[i]]
           L == Shares(x, surplus)
           seeded == IF x.totalSupply = 0 THEN InternalMint(x, Dead, MinimumLiquidity) ELSE x
           v == InternalMint(seeded, to, L)
           new == Minted(x, to, feeOn)
<1>1. /\ x \in PairRecord /\ x.token = pr.token /\ x.reserve = pr.reserve /\ x.balance = pr.balance
      /\ x.lp[Dex] = pr.lp[Dex] /\ Shared(x) /\ Seeded(x) /\ (~feeOn => x.kLast = 0)
  BY DEF FeeTaken
<1>2. /\ x.reserve[0] \in Nat /\ x.reserve[1] \in Nat /\ x.balance[0] \in Nat /\ x.balance[1] \in Nat
      /\ x.totalSupply \in Nat /\ x.balance \in [Side -> Nat] /\ Product(x.balance) \in Nat
      /\ Product(x.reserve) \in Nat /\ x.lp \in [Holder -> Nat] /\ x.kLast \in Nat
  BY <1>1, PairTyped
<1>3. x.reserve[0] <= x.balance[0] /\ x.reserve[1] <= x.balance[1]
  BY <1>1 DEF Worthy, Backed, Side
<1>4. /\ surplus \in [Side -> Nat] /\ surplus[0] = x.balance[0] - x.reserve[0]
      /\ surplus[1] = x.balance[1] - x.reserve[1]
  BY <1>2, <1>3 DEF Side
<1>5. new = [v EXCEPT !.reserve = x.balance, !.kLast = IF feeOn THEN Product(x.balance) ELSE x.kLast]
  BY DEF Minted
<1>6. L > 0
  OBVIOUS
<1>7. L \in Nat /\ seeded \in PairRecord /\ Shared(seeded) => /\ v \in PairRecord /\ Shared(v)
                        /\ v.lp = [seeded.lp EXCEPT ![to] = @ + L]
                        /\ v.totalSupply = seeded.totalSupply + L
                        /\ v.token = seeded.token /\ v.balance = seeded.balance
  <2> SUFFICES ASSUME L \in Nat, seeded \in PairRecord, Shared(seeded)
               PROVE /\ v \in PairRecord /\ Shared(v)
                     /\ v.lp = [seeded.lp EXCEPT ![to] = @ + L]
                     /\ v.totalSupply = seeded.totalSupply + L
                     /\ v.token = seeded.token /\ v.balance = seeded.balance
    OBVIOUS
  <2> HIDE DEF L, seeded
  <2>1. v \in PairRecord /\ Shared(v)
    BY Holders, MintedSum
  <2>2. v = [seeded EXCEPT !.totalSupply = @ + L, !.lp = [seeded.lp EXCEPT ![to] = @ + L]]
    BY DEF InternalMint, PairRecord
  <2> HIDE DEF v
  <2> QED
    BY <2>1, <2>2 DEF PairRecord
<1>8. ASSUME L \in Nat, seeded \in PairRecord, Shared(seeded), seeded.lp[Dead] > 0,
             seeded.lp[Dex] = pr.lp[Dex], seeded.token = pr.token, seeded.balance = pr.balance
      PROVE /\ new \in PairRecord /\ Shared(new)
            /\ new.reserve = x.balance /\ new.balance = x.balance /\ new.token = pr.token
            /\ new.totalSupply = seeded.totalSupply + L /\ new.totalSupply > 0
            /\ new.lp[Dead] > 0 /\ new.lp[Dex] = pr.lp[Dex]
            /\ new.kLast = IF feeOn THEN Product(new.balance) ELSE 0
  <2> DEFINE k == IF feeOn THEN Product(x.balance) ELSE x.kLast
  <2>1. k \in Nat
    BY <1>2
  <2>2. k = IF feeOn THEN Product(x.balance) ELSE 0
    BY <1>1
  <2> HIDE DEF k, seeded, L, v
  <2>3. /\ v \in PairRecord /\ Shared(v) /\ v.lp = [seeded.lp EXCEPT ![to] = @ + L]
        /\ v.totalSupply = seeded.totalSupply + L /\ v.token = seeded.token /\ v.balance = seeded.balance
    BY <1>7, <1>8
  <2>4. new = [v EXCEPT !.reserve = x.balance, !.kLast = k]
    BY <1>5 DEF k
  <2>5. seeded.lp \in [Holder -> Nat] /\ seeded.totalSupply \in Nat
    BY <1>8, PairTyped
  <2>6. v.lp[Dead] > 0 /\ v.lp[Dex] = pr.lp[Dex]
    BY <1>8, <2>3, <2>5, Holders
  <2> HIDE DEF new
  <2>7. /\ new \in PairRecord /\ new.reserve = x.balance /\ new.kLast = k /\ new.lp = v.lp
        /\ new.totalSupply = v.totalSupply /\ new.token = v.token /\ new.balance = v.balance
    BY <1>2, <2>1, <2>3, <2>4 DEF PairRecord
  <2>8. Shared(new)
    BY <2>3, <2>7 DEF Shared
  <2>9. new.totalSupply > 0
    BY <1>6, <1>8, <2>3, <2>5, <2>7 DEF L
  <2> QED
    BY <1>1, <1>8, <2>2, <2>3, <2>6, <2>7, <2>8, <2>9
<1>9. CASE x.totalSupply > 0
  <2>1. seeded = x
    BY <1>9
  <2>2. x.reserve[0] > 0 /\ x.reserve[1] > 0 /\ x.lp[Dead] > 0
    BY <1>1, <1>9 DEF Seeded, Side
  <2>3. L \in Nat /\ L * x.reserve[0] <= surplus[0] * x.totalSupply
        /\ L * x.reserve[1] <= surplus[1] * x.totalSupply
    BY <1>1, <1>4, <1>9, <2>2, SharesIs DEF Side
  <2>4. /\ new \in PairRecord /\ Shared(new)
        /\ new.reserve = x.balance /\ new.balance = x.balance /\ new.token = pr.token
        /\ new.totalSupply = x.totalSupply + L /\ new.totalSupply > 0
        /\ new.lp[Dead] > 0 /\ new.lp[Dex] = pr.lp[Dex]
        /\ new.kLast = IF feeOn THEN Product(new.balance) ELSE 0
    BY <1>1, <1>8, <2>1, <2>2, <2>3
  <2> HIDE DEF L, new, seeded, v
  <2>5. (x.totalSupply + L) * x.reserve[0] <= x.totalSupply * x.balance[0]
    <3>1. (x.totalSupply + L) * x.reserve[0] = x.totalSupply * x.reserve[0] + L * x.reserve[0]
      BY <1>2, <2>3
    <3>2. x.totalSupply * x.balance[0] = x.totalSupply * x.reserve[0] + surplus[0] * x.totalSupply
      BY <1>2, <1>4
    <3>3. x.totalSupply * x.reserve[0] \in Nat /\ L * x.reserve[0] \in Nat /\ surplus[0] * x.totalSupply \in Nat
      BY <1>2, <1>3, <1>4, <2>3, TimesMonotone
    <3> HIDE DEF surplus
    <3> QED
      BY <2>3, <3>1, <3>2, <3>3
  <2>6. (x.totalSupply + L) * x.reserve[1] <= x.totalSupply * x.balance[1]
    <3>1. (x.totalSupply + L) * x.reserve[1] = x.totalSupply * x.reserve[1] + L * x.reserve[1]
      BY <1>2, <2>3
    <3>2. x.totalSupply * x.balance[1] = x.totalSupply * x.reserve[1] + surplus[1] * x.totalSupply
      BY <1>2, <1>4
    <3>3. x.totalSupply * x.reserve[1] \in Nat /\ L * x.reserve[1] \in Nat /\ surplus[1] * x.totalSupply \in Nat
      BY <1>2, <1>3, <1>4, <2>3, TimesMonotone
    <3> HIDE DEF surplus
    <3> QED
      BY <2>3, <3>1, <3>2, <3>3
  <2>7. Square(new.totalSupply) * Product(x.reserve) <= Square(x.totalSupply) * Product(new.reserve)
    <3>1. x.totalSupply + L \in Nat
      BY <1>2, <2>3
    <3>2. ((x.totalSupply + L) * (x.totalSupply + L)) * (x.reserve[0] * x.reserve[1])
             <= (x.totalSupply * x.totalSupply) * (x.balance[0] * x.balance[1])
      BY <1>2, <2>5, <2>6, <3>1, BothSides
    <3> QED
      BY <2>4, <3>2 DEF Square, Product
  <2>8. new.reserve[0] > 0 /\ new.reserve[1] > 0
    BY <1>2, <1>3, <2>2, <2>4
  <2>9. Better(pr, feeOn, new)
    BY <1>9, <2>4, <2>7, <2>8, Revalued
  <2> QED
    BY <1>1, <2>4, <2>9 DEF new
<1>10. CASE x.totalSupply = 0
  <2>1. seeded = InternalMint(x, Dead, 1)
    BY <1>10 DEF MinimumLiquidity
  <2>2. seeded \in PairRecord /\ Shared(seeded)
    <3>1. 1 \in Nat /\ Dead \in Holder
      BY Holders
    <3> HIDE DEF seeded
    <3> QED
      BY <1>1, <2>1, <3>1, MintedSum
  <2>3. seeded = [x EXCEPT !.totalSupply = @ + 1, !.lp = [x.lp EXCEPT ![Dead] = @ + 1]]
    <3> HIDE DEF seeded
    <3> QED
      BY <1>1, <2>1 DEF InternalMint, PairRecord
  <2>4. L = Root(Product(surplus)) - 1 /\ Product(surplus) \in Nat
    <3>1. Product(surplus) \in Nat
      BY <1>4, TimesMonotone DEF Product, Side
    <3>2. L = IF Product(surplus) >= 0 THEN Root(Product(surplus)) - 1 ELSE 0
      BY <1>10 DEF Shares, MinimumLiquidity
    <3> QED
      BY <3>1, <3>2
  <2>5. Root(Product(surplus)) \in Nat /\ Root(Product(surplus)) * Root(Product(surplus)) <= Product(surplus)
    BY <2>4, RootIs
  <2> DEFINE T == Root(Product(surplus))
  <2>6. L \in Nat /\ T = L + 1
    <3> HIDE DEF T, L
    <3> QED
      BY <1>6, <2>4, <2>5 DEF T, L
  <2>7. /\ seeded.lp[Dead] > 0 /\ seeded.lp[Dex] = pr.lp[Dex] /\ seeded.token = pr.token
        /\ seeded.balance = pr.balance /\ seeded.totalSupply = 1
    <3> HIDE DEF seeded
    <3>1. seeded.lp = [x.lp EXCEPT ![Dead] = @ + 1] /\ seeded.totalSupply = 1
          /\ seeded.token = x.token /\ seeded.balance = x.balance
      BY <1>1, <1>10, <2>3 DEF PairRecord
    <3> QED
      BY <1>1, <1>2, <3>1, Holders
  <2>8. /\ new \in PairRecord /\ Shared(new)
        /\ new.reserve = x.balance /\ new.balance = x.balance /\ new.token = pr.token
        /\ new.totalSupply = seeded.totalSupply + L /\ new.totalSupply > 0
        /\ new.lp[Dead] > 0 /\ new.lp[Dex] = pr.lp[Dex]
        /\ new.kLast = IF feeOn THEN Product(new.balance) ELSE 0
    BY <1>8, <2>2, <2>6, <2>7
  <2>9. new.totalSupply = T
    <3> HIDE DEF T, L, new, seeded, v
    <3> QED
      BY <2>6, <2>7, <2>8
  <2>10. surplus[0] > 0 /\ surplus[1] > 0
    <3>1. T * T > 0
      <4>1. T > 0
        BY <1>6, <2>6
      <4> QED
        BY <2>5, <4>1, SquarePositive DEF Square
    <3>2. surplus[0] * surplus[1] > 0
      <4>1. surplus[0] * surplus[1] = Product(surplus) /\ T * T <= Product(surplus) /\ T \in Nat /\ T * T \in Nat
        BY <2>5, TimesMonotone DEF Product
      <4> HIDE DEF T, surplus
      <4> QED
        BY <2>4, <3>1, <4>1
    <3>3. surplus[0] \in Nat /\ surplus[1] \in Nat
      BY <1>4 DEF Side
    <3> HIDE DEF surplus
    <3> QED
      BY <3>2, <3>3
  <2>11. Product(surplus) <= Product(x.balance)
    <3>1. surplus[0] \in Nat /\ surplus[1] \in Nat /\ surplus[0] <= x.balance[0] /\ surplus[1] <= x.balance[1]
      BY <1>2, <1>3, <1>4 DEF Side
    <3> HIDE DEF surplus
    <3> QED
      BY <1>2, <3>1, TimesMonotone DEF Product
  <2>12. Square(new.totalSupply) <= Product(new.reserve)
    <3>1. Square(new.totalSupply) = T * T /\ T * T \in Nat /\ T * T <= Product(surplus)
      BY <2>5, <2>9, TimesMonotone DEF Square
    <3> HIDE DEF T, new, surplus
    <3> QED
      BY <1>2, <2>4, <2>8, <2>11, <3>1
  <2>13. new.reserve[0] > 0 /\ new.reserve[1] > 0
    <3> HIDE DEF new
    <3> QED
      BY <1>2, <1>3, <1>4, <2>8, <2>10
  <2> HIDE DEF T, L, new, seeded, v
  <2>14. Backed(new)
    BY <1>2, <2>8 DEF Backed
  <2>15. Seeded(new)
    BY <2>8, <2>12, <2>13 DEF Seeded, Side
  <2>16. Charged(new)
    <3>1. Product(x.balance) <= Product(x.balance)
      BY <1>2
    <3>2. new.kLast # 0 => new.kLast = Product(x.balance)
      BY <2>8
    <3> QED
      BY <2>8, <2>12, <3>1, <3>2 DEF Charged
  <2>17. ~(pr.totalSupply > 0) /\ pr.kLast = 0
    <3>1. x.totalSupply >= pr.totalSupply /\ pr.totalSupply \in Nat
      BY PairTyped DEF FeeTaken
    <3>2. ~(pr.totalSupply > 0)
      BY <1>2, <1>10, <3>1
    <3> QED
      BY <3>2 DEF Worthy, Charged
  <2>18. Better(pr, feeOn, new)
    BY <2>8, <2>14, <2>15, <2>16, <2>17 DEF Better, Worthy
  <2> QED
    BY <1>1, <2>8, <2>18 DEF new
<1> QED
  BY <1>2, <1>9, <1>10

\* A pair whose supply and kLast stay and whose product does not fall is no worse.
LEMMA BetterIdle ==
  ASSUME NEW pr \in PairRecord, Worthy(pr), NEW feeOn \in BOOLEAN, NEW new \in PairRecord, Worthy(new),
         new.totalSupply = pr.totalSupply, new.kLast = pr.kLast,
         Product(pr.reserve) <= Product(new.reserve)
  PROVE  Better(pr, feeOn, new)
<1>1. /\ Floor(pr, feeOn) \in Nat /\ Floor(pr, feeOn) <= Product(pr.reserve)
  BY FloorIs
<1>2. /\ Product(pr.reserve) \in Nat /\ Product(new.reserve) \in Nat /\ Square(pr.totalSupply) \in Nat
      /\ pr.kLast \in Nat
  BY PairTyped
<1>3. Floor(pr, feeOn) <= Product(new.reserve)
  BY <1>1, <1>2
<1>4. Floor(pr, feeOn) * Square(pr.totalSupply) <= Product(new.reserve) * Square(pr.totalSupply)
  BY <1>1, <1>2, <1>3, TimesMonotone
<1>5. pr.kLast * Square(pr.totalSupply) <= pr.kLast * Square(pr.totalSupply)
  BY <1>2, TimesMonotone
<1> QED
  BY <1>4, <1>5 DEF Better

\* what a call leaves
Improves(s, r) == Good(r) /\ \A p \in Pair : Better(s.pairs[p], s.feeOn, r.pairs[p])

LEMMA BetterSame ==
  ASSUME NEW pr \in PairRecord, Worthy(pr), NEW feeOn \in BOOLEAN PROVE Better(pr, feeOn, pr)
<1>1. Product(pr.reserve) <= Product(pr.reserve)
  BY PairTyped
<1> QED
  BY <1>1, BetterIdle

\* only pair p is touched, and not its tokens
Only(s, r, p) ==
    /\ r.num = s.num /\ \A q \in Pair \ {p} : r.pairs[q] = s.pairs[q]
    /\ r.pairs[p].token = s.pairs[p].token

\* A call that touches one pair is judged by that pair and by the account.
LEMMA StepOfOne ==
  ASSUME NEW s, Good(s), NEW r \in State, NEW p \in Pair, Only(s, r, p),
         Better(s.pairs[p], s.feeOn, r.pairs[p]), Covered(r), p <= s.num
  PROVE  Improves(s, r)
<1>1. \A q \in Pair : Better(s.pairs[q], s.feeOn, r.pairs[q])
  <2>1. \A q \in Pair : s.pairs[q] \in PairRecord /\ Worthy(s.pairs[q]) /\ s.feeOn \in BOOLEAN
    BY StateTyped DEF Good
  <2> QED
    BY <2>1, BetterSame DEF Only
<1>2. \A q \in Pair : Worthy(r.pairs[q])
  BY <1>1 DEF Better
<1>3. Listed(r)
  <2>1. s.num \in Nat
    BY StateTyped DEF Good
  <2>2. ASSUME NEW q \in Pair
        PROVE IF q <= r.num
              THEN r.pairs[q].token[0] # r.pairs[q].token[1] /\ \A i \in Side : r.pairs[q].token[i] \in Token
              ELSE \A i \in Side : r.pairs[q].token[i] = 0 /\ r.pairs[q].balance[i] = 0
    <3>1. CASE q = p
      BY <2>1, <3>1 DEF Good, Listed, Only
    <3>2. CASE q # p
      BY <2>1, <3>2 DEF Good, Listed, Only
    <3> QED
      BY <3>1, <3>2
  <2> QED
    BY <2>2 DEF Listed
<1> QED
  BY <1>1, <1>2, <1>3 DEF Improves, Good, Only

\* The account covers its pairs after a call that synchronises pair p.
LEMMA CoveredSynced ==
  ASSUME NEW s, Good(s), NEW r \in State, NEW p \in Pair, Only(s, r, p), p <= s.num,
         \A i \in Side : LET t == s.pairs[p].token[i] IN
            /\ r.synced[t] = r.bal[t][Dex]
            /\ s.synced[t] + r.pairs[p].balance[i] <= r.bal[t][Dex] + s.pairs[p].balance[i],
         \A t \in Token : (\A i \in Side : s.pairs[p].token[i] # t) =>
            r.synced[t] = s.synced[t] /\ r.bal[t][Dex] >= s.bal[t][Dex]
  PROVE  Covered(r)
<1>1. s \in State /\ Covered(s)
  BY DEF Good
<1>2. s.pairs[p].token[0] # s.pairs[p].token[1] /\ \A i \in Side : s.pairs[p].token[i] \in Token
  BY DEF Good, Listed
<1>3. /\ \A q \in Pair, i \in Side : s.pairs[q].balance[i] \in Nat /\ r.pairs[q].balance[i] \in Nat
  BY <1>1, StateTyped, PairTyped
<1>4. \A q \in Pair, i \in Side : r.pairs[q].token[i] = s.pairs[q].token[i]
  BY DEF Only
<1>5. \A q \in Pair \ {p}, i \in Side : r.pairs[q].balance[i] = s.pairs[q].balance[i]
  BY DEF Only
<1>6. ASSUME NEW t \in Token PROVE Pooled(r, t) <= r.synced[t] /\ r.synced[t] <= r.bal[t][Dex]
  <2>1. /\ Pooled(s, t) \in Nat /\ Pooled(r, t) \in Nat
        /\ \A i \in Side : s.pairs[p].token[i] = t /\ s.pairs[p].token[1 - i] # t =>
              Pooled(r, t) = Pooled(s, t) - s.pairs[p].balance[i] + r.pairs[p].balance[i]
        /\ (\A i \in Side : s.pairs[p].token[i] # t) => Pooled(r, t) = Pooled(s, t)
    BY <1>3, <1>4, <1>5, PooledOfOne, ZenonT(30)
  <2>2. /\ Pooled(s, t) <= s.synced[t] /\ s.synced[t] <= s.bal[t][Dex]
        /\ s.synced[t] \in Nat /\ r.synced[t] \in Nat /\ s.bal[t][Dex] \in Nat /\ r.bal[t][Dex] \in Nat
    BY <1>1, StateTyped, Holders DEF Covered
  <2>3. CASE \A i \in Side : s.pairs[p].token[i] # t
    <3>1. r.synced[t] = s.synced[t] /\ r.bal[t][Dex] >= s.bal[t][Dex]
      BY <2>3
    <3> QED
      BY <2>1, <2>2, <2>3, <3>1
  <2>4. ASSUME NEW i \in Side, s.pairs[p].token[i] = t PROVE Pooled(r, t) <= r.synced[t] /\ r.synced[t] <= r.bal[t][Dex]
    <3>1. s.pairs[p].token[1 - i] # t
      <4>1. CASE i = 0
        BY <1>2, <2>4, <4>1
      <4>2. CASE i = 1
        BY <1>2, <2>4, <4>2
      <4> QED
        BY <4>1, <4>2 DEF Side
    <3>2. Pooled(r, t) = Pooled(s, t) - s.pairs[p].balance[i] + r.pairs[p].balance[i]
      BY <2>1, <2>4, <3>1
    <3>3. r.synced[t] = r.bal[t][Dex] /\ s.synced[t] + r.pairs[p].balance[i] <= r.bal[t][Dex] + s.pairs[p].balance[i]
      BY <2>4
    <3>4. s.pairs[p].balance[i] \in Nat /\ r.pairs[p].balance[i] \in Nat
      BY <1>3
    <3> QED
      BY <2>1, <2>2, <3>2, <3>3, <3>4, SMTT(90)
  <2> QED
    BY <2>3, <2>4
<1> QED
  BY <1>6 DEF Covered

--------------------------------------------------------------------------------
(* Tokens.                                                                   *)

\* no pair is touched
LEMMA StepOfTokens ==
  ASSUME NEW s, Good(s), NEW r \in State, r.num = s.num, r.pairs = s.pairs, r.synced = s.synced,
         \A t \in Token : r.bal[t][Dex] >= s.bal[t][Dex]
  PROVE  Improves(s, r)
<1>1. \A t : Pooled(r, t) = Pooled(s, t)
  BY PooledSame
<1>2. Covered(r)
  <2>1. ASSUME NEW t \in Token PROVE Pooled(r, t) <= r.synced[t] /\ r.synced[t] <= r.bal[t][Dex]
    <3>1. s.synced[t] \in Nat /\ s.bal[t][Dex] \in Nat /\ r.bal[t][Dex] \in Nat
      BY StateTyped, Holders DEF Good
    <3>2. Pooled(s, t) <= s.synced[t] /\ s.synced[t] <= s.bal[t][Dex]
      BY DEF Good, Covered
    <3> QED
      BY <1>1, <3>1, <3>2
  <2> QED
    BY <2>1 DEF Covered
<1>3. \A q \in Pair : s.pairs[q] \in PairRecord /\ Worthy(s.pairs[q]) /\ s.feeOn \in BOOLEAN
  BY StateTyped DEF Good
<1>4. \A q \in Pair : Better(s.pairs[q], s.feeOn, r.pairs[q])
  BY <1>3, BetterSame
<1>5. Listed(r)
  BY DEF Good, Listed
<1> QED
  BY <1>2, <1>3, <1>4, <1>5 DEF Improves, Good

\* what a transfer does
Transferred(s, r, t, from, to, n) ==
    /\ r \in State /\ r.num = s.num /\ r.pairs = s.pairs /\ r.feeOn = s.feeOn /\ r.synced = s.synced
    /\ r.appr = s.appr
    /\ \A u \in Token \ {t} : r.bal[u] = s.bal[u]
    /\ \A h \in Holder : r.bal[t][h] = s.bal[t][h] - (IF h = from THEN n ELSE 0) + (IF h = to THEN n ELSE 0)

LEMMA TransferIs ==
  ASSUME NEW s \in State, NEW t \in Token, NEW from \in Holder, NEW to \in Holder, NEW n \in Nat,
         NEW r \in Transfer(s, t, from, to, n)
  PROVE  Transferred(s, r, t, from, to, n) /\ n > 0 /\ s.bal[t][from] >= n
<1>1. n > 0 /\ s.bal[t][from] >= n /\ r = [s EXCEPT !.bal[t] = Move(@, from, to, n)]
  BY DEF Transfer
<1>2. s.bal \in [Token -> [Holder -> Nat]]
  BY StateTyped
<1> DEFINE m == Move(s.bal[t], from, to, n)
<1>3. /\ m \in [Holder -> Nat]
      /\ \A h \in Holder : m[h] = s.bal[t][h] - (IF h = from THEN n ELSE 0) + (IF h = to THEN n ELSE 0)
  BY <1>1, <1>2, MoveIs
<1>4. r = [s EXCEPT !.bal = [s.bal EXCEPT ![t] = m]]
  BY <1>1 DEF State
<1> HIDE DEF m
<1>5. [s.bal EXCEPT ![t] = m] \in [Token -> [Holder -> Nat]]
  BY <1>2, <1>3
<1>6. /\ r \in State /\ r.num = s.num /\ r.pairs = s.pairs /\ r.feeOn = s.feeOn /\ r.synced = s.synced
      /\ r.appr = s.appr /\ r.bal = [s.bal EXCEPT ![t] = m]
  BY <1>4, <1>5 DEF State
<1> QED
  BY <1>1, <1>2, <1>3, <1>6 DEF Transferred

\* A token transfer of a signer.
LEMMA TransferStep ==
  ASSUME NEW s, Good(s), NEW t \in Token, NEW from \in Account, NEW to \in Holder, NEW n \in Nat,
         NEW r \in Transfer(s, t, from, to, n)
  PROVE  Improves(s, r)
<1>1. s \in State /\ from \in Holder /\ from # Dex
  BY Holders DEF Good
<1>2. Transferred(s, r, t, from, to, n)
  BY <1>1, TransferIs
<1>3. ASSUME NEW u \in Token PROVE r.bal[u][Dex] >= s.bal[u][Dex]
  <2>1. s.bal[u][Dex] \in Nat
    BY <1>1, StateTyped, Holders
  <2>2. CASE u = t
    BY <1>1, <1>2, <2>1, <2>2, Holders DEF Transferred
  <2>3. CASE u # t
    BY <1>2, <2>1, <2>3 DEF Transferred
  <2> QED
    BY <2>2, <2>3
<1> QED
  BY <1>2, <1>3, StepOfTokens DEF Transferred

\* An approval changes nothing else.
LEMMA ApproveStep ==
  ASSUME NEW s, Good(s), NEW t \in Token, NEW holder \in Holder, NEW spender \in Holder, NEW n \in Nat,
         NEW r, r = [s EXCEPT !.appr[t][<<holder, spender>>] = n]
  PROVE  Improves(s, r) /\ r.bal = s.bal /\ r.pairs = s.pairs /\ r.num = s.num /\ r.synced = s.synced
         /\ r.feeOn = s.feeOn
<1>1. s \in State /\ s.appr \in [Token -> [Holder \X Holder -> Nat]]
  BY StateTyped DEF Good
<1>2. r = [s EXCEPT !.appr = [s.appr EXCEPT ![t] = [s.appr[t] EXCEPT ![<<holder, spender>>] = n]]]
  BY <1>1 DEF State
<1>3. [s.appr EXCEPT ![t] = [s.appr[t] EXCEPT ![<<holder, spender>>] = n]] \in [Token -> [Holder \X Holder -> Nat]]
  BY <1>1
<1>4. r \in State /\ r.num = s.num /\ r.pairs = s.pairs /\ r.synced = s.synced /\ r.bal = s.bal
      /\ r.feeOn = s.feeOn
  BY <1>1, <1>2, <1>3 DEF State
<1>5. \A u \in Token : r.bal[u][Dex] >= s.bal[u][Dex]
  BY <1>1, <1>4, StateTyped, Holders
<1> QED
  BY <1>4, <1>5, StepOfTokens

\* Switching the fee changes no pair.
LEMMA FeeStep ==
  ASSUME NEW s, Good(s), NEW en \in BOOLEAN, NEW caller, NEW r \in EnableFee(s, caller, en)
  PROVE  Improves(s, r) /\ r.pairs = s.pairs /\ r.bal = s.bal /\ r.synced = s.synced /\ r.num = s.num
<1>1. s \in State
  BY DEF Good
<1>2. r = [s EXCEPT !.feeOn = en]
  BY DEF EnableFee
<1>3. r \in State /\ r.num = s.num /\ r.pairs = s.pairs /\ r.synced = s.synced /\ r.bal = s.bal
  BY <1>1, <1>2 DEF State
<1>4. \A u \in Token : r.bal[u][Dex] >= s.bal[u][Dex]
  BY <1>1, <1>3, StateTyped, Holders
<1> QED
  BY <1>3, <1>4, StepOfTokens

--------------------------------------------------------------------------------
(* Shares.                                                                   *)

\* r is s with another record for pair p
Replaced(s, r, p, new) ==
    /\ r \in State /\ r.num = s.num /\ r.synced = s.synced /\ r.bal = s.bal /\ r.appr = s.appr
    /\ r.feeOn = s.feeOn /\ r.pairs[p] = new /\ \A q \in Pair \ {p} : r.pairs[q] = s.pairs[q]

LEMMA ReplacedIs ==
  ASSUME NEW s \in State, NEW p \in Pair, NEW new \in PairRecord
  PROVE  Replaced(s, [s EXCEPT !.pairs = [s.pairs EXCEPT ![p] = new]], p, new)
<1> DEFINE m == [s.pairs EXCEPT ![p] = new]
           r == [s EXCEPT !.pairs = m]
<1>1. m \in [Pair -> PairRecord] /\ m[p] = new /\ \A q \in Pair \ {p} : m[q] = s.pairs[q]
  BY StateTyped
<1> HIDE DEF m
<1>2. /\ r \in State /\ r.num = s.num /\ r.synced = s.synced /\ r.bal = s.bal /\ r.appr = s.appr
      /\ r.feeOn = s.feeOn /\ r.pairs = m
  BY <1>1 DEF State
<1> QED
  BY <1>1, <1>2 DEF Replaced, m

\* Shares change hands, or are approved, within one pair.
LEMMA StepOfShares ==
  ASSUME NEW s, Good(s), NEW p \in Pair, NEW new \in PairRecord, NEW r,
         Replaced(s, r, p, new),
         new.token = s.pairs[p].token, new.reserve = s.pairs[p].reserve,
         new.balance = s.pairs[p].balance, new.totalSupply = s.pairs[p].totalSupply,
         new.kLast = s.pairs[p].kLast, new.lp[Dead] = s.pairs[p].lp[Dead], Shared(new)
  PROVE  Improves(s, r)
<1> DEFINE pr == s.pairs[p]
<1>1. s \in State /\ Worthy(pr) /\ s.feeOn \in BOOLEAN /\ pr \in PairRecord
      /\ s.pairs \in [Pair -> PairRecord]
  BY StateTyped DEF Good
<1>3. /\ r \in State /\ r.num = s.num /\ r.synced = s.synced /\ r.bal = s.bal
  BY DEF Replaced
<1>4. r.pairs[p] = new /\ \A q \in Pair \ {p} : r.pairs[q] = s.pairs[q]
  BY DEF Replaced
<1>5. Worthy(new)
  BY <1>1 DEF Worthy, Backed, Seeded, Charged
<1>6. Better(pr, s.feeOn, new)
  <2>1. Product(pr.reserve) <= Product(new.reserve)
    BY <1>1, PairTyped
  <2> QED
    BY <1>1, <1>5, <2>1, BetterIdle
<1>7. \A q \in Pair : Better(s.pairs[q], s.feeOn, r.pairs[q])
  <2>1. ASSUME NEW q \in Pair PROVE Better(s.pairs[q], s.feeOn, r.pairs[q])
    <3>1. CASE q = p
      BY <1>4, <1>6, <3>1
    <3>2. CASE q # p
      <4>1. s.pairs[q] \in PairRecord /\ Worthy(s.pairs[q]) /\ r.pairs[q] = s.pairs[q]
        BY <1>1, <1>4, <3>2 DEF Good
      <4> QED
        BY <1>1, <4>1, BetterSame
    <3> QED
      BY <3>1, <3>2
  <2> QED
    BY <2>1
<1>8. \A q \in Pair : Worthy(r.pairs[q])
  BY <1>7 DEF Better
<1>9. \A q \in Pair : r.pairs[q].token = s.pairs[q].token /\ r.pairs[q].balance = s.pairs[q].balance
  BY <1>4
<1>10. \A t : Pooled(r, t) = Pooled(s, t)
  <2>1. \A q \in Pair, i \in Side : r.pairs[q].token[i] = s.pairs[q].token[i]
                                    /\ r.pairs[q].balance[i] = s.pairs[q].balance[i]
    BY <1>9
  <2> QED
    BY <2>1, PooledSame
<1>11. Covered(r)
  BY <1>3, <1>10 DEF Good, Covered
<1>12. Listed(r)
  BY <1>3, <1>9 DEF Good, Listed
<1> QED
  BY <1>3, <1>4, <1>7, <1>8, <1>11, <1>12 DEF Improves, Good

\* What a transfer of shares does to the pair.
LEMMA LiqTransferIs ==
  ASSUME NEW s \in State, NEW p \in Pair, NEW from \in Account, NEW to \in Holder, NEW n \in Nat,
         Shared(s.pairs[p]),
         NEW r \in LiqTransfer(s, p, from, to, n)
  PROVE  \E new \in PairRecord :
            /\ Replaced(s, r, p, new)
            /\ new.token = s.pairs[p].token /\ new.reserve = s.pairs[p].reserve
            /\ new.balance = s.pairs[p].balance /\ new.totalSupply = s.pairs[p].totalSupply
            /\ new.kLast = s.pairs[p].kLast /\ new.lp[Dead] >= s.pairs[p].lp[Dead]
            /\ (to # Dead => new.lp[Dead] = s.pairs[p].lp[Dead]) /\ Shared(new)
            /\ new.lp[Dex] = s.pairs[p].lp[Dex] + (IF to = Dex THEN n ELSE 0)
            /\ n > 0
<1> DEFINE pr == s.pairs[p]
           m == Move(pr.lp, from, to, n)
           new == [pr EXCEPT !.lp = m]
<1>1. pr \in PairRecord /\ pr.lp \in [Holder -> Nat] /\ s.pairs \in [Pair -> PairRecord]
  BY StateTyped, PairTyped
<1>2. n > 0 /\ pr.lp[from] >= n /\ r = [s EXCEPT !.pairs[p].lp = Move(@, from, to, n)]
  BY DEF LiqTransfer
<1>3. r = [s EXCEPT !.pairs = [s.pairs EXCEPT ![p] = [s.pairs[p] EXCEPT !.lp = m]]]
  BY <1>2 DEF State
<1>4. from \in Holder /\ from # Dex /\ from # Dead
  BY Holders
<1>5. /\ m \in [Holder -> Nat]
      /\ \A h \in Holder : m[h] = pr.lp[h] - (IF h = from THEN n ELSE 0) + (IF h = to THEN n ELSE 0)
  BY <1>1, <1>2, <1>4, MoveIs
<1>6. SumFunction(m) = SumFunction(pr.lp)
  BY <1>1, <1>2, <1>4, MoveSum
<1> HIDE DEF m
<1>7. new \in PairRecord /\ new.lp = m /\ new.token = pr.token /\ new.reserve = pr.reserve
      /\ new.balance = pr.balance /\ new.totalSupply = pr.totalSupply /\ new.kLast = pr.kLast
  BY <1>1, <1>5 DEF PairRecord
<1>8. m[Dead] = pr.lp[Dead] + (IF Dead = to THEN n ELSE 0) /\ m[Dex] = pr.lp[Dex] + (IF to = Dex THEN n ELSE 0)
      /\ pr.lp[Dead] \in Nat
  BY <1>1, <1>4, <1>5, Holders
<1>9. Shared(new)
  BY <1>6, <1>7 DEF Shared
<1>10. new.lp[Dead] >= pr.lp[Dead]
  BY <1>7, <1>8
<1>11. to # Dead => new.lp[Dead] = pr.lp[Dead]
  BY <1>7, <1>8
<1>12. Replaced(s, r, p, new)
  <2>1. r = [s EXCEPT !.pairs = [s.pairs EXCEPT ![p] = new]]
    BY <1>3
  <2> HIDE DEF new
  <2> QED
    BY <1>7, <2>1, ReplacedIs
<1> HIDE DEF new
<1> QED
  BY <1>2, <1>7, <1>8, <1>9, <1>10, <1>11, <1>12

LEMMA LiqTransferStep ==
  ASSUME NEW s, Good(s), NEW p \in Pair, NEW from \in Account, NEW to \in Holder, to # Dead, NEW n \in Nat,
         NEW r \in LiqTransfer(s, p, from, to, n)
  PROVE  Improves(s, r)
<1>1. s \in State /\ Shared(s.pairs[p])
  BY DEF Good, Worthy
<1> QED
  BY <1>1, LiqTransferIs, StepOfShares

\* An allowance of shares.
LEMMA LiqApproveStep ==
  ASSUME NEW s, Good(s), NEW p \in Pair, NEW holder \in Holder, NEW spender \in Holder, NEW n \in Nat,
         NEW r \in LiqApprove(s, p, holder, spender, n)
  PROVE  /\ Improves(s, r) /\ r.num = s.num /\ r.synced = s.synced /\ r.bal = s.bal
         /\ \A q \in Pair : /\ r.pairs[q].token = s.pairs[q].token /\ r.pairs[q].balance = s.pairs[q].balance
                            /\ r.pairs[q].reserve = s.pairs[q].reserve /\ r.pairs[q].lp = s.pairs[q].lp
<1> DEFINE pr == s.pairs[p]
           new == [pr EXCEPT !.allowance = [pr.allowance EXCEPT ![<<holder, spender>>] = n]]
<1>1. s \in State /\ Shared(pr) /\ pr \in PairRecord /\ pr.allowance \in [Holder \X Holder -> Nat]
      /\ s.pairs \in [Pair -> PairRecord]
  BY StateTyped, PairTyped DEF Good, Worthy
<1>2. r = [s EXCEPT !.pairs = [s.pairs EXCEPT ![p] = new]]
  <2>1. r = [s EXCEPT !.pairs[p].allowance[<<holder, spender>>] = n]
    BY DEF LiqApprove
  <2> QED
    BY <1>1, <2>1 DEF State, PairRecord
<1>3. new \in PairRecord /\ new.lp = pr.lp /\ new.token = pr.token /\ new.reserve = pr.reserve
      /\ new.balance = pr.balance /\ new.totalSupply = pr.totalSupply /\ new.kLast = pr.kLast
  BY <1>1 DEF PairRecord
<1> HIDE DEF new
<1>4. Shared(new)
  BY <1>1, <1>3 DEF Shared
<1>5. Improves(s, r) /\ Replaced(s, r, p, new)
  <2>1. new.lp[Dead] = pr.lp[Dead]
    BY <1>3
  <2> QED
    BY <1>1, <1>2, <1>3, <1>4, <2>1, ReplacedIs, StepOfShares
<1> QED
  BY <1>3, <1>5 DEF Replaced

\* A spender moves shares to the contract's own account.
LEMMA LiqTransferFromStep ==
  ASSUME NEW s, Good(s), NEW p \in Pair, NEW spender \in Holder, NEW holder \in Account, NEW n \in Nat,
         NEW r \in LiqTransferFrom(s, p, spender, holder, Dex, n)
  PROVE  /\ Improves(s, r) /\ r.num = s.num /\ r.synced = s.synced /\ r.bal = s.bal
         /\ \A q \in Pair : /\ r.pairs[q].token = s.pairs[q].token /\ r.pairs[q].balance = s.pairs[q].balance
                            /\ r.pairs[q].reserve = s.pairs[q].reserve
                            /\ (q # p => r.pairs[q].lp = s.pairs[q].lp)
<1> DEFINE pr == s.pairs[p]
           spent == [pr EXCEPT !.allowance = [pr.allowance EXCEPT ![<<holder, spender>>] = @ - n]]
           half == [s EXCEPT !.pairs = [s.pairs EXCEPT ![p] = spent]]
<1>1. s \in State /\ Shared(pr) /\ pr \in PairRecord /\ pr.allowance \in [Holder \X Holder -> Nat]
      /\ s.pairs \in [Pair -> PairRecord]
  BY StateTyped, PairTyped DEF Good, Worthy
<1>2. <<holder, spender>> \in Holder \X Holder
  BY Holders
<1>3. pr.allowance[<<holder, spender>>] >= n /\ r \in LiqTransfer(half, p, holder, Dex, n)
  <2>1. [s EXCEPT !.pairs[p].allowance[<<spender, holder>>] = @ - n]
           = [s EXCEPT !.pairs[p].allowance[<<spender, holder>>] = @ - n]
    OBVIOUS
  <2>2. half = [s EXCEPT !.pairs[p].allowance[<<holder, spender>>] = @ - n]
    BY <1>1 DEF State, PairRecord
  <2> HIDE DEF half
  <2> QED
    BY <2>2 DEF LiqTransferFrom
<1>4. [pr.allowance EXCEPT ![<<holder, spender>>] = @ - n] \in [Holder \X Holder -> Nat]
  <2>1. pr.allowance[<<holder, spender>>] \in Nat
    BY <1>1, <1>2
  <2>2. pr.allowance[<<holder, spender>>] - n \in Nat
    BY <1>3, <2>1
  <2> QED
    BY <1>1, <2>2
<1>5. spent \in PairRecord /\ spent.lp = pr.lp /\ spent.token = pr.token /\ spent.reserve = pr.reserve
      /\ spent.balance = pr.balance /\ spent.totalSupply = pr.totalSupply /\ spent.kLast = pr.kLast
  BY <1>1, <1>4 DEF PairRecord
<1> HIDE DEF spent
<1>6. Shared(spent)
  BY <1>1, <1>5 DEF Shared
<1>7. half \in State /\ Replaced(s, half, p, spent) /\ half.pairs[p] = spent
  BY <1>1, <1>5, ReplacedIs DEF Replaced
<1>8. PICK new \in PairRecord :
            /\ Replaced(half, r, p, new)
            /\ new.token = half.pairs[p].token /\ new.reserve = half.pairs[p].reserve
            /\ new.balance = half.pairs[p].balance /\ new.totalSupply = half.pairs[p].totalSupply
            /\ new.kLast = half.pairs[p].kLast /\ new.lp[Dead] >= half.pairs[p].lp[Dead]
            /\ (Dex # Dead => new.lp[Dead] = half.pairs[p].lp[Dead]) /\ Shared(new)
            /\ new.lp[Dex] = half.pairs[p].lp[Dex] + (IF Dex = Dex THEN n ELSE 0)
            /\ n > 0
  <2>1. Dex \in Holder /\ Shared(half.pairs[p])
    BY <1>6, <1>7, Holders
  <2> HIDE DEF half
  <2> QED
    BY <1>3, <1>7, <2>1, LiqTransferIs
<1>9. Replaced(s, r, p, new)
  <2> HIDE DEF half
  <2> QED
    BY <1>7, <1>8 DEF Replaced
<1>10. /\ new.token = pr.token /\ new.reserve = pr.reserve
       /\ new.balance = pr.balance /\ new.totalSupply = pr.totalSupply
       /\ new.kLast = pr.kLast /\ new.lp[Dead] = pr.lp[Dead] /\ Shared(new)
  <2> HIDE DEF half
  <2> QED
    BY <1>5, <1>7, <1>8, Holders
<1> HIDE DEF half
<1>11. Improves(s, r)
  BY <1>9, <1>10, StepOfShares
<1> QED
  BY <1>9, <1>10, <1>11 DEF Replaced

--------------------------------------------------------------------------------
(* The first state, and new pairs.                                           *)

\* A sum of zeros is zero.
LEMMA SumZero ==
  ASSUME NEW f, NEW S, IsFiniteSet(S), \A x \in S : f[x] = 0
  PROVE  SumFunctionOnSet(f, S) = 0
<1> DEFINE T == {n \in Nat : \E s \in SUBSET S : Cardinality(s) = n /\ SumFunctionOnSet(f, s) # 0}
<1>1. SUFFICES ASSUME T # {} PROVE FALSE
  BY FS_CardinalityType
<1>2. PICK m \in T : \A y \in T : m <= y
  BY <1>1, LeastNumber
<1>3. PICK s \in SUBSET S : Cardinality(s) = m /\ SumFunctionOnSet(f, s) # 0
  BY <1>2
<1>4. s # {} /\ IsFiniteSet(s)
  <2>1. SumFunctionOnSet(f, {}) = 0
    BY SumEmpty
  <2> QED
    BY <1>3, <2>1, FS_Subset
<1>5. Pick(s) \in s
  BY <1>4, PickIn
<1>6. Cardinality(s \ {Pick(s)}) = m - 1 /\ m - 1 \in Nat
  BY <1>3, <1>4, <1>5, Smaller
<1>7. SumFunctionOnSet(f, s \ {Pick(s)}) = 0
  BY <1>2, <1>6
<1> QED
  BY <1>3, <1>4, <1>5, <1>7, SumPicks

LEMMA SlotsFinite == \A s, t : IsFiniteSet(Slots(s, t))
<1>1. \A s, t : Slots(s, t) \subseteq Pair \X Side
  BY DEF Slots
<1> QED
  BY <1>1, PairsFinite, FS_Subset

\* The invariant holds of the empty contract.
LEMMA InitGood == Good(InitState)
<1> DEFINE s == InitState
<1>1. EmptyPair \in PairRecord
  BY DEF EmptyPair, PairRecord
<1>2. s \in State
  BY <1>1, AmountAssumption DEF InitState, State
<1>3. \A p \in Pair : s.pairs[p] = EmptyPair
  BY DEF InitState
<1>4. s.num = 0 /\ \A t \in Token : s.synced[t] = 0 /\ s.bal[t][Dex] = 0
  BY Holders DEF InitState
<1> HIDE DEF s
<1>5. \A p \in Pair : ~(p <= s.num)
  BY <1>4 DEF Pair
<1>6. Listed(s)
  BY <1>3, <1>5 DEF Listed, EmptyPair
<1>7. Covered(s)
  <2>1. ASSUME NEW t \in Token PROVE Pooled(s, t) = 0
    <3>1. \A x \in Slots(s, t) : Held(s)[x] = 0
      BY <1>3 DEF Slots, Held, EmptyPair
    <3> QED
      BY <3>1, SlotsFinite, SumZero DEF Pooled
  <2> QED
    BY <1>4, <2>1 DEF Covered
<1>8. Worthy(EmptyPair)
  <2>1. /\ EmptyPair.totalSupply = 0 /\ EmptyPair.kLast = 0
        /\ EmptyPair.lp = [h \in Holder |-> 0]
        /\ \A i \in Side : EmptyPair.reserve[i] = 0 /\ EmptyPair.balance[i] = 0
    BY DEF EmptyPair
  <2>2. SumFunction(EmptyPair.lp) = 0
    <3>1. \A h \in Holder : EmptyPair.lp[h] = 0
      BY <2>1
    <3>2. SumFunctionOnSet(EmptyPair.lp, Holder) = 0
      BY <3>1, Holders, SumZero
    <3>3. DOMAIN EmptyPair.lp = Holder
      BY <2>1
    <3> QED
      BY <3>2, <3>3 DEF SumFunction
  <2> QED
    BY <2>1, <2>2 DEF Worthy, Backed, Shared, Seeded, Charged
<1>9. \A p \in Pair : Worthy(s.pairs[p])
  BY <1>3, <1>8
<1>10. s.num <= MaxPairs
  BY <1>4, AmountAssumption
<1> QED
  BY <1>2, <1>6, <1>7, <1>9, <1>10 DEF Good, s

\* A new pair is empty.
LEMMA CreatePairStep ==
  ASSUME NEW s, Good(s), NEW t \in Token, NEW u \in Token, NEW r \in CreatePair(s, t, u)
  PROVE  /\ Improves(s, r) /\ r.num = s.num + 1 /\ r.bal = s.bal /\ r.synced = s.synced /\ r.appr = s.appr
         /\ \A q \in Pair : /\ r.pairs[q].reserve = s.pairs[q].reserve
                            /\ r.pairs[q].balance = s.pairs[q].balance /\ r.pairs[q].lp = s.pairs[q].lp
         /\ \A v \in Token : Pooled(r, v) = Pooled(s, v)
<1> DEFINE p == s.num + 1
           pr == s.pairs[p]
           new == [pr EXCEPT !.token = Sides(t, u)]
           half == [s EXCEPT !.pairs = [s.pairs EXCEPT ![p] = new]]
<1>1. /\ s \in State /\ s.num \in Nat /\ s.feeOn \in BOOLEAN /\ s.pairs \in [Pair -> PairRecord]
      /\ t \in Nat /\ u \in Nat /\ t # 0 /\ u # 0
  BY StateTyped, TokenAssumption DEF Good
<1>2. t < u /\ p \in Pair
  BY DEF CreatePair
<1>3. r = [s EXCEPT !.num = p, !.pairs[p].token = Sides(t, u)]
  <2>1. r = [s EXCEPT !.num = @ + 1, !.pairs[s.num + 1].token = Sides(t, u)]
    BY DEF CreatePair
  <2> QED
    BY <1>1, <2>1 DEF State
<1>4. r = [half EXCEPT !.num = p]
  <2>1. [s EXCEPT !.num = p, !.pairs[p].token = Sides(t, u)] = [half EXCEPT !.num = p]
    BY <1>1 DEF State
  <2> QED
    BY <1>3, <2>1
<1>5. pr \in PairRecord /\ Worthy(pr)
  BY <1>1, <1>2, StateTyped DEF Good
<1>6. Sides(t, u) \in [Side -> Token \cup {0}] /\ Sides(t, u)[0] = t /\ Sides(t, u)[1] = u
  BY DEF Sides, Side
<1>7. /\ new \in PairRecord /\ new.token = Sides(t, u) /\ new.reserve = pr.reserve /\ new.lp = pr.lp
      /\ new.balance = pr.balance /\ new.totalSupply = pr.totalSupply /\ new.kLast = pr.kLast
  BY <1>5, <1>6 DEF PairRecord
<1> HIDE DEF new
<1>8. half \in State /\ Replaced(s, half, p, new)
  <2> HIDE DEF p
  <2> QED
    BY <1>1, <1>2, <1>7, ReplacedIs DEF Replaced
<1>9. r \in State /\ r.num = p /\ r.pairs = half.pairs /\ r.bal = s.bal /\ r.synced = s.synced
      /\ r.appr = s.appr /\ r.feeOn = s.feeOn
  <2>1. p \in Nat
    BY <1>1
  <2> HIDE DEF half, p
  <2>2. r.num = p /\ r.pairs = half.pairs /\ r.bal = half.bal /\ r.synced = half.synced
        /\ r.appr = half.appr /\ r.feeOn = half.feeOn
    BY <1>4, <1>8, <2>1 DEF State
  <2>3. r \in State
    BY <1>4, <1>8, <2>1 DEF State
  <2> QED
    BY <1>8, <2>2, <2>3 DEF Replaced
<1>10. r.pairs[p] = new /\ \A q \in Pair \ {p} : r.pairs[q] = s.pairs[q]
  BY <1>8, <1>9 DEF Replaced
<1> HIDE DEF half
<1>11. \A i \in Side : pr.token[i] = 0 /\ pr.balance[i] = 0
  <2>1. ~(p <= s.num)
    BY <1>1
  <2> HIDE DEF p
  <2> QED
    BY <1>2, <2>1 DEF Good, Listed
<1>12. Worthy(new)
  BY <1>5, <1>7 DEF Worthy, Backed, Shared, Seeded, Charged
<1>13. Better(pr, s.feeOn, new)
  <2>1. Product(pr.reserve) <= Product(new.reserve)
    BY <1>5, <1>7, PairTyped
  <2> QED
    BY <1>1, <1>5, <1>7, <1>12, <2>1, BetterIdle
<1>14. \A q \in Pair : Better(s.pairs[q], s.feeOn, r.pairs[q])
  <2>1. ASSUME NEW q \in Pair PROVE Better(s.pairs[q], s.feeOn, r.pairs[q])
    <3>1. CASE q = p
      BY <1>10, <1>13, <3>1
    <3>2. CASE q # p
      <4>1. s.pairs[q] \in PairRecord /\ Worthy(s.pairs[q]) /\ r.pairs[q] = s.pairs[q]
        BY <1>1, <1>10, <3>2 DEF Good
      <4> QED
        BY <1>1, <4>1, BetterSame
    <3> QED
      BY <3>1, <3>2
  <2> QED
    BY <2>1
<1>15. \A q \in Pair : Worthy(r.pairs[q])
  BY <1>14 DEF Better
<1>16. \A q \in Pair : /\ r.pairs[q].reserve = s.pairs[q].reserve
                       /\ r.pairs[q].balance = s.pairs[q].balance /\ r.pairs[q].lp = s.pairs[q].lp
  BY <1>7, <1>10
<1>17. Listed(r)
  <2>1. ASSUME NEW q \in Pair
        PROVE IF q <= p
              THEN r.pairs[q].token[0] # r.pairs[q].token[1] /\ \A i \in Side : r.pairs[q].token[i] \in Token
              ELSE \A i \in Side : r.pairs[q].token[i] = 0 /\ r.pairs[q].balance[i] = 0
    <3>1. CASE q = p
      <4>1. q <= p
        BY <1>1, <3>1
      <4>2. r.pairs[q].token = Sides(t, u)
        BY <1>7, <1>10, <3>1
      <4> QED
        BY <1>1, <1>2, <1>6, <4>1, <4>2 DEF Side
    <3>2. CASE q # p
      <4>1. r.pairs[q] = s.pairs[q]
        BY <1>10, <3>2
      <4>2. (q <= p) <=> (q <= s.num)
        BY <1>1, <3>2 DEF Pair
      <4> HIDE DEF p
      <4> QED
        BY <4>1, <4>2 DEF Good, Listed
    <3> QED
      BY <3>1, <3>2
  <2> QED
    BY <1>9, <2>1 DEF Listed
<1>18. ASSUME NEW v \in Token PROVE Pooled(r, v) = Pooled(s, v)
  <2> DEFINE S == Slots(s, v)
             R == Slots(r, v)
             f == Held(s)
  <2>1. Held(r) = f
    BY <1>16 DEF Held
  <2>2. IsFiniteSet(R) /\ IsFiniteSet(S) /\ \A x \in R : f[x] \in Nat
    <3>1. \A q \in Pair, i \in Side : s.pairs[q].balance[i] \in Nat
      BY <1>1, StateTyped, PairTyped
    <3>2. \A x \in Pair \X Side : f[x] \in Nat
      BY <3>1 DEF Held
    <3>3. R \subseteq Pair \X Side
      BY DEF Slots
    <3>4. IsFiniteSet(R) /\ IsFiniteSet(S)
      BY SlotsFinite
    <3> HIDE DEF R, S, f
    <3> QED
      BY <3>2, <3>3, <3>4
  <2>3. v # 0
    BY TokenAssumption
  <2>4. \A i \in Side : <<p, i>> \notin S
    BY <1>11, <2>3 DEF Slots
  <2>5. ASSUME NEW q \in Pair, NEW i \in Side, q # p PROVE <<q, i>> \in R <=> <<q, i>> \in S
    BY <1>10, <2>5 DEF Slots
  <2>6. \A i \in Side : <<p, i>> \in R <=> Sides(t, u)[i] = v
    BY <1>2, <1>7, <1>10 DEF Slots
  <2>7. CASE v # t /\ v # u
    <3>1. \A i \in Side : <<p, i>> \notin R
      BY <1>6, <2>6, <2>7 DEF Side
    <3>2. R = S
      BY <2>4, <2>5, <3>1 DEF Slots
    <3> QED
      BY <2>1, <3>2 DEF Pooled
  <2>8. ASSUME NEW i \in Side, Sides(t, u)[i] = v PROVE Pooled(r, v) = Pooled(s, v)
    <3>1. <<p, i>> \in R /\ f[<<p, i>>] = 0
      BY <1>2, <1>11, <2>6, <2>8 DEF Held
    <3>2. \A j \in Side : j # i => <<p, j>> \notin R
      BY <1>1, <1>2, <1>6, <2>6, <2>8 DEF Side
    <3>3. R \ {<<p, i>>} = S
      BY <2>4, <2>5, <3>2 DEF Slots
    <3>4. SumFunctionOnSet(f, S) \in Nat
      <4>1. \A x \in S : f[x] \in Nat
        BY <2>2, <3>3
      <4> QED
        BY <2>2, <4>1, SumType
    <3>5. SumFunctionOnSet(f, R) = f[<<p, i>>] + SumFunctionOnSet(f, R \ {<<p, i>>})
      <4> HIDE DEF R, f, S
      <4> QED
        BY <2>2, <3>1, SumAdds
    <3>6. SumFunctionOnSet(f, R) = SumFunctionOnSet(f, S)
      <4> HIDE DEF R, f, S
      <4> QED
        BY <3>1, <3>3, <3>4, <3>5
    <3> QED
      BY <2>1, <3>6 DEF Pooled
  <2> QED
    BY <1>6, <2>7, <2>8 DEF Side
<1>19. Covered(r)
  BY <1>9, <1>18 DEF Good, Covered
<1>20. Good(r)
  <2>1. p <= MaxPairs
    BY <1>2 DEF Pair
  <2> QED
    BY <1>9, <1>15, <1>17, <1>19, <2>1 DEF Good
<1> QED
  BY <1>9, <1>14, <1>16, <1>18, <1>20 DEF Improves

--------------------------------------------------------------------------------
(* sync, update, mint.                                                       *)

\* What sync, update and the end of mint and burn change.
LEMMA SyncIs ==
  ASSUME NEW s \in State, NEW p \in Pair
  PROVE  LET r == Sync(s, p) IN
         /\ r \in State /\ r.num = s.num /\ r.pairs = s.pairs /\ r.bal = s.bal /\ r.appr = s.appr
         /\ r.feeOn = s.feeOn
         /\ \A t \in Token : r.synced[t] =
               IF \E i \in Side : s.pairs[p].token[i] = t THEN s.bal[t][Dex] ELSE s.synced[t]
<1> DEFINE m == [t \in Token |->
                    IF \E i \in Side : s.pairs[p].token[i] = t THEN s.bal[t][Dex] ELSE s.synced[t]]
           r == Sync(s, p)
<1>1. m \in [Token -> Nat]
  <2>1. s.synced \in [Token -> Nat] /\ s.bal \in [Token -> [Holder -> Nat]] /\ Dex \in Holder
    BY StateTyped, Holders
  <2>2. ASSUME NEW t \in Token PROVE s.bal[t][Dex] \in Nat /\ s.synced[t] \in Nat
    BY <2>1
  <2> QED
    BY <2>2
<1>2. \A t \in Token : m[t] =
         IF \E i \in Side : s.pairs[p].token[i] = t THEN s.bal[t][Dex] ELSE s.synced[t]
  OBVIOUS
<1>3. r = [s EXCEPT !.synced = m]
  BY DEF Sync, State
<1> HIDE DEF m, r
<1>4. /\ r \in State /\ r.num = s.num /\ r.pairs = s.pairs /\ r.bal = s.bal /\ r.appr = s.appr
      /\ r.feeOn = s.feeOn /\ r.synced = m
  BY <1>1, <1>3 DEF State
<1>5. /\ r \in State /\ r.num = s.num /\ r.pairs = s.pairs /\ r.bal = s.bal /\ r.appr = s.appr
      /\ r.feeOn = s.feeOn
      /\ \A t \in Token : r.synced[t] =
            IF \E i \in Side : s.pairs[p].token[i] = t THEN s.bal[t][Dex] ELSE s.synced[t]
  BY <1>2, <1>4
<1> QED
  BY <1>5 DEF r

LEMMA UpdateIs ==
  ASSUME NEW s \in State, NEW p \in Pair, NEW r \in Update(s, p)
  PROVE  Replaced(s, r, p, [s.pairs[p] EXCEPT !.reserve = s.pairs[p].balance])
<1> DEFINE pr == s.pairs[p]
           new == [pr EXCEPT !.reserve = pr.balance]
<1>1. r = [s EXCEPT !.pairs[p].reserve = s.pairs[p].balance]
  BY DEF Update
<1>2. r = [s EXCEPT !.pairs = [s.pairs EXCEPT ![p] = new]]
  BY <1>1 DEF State
<1>3. new \in PairRecord
  <2>1. pr \in PairRecord
    BY StateTyped
  <2>2. pr.balance \in [Side -> Nat]
    BY <2>1, PairTyped
  <2> QED
    BY <2>1, <2>2 DEF PairRecord
<1> HIDE DEF new
<1>4. Replaced(s, r, p, new)
  BY <1>2, <1>3, ReplacedIs
<1> QED
  BY <1>4 DEF new

\* the record that a call leaves when it takes the balances over and notes the product
Closed(pr, feeOn) ==
    [pr EXCEPT !.reserve = pr.balance, !.kLast = IF feeOn THEN Product(pr.balance) ELSE @]

LEMMA ClosedIs ==
  ASSUME NEW pr \in PairRecord, NEW feeOn \in BOOLEAN
  PROVE  LET new == Closed(pr, feeOn) IN
         /\ new \in PairRecord /\ new.token = pr.token /\ new.reserve = pr.balance
         /\ new.balance = pr.balance /\ new.lp = pr.lp /\ new.totalSupply = pr.totalSupply
         /\ new.kLast = IF feeOn THEN Product(pr.balance) ELSE pr.kLast
<1> DEFINE k == IF feeOn THEN Product(pr.balance) ELSE pr.kLast
           new == Closed(pr, feeOn)
<1>1. k \in Nat /\ pr.balance \in [Side -> Nat]
  BY PairTyped
<1>2. new = [pr EXCEPT !.reserve = pr.balance, !.kLast = k]
  BY DEF Closed, PairRecord
<1>3. k = IF feeOn THEN Product(pr.balance) ELSE pr.kLast
  OBVIOUS
<1> HIDE DEF k, new
<1>4. /\ new \in PairRecord /\ new.token = pr.token /\ new.reserve = pr.balance
      /\ new.balance = pr.balance /\ new.lp = pr.lp /\ new.totalSupply = pr.totalSupply
      /\ new.kLast = k
  BY <1>1, <1>2 DEF PairRecord
<1> QED
  BY <1>3, <1>4 DEF new

\* all of a call of pair p that ends in a sync; the token ledger may have changed before
Synchronised(s, r, p) ==
    /\ \A i \in Side : r.synced[s.pairs[p].token[i]] = r.bal[s.pairs[p].token[i]][Dex]
    /\ \A t \in Token : (\A i \in Side : s.pairs[p].token[i] # t) => r.synced[t] = s.synced[t]

LEMMA CloseIs ==
  ASSUME NEW s \in State, NEW p \in Pair, \A i \in Side : s.pairs[p].token[i] \in Token,
         NEW v \in Update(s, p)
  PROVE  LET r == SetKLast(Sync(v, p), p) IN
         /\ r \in State /\ r.num = s.num /\ r.bal = s.bal /\ r.appr = s.appr /\ r.feeOn = s.feeOn
         /\ r.pairs[p] = Closed(s.pairs[p], s.feeOn)
         /\ \A q \in Pair \ {p} : r.pairs[q] = s.pairs[q]
         /\ Synchronised(s, r, p)
<1> DEFINE pr == s.pairs[p]
           up == [pr EXCEPT !.reserve = pr.balance]
           w == Sync(v, p)
           r == SetKLast(w, p)
<1>1. pr \in PairRecord /\ s.feeOn \in BOOLEAN
  BY StateTyped
<1>2. Replaced(s, v, p, up)
  BY UpdateIs
<1>3. up \in PairRecord /\ up.token = pr.token /\ up.balance = pr.balance
  BY <1>1, PairTyped DEF PairRecord
<1>4. v \in State /\ v.pairs[p] = up
  BY <1>2 DEF Replaced
<1>5. /\ w \in State /\ w.num = v.num /\ w.pairs = v.pairs /\ w.bal = v.bal /\ w.appr = v.appr
      /\ w.feeOn = v.feeOn
      /\ \A t \in Token : w.synced[t] =
            IF \E i \in Side : v.pairs[p].token[i] = t THEN v.bal[t][Dex] ELSE v.synced[t]
  BY <1>4, SyncIs
<1>6. /\ r \in State /\ r.num = s.num /\ r.bal = s.bal /\ r.appr = s.appr /\ r.feeOn = s.feeOn
      /\ r.pairs[p] = Closed(s.pairs[p], s.feeOn)
      /\ \A q \in Pair \ {p} : r.pairs[q] = s.pairs[q]
      /\ r.synced = w.synced
  <2>1. CASE s.feeOn
    <3> DEFINE new == [up EXCEPT !.kLast = Product(up.balance)]
    <3>1. w.feeOn /\ w.pairs[p] = up
      BY <1>2, <1>4, <1>5, <2>1 DEF Replaced
    <3>2. r = [w EXCEPT !.pairs = [w.pairs EXCEPT ![p] = new]]
      <4>1. r = [w EXCEPT !.pairs[p].kLast = Product(w.pairs[p].balance)]
        BY <3>1 DEF SetKLast
      <4> HIDE DEF w, r
      <4> QED
        BY <1>5, <3>1, <4>1 DEF State
    <3>3. new \in PairRecord
      BY <1>1, <1>3, PairTyped DEF PairRecord
    <3>4. new = Closed(pr, s.feeOn)
      BY <1>1, <1>3, <2>1 DEF Closed, PairRecord
    <3> HIDE DEF new, w, r
    <3>5. Replaced(w, r, p, new)
      BY <1>5, <3>2, <3>3, ReplacedIs
    <3> QED
      BY <1>2, <1>5, <3>4, <3>5 DEF Replaced
  <2>2. CASE ~s.feeOn
    <3>1. r = w
      BY <1>2, <1>5, <2>2 DEF SetKLast, Replaced
    <3>2. up = Closed(pr, s.feeOn)
      BY <1>1, <2>2 DEF Closed, PairRecord
    <3> QED
      BY <1>2, <1>5, <3>1, <3>2 DEF Replaced
  <2> QED
    BY <1>1, <2>1, <2>2
<1> HIDE DEF r, w
<1>7. Synchronised(s, r, p)
  BY <1>2, <1>3, <1>4, <1>5, <1>6 DEF Synchronised, Replaced
<1> QED
  BY <1>6, <1>7 DEF r, w

\* the tokens of a listed pair
LEMMA TokensOf ==
  ASSUME NEW s, Good(s), NEW p \in Pair, p <= s.num
  PROVE  /\ s.pairs[p].token[0] # s.pairs[p].token[1]
         /\ \A i \in Side : s.pairs[p].token[i] \in Token /\ s.pairs[p].token[1 - i] # s.pairs[p].token[i]
BY DEF Good, Listed, Side

\* A pair that holds something is listed.
LEMMA HoldsListed ==
  ASSUME NEW s, Good(s), NEW p \in Pair, NEW i \in Side, s.pairs[p].balance[i] > 0
  PROVE  p <= s.num
<1>1. ~(p <= s.num) => s.pairs[p].balance[i] = 0
  BY DEF Good, Listed
<1> QED
  BY <1>1

\* sync2 credits to the pair what the account has beyond what is known of it.
LEMMA Sync2Step ==
  ASSUME NEW s, Good(s), NEW p \in Pair, NEW r \in Sync2(s, p)
  PROVE  /\ Improves(s, r) /\ Only(s, r, p) /\ Synchronised(s, r, p) /\ p <= s.num
         /\ r.bal = s.bal /\ r.feeOn = s.feeOn
         /\ r.pairs[p].reserve = s.pairs[p].reserve /\ r.pairs[p].lp = s.pairs[p].lp
         /\ \A i \in Side : LET t == s.pairs[p].token[i] IN
               /\ r.pairs[p].balance[i] = s.pairs[p].balance[i] + s.bal[t][Dex] - s.synced[t]
               /\ s.synced[t] + r.pairs[p].balance[i] = s.bal[t][Dex] + s.pairs[p].balance[i]
<1> DEFINE pr == s.pairs[p]
           b == [i \in Side |-> pr.balance[i] + (s.bal[pr.token[i]][Dex] - s.synced[pr.token[i]])]
           new == [pr EXCEPT !.balance = b]
           half == [s EXCEPT !.pairs = [s.pairs EXCEPT ![p] = new]]
<1>1. s \in State /\ pr \in PairRecord /\ Worthy(pr) /\ s.feeOn \in BOOLEAN
      /\ s.pairs \in [Pair -> PairRecord] /\ pr.balance \in [Side -> Nat] /\ pr.reserve \in [Side -> Nat]
  BY StateTyped, PairTyped DEF Good
<1>2. p <= s.num /\ \A i \in Side : s.bal[pr.token[i]][Dex] - s.synced[pr.token[i]] >= 0
  BY DEF Sync2
<1>3. /\ pr.token[0] # pr.token[1]
      /\ \A i \in Side : pr.token[i] \in Token /\ pr.token[1 - i] # pr.token[i]
  BY <1>2, TokensOf
<1>4. \A i \in Side : s.bal[pr.token[i]][Dex] \in Nat /\ s.synced[pr.token[i]] \in Nat /\ pr.balance[i] \in Nat
                      /\ pr.reserve[i] \in Nat
  BY <1>1, <1>3, StateTyped, Holders
<1>5. b \in [Side -> Nat] /\ \A i \in Side : /\ b[i] = pr.balance[i] + s.bal[pr.token[i]][Dex] - s.synced[pr.token[i]]
                                             /\ b[i] >= pr.balance[i]
  BY <1>2, <1>4, SMTT(90)
<1>6. r = Sync(half, p)
  <2> DEFINE m == [t \in Token |-> IF \E i \in Side : pr.token[i] = t THEN s.bal[t][Dex] ELSE s.synced[t]]
  <2>1. r = [s EXCEPT !.pairs[p].balance = b, !.synced = m]
    <3>1. r = [s EXCEPT !.pairs[p].balance = [i \in Side |-> @[i] + (s.bal[pr.token[i]][Dex] - s.synced[pr.token[i]])],
                      !.synced = [t \in Token |->
                            IF \E i \in Side : pr.token[i] = t THEN s.bal[t][Dex] ELSE @[t]]]
      BY DEF Sync2
    <3> QED
      BY <1>1, <3>1 DEF State, PairRecord
  <2>2. half.pairs[p].token = pr.token /\ half.bal = s.bal /\ half.synced = s.synced
    BY <1>1 DEF State, PairRecord
  <2>3. Sync(half, p) = [half EXCEPT !.synced = m]
    <3> HIDE DEF half
    <3>1. Sync(half, p) = [half EXCEPT !.synced = [t \in Token |->
                            IF \E i \in Side : pr.token[i] = t THEN s.bal[t][Dex] ELSE @[t]]]
      BY <2>2 DEF Sync
    <3> QED
      BY <2>2, <3>1
  <2>4. [s EXCEPT !.pairs[p].balance = b, !.synced = m] = [half EXCEPT !.synced = m]
    <3> HIDE DEF b, m
    <3> QED
      BY <1>1 DEF State, PairRecord
  <2> QED
    BY <2>1, <2>3, <2>4
<1> HIDE DEF b
<1>7. /\ new \in PairRecord /\ new.token = pr.token /\ new.reserve = pr.reserve /\ new.lp = pr.lp
      /\ new.balance = b /\ new.totalSupply = pr.totalSupply /\ new.kLast = pr.kLast
  BY <1>1, <1>5 DEF PairRecord
<1> HIDE DEF new
<1>8. half \in State /\ Replaced(s, half, p, new) /\ half.pairs[p] = new
  BY <1>1, <1>7, ReplacedIs DEF Replaced
<1> HIDE DEF half
<1>9. /\ r \in State /\ r.num = half.num /\ r.pairs = half.pairs /\ r.bal = half.bal /\ r.appr = half.appr
      /\ r.feeOn = half.feeOn
      /\ \A t \in Token : r.synced[t] =
            IF \E i \in Side : half.pairs[p].token[i] = t THEN half.bal[t][Dex] ELSE half.synced[t]
  BY <1>6, <1>8, SyncIs
<1>10. r.pairs[p] = new /\ r.bal = s.bal /\ r.feeOn = s.feeOn /\ Only(s, r, p)
  BY <1>7, <1>8, <1>9 DEF Replaced, Only
<1>11. \A t \in Token : r.synced[t] = IF \E i \in Side : pr.token[i] = t THEN s.bal[t][Dex] ELSE s.synced[t]
  BY <1>7, <1>8, <1>9 DEF Replaced
<1>12. Synchronised(s, r, p)
  BY <1>3, <1>10, <1>11 DEF Synchronised
<1>13. Backed(new)
  BY <1>1, <1>4, <1>5, <1>7, SMTT(90) DEF Worthy, Backed
<1>14. Worthy(new)
  BY <1>1, <1>7, <1>13 DEF Worthy, Shared, Seeded, Charged
<1>15. Better(pr, s.feeOn, new)
  <2>1. Product(pr.reserve) <= Product(new.reserve)
    BY <1>1, <1>7, PairTyped
  <2> QED
    BY <1>1, <1>7, <1>14, <2>1, BetterIdle
<1>16. \A i \in Side : LET t == pr.token[i] IN
          /\ r.pairs[p].balance[i] = pr.balance[i] + s.bal[t][Dex] - s.synced[t]
          /\ s.synced[t] + r.pairs[p].balance[i] = s.bal[t][Dex] + pr.balance[i]
  BY <1>4, <1>5, <1>7, <1>10, SMTT(90)
<1>17. Covered(r)
  <2>1. \A i \in Side : LET t == s.pairs[p].token[i] IN
            /\ r.synced[t] = r.bal[t][Dex]
            /\ s.synced[t] + r.pairs[p].balance[i] <= r.bal[t][Dex] + s.pairs[p].balance[i]
    <3>1. ASSUME NEW i \in Side
          PROVE /\ r.synced[pr.token[i]] = r.bal[pr.token[i]][Dex]
                /\ s.synced[pr.token[i]] + r.pairs[p].balance[i] <= r.bal[pr.token[i]][Dex] + pr.balance[i]
      <4>1. s.bal[pr.token[i]][Dex] + pr.balance[i] \in Nat
        BY <1>4
      <4>2. s.synced[pr.token[i]] + r.pairs[p].balance[i] = s.bal[pr.token[i]][Dex] + pr.balance[i]
        BY <1>16
      <4>3. s.synced[pr.token[i]] + r.pairs[p].balance[i] <= s.bal[pr.token[i]][Dex] + pr.balance[i]
        BY <4>1, <4>2
      <4>4. r.synced[pr.token[i]] = r.bal[pr.token[i]][Dex] /\ r.bal = s.bal
        BY <1>10, <1>12 DEF Synchronised
      <4> QED
        BY <4>3, <4>4
    <3> QED
      BY <3>1
  <2>2. ASSUME NEW t \in Token, \A i \in Side : s.pairs[p].token[i] # t
        PROVE r.synced[t] = s.synced[t] /\ r.bal[t][Dex] >= s.bal[t][Dex]
    <3>1. s.bal[t][Dex] \in Nat
      BY <1>1, StateTyped, Holders
    <3> QED
      BY <1>10, <1>12, <2>2, <3>1 DEF Synchronised
  <2> QED
    BY <1>2, <1>9, <1>10, <2>1, <2>2, CoveredSynced, SMTT(90)
<1>18. Improves(s, r)
  BY <1>2, <1>9, <1>10, <1>15, <1>17, StepOfOne
<1> QED
  BY <1>2, <1>7, <1>10, <1>12, <1>16, <1>18

\* a call that ends in a sync and took the balances over, its payments made
Draws(s, r, p) ==
    /\ Only(s, r, p) /\ Synchronised(s, r, p) /\ r.pairs[p].reserve = r.pairs[p].balance
    /\ \A i \in Side : LET t == s.pairs[p].token[i] IN
          r.bal[t][Dex] + s.pairs[p].balance[i] = s.bal[t][Dex] + r.pairs[p].balance[i]
    /\ \A t \in Token : (\A i \in Side : s.pairs[p].token[i] # t) => r.bal[t][Dex] = s.bal[t][Dex]

\* Such a call keeps the account covered.
LEMMA DrawsStep ==
  ASSUME NEW s, Good(s), NEW r \in State, NEW p \in Pair, p <= s.num, Draws(s, r, p),
         Better(s.pairs[p], s.feeOn, r.pairs[p])
  PROVE  Improves(s, r)
<1> DEFINE pr == s.pairs[p]
<1>1. s \in State /\ Covered(s) /\ pr \in PairRecord
  BY StateTyped DEF Good
<1>2. \A i \in Side : pr.token[i] \in Token
  BY TokensOf
<1>3. Covered(r)
  <2>1. ASSUME NEW i \in Side
        PROVE LET t == s.pairs[p].token[i] IN
                /\ r.synced[t] = r.bal[t][Dex]
                /\ s.synced[t] + r.pairs[p].balance[i] <= r.bal[t][Dex] + s.pairs[p].balance[i]
    <3> DEFINE t == s.pairs[p].token[i]
    <3>1. s.bal[t][Dex] \in Nat /\ s.synced[t] \in Nat /\ r.bal[t][Dex] \in Nat /\ r.pairs[p].balance[i] \in Nat
          /\ pr.balance[i] \in Nat
      BY <1>1, <1>2, StateTyped, PairTyped, Holders
    <3>2. s.synced[t] <= s.bal[t][Dex]
      BY <1>1, <1>2 DEF Covered
    <3>3. r.synced[t] = r.bal[t][Dex] /\ r.bal[t][Dex] + s.pairs[p].balance[i] = s.bal[t][Dex] + r.pairs[p].balance[i]
      BY DEF Draws, Synchronised
    <3> HIDE DEF t
    <3>4. s.synced[t] + r.pairs[p].balance[i] <= r.bal[t][Dex] + s.pairs[p].balance[i]
      BY <3>1, <3>2, <3>3
    <3> QED
      BY <3>3, <3>4 DEF t
  <2>2. ASSUME NEW t \in Token, \A i \in Side : s.pairs[p].token[i] # t
        PROVE r.synced[t] = s.synced[t] /\ r.bal[t][Dex] >= s.bal[t][Dex]
    <3>1. s.bal[t][Dex] \in Nat
      BY <1>1, StateTyped, Holders
    <3> QED
      BY <2>2, <3>1 DEF Draws, Synchronised
  <2>3. Only(s, r, p)
    BY DEF Draws
  <2> QED
    BY <2>1, <2>2, <2>3, CoveredSynced
<1> QED
  BY <1>3, StepOfOne DEF Draws

\* A whole call of mint.
LEMMA MintStep ==
  ASSUME NEW s, Good(s), NEW p \in Pair, NEW to \in Account, NEW r \in Mint(s, p, to)
  PROVE  /\ Improves(s, r) /\ Draws(s, r, p) /\ r.bal = s.bal /\ p <= s.num /\ r.feeOn = s.feeOn
         /\ r.pairs[p].balance = s.pairs[p].balance /\ r.pairs[p].lp[Dex] = s.pairs[p].lp[Dex]
<1> DEFINE pr == s.pairs[p]
           x == MintFee(s, p)
           surplus == [i \in Side |-> x.balance[i] - x.reserve[i]]
           L == Shares(x, surplus)
           seeded == IF x.totalSupply = 0 THEN InternalMint(x, Dead, MinimumLiquidity) ELSE x
           y == InternalMint(seeded, to, L)
           minted == [s EXCEPT !.pairs[p] = y]
           new == Minted(x, to, s.feeOn)
<1>1. s \in State /\ pr \in PairRecord /\ Worthy(pr) /\ s.feeOn \in BOOLEAN
      /\ s.pairs \in [Pair -> PairRecord]
  BY StateTyped DEF Good
<1>2. L > 0 /\ \E v \in Update(minted, p) : r = SetKLast(Sync(v, p), p)
  BY DEF Mint
<1>3. PICK v \in Update(minted, p) : r = SetKLast(Sync(v, p), p)
  BY <1>2
<1>4. FeeTaken(pr, s.feeOn, x)
  BY <1>1, MintFeeTaken
<1>5. /\ Better(pr, s.feeOn, new) /\ new.token = pr.token /\ new.balance = pr.balance
      /\ new.reserve = pr.balance /\ new.lp[Dex] = pr.lp[Dex]
  BY <1>1, <1>2, <1>4, MintedBetter
<1>6. x \in PairRecord /\ x.token = pr.token /\ x.balance = pr.balance /\ x.reserve = pr.reserve /\ Shared(x)
      /\ (pr.totalSupply = 0 => x.totalSupply = 0) /\ Seeded(x)
  BY <1>4 DEF FeeTaken
<1>7. y \in PairRecord /\ y.token = pr.token /\ y.balance = pr.balance /\ y.kLast = x.kLast
  <2>1. L \in Nat
    <3>1. surplus \in [Side -> Nat]
      <4>1. \A i \in Side : x.balance[i] \in Nat /\ x.reserve[i] \in Nat /\ x.reserve[i] <= x.balance[i]
        BY <1>1, <1>6, PairTyped DEF Worthy, Backed
      <4> QED
        BY <4>1
    <3>2. CASE x.totalSupply = 0
      <4>1. Product(surplus) \in Nat
        BY <3>1, TimesMonotone DEF Product, Side
      <4>2. L = Root(Product(surplus)) - 1
        BY <3>2, <4>1 DEF Shares, MinimumLiquidity
      <4>3. Root(Product(surplus)) \in Nat
        BY <4>1, RootIs
      <4> HIDE DEF L
      <4> QED
        BY <1>2, <4>2, <4>3
    <3>3. CASE x.totalSupply # 0
      <4>1. x.totalSupply > 0
        BY <1>6, <3>3, PairTyped
      <4>2. x.reserve[0] > 0 /\ x.reserve[1] > 0
        BY <1>6, <4>1 DEF Seeded, Side
      <4> QED
        BY <1>6, <3>1, <4>1, <4>2, SharesIs
    <3> QED
      BY <3>2, <3>3
  <2>2. seeded \in PairRecord /\ Shared(seeded) /\ seeded.token = x.token /\ seeded.balance = x.balance
        /\ seeded.kLast = x.kLast
    <3>1. MinimumLiquidity \in Nat /\ Dead \in Holder
      BY Holders DEF MinimumLiquidity
    <3>2. InternalMint(x, Dead, MinimumLiquidity) \in PairRecord /\ Shared(InternalMint(x, Dead, MinimumLiquidity))
      BY <1>6, <3>1, MintedSum
    <3>3. InternalMint(x, Dead, MinimumLiquidity).token = x.token
          /\ InternalMint(x, Dead, MinimumLiquidity).balance = x.balance
          /\ InternalMint(x, Dead, MinimumLiquidity).kLast = x.kLast
      BY <1>6 DEF InternalMint, PairRecord
    <3> QED
      BY <1>6, <3>2, <3>3
  <2> HIDE DEF L, seeded
  <2>3. y \in PairRecord
    BY <2>1, <2>2, MintedSum, Holders
  <2>4. y.token = seeded.token /\ y.balance = seeded.balance /\ y.kLast = seeded.kLast
    BY <2>2 DEF InternalMint, PairRecord
  <2> QED
    BY <1>6, <2>2, <2>3, <2>4
<1>8. new = Closed(y, s.feeOn)
  <2>1. new = [y EXCEPT !.reserve = x.balance, !.kLast = IF s.feeOn THEN Product(x.balance) ELSE x.kLast]
    BY DEF Minted
  <2> HIDE DEF y, new
  <2> QED
    BY <1>6, <1>7, <2>1 DEF Closed, PairRecord
<1> HIDE DEF x, y, new, L
<1>9. minted \in State /\ Replaced(s, minted, p, y)
  BY <1>1, <1>7, ReplacedIs DEF Replaced
<1> HIDE DEF minted
<1>10. p <= s.num
  <2>1. CASE \E i \in Side : pr.balance[i] > 0
    BY <2>1, HoldsListed
  <2>2. CASE ~ \E i \in Side : pr.balance[i] > 0
    <3>1. \A i \in Side : pr.balance[i] \in Nat /\ pr.reserve[i] \in Nat
      BY <1>1, PairTyped
    <3>2. \A i \in Side : pr.balance[i] = 0 /\ pr.reserve[i] = 0
      BY <1>1, <2>2, <3>1 DEF Worthy, Backed
    <3>3. x.totalSupply = 0
      <4>1. pr.totalSupply \in Nat
        BY <1>1, PairTyped
      <4>2. ~(pr.totalSupply > 0)
        BY <1>1, <3>2 DEF Worthy, Seeded, Side
      <4> QED
        BY <1>6, <4>1, <4>2
    <3>4. surplus[0] = 0 /\ surplus[1] = 0
      BY <1>6, <3>2 DEF Side
    <3>5. Product(surplus) = 0
      BY <3>4 DEF Product
    <3>6. Root(0) = 0
      <4>1. Root(0) \in Nat /\ Root(0) * Root(0) <= 0
        BY RootIs
      <4> QED
        BY <4>1
    <3>7. L = 0 - 1
      <4> HIDE DEF surplus
      <4> QED
        BY <3>3, <3>5, <3>6 DEF Shares, MinimumLiquidity, L
    <3> QED
      BY <1>2, <3>7
  <2> QED
    BY <2>1, <2>2
<1>11. /\ r \in State /\ r.num = s.num /\ r.bal = s.bal /\ r.appr = s.appr /\ r.feeOn = s.feeOn
       /\ r.pairs[p] = new /\ Only(s, r, p) /\ Synchronised(s, r, p)
  <2>1. minted.pairs[p] = y /\ minted.feeOn = s.feeOn /\ minted.num = s.num /\ minted.bal = s.bal
        /\ minted.appr = s.appr /\ minted.synced = s.synced
        /\ \A q \in Pair \ {p} : minted.pairs[q] = s.pairs[q]
    BY <1>9 DEF Replaced
  <2>2. \A i \in Side : pr.token[i] \in Token
    BY <1>10, TokensOf
  <2>3. /\ r \in State /\ r.num = minted.num /\ r.bal = minted.bal /\ r.appr = minted.appr
        /\ r.feeOn = minted.feeOn
        /\ r.pairs[p] = Closed(minted.pairs[p], minted.feeOn)
        /\ \A q \in Pair \ {p} : r.pairs[q] = minted.pairs[q]
        /\ Synchronised(minted, r, p)
    BY <1>3, <1>7, <1>9, <2>1, <2>2, CloseIs
  <2>4. Synchronised(s, r, p)
    BY <1>7, <2>1, <2>3 DEF Synchronised
  <2> QED
    BY <1>5, <1>8, <2>1, <2>3, <2>4 DEF Only
<1>12. Draws(s, r, p)
  BY <1>5, <1>11 DEF Draws
<1>13. Improves(s, r)
  BY <1>5, <1>10, <1>11, <1>12, DrawsStep
<1> QED
  BY <1>5, <1>10, <1>11, <1>12, <1>13

--------------------------------------------------------------------------------
(* burn.                                                                     *)

\* new is pr with other balances
Rebalanced(pr, new) ==
    /\ new \in PairRecord /\ new.token = pr.token /\ new.reserve = pr.reserve /\ new.lp = pr.lp
    /\ new.totalSupply = pr.totalSupply /\ new.kLast = pr.kLast

LEMMA RebalancedIs ==
  ASSUME NEW pr \in PairRecord, NEW b \in [Side -> Nat]
  PROVE  Rebalanced(pr, [pr EXCEPT !.balance = b]) /\ [pr EXCEPT !.balance = b].balance = b
BY DEF Rebalanced, PairRecord

\* pair p has two different tokens
Trades(s, p) ==
    s.pairs[p].token[0] # s.pairs[p].token[1] /\ \A i \in Side : s.pairs[p].token[i] \in Token

\* amounts leave both the balances of pair p and the account
Drawn(s, r, p, out) ==
    /\ r \in State /\ r.num = s.num /\ r.feeOn = s.feeOn /\ r.synced = s.synced
    /\ \A q \in Pair \ {p} : r.pairs[q] = s.pairs[q]
    /\ Rebalanced(s.pairs[p], r.pairs[p])
    /\ \A i \in Side :
          /\ s.pairs[p].balance[i] = r.pairs[p].balance[i] + out[i]
          /\ s.bal[s.pairs[p].token[i]][Dex] = r.bal[s.pairs[p].token[i]][Dex] + out[i]
    /\ \A t \in Token : (\A i \in Side : s.pairs[p].token[i] # t) => r.bal[t][Dex] = s.bal[t][Dex]

\* n on side i, nothing on the other
OnSide(i, n) == [j \in Side |-> IF j = i THEN n ELSE 0]

\* safeTransferFromPair takes from the pair what it takes from the account.
LEMMA PayOutIs ==
  ASSUME NEW s \in State, NEW p \in Pair, Trades(s, p), NEW i \in Side, NEW to \in Account,
         NEW n \in Nat, NEW r \in PayOut(s, p, i, to, n)
  PROVE  Drawn(s, r, p, OnSide(i, n))
<1> DEFINE pr == s.pairs[p]
           t == pr.token[i]
<1>1. /\ pr \in PairRecord /\ s.pairs \in [Pair -> PairRecord] /\ pr.balance \in [Side -> Nat]
      /\ t \in Token /\ Dex \in Holder /\ to \in Holder /\ to # Dex
  BY StateTyped, PairTyped, Holders DEF Trades
<1>2. PICK w \in Transfer(s, t, Dex, to, n) :
         /\ r = [w EXCEPT !.pairs[p].balance[i] = @ + w.bal[t][Dex] - s.bal[t][Dex]]
         /\ pr.balance[i] >= n
  BY DEF PayOut
<1>3. Transferred(s, w, t, Dex, to, n) /\ s.bal[t][Dex] >= n
  BY <1>1, TransferIs
<1>4. w.bal[t][Dex] = s.bal[t][Dex] - n /\ s.bal[t][Dex] \in Nat /\ pr.balance[i] \in Nat
  <2>1. s.bal[t][Dex] \in Nat /\ pr.balance[i] \in Nat
    BY <1>1, StateTyped
  <2> QED
    BY <1>1, <1>3, <2>1, SMTT(90) DEF Transferred
<1>5. w \in State /\ w.pairs = s.pairs
  BY <1>3 DEF Transferred
<1> DEFINE b == [pr.balance EXCEPT ![i] = @ - n]
           new == [pr EXCEPT !.balance = b]
<1>6. b \in [Side -> Nat] /\ b[i] = pr.balance[i] - n /\ \A j \in Side \ {i} : b[j] = pr.balance[j]
  <2>1. pr.balance[i] - n \in Nat /\ pr.balance \in [Side -> Nat]
    BY <1>1, <1>2, <1>4, SMTT(90)
  <2> HIDE DEF pr
  <2> QED
    BY <2>1
<1>7. r = [w EXCEPT !.pairs = [w.pairs EXCEPT ![p] = new]]
  <2>1. r = [w EXCEPT !.pairs[p].balance[i] = @ + (s.bal[t][Dex] - n) - s.bal[t][Dex]]
    BY <1>2, <1>4
  <2>2. pr.balance[i] + (s.bal[t][Dex] - n) - s.bal[t][Dex] = pr.balance[i] - n
    BY <1>4
  <2>3. w.pairs[p].balance[i] = pr.balance[i]
    BY <1>5
  <2>4. r = [w EXCEPT !.pairs[p].balance[i] = pr.balance[i] - n]
    BY <1>1, <1>5, <2>1, <2>2, <2>3 DEF State, PairRecord
  <2> QED
    BY <1>1, <1>5, <2>4 DEF State, PairRecord
<1> HIDE DEF b
<1>8. Rebalanced(pr, new) /\ new.balance = b /\ new \in PairRecord
  BY <1>1, <1>6, RebalancedIs DEF Rebalanced
<1> HIDE DEF new
<1>9. Replaced(w, r, p, new)
  BY <1>5, <1>7, <1>8, ReplacedIs
<1>10. /\ r \in State /\ r.num = s.num /\ r.feeOn = s.feeOn /\ r.synced = s.synced /\ r.bal = w.bal
       /\ r.pairs[p] = new /\ \A q \in Pair \ {p} : r.pairs[q] = s.pairs[q]
  BY <1>3, <1>9 DEF Replaced, Transferred
<1>11. ASSUME NEW j \in Side
       PROVE /\ pr.balance[j] = r.pairs[p].balance[j] + OnSide(i, n)[j]
             /\ s.bal[pr.token[j]][Dex] = r.bal[pr.token[j]][Dex] + OnSide(i, n)[j]
  <2>1. CASE j = i
    <3>1. OnSide(i, n)[j] = n
      BY <2>1 DEF OnSide
    <3> QED
      BY <1>4, <1>6, <1>8, <1>10, <2>1, <3>1, SMTT(90)
  <2>2. CASE j # i
    <3>1. OnSide(i, n)[j] = 0
      BY <2>2 DEF OnSide
    <3>2. pr.token[j] \in Token \ {t}
      BY <2>2 DEF Trades, Side
    <3>3. r.bal[pr.token[j]] = s.bal[pr.token[j]]
      BY <1>3, <1>10, <3>2 DEF Transferred
    <3>4. s.bal[pr.token[j]][Dex] \in Nat /\ pr.balance[j] \in Nat
      BY <1>1, <3>2, StateTyped
    <3> QED
      BY <1>6, <1>8, <1>10, <2>2, <3>1, <3>3, <3>4, SMTT(90)
  <2> QED
    BY <2>1, <2>2
<1>12. ASSUME NEW v \in Token, \A j \in Side : pr.token[j] # v PROVE r.bal[v][Dex] = s.bal[v][Dex]
  BY <1>3, <1>10, <1>12 DEF Transferred
<1> QED
  BY <1>8, <1>10, <1>11, <1>12 DEF Drawn

\* The payments of both sides together.
LEMMA DrawnTwice ==
  ASSUME NEW s \in State, NEW p \in Pair, NEW x \in Nat, NEW y \in Nat, NEW h, NEW r, Trades(s, p),
         Drawn(s, h, p, OnSide(0, x)), Drawn(h, r, p, OnSide(1, y))
  PROVE  Drawn(s, r, p, Sides(x, y))
<1>1. s.pairs[p] \in PairRecord /\ h.pairs[p] \in PairRecord /\ r.pairs[p] \in PairRecord
  BY StateTyped DEF Drawn, Rebalanced
<1>2. /\ h.pairs[p].token = s.pairs[p].token /\ r.pairs[p].token = s.pairs[p].token
      /\ Rebalanced(s.pairs[p], r.pairs[p])
  BY DEF Drawn, Rebalanced
<1>3. ASSUME NEW i \in Side
      PROVE /\ s.pairs[p].balance[i] = r.pairs[p].balance[i] + Sides(x, y)[i]
            /\ s.bal[s.pairs[p].token[i]][Dex] = r.bal[s.pairs[p].token[i]][Dex] + Sides(x, y)[i]
  <2> DEFINE t == s.pairs[p].token[i]
  <2>1. t \in Token /\ Dex \in Holder
    BY Holders DEF Trades
  <2>2. /\ s.pairs[p].balance[i] \in Nat /\ h.pairs[p].balance[i] \in Nat /\ r.pairs[p].balance[i] \in Nat
        /\ s.bal[t][Dex] \in Nat /\ h.bal[t][Dex] \in Nat /\ r.bal[t][Dex] \in Nat
    BY <1>1, <2>1, StateTyped, PairTyped, SMTT(90) DEF Drawn
  <2>3. /\ s.pairs[p].balance[i] = h.pairs[p].balance[i] + OnSide(0, x)[i]
        /\ h.pairs[p].balance[i] = r.pairs[p].balance[i] + OnSide(1, y)[i]
        /\ s.bal[t][Dex] = h.bal[t][Dex] + OnSide(0, x)[i]
        /\ h.bal[t][Dex] = r.bal[t][Dex] + OnSide(1, y)[i]
    BY <1>2 DEF Drawn
  <2>4. OnSide(0, x)[i] + OnSide(1, y)[i] = Sides(x, y)[i] /\ OnSide(0, x)[i] \in Nat /\ OnSide(1, y)[i] \in Nat
        /\ Sides(x, y)[i] \in Nat
    BY DEF OnSide, Sides, Side
  <2> HIDE DEF t
  <2>5. /\ s.pairs[p].balance[i] = r.pairs[p].balance[i] + Sides(x, y)[i]
        /\ s.bal[t][Dex] = r.bal[t][Dex] + Sides(x, y)[i]
    BY <2>2, <2>3, <2>4
  <2> QED
    BY <2>5 DEF t
<1>4. \A t \in Token : (\A i \in Side : s.pairs[p].token[i] # t) => r.bal[t][Dex] = s.bal[t][Dex]
  BY <1>2 DEF Drawn
<1>5. /\ r \in State /\ r.num = s.num /\ r.feeOn = s.feeOn /\ r.synced = s.synced
      /\ \A q \in Pair \ {p} : r.pairs[q] = s.pairs[q]
  BY DEF Drawn
<1> QED
  BY <1>2, <1>3, <1>4, <1>5 DEF Drawn

LEMMA DrawnNothing ==
  ASSUME NEW s \in State, NEW p \in Pair, Trades(s, p), NEW i \in Side
  PROVE  Drawn(s, s, p, OnSide(i, 0))
<1>1. s.pairs[p] \in PairRecord /\ Dex \in Holder
  BY StateTyped, Holders
<1>2. \A j \in Side : s.pairs[p].balance[j] \in Nat /\ s.bal[s.pairs[p].token[j]][Dex] \in Nat
  BY <1>1, StateTyped, PairTyped DEF Trades
<1>3. \A j \in Side : OnSide(i, 0)[j] = 0
  BY DEF OnSide
<1>4. \A j \in Side :
          /\ s.pairs[p].balance[j] = s.pairs[p].balance[j] + OnSide(i, 0)[j]
          /\ s.bal[s.pairs[p].token[j]][Dex] = s.bal[s.pairs[p].token[j]][Dex] + OnSide(i, 0)[j]
  BY <1>2, <1>3
<1> QED
  BY <1>1, <1>4 DEF Drawn, Rebalanced

\* After the first payment the pair still trades what it did.
LEMMA DrawnTrades ==
  ASSUME NEW s, NEW h, NEW p, NEW out, Drawn(s, h, p, out), Trades(s, p)
  PROVE  Trades(h, p) /\ h \in State
BY DEF Drawn, Rebalanced, Trades

\* what burn leaves of a pair before it pays
Burnt(x) == [x EXCEPT !.totalSupply = @ - x.lp[Dex], !.lp[Dex] = @ - x.lp[Dex]]

\* The locked share keeps the supply positive.
LEMMA BurntIs ==
  ASSUME NEW x \in PairRecord, Shared(x), Seeded(x), x.totalSupply > 0
  PROVE  /\ Burnt(x) \in PairRecord /\ Shared(Burnt(x)) /\ Burnt(x).lp[Dead] > 0 /\ Burnt(x).lp[Dex] = 0
         /\ x.lp[Dex] \in Nat /\ x.lp[Dex] < x.totalSupply
         /\ Burnt(x).totalSupply = x.totalSupply - x.lp[Dex]
         /\ Burnt(x).token = x.token /\ Burnt(x).balance = x.balance /\ Burnt(x).reserve = x.reserve
         /\ Burnt(x).kLast = x.kLast
<1> DEFINE l == x.lp[Dex]
           T == x.totalSupply
           f == [x.lp EXCEPT ![Dex] = l - l]
           y == Burnt(x)
<1>1. x.lp \in [Holder -> Nat] /\ T \in Nat /\ l \in Nat /\ x.lp[Dead] \in Nat /\ x.lp[Dead] > 0
  BY PairTyped, Holders DEF Seeded
<1>2. T = SumFunctionOnSet(x.lp, Holder)
  <2>1. DOMAIN x.lp = Holder
    BY <1>1
  <2> QED
    BY <2>1 DEF Shared, SumFunction
<1>3. f \in [Holder -> Nat] /\ f[Dex] = 0 /\ \A h \in Holder \ {Dex} : f[h] = x.lp[h]
  <2>1. l - l = 0 /\ 0 \in Nat
    BY <1>1
  <2>2. f = [x.lp EXCEPT ![Dex] = 0]
    BY <2>1
  <2> HIDE DEF f
  <2> QED
    BY <1>1, <2>1, <2>2, Holders
<1>4. l + x.lp[Dead] <= T
  <2>1. SumFunctionOnSet(x.lp, Holder) = l + SumFunctionOnSet(x.lp, Holder \ {Dex})
    BY <1>1, Holders, SumAdds
  <2>2. IsFiniteSet(Holder \ {Dex})
    BY Holders, FS_Subset
  <2>3. x.lp[Dead] <= SumFunctionOnSet(x.lp, Holder \ {Dex})
    BY <1>1, <2>2, Holders, SumCovers
  <2>4. SumFunctionOnSet(x.lp, Holder \ {Dex}) \in Nat
    BY <1>1, <2>2, SumType
  <2> HIDE DEF l, T
  <2> QED
    BY <1>1, <1>2, <2>1, <2>3, <2>4 DEF l
<1>5. SumFunctionOnSet(f, Holder) = T - l
  <2>1. SumFunctionOnSet(f, Holder) = SumFunctionOnSet(x.lp, Holder) - x.lp[Dex] + f[Dex]
    BY <1>1, <1>3, Holders, SumChanges
  <2> HIDE DEF f
  <2> QED
    BY <1>1, <1>2, <1>3, <2>1
<1>6. y = [x EXCEPT !.totalSupply = T - l, !.lp = f]
  BY DEF Burnt, PairRecord
<1>7. T - l \in Nat
  BY <1>1, <1>4
<1> HIDE DEF f, y
<1>8. /\ y \in PairRecord /\ y.lp = f /\ y.totalSupply = T - l
      /\ y.token = x.token /\ y.balance = x.balance /\ y.reserve = x.reserve /\ y.kLast = x.kLast
  <2> DEFINE z == T - l
  <2>1. z \in Nat /\ y = [x EXCEPT !.totalSupply = z, !.lp = f]
    BY <1>6, <1>7
  <2> HIDE DEF z
  <2>2. /\ y \in PairRecord /\ y.lp = f /\ y.totalSupply = z
        /\ y.token = x.token /\ y.balance = x.balance /\ y.reserve = x.reserve /\ y.kLast = x.kLast
    BY <1>3, <2>1 DEF PairRecord
  <2> QED
    BY <2>2 DEF z
<1>9. DOMAIN f = Holder
  BY <1>3
<1>10. Shared(y)
  BY <1>5, <1>8, <1>9 DEF Shared, SumFunction
<1>11. y.lp[Dead] > 0 /\ y.lp[Dex] = 0
  BY <1>1, <1>3, <1>8, Holders
<1>12. l < T
  BY <1>1, <1>4
<1> QED
  BY <1>1, <1>8, <1>10, <1>11, <1>12 DEF y

\* A part of a balance, rounded down, leaves the rest of the shares their part.
LEMMA PartLeft ==
  ASSUME NEW b \in Nat, NEW res \in Nat, NEW l \in Nat, NEW T \in Nat, l < T, res <= b, res > 0,
         NEW a \in Nat, a = (l * b) \div T, NEW left \in Nat, b = left + a
  PROVE  left > 0 /\ (T - l) * res <= T * left
<1>1. l * b \in Nat /\ l * b <= T * b /\ T > 0
  BY TimesMonotone
<1>2. a * T <= l * b /\ a * T \in Nat
  BY <1>1, Quotient, TimesMonotone
<1>3. T - l \in Nat /\ T - l > 0 /\ b > 0
  OBVIOUS
<1>4. (T - l) * res <= (T - l) * b /\ (T - l) * res \in Nat /\ (T - l) * b \in Nat
  BY <1>3, TimesMonotone
<1>5. (T - l) * b = T * b - l * b
  OBVIOUS
<1>6. T * left = T * b - a * T
  OBVIOUS
<1>7. T * b \in Nat /\ T * left \in Nat
  BY TimesMonotone
<1>8. (T - l) * b <= T * left
  BY <1>1, <1>2, <1>5, <1>6, <1>7
<1>9. (T - l) * b > 0
  <2>1. 1 * 1 <= (T - l) * b
    BY <1>3, TimesMonotone
  <2> QED
    BY <1>4, <2>1
<1>10. left > 0
  <2>1. T * left > 0
    BY <1>4, <1>7, <1>8, <1>9
  <2> QED
    BY <2>1
<1> QED
  BY <1>4, <1>7, <1>8, <1>10

\* A whole call of burn.
LEMMA BurnStep ==
  ASSUME NEW s, Good(s), NEW p \in Pair, NEW to \in Account, NEW r \in Burn(s, p, to)
  PROVE  /\ Improves(s, r) /\ Draws(s, r, p) /\ p <= s.num /\ r.feeOn = s.feeOn
         /\ r.pairs[p].lp[Dex] = 0
<1> DEFINE pr == s.pairs[p]
           x == MintFee(s, p)
           l == x.lp[Dex]
           T == x.totalSupply
           amount == [i \in Side |-> IF T = 0 THEN 0 ELSE (l * x.balance[i]) \div T]
           burnt == [s EXCEPT !.pairs[p] = Burnt(x)]
<1>1. s \in State /\ pr \in PairRecord /\ Worthy(pr) /\ s.feeOn \in BOOLEAN
      /\ s.pairs \in [Pair -> PairRecord]
  BY StateTyped DEF Good
<1>2. FeeTaken(pr, s.feeOn, x)
  BY <1>1, MintFeeTaken
<1>3. x \in PairRecord /\ x.token = pr.token /\ x.balance = pr.balance /\ x.reserve = pr.reserve /\ Shared(x)
      /\ Seeded(x) /\ T \in Nat
  BY <1>2, PairTyped DEF FeeTaken
<1>4. \A i \in Side : amount[i] > 0
  BY DEF Burn
<1>5. PICK half \in PayOut(burnt, p, 0, to, amount[0]) : \E paid \in PayOut(half, p, 1, to, amount[1]) :
          \E v \in Update(paid, p) : r = SetKLast(Sync(v, p), p)
  <2>1. r \in {SetKLast(Sync(v, p), p) :
                 v \in Then(Then(PayOut(burnt, p, 0, to, amount[0]),
                                 LAMBDA h : PayOut(h, p, 1, to, amount[1])), LAMBDA z : Update(z, p))}
    BY DEF Burn, Burnt
  <2> HIDE DEF burnt, amount
  <2> QED
    BY <2>1 DEF Then
<1>6. PICK paid \in PayOut(half, p, 1, to, amount[1]) : \E v \in Update(paid, p) : r = SetKLast(Sync(v, p), p)
  BY <1>5
<1>7. PICK v \in Update(paid, p) : r = SetKLast(Sync(v, p), p)
  BY <1>6
<1>8. T > 0
  <2>1. T # 0
    BY <1>4 DEF Side
  <2> QED
    BY <1>3, <2>1
<1> DEFINE y == Burnt(x)
<1>9. /\ y \in PairRecord /\ Shared(y) /\ y.lp[Dead] > 0 /\ y.lp[Dex] = 0
      /\ l \in Nat /\ l < T /\ y.totalSupply = T - l
      /\ y.token = pr.token /\ y.balance = pr.balance /\ y.reserve = pr.reserve /\ y.kLast = x.kLast
  BY <1>3, <1>8, BurntIs
<1>10. amount[0] = (l * pr.balance[0]) \div T /\ amount[1] = (l * pr.balance[1]) \div T
  BY <1>3, <1>8 DEF Side
<1> HIDE DEF y, amount, x
<1>11. Replaced(s, burnt, p, y) /\ burnt \in State /\ burnt.pairs[p] = y
  BY <1>1, <1>9, ReplacedIs DEF Replaced, y
<1> HIDE DEF burnt
<1>12. x.reserve[0] > 0 /\ x.reserve[1] > 0 /\ pr.reserve[0] \in Nat /\ pr.reserve[1] \in Nat
       /\ pr.balance[0] \in Nat /\ pr.balance[1] \in Nat
       /\ pr.reserve[0] <= pr.balance[0] /\ pr.reserve[1] <= pr.balance[1]
  BY <1>1, <1>3, <1>8, PairTyped DEF Seeded, Worthy, Backed, Side
<1>13. p <= s.num
  <2>1. pr.balance[0] > 0
    BY <1>3, <1>12
  <2>2. 0 \in Side
    BY DEF Side
  <2> QED
    BY <2>1, <2>2, HoldsListed
<1>14. Trades(burnt, p)
  BY <1>9, <1>11, <1>13, TokensOf DEF Trades
<1>15. amount[0] \in Nat /\ amount[1] \in Nat
  <2>1. l * pr.balance[0] \in Nat /\ l * pr.balance[1] \in Nat
    BY <1>9, <1>12, TimesMonotone
  <2> QED
    BY <1>3, <1>8, <1>10, <2>1, Quotient
<1>16. Drawn(burnt, paid, p, Sides(amount[0], amount[1]))
  <2>1. Drawn(burnt, half, p, OnSide(0, amount[0]))
    BY <1>5, <1>11, <1>14, <1>15, PayOutIs DEF Side
  <2>2. Trades(half, p) /\ half \in State
    BY <1>14, <2>1, DrawnTrades
  <2>3. Drawn(half, paid, p, OnSide(1, amount[1]))
    BY <1>6, <1>15, <2>2, PayOutIs DEF Side
  <2> QED
    BY <1>11, <1>14, <1>15, <2>1, <2>3, DrawnTwice
<1> DEFINE z == paid.pairs[p]
           new == Closed(z, s.feeOn)
<1>17. /\ paid \in State /\ Rebalanced(y, z) /\ z \in PairRecord
       /\ paid.num = s.num /\ paid.feeOn = s.feeOn /\ paid.synced = s.synced
       /\ \A q \in Pair \ {p} : paid.pairs[q] = s.pairs[q]
  BY <1>11, <1>16 DEF Drawn, Rebalanced, Replaced
<1>18. /\ pr.balance[0] = z.balance[0] + amount[0] /\ pr.balance[1] = z.balance[1] + amount[1]
       /\ z.balance[0] \in Nat /\ z.balance[1] \in Nat
  BY <1>9, <1>11, <1>16, <1>17, PairTyped DEF Drawn, Sides, Side
<1>19. /\ z.balance[0] > 0 /\ (T - l) * pr.reserve[0] <= T * z.balance[0]
       /\ z.balance[1] > 0 /\ (T - l) * pr.reserve[1] <= T * z.balance[1]
  <2> HIDE DEF z, l, T
  <2>1. pr.reserve[0] > 0 /\ pr.reserve[1] > 0
    BY <1>3, <1>12
  <2>2. z.balance[0] > 0 /\ (T - l) * pr.reserve[0] <= T * z.balance[0]
    BY <1>3, <1>9, <1>10, <1>12, <1>15, <1>18, <2>1, PartLeft
  <2>3. z.balance[1] > 0 /\ (T - l) * pr.reserve[1] <= T * z.balance[1]
    BY <1>3, <1>9, <1>10, <1>12, <1>15, <1>18, <2>1, PartLeft, ZenonT(30)
  <2> QED
    BY <2>2, <2>3
<1>20. /\ new \in PairRecord /\ new.token = z.token /\ new.reserve = z.balance
       /\ new.balance = z.balance /\ new.lp = z.lp /\ new.totalSupply = z.totalSupply
       /\ new.kLast = IF s.feeOn THEN Product(z.balance) ELSE z.kLast
  BY <1>1, <1>17, ClosedIs
<1> HIDE DEF new, z
<1>21. z.lp = y.lp /\ z.totalSupply = y.totalSupply /\ z.kLast = x.kLast /\ z.token = pr.token
  BY <1>9, <1>17 DEF Rebalanced
<1>22. Better(pr, s.feeOn, new)
  <2>1. Shared(new)
    BY <1>9, <1>20, <1>21 DEF Shared
  <2>2. new.totalSupply = T - l /\ T - l \in Nat /\ T - l > 0
    BY <1>3, <1>9, <1>20, <1>21
  <2>3. Square(new.totalSupply) * Product(x.reserve) <= Square(T) * Product(new.reserve)
    <3>1. ((T - l) * (T - l)) * (pr.reserve[0] * pr.reserve[1]) <= (T * T) * (z.balance[0] * z.balance[1])
      BY <1>3, <1>12, <1>18, <1>19, <2>2, BothSides
    <3> QED
      BY <1>3, <1>20, <2>2, <3>1 DEF Square, Product
  <2>4. new.kLast = IF s.feeOn THEN Product(new.balance) ELSE 0
    BY <1>2, <1>20, <1>21 DEF FeeTaken
  <2>5. new.lp[Dead] > 0 /\ new.reserve[0] > 0 /\ new.reserve[1] > 0 /\ new.reserve = new.balance
    BY <1>9, <1>19, <1>20, <1>21
  <2> QED
    BY <1>1, <1>2, <1>8, <1>20, <2>1, <2>2, <2>3, <2>4, <2>5, Revalued
<1>23. /\ r \in State /\ r.num = s.num /\ r.bal = paid.bal /\ r.feeOn = s.feeOn
       /\ r.pairs[p] = new /\ Only(s, r, p) /\ Synchronised(s, r, p)
  <2>1. \A i \in Side : z.token[i] \in Token
    BY <1>13, <1>21, TokensOf
  <2>2. /\ r \in State /\ r.num = paid.num /\ r.bal = paid.bal /\ r.appr = paid.appr /\ r.feeOn = paid.feeOn
        /\ r.pairs[p] = Closed(z, paid.feeOn)
        /\ \A q \in Pair \ {p} : r.pairs[q] = paid.pairs[q]
        /\ Synchronised(paid, r, p)
    BY <1>7, <1>17, <2>1, CloseIs DEF z
  <2>3. Synchronised(s, r, p)
    BY <1>17, <1>21, <2>2, SMTT(90) DEF Synchronised, z
  <2> QED
    BY <1>17, <1>20, <1>21, <2>2, <2>3 DEF Only, new
<1>24. Draws(s, r, p)
  <2>1. burnt.bal = s.bal
    BY <1>11 DEF Replaced
  <2>2. ASSUME NEW i \in Side
        PROVE LET t == s.pairs[p].token[i] IN
                r.bal[t][Dex] + s.pairs[p].balance[i] = s.bal[t][Dex] + r.pairs[p].balance[i]
    <3> DEFINE t == s.pairs[p].token[i]
               n == Sides(amount[0], amount[1])[i]
    <3>1. pr.balance[i] = z.balance[i] + n /\ s.bal[t][Dex] = r.bal[t][Dex] + n
      BY <1>9, <1>11, <1>16, <1>23, <2>1 DEF Drawn, z
    <3>2. n \in Nat /\ z.balance[i] \in Nat
      BY <1>15, <1>18 DEF Sides, Side
    <3>3. r.bal[t][Dex] \in Nat
      BY <1>13, <1>23, TokensOf, StateTyped, Holders
    <3> HIDE DEF n
    <3>4. r.bal[t][Dex] + pr.balance[i] = s.bal[t][Dex] + z.balance[i]
      BY <3>1, <3>2, <3>3, SMTT(90)
    <3> QED
      BY <1>20, <1>23, <3>4
  <2>3. ASSUME NEW t \in Token, \A i \in Side : s.pairs[p].token[i] # t PROVE r.bal[t][Dex] = s.bal[t][Dex]
    BY <1>9, <1>11, <1>16, <1>23, <2>1, <2>3 DEF Drawn
  <2> QED
    BY <1>20, <1>23, <2>2, <2>3 DEF Draws
<1>25. Improves(s, r)
  BY <1>13, <1>22, <1>23, <1>24, DrawsStep
<1> QED
  BY <1>9, <1>13, <1>20, <1>21, <1>23, <1>24, <1>25

--------------------------------------------------------------------------------
(* swap.                                                                     *)

\* What settle demands keeps the product, because 3 per mille are set aside.
LEMMA SettleIs ==
  ASSUME NEW s \in State, NEW p \in Pair, NEW out \in [Side -> Nat], Payable(s, p, out),
         NEW paid \in State, NEW r \in Settle(s, paid, p, out)
  PROVE  /\ r \in Update(paid, p)
         /\ Product(s.pairs[p].reserve) <= Product(paid.pairs[p].balance)
         /\ \E i \in Side : paid.pairs[p].balance[i] + out[i] > s.pairs[p].reserve[i]
<1> DEFINE reserve == s.pairs[p].reserve
           balance == paid.pairs[p].balance
           in == Incoming(reserve, balance, out)
           rest == Adjusted(balance, in)
<1>1. /\ \A i \in Side : /\ reserve[i] \in Nat /\ balance[i] \in Nat /\ out[i] \in Nat
                         /\ out[i] < reserve[i]
  BY StateTyped, PairTyped DEF Payable
<1>2. /\ r \in Update(paid, p) /\ \E i \in Side : in[i] > 0
      /\ Product(rest) >= 1000000 * Product(reserve)
  BY SMT DEF Settle
<1>3. ASSUME NEW i \in Side
      PROVE  /\ in[i] \in Nat /\ in[i] <= balance[i]
             /\ in[i] > 0 => balance[i] + out[i] > reserve[i]
  <2> DEFINE d == balance[i] - (reserve[i] - out[i])
             m == Max({0, d})
  <2>1. in[i] = m
    BY DEF Incoming
  <2>2. d \in Int /\ d <= balance[i] /\ (d > 0 => balance[i] + out[i] > reserve[i])
    BY <1>1
  <2>3. m \in {0, d} /\ m >= 0 /\ m >= d
    <3>1. 0 \in Int
      OBVIOUS
    <3> HIDE DEF d
    <3> QED
      BY <2>2, <3>1, MaxOfTwo
  <2>4. balance[i] \in Nat
    BY <1>1
  <2> HIDE DEF m, in, d
  <2>5. m \in Nat /\ m <= balance[i] /\ (m > 0 => d > 0)
    BY <2>2, <2>3, <2>4
  <2> QED
    BY <2>1, <2>2, <2>5
<1>4. \A i \in Side : rest[i] = 1000 * balance[i] - 3 * in[i]
  BY DEF Adjusted
<1> HIDE DEF in, rest
<1>5. \A i \in Side : rest[i] \in Nat /\ rest[i] <= 1000 * balance[i]
  <2>1. ASSUME NEW i \in Side PROVE rest[i] \in Nat /\ rest[i] <= 1000 * balance[i]
    BY <1>1, <1>3, <1>4
  <2> QED
    BY <2>1
<1>6. Product(reserve) <= Product(balance)
  <2> DEFINE x == rest[0]
             y == rest[1]
             b0 == balance[0]
             b1 == balance[1]
             k == reserve[0] * reserve[1]
  <2>1. x \in Nat /\ y \in Nat /\ b0 \in Nat /\ b1 \in Nat /\ x <= 1000 * b0 /\ y <= 1000 * b1
        /\ reserve[0] \in Nat /\ reserve[1] \in Nat
    BY <1>1, <1>5 DEF Side
  <2>2. k \in Nat
    BY <2>1, TimesMonotone
  <2>3. x * y >= 1000000 * k
    BY <1>2, SMT DEF Product
  <2> HIDE DEF x, y, b0, b1, k
  <2>4. 1000 * b0 \in Nat /\ 1000 * b1 \in Nat
    BY <2>1
  <2>5. x * y <= (1000 * b0) * (1000 * b1) /\ x * y \in Nat
    BY <2>1, <2>4, TimesMonotone
  <2>6. (1000 * b0) * (1000 * b1) = 1000000 * (b0 * b1)
    BY <2>1, SMT
  <2>7. b0 * b1 \in Nat
    BY <2>1, TimesMonotone
  <2>8. k <= b0 * b1
    <3> DEFINE q == b0 * b1
    <3>1. 1000000 * k <= 1000000 * q /\ q \in Nat
      <4>1. (1000 * b0) * (1000 * b1) \in Nat
        BY <2>6, <2>7, SMT
      <4> QED
        BY <2>2, <2>3, <2>5, <2>6, <2>7, <4>1, SMT
    <3> HIDE DEF q
    <3>2. k <= q
      BY <2>2, <3>1, SMT
    <3> QED
      BY <3>2 DEF q
  <2> QED
    BY <2>8 DEF k, b0, b1, Product
<1>7. \E i \in Side : balance[i] + out[i] > reserve[i]
  BY <1>2, <1>3, SMT
<1> QED
  BY <1>2, <1>6, <1>7, SMT

\* A swap leaves a pair with a product at least as large, and its shares alone.
LEMMA SwappedBetter ==
  ASSUME NEW pr \in PairRecord, Worthy(pr), NEW feeOn \in BOOLEAN, NEW new \in PairRecord,
         new.reserve = new.balance, new.lp = pr.lp, new.totalSupply = pr.totalSupply,
         new.kLast = pr.kLast, Product(pr.reserve) <= Product(new.reserve)
  PROVE  Better(pr, feeOn, new)
<1>1. /\ Product(pr.reserve) \in Nat /\ Product(new.reserve) \in Nat /\ pr.kLast \in Nat
      /\ Square(pr.totalSupply) \in Nat
      /\ pr.reserve[0] \in Nat /\ pr.reserve[1] \in Nat /\ new.reserve[0] \in Nat /\ new.reserve[1] \in Nat
  BY PairTyped
<1>2. Shared(new)
  BY DEF Worthy, Shared
<1>3. Backed(new)
  <2>1. new.reserve \in [Side -> Nat]
    BY PairTyped
  <2> QED
    BY <2>1 DEF Backed
<1>4. Seeded(new)
  <2>1. SUFFICES ASSUME pr.totalSupply > 0 PROVE Seeded(new)
    BY DEF Seeded
  <2>2. pr.lp[Dead] > 0 /\ pr.reserve[0] > 0 /\ pr.reserve[1] > 0
        /\ Square(pr.totalSupply) <= Product(pr.reserve)
    BY <2>1 DEF Worthy, Seeded, Side
  <2>3. Product(new.reserve) > 0
    BY <1>1, <2>2, ProductPositive
  <2>4. new.reserve[0] > 0 /\ new.reserve[1] > 0
    BY <1>1, <2>3 DEF Product
  <2>5. Square(pr.totalSupply) <= Product(new.reserve)
    BY <1>1, <2>2
  <2> QED
    BY <2>2, <2>4, <2>5 DEF Seeded, Side
<1>5. Charged(new)
  BY <1>1 DEF Worthy, Charged
<1>6. Worthy(new)
  BY <1>2, <1>3, <1>4, <1>5 DEF Worthy
<1> QED
  BY <1>6, BetterIdle

\* Only a listed pair has reserves to pay from.
LEMMA PayableListed ==
  ASSUME NEW s, Good(s), NEW p \in Pair, NEW out \in [Side -> Nat], Payable(s, p, out)
  PROVE  p <= s.num /\ Trades(s, p)
<1>1. s.pairs[p] \in PairRecord /\ Worthy(s.pairs[p])
  BY StateTyped DEF Good
<1>2. s.pairs[p].reserve[0] \in Nat /\ s.pairs[p].balance[0] \in Nat /\ out[0] \in Nat /\ 0 \in Side
      /\ out[0] < s.pairs[p].reserve[0]
  BY <1>1, PairTyped DEF Payable, Side
<1>3. s.pairs[p].reserve[0] <= s.pairs[p].balance[0]
  BY <1>1, <1>2 DEF Worthy, Backed
<1>4. p <= s.num
  BY <1>2, <1>3, HoldsListed
<1> QED
  BY <1>4, TokensOf DEF Trades

\* A whole call of swap.
LEMMA SwapStep ==
  ASSUME NEW s, Good(s), NEW p \in Pair, NEW out \in [Side -> Nat], NEW to \in Account,
         NEW r \in Swap(s, p, out, to)
  PROVE  /\ Improves(s, r) /\ Draws(s, r, p) /\ p <= s.num /\ r.feeOn = s.feeOn
         /\ r.pairs[p].lp = s.pairs[p].lp
         /\ \E i \in Side : s.pairs[p].balance[i] > s.pairs[p].reserve[i]
<1> DEFINE pr == s.pairs[p]
           pay(w, i) == IF out[i] > 0 THEN PayOut(w, p, i, to, out[i]) ELSE {w}
<1>1. s \in State /\ pr \in PairRecord /\ Worthy(pr) /\ s.feeOn \in BOOLEAN /\ out[0] \in Nat /\ out[1] \in Nat
  BY StateTyped DEF Good, Side
<1>2. Payable(s, p, out)
  BY DEF Swap
<1>3. PICK half \in pay(s, 0) : \E paid \in pay(half, 1) : \E v \in Settle(s, paid, p, out) : r = Sync(v, p)
  <2>1. r \in {Sync(v, p) : v \in Then(Then(pay(s, 0), LAMBDA h : pay(h, 1)),
                                       LAMBDA x : Settle(s, x, p, out))}
    BY DEF Swap
  <2> HIDE DEF pay
  <2> QED
    BY <2>1 DEF Then
<1>4. PICK paid \in pay(half, 1) : \E v \in Settle(s, paid, p, out) : r = Sync(v, p)
  BY <1>3
<1>5. PICK v \in Settle(s, paid, p, out) : r = Sync(v, p)
  BY <1>4
<1>6. p <= s.num /\ Trades(s, p)
  BY <1>2, PayableListed
<1>7. Drawn(s, half, p, OnSide(0, out[0]))
  <2>1. CASE out[0] > 0
    <3>1. half \in PayOut(s, p, 0, to, out[0])
      BY <1>3, <2>1
    <3> QED
      BY <1>1, <1>6, <3>1, PayOutIs DEF Side
  <2>2. CASE ~(out[0] > 0)
    <3>1. half = s /\ out[0] = 0
      BY <1>1, <1>3, <2>2
    <3> QED
      BY <1>1, <1>6, <3>1, DrawnNothing DEF Side
  <2> QED
    BY <2>1, <2>2
<1>8. Trades(half, p) /\ half \in State
  BY <1>6, <1>7, DrawnTrades
<1>9. Drawn(half, paid, p, OnSide(1, out[1]))
  <2>1. CASE out[1] > 0
    <3>1. paid \in PayOut(half, p, 1, to, out[1])
      BY <1>4, <2>1
    <3> QED
      BY <1>1, <1>8, <3>1, PayOutIs DEF Side
  <2>2. CASE ~(out[1] > 0)
    <3>1. paid = half /\ out[1] = 0
      BY <1>1, <1>4, <2>2
    <3> QED
      BY <1>1, <1>8, <3>1, DrawnNothing DEF Side
  <2> QED
    BY <2>1, <2>2
<1> HIDE DEF pay
<1>10. Drawn(s, paid, p, Sides(out[0], out[1]))
  BY <1>1, <1>6, <1>7, <1>9, DrawnTwice
<1>11. \A i \in Side : Sides(out[0], out[1])[i] = out[i]
  BY DEF Sides, Side
<1> DEFINE z == paid.pairs[p]
           new == [z EXCEPT !.reserve = z.balance]
<1>12. paid \in State /\ Rebalanced(pr, z)
  BY <1>10 DEF Drawn
<1>13. /\ v \in Update(paid, p) /\ Product(pr.reserve) <= Product(z.balance)
       /\ \E i \in Side : z.balance[i] + out[i] > pr.reserve[i]
  BY <1>1, <1>2, <1>5, <1>12, SettleIs
<1>14. Replaced(paid, v, p, new)
  BY <1>12, <1>13, UpdateIs
<1>15. z \in PairRecord /\ z.balance \in [Side -> Nat]
  BY <1>12, PairTyped DEF Rebalanced
<1>16. /\ new \in PairRecord /\ new.reserve = z.balance /\ new.balance = z.balance /\ new.lp = pr.lp
       /\ new.token = pr.token /\ new.totalSupply = pr.totalSupply /\ new.kLast = pr.kLast
  BY <1>12, <1>15 DEF Rebalanced, PairRecord
<1>17. v \in State /\ v.pairs[p] = new /\ v.num = s.num /\ v.feeOn = s.feeOn /\ v.bal = paid.bal
       /\ v.synced = s.synced /\ \A q \in Pair \ {p} : v.pairs[q] = s.pairs[q]
  BY <1>10, <1>14 DEF Drawn, Replaced
<1> HIDE DEF new
<1>18. /\ r \in State /\ r.num = v.num /\ r.pairs = v.pairs /\ r.bal = v.bal /\ r.appr = v.appr
       /\ r.feeOn = v.feeOn
       /\ \A t \in Token : r.synced[t] =
             IF \E i \in Side : v.pairs[p].token[i] = t THEN v.bal[t][Dex] ELSE v.synced[t]
  BY <1>5, <1>17, SyncIs
<1>19. Better(pr, s.feeOn, new)
  BY <1>1, <1>13, <1>16, SwappedBetter
<1>20. /\ r.num = s.num /\ r.feeOn = s.feeOn /\ r.bal = paid.bal /\ r.pairs[p] = new
       /\ Only(s, r, p) /\ Synchronised(s, r, p)
  <2>1. \A i \in Side : pr.token[i] \in Token
    BY <1>6 DEF Trades
  <2> QED
    BY <1>16, <1>17, <1>18, <2>1 DEF Only, Synchronised
<1>21. Draws(s, r, p)
  <2>1. ASSUME NEW i \in Side
        PROVE LET t == s.pairs[p].token[i] IN
                r.bal[t][Dex] + s.pairs[p].balance[i] = s.bal[t][Dex] + r.pairs[p].balance[i]
    <3> DEFINE t == s.pairs[p].token[i]
    <3>1. pr.balance[i] = z.balance[i] + out[i] /\ s.bal[t][Dex] = r.bal[t][Dex] + out[i]
      BY <1>10, <1>11, <1>20 DEF Drawn
    <3>2. out[i] \in Nat /\ z.balance[i] \in Nat
      BY <1>15
    <3>3. r.bal[t][Dex] \in Nat
      BY <1>6, <1>18, <1>17, StateTyped, Holders DEF Trades
    <3>4. r.bal[t][Dex] + pr.balance[i] = s.bal[t][Dex] + z.balance[i]
      BY <3>1, <3>2, <3>3, SMTT(90)
    <3> QED
      BY <1>16, <1>20, <3>4
  <2>2. ASSUME NEW t \in Token, \A i \in Side : s.pairs[p].token[i] # t PROVE r.bal[t][Dex] = s.bal[t][Dex]
    BY <1>10, <1>20, <2>2 DEF Drawn
  <2> QED
    BY <1>16, <1>20, <2>1, <2>2 DEF Draws
<1>22. Improves(s, r)
  BY <1>6, <1>17, <1>18, <1>19, <1>20, <1>21, DrawsStep
<1>23. \E i \in Side : pr.balance[i] > pr.reserve[i]
  <2>1. PICK i \in Side : z.balance[i] + out[i] > pr.reserve[i]
    BY <1>13
  <2>2. pr.balance[i] = z.balance[i] + out[i]
    BY <1>10, <1>11 DEF Drawn
  <2> QED
    BY <2>1, <2>2
<1> QED
  BY <1>6, <1>16, <1>20, <1>21, <1>22, <1>23

--------------------------------------------------------------------------------
(* swapToPair.                                                               *)

\* every pair has two different tokens, or none yet
Sorted(s) == \A k \in Pair : Trades(s, k) \/ \A i \in Side : s.pairs[k].token[i] = 0

\* pair p hands amounts to pair q; the account keeps them
Passed(s, r, p, q, out) ==
    /\ r \in State /\ r.num = s.num /\ r.feeOn = s.feeOn /\ r.synced = s.synced /\ r.bal = s.bal
    /\ \A k \in Pair : Rebalanced(s.pairs[k], r.pairs[k])
    /\ \A k \in Pair \ {p, q} : r.pairs[k] = s.pairs[k]
    /\ \A k \in Pair : ~Trades(s, k) => r.pairs[k].balance = s.pairs[k].balance
    /\ IF p = q
       THEN r.pairs[p].balance = s.pairs[p].balance
       ELSE \A i \in Side : /\ r.pairs[p].balance[i] + out[i] = s.pairs[p].balance[i]
                            /\ r.pairs[q].balance[i] >= s.pairs[q].balance[i]
    /\ \A t \in Token : Pooled(r, t) = Pooled(s, t)

LEMMA RebalancedRefl ==
  ASSUME NEW s \in State PROVE \A k \in Pair : Rebalanced(s.pairs[k], s.pairs[k])
BY StateTyped DEF Rebalanced

\* one balance of one pair is set
WithBalance(s, p, i, m) == [s EXCEPT !.pairs[p].balance[i] = m]

OneSet(s, r, p, i, m) ==
    /\ r \in State /\ r.num = s.num /\ r.feeOn = s.feeOn /\ r.synced = s.synced /\ r.bal = s.bal
    /\ Rebalanced(s.pairs[p], r.pairs[p]) /\ \A k \in Pair \ {p} : r.pairs[k] = s.pairs[k]
    /\ r.pairs[p].balance[i] = m /\ \A j \in Side \ {i} : r.pairs[p].balance[j] = s.pairs[p].balance[j]

LEMMA BalanceSet ==
  ASSUME NEW s \in State, NEW p \in Pair, NEW i \in Side, NEW m \in Nat
  PROVE  OneSet(s, WithBalance(s, p, i, m), p, i, m)
<1> DEFINE pr == s.pairs[p]
           b == [pr.balance EXCEPT ![i] = m]
           new == [pr EXCEPT !.balance = b]
           r == WithBalance(s, p, i, m)
<1>1. pr \in PairRecord /\ pr.balance \in [Side -> Nat] /\ s.pairs \in [Pair -> PairRecord]
  <2>1. pr \in PairRecord /\ s.pairs \in [Pair -> PairRecord]
    BY StateTyped
  <2> QED
    BY <2>1, PairTyped
<1>2. b \in [Side -> Nat] /\ b[i] = m /\ \A j \in Side \ {i} : b[j] = pr.balance[j]
  <2> HIDE DEF pr
  <2> QED
    BY <1>1
<1>3. r = [s EXCEPT !.pairs = [s.pairs EXCEPT ![p] = new]]
  BY <1>1 DEF WithBalance, State, PairRecord
<1> HIDE DEF b, r
<1>4. Rebalanced(pr, new) /\ new.balance = b /\ new \in PairRecord
  BY <1>1, <1>2, RebalancedIs DEF Rebalanced
<1> HIDE DEF new
<1>5. Replaced(s, r, p, new)
  BY <1>3, <1>4, ReplacedIs
<1>6. OneSet(s, r, p, i, m)
  BY <1>2, <1>4, <1>5 DEF Replaced, OneSet
<1> QED
  BY <1>6 DEF r

\* safeTransferFromPairToPair moves an amount from pair to pair and leaves the sum
\* over all pairs, also when both are the same pair.
LEMMA PayPairIs ==
  ASSUME NEW s \in State, Sorted(s), NEW p \in Pair, NEW q \in Pair, Trades(s, p), NEW i \in Side,
         NEW n \in Nat, NEW r \in PayPair(s, p, i, q, n)
  PROVE  Passed(s, r, p, q, OnSide(i, n))
<1> DEFINE t == s.pairs[p].token[i]
           b == s.pairs[p].balance[i]
           half == WithBalance(s, p, i, b - n)
<1>1. PICK j \in Side : /\ s.pairs[q].token[j] = t /\ b >= n
                        /\ r = [half EXCEPT !.pairs[q].balance[j] = @ + n]
  <2>1. [s EXCEPT !.pairs[p].balance[i] = @ - n] = half
    <3>1. s.pairs \in [Pair -> PairRecord] /\ s.pairs[p].balance \in [Side -> Nat]
      BY StateTyped, PairTyped
    <3> QED
      BY <3>1 DEF WithBalance, State, PairRecord
  <2>2. r \in {[half EXCEPT !.pairs[q].balance[j] = @ + n] : j \in {j \in Side : s.pairs[q].token[j] = t}}
        /\ b >= n
    BY <2>1 DEF PayPair
  <2> HIDE DEF half
  <2> QED
    BY <2>2
<1>2. \A k \in Pair, m \in Side : s.pairs[k].balance[m] \in Nat
  BY StateTyped, PairTyped
<1>3. t \in Token /\ t # 0 /\ b \in Nat /\ b - n \in Nat /\ s.pairs[p].token[1 - i] # t
  <2>1. t \in Token /\ s.pairs[p].token[1 - i] # t
    BY DEF Trades, Side
  <2>2. b \in Nat
    BY <1>2
  <2> HIDE DEF t, b
  <2> QED
    BY <1>1, <2>1, <2>2, TokenAssumption
<1>4. /\ half \in State /\ half.num = s.num /\ half.feeOn = s.feeOn /\ half.synced = s.synced
      /\ half.bal = s.bal
      /\ Rebalanced(s.pairs[p], half.pairs[p]) /\ \A k \in Pair \ {p} : half.pairs[k] = s.pairs[k]
      /\ half.pairs[p].balance[i] = b - n
      /\ \A m \in Side \ {i} : half.pairs[p].balance[m] = s.pairs[p].balance[m]
  <2>1. OneSet(s, half, p, i, b - n)
    <3> DEFINE d == b - n
    <3>1. d \in Nat
      BY <1>3
    <3> HIDE DEF d
    <3>2. OneSet(s, WithBalance(s, p, i, d), p, i, d)
      BY <3>1, BalanceSet
    <3> QED
      BY <3>2 DEF d
  <2> HIDE DEF half
  <2> QED
    BY <2>1 DEF OneSet
<1> DEFINE c == half.pairs[q].balance[j]
<1> HIDE DEF half
<1>5. c \in Nat /\ \A k \in Pair, m \in Side : half.pairs[k].balance[m] \in Nat
  BY <1>4, StateTyped, PairTyped
<1>6. r = WithBalance(half, q, j, c + n)
  <2>1. half.pairs \in [Pair -> PairRecord] /\ half.pairs[q].balance \in [Side -> Nat]
    BY <1>4, StateTyped, PairTyped
  <2> QED
    BY <1>1, <1>4, <2>1 DEF WithBalance, State, PairRecord
<1>7. /\ r \in State /\ r.num = half.num /\ r.feeOn = half.feeOn /\ r.synced = half.synced /\ r.bal = half.bal
      /\ Rebalanced(half.pairs[q], r.pairs[q]) /\ \A k \in Pair \ {q} : r.pairs[k] = half.pairs[k]
      /\ r.pairs[q].balance[j] = c + n
      /\ \A m \in Side \ {j} : r.pairs[q].balance[m] = half.pairs[q].balance[m]
  <2>1. OneSet(half, r, q, j, c + n)
    <3> DEFINE d == c + n
    <3>1. d \in Nat
      BY <1>5
    <3>2. r = WithBalance(half, q, j, d)
      BY <1>6
    <3> HIDE DEF d
    <3>3. OneSet(half, WithBalance(half, q, j, d), q, j, d)
      BY <1>4, <3>1, BalanceSet
    <3> QED
      BY <3>2, <3>3 DEF d
  <2> QED
    BY <2>1 DEF OneSet
<1>8. \A k \in Pair, m \in Side : r.pairs[k].balance[m] \in Nat
  BY <1>7, StateTyped, PairTyped
<1>9. \A k \in Pair : Rebalanced(s.pairs[k], half.pairs[k]) /\ Rebalanced(half.pairs[k], r.pairs[k])
  BY <1>4, <1>7, RebalancedRefl
<1>10. \A k \in Pair : Rebalanced(s.pairs[k], r.pairs[k])
  BY <1>9 DEF Rebalanced
<1>11. \A k \in Pair : half.pairs[k].token = s.pairs[k].token /\ r.pairs[k].token = s.pairs[k].token
  BY <1>9 DEF Rebalanced
<1>12. \A k \in Pair \ {p, q} : r.pairs[k] = s.pairs[k]
  BY <1>4, <1>7
<1>13. Trades(s, q)
  BY <1>1, <1>3 DEF Sorted
<1>14. s.pairs[q].token[1 - j] # t
  BY <1>1, <1>13 DEF Trades, Side
<1>15. CASE p = q
  <2>1. j = i
    BY <1>1, <1>3, <1>15 DEF Side
  <2>2. c = b - n
    BY <1>4, <1>15, <2>1
  <2>3. \A m \in Side : r.pairs[p].balance[m] = s.pairs[p].balance[m]
    BY <1>2, <1>3, <1>4, <1>7, <1>15, <2>1, <2>2
  <2>4. r.pairs[p].balance = s.pairs[p].balance
    <3>1. r.pairs[p].balance \in [Side -> Nat] /\ s.pairs[p].balance \in [Side -> Nat]
      BY <1>7, StateTyped, PairTyped
    <3> QED
      BY <2>3, <3>1
  <2>5. \A k \in Pair, m \in Side : r.pairs[k].token[m] = s.pairs[k].token[m]
                                    /\ r.pairs[k].balance[m] = s.pairs[k].balance[m]
    <3>1. ASSUME NEW k \in Pair PROVE r.pairs[k].balance = s.pairs[k].balance
      BY <1>12, <1>15, <2>4
    <3> QED
      BY <1>11, <3>1
  <2>6. \A u \in Token : Pooled(r, u) = Pooled(s, u)
    <3> HIDE DEF c, b, t
    <3>1. \A u : Pooled(r, u) = Pooled(s, u)
      BY <2>5, PooledSame
    <3> QED
      BY <3>1
  <2>7. \A k \in Pair : ~Trades(s, k) => r.pairs[k].balance = s.pairs[k].balance
    BY <1>12, <1>15, <2>4
  <2> QED
    BY <1>4, <1>7, <1>10, <1>12, <1>15, <2>4, <2>6, <2>7 DEF Passed
<1>16. CASE p # q
  <2>1. half.pairs[q] = s.pairs[q] /\ r.pairs[p] = half.pairs[p] /\ c = s.pairs[q].balance[j]
    BY <1>4, <1>7, <1>16
  <2>2. \A m \in Side : r.pairs[p].balance[m] + OnSide(i, n)[m] = s.pairs[p].balance[m]
    <3>1. ASSUME NEW m \in Side PROVE r.pairs[p].balance[m] + OnSide(i, n)[m] = s.pairs[p].balance[m]
      <4>1. CASE m = i
        BY <1>2, <1>3, <1>4, <2>1, <4>1 DEF OnSide
      <4>2. CASE m # i
        BY <1>2, <1>4, <2>1, <4>2 DEF OnSide
      <4> QED
        BY <4>1, <4>2
    <3> QED
      BY <3>1
  <2>3. \A m \in Side : r.pairs[q].balance[m] >= s.pairs[q].balance[m]
    <3>1. ASSUME NEW m \in Side PROVE r.pairs[q].balance[m] >= s.pairs[q].balance[m]
      <4>1. s.pairs[q].balance[m] \in Nat
        BY <1>2
      <4>2. CASE m = j
        BY <1>7, <2>1, <4>1, <4>2
      <4>3. CASE m # j
        BY <1>7, <2>1, <4>1, <4>3
      <4> QED
        BY <4>2, <4>3
    <3> QED
      BY <3>1
  <2>4. ASSUME NEW u \in Token PROVE Pooled(r, u) = Pooled(s, u)
    <3>1. /\ Pooled(s, u) \in Nat /\ Pooled(half, u) \in Nat
          /\ \A m \in Side : s.pairs[p].token[m] = u /\ s.pairs[p].token[1 - m] # u =>
                Pooled(half, u) = Pooled(s, u) - s.pairs[p].balance[m] + half.pairs[p].balance[m]
          /\ (\A m \in Side : s.pairs[p].token[m] # u) => Pooled(half, u) = Pooled(s, u)
      <4>1. \A k \in Pair, m \in Side : half.pairs[k].token[m] = s.pairs[k].token[m]
        BY <1>11
      <4>2. \A k \in Pair \ {p}, m \in Side : half.pairs[k].balance[m] = s.pairs[k].balance[m]
        BY <1>4
      <4> HIDE DEF b, c, t
      <4> QED
        BY <1>2, <1>5, <4>1, <4>2, PooledOfOne, SMTT(30)
    <3>2. /\ Pooled(half, u) \in Nat /\ Pooled(r, u) \in Nat
          /\ \A m \in Side : half.pairs[q].token[m] = u /\ half.pairs[q].token[1 - m] # u =>
                Pooled(r, u) = Pooled(half, u) - half.pairs[q].balance[m] + r.pairs[q].balance[m]
          /\ (\A m \in Side : half.pairs[q].token[m] # u) => Pooled(r, u) = Pooled(half, u)
      <4>1. \A k \in Pair, m \in Side : r.pairs[k].token[m] = half.pairs[k].token[m]
        BY <1>11
      <4>2. \A k \in Pair \ {q}, m \in Side : r.pairs[k].balance[m] = half.pairs[k].balance[m]
        BY <1>7
      <4> HIDE DEF b, c, t
      <4> QED
        BY <1>5, <1>8, <4>1, <4>2, PooledOfOne, ZenonT(30)
    <3>3. CASE u = t
      <4>1. Pooled(half, u) = Pooled(s, u) - b + (b - n)
        BY <1>3, <1>4, <3>1, <3>3
      <4>2. Pooled(r, u) = Pooled(half, u) - c + (c + n)
        BY <1>1, <1>7, <1>14, <2>1, <3>2, <3>3
      <4> HIDE DEF b, c
      <4> QED
        BY <1>3, <1>5, <3>1, <3>2, <4>1, <4>2
    <3>4. CASE u # t
      <4>1. Pooled(half, u) = Pooled(s, u)
        <5>1. CASE \A m \in Side : s.pairs[p].token[m] # u
          BY <3>1, <5>1
        <5>2. ASSUME NEW m \in Side, s.pairs[p].token[m] = u PROVE Pooled(half, u) = Pooled(s, u)
          <6>1. m # i /\ s.pairs[p].token[1 - m] # u
            BY <3>4, <5>2 DEF Trades, Side
          <6>2. Pooled(half, u) = Pooled(s, u) - s.pairs[p].balance[m] + half.pairs[p].balance[m]
            BY <3>1, <5>2, <6>1
          <6>3. half.pairs[p].balance[m] = s.pairs[p].balance[m] /\ s.pairs[p].balance[m] \in Nat
            BY <1>2, <1>4, <6>1
          <6> QED
            BY <3>1, <6>2, <6>3
        <5> QED
          BY <5>1, <5>2
      <4>2. Pooled(r, u) = Pooled(half, u)
        <5>1. CASE \A m \in Side : half.pairs[q].token[m] # u
          BY <3>2, <5>1
        <5>2. ASSUME NEW m \in Side, half.pairs[q].token[m] = u PROVE Pooled(r, u) = Pooled(half, u)
          <6>1. m # j /\ half.pairs[q].token[1 - m] # u
            BY <1>1, <1>13, <2>1, <3>4, <5>2 DEF Trades, Side
          <6>2. Pooled(r, u) = Pooled(half, u) - half.pairs[q].balance[m] + r.pairs[q].balance[m]
            BY <3>2, <5>2, <6>1
          <6>3. r.pairs[q].balance[m] = half.pairs[q].balance[m] /\ half.pairs[q].balance[m] \in Nat
            BY <1>5, <1>7, <6>1
          <6> QED
            BY <3>2, <6>2, <6>3
        <5> QED
          BY <5>1, <5>2
      <4> QED
        BY <4>1, <4>2
    <3> QED
      BY <3>3, <3>4
  <2>5. \A k \in Pair : ~Trades(s, k) => r.pairs[k].balance = s.pairs[k].balance
    BY <1>12, <1>13
  <2> QED
    BY <1>4, <1>7, <1>10, <1>12, <1>16, <2>2, <2>3, <2>4, <2>5 DEF Passed
<1> QED
  BY <1>15, <1>16

LEMMA PassedNothing ==
  ASSUME NEW s \in State, NEW p \in Pair, NEW q \in Pair, NEW i \in Side
  PROVE  Passed(s, s, p, q, OnSide(i, 0))
<1>1. \A k \in Pair, m \in Side : s.pairs[k].balance[m] \in Nat
  BY StateTyped, PairTyped
<1>2. \A m \in Side : OnSide(i, 0)[m] = 0
  BY DEF OnSide
<1>3. \A m \in Side : /\ s.pairs[p].balance[m] + OnSide(i, 0)[m] = s.pairs[p].balance[m]
                      /\ s.pairs[q].balance[m] >= s.pairs[q].balance[m]
  BY <1>1, <1>2
<1> QED
  BY <1>3, RebalancedRefl DEF Passed

LEMMA PassedTrades ==
  ASSUME NEW s, NEW r, NEW p, NEW q, NEW out, Passed(s, r, p, q, out)
  PROVE  /\ r \in State /\ \A k \in Pair : r.pairs[k].token = s.pairs[k].token
         /\ \A k \in Pair : Trades(r, k) <=> Trades(s, k)
         /\ Sorted(s) => Sorted(r)
<1>1. r \in State /\ \A k \in Pair : r.pairs[k].token = s.pairs[k].token
  BY DEF Passed, Rebalanced
<1> QED
  BY <1>1 DEF Trades, Sorted

\* The payments of both sides together.
LEMMA PassedTwice ==
  ASSUME NEW s \in State, NEW p \in Pair, NEW q \in Pair, NEW x \in Nat, NEW y \in Nat, NEW h, NEW r,
         Passed(s, h, p, q, OnSide(0, x)), Passed(h, r, p, q, OnSide(1, y))
  PROVE  Passed(s, r, p, q, Sides(x, y))
<1>1. h \in State /\ r \in State
  BY DEF Passed
<1>2. \A k \in Pair, m \in Side : /\ s.pairs[k].balance[m] \in Nat /\ h.pairs[k].balance[m] \in Nat
                                  /\ r.pairs[k].balance[m] \in Nat
  BY <1>1, StateTyped, PairTyped
<1>3. \A k \in Pair : Rebalanced(s.pairs[k], r.pairs[k])
  BY DEF Passed, Rebalanced
<1>4. \A k \in Pair \ {p, q} : r.pairs[k] = s.pairs[k]
  BY DEF Passed
<1>5. \A k \in Pair : ~Trades(s, k) => r.pairs[k].balance = s.pairs[k].balance
  <2>1. ASSUME NEW k \in Pair, ~Trades(s, k) PROVE r.pairs[k].balance = s.pairs[k].balance
    <3>1. ~Trades(h, k)
      BY <2>1, PassedTrades
    <3>2. h.pairs[k].balance = s.pairs[k].balance
      BY <2>1 DEF Passed
    <3>3. r.pairs[k].balance = h.pairs[k].balance
      BY <3>1 DEF Passed
    <3> QED
      BY <3>2, <3>3
  <2> QED
    BY <2>1
<1>6. \A t \in Token : Pooled(r, t) = Pooled(s, t)
  BY DEF Passed
<1>7. p = q => r.pairs[p].balance = s.pairs[p].balance
  BY DEF Passed
<1>8. ASSUME p # q, NEW i \in Side
      PROVE /\ r.pairs[p].balance[i] + Sides(x, y)[i] = s.pairs[p].balance[i]
            /\ r.pairs[q].balance[i] >= s.pairs[q].balance[i]
  <2>1. /\ h.pairs[p].balance[i] + OnSide(0, x)[i] = s.pairs[p].balance[i]
        /\ h.pairs[q].balance[i] >= s.pairs[q].balance[i]
        /\ r.pairs[p].balance[i] + OnSide(1, y)[i] = h.pairs[p].balance[i]
        /\ r.pairs[q].balance[i] >= h.pairs[q].balance[i]
    BY <1>8 DEF Passed
  <2>2. OnSide(0, x)[i] + OnSide(1, y)[i] = Sides(x, y)[i] /\ OnSide(0, x)[i] \in Nat /\ OnSide(1, y)[i] \in Nat
        /\ Sides(x, y)[i] \in Nat
    BY DEF OnSide, Sides, Side
  <2>3. /\ s.pairs[p].balance[i] \in Nat /\ h.pairs[p].balance[i] \in Nat /\ r.pairs[p].balance[i] \in Nat
        /\ s.pairs[q].balance[i] \in Nat /\ h.pairs[q].balance[i] \in Nat /\ r.pairs[q].balance[i] \in Nat
    BY <1>2
  <2> QED
    BY <2>1, <2>2, <2>3
<1>9. r.num = s.num /\ r.feeOn = s.feeOn /\ r.synced = s.synced /\ r.bal = s.bal
  BY DEF Passed
<1> QED
  BY <1>1, <1>3, <1>4, <1>5, <1>6, <1>7, <1>8, <1>9 DEF Passed

\* A listed pair has two tokens, and only a listed one.
LEMMA GoodSorted ==
  ASSUME NEW s, Good(s)
  PROVE  /\ Sorted(s) /\ \A k \in Pair : Trades(s, k) <=> k <= s.num
<1>1. 0 \notin Token
  BY TokenAssumption
<1> QED
  BY <1>1 DEF Good, Listed, Sorted, Trades, Side

\* A payment to a pair that is settled: the account, what is known of it and the
\* sum over the pairs stay.
Handed(s, r, p, q) ==
    /\ r \in State /\ r.num = s.num /\ r.feeOn = s.feeOn /\ r.bal = s.bal /\ r.synced = s.synced
    /\ \A t \in Token : Pooled(r, t) = Pooled(s, t)
    /\ \A k \in Pair : r.pairs[k].token = s.pairs[k].token /\ r.pairs[k].lp = s.pairs[k].lp
    /\ \A k \in Pair \ {p, q} : r.pairs[k] = s.pairs[k]
    /\ r.pairs[p].reserve = r.pairs[p].balance

\* A balance that only grew leaves a pair as good as it was.
LEMMA GrownBetter ==
  ASSUME NEW pr \in PairRecord, Worthy(pr), NEW feeOn \in BOOLEAN, NEW new, Rebalanced(pr, new),
         \A i \in Side : new.balance[i] >= pr.balance[i]
  PROVE  Better(pr, feeOn, new)
<1>1. new \in PairRecord /\ new.reserve = pr.reserve /\ new.lp = pr.lp
      /\ new.totalSupply = pr.totalSupply /\ new.kLast = pr.kLast
  BY DEF Rebalanced
<1>2. \A i \in Side : pr.reserve[i] \in Nat /\ pr.balance[i] \in Nat /\ new.balance[i] \in Nat
  BY <1>1, PairTyped
<1>3. Backed(new)
  BY <1>1, <1>2 DEF Worthy, Backed
<1>4. Worthy(new)
  BY <1>1, <1>3 DEF Worthy, Shared, Seeded, Charged
<1>5. Product(pr.reserve) <= Product(new.reserve)
  BY <1>1, PairTyped
<1> QED
  BY <1>1, <1>4, <1>5, BetterIdle

LEMMA SwapToPairIs ==
  ASSUME NEW s, Good(s), NEW p \in Pair, NEW q \in Pair, NEW out \in [Side -> Nat],
         NEW r \in SwapToPair(s, p, out, q)
  PROVE  /\ Payable(s, p, out) /\ Trades(s, p)
         /\ \E paid \in State : /\ Passed(s, paid, p, q, Sides(out[0], out[1]))
                                /\ r \in Settle(s, paid, p, out)
<1> DEFINE pay(w, i) == IF out[i] > 0 THEN PayPair(w, p, i, q, out[i]) ELSE {w}
<1>1. s \in State /\ out[0] \in Nat /\ out[1] \in Nat
  BY DEF Good, Side
<1>2. Payable(s, p, out)
  BY DEF SwapToPair
<1>3. PICK half \in pay(s, 0) : \E paid \in pay(half, 1) : r \in Settle(s, paid, p, out)
  <2>1. r \in Then(Then(pay(s, 0), LAMBDA h : pay(h, 1)), LAMBDA x : Settle(s, x, p, out))
    BY DEF SwapToPair
  <2> HIDE DEF pay
  <2> QED
    BY <2>1 DEF Then
<1>4. PICK paid \in pay(half, 1) : r \in Settle(s, paid, p, out)
  BY <1>3
<1>5. Trades(s, p) /\ Sorted(s)
  BY <1>2, PayableListed, GoodSorted
<1>6. Passed(s, half, p, q, OnSide(0, out[0]))
  <2>1. CASE out[0] > 0
    <3>1. half \in PayPair(s, p, 0, q, out[0])
      BY <1>3, <2>1
    <3> QED
      BY <1>1, <1>5, <3>1, PayPairIs DEF Side
  <2>2. CASE ~(out[0] > 0)
    <3>1. half = s /\ out[0] = 0
      BY <1>1, <1>3, <2>2
    <3> QED
      BY <1>1, <3>1, PassedNothing DEF Side
  <2> QED
    BY <2>1, <2>2
<1>7. half \in State /\ Trades(half, p) /\ Sorted(half)
  BY <1>5, <1>6, PassedTrades
<1>8. Passed(half, paid, p, q, OnSide(1, out[1]))
  <2>1. CASE out[1] > 0
    <3>1. paid \in PayPair(half, p, 1, q, out[1])
      BY <1>4, <2>1
    <3> QED
      BY <1>1, <1>7, <3>1, PayPairIs DEF Side
  <2>2. CASE ~(out[1] > 0)
    <3>1. paid = half /\ out[1] = 0
      BY <1>1, <1>4, <2>2
    <3> QED
      BY <1>1, <1>7, <3>1, PassedNothing DEF Side
  <2> QED
    BY <2>1, <2>2
<1> HIDE DEF pay
<1>9. Passed(s, paid, p, q, Sides(out[0], out[1]))
  BY <1>1, <1>6, <1>8, PassedTwice
<1>10. paid \in State
  BY <1>9 DEF Passed
<1> QED
  BY <1>2, <1>4, <1>5, <1>9, <1>10

\* A whole call of swapToPair.
LEMMA SwapToPairStep ==
  ASSUME NEW s, Good(s), NEW p \in Pair, NEW q \in Pair, NEW out \in [Side -> Nat],
         NEW r \in SwapToPair(s, p, out, q)
  PROVE  Improves(s, r) /\ Handed(s, r, p, q)
<1> DEFINE pr == s.pairs[p]
<1>1. s \in State /\ s.feeOn \in BOOLEAN /\ \A k \in Pair : s.pairs[k] \in PairRecord /\ Worthy(s.pairs[k])
  BY StateTyped DEF Good
<1>2. Payable(s, p, out) /\ Trades(s, p)
  BY SwapToPairIs
<1>3. PICK paid \in State : Passed(s, paid, p, q, Sides(out[0], out[1])) /\ r \in Settle(s, paid, p, out)
  BY SwapToPairIs
<1> DEFINE z == paid.pairs[p]
           new == [z EXCEPT !.reserve = z.balance]
<1>4. r \in Update(paid, p) /\ Product(pr.reserve) <= Product(z.balance)
  BY <1>1, <1>2, <1>3, SettleIs
<1>5. Replaced(paid, r, p, new)
  BY <1>4, UpdateIs
<1>6. Rebalanced(pr, z) /\ z \in PairRecord /\ z.balance \in [Side -> Nat]
  <2>1. Rebalanced(pr, z) /\ z \in PairRecord
    BY <1>3 DEF Passed, Rebalanced
  <2> QED
    BY <2>1, PairTyped
<1>7. /\ new \in PairRecord /\ new.reserve = z.balance /\ new.balance = z.balance /\ new.lp = pr.lp
      /\ new.token = pr.token /\ new.totalSupply = pr.totalSupply /\ new.kLast = pr.kLast
  BY <1>6 DEF Rebalanced, PairRecord
<1> HIDE DEF new, z
<1>8. /\ r \in State /\ r.num = s.num /\ r.feeOn = s.feeOn /\ r.bal = s.bal /\ r.synced = s.synced
      /\ r.pairs[p] = new /\ \A k \in Pair \ {p} : r.pairs[k] = paid.pairs[k]
  BY <1>3, <1>5 DEF Replaced, Passed
<1>9. Better(pr, s.feeOn, new)
  BY <1>1, <1>4, <1>7, SwappedBetter
<1>10. \A k \in Pair \ {p, q} : r.pairs[k] = s.pairs[k]
  BY <1>3, <1>8 DEF Passed
<1>11. ASSUME NEW k \in Pair PROVE Better(s.pairs[k], s.feeOn, r.pairs[k])
  <2>1. CASE k = p
    BY <1>8, <1>9, <2>1
  <2>2. CASE k = q /\ q # p
    <3>1. Rebalanced(s.pairs[k], r.pairs[k]) /\ \A i \in Side : r.pairs[k].balance[i] >= s.pairs[k].balance[i]
      BY <1>3, <1>8, <2>2 DEF Passed
    <3> QED
      BY <1>1, <3>1, GrownBetter
  <2>3. CASE k # p /\ k # q
    BY <1>1, <1>10, <2>3, BetterSame
  <2> QED
    BY <2>1, <2>2, <2>3
<1>12. \A k \in Pair : Worthy(r.pairs[k])
  BY <1>11 DEF Better
<1>13. \A k \in Pair : /\ r.pairs[k].token = s.pairs[k].token /\ r.pairs[k].lp = s.pairs[k].lp
                       /\ r.pairs[k].balance = paid.pairs[k].balance
  <2>1. ASSUME NEW k \in Pair
        PROVE /\ r.pairs[k].token = s.pairs[k].token /\ r.pairs[k].lp = s.pairs[k].lp
              /\ r.pairs[k].balance = paid.pairs[k].balance
    <3>1. CASE k = p
      BY <1>7, <1>8, <3>1 DEF z
    <3>2. CASE k # p
      BY <1>3, <1>8, <3>2 DEF Passed, Rebalanced
    <3> QED
      BY <3>1, <3>2
  <2> QED
    BY <2>1
<1>14. \A t \in Token : Pooled(r, t) = Pooled(s, t)
  <2>1. \A k \in Pair, m \in Side : r.pairs[k].token[m] = paid.pairs[k].token[m]
                                    /\ r.pairs[k].balance[m] = paid.pairs[k].balance[m]
    BY <1>3, <1>13 DEF Passed, Rebalanced
  <2>2. \A t : Pooled(r, t) = Pooled(paid, t)
    BY <2>1, PooledSame
  <2> QED
    BY <1>3, <2>2 DEF Passed
<1>15. Covered(r)
  BY <1>8, <1>14 DEF Good, Covered
<1>16. Listed(r)
  <2>1. ASSUME NEW k \in Pair
        PROVE IF k <= r.num
              THEN r.pairs[k].token[0] # r.pairs[k].token[1] /\ \A i \in Side : r.pairs[k].token[i] \in Token
              ELSE \A i \in Side : r.pairs[k].token[i] = 0 /\ r.pairs[k].balance[i] = 0
    <3>1. CASE k <= s.num
      BY <1>8, <1>13, <3>1 DEF Good, Listed
    <3>2. CASE ~(k <= s.num)
      <4>1. \A i \in Side : s.pairs[k].token[i] = 0 /\ s.pairs[k].balance[i] = 0
        BY <3>2 DEF Good, Listed
      <4>2. ~Trades(s, k)
        BY <3>2, GoodSorted
      <4>3. r.pairs[k].balance = s.pairs[k].balance
        BY <1>3, <1>13, <4>2 DEF Passed
      <4> QED
        BY <1>8, <1>13, <3>2, <4>1, <4>3
    <3> QED
      BY <3>1, <3>2
  <2> QED
    BY <2>1 DEF Listed
<1>17. Handed(s, r, p, q)
  BY <1>7, <1>8, <1>10, <1>13, <1>14 DEF Handed
<1> QED
  BY <1>8, <1>11, <1>12, <1>15, <1>16, <1>17 DEF Improves, Good

\* Without a deposit there is nothing to swap, not even from a pair to itself.
LEMMA NothingToSwap ==
  ASSUME NEW s, Good(s), NEW p \in Pair, NEW q \in Pair, NEW out \in [Side -> Nat],
         s.pairs[p].reserve = s.pairs[p].balance
  PROVE  SwapToPair(s, p, out, q) = {}
<1> SUFFICES ASSUME NEW r \in SwapToPair(s, p, out, q) PROVE FALSE
  OBVIOUS
<1> DEFINE pr == s.pairs[p]
<1>1. s \in State /\ pr \in PairRecord
  BY StateTyped DEF Good
<1>2. Payable(s, p, out) /\ Trades(s, p)
  BY SwapToPairIs
<1>3. PICK paid \in State : Passed(s, paid, p, q, Sides(out[0], out[1])) /\ r \in Settle(s, paid, p, out)
  BY SwapToPairIs
<1> DEFINE b == paid.pairs[p].balance
           in == Incoming(pr.reserve, b, out)
<1>4. /\ Product(pr.reserve) <= Product(b) /\ \E i \in Side : b[i] + out[i] > pr.reserve[i]
  BY <1>1, <1>2, <1>3, SettleIs
<1>5. \A i \in Side : pr.reserve[i] \in Nat /\ out[i] \in Nat /\ out[i] < pr.reserve[i] /\ b[i] \in Nat
  BY <1>1, <1>2, <1>3, StateTyped, PairTyped DEF Payable
<1>6. p = q
  <2>1. SUFFICES ASSUME p # q PROVE FALSE
    OBVIOUS
  <2>2. \A i \in Side : Sides(out[0], out[1])[i] = out[i]
    BY DEF Sides, Side
  <2>3. \A i \in Side : b[i] + out[i] = pr.reserve[i]
    BY <1>3, <2>1, <2>2 DEF Passed
  <2> QED
    BY <1>4, <1>5, <2>3
<1>7. b = pr.reserve
  BY <1>3, <1>6 DEF Passed
<1>8. Product(Adjusted(b, in)) >= 1000000 * Product(pr.reserve)
  BY <1>3, SMT DEF Settle
<1>9. \A i \in Side : in[i] = out[i]
  <2>1. ASSUME NEW i \in Side PROVE in[i] = out[i]
    <3>1. in[i] = Max({0, b[i] - (pr.reserve[i] - out[i])})
      BY DEF Incoming
    <3>2. b[i] - (pr.reserve[i] - out[i]) = out[i]
      BY <1>5, <1>7
    <3> DEFINE m == Max({0, out[i]})
    <3>3. in[i] = m
      BY <3>1, <3>2
    <3>4. m \in {0, out[i]} /\ m >= 0 /\ m >= out[i]
      <4>1. 0 \in Int /\ out[i] \in Int
        BY <1>5
      <4> QED
        BY <4>1, MaxOfTwo
    <3> HIDE DEF m, in
    <3> QED
      BY <1>5, <3>3, <3>4
  <2> QED
    BY <2>1
<1> DEFINE x == pr.reserve[0]
           y == pr.reserve[1]
           u == out[0]
           v == out[1]
<1>10. x \in Nat /\ y \in Nat /\ u \in Nat /\ v \in Nat /\ u < x /\ v < y /\ (u > 0 \/ v > 0)
  BY <1>2, <1>5 DEF Payable, Side
<1>11. Adjusted(b, in)[0] = 1000 * x - 3 * u /\ Adjusted(b, in)[1] = 1000 * y - 3 * v
  BY <1>7, <1>9 DEF Adjusted, Side
<1>12. (1000 * x - 3 * u) * (1000 * y - 3 * v) >= 1000000 * (x * y)
  BY <1>8, <1>11, SMT DEF Product
<1> HIDE DEF x, y, u, v
<1>13. (1000 * x - 3 * u) * (1000 * y - 3 * v) = 1000000 * (x * y) - 3 * (u * (1000 * y - 3 * v)) - 3000 * (x * v)
  BY <1>10, SMT
<1>14. u * (1000 * y - 3 * v) \in Nat /\ x * v \in Nat /\ x * y \in Nat
  <2>1. 1000 * y - 3 * v \in Nat
    BY <1>10, SMT
  <2> QED
    BY <1>10, <2>1, TimesMonotone
<1>15. u * (1000 * y - 3 * v) > 0 \/ x * v > 0
  <2>1. CASE u > 0
    <3>1. 1000 * y - 3 * v \in Nat /\ 1000 * y - 3 * v > 0
      BY <1>10, SMT
    <3>2. 1 * 1 <= u * (1000 * y - 3 * v)
      BY <1>10, <2>1, <3>1, TimesMonotone
    <3> QED
      BY <1>14, <3>2
  <2>2. CASE v > 0
    <3>1. 1 * 1 <= x * v
      BY <1>10, <2>2, TimesMonotone
    <3> QED
      BY <1>14, <3>1
  <2> QED
    BY <1>10, <2>1, <2>2
<1>16. FALSE
  <2> DEFINE f == u * (1000 * y - 3 * v)
             g == x * v
             h == x * y
  <2>1. f \in Nat /\ g \in Nat /\ h \in Nat /\ (f > 0 \/ g > 0)
    BY <1>14, <1>15
  <2>2. 1000000 * h - 3 * f - 3000 * g >= 1000000 * h
    BY <1>12, <1>13, SMT
  <2> HIDE DEF f, g, h
  <2> QED
    BY <2>1, <2>2, SMT
<1> QED
  BY <1>16

--------------------------------------------------------------------------------
(* Transactions.                                                             *)

LEMMA AmountsAre ==
  /\ \A n \in Deposit : n \in Nat
  /\ \A n \in ShareAmount : n \in Nat
  /\ \A n \in ShareAllowance : n \in Nat
  /\ \A x, y \in Output \cup {0} : Sides(x, y) \in [Side -> Nat]
<1>1. Deposit \subseteq Nat /\ Output \subseteq Nat /\ ShareAmount \subseteq Nat /\ ShareAllowance \subseteq Nat
  BY AmountAssumption
<1>2. \A x, y \in Output \cup {0} : Sides(x, y) \in [Side -> Nat]
  BY <1>1 DEF Sides, Side
<1> QED
  BY <1>1, <1>2

\* Every transaction keeps the invariant and makes no pair worse.
LEMMA NextStep ==
  ASSUME Good(st), Next
  PROVE  Improves(st, st')
<1>1. ASSUME NEW u \in Account, SendTokens(u) PROVE Improves(st, st')
  <2>1. PICK t \in Token, to \in Account \cup {Dex}, n \in Deposit : st' \in Transfer(st, t, u, to, n)
    BY <1>1 DEF SendTokens, Execute
  <2>2. to \in Holder /\ n \in Nat
    BY Holders, AmountsAre
  <2> QED
    BY <2>1, <2>2, TransferStep
<1>2. ASSUME NEW u \in Account, MintShares(u) PROVE Improves(st, st')
  BY <1>2, MintStep DEF MintShares, Execute
<1>3. ASSUME NEW u \in Account, BurnShares(u) PROVE Improves(st, st')
  BY <1>3, BurnStep DEF BurnShares, Execute
<1>4. ASSUME NEW u \in Account, SwapOut(u) PROVE Improves(st, st')
  <2>1. PICK p \in Pair, x \in Output \cup {0}, y \in Output \cup {0} : st' \in Swap(st, p, Sides(x, y), u)
    BY <1>4 DEF SwapOut, Execute
  <2>2. Sides(x, y) \in [Side -> Nat]
    BY AmountsAre
  <2> QED
    BY <2>1, <2>2, SwapStep
<1>5. ASSUME NEW u \in Account, SendShares(u) PROVE Improves(st, st')
  <2>1. PICK p \in Pair, to \in Account \cup {Dex}, n \in ShareAmount : st' \in LiqTransfer(st, p, u, to, n)
    BY <1>5 DEF SendShares, Execute
  <2>2. to \in Holder /\ to # Dead /\ n \in Nat
    BY Holders, AmountsAre
  <2> QED
    BY <2>1, <2>2, LiqTransferStep
<1>6. ASSUME NEW u \in Account, ApproveShares(u) PROVE Improves(st, st')
  <2>1. PICK p \in Pair, v \in Account, n \in ShareAllowance : st' \in LiqApprove(st, p, u, v, n)
    BY <1>6 DEF ApproveShares, Execute
  <2>2. u \in Holder /\ v \in Holder /\ n \in Nat
    BY Holders, AmountsAre
  <2> QED
    BY <2>1, <2>2, LiqApproveStep
<1>7. ASSUME NEW u \in Account, SpendShares(u) PROVE Improves(st, st')
  <2>1. PICK p \in Pair, v \in Account, n \in ShareAmount : st' \in LiqTransferFrom(st, p, u, v, Dex, n)
    BY <1>7 DEF SpendShares, Execute
  <2>2. u \in Holder /\ n \in Nat
    BY Holders, AmountsAre
  <2> QED
    BY <2>1, <2>2, LiqTransferFromStep
<1>8. ASSUME NEW u \in Account, SwitchFee(u) PROVE Improves(st, st')
  BY <1>8, FeeStep DEF SwitchFee, Execute
<1>9. CASE ListPair
  BY <1>9, CreatePairStep DEF ListPair, Execute
<1>10. CASE SyncPair
  BY <1>10, Sync2Step DEF SyncPair, Execute
<1>11. CASE SwapAcross
  <2>1. PICK p \in Pair, q \in Pair, x \in Output \cup {0}, y \in Output \cup {0} :
           st' \in SwapToPair(st, p, Sides(x, y), q)
    BY <1>11 DEF SwapAcross, Execute
  <2>2. Sides(x, y) \in [Side -> Nat]
    BY AmountsAre
  <2> QED
    BY <2>1, <2>2, SwapToPairStep
<1> QED
  BY <1>1, <1>2, <1>3, <1>4, <1>5, <1>6, <1>7, <1>8, <1>9, <1>10, <1>11 DEF Next

\* The invariant holds of every reachable state.
THEOREM GoodAlways == Spec => []Good(st)
<1>1. Init => Good(st)
  BY InitGood DEF Init
<1>2. Good(st) /\ [Next]_st => Good(st)'
  <2>1. Good(st) /\ Next => Good(st)'
    BY NextStep DEF Improves
  <2>2. Good(st) /\ UNCHANGED st => Good(st)'
    BY DEF Good, State, Listed, Covered, Pooled, Held, Slots
  <2> QED
    BY <2>1, <2>2
<1> QED
  BY <1>1, <1>2, PTL DEF Spec

\* The invariant in the words of the properties.
LEMMA PooledIs == \A t \in Token : PooledOf(t) = Pooled(st, t)
BY DEF PooledOf, Pooled, Held, Slots

LEMMA GoodSays ==
  ASSUME Good(st)
  PROVE  TypeOK /\ Solvent /\ ReservesCovered /\ SharesAddUp
<1>1. TypeOK
  BY DEF Good, TypeOK, State
<1>2. Solvent
  BY PooledIs DEF Good, Covered, Solvent
<1>3. ReservesCovered
  BY DEF Good, Worthy, Backed, ReservesCovered
<1>4. SharesAddUp
  BY DEF Good, Worthy, Shared, SharesAddUp
<1> QED
  BY <1>1, <1>2, <1>3, <1>4

\* No amount of tokens, shares or reserves ever goes below zero, whatever is called
\* in whatever order.
THEOREM TypesKept == Spec => []TypeOK
BY GoodAlways, GoodSays, PTL

\* The supply of every pair is what its holders own together.
THEOREM SharesKept == Spec => []SharesAddUp
BY GoodAlways, GoodSays, PTL

\* What a step may do to a pair, in the words of the properties.
LEMMA BetterSays ==
  ASSUME NEW pr \in PairRecord, NEW feeOn \in BOOLEAN, NEW new, Better(pr, feeOn, new), Worthy(pr)
  PROVE  /\ pr.totalSupply > 0 =>
               /\ new.totalSupply > 0 /\ \A i \in Side : new.reserve[i] > 0
               /\ Floor(pr, feeOn) * new.totalSupply * new.totalSupply
                     <= Product(new.reserve) * pr.totalSupply * pr.totalSupply
         /\ pr.kLast # 0 /\ new.kLast # 0 =>
               pr.kLast * new.totalSupply * new.totalSupply <= new.kLast * pr.totalSupply * pr.totalSupply
<1>1. new \in PairRecord /\ Worthy(new)
  BY DEF Better
<1>2. /\ pr.totalSupply \in Nat /\ new.totalSupply \in Nat /\ pr.kLast \in Nat /\ new.kLast \in Nat
      /\ Product(new.reserve) \in Nat /\ Product(pr.reserve) \in Nat
  BY <1>1, PairTyped
<1>3. Floor(pr, feeOn) \in Nat
  BY FloorIs
<1>4. \A a, b \in Nat : a * Square(b) = a * b * b
  BY DEF Square
<1>5. ASSUME pr.totalSupply > 0
      PROVE  /\ new.totalSupply > 0 /\ \A i \in Side : new.reserve[i] > 0
             /\ Floor(pr, feeOn) * Square(new.totalSupply) <= Product(new.reserve) * Square(pr.totalSupply)
  BY <1>1, <1>5 DEF Better, Worthy, Seeded
<1>6. ASSUME pr.kLast # 0, new.kLast # 0
      PROVE  pr.kLast * Square(new.totalSupply) <= new.kLast * Square(pr.totalSupply)
  BY <1>6 DEF Better
<1> QED
  BY <1>2, <1>3, <1>4, <1>5, <1>6

\* A pair with shares is never emptied of shares or of a reserve: the locked share
\* cannot be burned, and a payment leaves something on each side.
THEOREM SeededStays == Spec => StaysSeeded
<1>1. Good(st) /\ [Next]_st =>
        [\A p \in Pair : st.pairs[p].totalSupply > 0 =>
              /\ st'.pairs[p].totalSupply > 0
              /\ \A i \in Side : st'.pairs[p].reserve[i] > 0]_st
  <2>1. ASSUME Good(st), Next, NEW p \in Pair, st.pairs[p].totalSupply > 0
        PROVE  st'.pairs[p].totalSupply > 0 /\ \A i \in Side : st'.pairs[p].reserve[i] > 0
    <3>1. Better(st.pairs[p], st.feeOn, st'.pairs[p])
      BY <2>1, NextStep DEF Improves
    <3>2. st.pairs[p] \in PairRecord /\ st.feeOn \in BOOLEAN /\ Worthy(st.pairs[p])
      BY <2>1, StateTyped DEF Good
    <3> QED
      BY <2>1, <3>1, <3>2, BetterSays
  <2> QED
    BY <2>1
<1> QED
  BY <1>1, GoodAlways, PTL DEF Spec, StaysSeeded

\* No transaction lowers the value of a share, but for the fee on growth since kLast.
THEOREM ValueKept == Spec => ShareValueKept
<1>1. Good(st) /\ [Next]_st =>
        [\A p \in Pair :
          LET old == st.pairs[p]
              new == st'.pairs[p]
          IN  old.totalSupply > 0 =>
                  Floor(old, st.feeOn) * new.totalSupply * new.totalSupply
                      <= Product(new.reserve) * old.totalSupply * old.totalSupply]_st
  <2>1. ASSUME Good(st), Next, NEW p \in Pair, st.pairs[p].totalSupply > 0
        PROVE  Floor(st.pairs[p], st.feeOn) * st'.pairs[p].totalSupply * st'.pairs[p].totalSupply
                 <= Product(st'.pairs[p].reserve) * st.pairs[p].totalSupply * st.pairs[p].totalSupply
    <3>1. Better(st.pairs[p], st.feeOn, st'.pairs[p])
      BY <2>1, NextStep DEF Improves
    <3>2. st.pairs[p] \in PairRecord /\ st.feeOn \in BOOLEAN /\ Worthy(st.pairs[p])
      BY <2>1, StateTyped DEF Good
    <3> QED
      BY <2>1, <3>1, <3>2, BetterSays
  <2> QED
    BY <2>1
<1> QED
  BY <1>1, GoodAlways, PTL DEF Spec, ShareValueKept

\* Nor does it lower the value of a share at kLast, where the next fee starts.
THEOREM GrowthStays == Spec => GrowthKept
<1>1. Good(st) /\ [Next]_st =>
        [\A p \in Pair :
          LET old == st.pairs[p]
              new == st'.pairs[p]
          IN  old.kLast # 0 /\ new.kLast # 0 =>
                  old.kLast * new.totalSupply * new.totalSupply
                      <= new.kLast * old.totalSupply * old.totalSupply]_st
  <2>1. ASSUME Good(st), Next, NEW p \in Pair, st.pairs[p].kLast # 0, st'.pairs[p].kLast # 0
        PROVE  st.pairs[p].kLast * st'.pairs[p].totalSupply * st'.pairs[p].totalSupply
                 <= st'.pairs[p].kLast * st.pairs[p].totalSupply * st.pairs[p].totalSupply
    <3>1. Better(st.pairs[p], st.feeOn, st'.pairs[p])
      BY <2>1, NextStep DEF Improves
    <3>2. st.pairs[p] \in PairRecord /\ st.feeOn \in BOOLEAN /\ Worthy(st.pairs[p])
      BY <2>1, StateTyped DEF Good
    <3> QED
      BY <2>1, <3>1, <3>2, BetterSays
  <2> QED
    BY <2>1
<1> QED
  BY <1>1, GoodAlways, PTL DEF Spec, GrowthKept

--------------------------------------------------------------------------------
(* What is left over.                                                        *)

\* No surplus of pair k; of any pair but p; no shares in the contract's account; the
\* pools are what is known of the account; what is known of token t is right.
Even(s, k) == s.pairs[k].reserve = s.pairs[k].balance
Evens(s, p) == \A k \in Pair \ {p} : Even(s, k)
Unshared(s) == \A k \in Pair : s.pairs[k].lp[Dex] = 0
Known(s) == \A t \in Token : Pooled(s, t) = s.synced[t]
Told(s, t) == s.synced[t] = s.bal[t][Dex]
Claimed(s) == Known(s) /\ \A t \in Token : Told(s, t)
\* what holds between two transactions of the router
Neat(s) == Claimed(s) /\ Unshared(s) /\ \A k \in Pair : Even(s, k)

LEMMA InitNeat == Neat(InitState)
<1> DEFINE s == InitState
<1>1. /\ \A k \in Pair : s.pairs[k] = EmptyPair
      /\ \A t \in Token : s.synced[t] = 0 /\ s.bal[t][Dex] = 0
  BY Holders DEF InitState
<1>2. EmptyPair.reserve = EmptyPair.balance /\ EmptyPair.lp[Dex] = 0
      /\ \A i \in Side : EmptyPair.balance[i] = 0
  BY Holders DEF EmptyPair
<1> HIDE DEF s
<1>3. ASSUME NEW t \in Token PROVE Pooled(s, t) = 0
  <2>1. IsFiniteSet(Slots(s, t))
    BY SlotsFinite
  <2>2. \A x \in Slots(s, t) : Held(s)[x] = 0
    BY <1>1, <1>2 DEF Slots, Held
  <2> QED
    BY <2>1, <2>2, SumZero DEF Pooled
<1> QED
  BY <1>1, <1>2, <1>3 DEF Neat, Claimed, Known, Told, Unshared, Even, s

\* A token taken by allowance reaches the account, and only the account changes.
LEMMA TransferFromIs ==
  ASSUME NEW s, Good(s), NEW t \in Token, NEW spender \in Holder, NEW u \in Account, NEW n \in Nat,
         NEW r \in TransferFrom(s, t, spender, u, Dex, n)
  PROVE  /\ Good(r) /\ r.num = s.num /\ r.pairs = s.pairs /\ r.synced = s.synced
         /\ \A v \in Token \ {t} : r.bal[v] = s.bal[v]
<1> DEFINE m == s.appr[t][<<u, spender>>] - n
           h == [s EXCEPT !.appr[t][<<u, spender>>] = m]
<1>1. s \in State /\ u \in Holder /\ Dex \in Holder
  BY Holders DEF Good
<1>2. r \in Transfer(h, t, u, Dex, n) /\ m \in Nat
  <2>1. s.appr[t][<<u, spender>>] \in Nat
    BY <1>1, StateTyped
  <2> QED
    BY <1>1, <2>1 DEF TransferFrom
<1>3. Good(h) /\ h.bal = s.bal /\ h.pairs = s.pairs /\ h.num = s.num /\ h.synced = s.synced
  <2>1. h = [s EXCEPT !.appr[t][<<u, spender>>] = m]
    OBVIOUS
  <2> HIDE DEF h, m
  <2> QED
    BY <1>1, <1>2, <2>1, ApproveStep DEF Improves
<1> HIDE DEF h, m
<1>4. Good(r)
  BY <1>1, <1>2, <1>3, TransferStep DEF Improves
<1>5. Transferred(h, r, t, u, Dex, n)
  BY <1>1, <1>2, <1>3, TransferIs DEF Good
<1> QED
  BY <1>3, <1>4, <1>5 DEF Transferred

\* Crediting tells the contract of all its tokens, when it knew of every other one.
LEMMA CreditClaims ==
  ASSUME NEW s, Good(s), NEW p \in Pair, NEW r \in Sync2(s, p), Known(s),
         \A t \in Token : (\A i \in Side : s.pairs[p].token[i] # t) => Told(s, t)
  PROVE  Claimed(r)
<1>1. /\ Good(r) /\ Only(s, r, p) /\ Synchronised(s, r, p) /\ p <= s.num /\ r.bal = s.bal
      /\ \A i \in Side : LET t == s.pairs[p].token[i] IN
            s.synced[t] + r.pairs[p].balance[i] = s.bal[t][Dex] + s.pairs[p].balance[i]
  BY Sync2Step DEF Improves
<1>2. s \in State /\ r \in State
  BY <1>1 DEF Good
<1>3. \A q \in Pair, i \in Side : s.pairs[q].balance[i] \in Nat /\ r.pairs[q].balance[i] \in Nat
  BY <1>2, StateTyped, PairTyped
<1>4. /\ \A q \in Pair, i \in Side : r.pairs[q].token[i] = s.pairs[q].token[i]
      /\ \A q \in Pair \ {p}, i \in Side : r.pairs[q].balance[i] = s.pairs[q].balance[i]
  BY <1>1 DEF Only
<1>5. \A t \in Token :
        /\ Pooled(s, t) \in Nat /\ Pooled(r, t) \in Nat
        /\ \A i \in Side : s.pairs[p].token[i] = t /\ s.pairs[p].token[1 - i] # t =>
              Pooled(r, t) = Pooled(s, t) - s.pairs[p].balance[i] + r.pairs[p].balance[i]
        /\ (\A i \in Side : s.pairs[p].token[i] # t) => Pooled(r, t) = Pooled(s, t)
  BY <1>3, <1>4, PooledOfOne
<1>6. ASSUME NEW t \in Token PROVE Pooled(r, t) = r.synced[t] /\ Told(r, t)
  <2>1. CASE \A i \in Side : s.pairs[p].token[i] # t
    <3>1. Pooled(r, t) = Pooled(s, t) /\ r.synced[t] = s.synced[t] /\ Told(s, t)
      BY <1>1, <1>5, <2>1 DEF Synchronised
    <3> QED
      BY <1>1, <3>1 DEF Known, Told
  <2>2. CASE ~ \A i \in Side : s.pairs[p].token[i] # t
    <3>1. PICK i \in Side : s.pairs[p].token[i] = t
      BY <2>2
    <3>2. s.pairs[p].token[1 - i] # t
      BY <1>1, <3>1, TokensOf
    <3>3. Pooled(r, t) = Pooled(s, t) - s.pairs[p].balance[i] + r.pairs[p].balance[i]
      BY <1>5, <3>1, <3>2
    <3>4. s.synced[t] + r.pairs[p].balance[i] = s.bal[t][Dex] + s.pairs[p].balance[i]
      BY <1>1, <3>1
    <3>5. Pooled(s, t) = s.synced[t]
      BY DEF Known
    <3>6. r.synced[t] = r.bal[t][Dex]
      BY <1>1, <3>1 DEF Synchronised
    <3>7. s.synced[t] \in Nat /\ s.bal[t][Dex] \in Nat
      BY <1>2, StateTyped, Holders
    <3> QED
      BY <1>1, <1>3, <3>3, <3>4, <3>5, <3>6, <3>7 DEF Told
  <2> QED
    BY <2>1, <2>2
<1> QED
  BY <1>6 DEF Claimed, Known

\* What draws on one pair leaves no token unclaimed.
LEMMA DrawsClaimed ==
  ASSUME NEW s, Good(s), NEW r, Good(r), NEW p \in Pair, p <= s.num, Draws(s, r, p), Claimed(s)
  PROVE  Claimed(r)
<1>1. s \in State /\ r \in State
  BY DEF Good
<1>2. \A q \in Pair, i \in Side : s.pairs[q].balance[i] \in Nat /\ r.pairs[q].balance[i] \in Nat
  BY <1>1, StateTyped, PairTyped
<1>3. /\ \A q \in Pair, i \in Side : r.pairs[q].token[i] = s.pairs[q].token[i]
      /\ \A q \in Pair \ {p}, i \in Side : r.pairs[q].balance[i] = s.pairs[q].balance[i]
  BY DEF Draws, Only
<1>4. \A t \in Token :
        /\ Pooled(s, t) \in Nat /\ Pooled(r, t) \in Nat
        /\ \A i \in Side : s.pairs[p].token[i] = t /\ s.pairs[p].token[1 - i] # t =>
              Pooled(r, t) = Pooled(s, t) - s.pairs[p].balance[i] + r.pairs[p].balance[i]
        /\ (\A i \in Side : s.pairs[p].token[i] # t) => Pooled(r, t) = Pooled(s, t)
  BY <1>2, <1>3, PooledOfOne
<1>5. ASSUME NEW t \in Token PROVE Pooled(r, t) = r.synced[t] /\ Told(r, t)
  <2>0. Pooled(s, t) = s.synced[t] /\ s.synced[t] = s.bal[t][Dex]
    BY DEF Claimed, Known, Told
  <2>1. CASE \A i \in Side : s.pairs[p].token[i] # t
    <3>1. Pooled(r, t) = Pooled(s, t) /\ r.synced[t] = s.synced[t] /\ r.bal[t][Dex] = s.bal[t][Dex]
      BY <1>4, <2>1 DEF Draws, Synchronised
    <3> QED
      BY <2>0, <3>1 DEF Told
  <2>2. CASE ~ \A i \in Side : s.pairs[p].token[i] # t
    <3>1. PICK i \in Side : s.pairs[p].token[i] = t
      BY <2>2
    <3>2. s.pairs[p].token[1 - i] # t
      BY <3>1, TokensOf
    <3>3. Pooled(r, t) = Pooled(s, t) - s.pairs[p].balance[i] + r.pairs[p].balance[i]
      BY <1>4, <3>1, <3>2
    <3>4. r.bal[t][Dex] + s.pairs[p].balance[i] = s.bal[t][Dex] + r.pairs[p].balance[i]
      BY <3>1 DEF Draws
    <3>5. r.synced[t] = r.bal[t][Dex]
      BY <3>1 DEF Draws, Synchronised
    <3>6. r.bal[t][Dex] \in Nat /\ s.bal[t][Dex] \in Nat
      BY <1>1, StateTyped, Holders
    <3> QED
      BY <1>2, <2>0, <3>3, <3>4, <3>5, <3>6 DEF Told
  <2> QED
    BY <2>1, <2>2
<1> QED
  BY <1>5 DEF Claimed, Known

--------------------------------------------------------------------------------
(* Payments.                                                                 *)

\* what holds when a payment has reached pair p and before it is swapped
Midway(s, p) == Good(s) /\ Unshared(s) /\ Evens(s, p) /\ (Claimed(s) \/ Even(s, p))

\* What an allowance takes from the caller is known of no pair, so the tokens of
\* every pair are still what the contract knows of.
LEMMA TakenIs ==
  ASSUME NEW s, Good(s), NEW t \in Token, NEW u \in Account, NEW n \in Nat,
         NEW r \in TransferFrom(s, t, Router, u, Dex, n)
  PROVE  /\ Good(r) /\ r.num = s.num /\ \A k \in Pair : r.pairs[k] = s.pairs[k]
         /\ Known(s) => Known(r)
         /\ Unshared(s) => Unshared(r)
         /\ \A k \in Pair : Even(s, k) => Even(r, k)
         /\ \A v \in Token \ {t} : Told(s, v) => Told(r, v)
<1>1. /\ Good(r) /\ r.num = s.num /\ r.pairs = s.pairs /\ r.synced = s.synced
      /\ \A v \in Token \ {t} : r.bal[v] = s.bal[v]
  BY Holders, TransferFromIs
<1>2. \A v : Pooled(r, v) = Pooled(s, v)
  BY <1>1, PooledSame
<1> QED
  BY <1>1, <1>2 DEF Known, Unshared, Even, Told

\* Crediting pair p leaves the other pairs without a surplus.
LEMMA CreditIs ==
  ASSUME NEW s, Good(s), NEW p \in Pair, NEW r \in Sync2(s, p), Unshared(s)
  PROVE  /\ Good(r) /\ r.num = s.num /\ p <= s.num /\ Unshared(r)
         /\ \A k \in Pair : r.pairs[k].token = s.pairs[k].token
         /\ Evens(s, p) => Evens(r, p)
<1>1. Good(r) /\ Only(s, r, p) /\ r.pairs[p].lp = s.pairs[p].lp /\ p <= s.num
  BY Sync2Step DEF Improves
<1>2. \A k \in Pair : r.pairs[k].lp = s.pairs[k].lp /\ r.pairs[k].token = s.pairs[k].token
  BY <1>1 DEF Only
<1>3. Evens(s, p) => Evens(r, p)
  BY <1>1 DEF Only, Evens, Even
<1> QED
  BY <1>1, <1>2, <1>3 DEF Only, Unshared

\* A payment in a token of the pair is credited to it; one in any other token
\* leaves the pair with nothing to swap.
LEMMA PaidIs ==
  ASSUME NEW s, Good(s), Neat(s), NEW u \in Account, NEW p \in Pair, NEW src \in Token, NEW n \in Nat,
         NEW r \in Paid(s, u, p, src, n)
  PROVE  Midway(r, p)
<1>1. PICK h \in TransferFrom(s, src, Router, u, Dex, n) : r \in Sync2(h, p)
  BY DEF Paid, Then
<1>2. Known(s) /\ Unshared(s) /\ (\A k \in Pair : Even(s, k)) /\ \A t \in Token : Told(s, t)
  BY DEF Neat, Claimed
<1>3. /\ Good(h) /\ h.num = s.num /\ (\A k \in Pair : h.pairs[k] = s.pairs[k]) /\ Known(h) /\ Unshared(h)
      /\ (\A k \in Pair : Even(h, k)) /\ \A v \in Token \ {src} : Told(h, v)
  BY <1>1, <1>2, TakenIs
<1>4. Good(r) /\ Unshared(r) /\ Evens(r, p)
  BY <1>1, <1>3, CreditIs DEF Evens
<1>5. CASE \E i \in Side : h.pairs[p].token[i] = src
  <2>1. \A t \in Token : (\A i \in Side : h.pairs[p].token[i] # t) => Told(h, t)
    BY <1>3, <1>5
  <2>2. Claimed(r)
    BY <1>1, <1>3, <2>1, CreditClaims
  <2> QED
    BY <1>4, <2>2 DEF Midway
<1>6. CASE ~ \E i \in Side : h.pairs[p].token[i] = src
  <2>1. /\ p <= h.num /\ r.pairs[p].reserve = h.pairs[p].reserve
        /\ \A i \in Side : LET t == h.pairs[p].token[i] IN
              r.pairs[p].balance[i] = h.pairs[p].balance[i] + h.bal[t][Dex] - h.synced[t]
    BY <1>1, <1>3, Sync2Step
  <2>2. ASSUME NEW i \in Side PROVE r.pairs[p].balance[i] = h.pairs[p].balance[i]
    <3> DEFINE t == h.pairs[p].token[i]
    <3>1. t \in Token /\ t # src
      BY <1>3, <1>6, <2>1, TokensOf
    <3>2. Told(h, t)
      BY <1>3, <3>1
    <3>3. h.synced[t] \in Nat /\ h.bal[t][Dex] \in Nat /\ h.pairs[p].balance[i] \in Nat
      BY <1>3, <3>1, StateTyped, PairTyped, Holders DEF Good
    <3>4. r.pairs[p].balance[i] = h.pairs[p].balance[i] + h.bal[t][Dex] - h.synced[t]
      BY <2>1
    <3> HIDE DEF t
    <3> QED
      BY <3>2, <3>3, <3>4 DEF Told
  <2>3. r.pairs[p].balance \in [Side -> Nat] /\ h.pairs[p].balance \in [Side -> Nat]
    BY <1>3, <1>4, StateTyped, PairTyped DEF Good
  <2>4. r.pairs[p].balance = h.pairs[p].balance
    BY <2>2, <2>3
  <2>5. Even(r, p)
    BY <1>3, <2>1, <2>4 DEF Even
  <2> QED
    BY <1>4, <2>5 DEF Midway
<1> QED
  BY <1>5, <1>6

LEMMA PairOfIs ==
  ASSUME NEW s, Good(s), NEW t, NEW u, NEW p \in PairOf(s, t, u)
  PROVE  p \in Pair /\ p <= s.num /\ s.pairs[p].token = Sides(t, u)
<1>1. s.num \in Nat /\ MaxPairs \in Nat /\ s.num <= MaxPairs
  BY StateTyped, AmountAssumption DEF Good
<1> QED
  BY <1>1 DEF PairOf, Pair

\* The deposit of both tokens is an amount of each.
LEMMA BalancedIs ==
  ASSUME NEW pr \in PairRecord, NEW offer \in [Side -> Nat], NEW least, NEW n \in Balanced(pr, offer, least)
  PROVE  n \in [Side -> Nat]
<1> DEFINE quote(i) == (offer[i] * pr.reserve[1 - i]) \div pr.reserve[i]
<1>1. offer[0] \in Nat /\ offer[1] \in Nat /\ pr.reserve[0] \in Nat /\ pr.reserve[1] \in Nat
  BY PairTyped DEF Side
<1>2. ASSUME \A i \in Side : pr.reserve[i] # 0 PROVE quote(0) \in Nat /\ quote(1) \in Nat
  <2>1. pr.reserve[0] > 0 /\ pr.reserve[1] > 0
    BY <1>1, <1>2 DEF Side
  <2>2. offer[0] * pr.reserve[1] \in Nat /\ offer[1] * pr.reserve[0] \in Nat
    BY <1>1, TimesMonotone
  <2>3. 1 - 0 = 1 /\ 1 - 1 = 0
    OBVIOUS
  <2>4. quote(0) = (offer[0] * pr.reserve[1]) \div pr.reserve[0]
        /\ quote(1) = (offer[1] * pr.reserve[0]) \div pr.reserve[1]
    BY <2>3
  <2> HIDE DEF quote
  <2> QED
    BY <1>1, <2>1, <2>2, <2>4, Quotient
<1>3. \A x, y \in Nat : Sides(x, y) \in [Side -> Nat]
  BY DEF Sides, Side
<1>4. CASE \A i \in Side : pr.reserve[i] = 0
  <2>1. n = offer
    BY <1>4 DEF Balanced
  <2> QED
    BY <2>1
<1>5. CASE \E i \in Side : pr.reserve[i] = 0 \/ offer[i] <= 0
  <2>1. CASE \A i \in Side : pr.reserve[i] = 0
    BY <1>4, <2>1
  <2>2. CASE ~ \A i \in Side : pr.reserve[i] = 0
    <3>1. n \in {}
      BY <1>5, <2>2 DEF Balanced
    <3> QED
      BY <3>1
  <2> QED
    BY <2>1, <2>2
<1>6. CASE /\ ~ \A i \in Side : pr.reserve[i] = 0
           /\ ~ \E i \in Side : pr.reserve[i] = 0 \/ offer[i] <= 0
  <2>1. quote(0) \in Nat /\ quote(1) \in Nat
    BY <1>2, <1>6
  <2>2. CASE quote(0) <= offer[1]
    <3>1. n \in {a \in {Sides(offer[0], quote(0))} : a[1] >= least[1]}
      BY <1>6, <2>2 DEF Balanced
    <3> HIDE DEF quote
    <3>2. n = Sides(offer[0], quote(0))
      BY <3>1
    <3> QED
      BY <1>1, <1>3, <2>1, <3>2
  <2>3. CASE ~(quote(0) <= offer[1])
    <3>1. n \in {a \in {Sides(quote(1), offer[1])} : a[0] <= offer[0] /\ a[0] >= least[0]}
      BY <1>6, <2>3 DEF Balanced
    <3> HIDE DEF quote
    <3>2. n = Sides(quote(1), offer[1])
      BY <3>1
    <3> QED
      BY <1>1, <1>3, <2>1, <3>2
  <2> QED
    BY <2>2, <2>3
<1> HIDE DEF quote
<1> QED
  BY <1>4, <1>5, <1>6

--------------------------------------------------------------------------------
(* Liquidity.                                                                *)

\* A new pair leaves nothing over.
LEMMA CreatedNeat ==
  ASSUME NEW s, Good(s), Neat(s), NEW t \in Token, NEW u \in Token, NEW r \in CreatePair(s, t, u)
  PROVE  Good(r) /\ Neat(r)
<1>1. /\ Good(r) /\ r.bal = s.bal /\ r.synced = s.synced
      /\ \A q \in Pair : /\ r.pairs[q].reserve = s.pairs[q].reserve
                         /\ r.pairs[q].balance = s.pairs[q].balance /\ r.pairs[q].lp = s.pairs[q].lp
      /\ \A v \in Token : Pooled(r, v) = Pooled(s, v)
  BY CreatePairStep DEF Improves
<1> QED
  BY <1>1 DEF Neat, Claimed, Known, Told, Unshared, Even

\* Once the contract knows of every token, minting to an account leaves nothing over.
LEMMA MintedNeat ==
  ASSUME NEW s, Good(s), Claimed(s), Unshared(s), NEW p \in Pair, Evens(s, p),
         NEW to \in Account, NEW r \in Mint(s, p, to)
  PROVE  Good(r) /\ Neat(r)
<1>1. Good(r) /\ Draws(s, r, p) /\ p <= s.num /\ r.pairs[p].lp[Dex] = s.pairs[p].lp[Dex]
  BY MintStep DEF Improves
<1>2. Claimed(r)
  BY <1>1, DrawsClaimed
<1>3. \A k \in Pair : Even(r, k)
  BY <1>1 DEF Draws, Only, Even, Evens
<1>4. Unshared(r)
  BY <1>1 DEF Draws, Only, Unshared
<1> QED
  BY <1>1, <1>2, <1>3, <1>4 DEF Neat

\* Both tokens taken, credited and minted for.
LEMMA AddedTo ==
  ASSUME NEW s, Good(s), Neat(s), NEW u \in Account, NEW a \in Token, NEW b \in Token,
         NEW p \in PairOf(s, a, b), NEW n \in [Side -> Nat], NEW to \in Account,
         NEW h \in TransferFrom(s, a, Router, u, Dex, n[0]),
         NEW g \in TransferFrom(h, b, Router, u, Dex, n[1]),
         NEW x \in Sync2(g, p), NEW r \in Mint(x, p, to)
  PROVE  Good(r) /\ Neat(r)
<1>1. n[0] \in Nat /\ n[1] \in Nat
  BY DEF Side
<1>2. Known(s) /\ Unshared(s) /\ (\A k \in Pair : Even(s, k)) /\ \A t \in Token : Told(s, t)
  BY DEF Neat, Claimed
<1>3. /\ Good(h) /\ h.num = s.num /\ (\A k \in Pair : h.pairs[k] = s.pairs[k]) /\ Known(h) /\ Unshared(h)
      /\ (\A k \in Pair : Even(h, k)) /\ \A v \in Token \ {a} : Told(h, v)
  BY <1>1, <1>2, TakenIs
<1>4. /\ Good(g) /\ g.num = s.num /\ (\A k \in Pair : g.pairs[k] = s.pairs[k]) /\ Known(g) /\ Unshared(g)
      /\ (\A k \in Pair : Even(g, k)) /\ \A v \in Token \ {a, b} : Told(g, v)
  BY <1>1, <1>3, TakenIs
<1>5. p \in Pair /\ g.pairs[p].token = Sides(a, b)
  BY <1>4, PairOfIs
<1>6. \A t \in Token : (\A i \in Side : g.pairs[p].token[i] # t) => Told(g, t)
  <2>1. g.pairs[p].token[0] = a /\ g.pairs[p].token[1] = b
    BY <1>5 DEF Sides, Side
  <2> QED
    BY <1>4, <2>1 DEF Side
<1>7. Claimed(x)
  BY <1>4, <1>5, <1>6, CreditClaims
<1>8. Good(x) /\ Unshared(x) /\ Evens(x, p)
  BY <1>4, <1>5, CreditIs DEF Evens
<1> QED
  BY <1>5, <1>7, <1>8, MintedNeat

\* addLiquidity leaves nothing over.
LEMMA AddLiquidityNeat ==
  ASSUME NEW s, Good(s), Neat(s), NEW u \in Account, NEW t \in Token, NEW v \in Token,
         NEW offer \in [Side -> Nat], NEW least, NEW to \in Account,
         NEW r \in AddLiquidity(s, u, t, v, offer, least, to)
  PROVE  Good(r) /\ Neat(r)
<1> DEFINE a == Min({t, v})
           b == Max({t, v})
           listed == IF PairOf(s, a, b) = {} THEN CreatePair(s, a, b) ELSE {s}
           take(z, n) == Then(TransferFrom(z, a, Router, u, Dex, n[0]),
                              LAMBDA half : TransferFrom(half, b, Router, u, Dex, n[1]))
           add(z, p, n) == Then(Then(take(z, n), LAMBDA x : Sync2(x, p)), LAMBDA x : Mint(x, p, to))
           addTo(z, p) == Then(Balanced(z.pairs[p], offer, least), LAMBDA n : add(z, p, n))
<1>1. a \in Token /\ b \in Token
  <2>1. t \in Int /\ v \in Int
    BY TokenAssumption
  <2> QED
    BY <2>1, MinOfTwo, MaxOfTwo
<1>2. r \in Then(listed, LAMBDA z : Then(PairOf(z, a, b), LAMBDA p : addTo(z, p)))
  BY DEF AddLiquidity
<1> HIDE DEF a, b, listed, addTo
<1>3. PICK z \in listed : r \in Then(PairOf(z, a, b), LAMBDA p : addTo(z, p))
  BY <1>2 DEF Then
<1>4. PICK p \in PairOf(z, a, b) : r \in addTo(z, p)
  BY <1>3 DEF Then
<1>5. PICK n \in Balanced(z.pairs[p], offer, least) : r \in add(z, p, n)
  BY <1>4 DEF Then, addTo
<1>6. PICK x \in Then(take(z, n), LAMBDA y : Sync2(y, p)) : r \in Mint(x, p, to)
  BY <1>5 DEF Then
<1>7. PICK g \in take(z, n) : x \in Sync2(g, p)
  BY <1>6 DEF Then
<1>8. PICK h \in TransferFrom(z, a, Router, u, Dex, n[0]) : g \in TransferFrom(h, b, Router, u, Dex, n[1])
  BY <1>7 DEF Then
<1> HIDE DEF take, add
<1>9. Good(z) /\ Neat(z)
  <2>1. CASE z \in CreatePair(s, a, b)
    BY <1>1, <2>1, CreatedNeat
  <2>2. CASE z = s
    BY <2>2
  <2> QED
    BY <1>3, <2>1, <2>2 DEF listed
<1>10. n \in [Side -> Nat]
  <2>1. p \in Pair /\ z.pairs[p] \in PairRecord
    BY <1>9, PairOfIs, StateTyped DEF Good
  <2> QED
    BY <1>5, <2>1, BalancedIs
<1> QED
  BY <1>1, <1>4, <1>6, <1>7, <1>8, <1>9, <1>10, AddedTo

\* removeLiquidity leaves nothing over: burn takes all shares of the contract's account.
LEMMA RemoveLiquidityNeat ==
  ASSUME NEW s, Good(s), Neat(s), NEW u \in Account, NEW p \in Pair, NEW n \in Nat, NEW least,
         NEW to \in Account, NEW r \in RemoveLiquidity(s, u, p, n, least, to)
  PROVE  Good(r) /\ Neat(r)
<1>1. PICK h \in LiqTransferFrom(s, p, Router, u, Dex, n) : \E x \in Sync2(h, p) : r \in Burn(x, p, to)
  BY DEF RemoveLiquidity, Then
<1>2. PICK x \in Sync2(h, p) : r \in Burn(x, p, to)
  BY <1>1
<1>3. /\ Good(h) /\ h.num = s.num /\ h.synced = s.synced /\ h.bal = s.bal
      /\ \A q \in Pair : /\ h.pairs[q].token = s.pairs[q].token /\ h.pairs[q].balance = s.pairs[q].balance
                         /\ h.pairs[q].reserve = s.pairs[q].reserve
                         /\ (q # p => h.pairs[q].lp = s.pairs[q].lp)
  BY <1>1, LiqTransferFromStep, Holders DEF Improves
<1>4. Claimed(h) /\ Evens(h, p)
  <2>1. \A q \in Pair, i \in Side : h.pairs[q].token[i] = s.pairs[q].token[i]
                                    /\ h.pairs[q].balance[i] = s.pairs[q].balance[i]
    BY <1>3
  <2>2. \A t : Pooled(h, t) = Pooled(s, t)
    BY <2>1, PooledSame
  <2> QED
    BY <1>3, <2>2 DEF Neat, Claimed, Known, Told, Evens, Even
<1>5. Claimed(x)
  BY <1>2, <1>3, <1>4, CreditClaims DEF Claimed
<1>6. Good(x) /\ Only(h, x, p)
  BY <1>2, <1>3, Sync2Step DEF Improves
<1>7. Good(r) /\ Draws(x, r, p) /\ p <= x.num /\ r.pairs[p].lp[Dex] = 0
  BY <1>2, <1>6, BurnStep DEF Improves
<1>8. Claimed(r)
  BY <1>5, <1>6, <1>7, DrawsClaimed
<1>9. \A k \in Pair : Even(r, k)
  BY <1>4, <1>6, <1>7 DEF Draws, Only, Even, Evens
<1>10. Unshared(r)
  BY <1>3, <1>6, <1>7 DEF Draws, Only, Unshared, Neat
<1> QED
  BY <1>7, <1>8, <1>9, <1>10 DEF Neat

--------------------------------------------------------------------------------
(* Loops over a path.                                                        *)

\* Induction up to N, for a set.
LEMMA UpTo ==
  ASSUME NEW N \in Nat, NEW T, 0 \in T, \A n \in 1..N : n - 1 \in T => n \in T
  PROVE  \A n \in 0..N : n \in T
<1> DEFINE X == {n \in 0..N : n \notin T}
<1>1. SUFFICES ASSUME X # {} PROVE FALSE
  OBVIOUS
<1>2. X \in SUBSET Nat
  OBVIOUS
<1>3. PICK m \in X : \A y \in X : m <= y
  BY <1>1, <1>2, LeastNumber
<1>4. m \in 1..N /\ m - 1 \in 0..N
  BY <1>3
<1>5. m - 1 \in T
  BY <1>3, <1>4
<1> QED
  BY <1>3, <1>4, <1>5

\* f starts at v and takes the steps of G
Iterates(f, N, v, G) == f = [n \in 0..N |-> IF n = 0 THEN v ELSE G[<<n, f[n - 1]>>]]

\* Such a function keeps the range of its steps, and it exists.
LEMMA IteratesTyped ==
  ASSUME NEW N \in Nat, NEW V, NEW v \in V, NEW G \in [(1..N) \X V -> V], NEW f, Iterates(f, N, v, G)
  PROVE  f \in [0..N -> V]
<1> DEFINE T == {n \in 0..N : f[n] \in V}
<1>1. 0 \in T
  BY DEF Iterates
<1>2. ASSUME NEW n \in 1..N, n - 1 \in T PROVE n \in T
  <2>1. n \in 0..N /\ n # 0
    OBVIOUS
  <2>2. f[n] = G[<<n, f[n - 1]>>]
    BY <2>1 DEF Iterates
  <2>3. f[n - 1] \in V
    BY <1>2
  <2> QED
    BY <2>1, <2>2, <2>3
<1>3. \A n \in 0..N : n \in T
  BY <1>1, <1>2, UpTo
<1> QED
  BY <1>3 DEF Iterates

LEMMA IteratesExist ==
  ASSUME NEW N \in Nat, NEW V, NEW v \in V, NEW G \in [(1..N) \X V -> V]
  PROVE  \E f : Iterates(f, N, v, G)
<1> DEFINE T == {n \in 0..N : \E f : Iterates(f, n, v, G)}
<1>1. 0 \in T
  <2>1. PICK f : f = [n \in 0..0 |-> v]
    OBVIOUS
  <2>2. f = [n \in 0..0 |-> IF n = 0 THEN v ELSE G[<<n, f[n - 1]>>]]
    BY <2>1
  <2> QED
    BY <2>2 DEF Iterates
<1>2. ASSUME NEW n \in 1..N, n - 1 \in T PROVE n \in T
  <2>1. PICK f : Iterates(f, n - 1, v, G)
    BY <1>2
  <2>2. PICK w : w = G[<<n, f[n - 1]>>]
    OBVIOUS
  <2>3. PICK g : g = [k \in 0..n |-> IF k = n THEN w ELSE f[k]]
    OBVIOUS
  <2>4. ASSUME NEW k \in 0..n PROVE g[k] = IF k = 0 THEN v ELSE G[<<k, g[k - 1]>>]
    <3>1. CASE k = n
      <4>1. g[k] = w /\ g[k - 1] = f[k - 1]
        BY <2>3, <3>1
      <4> QED
        BY <2>2, <3>1, <4>1
    <3>2. CASE k # n
      <4>1. k \in 0..(n - 1)
        BY <3>2
      <4>2. f[k] = IF k = 0 THEN v ELSE G[<<k, f[k - 1]>>]
        BY <2>1, <4>1 DEF Iterates
      <4>3. g[k] = f[k]
        BY <2>3, <3>2
      <4>4. CASE k = 0
        BY <4>2, <4>3, <4>4
      <4>5. CASE k # 0
        <5>1. k - 1 \in 0..n /\ k - 1 # n
          BY <4>1, <4>5
        <5>2. g[k - 1] = f[k - 1]
          BY <2>3, <5>1
        <5> QED
          BY <4>2, <4>3, <4>5, <5>2
      <4> QED
        BY <4>4, <4>5
    <3> QED
      BY <3>1, <3>2
  <2>5. Iterates(g, n, v, G)
    BY <2>3, <2>4 DEF Iterates
  <2> QED
    BY <2>5
<1>3. N \in 0..N
  OBVIOUS
<1>4. \A n \in 0..N : n \in T
  BY <1>1, <1>2, UpTo
<1> QED
  BY <1>3, <1>4

LEMMA PathIs ==
  ASSUME NEW path \in Path
  PROVE  Len(path) \in Nat \ {0} /\ path \in [1..Len(path) -> Pair]
<1>1. PICK n \in 1..MaxHops : path \in [1..n -> Pair]
  BY DEF Path
<1>2. n \in Nat \ {0}
  BY RouterAssumption
<1>3. path \in Seq(Pair) /\ Len(path) = n
  BY <1>1, <1>2
<1> QED
  BY <1>1, <1>2, <1>3

LEMMA SideOfIs ==
  ASSUME NEW s, NEW p, NEW t
  PROVE  SideOf(s, p, t) \in Side /\ 1 - SideOf(s, p, t) \in Side
BY DEF SideOf, Side

\* getAmountOut returns an amount.
LEMMA AmountOutIs ==
  ASSUME NEW x \in Nat, NEW a \in Nat, NEW b \in Nat
  PROVE  AmountOut(x, a, b) \in Nat
<1>1. CASE x > 0 /\ a > 0 /\ b > 0
  <2>1. 997 * x \in Nat /\ 1000 * a \in Nat /\ 997 * x * b \in Nat
    <3>1. 997 * x \in Nat /\ 1000 * a \in Nat
      BY SMT
    <3> QED
      BY <3>1, TimesMonotone
  <2>2. 1000 * a + 997 * x \in Nat /\ 1000 * a + 997 * x > 0
    BY <1>1, SMT
  <2> DEFINE y == 997 * x * b
             d == 1000 * a + 997 * x
  <2>3. AmountOut(x, a, b) = y \div d
    BY <1>1, SMT DEF AmountOut
  <2> HIDE DEF y, d
  <2>4. y \in Nat /\ d \in Nat /\ d > 0
    BY <2>1, <2>2 DEF y, d
  <2> QED
    BY <2>3, <2>4, Quotient
<1>2. CASE ~(x > 0 /\ a > 0 /\ b > 0)
  BY <1>2 DEF AmountOut
<1> QED
  BY <1>1, <1>2

\* what is on the way between two pairs
OnTheWay == [amount : Nat, token : Token \cup {0}]
Hop(s, w, p) ==
    LET pr == s.pairs[p]
        i  == SideOf(s, p, w.token)
    IN  [amount |-> AmountOut(w.amount, pr.reserve[i], pr.reserve[1 - i]), token |-> pr.token[1 - i]]

LEMMA HopIs ==
  ASSUME NEW s \in State, NEW w \in OnTheWay, NEW p \in Pair
  PROVE  Hop(s, w, p) \in OnTheWay
<1> DEFINE pr == s.pairs[p]
           i == SideOf(s, p, w.token)
<1>1. i \in Side /\ 1 - i \in Side
  BY SideOfIs
<1>2. pr \in PairRecord
  BY StateTyped
<1> HIDE DEF i
<1>3. pr.reserve[i] \in Nat /\ pr.reserve[1 - i] \in Nat /\ pr.token[1 - i] \in Token \cup {0}
  BY <1>1, <1>2, PairTyped
<1>4. w.amount \in Nat
  BY DEF OnTheWay
<1>5. AmountOut(w.amount, pr.reserve[i], pr.reserve[1 - i]) \in Nat
  BY <1>3, <1>4, AmountOutIs
<1> HIDE DEF pr
<1>6. Hop(s, w, p) = [amount |-> AmountOut(w.amount, pr.reserve[i], pr.reserve[1 - i]), token |-> pr.token[1 - i]]
  BY DEF Hop, pr, i
<1> QED
  BY <1>3, <1>5, <1>6 DEF OnTheWay

\* Each hop of getAmountsOut has an amount.
LEMMA HopsAre ==
  ASSUME NEW s \in State, NEW x \in Nat, NEW src \in Token, NEW path \in Path
  PROVE  \A n \in 0..Len(path) : Hops(s, x, src, path)[n].amount \in Nat
<1> DEFINE N == Len(path)
           v == [amount |-> x, token |-> src]
           G == [y \in (1..N) \X OnTheWay |-> Hop(s, y[2], path[y[1]])]
           Hopping(f) == f = [n \in 0..N |-> IF n = 0 THEN v ELSE Hop(s, f[n - 1], path[n])]
           hop == CHOOSE f : Hopping(f)
<1>1. N \in Nat /\ path \in [1..N -> Pair]
  BY PathIs
<1>2. Hops(s, x, src, path) = hop
  BY DEF Hops, Hop
<1>3. v \in OnTheWay
  BY DEF OnTheWay
<1>4. \A n \in 1..N, w \in OnTheWay : G[<<n, w>>] = Hop(s, w, path[n])
  OBVIOUS
<1>5. G \in [(1..N) \X OnTheWay -> OnTheWay]
  <2>1. \A y \in (1..N) \X OnTheWay : Hop(s, y[2], path[y[1]]) \in OnTheWay
    BY <1>1, HopIs
  <2> QED
    BY <2>1
<1> HIDE DEF G, v, N
<1>6. ASSUME NEW f, f \in [0..N -> OnTheWay]
      PROVE  [n \in 0..N |-> IF n = 0 THEN v ELSE Hop(s, f[n - 1], path[n])]
             = [n \in 0..N |-> IF n = 0 THEN v ELSE G[<<n, f[n - 1]>>]]
  <2>1. ASSUME NEW n \in 0..N, n # 0 PROVE Hop(s, f[n - 1], path[n]) = G[<<n, f[n - 1]>>]
    <3>1. n \in 1..N /\ n - 1 \in 0..N
      BY <1>1, <2>1
    <3> QED
      BY <1>4, <1>6, <3>1
  <2> QED
    BY <2>1
<1>7. \E f : Hopping(f)
  <2>1. PICK f : Iterates(f, N, v, G)
    BY <1>1, <1>3, <1>5, IteratesExist
  <2>2. f \in [0..N -> OnTheWay]
    BY <1>1, <1>3, <1>5, <2>1, IteratesTyped
  <2>3. f = [n \in 0..N |-> IF n = 0 THEN v ELSE G[<<n, f[n - 1]>>]]
    BY <2>1 DEF Iterates
  <2>4. Hopping(f)
    BY <1>6, <2>2, <2>3, Zenon
  <2> HIDE DEF Hopping
  <2> QED
    BY <2>4
<1>8. Hopping(hop)
  BY <1>7
<1> HIDE DEF hop
<1>9. \A n \in 0..N : hop[n] \in OnTheWay
  <2> DEFINE T == {n \in 0..N : hop[n] \in OnTheWay}
  <2>1. 0 \in T
    BY <1>1, <1>3, <1>8
  <2>2. ASSUME NEW n \in 1..N, n - 1 \in T PROVE n \in T
    <3>1. n \in 0..N /\ n # 0
      BY <1>1
    <3>2. hop[n] = Hop(s, hop[n - 1], path[n])
      BY <1>8, <3>1
    <3>3. hop[n - 1] \in OnTheWay /\ path[n] \in Pair
      BY <1>1, <2>2
    <3> QED
      BY <3>1, <3>2, <3>3, HopIs
  <2> HIDE DEF T
  <2>3. \A n \in 0..N : n \in T
    BY <1>1, <2>1, <2>2, UpTo
  <2> QED
    BY <2>3 DEF T
<1> QED
  BY <1>2, <1>9 DEF OnTheWay, N

--------------------------------------------------------------------------------
(* Routes.                                                                   *)

\* the states that hop n makes of those before it
Passing(X, s, hops, path, n) ==
    Then(X, LAMBDA r : SwapToPair(r, path[n], Wanted(s, hops, path, n), path[n + 1]))
Passings(f, s, hops, path) ==
    f = [n \in 0..(Len(path) - 1) |-> IF n = 0 THEN {s} ELSE Passing(f[n - 1], s, hops, path, n)]

LEMMA WantedIs ==
  ASSUME NEW s, NEW hops, NEW path, NEW n, hops[n].amount \in Nat
  PROVE  Wanted(s, hops, path, n) \in [Side -> Nat]
BY DEF Wanted, Sides, Side

LEMMA PassingIs ==
  ASSUME NEW X, \A x \in X : Good(x), NEW s, NEW hops, NEW path, NEW n, hops[n].amount \in Nat,
         path[n] \in Pair, path[n + 1] \in Pair
  PROVE  \A r \in Passing(X, s, hops, path, n) :
            Good(r) /\ \E x \in X : r \in SwapToPair(x, path[n], Wanted(s, hops, path, n), path[n + 1])
<1> SUFFICES ASSUME NEW r \in Passing(X, s, hops, path, n)
             PROVE  Good(r) /\ \E x \in X :
                       r \in SwapToPair(x, path[n], Wanted(s, hops, path, n), path[n + 1])
  OBVIOUS
<1> DEFINE W == Wanted(s, hops, path, n)
<1>1. PICK x \in X : r \in SwapToPair(x, path[n], W, path[n + 1])
  BY DEF Passing, Then
<1>2. Good(x) /\ W \in [Side -> Nat]
  BY WantedIs
<1> HIDE DEF W
<1>3. Good(r)
  BY <1>1, <1>2, SwapToPairStep DEF Improves
<1> QED
  BY <1>1, <1>3 DEF W

\* The states between two pairs of a path are defined.
LEMMA PassingsExist ==
  ASSUME NEW s, Good(s), NEW path \in Path, NEW hops, \A n \in 1..Len(path) : hops[n].amount \in Nat
  PROVE  \E f : Passings(f, s, hops, path)
<1> DEFINE N == Len(path) - 1
           Sound == {r \in State : Good(r)}
           V == SUBSET Sound
           G == [y \in (1..N) \X V |-> Passing(y[2], s, hops, path, y[1])]
<1>1. N \in Nat /\ \A n \in 1..N : path[n] \in Pair /\ path[n + 1] \in Pair /\ hops[n].amount \in Nat
  BY PathIs
<1>2. \A n \in 1..N, X \in V : G[<<n, X>>] = Passing(X, s, hops, path, n)
  OBVIOUS
<1>3. G \in [(1..N) \X V -> V]
  <2>1. ASSUME NEW n \in 1..N, NEW X \in V PROVE Passing(X, s, hops, path, n) \in V
    <3>1. \A x \in X : Good(x)
      OBVIOUS
    <3> HIDE DEF N
    <3>2. \A r \in Passing(X, s, hops, path, n) : Good(r)
      BY <1>1, <3>1, PassingIs
    <3> QED
      BY <3>2 DEF Good
  <2> HIDE DEF V, N
  <2>2. \A y \in (1..N) \X V : Passing(y[2], s, hops, path, y[1]) \in V
    BY <2>1
  <2> QED
    BY <2>2
<1>4. {s} \in V
  BY DEF Good
<1> HIDE DEF G, V, N
<1>5. PICK f : Iterates(f, N, {s}, G)
  BY <1>1, <1>3, <1>4, IteratesExist
<1>6. f \in [0..N -> V]
  BY <1>1, <1>3, <1>4, <1>5, IteratesTyped
<1>7. f = [n \in 0..N |-> IF n = 0 THEN {s} ELSE G[<<n, f[n - 1]>>]]
  BY <1>5 DEF Iterates
<1>8. \A n \in 0..N : n # 0 => G[<<n, f[n - 1]>>] = Passing(f[n - 1], s, hops, path, n)
  <2>1. ASSUME NEW n \in 0..N, n # 0 PROVE G[<<n, f[n - 1]>>] = Passing(f[n - 1], s, hops, path, n)
    <3>1. n \in 1..N /\ n - 1 \in 0..N
      BY <1>1, <2>1
    <3>2. f[n - 1] \in V
      BY <1>6, <3>1
    <3> QED
      BY <1>2, <3>1, <3>2
  <2> QED
    BY <2>1
<1>9. f = [n \in 0..N |-> IF n = 0 THEN {s} ELSE Passing(f[n - 1], s, hops, path, n)]
  BY <1>7, <1>8
<1> QED
  BY <1>9 DEF Passings, N

\* A pair that hands on its surplus keeps none, and hands on nothing when the
\* contract has not been told of a deposit.
LEMMA HandedMidway ==
  ASSUME NEW s, NEW p \in Pair, NEW q \in Pair, Midway(s, p), NEW out \in [Side -> Nat],
         NEW r \in SwapToPair(s, p, out, q)
  PROVE  Midway(r, q)
<1>1. Good(s) /\ Unshared(s) /\ Evens(s, p) /\ (Claimed(s) \/ Even(s, p))
  BY DEF Midway
<1>2. Good(r) /\ Handed(s, r, p, q)
  BY <1>1, SwapToPairStep DEF Improves
<1>3. Claimed(s)
  BY <1>1, NothingToSwap DEF Even
<1>4. Claimed(r) /\ Unshared(r)
  BY <1>1, <1>2, <1>3 DEF Claimed, Known, Told, Unshared, Handed
<1>5. Evens(r, q)
  BY <1>1, <1>2 DEF Evens, Even, Handed
<1> QED
  BY <1>2, <1>4, <1>5 DEF Midway

\* The last swap of a path leaves nothing over.
LEMMA SwappedNeat ==
  ASSUME NEW s, NEW p \in Pair, Midway(s, p), NEW out \in [Side -> Nat], NEW to \in Account,
         NEW r \in Swap(s, p, out, to)
  PROVE  Good(r) /\ Neat(r)
<1>1. Good(s) /\ Unshared(s) /\ Evens(s, p) /\ (Claimed(s) \/ Even(s, p))
  BY DEF Midway
<1>2. /\ Good(r) /\ Draws(s, r, p) /\ p <= s.num /\ r.pairs[p].lp = s.pairs[p].lp
      /\ \E i \in Side : s.pairs[p].balance[i] > s.pairs[p].reserve[i]
  BY <1>1, SwapStep DEF Improves
<1>3. Claimed(s)
  <2>1. ASSUME Even(s, p) PROVE FALSE
    <3>1. PICK i \in Side : s.pairs[p].balance[i] > s.pairs[p].reserve[i]
      BY <1>2
    <3>2. s.pairs[p].balance[i] \in Nat
      BY <1>1, StateTyped, PairTyped DEF Good
    <3> QED
      BY <2>1, <3>1, <3>2 DEF Even
  <2> QED
    BY <1>1, <2>1
<1>4. Claimed(r)
  BY <1>1, <1>2, <1>3, DrawsClaimed
<1>5. \A k \in Pair : Even(r, k)
  BY <1>1, <1>2 DEF Draws, Only, Even, Evens
<1>6. Unshared(r)
  BY <1>1, <1>2 DEF Draws, Only, Unshared
<1> QED
  BY <1>2, <1>4, <1>5, <1>6 DEF Neat

\* internal_swap leaves nothing over, however long the path and whatever pairs it repeats.
LEMMA RouteNeat ==
  ASSUME NEW path \in Path, NEW s, Midway(s, path[1]), NEW hops,
         \A n \in 1..Len(path) : hops[n].amount \in Nat, NEW to \in Account,
         NEW r \in Route(s, hops, path, to)
  PROVE  Good(r) /\ Neat(r)
<1> DEFINE last == Len(path)
           reached == CHOOSE f : Passings(f, s, hops, path)
<1>1. last \in Nat \ {0} /\ \A n \in 1..last : path[n] \in Pair
  BY PathIs
<1>2. Passings(reached, s, hops, path)
  BY PassingsExist DEF Midway
<1>3. PICK x \in reached[last - 1] : r \in Swap(x, path[last], Wanted(s, hops, path, last), to)
  <2>1. r \in Then(reached[last - 1], LAMBDA x : Swap(x, path[last], Wanted(s, hops, path, last), to))
    BY DEF Route, Passings, Passing
  <2> HIDE DEF reached
  <2> QED
    BY <2>1 DEF Then
<1> HIDE DEF reached, last
<1> DEFINE T == {n \in 0..(last - 1) : \A y \in reached[n] : Midway(y, path[n + 1])}
<1>4. 0 \in T
  <2>1. 0 \in 0..(last - 1)
    BY <1>1
  <2>2. reached[0] = {s}
    BY <1>2, <2>1 DEF Passings, last
  <2> QED
    BY <2>1, <2>2
<1>5. ASSUME NEW n \in 1..(last - 1), n - 1 \in T PROVE n \in T
  <2>1. n \in 0..(last - 1) /\ n # 0 /\ n \in 1..last /\ n + 1 \in 1..last
    BY <1>1
  <2>2. reached[n] = Passing(reached[n - 1], s, hops, path, n)
    BY <1>2, <2>1 DEF Passings, last
  <2>3. hops[n].amount \in Nat /\ path[n] \in Pair /\ path[n + 1] \in Pair
    BY <1>1, <2>1 DEF last
  <2>4. \A y \in reached[n - 1] : Midway(y, path[n])
    <3>1. n - 1 + 1 = n
      BY <2>1
    <3> QED
      BY <1>5, <3>1
  <2>5. ASSUME NEW z \in reached[n] PROVE Midway(z, path[n + 1])
    <3>1. \A y \in reached[n - 1] : Good(y)
      BY <2>4 DEF Midway
    <3>2. PICK y \in reached[n - 1] : z \in SwapToPair(y, path[n], Wanted(s, hops, path, n), path[n + 1])
      BY <2>2, <2>3, <2>5, <3>1, PassingIs
    <3>3. Midway(y, path[n])
      BY <2>4
    <3> QED
      BY <2>3, <3>2, <3>3, WantedIs, HandedMidway
  <2> QED
    BY <2>1, <2>5
<1>6. last - 1 \in Nat /\ last - 1 \in 0..(last - 1) /\ last - 1 + 1 = last /\ last \in 1..last
  BY <1>1
<1> HIDE DEF T
<1>7. \A n \in 0..(last - 1) : n \in T
  BY <1>4, <1>5, <1>6, UpTo
<1>8. Midway(x, path[last])
  BY <1>3, <1>6, <1>7 DEF T
<1>9. hops[last].amount \in Nat /\ path[last] \in Pair
  BY <1>1, <1>6 DEF last
<1> QED
  BY <1>3, <1>8, <1>9, WantedIs, SwappedNeat

--------------------------------------------------------------------------------
(* Transactions.                                                             *)

LEMMA RouterAmounts ==
  /\ \A n \in Approval : n \in Nat
  /\ \A n \in In : n \in Nat
  /\ \A x, y \in In : Sides(x, y) \in [Side -> Nat]
<1>1. Approval \subseteq Nat /\ In \subseteq Nat
  BY RouterAssumption
<1>2. \A x, y \in In : Sides(x, y) \in [Side -> Nat]
  BY <1>1 DEF Sides, Side
<1> QED
  BY <1>1, <1>2

\* swapExactTokensForTokens leaves nothing over.
LEMMA SwapExactNeat ==
  ASSUME NEW s, Good(s), Neat(s), NEW u \in Account, NEW n \in Nat, NEW least, NEW path \in Path,
         NEW src \in Token, NEW to \in Account, NEW r \in SwapExact(s, u, n, least, path, src, to)
  PROVE  Good(r) /\ Neat(r)
<1> DEFINE hops == Hops(s, n, src, path)
<1>1. path[1] \in Pair /\ Len(path) \in Nat
  BY PathIs
<1>2. PICK x \in Paid(s, u, path[1], src, n) : r \in Route(x, hops, path, to)
  BY DEF SwapExact, Then
<1>3. \A k \in 1..Len(path) : hops[k].amount \in Nat
  BY <1>1, HopsAre DEF Good
<1> HIDE DEF hops
<1>4. Midway(x, path[1])
  BY <1>1, <1>2, PaidIs
<1> QED
  BY <1>2, <1>3, <1>4, RouteNeat

\* The variants for tokens that take a fee leave nothing over.
LEMMA SwapSurplusNeat ==
  ASSUME NEW s, Good(s), Neat(s), NEW u \in Account, NEW n \in Nat, NEW least, NEW path \in Path,
         NEW src \in Token, NEW to \in Account, NEW r \in SwapSurplus(s, u, n, least, path, src, to)
  PROVE  Good(r) /\ Neat(r)
<1> DEFINE surplus(x) == LET pr == x.pairs[path[1]]
                             i == SideOf(x, path[1], src)
                         IN  pr.balance[i] - pr.reserve[i]
           hops(x) == Hops(x, surplus(x), src, path)
<1>1. path[1] \in Pair /\ Len(path) \in Nat
  BY PathIs
<1>2. PICK x \in Paid(s, u, path[1], src, n) : r \in Route(x, hops(x), path, to)
  BY DEF SwapSurplus, Then
<1>3. Midway(x, path[1])
  BY <1>1, <1>2, PaidIs
<1>4. x \in State /\ Worthy(x.pairs[path[1]])
  BY <1>1, <1>3 DEF Midway, Good
<1>5. surplus(x) \in Nat
  <2> DEFINE i == SideOf(x, path[1], src)
             pr == x.pairs[path[1]]
  <2>1. i \in Side
    BY SideOfIs
  <2>2. surplus(x) = pr.balance[i] - pr.reserve[i]
    OBVIOUS
  <2> HIDE DEF surplus, i
  <2>3. pr.balance[i] \in Nat /\ pr.reserve[i] \in Nat
    BY <1>1, <1>4, <2>1, StateTyped, PairTyped
  <2>4. pr.reserve[i] <= pr.balance[i]
    BY <1>4, <2>1 DEF Worthy, Backed
  <2> QED
    BY <2>2, <2>3, <2>4
<1> HIDE DEF surplus
<1>6. \A k \in 1..Len(path) : hops(x)[k].amount \in Nat
  BY <1>1, <1>4, <1>5, HopsAre
<1> HIDE DEF hops
<1> QED
  BY <1>2, <1>3, <1>6, RouteNeat

\* What does not touch a token, a reserve or a share leaves nothing over.
LEMMA ApprovalNeat ==
  ASSUME NEW s, Neat(s), NEW r, r.bal = s.bal, r.synced = s.synced,
         \A q \in Pair : /\ r.pairs[q].token = s.pairs[q].token /\ r.pairs[q].balance = s.pairs[q].balance
                         /\ r.pairs[q].reserve = s.pairs[q].reserve /\ r.pairs[q].lp = s.pairs[q].lp
  PROVE  Neat(r)
<1>1. \A t : Pooled(r, t) = Pooled(s, t)
  BY PooledSame
<1> QED
  BY <1>1 DEF Neat, Claimed, Known, Told, Unshared, Even

\* Every transaction through the router leaves nothing over.
LEMMA RouterStep ==
  ASSUME Good(st), Neat(st), RouterNext
  PROVE  Good(st') /\ Neat(st')
<1>1. PICK u \in Account :
         \/ ApproveRouter(u) \/ ApproveRouterShares(u) \/ SwitchFee(u)
         \/ AddLiquidityTx(u) \/ RemoveLiquidityTx(u) \/ SwapExactTx(u) \/ SwapSurplusTx(u)
  BY DEF RouterNext
<1>2. u \in Holder /\ Router \in Holder
  BY Holders
<1>3. CASE ApproveRouter(u)
  <2>1. PICK t \in Token, n \in Approval : st' = [st EXCEPT !.appr[t][<<u, Router>>] = n]
    BY <1>3 DEF ApproveRouter, Execute, Approve
  <2>2. n \in Nat
    BY RouterAmounts
  <2>3. Good(st') /\ st'.bal = st.bal /\ st'.pairs = st.pairs /\ st'.synced = st.synced
    BY <1>2, <2>1, <2>2, ApproveStep DEF Improves
  <2> QED
    BY <2>3, ApprovalNeat
<1>4. CASE ApproveRouterShares(u)
  <2>1. PICK p \in Pair, n \in ShareAllowance : st' \in LiqApprove(st, p, u, Router, n)
    BY <1>4 DEF ApproveRouterShares, Execute
  <2>2. n \in Nat
    BY AmountsAre
  <2>3. /\ Good(st') /\ st'.bal = st.bal /\ st'.synced = st.synced
        /\ \A q \in Pair : /\ st'.pairs[q].token = st.pairs[q].token
                           /\ st'.pairs[q].balance = st.pairs[q].balance
                           /\ st'.pairs[q].reserve = st.pairs[q].reserve
                           /\ st'.pairs[q].lp = st.pairs[q].lp
    BY <1>2, <2>1, <2>2, LiqApproveStep DEF Improves
  <2> QED
    BY <2>3, ApprovalNeat
<1>5. CASE SwitchFee(u)
  <2>1. PICK en \in BOOLEAN : st' \in EnableFee(st, u, en)
    BY <1>5 DEF SwitchFee, Execute
  <2>2. Good(st') /\ st'.bal = st.bal /\ st'.pairs = st.pairs /\ st'.synced = st.synced
    BY <2>1, FeeStep DEF Improves
  <2> QED
    BY <2>2, ApprovalNeat
<1>6. CASE AddLiquidityTx(u)
  <2>1. PICK t \in Token, v \in Token, x \in In, y \in In, min \in Minimum :
           st' \in AddLiquidity(st, u, t, v, Sides(x, y), Sides(min, min), u)
    BY <1>6 DEF AddLiquidityTx, Execute
  <2>2. Sides(x, y) \in [Side -> Nat]
    BY RouterAmounts
  <2> QED
    BY <2>1, <2>2, AddLiquidityNeat
<1>7. CASE RemoveLiquidityTx(u)
  <2>1. PICK p \in Pair, n \in ShareAmount, min \in Minimum :
           st' \in RemoveLiquidity(st, u, p, n, Sides(min, min), u)
    BY <1>7 DEF RemoveLiquidityTx, Execute
  <2>2. n \in Nat
    BY AmountsAre
  <2> QED
    BY <2>1, <2>2, RemoveLiquidityNeat
<1>8. CASE SwapExactTx(u)
  <2>1. PICK path \in Path, src \in Token, in \in In, min \in Minimum :
           st' \in SwapExact(st, u, in, min, path, src, u)
    BY <1>8 DEF SwapExactTx, Execute
  <2>2. in \in Nat
    BY RouterAmounts
  <2> QED
    BY <2>1, <2>2, SwapExactNeat
<1>9. CASE SwapSurplusTx(u)
  <2>1. PICK path \in Path, src \in Token, in \in In, min \in Minimum :
           st' \in SwapSurplus(st, u, in, min, path, src, u)
    BY <1>9 DEF SwapSurplusTx, Execute
  <2>2. in \in Nat
    BY RouterAmounts
  <2> QED
    BY <2>1, <2>2, SwapSurplusNeat
<1> QED
  BY <1>1, <1>3, <1>4, <1>5, <1>6, <1>7, <1>8, <1>9

\* The inductive invariant.
Tidy == Good(st) /\ routed \in BOOLEAN /\ (routed => Neat(st))

\* The invariant holds whoever calls con_pairs directly or through the router.
THEOREM TidyAlways == DexSpec => []Tidy
<1>1. Init /\ routed \in BOOLEAN => Tidy
  BY InitGood, InitNeat DEF Init, Tidy
<1>2. Tidy /\ [routed' = routed /\ IF routed THEN RouterNext ELSE DirectNext]_<<st, routed>> => Tidy'
  <2>1. ASSUME Tidy, routed' = routed, routed, RouterNext PROVE Tidy'
    BY <2>1, RouterStep DEF Tidy
  <2>2. ASSUME Tidy, routed' = routed, ~routed, DirectNext PROVE Tidy'
    <3>1. Next
      BY <2>2 DEF DirectNext, Next
    <3>2. Good(st')
      BY <2>2, <3>1, NextStep DEF Tidy, Improves
    <3> QED
      BY <2>2, <3>2 DEF Tidy
  <2>3. ASSUME Tidy, UNCHANGED <<st, routed>> PROVE Tidy'
    <3>1. st' = st /\ routed' = routed
      BY <2>3
    <3> QED
      BY <2>3, <3>1 DEF Tidy
  <2> QED
    BY <2>1, <2>2, <2>3
<1> QED
  BY <1>1, <1>2, PTL DEF DexSpec

\* The contract owns every token its pairs believe to hold, through compositions of
\* calls as well.
THEOREM SolventAlways == DexSpec => []Solvent
<1>1. Tidy => Solvent
  BY GoodSays DEF Tidy
<1> QED
  BY <1>1, TidyAlways, PTL

\* No reserve exceeds the balance it was taken from.
THEOREM ReservesAlways == DexSpec => []ReservesCovered
<1>1. Tidy => ReservesCovered
  BY GoodSays DEF Tidy
<1> QED
  BY <1>1, TidyAlways, PTL

\* When everyone goes through the router, every token of the account is in a reserve
\* and no share waits for the next caller, for any path, amount and number of pairs.
THEOREM NothingLeft == DexSpec => []NothingLeftOver
<1>1. Tidy => NothingLeftOver
  BY PooledIs DEF Tidy, Neat, Claimed, Known, Told, Unshared, Even, NothingLeftOver
<1> QED
  BY <1>1, TidyAlways, PTL
================================================================================

------------------------------ MODULE SumProofs ------------------------------
(***************************************************************************)
(* Facts about MapThenSumSet, the sum that the totals of KPI instances are *)
(* made of: it takes the elements of a finite set in the order of CHOOSE,  *)
(* and what it yields does not depend on that order.                       *)
(***************************************************************************)
EXTENDS Integers, FiniteSets, FiniteSetsExt, FiniteSetTheorems, TLAPS

-----------------------------------------------------------------------------
(* Induction without an operator: on a set of numbers, and a least element *)
(* among the subsets of a finite set.                                      *)

LEMMA NumbersFromZero ==
  ASSUME NEW T, T \subseteq Nat, 0 \in T, \A n \in T : n + 1 \in T
  PROVE  T = Nat
<1>1. SUFFICES ASSUME Nat \ T # {} PROVE FALSE
  OBVIOUS
<1>2. IsWellFoundedOn(OpToRel(<, Nat), Nat) BY NatLessThanWellFounded
<1>3. PICK n \in Nat \ T : \A m \in Nat \ T : ~ (<<m, n>> \in OpToRel(<, Nat))
  <2> DEFINE R == OpToRel(<, Nat)
             U == Nat \ T
  <2>1. IsWellFoundedOn(R, Nat) /\ U \subseteq Nat /\ U # {} BY <1>1, <1>2
  <2> HIDE DEF R, U
  <2>2. \E n \in U : \A m \in U : ~ (<<m, n>> \in R) BY <2>1, WFMin
  <2>3. QED BY <2>2 DEF R, U
<1>4. n \in Nat /\ n \notin T OBVIOUS
<1>5. n # 0 BY <1>4
<1>6. n - 1 \in Nat BY <1>4, <1>5
<1>7. n - 1 \in T
  <2>1. <<n - 1, n>> \in OpToRel(<, Nat) BY <1>4, <1>6 DEF OpToRel
  <2>2. QED BY <1>3, <1>6, <2>1
<1>8. (n - 1) + 1 \in T BY <1>7
<1>9. (n - 1) + 1 = n BY <1>4
<1>10. QED BY <1>4, <1>8, <1>9

LEMMA LeastNumber ==
  ASSUME NEW I, I \subseteq Nat, I # {}
  PROVE  \E i \in I : \A j \in I : i <= j
<1> DEFINE T == {k \in Nat : \A j \in I : k <= j}
<1>1. SUFFICES ASSUME \A k \in T : k + 1 \in T PROVE FALSE
  OBVIOUS
<1>2. T = Nat
  <2>1. T \subseteq Nat /\ 0 \in T
    OBVIOUS
  <2> HIDE DEF T
  <2> QED
    BY <1>1, <2>1, NumbersFromZero
<1>3. PICK j \in I : TRUE
  OBVIOUS
<1>4. j + 1 \in Nat /\ ~ (j + 1 <= j)
  OBVIOUS
<1> QED
  BY <1>2, <1>3, <1>4

LEMMA LeastSubset ==
  ASSUME NEW S, IsFiniteSet(S), NEW T, T \subseteq SUBSET S, T # {}
  PROVE  \E s \in T : \A t \in T : t \subseteq s => t = s
<1> DEFINE R == StrictSubsetOrdering(S)
<1>1. IsWellFoundedOn(R, SUBSET S)
  BY FS_StrictSubsetOrderingWellFounded, FS_FiniteSubsetsOfFinite
<1> HIDE DEF R
<1>2. PICK s \in T : \A t \in T : ~ (<<t, s>> \in R) BY <1>1, WFMin
<1>3. ASSUME NEW t \in T, t \subseteq s PROVE t = s
  <2>1. t \in SUBSET S /\ s \in SUBSET S OBVIOUS
  <2>2. t # s => <<t, s>> \in R BY <1>3, <2>1 DEF R, StrictSubsetOrdering
  <2>3. QED BY <1>2, <2>2
<1>4. QED BY <1>2, <1>3

-----------------------------------------------------------------------------
(* The function the sum is defined by: it takes one element out at a time. *)
Pick(s) == CHOOSE x \in s : TRUE

Sums(g, S, w) ==
  \A s \in SUBSET S : g[s] = IF s = {} THEN 0 ELSE w[Pick(s)] + g[s \ {Pick(s)}]

LEMMA PickIn ==
  ASSUME NEW s, s # {}
  PROVE  Pick(s) \in s
BY DEF Pick

(* There is such a function: it can be given up to any size of subset.     *)
LEMMA SumsExist ==
  ASSUME NEW S, IsFiniteSet(S), NEW w \in [S -> Int]
  PROVE  \E g \in [SUBSET S -> Int] : Sums(g, S, w)
<1> DEFINE Upto(g, n) ==
             \A s \in SUBSET S : Cardinality(s) <= n =>
               g[s] = IF s = {} THEN 0 ELSE w[Pick(s)] + g[s \ {Pick(s)}]
           T == {n \in Nat : \E g \in [SUBSET S -> Int] : Upto(g, n)}
<1>1. \A s \in SUBSET S : IsFiniteSet(s) /\ Cardinality(s) \in Nat
  BY FS_Subset, FS_CardinalityType
<1>2. 0 \in T
  <2> DEFINE g == [s \in SUBSET S |-> 0]
  <2>1. g \in [SUBSET S -> Int] OBVIOUS
  <2>2. \A s \in SUBSET S : Cardinality(s) <= 0 => s = {}
    BY <1>1, FS_EmptySet
  <2>3. Upto(g, 0) BY <2>2
  <2>4. QED BY <2>1, <2>3
<1>3. ASSUME NEW n \in T PROVE n + 1 \in T
  <2>1. PICK g \in [SUBSET S -> Int] : Upto(g, n) BY <1>3
  <2> DEFINE h == [s \in SUBSET S |->
                     IF s = {} THEN 0 ELSE w[Pick(s)] + g[s \ {Pick(s)}]]
  <2>2. ASSUME NEW s \in SUBSET S, s # {}
        PROVE  /\ Pick(s) \in S /\ w[Pick(s)] \in Int
               /\ s \ {Pick(s)} \in SUBSET S /\ g[s \ {Pick(s)}] \in Int
               /\ Cardinality(s \ {Pick(s)}) = Cardinality(s) - 1
    BY <1>1, <2>2, PickIn, FS_RemoveElement
  <2>3. h \in [SUBSET S -> Int] BY <2>2
  <2>4. ASSUME NEW s \in SUBSET S, Cardinality(s) <= n + 1
        PROVE  h[s] = IF s = {} THEN 0 ELSE w[Pick(s)] + h[s \ {Pick(s)}]
    <3>1. CASE s = {} BY <3>1
    <3>2. CASE s # {}
      <4> DEFINE t == s \ {Pick(s)}
      <4>1. t \in SUBSET S /\ Cardinality(t) <= n BY <1>1, <2>2, <2>4, <3>2
      <4>2. g[t] = h[t] BY <2>1, <4>1
      <4>3. QED BY <3>2, <4>2
    <3>3. QED BY <3>1, <3>2
  <2>5. Upto(h, n + 1) BY <2>4
  <2>6. n + 1 \in Nat OBVIOUS
  <2> HIDE DEF h, Upto
  <2>7. QED BY <2>3, <2>5, <2>6
<1>4. T = Nat
  <2>1. T \subseteq Nat OBVIOUS
  <2> HIDE DEF T
  <2>2. QED BY <1>2, <1>3, <2>1, NumbersFromZero
<1>5. Cardinality(S) \in Nat BY FS_CardinalityType
<1>6. PICK g \in [SUBSET S -> Int] : Upto(g, Cardinality(S)) BY <1>4, <1>5
<1>7. \A s \in SUBSET S : Cardinality(s) <= Cardinality(S) BY FS_Subset
<1>8. QED BY <1>6, <1>7 DEF Sums

(* Such functions agree: a smallest subset on which two differ has none    *)
(* smaller on which they do.                                               *)
LEMMA SumsUnique ==
  ASSUME NEW S, IsFiniteSet(S), NEW w, NEW g, NEW h, Sums(g, S, w), Sums(h, S, w),
         NEW s \in SUBSET S
  PROVE  g[s] = h[s]
<1> DEFINE T == {t \in SUBSET S : g[t] # h[t]}
<1>1. SUFFICES ASSUME T # {} PROVE FALSE
  OBVIOUS
<1>2. PICK t \in T : \A u \in T : u \subseteq t => u = t
  <2>1. T \subseteq SUBSET S OBVIOUS
  <2> HIDE DEF T
  <2>2. QED BY <1>1, <2>1, LeastSubset
<1>3. CASE t = {} BY <1>2, <1>3 DEF Sums
<1>4. CASE t # {}
  <2> DEFINE u == t \ {Pick(t)}
  <2>1. Pick(t) \in t BY <1>4, PickIn
  <2>2. u \in SUBSET S /\ u \subseteq t /\ u # t BY <2>1
  <2>3. g[u] = h[u] BY <1>2, <2>2
  <2>4. g[t] = w[Pick(t)] + g[u] /\ h[t] = w[Pick(t)] + h[u] BY <1>4 DEF Sums
  <2>5. QED BY <2>3, <2>4
<1>5. QED BY <1>3, <1>4

(* The element taken out first does not matter.                            *)
AnyOrder(g, S, w) ==
  \A s \in SUBSET S : \A y \in s : g[s] = w[y] + g[s \ {y}]

LEMMA SumsAnyOrder ==
  ASSUME NEW S, IsFiniteSet(S), NEW w \in [S -> Int],
         NEW g \in [SUBSET S -> Int], Sums(g, S, w)
  PROVE  AnyOrder(g, S, w)
<1> DEFINE T == {t \in SUBSET S : \E z \in t : g[t] # w[z] + g[t \ {z}]}
<1>1. SUFFICES ASSUME T # {} PROVE FALSE
  BY DEF AnyOrder
<1>2. PICK t \in T : \A u \in T : u \subseteq t => u = t
  <2>1. T \subseteq SUBSET S OBVIOUS
  <2> HIDE DEF T
  <2>2. QED BY <1>1, <2>1, LeastSubset
<1>3. PICK z \in t : g[t] # w[z] + g[t \ {z}] BY <1>2
<1> DEFINE c == Pick(t)
<1>4. t \in SUBSET S /\ c \in t BY <1>3, PickIn
<1>5. g[t] = w[c] + g[t \ {c}] BY <1>4 DEF Sums
<1>6. z # c BY <1>3, <1>5
<1>7. g[t \ {c}] = w[z] + g[(t \ {c}) \ {z}]
  <2>1. t \ {c} \subseteq t /\ t \ {c} # t BY <1>4
  <2>2. t \ {c} \notin T BY <1>2, <2>1
  <2>3. z \in t \ {c} /\ t \ {c} \in SUBSET S BY <1>4, <1>6
  <2>4. QED BY <2>2, <2>3
<1>8. g[t \ {z}] = w[c] + g[(t \ {z}) \ {c}]
  <2>1. t \ {z} \subseteq t /\ t \ {z} # t BY <1>4
  <2>2. t \ {z} \notin T BY <1>2, <2>1
  <2>3. c \in t \ {z} /\ t \ {z} \in SUBSET S BY <1>4, <1>6
  <2>4. QED BY <2>2, <2>3
<1>9. (t \ {c}) \ {z} = (t \ {z}) \ {c} OBVIOUS
<1>10. /\ w[c] \in Int /\ w[z] \in Int
       /\ (t \ {c}) \ {z} \in SUBSET S /\ g[(t \ {c}) \ {z}] \in Int
  BY <1>4
<1> DEFINE rest == g[(t \ {c}) \ {z}]
<1>11. g[t] = w[c] + (w[z] + rest) BY <1>5, <1>7
<1>12. g[t \ {z}] = w[c] + rest BY <1>8, <1>9
<1>13. w[c] \in Int /\ w[z] \in Int /\ rest \in Int BY <1>10
<1> HIDE DEF rest, c, T
<1>14. w[c] + (w[z] + rest) = w[z] + (w[c] + rest) BY <1>13
<1>15. QED BY <1>3, <1>11, <1>12, <1>14

(* Sums over two sets whose elements weigh the same, one by one, are equal. *)
IsSum(g, S, w) ==
  /\ IsFiniteSet(S) /\ w \in [S -> Int]
  /\ g \in [SUBSET S -> Int] /\ Sums(g, S, w)

Matching(b, S, w, U, v) ==
  /\ b \in [S -> U] /\ \A x, y \in S : b[x] = b[y] => x = y
  /\ \A x \in S : w[x] = v[b[x]]

ImageOf(b, s) == {b[x] : x \in s}

LEMMA SumsAlike ==
  ASSUME NEW S, NEW w, NEW g, IsSum(g, S, w), NEW U, NEW v, NEW h, IsSum(h, U, v),
         NEW b, Matching(b, S, w, U, v)
  PROVE  \A s \in SUBSET S : g[s] = h[ImageOf(b, s)]
<1> USE DEF IsSum, Matching, ImageOf
<1>0. AnyOrder(h, U, v) BY SumsAnyOrder
<1> DEFINE T == {t \in SUBSET S : g[t] # h[{b[x] : x \in t}]}
<1>1. SUFFICES ASSUME T # {} PROVE FALSE
  OBVIOUS
<1>2. PICK t \in T : \A u \in T : u \subseteq t => u = t
  <2>1. T \subseteq SUBSET S OBVIOUS
  <2> HIDE DEF T
  <2>2. QED BY <1>1, <2>1, LeastSubset
<1>3. t \in SUBSET S /\ g[t] # h[{b[x] : x \in t}] BY <1>2
<1>4. CASE t = {}
  <2>1. {b[x] : x \in t} = {} BY <1>4
  <2>2. g[{}] = 0 /\ h[{}] = 0 BY DEF Sums
  <2>3. QED BY <1>3, <1>4, <2>1, <2>2
<1>5. CASE t # {}
  <2> DEFINE c == Pick(t)
             u == t \ {c}
             V == {b[x] : x \in t}
  <2>1. c \in t /\ c \in S BY <1>3, <1>5, PickIn
  <2>2. g[t] = w[c] + g[u] BY <1>3, <1>5 DEF Sums
  <2>3. u \in SUBSET S /\ u \subseteq t /\ u # t BY <1>3, <2>1
  <2>4. g[u] = h[{b[x] : x \in u}] BY <1>2, <2>3
  <2>5. V \in SUBSET U /\ b[c] \in V BY <1>3, <2>1
  <2>6. V \ {b[c]} = {b[x] : x \in u} BY <1>3, <2>1
  <2>7. h[V] = v[b[c]] + h[V \ {b[c]}]
    <3> HIDE DEF V, c, T
    <3>1. QED BY <1>0, <2>5 DEF AnyOrder
  <2>8. w[c] = v[b[c]] BY <2>1
  <2>9. g[t] = h[V] BY <2>2, <2>4, <2>6, <2>7, <2>8
  <2>10. QED BY <1>3, <2>9
<1>6. QED BY <1>4, <1>5

=============================================================================

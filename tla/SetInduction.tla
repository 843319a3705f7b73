---------------------------- MODULE SetInduction -----------------------------
(***************************************************************************)
(* Induction over the natural numbers, stated of sets instead of          *)
(* operators, so that the provers can instantiate it: the set of numbers  *)
(* for which a property holds takes the place of the property, and a      *)
(* function that of a recursive definition's body.                        *)
(***************************************************************************)
EXTENDS Integers, WellFoundedInduction, TLAPS

Less == OpToRel(<, Nat)

\* The relation that the theorems on well-founded sets are used with.
LEMMA LessWellFounded == IsWellFoundedOn(Less, Nat)
BY NatLessThanWellFounded DEF Less

LEMMA LessPairs == \A x, y \in Nat : x < y => <<x, y>> \in Less
BY DEF Less, OpToRel

\* A non-empty set of numbers has a least one.
LEMMA LeastNat ==
  ASSUME NEW T \in SUBSET Nat, T # {}
  PROVE  \E x \in T : \A y \in T : x <= y
<1>1. PICK x \in T : \A y \in T : ~ (<<y, x>> \in Less)
  <2>1. T \subseteq Nat
    OBVIOUS
  <2>. QED
    BY <2>1, LessWellFounded, WFMin
<1>2. \A y \in T : ~ (y < x)
  BY <1>1, LessPairs
<1>3. \A y \in T : x <= y
  BY <1>2
<1>. QED
  BY <1>3

\* A set with 0 that is closed under successor has every number.
LEMMA InductionOnSet ==
  ASSUME NEW S, 0 \in S, \A n \in Nat : n \in S => n + 1 \in S
  PROVE  \A n \in Nat : n \in S
<1> DEFINE T == {n \in Nat : n \notin S}
<1>1. SUFFICES ASSUME T # {}
               PROVE  FALSE
  OBVIOUS
<1>2. PICK x \in T : \A y \in T : x <= y
  <2>1. T \in SUBSET Nat
    OBVIOUS
  <2> HIDE DEF T
  <2>. QED
    BY <1>1, <2>1, LeastNat
<1>3. x \in Nat /\ x # 0
  OBVIOUS
<1>4. x - 1 \in Nat /\ x - 1 \notin T
  BY <1>2, <1>3
<1>5. x - 1 \in S
  BY <1>4
<1>6. (x - 1) + 1 \in S
  BY <1>4, <1>5
<1>. QED
  BY <1>3, <1>6

\* Induction up to a bound.
LEMMA InductionUpTo ==
  ASSUME NEW m \in Nat, NEW S, 0 \in S, \A n \in 0 .. m - 1 : n \in S => n + 1 \in S
  PROVE  \A n \in 0 .. m : n \in S
<1> DEFINE T == {n \in Nat : n <= m => n \in S}
<1>1. 0 \in T
  OBVIOUS
<1>2. \A n \in Nat : n \in T => n + 1 \in T
  OBVIOUS
<1>3. \A n \in Nat : n \in T
  <2> HIDE DEF T
  <2>. QED
    BY <1>1, <1>2, InductionOnSet
<1>. QED
  BY <1>3

\* A bounded non-empty set of numbers has a greatest one.
LEMMA GreatestNat ==
  ASSUME NEW m \in Nat, NEW T \in SUBSET (0 .. m), T # {}
  PROVE  \E x \in T : \A y \in T : y <= x
<1> DEFINE D == {m - y : y \in T}
<1>1. D \in SUBSET Nat /\ D # {}
  <2>1. \A y \in T : m - y \in Nat
    OBVIOUS
  <2>2. D \in SUBSET Nat
    BY <2>1
  <2>3. D # {}
    OBVIOUS
  <2>. QED
    BY <2>2, <2>3
<1>2. PICK d \in D : \A e \in D : d <= e
  <2> HIDE DEF D
  <2>. QED
    BY <1>1, LeastNat
<1>3. PICK x \in T : d = m - x
  OBVIOUS
<1>4. \A y \in T : m - x <= m - y
  BY <1>2, <1>3
<1>5. \A y \in T : y <= x
  BY <1>4
<1>. QED
  BY <1>5

\* A recursion over 0 .. m that takes its values in X defines a function.
LEMMA RecursionUpTo ==
  ASSUME NEW X, NEW a \in X, NEW m \in Nat, NEW Step \in [1 .. m -> [X -> X]]
  PROVE  \E f \in [0 .. m -> X] : f[0] = a /\ \A n \in 1 .. m : f[n] = Step[n][f[n - 1]]
<1> DEFINE Follows(f, k) == /\ f[0] = a
                            /\ \A n \in 1 .. k : f[n] = Step[n][f[n - 1]]
           S == {k \in 0 .. m : \E f \in [0 .. k -> X] : Follows(f, k)}
<1>1. 0 \in S
  <2>1. [n \in 0 .. 0 |-> a] \in [0 .. 0 -> X]
    OBVIOUS
  <2>2. Follows([n \in 0 .. 0 |-> a], 0)
    OBVIOUS
  <2>3. \E f \in [0 .. 0 -> X] : Follows(f, 0)
    <3> HIDE DEF Follows
    <3>. QED
      BY <2>1, <2>2
  <2>4. 0 \in 0 .. m
    OBVIOUS
  <2> HIDE DEF Follows
  <2>. QED
    BY <2>3, <2>4
<1>2. ASSUME NEW k \in 0 .. m - 1, k \in S
      PROVE  k + 1 \in S
  <2>1. PICK f \in [0 .. k -> X] : Follows(f, k)
    BY <1>2
  <2> DEFINE g == [n \in 0 .. k + 1 |-> IF n <= k THEN f[n] ELSE Step[k + 1][f[k]]]
  <2>2. Step[k + 1][f[k]] \in X
    OBVIOUS
  <2>3. g \in [0 .. k + 1 -> X]
    BY <2>2
  <2>4. \A n \in 0 .. k : g[n] = f[n]
    OBVIOUS
  <2>5. g[k + 1] = Step[k + 1][g[k]]
    OBVIOUS
  <2>6. Follows(g, k + 1)
    <3> HIDE DEF g
    <3>1. g[0] = a
      BY <2>1, <2>4
    <3>2. ASSUME NEW n \in 1 .. k + 1
          PROVE  g[n] = Step[n][g[n - 1]]
      <4>1. CASE n = k + 1
        BY <2>5, <4>1
      <4>2. CASE n \in 1 .. k
        BY <2>1, <2>4, <4>2
      <4>. QED
        BY <4>1, <4>2
    <3>. QED
      BY <3>1, <3>2
  <2>7. k + 1 \in 0 .. m
    OBVIOUS
  <2> HIDE DEF Follows, g
  <2>. QED
    BY <2>3, <2>6, <2>7
<1>3. m \in S
  <2> HIDE DEF S
  <2>1. \A k \in 0 .. m - 1 : k \in S => k + 1 \in S
    BY <1>2
  <2>2. \A k \in 0 .. m : k \in S
    BY <1>1, <2>1, InductionUpTo
  <2>. QED
    BY <2>2
<1>. QED
  BY <1>3

\* The same with names for its parts, for contexts in which the provers lose themselves in
\* the function sets.
Recursion(X, a, m, Step) == a \in X /\ m \in Nat /\ Step \in [1 .. m -> [X -> X]]
Solves(f, X, a, m, Step) ==
  f \in [0 .. m -> X] /\ f[0] = a /\ \A n \in 1 .. m : f[n] = Step[n][f[n - 1]]

LEMMA RecursionSolved ==
  ASSUME NEW X, NEW a, NEW m, NEW Step, Recursion(X, a, m, Step)
  PROVE  \E f : Solves(f, X, a, m, Step)
BY RecursionUpTo DEF Recursion, Solves

\* A function whose values stay in X from one argument to the next has them in X.
LEMMA ValuesUpTo ==
  ASSUME NEW X, NEW m \in Nat, NEW f, f[0] \in X,
         \A n \in 1 .. m : f[n - 1] \in X => f[n] \in X
  PROVE  \A n \in 0 .. m : f[n] \in X
<1> DEFINE S == {n \in 0 .. m : f[n] \in X}
<1>1. 0 \in S
  OBVIOUS
<1>2. ASSUME NEW n \in 0 .. m - 1, n \in S PROVE n + 1 \in S
  <2>1. n + 1 \in 1 .. m /\ (n + 1) - 1 = n
    OBVIOUS
  <2>. QED
    BY <1>2, <2>1
<1>3. \A n \in 0 .. m : n \in S
  <2> HIDE DEF S
  <2>. QED
    BY <1>1, <1>2, InductionUpTo
<1>. QED
  BY <1>3

\* A function that is defined by recursion over a set exists if what it is for an element
\* depends on elements of lower rank.
DependsBelow(D, Y, rank, F) ==
  \A f, g \in [D -> Y], t \in D :
    (\A u \in D : rank[u] < rank[t] => f[u] = g[u]) => F[f][t] = F[g][t]

Ranked(D, Y, m, rank, F) ==
  /\ Y # {} /\ m \in Nat /\ rank \in [D -> 0 .. m] /\ F \in [[D -> Y] -> [D -> Y]]
  /\ DependsBelow(D, Y, rank, F)

LEMMA RankedRecursion ==
  ASSUME NEW D, NEW Y, NEW m, NEW rank, NEW F, Ranked(D, Y, m, rank, F)
  PROVE  \E f : f \in [D -> Y] /\ F[f] = f
<1>0. /\ m \in Nat /\ rank \in [D -> 0 .. m] /\ F \in [[D -> Y] -> [D -> Y]]
      /\ DependsBelow(D, Y, rank, F)
  BY DEF Ranked
<1>a. PICK a : a \in Y
  BY DEF Ranked
<1> USE <1>0, <1>a
<1> DEFINE X == [D -> Y]
           Step == [n \in 1 .. m + 1 |-> F]
<1>1. PICK h : Solves(h, X, [t \in D |-> a], m + 1, Step)
  <2>1. Recursion(X, [t \in D |-> a], m + 1, Step)
    BY DEF Recursion
  <2> HIDE DEF X, Step
  <2>. QED
    BY <2>1, RecursionSolved DEF Recursion
<1>2. /\ \A n \in 0 .. m + 1 : h[n] \in X
      /\ \A n \in 0 .. m : h[n + 1] = F[h[n]]
  <2>1. h \in [0 .. m + 1 -> X] /\ \A n \in 1 .. m + 1 : h[n] = F[h[n - 1]]
    BY <1>1 DEF Solves
  <2>2. \A n \in 0 .. m : n + 1 \in 1 .. m + 1 /\ (n + 1) - 1 = n
    OBVIOUS
  <2> HIDE DEF X, Step
  <2>. QED
    BY <2>1, <2>2
<1> DEFINE Settled(k) == \A t \in D : rank[t] < k => F[h[k]][t] = h[k][t]
           S == {k \in 0 .. m + 1 : Settled(k)}
<1>3. 0 \in S
  OBVIOUS
<1>4. ASSUME NEW k \in 0 .. (m + 1) - 1, k \in S PROVE k + 1 \in S
  <2>1. h[k] \in X /\ h[k + 1] \in X /\ h[k + 1] = F[h[k]]
    BY <1>2
  <2>2. \A u \in D : rank[u] < k => h[k + 1][u] = h[k][u]
    BY <1>4, <2>1
  <2>3. ASSUME NEW t \in D, rank[t] < k + 1 PROVE F[h[k + 1]][t] = h[k + 1][t]
    <3>1. \A u \in D : rank[u] < rank[t] => h[k + 1][u] = h[k][u]
      BY <2>2, <2>3
    <3>. QED
      BY <2>1, <3>1 DEF DependsBelow
  <2>. QED
    BY <2>3
<1>5. m + 1 \in S
  <2>1. m + 1 \in Nat /\ m + 1 \in 0 .. m + 1
    OBVIOUS
  <2>2. \A k \in 0 .. (m + 1) - 1 : k \in S => k + 1 \in S
    BY <1>4
  <2> HIDE DEF S
  <2>3. \A k \in 0 .. m + 1 : k \in S
    BY <1>3, <2>1, <2>2, InductionUpTo
  <2>. QED
    BY <2>1, <2>3
<1>6. F[h[m + 1]] = h[m + 1]
  <2>1. h[m + 1] \in X /\ F[h[m + 1]] \in X
    BY <1>2
  <2>2. \A t \in D : F[h[m + 1]][t] = h[m + 1][t]
    BY <1>5
  <2>. QED
    BY <2>1, <2>2
<1>. QED
  BY <1>2, <1>6

===============================================================================

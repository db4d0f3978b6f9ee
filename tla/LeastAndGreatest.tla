-------------------------- MODULE LeastAndGreatest --------------------------
(***************************************************************************)
(* Sets of natural numbers have a least element, and a greatest one when   *)
(* they are bounded: what Min and Max of FiniteSetsExt choose.  From that, *)
(* induction up to a number and the functions defined by recursion.        *)
(***************************************************************************)
EXTENDS Integers, FiniteSetsExt, FiniteSetTheorems, TLAPS

\* A non-empty set of natural numbers has a least element.
LEMMA LeastElement ==
    ASSUME NEW S \in SUBSET Nat, S # {}
    PROVE  \E m \in S : \A x \in S : m <= x
<1>1. PICK n \in S : TRUE
  OBVIOUS
<1> DEFINE Below == {x \in S : x <= n}
           T == {0 .. x : x \in Below}
<1>2. T \subseteq SUBSET (0 .. n) /\ T # {}
  BY <1>1
<1>3. IsWellFoundedOn(StrictSubsetOrdering(0 .. n), SUBSET (0 .. n))
  <2>1. IsFiniteSet(0 .. n)
    BY <1>1, FS_Interval
  <2> QED
    BY <2>1, FS_FiniteSubsetsOfFinite, FS_StrictSubsetOrderingWellFounded
<1>4. PICK X \in T : \A Y \in T : <<Y, X>> \notin StrictSubsetOrdering(0 .. n)
  BY <1>2, <1>3, WFMin
<1>5. PICK m \in Below : X = 0 .. m
  BY <1>4
<1>6. ASSUME NEW x \in S, x < m
      PROVE  FALSE
  <2>1. x \in Below /\ 0 .. x \in T
    BY <1>5, <1>6
  <2>2. 0 .. x \subseteq 0 .. m /\ 0 .. x # 0 .. m
    BY <1>6, m \in 0 .. m, m \notin 0 .. x
  <2>3. <<0 .. x, X>> \in StrictSubsetOrdering(0 .. n)
    BY <1>2, <1>5, <2>1, <2>2 DEF StrictSubsetOrdering
  <2> QED
    BY <1>4, <2>1, <2>3
<1> QED
  BY <1>6

LEMMA MinOfNaturals ==
    ASSUME NEW S \in SUBSET Nat, S # {}
    PROVE  Min(S) \in S /\ \A x \in S : Min(S) <= x
BY LeastElement DEF Min

LEMMA MaxOfNaturals ==
    ASSUME NEW n \in Nat, NEW S \in SUBSET (0 .. n), S # {}
    PROVE  Max(S) \in S /\ \A x \in S : Max(S) >= x
<1> DEFINE Mirror == {n - x : x \in S}
<1>1. Mirror \in SUBSET Nat /\ Mirror # {}
  OBVIOUS
<1>2. PICK m \in Mirror : \A x \in Mirror : m <= x
  BY <1>1, LeastElement
<1>3. PICK y \in S : m = n - y
  BY <1>2
<1>4. ASSUME NEW x \in S PROVE y >= x
  <2>1. n - y <= n - x
    BY <1>2, <1>3
  <2>2. n \in Int /\ x \in Int /\ y \in Int
    OBVIOUS
  <2> QED
    BY <2>1, <2>2
<1>5. \E z \in S : \A x \in S : z >= x
  BY <1>4
<1> QED
  BY <1>5 DEF Max

-----------------------------------------------------------------------------
(* Induction and recursion, both by a least counterexample.                *)

\* Induction up to N, without an operator as a parameter: a set of numbers with 0 and the
\* successors of its elements.
LEMMA Induction ==
    ASSUME NEW N \in Nat, NEW S,
           0 \in S,
           \A i \in 1 .. N : i - 1 \in S => i \in S
    PROVE  0 .. N \subseteq S
<1> DEFINE Missing == {n \in 0 .. N : n \notin S}
<1> SUFFICES ASSUME Missing # {} PROVE FALSE
  OBVIOUS
<1>1. Missing \in SUBSET Nat
  OBVIOUS
<1>2. PICK m \in Missing : \A x \in Missing : m <= x
  BY <1>1, LeastElement
<1>3. m \in 1 .. N
  BY <1>2
<1>4. m - 1 \in S
  BY <1>2, <1>3
<1> QED
  BY <1>2, <1>3, <1>4

\* g is defined by its value at 0 and a step from each number to the next.
IsRecursion(g, N, V, first, step) ==
    /\ g \in [0 .. N -> V] /\ g[0] = first
    /\ \A i \in 1 .. N : g[i] = step[i][g[i - 1]]

LEMMA RecursiveFunction ==
    ASSUME NEW N \in Nat, NEW V, NEW first \in V, NEW step \in [1 .. N -> [V -> V]]
    PROVE  \E g : IsRecursion(g, N, V, first, step)
<1> DEFINE Upto(n, g) == IsRecursion(g, n, V, first, step)
           S == {n \in 0 .. N : \E g : Upto(n, g)}
<1>1. 0 \in S
  <2> DEFINE g == [i \in 0 .. 0 |-> first]
  <2>1. Upto(0, g)
    BY DEF IsRecursion
  <2> HIDE DEF Upto, g
  <2> QED
    BY <2>1
<1>2. ASSUME NEW n \in 1 .. N, n - 1 \in S
      PROVE  n \in S
  <2>1. PICK g : Upto(n - 1, g)
    BY <1>2
  <2> DEFINE last == step[n][g[n - 1]]
             h == [i \in 0 .. n |-> IF i = n THEN last ELSE g[i]]
  <2>2. \A i \in 0 .. n - 1 : g[i] \in V
    BY <2>1 DEF IsRecursion
  <2>3. last \in V
    BY <2>2
  <2>4. \A i \in 0 .. n : i # n => i \in 0 .. n - 1
    OBVIOUS
  <2>5. h \in [0 .. n -> V]
    <3> HIDE DEF last
    <3> QED
      BY <2>2, <2>3, <2>4
  <2>6. DOMAIN h = 0 .. n /\ h[n] = last /\ \A i \in 0 .. n - 1 : h[i] = g[i]
    <3> HIDE DEF last
    <3> QED
      OBVIOUS
  <2> HIDE DEF h
  <2>7. h[0] = first
    <3>1. 0 \in 0 .. n - 1 /\ g[0] = first
      BY <2>1 DEF IsRecursion
    <3> QED
      BY <2>6, <3>1
  <2>8. ASSUME NEW i \in 1 .. n PROVE h[i] = step[i][h[i - 1]]
    <3>1. h[i - 1] = g[i - 1]
      <4>1. i - 1 \in 0 .. n - 1
        OBVIOUS
      <4> QED
        BY <2>6, <4>1
    <3>2. CASE i = n
      BY <2>6, <3>1, <3>2
    <3>3. CASE i # n
      <4>1. i \in 1 .. n - 1 /\ i \in 0 .. n - 1
        BY <3>3
      <4>2. h[i] = g[i] /\ g[i] = step[i][g[i - 1]]
        BY <2>1, <2>6, <4>1 DEF IsRecursion
      <4> QED
        BY <3>1, <4>2
    <3> QED
      BY <3>2, <3>3
  <2>9. Upto(n, h)
    BY <2>5, <2>7, <2>8 DEF IsRecursion
  <2> HIDE DEF Upto
  <2> QED
    BY <2>9
<1>3. N \in S
  <2> HIDE DEF S
  <2>1. 0 .. N \subseteq S
    BY <1>1, <1>2, Induction
  <2> QED
    BY <2>1
<1> QED
  BY <1>3
=============================================================================

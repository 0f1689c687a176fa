---------------------------- MODULE NumberLemmas ----------------------------
(***************************************************************************)
(* Extreme elements of sets of numbers, and sums.  LeastNatural also       *)
(* stands in for induction: of the numbers at which a claim fails,         *)
(* consider the least.                                                     *)
(***************************************************************************)
EXTENDS Integers, FiniteSets, TLAPS, WellFoundedInduction, FiniteSetTheorems

\* A set of natural numbers has a least element.
LEMMA LeastNatural ==
    ASSUME NEW S, S \subseteq Nat, S # {}
    PROVE  \E m \in S : \A k \in S : m <= k
<1>. DEFINE R == {ss \in Nat \X Nat : ss[1] < ss[2]}
<1>1. IsWellFoundedOn(R, Nat)
  <2>1. R = OpToRel(<, Nat)
    BY DEF OpToRel
  <2>. QED  BY <2>1, NatLessThanWellFounded, Zenon
<1>. HIDE DEF R
<1>2. PICK m \in S : \A k \in S : <<k, m>> \notin R
  BY <1>1, WFMin, Zenon
<1>3. ASSUME NEW k \in S PROVE m <= k
  <2>1. <<k, m>> \notin R
    BY <1>2
  <2>. QED  BY <2>1 DEF R
<1>. QED  BY <1>3

\* A finite set of integers has a greatest element: the one with the fewest above it.
LEMMA GreatestOfFinite ==
    ASSUME NEW S, S \subseteq Int, S # {}, IsFiniteSet(S)
    PROVE  \E m \in S : \A k \in S : k <= m
<1>. DEFINE above(m) == {k \in S : k > m}
            sizes == {Cardinality(above(m)) : m \in S}
<1>1. ASSUME NEW m \in S PROVE IsFiniteSet(above(m)) /\ Cardinality(above(m)) \in Nat
  BY FS_Subset, FS_CardinalityType
<1>2. PICK m \in S : \A k \in S : Cardinality(above(m)) <= Cardinality(above(k))
  <2>1. sizes \subseteq Nat /\ sizes # {}
    BY <1>1
  <2>2. PICK c \in sizes : \A d \in sizes : c <= d
    BY <2>1, LeastNatural
  <2>. QED  BY <2>2
<1>3. ASSUME NEW k \in S, k > m PROVE FALSE
  <2>1. above(k) \subseteq above(m) /\ k \in above(m) /\ k \notin above(k)
    <3>1. \A a \in S : a \in Int
      OBVIOUS
    <3>2. ASSUME NEW a \in above(k) PROVE a \in above(m)
      BY <1>3, <3>1
    <3>3. k \in above(m) /\ k \notin above(k)
      BY <1>3, <3>1
    <3>. QED  BY <3>2, <3>3
  <2>. HIDE DEF above
  <2>2. /\ Cardinality(above(k)) <= Cardinality(above(m))
        /\ Cardinality(above(k)) # Cardinality(above(m))
    BY <1>1, <2>1, FS_Subset
  <2>. QED  BY <1>1, <1>2, <2>2
<1>. QED  BY <1>3

\* The sum of finitely many integers is one.  The recursive function behind SumFunctionOnSet
\* exists on the sets of n elements because it does on smaller ones.
LEMMA SumOfFinite ==
    ASSUME NEW S, IsFiniteSet(S), NEW fun, \A x \in S : fun[x] \in Int
    PROVE  SumFunctionOnSet(fun, S) \in Int
<1>. DEFINE first(s) == CHOOSE x \in s : TRUE
            step(g, s) == IF s = {} THEN 0 ELSE fun[first(s)] + g[s \ {first(s)}]
            upTo(n) == {s \in SUBSET S : Cardinality(s) <= n}
            iter[s \in SUBSET S] == step(iter, s)
<1>1. ASSUME NEW s \in SUBSET S
      PROVE  IsFiniteSet(s) /\ Cardinality(s) \in Nat /\ Cardinality(s) <= Cardinality(S)
  BY FS_Subset, FS_CardinalityType
<1>2. ASSUME NEW s \in SUBSET S, s # {}
      PROVE  /\ first(s) \in S /\ s \ {first(s)} \in SUBSET S
             /\ Cardinality(s \ {first(s)}) = Cardinality(s) - 1
  <2>1. first(s) \in s
    BY <1>2
  <2>. HIDE DEF first
  <2>2. Cardinality(s \ {first(s)}) = Cardinality(s) - 1
    BY <1>1, <2>1, FS_RemoveElement
  <2>. QED  BY <2>1, <2>2
<1>. HIDE DEF first
<1>3. ASSUME NEW n \in Nat
      PROVE  \E g : g = [s \in upTo(n) |-> step(g, s)]
  <2>. DEFINE fails == {m \in Nat : ~ \E g : g = [s \in upTo(m) |-> step(g, s)]}
  <2>1. SUFFICES ASSUME fails # {} PROVE FALSE
    OBVIOUS
  <2>2. PICK m \in fails : \A k \in fails : m <= k
    <3>1. fails \subseteq Nat
      OBVIOUS
    <3>. HIDE DEF fails
    <3>. QED  BY <2>1, <3>1, LeastNatural
  <2>3. m # 0
    <3>1. SUFFICES ASSUME m = 0 PROVE FALSE
      OBVIOUS
    <3>. DEFINE g == [s \in upTo(0) |-> 0]
    <3>2. \A s \in upTo(0) : s = {}
      BY <1>1, FS_EmptySet
    <3>3. g = [s \in upTo(0) |-> step(g, s)]
      BY <3>2
    <3>. HIDE DEF g
    <3>. QED  BY <3>1, <3>3
  <2>4. PICK g : g = [s \in upTo(m - 1) |-> step(g, s)]
    <3>. HIDE DEF step, upTo
    <3>1. m - 1 \in Nat /\ ~(m <= m - 1)
      BY <2>3
    <3>. QED  BY <2>2, <3>1
  <2>. DEFINE h == [s \in upTo(m) |-> step(g, s)]
  <2>5. ASSUME NEW s \in upTo(m) PROVE step(h, s) = step(g, s)
    <3>1. CASE s = {}
      BY <3>1
    <3>2. CASE s # {}
      <4>. DEFINE t == s \ {first(s)}
      <4>1. t \in upTo(m - 1) /\ t \in upTo(m)
        BY <1>1, <1>2, <3>2
      <4>2. h[t] = step(g, t) /\ g[t] = step(g, t)
        <5>. HIDE DEF step, t, upTo
        <5>. QED  BY <2>4, <4>1
      <4>. HIDE DEF h
      <4>. QED  BY <3>2, <4>2
    <3>. QED  BY <3>1, <3>2
  <2>6. h = [s \in upTo(m) |-> step(h, s)]
    <3>. HIDE DEF step, upTo
    <3>. QED  BY <2>5
  <2>. HIDE DEF h, step, upTo
  <2>. QED  BY <2>2, <2>6
<1>4. iter = [s \in SUBSET S |-> step(iter, s)]
  <2>1. PICK n \in Nat : n = Cardinality(S)
    BY FS_CardinalityType
  <2>2. upTo(n) = SUBSET S
    BY <1>1, <2>1
  <2>. HIDE DEF upTo, step
  <2>3. \E g : g = [s \in SUBSET S |-> step(g, s)]
    BY <1>3, <2>2
  <2>. QED  BY <2>3, Zenon
<1>5. iter[S] \in Int
  <2>. HIDE DEF iter
  <2>. DEFINE wrong == {s \in SUBSET S : iter[s] \notin Int}
              sizes == {Cardinality(s) : s \in wrong}
  <2>1. SUFFICES ASSUME wrong # {} PROVE FALSE
    OBVIOUS
  <2>2. PICK s \in wrong : \A t \in wrong : Cardinality(s) <= Cardinality(t)
    <3>1. sizes \subseteq Nat /\ sizes # {}
      BY <1>1, <2>1
    <3>2. PICK c \in sizes : \A d \in sizes : c <= d
      BY <3>1, LeastNatural
    <3>. QED  BY <3>2
  <2>3. iter[s] = step(iter, s)
    <3>. HIDE DEF step
    <3>. QED  BY <1>4
  <2>4. s # {}
    BY <2>2, <2>3
  <2>5. iter[s \ {first(s)}] \in Int /\ fun[first(s)] \in Int
    BY <1>1, <1>2, <2>2, <2>4
  <2>. QED  BY <2>2, <2>3, <2>4, <2>5
<1>6. SumFunctionOnSet(fun, S) = iter[S]
  BY DEF SumFunctionOnSet, FoldFunctionOnSet, MapThenFoldSet, first
<1>. QED  BY <1>5, <1>6
=============================================================================

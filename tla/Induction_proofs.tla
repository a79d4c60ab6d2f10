-------------------------- MODULE Induction_proofs --------------------------
(***************************************************************************)
(* Induction over the naturals as a fact about sets, without an operator   *)
(* as its parameter, so that it can be cited of any set: what a fold or a  *)
(* recursive function computes is proved with it.                          *)
(***************************************************************************)
EXTENDS Integers, WellFoundedInduction, FiniteSetTheorems, SequenceTheorems, SequencesExt, TLAPS

\* Every set of naturals that is not empty has a least element.
LEMMA LeastNatural ==
    ASSUME NEW T \in SUBSET Nat, T # {}
    PROVE  \E n \in T : \A m \in T : n <= m
<1> DEFINE Less == OpToRel(<, Nat)
<1>1. IsWellFoundedOn(Less, Nat)
  BY NatLessThanWellFounded
<1>2. \A m, n \in Nat : m < n => << m, n >> \in Less
  BY DEF OpToRel
<1> HIDE DEF Less
<1>3. PICK n \in T : \A m \in T : << m, n >> \notin Less
  BY <1>1, WFMin
<1>4. \A m \in T : ~ m < n
  BY <1>2, <1>3
<1>5. \A m \in T : n <= m
  BY <1>4
<1> QED
  BY <1>5

\* A set that holds 0 and the successors of its elements up to n holds 0 .. n.
LEMMA Induction ==
    ASSUME NEW P, NEW n \in Nat, 0 \in P,
           \A i \in 0 .. n : i \in P /\ i < n => i + 1 \in P
    PROVE  0 .. n \subseteq P
<1> DEFINE T == 0 .. n \ P
<1> SUFFICES ASSUME T # {} PROVE FALSE
  OBVIOUS
<1>1. PICK i \in T : \A m \in T : i <= m
  <2>1. T \in SUBSET Nat
    OBVIOUS
  <2> HIDE DEF T
  <2> QED
    BY <2>1, LeastNatural
<1>2. i # 0 /\ i - 1 \in 0 .. n /\ i - 1 < n /\ i - 1 \notin T
  BY <1>1
<1> QED
  BY <1>1, <1>2

-----------------------------------------------------------------------------
(* Sums over finite sets *)

\* The community modules add up a set element by element, taking any one out:
\* g[s] is the sum of f over s, for every subset s of S.
AnyOf(s)       == CHOOSE x \in s : TRUE
Added(g, f, s) == IF s = {} THEN 0 ELSE f[AnyOf(s)] + g[s \ {AnyOf(s)}]
Adds(g, f, S)  == \A s \in SUBSET S : g[s] = Added(g, f, s)
Adder(g, f, S) == g = [s \in SUBSET S |-> Added(g, f, s)]

\* The element that a fold takes out of a set is in it.
LEMMA AnyIsIn == ASSUME NEW s, s # {} PROVE AnyOf(s) \in s
  BY DEF AnyOf

\* A subset without one of its elements is a smaller one.
LEMMA TakenOut ==
    ASSUME NEW S, IsFiniteSet(S), NEW s \in SUBSET S, NEW x \in s
    PROVE  /\ s \ {x} \in SUBSET S /\ Cardinality(s) \in Nat /\ Cardinality(s) > 0
           /\ Cardinality(s \ {x}) \in Nat /\ Cardinality(s \ {x}) = Cardinality(s) - 1
<1>1. IsFiniteSet(s)
  BY FS_Subset
<1>2. Cardinality(s) \in Nat /\ Cardinality(s) # 0
  BY <1>1, FS_CardinalityType, FS_EmptySet
<1>3. Cardinality(s \ {x}) = Cardinality(s) - 1
  BY <1>1, FS_RemoveElement
<1> QED
  BY <1>2, <1>3

\* The function by which the library defines a sum exists.
LEMMA SumExists ==
    ASSUME NEW S, IsFiniteSet(S), NEW f
    PROVE  \E g : Adder(g, f, S)
<1> DEFINE n == Cardinality(S)
           P == {i \in Nat : \E g : \A s \in SUBSET S :
                    Cardinality(s) <= i => g[s] = Added(g, f, s)}
<1>1. n \in Nat /\ \A s \in SUBSET S : Cardinality(s) \in Nat /\ Cardinality(s) <= n
  BY FS_CardinalityType, FS_Subset
<1>2. 0 \in P
  <2> DEFINE g == [s \in SUBSET S |-> 0]
  <2>1. \A s \in SUBSET S : Cardinality(s) <= 0 => s = {}
    BY <1>1, FS_Subset, FS_EmptySet
  <2>2. \A s \in SUBSET S : Cardinality(s) <= 0 => g[s] = Added(g, f, s)
    BY <2>1 DEF Added
  <2> HIDE DEF g
  <2> QED
    BY <2>2
<1>3. ASSUME NEW i \in Nat, i \in P PROVE i + 1 \in P
  <2>1. PICK g : \A s \in SUBSET S : Cardinality(s) <= i => g[s] = Added(g, f, s)
    BY <1>3
  <2> DEFINE h == [s \in SUBSET S |-> Added(g, f, s)]
  <2>2. ASSUME NEW s \in SUBSET S, Cardinality(s) <= i + 1 PROVE h[s] = Added(h, f, s)
    <3>1. CASE s = {}
      BY <3>1 DEF Added
    <3>2. CASE s # {}
      <4> DEFINE r == s \ {AnyOf(s)}
      <4>1. r \in SUBSET S /\ Cardinality(r) \in Nat /\ Cardinality(r) <= i
        BY <2>2, <3>2, AnyIsIn, TakenOut
      <4> HIDE DEF r
      <4>2. g[r] = Added(g, f, r) /\ h[r] = Added(g, f, r)
        BY <2>1, <4>1
      <4>3. h[s] = Added(g, f, s)
        OBVIOUS
      <4> HIDE DEF h
      <4> QED
        BY <3>2, <4>2, <4>3 DEF Added, r
    <3> QED
      BY <3>1, <3>2
  <2> HIDE DEF h
  <2> QED
    BY <2>2
<1>4. n \in P
  <2> HIDE DEF P, n
  <2>1. 0 .. n \subseteq P
    BY <1>1, <1>2, <1>3, Induction
  <2> QED
    BY <1>1, <2>1
<1>5. PICK g : \A s \in SUBSET S : g[s] = Added(g, f, s)
  BY <1>1, <1>4
<1> DEFINE h == [s \in SUBSET S |-> Added(g, f, s)]
<1>6. \A s \in SUBSET S : h[s] = g[s]
  BY <1>5
<1>7. \A s \in SUBSET S : Added(g, f, s) = Added(h, f, s)
  <2> SUFFICES ASSUME NEW s \in SUBSET S PROVE Added(g, f, s) = Added(h, f, s)
    OBVIOUS
  <2>1. CASE s = {}
    BY <2>1 DEF Added
  <2>2. CASE s # {}
    <3>1. s \ {AnyOf(s)} \in SUBSET S
      OBVIOUS
    <3>2. h[s \ {AnyOf(s)}] = g[s \ {AnyOf(s)}]
      BY <1>6, <3>1
    <3> HIDE DEF h
    <3> QED
      BY <3>2 DEF Added
  <2> QED
    BY <2>1, <2>2
<1>8. h = [s \in SUBSET S |-> Added(h, f, s)]
  BY <1>7
<1>9. Adder(h, f, S)
  BY <1>8 DEF Adder
<1> HIDE DEF h
<1> QED
  BY <1>9

\* The sum is the same of functions that agree on the set, and whatever larger
\* set it is taken within.
LEMMA SumAgrees ==
    ASSUME NEW S, NEW T, IsFiniteSet(T), S \subseteq T, NEW f, NEW e, NEW g, NEW h,
           Adds(g, f, S), Adds(h, e, T), \A x \in S : f[x] = e[x]
    PROVE  g[S] = h[S]
<1> DEFINE n == Cardinality(S)
           P == {i \in Nat : \A s \in SUBSET S : Cardinality(s) <= i => g[s] = h[s]}
<1>0. IsFiniteSet(S)
  BY FS_Subset
<1>1. n \in Nat /\ \A s \in SUBSET S : Cardinality(s) \in Nat
  BY <1>0, FS_CardinalityType, FS_Subset
<1>2. g[{}] = h[{}]
  BY DEF Adds, Added
<1>3. 0 \in P
  <2>1. \A s \in SUBSET S : Cardinality(s) <= 0 => s = {}
    BY <1>0, <1>1, FS_Subset, FS_EmptySet
  <2> QED
    BY <1>2, <2>1
<1>4. ASSUME NEW i \in Nat, i \in P PROVE i + 1 \in P
  <2>1. ASSUME NEW s \in SUBSET S, Cardinality(s) <= i + 1, s # {} PROVE g[s] = h[s]
    <3> DEFINE r == s \ {AnyOf(s)}
    <3>1. r \in SUBSET S /\ Cardinality(r) \in Nat /\ Cardinality(r) <= i /\ AnyOf(s) \in S
      BY <1>0, <2>1, AnyIsIn, TakenOut
    <3>2. g[r] = h[r]
      <4> HIDE DEF r
      <4> QED
        BY <1>4, <3>1
    <3>3. g[s] = f[AnyOf(s)] + g[r] /\ h[s] = e[AnyOf(s)] + h[r]
      BY <2>1 DEF Adds, Added
    <3> QED
      BY <3>1, <3>2, <3>3
  <2> QED
    BY <1>2, <2>1
<1>5. n \in P
  <2> HIDE DEF P, n
  <2>1. 0 .. n \subseteq P
    BY <1>1, <1>3, <1>4, Induction
  <2> QED
    BY <1>1, <2>1
<1> QED
  BY <1>1, <1>5

\* Sums of naturals are naturals, and any element can be taken out first.
LEMMA SumTakesOut ==
    ASSUME NEW S, IsFiniteSet(S), NEW f, \A x \in S : f[x] \in Nat, NEW g, Adds(g, f, S)
    PROVE  /\ \A s \in SUBSET S : g[s] \in Nat
           /\ \A s \in SUBSET S, x \in S : x \in s => g[s] = f[x] + g[s \ {x}]
<1> DEFINE n == Cardinality(S)
           Good(s) == g[s] \in Nat /\ \A x \in s : g[s] = f[x] + g[s \ {x}]
           P == {i \in Nat : \A s \in SUBSET S : Cardinality(s) <= i => Good(s)}
<1>1. n \in Nat /\ \A s \in SUBSET S : Cardinality(s) \in Nat /\ Cardinality(s) <= n
  BY FS_CardinalityType, FS_Subset
<1>2. Good({})
  <2>1. g[{}] = 0
    BY DEF Adds, Added
  <2> QED
    BY <2>1
<1>3. 0 \in P
  <2>1. \A s \in SUBSET S : Cardinality(s) <= 0 => s = {}
    BY <1>1, FS_Subset, FS_EmptySet
  <2> HIDE DEF Good
  <2> QED
    BY <1>2, <2>1
<1>4. ASSUME NEW i \in Nat, i \in P PROVE i + 1 \in P
  <2>1. ASSUME NEW s \in SUBSET S, Cardinality(s) <= i + 1, s # {} PROVE Good(s)
    <3> DEFINE a == AnyOf(s)
               r == s \ {a}
    <3>1. a \in s /\ a \in S /\ f[a] \in Nat
      BY <2>1, AnyIsIn
    <3>2. g[s] = f[a] + g[r]
      BY <2>1 DEF Adds, Added
    <3> HIDE DEF a
    <3>3. r \in SUBSET S /\ Cardinality(r) \in Nat /\ Cardinality(r) <= i
      BY <2>1, <3>1, TakenOut
    <3>4. Good(r)
      <4> HIDE DEF Good, r
      <4> QED
        BY <1>4, <3>3
    <3>5. ASSUME NEW x \in s, x # a PROVE g[s] = f[x] + g[s \ {x}]
      <4> DEFINE q == s \ {x}
      <4>1. q \in SUBSET S /\ Cardinality(q) \in Nat /\ Cardinality(q) <= i
        BY <2>1, TakenOut
      <4>2. Good(q)
        <5> HIDE DEF Good, q
        <5> QED
          BY <1>4, <4>1
      <4>3. g[q] = f[a] + g[q \ {a}]
        BY <3>1, <3>5, <4>2
      <4>4. g[r] = f[x] + g[r \ {x}]
        BY <3>4, <3>5
      <4>5. q \ {a} = r \ {x}
        OBVIOUS
      <4>6. f[x] \in Nat /\ g[r \ {x}] \in Nat
        <5>1. r \ {x} \in SUBSET S /\ Cardinality(r \ {x}) \in Nat /\ Cardinality(r \ {x}) <= i
          <6>1. x \in r
            BY <3>5
          <6> HIDE DEF r
          <6> QED
            BY <3>3, <6>1, TakenOut
        <5>2. Good(r \ {x})
          <6> HIDE DEF Good, r
          <6> QED
            BY <1>4, <5>1
        <5> QED
          BY <3>5, <5>2
      <4>7. g[s] = f[x] + g[q]
        <5> HIDE DEF q, r, Good
        <5> QED
          BY <3>1, <3>2, <4>3, <4>4, <4>5, <4>6, SMT
      <4> QED
        BY <4>7
    <3>6. g[r] \in Nat
      BY <3>4
    <3>7. g[s] \in Nat
      <4> HIDE DEF r
      <4> QED
        BY <3>1, <3>2, <3>6
    <3>8. \A x \in s : g[s] = f[x] + g[s \ {x}]
      BY <3>2, <3>5
    <3> QED
      BY <3>7, <3>8
  <2> HIDE DEF Good
  <2> QED
    BY <1>2, <2>1
<1>5. n \in P
  <2> HIDE DEF P, n
  <2>1. 0 .. n \subseteq P
    BY <1>1, <1>3, <1>4, Induction
  <2> QED
    BY <1>1, <2>1
<1>6. \A s \in SUBSET S : Good(s)
  <2> HIDE DEF Good
  <2> QED
    BY <1>1, <1>5
<1> QED
  BY <1>6

\* The largest element taken out of a set of numbers up to n + 1.
LEMMA MaxOut ==
    ASSUME NEW n \in Nat, NEW s \in SUBSET (1 .. n + 1)
    PROVE  /\ s \ {Max(s)} \in SUBSET (1 .. n)
           /\ n + 1 \in s => Max(s) = n + 1
<1>1. CASE n + 1 \in s
  <2>1. \A x \in s : n + 1 >= x
    OBVIOUS
  <2>2. \E x \in s : \A y \in s : x >= y
    BY <1>1, <2>1
  <2>3. Max(s) \in s /\ \A y \in s : Max(s) >= y
    BY <2>2 DEF Max
  <2>4. Max(s) >= n + 1 /\ Max(s) \in 1 .. n + 1
    BY <1>1, <2>3
  <2>5. Max(s) = n + 1
    BY <2>4
  <2> QED
    BY <1>1, <2>5
<1>2. CASE n + 1 \notin s
  <2>1. \A x \in s : x \in 1 .. n
    BY <1>2
  <2> QED
    BY <1>2, <2>1
<1> QED
  BY <1>1, <1>2

\* The largest element of a set of numbers is in it.
LEMMA MaxIn ==
    ASSUME NEW n \in Nat, NEW s \in SUBSET (1 .. n), s # {}
    PROVE  Max(s) \in s
<1> DEFINE P == {k \in Nat : \A q \in SUBSET (1 .. k) : q # {} => Max(q) \in q}
<1>1. 0 \in P
  <2>1. \A q \in SUBSET (1 .. 0) : q = {}
    OBVIOUS
  <2> QED
    BY <2>1
<1>2. ASSUME NEW k \in Nat, k \in P PROVE k + 1 \in P
  <2>1. ASSUME NEW q \in SUBSET (1 .. k + 1), q # {} PROVE Max(q) \in q
    <3>1. CASE k + 1 \in q
      BY <3>1, MaxOut
    <3>2. CASE k + 1 \notin q
      <4>1. q \in SUBSET (1 .. k)
        BY <3>2
      <4> QED
        BY <1>2, <2>1, <4>1
    <3> QED
      BY <3>1, <3>2
  <2> QED
    BY <2>1
<1>3. 0 .. n \subseteq P
  <2> HIDE DEF P
  <2> QED
    BY <1>1, <1>2, Induction
<1>4. n \in P
  BY <1>3
<1> QED
  BY <1>4

-----------------------------------------------------------------------------
(* Sums: SumFunction of the community modules *)

\* Induction over a finite set: Q is a set of its subsets.
LEMMA SetInduction ==
    ASSUME NEW S, IsFiniteSet(S), NEW Q, {} \in Q,
           \A T \in SUBSET S : \A x \in S \ T : T \in Q => T \cup {x} \in Q
    PROVE  S \in Q
<1> DEFINE n == Cardinality(S)
           P == {i \in Nat : \A T \in SUBSET S : Cardinality(T) <= i => T \in Q}
<1>1. n \in Nat /\ \A T \in SUBSET S : Cardinality(T) \in Nat
  BY FS_CardinalityType, FS_Subset
<1>2. 0 \in P
  <2>1. \A T \in SUBSET S : Cardinality(T) <= 0 => T = {}
    BY <1>1, FS_Subset, FS_EmptySet
  <2> QED
    BY <2>1
<1>3. ASSUME NEW i \in Nat, i \in P PROVE i + 1 \in P
  <2> SUFFICES ASSUME NEW T \in SUBSET S, Cardinality(T) <= i + 1 PROVE T \in Q
    OBVIOUS
  <2>1. CASE T = {}
    BY <2>1
  <2>2. CASE T # {}
    <3>1. PICK x \in T : TRUE
      BY <2>2
    <3>2. T \ {x} \in SUBSET S /\ Cardinality(T \ {x}) = Cardinality(T) - 1
      BY TakenOut
    <3>3. T \ {x} \in Q
      BY <1>1, <1>3, <3>2
    <3>4. (T \ {x}) \cup {x} = T /\ x \in S \ (T \ {x})
      BY <3>1
    <3> QED
      BY <3>2, <3>3, <3>4
  <2> QED
    BY <2>1, <2>2
<1>4. 0 .. n \subseteq P
  <2> HIDE DEF P, n
  <2> QED
    BY <1>1, <1>2, <1>3, Induction
<1>5. n \in P
  BY <1>1, <1>4
<1> QED
  BY <1>1, <1>5

\* SumFunction adds the values of a function up.
LEMMA SumIs ==
    ASSUME NEW f, IsFiniteSet(DOMAIN f)
    PROVE  \E g : Adds(g, f, DOMAIN f) /\ SumFunction(f) = g[DOMAIN f]
<1> DEFINE S == DOMAIN f
           Body(g, s) == IF s = {} THEN 0 ELSE f[CHOOSE x \in s : TRUE]
                                                 + g[s \ {CHOOSE x \in s : TRUE}]
           C == CHOOSE g : g = [s \in SUBSET S |-> Body(g, s)]
<1>1. SumFunction(f) = C[S]
  BY Zenon DEF SumFunction, SumFunctionOnSet, FoldFunctionOnSet, MapThenFoldSet
<1>2. \A g, s : Body(g, s) = Added(g, f, s)
  BY DEF Added, AnyOf
<1>3. PICK g : Adder(g, f, S)
  BY SumExists
<1>4. \A h : (h = [s \in SUBSET S |-> Body(h, s)]) <=> Adder(h, f, S)
  <2> TAKE h
  <2>1. [s \in SUBSET S |-> Body(h, s)] = [s \in SUBSET S |-> Added(h, f, s)]
    BY <1>2
  <2> QED
    BY <2>1 DEF Adder
<1>5. C = [s \in SUBSET S |-> Body(C, s)]
  <2> HIDE DEF Body, S
  <2>1. g = [s \in SUBSET S |-> Body(g, s)]
    BY <1>3, <1>4, Zenon
  <2> QED
    BY <2>1, Zenon
<1>6. Adder(C, f, S)
  BY <1>4, <1>5
<1> HIDE DEF C
<1>7. Adds(C, f, S)
  BY <1>6 DEF Adder, Adds
<1> QED
  BY <1>1, <1>7

\* The empty sum is 0.
LEMMA SumOfNone ==
    ASSUME NEW f, DOMAIN f = {}
    PROVE  SumFunction(f) = 0
<1>1. PICK g : Adds(g, f, {}) /\ SumFunction(f) = g[{}]
  BY SumIs, FS_EmptySet
<1> QED
  BY <1>1 DEF Adds, Added

\* A sum of naturals is one, and any element can be taken out of it.
LEMMA SumOfNaturals ==
    ASSUME NEW S, IsFiniteSet(S), NEW f \in [S -> Nat]
    PROVE  \E g : /\ Adds(g, f, S) /\ SumFunction(f) = g[S] /\ g[S] \in Nat
                  /\ \A x \in S : g[S] = f[x] + g[S \ {x}]
<1>1. PICK g : Adds(g, f, S) /\ SumFunction(f) = g[S]
  BY SumIs
<1>2. S \in SUBSET S /\ \A x \in S : f[x] \in Nat
  OBVIOUS
<1>3. /\ \A s \in SUBSET S : g[s] \in Nat
      /\ \A s \in SUBSET S, x \in S : x \in s => g[s] = f[x] + g[s \ {x}]
  BY <1>1, <1>2, SumTakesOut
<1> QED
  BY <1>1, <1>2, <1>3

\* A sum of naturals is a natural number.
LEMMA SumType ==
    ASSUME NEW S, IsFiniteSet(S), NEW f \in [S -> Nat]
    PROVE  SumFunction(f) \in Nat
  BY SumOfNaturals

\* One element is added last.
LEMMA SumWith ==
    ASSUME NEW S, IsFiniteSet(S), NEW x, x \notin S, NEW f \in [S \cup {x} -> Nat]
    PROVE  /\ SumFunction(f) = f[x] + SumFunction([y \in S |-> f[y]])
           /\ SumFunction([y \in S |-> f[y]]) \in Nat /\ IsFiniteSet(S \cup {x})
<1> DEFINE T == S \cup {x}
           e == [y \in S |-> f[y]]
<1>1. IsFiniteSet(T)
  BY FS_AddElement
<1>2. PICK g : /\ Adds(g, f, T) /\ SumFunction(f) = g[T]
               /\ \A y \in T : g[T] = f[y] + g[T \ {y}]
  BY <1>1, SumOfNaturals
<1>3. PICK h : Adds(h, e, S) /\ SumFunction(e) = h[S]
  BY SumIs
<1>4. g[T] = f[x] + g[T \ {x}]
  BY <1>2
<1>5. T \ {x} = S
  OBVIOUS
<1>6. h[S] = g[S]
  <2>1. S \subseteq T /\ \A y \in S : e[y] = f[y]
    OBVIOUS
  <2> HIDE DEF e, T
  <2> QED
    BY <1>1, <1>2, <1>3, <2>1, SumAgrees
<1>7. SumFunction(e) \in Nat
  <2>1. e \in [S -> Nat]
    OBVIOUS
  <2> HIDE DEF e
  <2> QED
    BY <2>1, SumType
<1> QED
  BY <1>1, <1>2, <1>3, <1>4, <1>5, <1>6, <1>7

\* The sum over a part of the domain.
PartSum(f, T) == SumFunction([x \in T |-> f[x]])

\* The sum over the whole domain is the sum.
LEMMA PartSumAll ==
    ASSUME NEW S, NEW f, f = [x \in S |-> f[x]]
    PROVE  PartSum(f, S) = SumFunction(f)
  BY DEF PartSum

\* The sum over no part of the domain is 0.
LEMMA PartSumNone ==
    ASSUME NEW f
    PROVE  PartSum(f, {}) = 0
<1>1. DOMAIN [x \in {} |-> f[x]] = {}
  OBVIOUS
<1> QED
  BY <1>1, SumOfNone DEF PartSum

\* A part grows by one element.
PartSums(f, S) ==
    \A T \in SUBSET S : \A x \in S :
        x \notin T => /\ PartSum(f, T \cup {x}) = f[x] + PartSum(f, T)
                      /\ PartSum(f, T) \in Nat /\ f[x] \in Nat

\* Every function to the naturals has sums that grow element by element.
LEMMA PartSumGrows ==
    ASSUME NEW S, IsFiniteSet(S), NEW f \in [S -> Nat]
    PROVE  PartSums(f, S)
<1> SUFFICES ASSUME NEW T \in SUBSET S, NEW x \in S, x \notin T
             PROVE  /\ PartSum(f, T \cup {x}) = f[x] + PartSum(f, T)
                    /\ PartSum(f, T) \in Nat /\ f[x] \in Nat
  BY DEF PartSums
<1> DEFINE h == [y \in T \cup {x} |-> f[y]]
<1>1. IsFiniteSet(T)
  BY FS_Subset
<1>2. h \in [T \cup {x} -> Nat] /\ h[x] = f[x] /\ [y \in T |-> h[y]] = [y \in T |-> f[y]]
  OBVIOUS
<1>3. SumFunction(h) = PartSum(f, T \cup {x})
  BY DEF PartSum
<1> HIDE DEF h
<1>4. SumFunction(h) = h[x] + SumFunction([y \in T |-> h[y]])
      /\ SumFunction([y \in T |-> h[y]]) \in Nat /\ IsFiniteSet(T \cup {x})
  BY <1>1, <1>2, SumWith
<1>5. SumFunction([y \in T |-> h[y]]) = PartSum(f, T)
  BY <1>2 DEF PartSum
<1>6. f[x] \in Nat
  OBVIOUS
<1> QED
  BY <1>2, <1>3, <1>4, <1>5, <1>6

\* Nothing is added.
LEMMA SumOfZeros ==
    ASSUME NEW S, IsFiniteSet(S), NEW f \in [S -> Nat], \A x \in S : f[x] = 0
    PROVE  SumFunction(f) = 0
<1> DEFINE Q == {T \in SUBSET S : PartSum(f, T) = 0}
<1>1. {} \in Q
  BY PartSumNone
<1>2. ASSUME NEW T \in SUBSET S, NEW x \in S \ T, T \in Q PROVE T \cup {x} \in Q
  <2>1. PartSums(f, S)
    BY PartSumGrows
  <2>2. PartSum(f, T \cup {x}) = f[x] + PartSum(f, T)
    BY <2>1 DEF PartSums
  <2> QED
    BY <1>2, <2>2
<1>3. S \in Q
  <2> HIDE DEF Q
  <2> QED
    BY <1>1, <1>2, SetInduction
<1> QED
  BY <1>3, PartSumAll

\* Zeros do not count.
LEMMA SumWithin ==
    ASSUME NEW S, IsFiniteSet(S), NEW R \in SUBSET S, NEW f \in [S -> Nat],
           \A x \in S \ R : f[x] = 0
    PROVE  SumFunction(f) = SumFunction([x \in R |-> f[x]])
<1> DEFINE Q == {T \in SUBSET (S \ R) : PartSum(f, R \cup T) = PartSum(f, R)}
<1>1. {} \in Q
  <2>1. R \cup {} = R
    OBVIOUS
  <2> QED
    BY <2>1
<1>2. ASSUME NEW T \in SUBSET (S \ R), NEW x \in (S \ R) \ T, T \in Q PROVE T \cup {x} \in Q
  <2>1. PICK U \in SUBSET S : U = R \cup T
    OBVIOUS
  <2>2. x \in S \ U /\ f[x] = 0 /\ U \cup {x} = R \cup (T \cup {x})
    BY <2>1
  <2>3. PartSum(f, U \cup {x}) = f[x] + PartSum(f, U) /\ PartSum(f, U) \in Nat
    BY <2>2, PartSumGrows DEF PartSums
  <2>4. PartSum(f, U) = PartSum(f, R)
    BY <1>2, <2>1
  <2>5. PartSum(f, U \cup {x}) = PartSum(f, U)
    BY <2>2, <2>3
  <2>6. PartSum(f, R \cup (T \cup {x})) = PartSum(f, R)
    BY <2>2, <2>4, <2>5, Zenon
  <2> QED
    BY <1>2, <2>6
<1>3. S \ R \in Q
  <2>1. IsFiniteSet(S \ R)
    BY FS_Subset
  <2> HIDE DEF Q
  <2> QED
    BY <1>1, <1>2, <2>1, SetInduction
<1>4. R \cup (S \ R) = S
  OBVIOUS
<1>5. PartSum(f, S) = PartSum(f, R)
  BY <1>3, <1>4
<1>6. PartSum(f, S) = SumFunction(f)
  BY PartSumAll
<1> QED
  BY <1>5, <1>6 DEF PartSum

\* Only one element counts.
LEMMA SumOfOne ==
    ASSUME NEW S, IsFiniteSet(S), NEW f \in [S -> Nat], NEW x \in S,
           \A y \in S : y # x => f[y] = 0
    PROVE  SumFunction(f) = f[x]
<1>1. SumFunction(f) = PartSum(f, {x})
  <2>1. {x} \in SUBSET S /\ \A y \in S \ {x} : f[y] = 0
    OBVIOUS
  <2> QED
    BY <2>1, SumWithin DEF PartSum
<1>2. PICK none \in SUBSET S : none = {}
  OBVIOUS
<1>3. x \in S \ none /\ none \cup {x} = {x}
  BY <1>2
<1>4. PartSum(f, none \cup {x}) = f[x] + PartSum(f, none) /\ f[x] \in Nat
  BY <1>3, PartSumGrows DEF PartSums
<1>5. PartSum(f, none) = 0
  BY <1>2, PartSumNone
<1> QED
  BY <1>1, <1>3, <1>4, <1>5

\* Sums are added value by value.
LEMMA SumOfSums ==
    ASSUME NEW S, IsFiniteSet(S), NEW f \in [S -> Nat], NEW g \in [S -> Nat]
    PROVE  SumFunction([x \in S |-> f[x] + g[x]]) = SumFunction(f) + SumFunction(g)
<1> DEFINE h == [x \in S |-> f[x] + g[x]]
           Q == {T \in SUBSET S : PartSum(h, T) = PartSum(f, T) + PartSum(g, T)}
<1>1. h \in [S -> Nat] /\ \A x \in S : h[x] = f[x] + g[x]
  OBVIOUS
<1> HIDE DEF h
<1>2. {} \in Q
  BY PartSumNone
<1>3. ASSUME NEW T \in SUBSET S, NEW x \in S \ T, T \in Q PROVE T \cup {x} \in Q
  <2>1. /\ PartSum(f, T \cup {x}) = f[x] + PartSum(f, T)
        /\ PartSum(f, T) \in Nat /\ f[x] \in Nat
    BY PartSumGrows DEF PartSums
  <2>2. /\ PartSum(g, T \cup {x}) = g[x] + PartSum(g, T)
        /\ PartSum(g, T) \in Nat /\ g[x] \in Nat
    BY PartSumGrows DEF PartSums
  <2>3. PartSum(h, T \cup {x}) = h[x] + PartSum(h, T)
    BY <1>1, PartSumGrows DEF PartSums
  <2>4. h[x] = f[x] + g[x] /\ PartSum(h, T) = PartSum(f, T) + PartSum(g, T)
    BY <1>1, <1>3
  <2>5. PartSum(h, T \cup {x}) = PartSum(f, T \cup {x}) + PartSum(g, T \cup {x})
    BY <2>1, <2>2, <2>3, <2>4
  <2> QED
    BY <1>3, <2>5
<1>4. S \in Q
  <2> HIDE DEF Q
  <2> QED
    BY <1>2, <1>3, SetInduction
<1>5. PartSum(f, S) = SumFunction(f) /\ PartSum(g, S) = SumFunction(g)
      /\ PartSum(h, S) = SumFunction(h)
  BY <1>1, PartSumAll
<1> QED
  BY <1>4, <1>5 DEF h

\* The order of two sums does not matter.
LEMMA SumSwaps ==
    ASSUME NEW S, IsFiniteSet(S), NEW T, IsFiniteSet(T), NEW f \in [S -> [T -> Nat]]
    PROVE  SumFunction([x \in S |-> SumFunction([y \in T |-> f[x][y]])])
           = SumFunction([y \in T |-> SumFunction([x \in S |-> f[x][y]])])
<1> DEFINE row == [x \in S |-> SumFunction([y \in T |-> f[x][y]])]
           at(y) == [x \in S |-> f[x][y]]
           col(U) == [y \in T |-> PartSum(at(y), U)]
           Q == {U \in SUBSET S : PartSum(row, U) = SumFunction(col(U))}
<1>1. row \in [S -> Nat]
  <2>1. ASSUME NEW x \in S PROVE SumFunction([y \in T |-> f[x][y]]) \in Nat
    <3>1. [y \in T |-> f[x][y]] \in [T -> Nat]
      OBVIOUS
    <3> QED
      BY <3>1, SumType
  <2> QED
    BY <2>1
<1>0. \A y \in T : at(y) \in [S -> Nat]
  OBVIOUS
<1>a. \A x \in S, y \in T : at(y)[x] = f[x][y]
  OBVIOUS
<1>2. {} \in Q
  <2>2. \A y \in T : col({})[y] = 0
    BY PartSumNone
  <2>3. col({}) \in [T -> Nat]
    BY <2>2
  <2> HIDE DEF col
  <2>4. SumFunction(col({})) = 0
    BY <2>2, <2>3, SumOfZeros
  <2> QED
    BY <2>4, PartSumNone
<1>3. ASSUME NEW U \in SUBSET S, NEW x \in S \ U, U \in Q PROVE U \cup {x} \in Q
  <2> DEFINE g == [y \in T |-> f[x][y]]
             c == col(U)
  <2>1. PartSum(row, U \cup {x}) = row[x] + PartSum(row, U)
    <3> HIDE DEF row
    <3>1. PartSums(row, S)
      BY <1>1, PartSumGrows
    <3> QED
      BY <3>1 DEF PartSums
  <2>2. ASSUME NEW y \in T
        PROVE  /\ PartSum(at(y), U \cup {x}) = f[x][y] + PartSum(at(y), U)
               /\ PartSum(at(y), U) \in Nat
    <3>1. PICK h \in [S -> Nat] : h = at(y)
      BY <1>0
    <3>2. h[x] = f[x][y]
      BY <1>a, <3>1
    <3>3. PartSum(h, U \cup {x}) = h[x] + PartSum(h, U) /\ PartSum(h, U) \in Nat
      <4>1. PartSums(h, S)
        BY PartSumGrows
      <4> QED
        BY <4>1 DEF PartSums
    <3> HIDE DEF at
    <3> QED
      BY <3>1, <3>2, <3>3
  <2> HIDE DEF at
  <2>3. col(U \cup {x}) = [y \in T |-> g[y] + c[y]]
    <3>1. ASSUME NEW y \in T PROVE PartSum(at(y), U \cup {x}) = g[y] + c[y]
      BY <2>2
    <3> QED
      BY <3>1
  <2>4. g \in [T -> Nat] /\ c \in [T -> Nat] /\ row[x] = SumFunction(g)
    BY <2>2
  <2>5. SumFunction([y \in T |-> g[y] + c[y]]) = SumFunction(g) + SumFunction(c)
    <3> HIDE DEF g, c
    <3> QED
      BY <2>4, SumOfSums
  <2>6. PartSum(row, U) = SumFunction(c)
    BY <1>3
  <2>7. PartSum(row, U \cup {x}) = SumFunction(col(U \cup {x}))
    <3> HIDE DEF col, g, c, row
    <3> QED
      BY <2>1, <2>3, <2>4, <2>5, <2>6
  <2> QED
    BY <1>3, <2>7
<1>4. S \in Q
  <2> HIDE DEF Q
  <2> QED
    BY <1>2, <1>3, SetInduction
<1>5. PartSum(row, S) = SumFunction(row)
  BY PartSumAll
<1>6. col(S) = [y \in T |-> SumFunction([x \in S |-> f[x][y]])]
  <2>1. ASSUME NEW y \in T PROVE PartSum(at(y), S) = SumFunction(at(y))
    BY PartSumAll
  <2> QED
    BY <2>1
<1> QED
  BY <1>4, <1>5, <1>6

\* q gives every element of T one name in S.
Lists(q, S, T) ==
    /\ q \in [S -> T]
    /\ \A x, y \in S : q[x] = q[y] => x = y
    /\ \A z \in T : \E x \in S : q[x] = z

\* The elements may be renamed.
LEMMA SumMoves ==
    ASSUME NEW S, IsFiniteSet(S), NEW T, NEW b, Lists(b, S, T), NEW f \in [T -> Nat]
    PROVE  SumFunction([x \in S |-> f[b[x]]]) = SumFunction(f)
<1> DEFINE h == [x \in S |-> f[b[x]]]
           img(U) == {b[x] : x \in U}
           Q == {U \in SUBSET S : PartSum(h, U) = PartSum(f, img(U))}
<1>7. /\ b \in [S -> T] /\ \A x, y \in S : b[x] = b[y] => x = y
      /\ \A z \in T : \E x \in S : b[x] = z
  BY DEF Lists
<1>8. IsFiniteSet(T)
  <2>1. b \in Surjection(S, T)
    BY <1>7 DEF Surjection
  <2> QED
    BY <2>1, FS_Surjection
<1>1. h \in [S -> Nat] /\ \A x \in S : h[x] = f[b[x]]
  BY <1>7
<1> HIDE DEF h
<1>2. {} \in Q
  <2>1. img({}) = {}
    OBVIOUS
  <2> QED
    BY <2>1, PartSumNone
<1>3. ASSUME NEW U \in SUBSET S, NEW x \in S \ U, U \in Q PROVE U \cup {x} \in Q
  <2>1. PartSum(h, U \cup {x}) = h[x] + PartSum(h, U)
    BY <1>1, PartSumGrows DEF PartSums
  <2>2. img(U) \in SUBSET T /\ b[x] \in T \ img(U) /\ img(U \cup {x}) = img(U) \cup {b[x]}
    BY <1>7
  <2>3. PartSum(f, img(U) \cup {b[x]}) = f[b[x]] + PartSum(f, img(U))
    <3> HIDE DEF img
    <3>1. PartSums(f, T)
      BY <1>8, PartSumGrows
    <3> QED
      BY <2>2, <3>1 DEF PartSums
  <2>4. h[x] = f[b[x]] /\ PartSum(h, U) = PartSum(f, img(U))
    BY <1>1, <1>3
  <2>5. PartSum(h, U \cup {x}) = PartSum(f, img(U \cup {x}))
    <3> HIDE DEF img
    <3> QED
      BY <2>1, <2>2, <2>3, <2>4
  <2> QED
    BY <1>3, <2>5
<1>4. S \in Q
  <2> HIDE DEF Q
  <2> QED
    BY <1>2, <1>3, SetInduction
<1>5. img(S) = T
  BY <1>7
<1>6. PartSum(h, S) = SumFunction(h) /\ PartSum(f, T) = SumFunction(f)
  BY <1>1, PartSumAll
<1> QED
  BY <1>4, <1>5, <1>6 DEF h

-----------------------------------------------------------------------------
(* Sequences: what their elements are worth, and FlattenSeq *)

\* What the elements of a sequence are worth.
Total(s, v) == SumFunction([i \in DOMAIN s |-> v[s[i]]])

\* The sum of the first k values grows by the next one.
LEMMA PartSumNext ==
    ASSUME NEW n \in Nat, NEW f \in [1 .. n -> Nat], NEW k \in 0 .. n, k < n
    PROVE  /\ PartSum(f, 1 .. k + 1) = f[k + 1] + PartSum(f, 1 .. k)
           /\ PartSum(f, 1 .. k) \in Nat /\ f[k + 1] \in Nat
<1>1. IsFiniteSet(1 .. n)
  BY FS_Interval
<1>2. PartSums(f, 1 .. n)
  BY <1>1, PartSumGrows
<1>3. 1 .. k \in SUBSET (1 .. n) /\ k + 1 \in (1 .. n) \ (1 .. k)
      /\ (1 .. k) \cup {k + 1} = 1 .. k + 1
  OBVIOUS
<1>4. /\ PartSum(f, (1 .. k) \cup {k + 1}) = f[k + 1] + PartSum(f, 1 .. k)
      /\ PartSum(f, 1 .. k) \in Nat /\ f[k + 1] \in Nat
  BY <1>2, <1>3 DEF PartSums
<1> QED
  BY <1>3, <1>4, Zenon

\* What a sequence is worth is a natural number.
LEMMA TotalType ==
    ASSUME NEW R, NEW v \in [R -> Nat], NEW s \in Seq(R)
    PROVE  Total(s, v) \in Nat
<1>1. Len(s) \in Nat /\ DOMAIN s = 1 .. Len(s) /\ \A i \in DOMAIN s : s[i] \in R
  BY LenProperties, ElementOfSeq
<1>2. [i \in DOMAIN s |-> v[s[i]]] \in [DOMAIN s -> Nat] /\ IsFiniteSet(DOMAIN s)
  BY <1>1, FS_Interval
<1> QED
  BY <1>2, SumType DEF Total

\* The empty sequence is worth nothing.
LEMMA TotalOfNone == ASSUME NEW v PROVE Total(<< >>, v) = 0
<1>1. DOMAIN [i \in DOMAIN << >> |-> v[<< >>[i]]] = {}
  OBVIOUS
<1> QED
  BY <1>1, SumOfNone DEF Total

\* An element appended adds its worth.
LEMMA TotalOfMore ==
    ASSUME NEW R, NEW v \in [R -> Nat], NEW s \in Seq(R), NEW e \in R
    PROVE  Total(Append(s, e), v) = Total(s, v) + v[e]
<1> DEFINE n == Len(s)
           q == Append(s, e)
           f == [i \in 1 .. n + 1 |-> v[q[i]]]
<1>1. n \in Nat /\ DOMAIN s = 1 .. n /\ \A i \in 1 .. n : s[i] \in R
  BY LenProperties, ElementOfSeq
<1>2. /\ DOMAIN q = 1 .. n + 1 /\ q[n + 1] = e
      /\ \A i \in 1 .. n : q[i] = s[i]
  BY <1>1, AppendProperties
<1>3. f \in [1 .. n + 1 -> Nat] /\ f[n + 1] = v[e] /\ \A i \in 1 .. n : f[i] = v[s[i]]
  <2>1. \A i \in 1 .. n + 1 : i = n + 1 \/ i \in 1 .. n
    BY <1>1
  <2>2. \A i \in 1 .. n + 1 : q[i] \in R
    BY <1>1, <1>2, <2>1
  <2> HIDE DEF q
  <2>3. n + 1 \in 1 .. n + 1 /\ \A i \in 1 .. n : i \in 1 .. n + 1
    BY <1>1
  <2> QED
    BY <1>2, <2>2, <2>3
<1>4. Total(q, v) = SumFunction(f)
  BY <1>2 DEF Total
<1>5. Total(s, v) = PartSum(f, 1 .. n)
  <2> HIDE DEF f
  <2>1. [i \in 1 .. n |-> v[s[i]]] = [i \in 1 .. n |-> f[i]]
    BY <1>3
  <2> QED
    BY <1>1, <2>1 DEF Total, PartSum
<1> HIDE DEF f, q
<1>6. SumFunction(f) = PartSum(f, 1 .. n) + f[n + 1]
  <2>1. n + 1 \in Nat /\ n \in 0 .. n + 1 /\ n < n + 1
    BY <1>1
  <2>2. PartSum(f, 1 .. n + 1) = f[n + 1] + PartSum(f, 1 .. n)
          /\ PartSum(f, 1 .. n) \in Nat /\ f[n + 1] \in Nat
    <3> HIDE DEF n
    <3> QED
      BY <1>3, <2>1, PartSumNext
  <2>3. PartSum(f, 1 .. n + 1) = SumFunction(f)
    BY <1>3, PartSumAll
  <2> QED
    BY <2>2, <2>3
<1> QED
  BY <1>3, <1>4, <1>5, <1>6 DEF q

\* Two sequences are worth together what each is worth.
LEMMA TotalOfBoth ==
    ASSUME NEW R, NEW v \in [R -> Nat], NEW s \in Seq(R), NEW t \in Seq(R)
    PROVE  Total(s \o t, v) = Total(s, v) + Total(t, v)
<1> DEFINE m == Len(t)
           P == {k \in 0 .. m : Total(s \o SubSeq(t, 1, k), v)
                                = Total(s, v) + Total(SubSeq(t, 1, k), v)}
<1>1. m \in Nat /\ SubSeq(t, 1, 0) = << >> /\ SubSeq(t, 1, m) = t /\ s \o << >> = s
  BY LenProperties
<1>2. Total(s, v) \in Nat
  BY TotalType
<1>3. 0 \in P
  <2>1. Total(<< >>, v) = 0 /\ 0 \in 0 .. m
    BY <1>1, TotalOfNone
  <2>2. Total(s, v) = Total(s, v) + Total(<< >>, v)
    BY <1>2, <2>1
  <2> HIDE DEF m
  <2> QED
    BY <1>1, <2>1, <2>2
<1>4. ASSUME NEW k \in 0 .. m, k \in P, k < m PROVE k + 1 \in P
  <2>1. PICK q \in Seq(R) : q = SubSeq(t, 1, k)
    <3>1. 1 \in Int /\ k \in Int
      BY <1>1
    <3>2. \A i \in 1 .. k : t[i] \in R
      BY <1>1, ElementOfSeq
    <3>3. SubSeq(t, 1, k) \in Seq(R)
      BY <3>1, <3>2, SubSeqProperties
    <3> QED
      BY <3>3
  <2>2. PICK e \in R : e = t[k + 1]
    BY <1>1, <1>4, ElementOfSeq
  <2>3. SubSeq(t, 1, k + 1) = Append(q, e)
    BY <1>1, <1>4, <2>1, <2>2
  <2>4. s \o Append(q, e) = Append(s \o q, e) /\ s \o q \in Seq(R)
    BY ConcatProperties
  <2>5. Total(Append(q, e), v) = Total(q, v) + v[e]
        /\ Total(Append(s \o q, e), v) = Total(s \o q, v) + v[e]
    BY <2>4, TotalOfMore
  <2>6. Total(s \o q, v) = Total(s, v) + Total(q, v) /\ Total(q, v) \in Nat /\ v[e] \in Nat
    BY <1>4, <2>1, TotalType
  <2>7. Total(s \o Append(q, e), v) = Total(s, v) + Total(Append(q, e), v)
    BY <1>2, <2>4, <2>5, <2>6
  <2>8. k + 1 \in 0 .. m
    BY <1>1, <1>4
  <2> QED
    BY <2>3, <2>7, <2>8
<1>5. m \in P
  <2> HIDE DEF P, m
  <2>1. 0 .. m \subseteq P
    BY <1>1, <1>3, <1>4, Induction
  <2> QED
    BY <1>1, <2>1
<1> QED
  BY <1>1, <1>5

-----------------------------------------------------------------------------
(* Flattening *)

Join(g, ss, i) == IF i = 1 THEN ss[i] ELSE g[i - 1] \o ss[i]
Joiner(g, ss)  == g = [i \in 1 .. Len(ss) |-> Join(g, ss, i)]

\* The sequences joined up to each of them exist, as the library defines FlattenSeq.
LEMMA JoinExists ==
    ASSUME NEW ss, Len(ss) \in Nat
    PROVE  \E g : Joiner(g, ss)
<1> DEFINE P == {k \in Nat : \E g : g = [i \in 1 .. k |-> Join(g, ss, i)]}
<1>1. 0 \in P
  <2>1. [i \in 1 .. 0 |-> ss[i]] = [i \in 1 .. 0 |-> Join([j \in 1 .. 0 |-> ss[j]], ss, i)]
    OBVIOUS
  <2> QED
    BY <2>1
<1>2. ASSUME NEW k \in Nat, k \in P PROVE k + 1 \in P
  <2>1. PICK g : g = [i \in 1 .. k |-> Join(g, ss, i)]
    BY <1>2
  <2> DEFINE h == [i \in 1 .. k + 1 |-> Join(g, ss, i)]
  <2>2. \A i \in 1 .. k : h[i] = g[i]
    <3> TAKE i \in 1 .. k
    <3>1. h[i] = Join(g, ss, i)
      OBVIOUS
    <3>2. g[i] = Join(g, ss, i)
      BY <2>1
    <3> QED
      BY <3>1, <3>2
  <2>3. \A i \in 1 .. k + 1 : h[i] = Join(g, ss, i)
    OBVIOUS
  <2>4. \A i \in 1 .. k + 1 : i = 1 \/ i - 1 \in 1 .. k
    OBVIOUS
  <2>5. h = [i \in 1 .. k + 1 |-> h[i]]
    OBVIOUS
  <2> HIDE DEF h
  <2>6. \A i \in 1 .. k + 1 : Join(g, ss, i) = Join(h, ss, i)
    BY <2>2, <2>4 DEF Join
  <2>7. h = [i \in 1 .. k + 1 |-> Join(h, ss, i)]
    BY <2>3, <2>5, <2>6
  <2> QED
    BY <2>7
<1>3. 0 .. Len(ss) \subseteq P
  <2> HIDE DEF P
  <2> QED
    BY <1>1, <1>2, Induction
<1> QED
  BY <1>3 DEF Joiner

\* The sequences that FlattenSeq passes through.
Flattens(t, ss) ==
    /\ t[0] = << >>
    /\ \A i \in 1 .. Len(ss) : t[i] = t[i - 1] \o ss[i]

\* FlattenSeq joins one sequence after the other.
LEMMA FlattenPasses ==
    ASSUME NEW R, NEW ss \in Seq(Seq(R))
    PROVE  \E t \in [0 .. Len(ss) -> Seq(R)] :
               Flattens(t, ss) /\ FlattenSeq(ss) = t[Len(ss)]
<1> DEFINE n == Len(ss)
<1>1. n \in Nat /\ \A i \in 1 .. n : ss[i] \in Seq(R)
  BY LenProperties, ElementOfSeq
<1>2. CASE n = 0
  <2>1. ss = << >> /\ FlattenSeq(ss) = << >>
    BY <1>2, EmptySeq DEF FlattenSeq
  <2>2. [i \in 0 .. n |-> << >>] \in [0 .. Len(ss) -> Seq(R)]
    OBVIOUS
  <2>3. Flattens([i \in 0 .. n |-> << >>], ss)
    BY <1>2 DEF Flattens
  <2> QED
    BY <1>2, <2>1, <2>2, <2>3
<1>3. CASE n # 0
  <2>1. FlattenSeq(ss) = (CHOOSE g : Joiner(g, ss))[n]
    BY <1>3, Zenon DEF FlattenSeq, Joiner, Join
  <2>2. PICK g : g = CHOOSE h : Joiner(h, ss)
    OBVIOUS
  <2>3. Joiner(g, ss)
    BY <1>1, <2>2, JoinExists, Zenon
  <2> DEFINE t == [i \in 0 .. n |-> IF i = 0 THEN << >> ELSE g[i]]
             P == {k \in 0 .. n : t[k] \in Seq(R)}
  <2>4. ASSUME NEW i \in 1 .. n PROVE t[i] = t[i - 1] \o ss[i]
    <3>1. i \in 0 .. n /\ i # 0 /\ i - 1 \in 0 .. n /\ 0 \in 0 .. n /\ i \in Int
      BY <1>1
    <3>2. t[i] = g[i] /\ t[0] = << >> /\ (i # 1 => t[i - 1] = g[i - 1])
      BY <3>1
    <3>3. g[i] = Join(g, ss, i)
      BY <2>3 DEF Joiner
    <3> HIDE DEF t
    <3>4. CASE i = 1
      <4>1. t[i] = ss[i] /\ t[i - 1] = << >> /\ ss[i] \in Seq(R)
        <5>1. i - 1 = 0
          BY <3>4
        <5> QED
          BY <1>1, <3>2, <3>3, <3>4, <5>1 DEF Join
      <4> QED
        BY <4>1, ConcatEmptySeq
    <3>5. CASE i # 1
      BY <3>2, <3>3, <3>5 DEF Join
    <3> QED
      BY <3>4, <3>5
  <2>5. t[0] = << >> /\ t[n] = g[n] /\ DOMAIN t = 0 .. n
    BY <1>1, <1>3
  <2> HIDE DEF t
  <2>6. 0 \in P
    <3>1. << >> \in Seq(R) /\ 0 \in 0 .. n
      BY <1>1
    <3> QED
      BY <2>5, <3>1
  <2>7. ASSUME NEW k \in 0 .. n, k \in P, k < n PROVE k + 1 \in P
    <3>1. k + 1 \in 1 .. n /\ k + 1 \in 0 .. n /\ (k + 1) - 1 = k
      BY <1>1, <2>7
    <3>2. t[k + 1] = t[k] \o ss[k + 1] /\ t[k] \in Seq(R) /\ ss[k + 1] \in Seq(R)
      BY <1>1, <2>4, <2>7, <3>1
    <3> QED
      BY <3>1, <3>2, ConcatProperties
  <2>8. 0 .. n \subseteq P
    <3> HIDE DEF P, n
    <3> QED
      BY <1>1, <2>6, <2>7, Induction
  <2>9. t \in [0 .. n -> Seq(R)]
    <3>1. t = [i \in 0 .. n |-> t[i]]
      BY DEF t
    <3> QED
      BY <2>8, <3>1
  <2>10. Flattens(t, ss)
    BY <2>4, <2>5 DEF Flattens
  <2> QED
    BY <2>1, <2>2, <2>5, <2>9, <2>10
<1> QED
  BY <1>2, <1>3

\* What is flattened is worth what its parts are.
LEMMA FlattenTotal ==
    ASSUME NEW R, NEW v \in [R -> Nat], NEW ss \in Seq(Seq(R))
    PROVE  /\ FlattenSeq(ss) \in Seq(R)
           /\ Total(FlattenSeq(ss), v) = SumFunction([i \in DOMAIN ss |-> Total(ss[i], v)])
<1> DEFINE n == Len(ss)
           f == [i \in 1 .. n |-> Total(ss[i], v)]
<1>1. n \in Nat /\ DOMAIN ss = 1 .. n /\ \A i \in 1 .. n : ss[i] \in Seq(R)
  BY LenProperties, ElementOfSeq
<1>2. PICK t \in [0 .. n -> Seq(R)] : Flattens(t, ss) /\ FlattenSeq(ss) = t[n]
  BY FlattenPasses
<1> DEFINE P == {k \in 0 .. n : Total(t[k], v) = PartSum(f, 1 .. k)}
<1>3. f \in [1 .. n -> Nat] /\ \A i \in 1 .. n : f[i] = Total(ss[i], v)
  BY <1>1, TotalType
<1> HIDE DEF f
<1>4. 0 \in P
  <2>1. t[0] = << >> /\ 1 .. 0 = {} /\ 0 \in 0 .. n
    BY <1>1, <1>2 DEF Flattens
  <2> QED
    BY <2>1, TotalOfNone, PartSumNone
<1>5. ASSUME NEW k \in 0 .. n, k \in P, k < n PROVE k + 1 \in P
  <2>0. k + 1 \in 1 .. n /\ k + 1 \in 0 .. n /\ (k + 1) - 1 = k /\ k \in Nat
    BY <1>1, <1>5
  <2>1. /\ k + 1 \in 1 .. n /\ k + 1 \in 0 .. n /\ (k + 1) - 1 = k /\ k \in Nat
        /\ t[k] \in Seq(R) /\ ss[k + 1] \in Seq(R)
    <3> HIDE DEF P, n
    <3> QED
      BY <1>1, <1>2, <2>0
  <2>2. t[k + 1] = t[k] \o ss[k + 1]
    BY <1>2, <2>1 DEF Flattens
  <2>3. Total(t[k + 1], v) = Total(t[k], v) + Total(ss[k + 1], v)
    BY <2>1, <2>2, TotalOfBoth
  <2>4. PartSum(f, 1 .. k + 1) = f[k + 1] + PartSum(f, 1 .. k)
        /\ PartSum(f, 1 .. k) \in Nat /\ f[k + 1] \in Nat
    <3> HIDE DEF n
    <3> QED
      BY <1>1, <1>3, <1>5, PartSumNext
  <2>5. Total(t[k], v) = PartSum(f, 1 .. k) /\ Total(ss[k + 1], v) = f[k + 1]
    BY <1>3, <1>5, <2>1
  <2>6. Total(t[k + 1], v) = PartSum(f, 1 .. k + 1)
    BY <2>3, <2>4, <2>5
  <2> QED
    BY <2>1, <2>6
<1>6. 0 .. n \subseteq P
  <2> HIDE DEF P, n
  <2> QED
    BY <1>1, <1>4, <1>5, Induction
<1>7. Total(t[n], v) = PartSum(f, 1 .. n)
  BY <1>1, <1>6
<1>8. PartSum(f, 1 .. n) = SumFunction(f)
  BY <1>3, PartSumAll
<1>9. f = [i \in DOMAIN ss |-> Total(ss[i], v)]
  BY <1>1 DEF f
<1>10. t[n] \in Seq(R)
  BY <1>1, <1>2
<1> QED
  BY <1>2, <1>7, <1>8, <1>9, <1>10

Pairwise(s, rel) == \A i, j \in DOMAIN s : i < j => << s[i], s[j] >> \in rel

\* What is in order in the parts and between them is in order once flattened.
LEMMA FlattenOrder ==
    ASSUME NEW R, NEW rel, NEW ss \in Seq(Seq(R)),
           \A i \in DOMAIN ss : Pairwise(ss[i], rel),
           \A i, j \in DOMAIN ss : i < j =>
               \A a \in DOMAIN ss[i], b \in DOMAIN ss[j] : << ss[i][a], ss[j][b] >> \in rel
    PROVE  Pairwise(FlattenSeq(ss), rel)
<1> DEFINE n == Len(ss)
<1>1. n \in Nat /\ DOMAIN ss = 1 .. n /\ \A i \in 1 .. n : ss[i] \in Seq(R)
  BY LenProperties, ElementOfSeq
<1>2. PICK t \in [0 .. n -> Seq(R)] : Flattens(t, ss) /\ FlattenSeq(ss) = t[n]
  BY FlattenPasses
<1> DEFINE Among(w, k) == \A x \in DOMAIN w : \E i \in 1 .. k :
                              \E a \in DOMAIN ss[i] : w[x] = ss[i][a]
           P == {k \in 0 .. n : Among(t[k], k) /\ Pairwise(t[k], rel)}
<1>3. 0 \in P
  <2>1. t[0] = << >> /\ 0 \in 0 .. n
    BY <1>1, <1>2 DEF Flattens
  <2> QED
    BY <2>1 DEF Pairwise
<1>4. ASSUME NEW k \in 0 .. n, k \in P, k < n PROVE k + 1 \in P
  <2>1. /\ k + 1 \in 1 .. n /\ k + 1 \in 0 .. n /\ (k + 1) - 1 = k /\ k \in Nat
    BY <1>1, <1>4
  <2>2. PICK q \in Seq(R) : q = t[k]
    BY <1>2
  <2>3. PICK s \in Seq(R) : s = ss[k + 1]
    BY <1>1, <2>1
  <2>4. t[k + 1] = q \o s
    BY <1>2, <2>1, <2>2, <2>3 DEF Flattens
  <2>5. /\ Len(q) \in Nat /\ DOMAIN q = 1 .. Len(q) /\ Len(s) \in Nat /\ DOMAIN s = 1 .. Len(s)
    BY LenProperties
  <2>6. /\ DOMAIN (q \o s) = 1 .. Len(q) + Len(s)
        /\ \A x \in 1 .. Len(q) : (q \o s)[x] = q[x]
        /\ \A x \in 1 .. Len(q) + Len(s) : x > Len(q) => x - Len(q) \in DOMAIN s
                                              /\ (q \o s)[x] = s[x - Len(q)]
    BY <2>5, ConcatProperties
  <2>7. ASSUME NEW x \in DOMAIN (q \o s)
        PROVE  \/ x \in DOMAIN q /\ (q \o s)[x] = q[x]
               \/ x > Len(q) /\ x - Len(q) \in DOMAIN s /\ (q \o s)[x] = s[x - Len(q)]
    <3>1. x \in 1 .. Len(q) \/ x > Len(q)
      BY <2>5, <2>6
    <3> QED
      BY <2>5, <2>6, <3>1
  <2>8. Among(q \o s, k + 1)
    <3> SUFFICES ASSUME NEW x \in DOMAIN (q \o s)
                 PROVE  \E i \in 1 .. k + 1 : \E a \in DOMAIN ss[i] : (q \o s)[x] = ss[i][a]
      BY Zenon
    <3>1. CASE x \in DOMAIN q /\ (q \o s)[x] = q[x]
      <4>1. \E i \in 1 .. k : \E a \in DOMAIN ss[i] : q[x] = ss[i][a]
        BY <1>4, <2>2, <3>1
      <4>2. 1 .. k \subseteq 1 .. k + 1
        BY <2>1
      <4> QED
        BY <3>1, <4>1, <4>2
    <3>2. CASE x - Len(q) \in DOMAIN s /\ (q \o s)[x] = s[x - Len(q)]
      <4>1. k + 1 \in 1 .. k + 1
        BY <2>1
      <4> QED
        BY <2>3, <3>2, <4>1
    <3> QED
      BY <2>7, <3>1, <3>2
  <2>9. Pairwise(q \o s, rel)
    <3> SUFFICES ASSUME NEW x \in DOMAIN (q \o s), NEW y \in DOMAIN (q \o s), x < y
                 PROVE  << (q \o s)[x], (q \o s)[y] >> \in rel
      BY DEF Pairwise
    <3>0. x \in Int /\ y \in Int /\ Len(q) \in Nat
      BY <2>5, <2>6
    <3>1. CASE y \in DOMAIN q
      <4>1. x \in DOMAIN q /\ (q \o s)[x] = q[x] /\ (q \o s)[y] = q[y]
        BY <2>5, <2>6, <3>0, <3>1
      <4>2. Pairwise(q, rel)
        BY <1>4, <2>2
      <4> QED
        BY <3>1, <4>1, <4>2 DEF Pairwise
    <3>2. CASE x \in DOMAIN q /\ y \notin DOMAIN q
      <4>1. (q \o s)[x] = q[x] /\ y - Len(q) \in DOMAIN s /\ (q \o s)[y] = s[y - Len(q)]
        BY <2>5, <2>6, <2>7, <3>2
      <4>2. PICK i \in 1 .. k : \E a \in DOMAIN ss[i] : q[x] = ss[i][a]
        BY <1>4, <2>2, <3>2
      <4>3. i \in 1 .. n /\ i < k + 1
        BY <1>1, <2>1, <4>2
      <4> QED
        BY <1>1, <2>1, <2>3, <4>1, <4>2, <4>3
    <3>3. CASE x \notin DOMAIN q
      <4>1. x > Len(q) /\ y > Len(q) /\ x - Len(q) < y - Len(q)
        BY <2>5, <2>6, <3>0, <3>3
      <4>2. /\ x - Len(q) \in DOMAIN s /\ (q \o s)[x] = s[x - Len(q)]
            /\ y - Len(q) \in DOMAIN s /\ (q \o s)[y] = s[y - Len(q)]
        BY <2>6, <4>1
      <4>3. Pairwise(s, rel)
        BY <1>1, <2>1, <2>3
      <4> QED
        BY <4>1, <4>2, <4>3 DEF Pairwise
    <3> QED
      BY <2>7, <3>1, <3>2, <3>3
  <2> HIDE DEF Among
  <2> QED
    BY <2>1, <2>4, <2>8, <2>9
<1>5. 0 .. n \subseteq P
  <2> HIDE DEF P, n
  <2> QED
    BY <1>1, <1>3, <1>4, Induction
<1> QED
  BY <1>1, <1>2, <1>5
=============================================================================

-------------------------- MODULE MeasurementProofs --------------------------
(***************************************************************************)
(* The measurement of a store for every tree, every pattern of hard links, *)
(* every list of excludes and any number of files: StoreWalk, which counts, *)
(* Disposition, which says what deleting would free, and RoundedBytes, the *)
(* bounds of a size another program printed.                               *)
(*                                                                         *)
(* The first two rest on totals over sets of files: the first section is   *)
(* what they need of the library's SumFunctionOnSet.  Induction takes the  *)
(* form of a minimal counterexample, so that no fact takes an operator.    *)
(***************************************************************************)
EXTENDS StoreWalk, Disposition, RoundedBytes, Folds, FiniteSetTheorems, SequenceTheorems, TLAPS

\* Every family of finite sets has a member none of whose proper subsets is one.
LEMMA Minimal ==
  ASSUME NEW F, F # {}, \A T \in F : IsFiniteSet(T)
  PROVE  \E T \in F : \A U \in F : U \subseteq T => U = T
<1> DEFINE S == UNION F
<1>1. IsWellFoundedOn(StrictSubsetOrdering(S), FiniteSubsetsOf(S))
  BY FS_StrictSubsetOrderingWellFounded
<1>2. F \subseteq FiniteSubsetsOf(S)
  BY DEF FiniteSubsetsOf
<1>3. \E T \in F : \A U \in F : ~ (<<U, T>> \in StrictSubsetOrdering(S))
  BY <1>1, <1>2, WFMin
<1> QED BY <1>3 DEF StrictSubsetOrdering

\* A set of numbers has a least one: its interval from zero is minimal.
LEMMA Least ==
  ASSUME NEW B \in SUBSET Nat, B # {}
  PROVE  \E n \in B : \A m \in B : n <= m
<1> DEFINE F == {0..n : n \in B}
<1>1. \A T \in F : IsFiniteSet(T)
  <2>1. \A n \in Nat : IsFiniteSet(0..n)
    BY FS_Interval
  <2> QED BY <2>1
<1>2. F # {}
  OBVIOUS
<1>3. PICK T \in F : \A U \in F : U \subseteq T => U = T
  <2> HIDE DEF F
  <2> QED BY <1>1, <1>2, Minimal
<1>4. PICK n \in B : T = 0..n
  OBVIOUS
<1>5. ASSUME NEW m \in B, ~(n <= m) PROVE FALSE
  <2>1. 0..m \subseteq 0..n /\ n \notin 0..m /\ n \in 0..n
    BY <1>5
  <2>2. 0..m = T
    BY <1>3, <1>4, <2>1
  <2> QED BY <1>4, <2>1, <2>2
<1> QED BY <1>5

\* The library adds up an arbitrary member first, then the rest: the recursive
\* function it defines on the subsets of S.
AnyOf(s) == CHOOSE x \in s : TRUE
LEMMA AnyIsIn == ASSUME NEW s, s # {} PROVE AnyOf(s) \in s
BY DEF AnyOf

SumsOn(f, D, g) ==
  g = [s \in D |-> IF s = {} THEN 0 ELSE f[AnyOf(s)] + g[s \ {AnyOf(s)}]]
SumsOf(f, S) == CHOOSE g : SumsOn(f, SUBSET S, g)

NextSum(f, g, s) == IF s = {} THEN 0 ELSE f[AnyOf(s)] + g[s \ {AnyOf(s)}]

\* Such a function obeys its equation, and what obeys the equation is one.
LEMMA SumsAt ==
  ASSUME NEW f, NEW D, NEW g, SumsOn(f, D, g)
  PROVE  \A s \in D : g[s] = NextSum(f, g, s)
<1> DEFINE h == [t \in D |-> NextSum(f, g, t)]
<1>1. g = h
  BY DEF SumsOn, NextSum
<1>2. \A s \in D : h[s] = NextSum(f, g, s)
  OBVIOUS
<1> HIDE DEF h
<1> QED BY <1>1, <1>2

LEMMA SumsFrom ==
  ASSUME NEW f, NEW D, NEW g, g = [s \in D |-> g[s]], \A s \in D : g[s] = NextSum(f, g, s)
  PROVE  SumsOn(f, D, g)
<1> DEFINE h == [t \in D |-> NextSum(f, g, t)]
<1>1. [s \in D |-> g[s]] = h
  OBVIOUS
<1>2. g = h
  BY <1>1
<1> QED BY <1>2 DEF SumsOn, NextSum

\* The library's total is that function at S.
LEMMA SumUnfolded ==
  ASSUME NEW f, NEW S
  PROVE  SumFunctionOnSet(f, S) = SumsOf(f, S)[S]
BY DEF SumFunctionOnSet, FoldFunctionOnSet, MapThenFoldSet, SumsOf, SumsOn, AnyOf

\* The recursive function exists: layer by layer.
LEMMA SumsExist ==
  ASSUME NEW f, NEW S, IsFiniteSet(S)
  PROVE  SumsOn(f, SUBSET S, SumsOf(f, S))
<1> DEFINE Layer(n) == {s \in SUBSET S : Cardinality(s) <= n}
           Onto(D, g) == [s \in D |-> NextSum(f, g, s)]
           B == {n \in Nat : ~ \E g : SumsOn(f, Layer(n), g)}
<1>1. \A s \in SUBSET S : IsFiniteSet(s) /\ Cardinality(s) \in Nat
  BY FS_Subset, FS_CardinalityType
<1>2. SumsOn(f, Layer(0), Onto(Layer(0), f))
  <2>1. \A s \in Layer(0) : s = {}
    BY <1>1, FS_EmptySet
  <2> QED BY <2>1 DEF SumsOn, NextSum
<1>3. ASSUME NEW n \in Nat, NEW g, SumsOn(f, Layer(n), g)
      PROVE  SumsOn(f, Layer(n + 1), Onto(Layer(n + 1), g))
  <2> DEFINE h == Onto(Layer(n + 1), g)
  <2>1. ASSUME NEW s \in Layer(n + 1), s # {}
        PROVE  s \ {AnyOf(s)} \in Layer(n) /\ s \ {AnyOf(s)} \in Layer(n + 1)
    BY <2>1, <1>1, AnyIsIn, FS_RemoveElement
  <2>2. ASSUME NEW s \in Layer(n) PROVE s \in Layer(n + 1) /\ h[s] = g[s]
    <3>1. s \in Layer(n + 1)
      BY <1>1
    <3>2. g[s] = NextSum(f, g, s)
      BY <1>3, SumsAt
    <3> QED BY <3>1, <3>2
  <2>3. \A s \in Layer(n + 1) : h[s] = NextSum(f, h, s)
    BY <2>1, <2>2 DEF NextSum
  <2>4. h = [s \in Layer(n + 1) |-> h[s]]
    OBVIOUS
  <2> HIDE DEF h
  <2>5. SumsOn(f, Layer(n + 1), h)
    <3> HIDE DEF Layer
    <3> QED BY <2>3, <2>4, SumsFrom
  <2> QED BY <2>5 DEF h
<1>4. B = {}
  <2> SUFFICES ASSUME B # {} PROVE FALSE
    OBVIOUS
  <2>1. PICK n \in B : \A m \in B : n <= m
    <3>1. B \in SUBSET Nat
      OBVIOUS
    <3> HIDE DEF B
    <3> QED BY <3>1, Least
  <2>2. n # 0
    BY <1>2
  <2>3. n - 1 \in Nat /\ n - 1 \notin B /\ (n - 1) + 1 = n
    <3>1. n \in Nat
      OBVIOUS
    <3>2. n - 1 \in Nat /\ (n - 1) + 1 = n /\ ~(n <= n - 1)
      BY <3>1, <2>2
    <3> HIDE DEF B
    <3> QED BY <2>1, <3>2
  <2>4. PICK g : SumsOn(f, Layer(n - 1), g)
    BY <2>3
  <2>5. SumsOn(f, Layer((n - 1) + 1), Onto(Layer((n - 1) + 1), g))
    <3> HIDE DEF Layer, Onto, B
    <3> QED BY <2>3, <2>4, <1>3
  <2> QED BY <2>5, <2>3
<1>5. \A s \in SUBSET S : Cardinality(s) <= Cardinality(S)
  BY FS_Subset
<1>6. Layer(Cardinality(S)) = SUBSET S
  BY <1>5
<1>7. \E g : SumsOn(f, SUBSET S, g)
  BY <1>1, <1>4, <1>6, FS_CardinalityType
<1> QED BY <1>7 DEF SumsOf

\* It depends on the terms it adds up alone, not on the set it was defined on.
LEMMA SumsAgree ==
  ASSUME NEW f, NEW g, NEW S, NEW T \in SUBSET S, IsFiniteSet(S), \A x \in T : f[x] = g[x]
  PROVE  SumsOf(f, S)[T] = SumsOf(g, T)[T]
<1> DEFINE F == {U \in SUBSET T : SumsOf(f, S)[U] # SumsOf(g, T)[U]}
<1>1. IsFiniteSet(T) /\ \A U \in SUBSET T : IsFiniteSet(U)
  BY FS_Subset
<1>2. ASSUME NEW U \in F, \A V \in F : V \subseteq U => V = U PROVE FALSE
  <2>1. \A s \in SUBSET S :
          SumsOf(f, S)[s] = NextSum(f, SumsOf(f, S), s)
    <3>1. SumsOn(f, SUBSET S, SumsOf(f, S))
      BY SumsExist
    <3> HIDE DEF F
    <3> QED BY <3>1, SumsAt
  <2>2. \A s \in SUBSET T :
          SumsOf(g, T)[s] = NextSum(g, SumsOf(g, T), s)
    <3>1. SumsOn(g, SUBSET T, SumsOf(g, T))
      BY <1>1, SumsExist
    <3> HIDE DEF F
    <3> QED BY <3>1, SumsAt
  <2>3. U # {}
    BY <2>1, <2>2 DEF NextSum
  <2>4. AnyOf(U) \in U
    BY <2>3, AnyIsIn
  <2>5. SumsOf(f, S)[U \ {AnyOf(U)}] = SumsOf(g, T)[U \ {AnyOf(U)}]
    BY <1>2, <2>4
  <2> QED BY <2>1, <2>2, <2>3, <2>4, <2>5 DEF NextSum
<1>3. F = {}
  <2>1. \A U \in F : IsFiniteSet(U)
    BY <1>1
  <2> HIDE DEF F
  <2> QED BY <1>2, <2>1, Minimal
<1> QED BY <1>3

\* The equation of a total.
LEMMA SumEquation ==
  ASSUME NEW f, NEW S, IsFiniteSet(S)
  PROVE  SumFunctionOnSet(f, S) = IF S = {} THEN 0 ELSE f[AnyOf(S)] + SumFunctionOnSet(f, S \ {AnyOf(S)})
<1> DEFINE T == S \ {AnyOf(S)}
<1>1. SumsOf(f, S)[S] = IF S = {} THEN 0 ELSE f[AnyOf(S)] + SumsOf(f, S)[T]
  <2>1. SumsOn(f, SUBSET S, SumsOf(f, S)) /\ S \in SUBSET S
    BY SumsExist
  <2>2. SumsOf(f, S)[S] = NextSum(f, SumsOf(f, S), S)
    BY <2>1, SumsAt
  <2> QED BY <2>2 DEF NextSum
<1>2. SumsOf(f, S)[T] = SumsOf(f, T)[T]
  BY SumsAgree
<1> QED BY <1>1, <1>2, SumUnfolded

\* Equal terms, equal totals.
LEMMA SumDepends ==
  ASSUME NEW f, NEW g, NEW S, IsFiniteSet(S), \A x \in S : f[x] = g[x]
  PROVE  SumFunctionOnSet(f, S) = SumFunctionOnSet(g, S)
<1>1. SumsOf(f, S)[S] = SumsOf(g, S)[S]
  BY SumsAgree
<1> QED BY <1>1, SumUnfolded

\* A total of nothing.
LEMMA SumEmpty == ASSUME NEW f PROVE SumFunctionOnSet(f, {}) = 0
BY SumEquation, FS_EmptySet

\* Totals of sizes are sizes.  As in the proofs after it: a claim that failed
\* for some set of indices would fail for a minimal one.
LEMMA SumType ==
  ASSUME NEW f, NEW S, IsFiniteSet(S), \A x \in S : f[x] \in Nat
  PROVE  SumFunctionOnSet(f, S) \in Nat
<1> DEFINE F == {U \in SUBSET S : SumFunctionOnSet(f, U) \notin Nat}
<1>1. \A U \in F : IsFiniteSet(U)
  BY FS_Subset
<1>2. ASSUME NEW U \in F, \A V \in F : V \subseteq U => V = U PROVE FALSE
  <2>1. U # {}
    <3>1. SumFunctionOnSet(f, {}) \in Nat
      BY SumEmpty
    <3> QED BY <3>1
  <2>2. AnyOf(U) \in U
    BY <2>1, AnyIsIn
  <2>3. SumFunctionOnSet(f, U \ {AnyOf(U)}) \in Nat
    BY <1>2, <2>2
  <2>4. SumFunctionOnSet(f, U) = f[AnyOf(U)] + SumFunctionOnSet(f, U \ {AnyOf(U)})
    BY <1>1, <2>1, SumEquation
  <2> QED BY <2>2, <2>3, <2>4
<1>3. F = {}
  <2> HIDE DEF F
  <2> QED BY <1>1, <1>2, Minimal
<1> QED BY <1>3

\* The order in which a total is added up does not matter.
LEMMA SumRemove ==
  ASSUME NEW f, NEW S, IsFiniteSet(S), \A x \in S : f[x] \in Nat, NEW y \in S
  PROVE  SumFunctionOnSet(f, S) = f[y] + SumFunctionOnSet(f, S \ {y})
<1> DEFINE Removes(U, x) == SumFunctionOnSet(f, U) = f[x] + SumFunctionOnSet(f, U \ {x})
           F == {U \in SUBSET S : \E x \in U : ~Removes(U, x)}
<1>1. \A U \in SUBSET S : IsFiniteSet(U) /\ SumFunctionOnSet(f, U) \in Nat
  <2> SUFFICES ASSUME NEW U \in SUBSET S
               PROVE  IsFiniteSet(U) /\ SumFunctionOnSet(f, U) \in Nat
    OBVIOUS
  <2>1. IsFiniteSet(U)
    BY FS_Subset
  <2> QED BY <2>1, SumType
<1>2. ASSUME NEW U \in F, \A V \in F : V \subseteq U => V = U PROVE FALSE
  <2>1. PICK x \in U : ~Removes(U, x)
    OBVIOUS
  <2> DEFINE a == AnyOf(U)
             V == U \ {a}
             W == U \ {x}
  <2>2. a \in U /\ x \in U /\ U \in SUBSET S
    BY <2>1, AnyIsIn
  <2>3. Removes(U, a)
    BY <1>1, <2>2, SumEquation
  <2>4. a # x
    BY <2>1, <2>3
  <2>5. V \in SUBSET S /\ W \in SUBSET S /\ V \notin F /\ W \notin F
    BY <1>2, <2>2
  <2>6. Removes(V, x) /\ Removes(W, a)
    BY <2>2, <2>4, <2>5
  <2>7. V \ {x} = W \ {a} /\ V \ {x} \in SUBSET S
    BY <2>2
  <2>8. f[a] \in Nat /\ f[x] \in Nat /\ SumFunctionOnSet(f, V \ {x}) \in Nat
    BY <1>1, <2>2, <2>7
  <2> QED BY <2>1, <2>3, <2>6, <2>7, <2>8
<1>3. F = {}
  <2>1. \A U \in F : IsFiniteSet(U)
    BY <1>1
  <2> HIDE DEF F
  <2> QED BY <2>1, <1>2, Minimal
<1> QED BY <1>3

\* A total of smaller terms, or of fewer, is no larger.
LEMMA SumMonotone ==
  ASSUME NEW f, NEW T, NEW g, NEW S, IsFiniteSet(S), T \subseteq S,
         \A x \in S : g[x] \in Nat,
         \A x \in T : f[x] \in Nat /\ f[x] <= g[x]
  PROVE  SumFunctionOnSet(f, T) <= SumFunctionOnSet(g, S)
<1> DEFINE Small(U) == SumFunctionOnSet(f, U \cap T) <= SumFunctionOnSet(g, U)
           F == {U \in SUBSET S : ~Small(U)}
<1>1. \A U \in SUBSET S :
        /\ IsFiniteSet(U) /\ IsFiniteSet(U \cap T)
        /\ SumFunctionOnSet(f, U \cap T) \in Nat /\ SumFunctionOnSet(g, U) \in Nat
  <2> SUFFICES ASSUME NEW U \in SUBSET S
               PROVE  /\ IsFiniteSet(U) /\ IsFiniteSet(U \cap T)
                      /\ SumFunctionOnSet(f, U \cap T) \in Nat
                      /\ SumFunctionOnSet(g, U) \in Nat
    OBVIOUS
  <2>1. IsFiniteSet(U) /\ IsFiniteSet(U \cap T)
    BY FS_Subset
  <2> QED BY <2>1, SumType
<1>2. ASSUME NEW U \in F, \A V \in F : V \subseteq U => V = U PROVE FALSE
  <2>1. U # {}
    <3>1. Small({})
      <4>1. {} \cap T = {}
        OBVIOUS
      <4> QED BY <4>1, SumEmpty
    <3> QED BY <3>1
  <2>2. PICK x \in U : TRUE
    BY <2>1
  <2> DEFINE V == U \ {x}
  <2>3. V \in SUBSET S /\ Small(V)
    BY <1>2
  <2> DEFINE fU == SumFunctionOnSet(f, U \cap T)
             fV == SumFunctionOnSet(f, V \cap T)
  <2>0. /\ U \in SUBSET S /\ ~Small(U) /\ IsFiniteSet(U \cap T)
        /\ fU \in Nat /\ fV \in Nat
        /\ SumFunctionOnSet(g, V) \in Nat /\ SumFunctionOnSet(g, U) \in Nat
    BY <1>1, <2>3
  <2>4. SumFunctionOnSet(g, U) = g[x] + SumFunctionOnSet(g, V)
    BY <1>1, SumRemove
  <2>5. fU <= g[x] + fV
    <3>1. CASE x \in T
      <4>1. SumFunctionOnSet(f, U \cap T) = f[x] + SumFunctionOnSet(f, (U \cap T) \ {x})
        BY <2>0, <3>1, SumRemove
      <4>2. (U \cap T) \ {x} = V \cap T
        OBVIOUS
      <4>3. f[x] \in Nat /\ g[x] \in Nat /\ f[x] <= g[x]
        BY <3>1
      <4>4. fU = f[x] + fV
        BY <4>1, <4>2
      <4> HIDE DEF fU, fV
      <4> QED BY <4>3, <4>4, <2>0
    <3>2. CASE x \notin T
      <4>1. U \cap T = V \cap T
        BY <3>2
      <4>2. g[x] \in Nat /\ fU = fV
        BY <4>1
      <4> HIDE DEF fU, fV
      <4> QED BY <4>2, <2>0
    <3> QED BY <3>1, <3>2
  <2>6. g[x] \in Nat
    OBVIOUS
  <2>7. fV <= SumFunctionOnSet(g, V) /\ ~(fU <= SumFunctionOnSet(g, U))
    BY <2>0, <2>3
  <2> HIDE DEF V, F, fU, fV
  <2> QED BY <2>0, <2>4, <2>5, <2>6, <2>7
<1>3. F = {}
  <2>1. \A U \in F : IsFiniteSet(U)
    BY <1>1
  <2> HIDE DEF F
  <2> QED BY <2>1, <1>2, Minimal
<1>4. Small(S) /\ S \cap T = T
  BY <1>3
<1> QED BY <1>4

\* Terms that are zero do not count.
LEMMA SumSame ==
  ASSUME NEW f, NEW T, NEW g, NEW S, IsFiniteSet(S), T \subseteq S,
         \A x \in T : f[x] \in Nat /\ g[x] = f[x],
         \A x \in S \ T : g[x] = 0
  PROVE  SumFunctionOnSet(f, T) = SumFunctionOnSet(g, S)
<1> DEFINE Same(U) == SumFunctionOnSet(f, U \cap T) = SumFunctionOnSet(g, U)
           F == {U \in SUBSET S : ~Same(U)}
<1>1. \A U \in SUBSET S : IsFiniteSet(U) /\ IsFiniteSet(U \cap T)
  <2> SUFFICES ASSUME NEW U \in SUBSET S PROVE IsFiniteSet(U) /\ IsFiniteSet(U \cap T)
    OBVIOUS
  <2> QED BY FS_Subset
<1>2. \A x \in S : g[x] \in Nat
  OBVIOUS
<1>3. ASSUME NEW U \in F, \A V \in F : V \subseteq U => V = U PROVE FALSE
  <2>1. U # {}
    <3>1. Same({})
      <4>1. {} \cap T = {}
        OBVIOUS
      <4> QED BY <4>1, SumEmpty
    <3> QED BY <3>1
  <2>2. PICK x \in U : TRUE
    BY <2>1
  <2> DEFINE V == U \ {x}
  <2>3. V \in SUBSET S /\ Same(V)
    BY <1>3
  <2>4. SumFunctionOnSet(g, U) = g[x] + SumFunctionOnSet(g, V)
    BY <1>1, <1>2, SumRemove
  <2>5. SumFunctionOnSet(g, V) \in Nat
    BY <1>1, <1>2, <2>3, SumType
  <2>6. SumFunctionOnSet(f, U \cap T) = g[x] + SumFunctionOnSet(f, V \cap T)
    <3>1. CASE x \in T
      <4>1. SumFunctionOnSet(f, U \cap T) = f[x] + SumFunctionOnSet(f, (U \cap T) \ {x})
        BY <1>1, <3>1, SumRemove
      <4>2. (U \cap T) \ {x} = V \cap T
        OBVIOUS
      <4> QED BY <4>1, <4>2, <3>1
    <3>2. CASE x \notin T
      <4>1. U \cap T = V \cap T
        BY <3>2
      <4>2. g[x] = 0
        BY <3>2
      <4>3. SumFunctionOnSet(f, V \cap T) \in Nat
        BY <2>3, <2>5
      <4>4. SumFunctionOnSet(f, U \cap T) = SumFunctionOnSet(f, V \cap T)
        BY <4>1
      <4> HIDE DEF V, F
      <4> QED BY <4>2, <4>3, <4>4
    <3> QED BY <3>1, <3>2
  <2>7. ~Same(U)
    OBVIOUS
  <2> HIDE DEF V, F
  <2> QED BY <2>3, <2>4, <2>6, <2>7
<1>4. F = {}
  <2>1. \A U \in F : IsFiniteSet(U)
    BY <1>1
  <2> HIDE DEF F
  <2> QED BY <2>1, <1>3, Minimal
<1>5. Same(S) /\ S \cap T = T
  BY <1>4
<1> QED BY <1>5

\* A union is never larger than the sizes of its parts together, and just as
\* large when they share nothing.
LEMMA SumOfUnion ==
  ASSUME NEW b, NEW S, IsFiniteSet(S), \A x \in S : IsFiniteSet(b[x]),
         NEW c, \A x \in S : c[x] = Cardinality(b[x])
  PROVE  /\ IsFiniteSet(UNION {b[x] : x \in S})
         /\ Cardinality(UNION {b[x] : x \in S}) <= SumFunctionOnSet(c, S)
         /\ (\A x, y \in S : x # y => b[x] \cap b[y] = {})
              => Cardinality(UNION {b[x] : x \in S}) = SumFunctionOnSet(c, S)
<1> DEFINE Whole(U) == UNION {b[x] : x \in U}
           Apart == \A x, y \in S : x # y => b[x] \cap b[y] = {}
           FitsSum(U) ==
             /\ IsFiniteSet(Whole(U))
             /\ Cardinality(Whole(U)) <= SumFunctionOnSet(c, U)
             /\ Apart => Cardinality(Whole(U)) = SumFunctionOnSet(c, U)
           F == {U \in SUBSET S : ~FitsSum(U)}
<1>1. \A U \in SUBSET S : IsFiniteSet(U)
  BY FS_Subset
<1>2. \A x \in S : c[x] \in Nat
  BY FS_CardinalityType
<1>3. ASSUME NEW U \in F, \A V \in F : V \subseteq U => V = U PROVE FALSE
  <2>1. U # {}
    <3>1. Whole({}) = {}
      OBVIOUS
    <3> QED BY <3>1, SumEmpty, FS_EmptySet
  <2>2. PICK x \in U : TRUE
    BY <2>1
  <2> DEFINE V == U \ {x}
  <2>3. V \in SUBSET S /\ FitsSum(V)
    BY <1>3
  <2>4. SumFunctionOnSet(c, U) = c[x] + SumFunctionOnSet(c, V)
    BY <1>1, <1>2, SumRemove
  <2>5. SumFunctionOnSet(c, V) \in Nat /\ c[x] \in Nat
    BY <1>1, <1>2, <2>3, SumType
  <2>6. Whole(U) = b[x] \cup Whole(V)
    OBVIOUS
  <2>7. IsFiniteSet(b[x]) /\ c[x] = Cardinality(b[x])
    OBVIOUS
  <2>8. /\ IsFiniteSet(Whole(U))
        /\ Cardinality(Whole(U)) =
             c[x] + Cardinality(Whole(V)) - Cardinality(b[x] \cap Whole(V))
    <3> HIDE DEF V, F, Whole
    <3> QED BY <2>3, <2>6, <2>7, FS_Union
  <2>9. IsFiniteSet(b[x] \cap Whole(V))
    <3> HIDE DEF V, F, Whole
    <3> QED BY <2>7, FS_Subset
  <2>10. /\ Cardinality(b[x] \cap Whole(V)) \in Nat
         /\ Cardinality(Whole(V)) \in Nat
    <3> HIDE DEF V, F, Whole
    <3> QED BY <2>3, <2>9, FS_CardinalityType
  <2>11. Apart => Cardinality(b[x] \cap Whole(V)) = 0
    <3>1. Apart => b[x] \cap Whole(V) = {}
      OBVIOUS
    <3> QED BY <3>1, FS_EmptySet
  <2>12. ~FitsSum(U)
    OBVIOUS
  <2> HIDE DEF V, F, Whole, Apart
  <2> QED BY <2>3, <2>4, <2>5, <2>8, <2>10, <2>11, <2>12
<1>4. F = {}
  <2>1. \A U \in F : IsFiniteSet(U)
    BY <1>1
  <2> HIDE DEF F
  <2> QED BY <2>1, <1>3, Minimal
<1> QED BY <1>4

-----------------------------------------------------------------------------
(* Disposition: the interval and its overflow.                             *)

\* What the observations say of the files never changes.
LEMMA WorldStart == DispositionInit => WorldInv
BY DEF DispositionInit, WorldInv

LEMMA WorldFixed ==
  ASSUME WorldInv, UNCHANGED world
  PROVE  WorldInv'
BY DEF WorldInv, world, OwnBlocks

\* Every block is counted, and no object has more blocks of its own than blocks.
LEMMA BlocksCounted ==
  ASSUME WorldInv, NEW o \in Identities
  PROVE  /\ IsFiniteSet(blocks[o]) /\ IsFiniteSet(OwnBlocks(o))
         /\ Cardinality(blocks[o]) \in Nat /\ Cardinality(OwnBlocks(o)) \in Nat
         /\ Cardinality(OwnBlocks(o)) <= Cardinality(blocks[o])
<1>1. blocks[o] \in SUBSET Blocks /\ OwnBlocks(o) \in SUBSET blocks[o]
  BY DEF WorldInv, OwnBlocks
<1>2. IsFiniteSet(blocks[o])
  BY <1>1, FS_Subset, DispositionAssumption
<1>3. IsFiniteSet(OwnBlocks(o)) /\ Cardinality(OwnBlocks(o)) <= Cardinality(blocks[o])
  BY <1>1, <1>2, FS_Subset
<1> QED
  BY <1>2, <1>3, FS_CardinalityType

LEMMA NextObject ==
  ASSUME remaining \subseteq Identities, remaining # {}
  PROVE  Min(remaining) \in remaining
<1>1. remaining \in SUBSET Nat
  BY DispositionAssumption
<1>2. \E n \in remaining : \A m \in remaining : n <= m
  BY <1>1, Least
<1> QED
  BY <1>2 DEF Min

\* No total of sizes that were returned is larger than that of all blocks.
Everything == [o \in Identities |-> Cardinality(blocks[o])]

LEMMA TotalsBounded ==
  ASSUME WorldInv, NEW T \in SUBSET Identities
  PROVE  /\ (\A o \in T : private_bytes[o] # NotReturned) =>
              /\ \A o \in T : private_bytes[o] \in Nat
              /\ SumFunctionOnSet(private_bytes, T) \in Nat
              /\ SumFunctionOnSet(private_bytes, T) <= SumFunctionOnSet(Everything, Identities)
         /\ (\A o \in T : allocated_bytes[o] # NotReturned) =>
              /\ \A o \in T : allocated_bytes[o] \in Nat
              /\ SumFunctionOnSet(allocated_bytes, T) \in Nat
              /\ SumFunctionOnSet(allocated_bytes, T) <= SumFunctionOnSet(Everything, Identities)
<1>1. IsFiniteSet(Identities) /\ IsFiniteSet(T)
  BY DispositionAssumption, FS_Subset
<1>2. \A o \in Identities : Everything[o] \in Nat
  BY BlocksCounted DEF Everything
<1>3. ASSUME \A o \in T : private_bytes[o] # NotReturned
      PROVE  \A o \in T : private_bytes[o] \in Nat /\ private_bytes[o] <= Everything[o]
  <2>1. \A o \in T : private_bytes[o] = Cardinality(OwnBlocks(o))
    BY <1>3 DEF WorldInv
  <2> QED
    BY <2>1, BlocksCounted DEF Everything
<1>4. ASSUME \A o \in T : allocated_bytes[o] # NotReturned
      PROVE  \A o \in T : allocated_bytes[o] \in Nat /\ allocated_bytes[o] <= Everything[o]
  <2>1. \A o \in T : allocated_bytes[o] = Cardinality(blocks[o])
    BY <1>4 DEF WorldInv
  <2> QED
    BY <2>1, BlocksCounted DEF Everything
<1>5. ASSUME \A o \in T : private_bytes[o] # NotReturned
      PROVE  /\ SumFunctionOnSet(private_bytes, T) \in Nat
             /\ SumFunctionOnSet(private_bytes, T) <= SumFunctionOnSet(Everything, Identities)
  BY <1>1, <1>2, <1>3, <1>5, SumType, SumMonotone
<1>6. ASSUME \A o \in T : allocated_bytes[o] # NotReturned
      PROVE  /\ SumFunctionOnSet(allocated_bytes, T) \in Nat
             /\ SumFunctionOnSet(allocated_bytes, T) <= SumFunctionOnSet(Everything, Identities)
  BY <1>1, <1>2, <1>4, <1>6, SumType, SumMonotone
<1> QED
  BY <1>3, <1>4, <1>5, <1>6

LEMMA DispositionStart == DispositionInit => DispositionInv
<1> SUFFICES ASSUME DispositionInit PROVE DispositionInv
  OBVIOUS
<1>1. Observed = {} /\ Freeable = {}
  BY DEF DispositionInit, Observed, Freeable
<1>2. /\ SumFunctionOnSet(private_bytes, Freeable) = 0
      /\ SumFunctionOnSet(allocated_bytes, Observed) = 0
  BY <1>1, SumEmpty
<1>3. OverflowIsReal
  BY DispositionAssumption DEF DispositionInit, OverflowIsReal
<1> QED
  BY <1>1, <1>2, <1>3, WorldStart DEF DispositionInit, DispositionInv

\* One more object: both bounds are still totals, and one that does not fit
\* says so of the total of all blocks.
LEMMA ObserveKeeps == DispositionInv /\ Observe => DispositionInv'
<1> SUFFICES ASSUME DispositionInv, Observe PROVE DispositionInv'
  OBVIOUS
<1> DEFINE o == Min(remaining)
           Missed == \E p \in Observed : allocated_bytes[p] = NotReturned
<1>1. o \in remaining /\ o \in Identities /\ o \notin Observed /\ Observed \subseteq Identities
  BY NextObject DEF DispositionInv, Observe, Observed
<1>2. WorldInv /\ WorldInv' /\ UNCHANGED world
  BY WorldFixed DEF DispositionInv, Observe
<1> DEFINE Counts == WhollyCovered(o) /\ private_bytes[o] # NotReturned
           More == IF Counts THEN Freeable \cup {o} ELSE Freeable
<1>3. /\ FloorAfter(o) = SumFunctionOnSet(private_bytes, More)
      /\ FloorAfter(o) \in Nat
      /\ FloorAfter(o) <= SumFunctionOnSet(Everything, Identities)
  <2>1. More \subseteq Identities /\ \A p \in More : private_bytes[p] # NotReturned
    BY <1>1 DEF Freeable
  <2>2. \A p \in More : private_bytes[p] \in Nat
    BY <1>2, <2>1, TotalsBounded
  <2>3. IsFiniteSet(More)
    BY <2>1, FS_Subset, DispositionAssumption
  <2>4. FloorAfter(o) = SumFunctionOnSet(private_bytes, More)
    <3>1. ASSUME Counts PROVE FloorAfter(o) = SumFunctionOnSet(private_bytes, More)
      <4>1. o \in More /\ More \ {o} = Freeable
        BY <1>1, <3>1 DEF Freeable
      <4>2. SumFunctionOnSet(private_bytes, More)
              = private_bytes[o] + SumFunctionOnSet(private_bytes, Freeable)
        BY <2>2, <2>3, <4>1, SumRemove
      <4>3. FloorAfter(o) = SumFunctionOnSet(private_bytes, Freeable) + private_bytes[o]
        BY <3>1 DEF FloorAfter, DispositionInv
      <4>4. private_bytes[o] \in Nat /\ SumFunctionOnSet(private_bytes, Freeable) \in Nat
        <5>1. Freeable \subseteq Identities /\ \A p \in Freeable : private_bytes[p] # NotReturned
          BY <1>1 DEF Freeable
        <5> QED BY <1>2, <2>2, <4>1, <5>1, TotalsBounded
      <4> HIDE DEF More
      <4> QED BY <4>2, <4>3, <4>4
    <3>2. ASSUME ~Counts PROVE FloorAfter(o) = SumFunctionOnSet(private_bytes, More)
      BY <3>2 DEF FloorAfter, DispositionInv
    <3> QED BY <3>1, <3>2
  <2> HIDE DEF More
  <2> QED BY <1>2, <2>1, <2>4, TotalsBounded
<1> DEFINE c == CeilingAfter(o)
           Unsure == Missed \/ allocated_bytes[o] = NotReturned
<1>4. /\ c = IF Unsure THEN NotReturned ELSE SumFunctionOnSet(allocated_bytes, Observed \cup {o})
      /\ c # NotReturned => c \in Nat /\ c <= SumFunctionOnSet(Everything, Identities)
  <2>1. ASSUME ~Unsure
        PROVE  /\ c = SumFunctionOnSet(allocated_bytes, Observed \cup {o})
               /\ c \in Nat /\ c <= SumFunctionOnSet(Everything, Identities)
    <3> DEFINE Seen == Observed \cup {o}
    <3>1. Seen \subseteq Identities /\ \A p \in Seen : allocated_bytes[p] # NotReturned
      BY <1>1, <2>1
    <3>2. /\ \A p \in Seen : allocated_bytes[p] \in Nat
          /\ SumFunctionOnSet(allocated_bytes, Seen) \in Nat
          /\ SumFunctionOnSet(allocated_bytes, Seen) <= SumFunctionOnSet(Everything, Identities)
      BY <1>2, <3>1, TotalsBounded
    <3>3. IsFiniteSet(Seen)
      BY <3>1, FS_Subset, DispositionAssumption
    <3>4. o \in Seen /\ Seen \ {o} = Observed
      BY <1>1
    <3>5. SumFunctionOnSet(allocated_bytes, Seen)
            = allocated_bytes[o] + SumFunctionOnSet(allocated_bytes, Observed)
      BY <3>2, <3>3, <3>4, SumRemove
    <3>6. ceiling = SumFunctionOnSet(allocated_bytes, Observed)
      BY <2>1 DEF DispositionInv
    <3>7. SumFunctionOnSet(allocated_bytes, Observed) \in Nat
      BY <1>1, <1>2, <2>1, TotalsBounded
    <3>8. ceiling # NotReturned /\ allocated_bytes[o] \in Nat
      BY <3>2, <3>6, <3>7, DispositionAssumption
    <3>9. c = ceiling + allocated_bytes[o]
      BY <2>1, <3>8 DEF CeilingAfter
    <3> HIDE DEF c, Seen
    <3> QED BY <3>2, <3>5, <3>6, <3>7, <3>8, <3>9 DEF Seen
  <2>2. ASSUME Unsure PROVE c = NotReturned
    BY <2>2 DEF CeilingAfter, DispositionInv
  <2> HIDE DEF c, Unsure
  <2> QED BY <2>1, <2>2
<1>5. SumFunctionOnSet(Everything, Identities) \in Nat /\ ByteLimit \in Nat
  <2>1. \A p \in Identities : Everything[p] \in Nat
    BY <1>2, BlocksCounted DEF Everything
  <2> QED BY <2>1, SumType, DispositionAssumption
<1>6. ASSUME Overflows(FloorAfter(o)) \/ Overflows(c), result' = "overflow",
             UNCHANGED <<world, remaining, floor, ceiling, unmeasurable>>
      PROVE  DispositionInv'
  <2>1. SumFunctionOnSet(Everything, Identities) > ByteLimit
    <3> HIDE DEF c
    <3> QED BY <1>3, <1>4, <1>5, <1>6 DEF Overflows
  <2>2. Everything' = Everything
    BY <1>2 DEF Everything, world
  <2>3. OverflowIsReal'
    BY <1>6, <2>1, <2>2 DEF OverflowIsReal, Everything, DispositionInv
  <2>4. /\ Observed' = Observed /\ Freeable' = Freeable
        /\ private_bytes' = private_bytes /\ allocated_bytes' = allocated_bytes
        /\ \A p : Missing(p)' = Missing(p)
    BY <1>6 DEF world, Observed, Freeable, WhollyCovered, Missing
  <2> QED
    BY <1>2, <1>6, <2>3, <2>4 DEF DispositionInv
<1>7. ASSUME ~Overflows(FloorAfter(o)), ~Overflows(c),
             floor' = FloorAfter(o), ceiling' = c,
             unmeasurable' = (unmeasurable \/ Missing(o)),
             remaining' = remaining \ {o}, UNCHANGED <<world, result>>, result = "running"
      PROVE  DispositionInv'
  <2>1. Observed' = Observed \cup {o}
    BY <1>1, <1>7 DEF Observed
  <2>2. Freeable' = More
    BY <1>7, <2>1 DEF Freeable, WhollyCovered, world
  <2>3. /\ private_bytes' = private_bytes /\ allocated_bytes' = allocated_bytes
        /\ \A p : Missing(p)' = Missing(p)
    BY <1>7 DEF world, WhollyCovered, Missing
  <2>4. floor' = SumFunctionOnSet(private_bytes, Freeable)'
    BY <1>3, <1>7, <2>2, <2>3
  <2>5. Unsure = \E p \in Observed' : allocated_bytes'[p] = NotReturned
    BY <2>1, <2>3
  <2>6. ceiling' = (IF \E p \in Observed : allocated_bytes[p] = NotReturned THEN NotReturned
                    ELSE SumFunctionOnSet(allocated_bytes, Observed))'
    <3> HIDE DEF Unsure, c
    <3> QED BY <1>4, <1>7, <2>1, <2>3, <2>5
  <2>7. unmeasurable' = (\E p \in Observed : Missing(p))'
    BY <1>7, <2>1, <2>3 DEF DispositionInv
  <2>8. OverflowIsReal'
    <3> HIDE DEF c
    <3>1. floor' <= ByteLimit
      BY <1>3, <1>5, <1>7, DispositionAssumption DEF Overflows
    <3>2. ceiling' # NotReturned => ceiling' <= ByteLimit
      BY <1>4, <1>5, <1>7 DEF Overflows
    <3> QED BY <1>7, <3>1, <3>2 DEF OverflowIsReal
  <2> QED
    BY <1>2, <1>7, <2>4, <2>6, <2>7, <2>8 DEF DispositionInv
<1> QED
  BY <1>6, <1>7 DEF Observe

LEMMA AnswerKeeps == DispositionInv /\ (Answer \/ UNCHANGED dispositionVars) => DispositionInv'
<1> SUFFICES ASSUME DispositionInv, Answer \/ UNCHANGED dispositionVars PROVE DispositionInv'
  OBVIOUS
<1>1. /\ UNCHANGED <<world, remaining, floor, ceiling, unmeasurable>>
      /\ result' = result \/ (result' = "estimate" /\ remaining = {})
  BY DEF Answer, dispositionVars
<1>2. WorldInv'
  BY <1>1, WorldFixed DEF DispositionInv
<1>3. OverflowIsReal'
  BY <1>1 DEF OverflowIsReal, DispositionInv, world
<1>4. /\ Observed' = Observed /\ Freeable' = Freeable
      /\ private_bytes' = private_bytes /\ allocated_bytes' = allocated_bytes
      /\ \A p : Missing(p)' = Missing(p)
  BY <1>1 DEF world, Observed, Freeable, WhollyCovered, Missing
<1> QED
  BY <1>1, <1>2, <1>3, <1>4 DEF DispositionInv

\* Both bounds are the totals of what was observed, for any number of files.
THEOREM DispositionInductive == DispositionSpec => []DispositionInv
<1>1. DispositionInv /\ [DispositionNext]_dispositionVars => DispositionInv'
  BY ObserveKeeps, AnswerKeeps DEF DispositionNext
<1> QED
  BY <1>1, DispositionStart, PTL DEF DispositionSpec

\* An overflow is never reported of sizes whose true total fits.
THEOREM OverflowsAreReal == DispositionSpec => []OverflowIsReal
<1>1. DispositionInv => OverflowIsReal
  BY DEF DispositionInv
<1> QED
  BY <1>1, DispositionInductive, PTL

\* The blocks that only one object of the set refers to, for objects that go
\* away when no snapshot holds anything, are really freed, and each is counted
\* once; what is freed belongs to some object.
LEMMA FreedIsBetween ==
  ASSUME WorldInv, NEW T \in SUBSET Gone, T # {} => held = {}
  PROVE  /\ SumFunctionOnSet([o \in Identities |-> Cardinality(OwnBlocks(o))], T)
              <= Cardinality(Freed)
         /\ Cardinality(Freed) <= SumFunctionOnSet(Everything, Identities)
<1> DEFINE own == [o \in Identities |-> OwnBlocks(o)]
           sizes == [o \in Identities |-> Cardinality(OwnBlocks(o))]
           Owned == UNION {own[o] : o \in T}
           All == UNION {blocks[o] : o \in Identities}
<1>1. T \subseteq Identities /\ IsFiniteSet(T) /\ IsFiniteSet(Identities)
  BY FS_Subset, DispositionAssumption DEF Gone
<1>2. \A o \in T : IsFiniteSet(own[o]) /\ sizes[o] = Cardinality(own[o])
  BY <1>1, BlocksCounted
<1>3. \A o, p \in T : o # p => own[o] \cap own[p] = {}
  BY <1>1 DEF OwnBlocks
<1>4. Cardinality(Owned) = SumFunctionOnSet(sizes, T)
  <2> HIDE DEF own, sizes
  <2> QED BY <1>1, <1>2, <1>3, SumOfUnion
<1>5. Owned \subseteq Freed
  <2> SUFFICES ASSUME NEW o \in T, NEW b \in OwnBlocks(o) PROVE b \in Freed
    BY <1>1
  <2>1. o \in Gone /\ o \in Identities /\ held = {}
    BY <1>1
  <2>2. b \in blocks[o] /\ b \notin others /\ \A p \in Identities \ {o} : b \notin blocks[p]
    BY DEF OwnBlocks
  <2>3. \A p \in Identities \ Gone : b \notin blocks[p]
    BY <2>1, <2>2
  <2> QED BY <2>1, <2>2, <2>3 DEF Freed
<1>6. Freed \subseteq All
  BY DEF Freed, Gone
<1>7. IsFiniteSet(All) /\ Cardinality(All) <= SumFunctionOnSet(Everything, Identities)
  <2>1. \A o \in Identities : IsFiniteSet(blocks[o]) /\ Everything[o] = Cardinality(blocks[o])
    BY BlocksCounted DEF Everything
  <2> QED BY <1>1, <2>1, SumOfUnion
<1>8. IsFiniteSet(Freed) /\ Cardinality(Freed) <= Cardinality(All)
  BY <1>6, <1>7, FS_Subset
<1>9. Cardinality(Owned) <= Cardinality(Freed)
  BY <1>5, <1>8, FS_Subset
<1>10. /\ Cardinality(All) \in Nat /\ Cardinality(Freed) \in Nat
       /\ SumFunctionOnSet(Everything, Identities) \in Nat
  <2>1. \A o \in Identities : Everything[o] \in Nat
    BY BlocksCounted DEF Everything
  <2> QED BY <1>1, <1>7, <1>8, <2>1, FS_CardinalityType, SumType
<1>11. SumFunctionOnSet(sizes, T) <= Cardinality(Freed)
  BY <1>4, <1>9
<1>12. Cardinality(Freed) <= SumFunctionOnSet(Everything, Identities)
  <2> HIDE DEF All
  <2> QED BY <1>7, <1>8, <1>10
<1> QED
  BY <1>11, <1>12

\* The interval holds the bytes really freed, for any number of files, however
\* blocks are shared, links lead elsewhere, or a snapshot intervenes.
THEOREM IntervalsBracketTruth == DispositionSpec => []IntervalBracketsTruth
<1>1. DispositionInv => IntervalBracketsTruth
  <2> SUFFICES ASSUME DispositionInv, result = "estimate" PROVE
          /\ floor <= Cardinality(Freed)
          /\ ceiling # NotReturned => Cardinality(Freed) <= ceiling
          /\ ~unmeasurable =>
               /\ ceiling # NotReturned
               /\ \A o \in Gone : snapshots_stable => private_bytes[o] # NotReturned
    BY DEF IntervalBracketsTruth
  <2>1. Observed = Identities /\ WorldInv
    BY DEF DispositionInv, Observed
  <2>2. Freeable \subseteq Gone /\ (Freeable # {} => held = {})
    BY <2>1 DEF Freeable, Gone, WhollyCovered, WorldInv
  <2> DEFINE sizes == [o \in Identities |-> Cardinality(OwnBlocks(o))]
  <2>3. floor = SumFunctionOnSet(sizes, Freeable)
    <3>1. IsFiniteSet(Freeable) /\ Freeable \subseteq Identities
      BY FS_Subset, DispositionAssumption, <2>1 DEF Freeable
    <3>2. \A o \in Freeable : private_bytes[o] = sizes[o]
      BY <2>1, <3>1 DEF Freeable, WorldInv
    <3> HIDE DEF sizes
    <3> QED BY <3>1, <3>2, SumDepends DEF DispositionInv
  <2>4. floor <= Cardinality(Freed)
    BY <2>1, <2>2, <2>3, FreedIsBetween
  <2>5. ASSUME ceiling # NotReturned PROVE Cardinality(Freed) <= ceiling
    <3>1. \A o \in Identities : allocated_bytes[o] = Everything[o]
      BY <2>1, <2>5 DEF DispositionInv, WorldInv, Everything
    <3>2. ceiling = SumFunctionOnSet(allocated_bytes, Identities)
      BY <2>1, <2>5 DEF DispositionInv
    <3>3. ceiling = SumFunctionOnSet(Everything, Identities)
      BY <3>1, <3>2, SumDepends, DispositionAssumption
    <3>4. Cardinality(Freed) <= SumFunctionOnSet(Everything, Identities)
      BY <2>1, <2>2, FreedIsBetween
    <3> QED BY <3>3, <3>4
  <2>6. ASSUME ~unmeasurable
        PROVE  /\ ceiling # NotReturned
               /\ \A o \in Gone : snapshots_stable => private_bytes[o] # NotReturned
    <3>1. \A o \in Identities : ~Missing(o)
      BY <2>1, <2>6 DEF DispositionInv
    <3>2. \A o \in Identities : allocated_bytes[o] # NotReturned
      BY <3>1 DEF Missing
    <3>3. ceiling = SumFunctionOnSet(allocated_bytes, Identities)
      BY <2>1, <3>2 DEF DispositionInv
    <3>4. ceiling \in Nat
      BY <2>1, <3>2, <3>3, TotalsBounded
    <3>5. \A o \in Gone : snapshots_stable => WhollyCovered(o) /\ o \in Identities
      BY <2>1 DEF Gone, WhollyCovered, WorldInv
    <3> QED BY <3>1, <3>4, <3>5, DispositionAssumption DEF Missing
  <2> QED BY <2>4, <2>5, <2>6
<1> QED
  BY <1>1, DispositionInductive, PTL

-----------------------------------------------------------------------------
(* StoreWalk: what is touched, listed and left out.                        *)

LEMMA WalkStart == Init => WalkInv
BY DEF Init, WalkInv, ExcludedUntouched, AtHand

LEMMA WalkStep == WalkInv /\ [Next]_vars => WalkInv'
<1> SUFFICES ASSUME WalkInv, [Next]_vars PROVE WalkInv'
  OBVIOUS
<1> USE DEF WalkInv, ExcludedUntouched, AtHand, fs, tally, history, Excluded
<1>1. ASSUME NEW d \in pending, Pop(d) PROVE WalkInv'
  BY <1>1 DEF Pop, Popped
<1>2. ASSUME CheckDirectory PROVE WalkInv'
  BY <1>2 DEF CheckDirectory, Fail, AfterFailure
<1>3. ASSUME ReadDirectory PROVE WalkInv'
  BY <1>3 DEF ReadDirectory, Fail, AfterFailure
<1>4. ASSUME NEW e \in todo, TakeEntry(e) PROVE WalkInv'
  BY <1>4 DEF TakeEntry, SkipEntry
<1>5. ASSUME EntriesDone PROVE WalkInv'
  BY <1>5 DEF EntriesDone
<1>6. ASSUME ReadAttributes PROVE WalkInv'
  BY <1>6 DEF ReadAttributes, Fail, AfterFailure
<1>7. ASSUME ReadMetadata PROVE WalkInv'
  BY <1>7 DEF ReadMetadata, Fail, AfterFailure
<1>8. ASSUME Finish PROVE WalkInv'
  BY <1>8 DEF Finish
<1>9. ASSUME Others PROVE WalkInv'
  BY <1>9 DEF Others, Move, Link, Unlink, Swap, Change
<1>10. ASSUME Ended \/ UNCHANGED vars PROVE WalkInv'
  BY <1>10 DEF Ended, vars
<1> QED
  BY <1>1, <1>2, <1>3, <1>4, <1>5, <1>6, <1>7, <1>8, <1>9, <1>10 DEF Next, Walk

\* The inductive invariant, for every instance.
THEOREM WalkInvariant == Spec => []WalkInv
  BY WalkStart, WalkStep, PTL DEF Spec

\* No system call is ever made for a path below an excluded one.
THEOREM ExcludesHold == Spec => []ExcludedUntouched
<1>1. WalkInv => ExcludedUntouched
  BY DEF WalkInv
<1> QED
  BY <1>1, WalkInvariant, PTL

\* A measured store left out nothing that its listings returned.
THEOREM FailsClosed == Spec => []NothingSkipped
<1>1. WalkInv => NothingSkipped
  BY DEF WalkInv, NothingSkipped, AtHand
<1> QED
  BY <1>1, WalkInvariant, PTL

-----------------------------------------------------------------------------
(* Paths, and what a listing may add to them.                               *)

Names == UNION {Range(p) : p \in Paths \cup Excludes}

LEMMA PathsAreSequences == Paths \cup Excludes \subseteq Seq(Names)
BY StoreAssumption DEF Names

\* A prefix agrees with the whole wherever it is defined.
LEMMA PrefixAt ==
  ASSUME NEW A, NEW s \in Seq(A), NEW t \in Seq(A)
  PROVE  IsPrefix(s, t) <=> Len(s) <= Len(t) /\ \A i \in 1..Len(s) : s[i] = t[i]
<1> DEFINE u == SubSeq(s, 1, Len(s))
           v == SubSeq(t, 1, Len(s))
<1>1. Len(s) \in Nat /\ Len(t) \in Nat
  BY LenProperties
<1>2. u = s
  BY SubSeqFull
<1>3. ASSUME Len(s) <= Len(t)
      PROVE  v \in Seq(A) /\ Len(v) = Len(s) /\ \A i \in 1..Len(s) : v[i] = t[i]
  <2>1. \A i \in 1..Len(s) : t[i] \in A
    BY <1>1, <1>3, ElementOfSeq
  <2>2. /\ v \in Seq(A)
        /\ Len(v) = IF 1 <= Len(s) THEN Len(s) - 1 + 1 ELSE 0
        /\ \A i \in 1..(Len(s) - 1 + 1) : v[i] = t[1 + i - 1]
    BY <1>1, <2>1, SubSeqProperties
  <2> HIDE DEF v
  <2> QED BY <1>1, <2>2
<1>4. ASSUME Len(s) <= Len(t) PROVE u = v <=> \A i \in 1..Len(s) : s[i] = t[i]
  <2> HIDE DEF u, v
  <2> QED BY <1>2, <1>3, <1>4, SeqEqual
<1> QED
  BY <1>4 DEF IsPrefix

LEMMA PrefixOfPrefix ==
  ASSUME NEW A, NEW s \in Seq(A), NEW t \in Seq(A), NEW u \in Seq(A),
         IsPrefix(s, t), IsPrefix(t, u)
  PROVE  IsPrefix(s, u)
<1>1. Len(s) \in Nat /\ Len(t) \in Nat /\ Len(u) \in Nat
  BY LenProperties
<1>2. Len(s) <= Len(t) /\ \A i \in 1..Len(s) : s[i] = t[i]
  BY PrefixAt
<1>3. Len(t) <= Len(u) /\ \A i \in 1..Len(t) : t[i] = u[i]
  BY PrefixAt
<1>4. Len(s) <= Len(u) /\ \A i \in 1..Len(s) : s[i] = u[i]
  BY <1>1, <1>2, <1>3
<1> QED
  BY <1>4, PrefixAt

\* A path below another one has its directory there, too, one step nearer.
LEMMA FrontIsPrefix ==
  ASSUME NEW A, NEW s \in Seq(A), NEW t \in Seq(A), t # <<>>
  PROVE  /\ Front(t) \in Seq(A) /\ Len(Front(t)) = Len(t) - 1
         /\ IsPrefix(Front(t), t)
         /\ IsStrictPrefix(s, t) <=> IsPrefix(s, Front(t))
<1>1. Len(s) \in Nat /\ Len(t) \in Nat \ {0}
  BY LenProperties, EmptySeq
<1> DEFINE n == Len(t) - 1
           f == Front(t)
<1>2. n \in Nat /\ n + 1 = Len(t)
  BY <1>1
<1>3. f \in Seq(A) /\ Len(f) = n /\ \A i \in 1..n : f[i] = t[i]
  <2>1. \A i \in 1..n : t[i] \in A
    BY <1>1, ElementOfSeq
  <2>2. f = SubSeq(t, 1, n)
    BY DEF Front
  <2>3. /\ f \in Seq(A)
        /\ Len(f) = IF 1 <= n THEN n - 1 + 1 ELSE 0
        /\ \A i \in 1..(n - 1 + 1) : f[i] = t[1 + i - 1]
    <3> HIDE DEF n, f
    <3> QED BY <1>2, <2>1, <2>2, SubSeqProperties
  <2> HIDE DEF n, f
  <2> QED BY <1>2, <2>3
<1> HIDE DEF n, f
<1>4. IsPrefix(f, t)
  BY <1>2, <1>3, PrefixAt
<1>5. ASSUME IsStrictPrefix(s, t) PROVE IsPrefix(s, f)
  <2>1. s # t /\ Len(s) <= Len(t) /\ \A i \in 1..Len(s) : s[i] = t[i]
    BY <1>5, PrefixAt DEF IsStrictPrefix
  <2>2. Len(s) # Len(t)
    BY <2>1, SeqEqual
  <2>3. Len(s) <= n
    BY <1>1, <1>2, <2>1, <2>2
  <2>4. \A i \in 1..Len(s) : s[i] = f[i]
    BY <1>1, <1>2, <1>3, <2>1, <2>3
  <2> QED BY <1>3, <2>3, <2>4, PrefixAt
<1>6. ASSUME IsPrefix(s, f) PROVE IsStrictPrefix(s, t)
  <2>1. Len(s) <= n
    BY <1>3, <1>6, PrefixAt
  <2>2. s # t
    BY <1>2, <2>1
  <2>3. IsPrefix(s, t)
    BY <1>3, <1>4, <1>6, PrefixOfPrefix
  <2> QED BY <2>2, <2>3 DEF IsStrictPrefix
<1> QED
  BY <1>2, <1>3, <1>4, <1>5, <1>6 DEF n, f

\* What lies below an excluded path is excluded.
LEMMA ExcludedBelow ==
  ASSUME NEW p \in Paths, NEW q \in Paths, IsPrefix(q, p), Excluded(q)
  PROVE  Excluded(p)
<1>1. PICK e \in Excludes : IsPrefix(e, q)
  BY DEF Excluded
<1>2. e \in Seq(Names) /\ p \in Seq(Names) /\ q \in Seq(Names)
  BY PathsAreSequences
<1>3. IsPrefix(e, p)
  BY <1>1, <1>2, PrefixOfPrefix
<1> QED
  BY <1>3 DEF Excluded

\* Every path a listing returns has the directory that was listed as its front,
\* and is below the store when the directory is.
LEMMA ListedUnder ==
  ASSUME NEW d \in Paths, NEW e \in Listing(d), e[1] \in Paths
  PROVE  /\ e[1] # <<>> /\ Front(e[1]) = d /\ IsStrictPrefix(d, e[1])
         /\ IsPrefix(Store, d) => IsStrictPrefix(Store, e[1])
<1>1. d \in Seq(Names) /\ e[1] \in Seq(Names) /\ Store \in Seq(Names)
  BY PathsAreSequences, StoreAssumption
<1>2. e[1] # <<>> /\ Front(e[1]) = d
  <2>1. CASE node[d] = "link" \/ ThroughLink(d)
    <3>1. PICK o \in Outside : e = <<Append(d, o[1]), o[2]>>
      BY <2>1 DEF Listing
    <3> DEFINE A == Names \cup {o[1]}
               t == Append(d, o[1])
    <3>2. d \in Seq(A) /\ o[1] \in A
      BY <1>1
    <3> HIDE DEF A
    <3>3. /\ t \in Seq(A) /\ Len(t) = Len(d) + 1 /\ Len(d) \in Nat
          /\ \A i \in 1..Len(d) : t[i] = d[i]
      BY <3>2, AppendProperties, LenProperties
    <3> HIDE DEF t
    <3>4. t # <<>>
      BY <3>3, EmptySeq
    <3>5. Front(t) \in Seq(A) /\ Len(Front(t)) = Len(d) /\ IsPrefix(Front(t), t)
      BY <3>2, <3>3, <3>4, FrontIsPrefix
    <3>6. \A i \in 1..Len(d) : Front(t)[i] = d[i]
      BY <3>3, <3>5, PrefixAt
    <3>7. Front(t) = d
      BY <3>2, <3>5, <3>6, SeqEqual
    <3> QED BY <3>1, <3>4, <3>7 DEF t
  <2>2. CASE ~(node[d] = "link" \/ ThroughLink(d))
    BY <2>2 DEF Listing, Children
  <2> QED BY <2>1, <2>2
<1>3. IsPrefix(d, d)
  BY <1>1, LenProperties, PrefixAt
<1> QED
  BY <1>1, <1>2, <1>3, FrontIsPrefix

-----------------------------------------------------------------------------
(* StoreWalk: what is counted was inside.                                   *)

LEMMA OutsideStart == Init => OutsideInv
<1> SUFFICES ASSUME Init PROVE OutsideInv
  OBVIOUS
<1>1. node \in [Paths -> Objects \cup {"dir", "link", "mount", None}]
  BY StoreAssumption DEF Init, None
<1>2. identity # "outside" /\ DOMAIN covered = Ids /\ pc = "pop"
  BY DEF Init, None, Zero
<1>3. covered["outside"] = 0 /\ Met = {}
  BY DEF Init, Zero, Ids, Met
<1>4. IsPrefix(Store, Store)
  BY PathsAreSequences, StoreAssumption, LenProperties, PrefixAt
<1>5. Upcoming = {Store} /\ Held(node) \subseteq reached
  BY DEF Init, Upcoming
<1> QED
  BY <1>1, <1>2, <1>3, <1>4, <1>5 DEF OutsideInv, OutsideNeverCounted

LEMMA OutsideStep == WalkInv /\ OutsideInv /\ [Next]_vars => OutsideInv'
<1> SUFFICES ASSUME WalkInv, OutsideInv, [Next]_vars PROVE OutsideInv'
  OBVIOUS
<1> USE DEF OutsideInv, OutsideNeverCounted, fs, tally, history, Upcoming, Met, Excluded
<1>0. UNCHANGED node => Held(node)' = Held(node)
  BY DEF Held, Inside, Ancestors
<1>1. ASSUME NEW d \in pending, Pop(d) PROVE OutsideInv'
  BY <1>0, <1>1 DEF Pop, Popped
<1>2. ASSUME Fail, touched' = touched \cup {current} PROVE OutsideInv'
  BY <1>0, <1>2 DEF Fail, AfterFailure
<1>3. ASSUME CheckDirectory, ~Fail PROVE OutsideInv'
  BY <1>0, <1>3 DEF CheckDirectory
<1>4. ASSUME ReadDirectory, ~Fail PROVE OutsideInv'
  <2>1. /\ Holds(current) \in {"dir", "link"} /\ todo' = Listing(current) /\ pc' = "entries"
        /\ UNCHANGED <<fs, pending, current, identity, tally>>
    BY <1>4 DEF ReadDirectory
  <2>2. current \in Paths /\ IsPrefix(Store, current)
    BY <2>1 DEF Holds, None
  <2>3. \A e \in todo' : e[1] \in Paths => IsPrefix(Store, e[1])
    BY <2>1, <2>2, ListedUnder DEF IsStrictPrefix
  <2>4. \A p \in Upcoming' \cap Paths : IsPrefix(Store, p)
    BY <2>1, <2>3
  <2> QED
    BY <1>0, <2>1, <2>4
<1>5. ASSUME NEW e \in todo, TakeEntry(e) PROVE OutsideInv'
  BY <1>0, <1>5 DEF TakeEntry, SkipEntry
<1>6. ASSUME EntriesDone \/ Finish PROVE OutsideInv'
  BY <1>0, <1>6 DEF EntriesDone, Finish
<1>7. ASSUME ReadAttributes, ~Fail PROVE OutsideInv'
  <2>1. /\ Holds(current) \notin {None, "mount"} /\ ~ThroughLink(current)
        /\ identity' = node[current] /\ pc = "attributes"
        /\ UNCHANGED <<fs, pending, current, todo, tally, listed, done>>
    BY <1>7 DEF ReadAttributes, FollowsNoLink
  <2>2. current \in Paths
    BY <2>1 DEF Holds
  <2>3. node[current] \in Objects \cup {"dir", "link"}
    BY <2>1, <2>2 DEF Holds
  <2>4. identity' \in Ids /\ identity' # "outside"
    BY <2>1, <2>3, StoreAssumption DEF Ids
  <2>5. identity' \in Objects => identity' \in Held(node)
    BY <2>1, <2>2 DEF Held, Inside, ThroughLink, Ancestors
  <2> QED
    BY <1>0, <1>7, <2>1, <2>4, <2>5 DEF ReadAttributes
<1>8. ASSUME ReadMetadata, ~Fail PROVE OutsideInv'
  <2>1. /\ covered' = [covered EXCEPT ![identity] = @ + 1] /\ pc = "stat" /\ pc' = "entries"
        /\ UNCHANGED <<fs, pending, current, todo, identity>>
    BY <1>8 DEF ReadMetadata, NewLinks
  <2>2. DOMAIN covered' = Ids /\ \A i \in Ids \ {identity} : covered'[i] = covered[i]
    BY <2>1
  <2>3. Met' \subseteq Met \cup {identity}
    BY <2>2
  <2> QED
    BY <1>0, <2>1, <2>2, <2>3 DEF Ids
<1>9. ASSUME Others PROVE OutsideInv'
  <2>1. /\ UNCHANGED <<pc, pending, current, todo, identity, tally, history>>
        /\ reached' = reached \cup Held(node')
    BY <1>9 DEF Others, Move, Link, Unlink, Swap, Change
  <2>2. node' \in [Paths -> Objects \cup {"dir", "link", "mount", None}]
    <3>1. ASSUME NEW p \in FilePaths, NEW q \in FilePaths, Move(p, q) \/ Link(p, q)
          PROVE  node' \in [Paths -> Objects \cup {"dir", "link", "mount", None}]
      <4>1. node[p] \in Objects
        BY <3>1 DEF Move, Link
      <4> QED
        BY <3>1, <4>1 DEF Move, Link, Change
    <3>2. ASSUME NEW p \in FilePaths, Unlink(p)
          PROVE  node' \in [Paths -> Objects \cup {"dir", "link", "mount", None}]
      BY <3>2 DEF Unlink, Change
    <3>3. ASSUME NEW d \in DirPaths, Swap(d)
          PROVE  node' \in [Paths -> Objects \cup {"dir", "link", "mount", None}]
      BY <3>3 DEF Swap, Change
    <3> QED
      BY <1>9, <3>1, <3>2, <3>3 DEF Others
  <2>3. Held(node)' = Held(node')
    BY DEF Held, Inside, Ancestors
  <2> QED
    BY <2>1, <2>2, <2>3
<1>10. ASSUME Ended \/ UNCHANGED vars PROVE OutsideInv'
  BY <1>0, <1>10 DEF Ended, vars
<1>11. CheckDirectory \/ ReadDirectory \/ ReadAttributes \/ ReadMetadata =>
         touched' = touched \cup {current}
  BY DEF CheckDirectory, ReadDirectory, ReadAttributes, ReadMetadata
<1> QED
  BY <1>1, <1>2, <1>3, <1>4, <1>5, <1>6, <1>7, <1>8, <1>9, <1>10, <1>11 DEF Next, Walk

\* Everything counted is an object that was inside, behind no link, at some moment
\* of the walk: for every tree and whatever other processes move or replace.
THEOREM OutsideIsNeverCounted == Spec => []OutsideNeverCounted
<1>1. OutsideInv => OutsideNeverCounted
  BY DEF OutsideInv
<1> QED
  BY <1>1, WalkStart, WalkStep, OutsideStart, OutsideStep, PTL DEF Spec

-----------------------------------------------------------------------------
(* StoreWalk while nobody changes the tree.                                 *)

LEMMA TreeShape ==
  ASSUME node \in Initial
  PROVE  /\ node \in [Paths -> Objects \cup {"dir", "link", "mount", "none"}]
         /\ Store \in Paths
         /\ \A p \in Paths : IsStrictPrefix(Store, p) /\ node[p] # None =>
              /\ p # <<>> /\ Front(p) \in Paths /\ IsPrefix(Store, Front(p))
              /\ node[Front(p)] \in {"dir", "mount"} /\ Len(Front(p)) < Len(p)
<1>1. /\ node \in [Paths -> Objects \cup {"dir", "link", "mount", "none"}]
      /\ Store \in Paths
  BY StoreAssumption
<1>2. ASSUME NEW p \in Paths, IsStrictPrefix(Store, p), node[p] # None
      PROVE  /\ p # <<>> /\ Front(p) \in Paths /\ IsPrefix(Store, Front(p))
             /\ node[Front(p)] \in {"dir", "mount"} /\ Len(Front(p)) < Len(p)
  <2>1. Store \in Seq(Names) /\ p \in Seq(Names)
    BY <1>1, PathsAreSequences
  <2>2. Front(p) \in Paths /\ node[Front(p)] \in {"dir", "mount"}
    BY <1>2, StoreAssumption DEF None
  <2>3. p # <<>>
    <3>1. Len(Store) <= Len(p) /\ Len(Store) \in Nat /\ Store # p
      BY <1>2, <2>1, PrefixAt, LenProperties DEF IsStrictPrefix
    <3> QED BY <2>1, <3>1, EmptySeq
  <2>4. IsPrefix(Store, Front(p)) /\ Len(Front(p)) = Len(p) - 1 /\ Len(p) \in Nat
    BY <1>2, <2>1, <2>3, FrontIsPrefix, LenProperties
  <2> QED BY <2>2, <2>3, <2>4
<1> QED
  BY <1>1, <1>2

LEMMA QuietStart == Init => QuietInv
<1> SUFFICES ASSUME Init PROVE QuietInv
  OBVIOUS
<1> USE DEF Init
<1>1. Placed
  BY DEF Placed, AtHand, Waiting
<1>2. Walked /\ LookedAt
  BY DEF Walked, LookedAt
<1>3. Tallied
  <2>1. \A o \in Objects : {p \in done : node[p] = o} = {}
    OBVIOUS
  <2>2. \A o \in Objects : o \in Ids
    BY DEF Ids
  <2> QED
    BY <2>1, <2>2, FS_EmptySet DEF Tallied, Zero
<1> QED
  BY <1>1, <1>2, <1>3 DEF QuietInv

LEMMA TallyStays ==
  ASSUME Tallied, UNCHANGED <<node, done, covered, logical, links>>
  PROVE  Tallied'
BY DEF Tallied, Holders

LEMMA WalkStays ==
  ASSUME Walked, UNCHANGED <<node, done, listed>>, todo' \subseteq todo
  PROVE  Walked'
BY DEF Walked, Children, Kind

LEMMA PopQuiet ==
  ASSUME WalkInv, QuietInv, NEW d \in pending, Pop(d)
  PROVE  QuietInv'
<1> SUFFICES ASSUME changes = 0, pc = "pop"
             PROVE  node' \in Initial /\ Placed' /\ Walked' /\ LookedAt' /\ Tallied'
  BY DEF QuietInv, Pop, fs
<1> USE DEF Pop, fs, tally, history
<1>1. node \in Initial /\ Placed /\ Walked /\ Tallied
  BY DEF QuietInv
<1>2. Placed'
  BY <1>1 DEF Placed, AtHand, Waiting, Popped, Excluded
<1>3. Walked' /\ Tallied'
  BY <1>1, WalkStays, TallyStays
<1>4. LookedAt'
  BY DEF LookedAt
<1> QED
  BY <1>1, <1>2, <1>3, <1>4

LEMMA CheckQuiet ==
  ASSUME WalkInv, QuietInv, CheckDirectory
  PROVE  QuietInv'
<1> SUFFICES ASSUME changes = 0, pc = "check", pc' = "read",
                    Holds(current) = "dir", ~ThroughLink(current),
                    UNCHANGED <<fs, pending, current, todo, identity, tally, listed, done>>
             PROVE  node' \in Initial /\ Placed' /\ Walked' /\ LookedAt' /\ Tallied'
  BY DEF QuietInv, CheckDirectory, Fail, AfterFailure, fs
<1> USE DEF fs, tally, history
<1>1. node \in Initial /\ Placed /\ Walked /\ Tallied
  BY DEF QuietInv
<1>2. Placed'
  BY <1>1 DEF Placed, AtHand, Waiting, Excluded
<1>3. Walked' /\ Tallied'
  BY <1>1, WalkStays, TallyStays
<1>4. LookedAt'
  BY DEF LookedAt, Holds, ThroughLink, Ancestors, None
<1> QED
  BY <1>1, <1>2, <1>3, <1>4

\* A directory is read once, and its entries were not met before.
LEMMA ReadQuiet ==
  ASSUME WalkInv, QuietInv, ReadDirectory
  PROVE  QuietInv'
<1> SUFFICES ASSUME changes = 0, pc = "read", pc' = "entries",
                    todo' = Listing(current),
                    listed' = listed \cup {e[1] : e \in Listing(current)},
                    done' = done \cup {current},
                    UNCHANGED <<fs, pending, current, identity, tally>>
             PROVE  node' \in Initial /\ Placed' /\ Walked' /\ LookedAt' /\ Tallied'
  BY DEF QuietInv, ReadDirectory, Fail, AfterFailure, fs
<1> USE DEF fs, tally
<1>1. /\ node \in Initial /\ Placed /\ Walked /\ Tallied
      /\ node[current] = "dir" /\ ~ThroughLink(current)
      /\ AtHand = {current} /\ todo = {} /\ ~Excluded(current)
  BY DEF QuietInv, LookedAt, WalkInv, AtHand
<1> DEFINE C == Children(current)
<1>2. todo' = {<<p, Kind(p)>> : p \in C}
  BY <1>1 DEF Listing
<1>3. /\ Waiting' = C /\ listed' = listed \cup C
      /\ \A e \in todo' : e = <<e[1], Kind(e[1])>> /\ e[1] \in C
  <2>1. {e[1] : e \in {<<p, Kind(p)>> : p \in C}} = C
    <3>1. \A e \in {<<p, Kind(p)>> : p \in C} : e[1] \in C
      <4> HIDE DEF C
      <4> QED OBVIOUS
    <3>2. \A p \in C : <<p, Kind(p)>>[1] = p
      OBVIOUS
    <3> HIDE DEF C
    <3> QED BY <3>1, <3>2
  <2>2. Waiting' = C /\ listed' = listed \cup C
    <3> HIDE DEF C
    <3> QED BY <1>2, <2>1 DEF Waiting
  <2>3. \A e \in {<<p, Kind(p)>> : p \in C} : e = <<e[1], Kind(e[1])>> /\ e[1] \in C
    <3> HIDE DEF C
    <3> QED OBVIOUS
  <2> QED BY <1>2, <2>2, <2>3
<1>4. current \in Paths /\ IsPrefix(Store, current) /\ current \notin done
      /\ current \notin pending /\ current \in {Store} \cup listed
  <2>1. current \in {Store} \cup listed /\ current \notin done /\ current \notin pending
    BY <1>1 DEF Placed
  <2>2. Store \in Paths /\ IsPrefix(Store, Store)
    BY <1>1, TreeShape DEF IsPrefix
  <2>3. \A p \in listed : p \in Paths /\ IsPrefix(Store, p)
    BY <1>1 DEF Walked, IsStrictPrefix
  <2> QED BY <2>1, <2>2, <2>3
<1>5. \A p \in C : p \in Paths /\ IsStrictPrefix(Store, p) /\ node[p] # None
                   /\ Front(p) = current
  <2> SUFFICES ASSUME NEW p \in C PROVE IsStrictPrefix(Store, p)
    BY DEF Children
  <2>1. p \in Seq(Names) /\ Store \in Seq(Names) /\ p # <<>> /\ Front(p) = current
    BY <1>1, TreeShape, PathsAreSequences DEF Children
  <2> QED BY <1>4, <2>1, FrontIsPrefix
<1>6. C \cap ({Store} \cup listed) = {}
  <2>1. \A p \in listed : Front(p) # current
    BY <1>1, <1>4 DEF Walked
  <2>2. Store \notin C
    BY <1>5 DEF IsStrictPrefix
  <2> HIDE DEF C
  <2> QED BY <1>5, <2>1, <2>2
<1>7. Placed'
  <2>1. AtHand' = {}
    BY DEF AtHand
  <2>2. Excluded(Store)' = Excluded(Store)
    BY DEF Excluded
  <2>3. /\ Store \in pending' \cup AtHand' \cup done' \/ Excluded(Store)'
        /\ pending' \cup Waiting' \cup AtHand' \cup done' \subseteq {Store} \cup listed'
    <3> HIDE DEF C
    <3> QED BY <1>1, <1>3, <1>4, <2>1, <2>2 DEF Placed
  <2>4. /\ pending' \cap Waiting' = {} /\ pending' \cap AtHand' = {} /\ pending' \cap done' = {}
        /\ Waiting' \cap AtHand' = {} /\ Waiting' \cap done' = {} /\ AtHand' \cap done' = {}
    <3> HIDE DEF C
    <3> QED BY <1>1, <1>3, <1>4, <1>6, <2>1 DEF Placed
  <2> QED BY <2>3, <2>4 DEF Placed
<1>8. Walked'
  <2>1. \A p \in listed' :
          p \in Paths /\ IsStrictPrefix(Store, p) /\ node[p] # None /\ Front(p) \in done'
    <3> HIDE DEF C
    <3> QED BY <1>1, <1>3, <1>5 DEF Walked
  <2>2. \A p \in done' :
          /\ ~Excluded(p) /\ node[p] \notin {None, "mount"}
          /\ node[p] = "dir" => Children(p) \subseteq listed'
    BY <1>1, <1>3 DEF Walked, None
  <2> QED BY <1>3, <2>1, <2>2 DEF Walked, Children, Kind, Excluded
<1>9. Tallied'
  <2>1. \A o \in Objects : {p \in done' : node'[p] = o} = {p \in done : node[p] = o}
    BY <1>1, StoreAssumption
  <2> QED BY <1>1, <2>1 DEF Tallied, Holders
<1>10. LookedAt'
  BY DEF LookedAt
<1> QED
  BY <1>1, <1>7, <1>8, <1>9, <1>10

LEMMA EntryQuiet ==
  ASSUME WalkInv, QuietInv, NEW e \in todo, TakeEntry(e)
  PROVE  QuietInv'
<1> SUFFICES ASSUME changes = 0, pc = "entries"
             PROVE  node' \in Initial /\ Placed' /\ Walked' /\ LookedAt' /\ Tallied'
  BY DEF QuietInv, TakeEntry, fs
<1> USE DEF fs, tally, history
<1>1. node \in Initial /\ Placed /\ Walked /\ Tallied /\ AtHand = {}
  BY DEF QuietInv, AtHand
<1>2. /\ todo' = todo \ {e}
      /\ UNCHANGED <<fs, identity, tally, history>>
      /\ \/ Excluded(e[1]) /\ UNCHANGED <<pc, pending, current>>
         \/ pending' = pending \cup {e[1]} /\ UNCHANGED <<pc, current>>
         \/ /\ current' = e[1] /\ pc' = "attributes" /\ UNCHANGED pending
            /\ e[2] = "other"
  BY DEF TakeEntry, SkipEntry
<1>3. \A x \in todo : x = <<x[1], Kind(x[1])>>
  BY <1>1 DEF Walked
<1>4. Waiting' = Waiting \ {e[1]} /\ e[1] \in Waiting
  <2>1. \A x \in todo : x # e => x[1] # e[1]
    BY <1>3
  <2> QED BY <1>2, <2>1 DEF Waiting
<1>5. Placed'
  <2>1. AtHand' \subseteq {e[1]} /\ (pending' # pending => AtHand' = {})
        /\ pending' \subseteq pending \cup {e[1]}
    BY <1>2 DEF AtHand
  <2>2. Store \in pending' \cup AtHand' \cup done' \/ Excluded(Store)'
    BY <1>1, <1>2 DEF Placed, Excluded, AtHand
  <2>3. listed' = listed /\ done' = done
    BY <1>2
  <2> QED BY <1>1, <1>4, <2>1, <2>2, <2>3 DEF Placed
<1>6. Walked' /\ Tallied'
  BY <1>1, <1>2, WalkStays, TallyStays
<1>7. LookedAt'
  <2>1. e[2] = Kind(e[1])
    BY <1>3
  <2>2. UNCHANGED node
    BY <1>2
  <2> QED BY <1>2, <2>1, <2>2 DEF LookedAt, Kind
<1> QED
  BY <1>1, <1>2, <1>5, <1>6, <1>7

LEMMA AttributesQuiet ==
  ASSUME WalkInv, QuietInv, ReadAttributes
  PROVE  QuietInv'
<1> SUFFICES ASSUME changes = 0, pc = "attributes", pc' = "stat",
                    ~ThroughLink(current),
                    identity' = node[current],
                    UNCHANGED <<fs, pending, current, todo, tally, listed, done>>
             PROVE  node' \in Initial /\ Placed' /\ Walked' /\ LookedAt' /\ Tallied'
  BY DEF QuietInv, ReadAttributes, Fail, AfterFailure, fs, FollowsNoLink
<1> USE DEF fs, tally
<1>1. node \in Initial /\ Placed /\ Walked /\ Tallied /\ LookedAt
  BY DEF QuietInv
<1>2. Placed'
  BY <1>1 DEF Placed, AtHand, Waiting, Excluded
<1>3. Walked' /\ Tallied'
  BY <1>1, WalkStays, TallyStays
<1>4. LookedAt'
  BY <1>1 DEF LookedAt, Kind, ThroughLink, Ancestors
<1> QED
  BY <1>1, <1>2, <1>3, <1>4

\* One more link to what was measured, and the first one brings its sizes.
LEMMA MetadataQuiet ==
  ASSUME WalkInv, QuietInv, ReadMetadata
  PROVE  QuietInv'
<1> SUFFICES ASSUME changes = 0, pc = "stat", pc' = "entries",
                    Holds(current) # None,
                    covered' = NewLinks(identity),
                    IF covered[identity] > 0 THEN UNCHANGED <<logical, links>>
                    ELSE /\ logical' = [logical EXCEPT ![identity] = SizeAt(node[current])]
                         /\ links' = [links EXCEPT ![identity] =
                                        Cardinality(Holders(node[current]))],
                    done' = done \cup {current},
                    UNCHANGED <<fs, pending, current, todo, identity, listed>>
             PROVE  node' \in Initial /\ Placed' /\ Walked' /\ LookedAt' /\ Tallied'
  <2>1. changes = 0 /\ pc = "stat" => ~ThroughLink(current)
    BY DEF QuietInv, LookedAt
  <2>2. CASE Fail
    BY <2>2 DEF QuietInv, Fail, AfterFailure, fs
  <2>3. CASE ~Fail
    BY <2>1, <2>3 DEF QuietInv, ReadMetadata, Read, fs
  <2> QED BY <2>2, <2>3
<1> USE DEF fs
<1>1. /\ node \in Initial /\ Placed /\ Walked /\ Tallied
      /\ Kind(current) = "other" /\ identity = node[current]
      /\ AtHand = {current} /\ ~Excluded(current)
  BY DEF QuietInv, LookedAt, WalkInv, AtHand
<1>2. current \in Paths /\ node[current] \in Objects \cup {"link"} /\ node[current] # None
  <2>1. current \in Paths /\ node[current] # None
    BY DEF Holds
  <2>2. node[current] \notin {"dir", "mount"}
    BY <1>1 DEF Kind
  <2> QED BY <1>1, <2>1, <2>2, TreeShape DEF None
<1>3. Placed'
  <2>1. AtHand' = {} /\ Waiting' = Waiting
    BY DEF AtHand, Waiting
  <2> QED BY <1>1, <2>1 DEF Placed, Excluded
<1>4. Walked'
  <2>1. node[current] \notin {None, "mount", "dir"}
    BY <1>2, StoreAssumption DEF None
  <2> QED BY <1>1, <2>1 DEF Walked, Children, Kind, Excluded
<1>5. LookedAt'
  BY DEF LookedAt
<1>6. Tallied'
  <2>1. identity \in Ids /\ \A o \in Objects : o \in Ids
    BY <1>1, <1>2 DEF Ids
  <2>2. /\ covered \in [Ids -> Nat] /\ logical \in [Ids -> Nat] /\ links \in [Ids -> Nat]
        /\ covered' = [covered EXCEPT ![identity] = covered[identity] + 1]
    BY <1>1 DEF Tallied, NewLinks
  <2>3. SizeAt(identity) \in Nat
    BY StoreAssumption DEF SizeAt
  <2>4. Cardinality(Holders(identity)) \in Nat
    BY FS_Subset, FS_CardinalityType, StoreAssumption DEF Holders
  <2>5. covered' \in [Ids -> Nat] /\ logical' \in [Ids -> Nat] /\ links' \in [Ids -> Nat]
    BY <1>1, <2>1, <2>2, <2>3, <2>4
  <2>6. \A i \in Ids : logical'[i] = IF covered'[i] > 0 THEN SizeAt(i) ELSE 0
    <3> SUFFICES ASSUME NEW i \in Ids
                 PROVE  logical'[i] = IF covered'[i] > 0 THEN SizeAt(i) ELSE 0
      OBVIOUS
    <3>1. logical[i] = IF covered[i] > 0 THEN SizeAt(i) ELSE 0
      BY <1>1 DEF Tallied
    <3>2. covered[i] \in Nat /\ covered[identity] \in Nat
      BY <2>1, <2>2
    <3>3. CASE i = identity
      BY <1>1, <2>1, <2>2, <3>1, <3>2, <3>3
    <3>4. CASE i # identity
      BY <1>1, <2>1, <2>2, <3>1, <3>2, <3>4
    <3> QED BY <3>3, <3>4
  <2>7. ASSUME NEW o \in Objects
        PROVE  /\ covered'[o] = Cardinality({p \in done' : node'[p] = o})
               /\ covered'[o] > 0 => links'[o] = Cardinality(Holders(o)')
    <3> DEFINE D == {p \in done : node[p] = o}
    <3>1. /\ covered[o] = Cardinality(D) /\ covered[o] \in Nat
          /\ covered[o] > 0 => links[o] = Cardinality(Holders(o))
          /\ covered[identity] \in Nat
      BY <1>1, <2>1, <2>2 DEF Tallied
    <3>2. Holders(o)' = Holders(o)
      BY DEF Holders
    <3>3. CASE o = identity
      <4>1. {p \in done' : node'[p] = o} = D \cup {current} /\ current \notin D
        BY <1>1, <3>3 DEF Placed
      <4>2. IsFiniteSet(D)
        <5>1. D \subseteq Paths
          BY <1>1, TreeShape DEF Placed, Walked
        <5> HIDE DEF D
        <5> QED BY <5>1, FS_Subset, StoreAssumption
      <4>3. Cardinality(D \cup {current}) = Cardinality(D) + 1
        <5> HIDE DEF D
        <5> QED BY <4>1, <4>2, FS_AddElement
      <4>4. covered'[o] = Cardinality({p \in done' : node'[p] = o})
        <5> HIDE DEF D
        <5> QED BY <2>1, <2>2, <3>1, <3>3, <4>1, <4>3
      <4>5. links'[o] = Cardinality(Holders(o))
        <5>1. CASE covered[identity] > 0
          BY <3>1, <3>3, <5>1
        <5>2. CASE ~(covered[identity] > 0)
          BY <1>1, <2>1, <2>2, <3>3, <5>2
        <5> QED BY <5>1, <5>2
      <4> QED BY <3>2, <4>4, <4>5
    <3>4. CASE o # identity
      <4>1. {p \in done' : node'[p] = o} = D
        BY <1>1, <3>4
      <4>2. covered'[o] = covered[o] /\ links'[o] = links[o]
        BY <2>1, <2>2, <3>4
      <4> HIDE DEF D
      <4> QED BY <3>1, <3>2, <4>1, <4>2
    <3> QED BY <3>3, <3>4
  <2> QED BY <2>5, <2>6, <2>7 DEF Tallied, SizeAt
<1> QED
  BY <1>1, <1>3, <1>4, <1>5, <1>6

LEMMA QuietStep ==
  ASSUME WalkInv, QuietInv, [Next]_vars
  PROVE  QuietInv'
<1>1. ASSUME EntriesDone \/ Finish PROVE QuietInv'
  <2> SUFFICES ASSUME changes = 0, pc' \in {"pop", "measured"}
               PROVE  node' \in Initial /\ Placed' /\ Walked' /\ LookedAt' /\ Tallied'
    BY <1>1 DEF QuietInv, EntriesDone, Finish, fs
  <2> USE DEF fs, tally, history
  <2>1. /\ pc \in {"entries", "pop"}
        /\ UNCHANGED <<fs, pending, current, todo, identity, tally, history>>
    BY <1>1 DEF EntriesDone, Finish
  <2>2. node \in Initial /\ Placed /\ Walked /\ Tallied
    BY <2>1 DEF QuietInv
  <2>3. Placed'
    BY <2>1, <2>2 DEF Placed, AtHand, Waiting, Excluded
  <2>4. Walked' /\ Tallied'
    BY <2>1, <2>2, WalkStays, TallyStays
  <2>5. LookedAt'
    BY DEF LookedAt
  <2> QED BY <2>1, <2>2, <2>3, <2>4, <2>5
<1>2. ASSUME Others PROVE QuietInv'
  <2>1. changes' = changes + 1
    BY <1>2 DEF Others, Move, Link, Unlink, Swap, Change
  <2> QED BY <2>1 DEF QuietInv
<1>3. ASSUME Ended \/ UNCHANGED vars PROVE QuietInv'
  <2>1. UNCHANGED vars
    BY <1>3 DEF Ended
  <2> QED
    BY <2>1 DEF vars, fs, tally, history, QuietInv, Placed, Walked, LookedAt, Tallied,
            AtHand, Waiting, Children, Kind, Holders, Excluded, ThroughLink, Ancestors, SizeAt
<1> QED
  BY <1>1, <1>2, <1>3, PopQuiet, CheckQuiet, ReadQuiet, EntryQuiet, AttributesQuiet,
     MetadataQuiet DEF Next, Walk

\* While the tree is left alone, the links counted are the links met, and every
\* directory read was listed completely.
THEOREM QuietInductive == Spec => []QuietInv
  BY WalkStart, WalkStep, QuietStart, QuietStep, PTL DEF Spec

\* When the walk is over, every path inside that holds something was met: a
\* shortest one that was missed would lie in a directory that was listed.
LEMMA EverythingMet ==
  ASSUME WalkInv, QuietInv, pc = "measured", changes = 0
  PROVE  \A p \in Paths : IsPrefix(Store, p) /\ node[p] # None /\ ~Excluded(p) => p \in done
<1> DEFINE Missed == {p \in Paths : IsPrefix(Store, p) /\ node[p] # None
                                    /\ ~Excluded(p) /\ p \notin done}
           Lengths == {Len(p) : p \in Missed}
<1>1. /\ node \in Initial /\ Placed /\ Walked /\ pending = {} /\ todo = {} /\ AtHand = {}
      /\ \A p \in listed : Excluded(p) \/ p \in done
  BY DEF QuietInv, WalkInv, AtHand
<1>2. Lengths \in SUBSET Nat
  BY PathsAreSequences, LenProperties
<1>3. ASSUME Missed # {} PROVE FALSE
  <2>1. PICK n \in Lengths : \A m \in Lengths : n <= m
    <3>1. Lengths # {}
      BY <1>3
    <3> HIDE DEF Lengths, Missed
    <3> QED BY <1>2, <3>1, Least
  <2>2. PICK p \in Missed : Len(p) = n
    OBVIOUS
  <2>3. \A q \in Missed : Len(p) <= Len(q)
    BY <2>1, <2>2
  <2>4. p # Store
    BY <1>1, <2>2 DEF Placed
  <2>5. /\ p # <<>> /\ Front(p) \in Paths /\ IsPrefix(Store, Front(p))
        /\ node[Front(p)] \in {"dir", "mount"} /\ Len(Front(p)) < Len(p)
    BY <1>1, <2>2, <2>4, TreeShape DEF IsStrictPrefix
  <2>6. ~Excluded(Front(p))
    <3>1. IsPrefix(Front(p), p)
      BY <2>2, <2>5, PathsAreSequences, FrontIsPrefix
    <3> QED BY <2>2, <2>5, <3>1, ExcludedBelow
  <2>7. Front(p) \in done
    <3>1. Front(p) \notin Missed
      <4>1. Len(p) \in Nat /\ Len(Front(p)) \in Nat
        BY <2>2, <2>5, PathsAreSequences, LenProperties
      <4> HIDE DEF Missed
      <4> QED BY <2>3, <2>5, <4>1
    <3> QED BY <2>5, <2>6, <3>1 DEF None
  <2>8. p \in listed
    BY <1>1, <2>2, <2>5, <2>7 DEF Walked, Children
  <2> QED BY <1>1, <2>2, <2>8
<1> QED
  BY <1>3

\* The links counted of an object are its links inside.
LEMMA LinksCounted ==
  ASSUME WalkInv, QuietInv, pc = "measured", changes = 0, NEW o \in Objects
  PROVE  {p \in done : node[p] = o} = {p \in Holders(o) : Inside(p)}
<1>1. node \in Initial /\ Placed /\ Walked
  BY DEF QuietInv
<1>2. ASSUME NEW p \in done, node[p] = o PROVE p \in Holders(o) /\ Inside(p)
  <2>1. p \in Paths /\ IsPrefix(Store, p)
    <3>1. p = Store \/ p \in listed
      BY <1>1 DEF Placed
    <3>2. IsPrefix(Store, Store) /\ Store \in Paths
      BY <1>1, TreeShape DEF IsPrefix
    <3> QED BY <1>1, <3>1, <3>2 DEF Walked, IsStrictPrefix
  <2>2. ~Excluded(p)
    BY <1>1 DEF Walked
  <2>3. \A q \in Ancestors(p) : ~Excluded(q)
    BY <2>1, <2>2, ExcludedBelow, StoreAssumption DEF Ancestors, IsStrictPrefix
  <2> QED BY <1>2, <2>1, <2>2, <2>3 DEF Holders, Inside
<1>3. ASSUME NEW p \in Holders(o), Inside(p) PROVE p \in done /\ node[p] = o
  <2>1. p \in Paths /\ node[p] = o /\ o # None
    BY StoreAssumption DEF Holders, None
  <2> QED BY <1>3, <2>1, EverythingMet DEF Inside
<1> QED
  BY <1>2, <1>3

\* What a path can be measured as is one of finitely many things.
LEMMA IdsAreFinite == IsFiniteSet(Ids)
<1>1. IsFiniteSet({"dir"})
  BY FS_Singleton
<1>2. IsFiniteSet({"dir"} \cup {"link"})
  BY <1>1, FS_AddElement
<1>3. IsFiniteSet(({"dir"} \cup {"link"}) \cup {"outside"})
  BY <1>2, FS_AddElement
<1>4. ({"dir"} \cup {"link"}) \cup {"outside"} = {"dir", "link", "outside"}
  OBVIOUS
<1>5. IsFiniteSet({"dir", "link", "outside"})
  BY <1>3, <1>4
<1> QED
  BY <1>5, StoreAssumption, FS_Union DEF Ids

\* When nobody changes the tree the measurement is exact, for every tree, every
\* pattern of hard links and every list of excludes.
THEOREM QuietIsAlwaysExact == Spec => []QuietIsExact
<1>1. WalkInv /\ QuietInv => QuietIsExact
  <2> SUFFICES ASSUME WalkInv, QuietInv, pc = "measured", changes = 0
               PROVE  /\ Met \cap Objects = Present
                      /\ \A o \in Present :
                           covered[o] = LinksInside(o) /\ links[o] = Cardinality(Holders(o))
                      /\ LogicalTotal = SumFunctionOnSet(Size, Present)
                      /\ CeilingBytes # Unknown =>
                           SumFunctionOnSet(Allocated, WhollyInside) <= CeilingBytes
    BY DEF QuietIsExact
  <2>1. Tallied
    BY DEF QuietInv
  <2>2. \A o \in Objects : o \in Ids /\ covered[o] \in Nat /\ covered[o] = LinksInside(o)
    BY <2>1, LinksCounted DEF Tallied, LinksInside, Ids
  <2>3. Met \cap Objects = Present
    BY <2>2 DEF Met, Present
  <2>4. \A o \in Present :
          covered[o] = LinksInside(o) /\ links[o] = Cardinality(Holders(o))
    BY <2>1, <2>2 DEF Tallied, Present
  <2>5. Present \subseteq Met /\ Present \subseteq Objects /\ IsFiniteSet(Met)
    BY <2>3, IdsAreFinite, FS_Subset DEF Met
  <2>6. LogicalTotal = SumFunctionOnSet(Size, Present)
    <3>1. \A i \in Met : logical[i] = SizeAt(i)
      BY <2>1 DEF Tallied, Met
    <3>2. \A o \in Present : Size[o] \in Nat /\ logical[o] = Size[o]
      BY <2>5, <3>1, StoreAssumption DEF SizeAt
    <3>3. \A i \in Met \ Present : logical[i] = 0
      BY <2>3, <3>1 DEF SizeAt
    <3>4. SumFunctionOnSet(Size, Present) = SumFunctionOnSet(logical, Met)
      BY <2>5, <3>2, <3>3, SumSame
    <3> QED BY <3>4 DEF LogicalTotal
  <2>7. ASSUME CeilingBytes # Unknown
        PROVE  SumFunctionOnSet(Allocated, WhollyInside) <= CeilingBytes
    <3> DEFINE sizes == [i \in Ids |-> AllocatedOf(i)]
    <3>1. Measurable = Met /\ CeilingBytes = SumFunctionOnSet(sizes, Met)
      BY <2>7 DEF CeilingBytes, AllocatedTotal
    <3>2. WhollyInside \subseteq Met /\ WhollyInside \subseteq Objects
      <4>1. ASSUME NEW o \in WhollyInside PROVE o \in Present
        <5>1. PICK p \in Holders(o) : Inside(p)
          BY DEF WhollyInside
        <5> DEFINE H == {q \in Holders(o) : Inside(q)}
        <5>2. IsFiniteSet(H) /\ H # {}
          BY <5>1, FS_Subset, StoreAssumption DEF Holders
        <5>3. Cardinality(H) # 0 /\ Cardinality(H) \in Nat
          <6> HIDE DEF H
          <6> QED BY <5>2, FS_EmptySet, FS_CardinalityType
        <5> QED BY <5>3 DEF WhollyInside, Present, LinksInside
      <4> QED BY <2>5, <4>1
    <3>3. \A i \in Met : sizes[i] \in Nat
      <4> SUFFICES ASSUME NEW i \in Met PROVE sizes[i] \in Nat
        OBVIOUS
      <4>1. i \in Ids /\ AllocatedOf(i) # Unknown
        BY <3>1 DEF Measurable, Met
      <4> QED BY <4>1, StoreAssumption DEF AllocatedOf
    <3>4. \A o \in WhollyInside : Allocated[o] = sizes[o]
      BY <3>2 DEF AllocatedOf, Met
    <3>5. \A o \in WhollyInside : Allocated[o] \in Nat /\ Allocated[o] <= sizes[o]
      BY <3>2, <3>3, <3>4
    <3>6. SumFunctionOnSet(Allocated, WhollyInside) <= SumFunctionOnSet(sizes, Met)
      <4> HIDE DEF sizes
      <4> QED BY <2>5, <3>2, <3>3, <3>5, SumMonotone
    <3> QED BY <3>1, <3>6
  <2> QED BY <2>3, <2>4, <2>6, <2>7
<1> QED
  BY <1>1, WalkInvariant, QuietInductive, PTL

-----------------------------------------------------------------------------
(* StoreWalk while others change the tree: the paths they leave alone.      *)

\* Above a steady path that holds something there is a steady directory, as in
\* the tree the walk started in.
LEMMA SteadyShape ==
  ASSUME StillInv, NEW p, Steady(p), IsStrictPrefix(Store, p)
  PROVE  /\ p # <<>> /\ Front(p) \in Paths /\ IsPrefix(Store, Front(p))
         /\ Steady(Front(p)) /\ node[Front(p)] \in {"dir", "mount"}
         /\ Len(Front(p)) < Len(p)
<1>1. PICK tree \in Initial : \A q \in Paths \ disturbed : node[q] = tree[q]
  BY DEF StillInv
<1>2. p \in Paths /\ node[p] = tree[p] /\ tree[p] # "none"
  BY <1>1 DEF Steady, Undisturbed, None
<1>3. Front(p) \in DirPaths /\ tree[Front(p)] \in {"dir", "mount"}
  BY <1>2, StoreAssumption
<1>4. /\ Store \in Seq(Names) /\ p \in Seq(Names) /\ Front(p) \in Seq(Names)
      /\ Front(p) \in Paths
  BY <1>2, <1>3, PathsAreSequences, StoreAssumption
<1>5. p # <<>>
  <2>1. Len(Store) <= Len(p) /\ Len(Store) \in Nat /\ Store # p
    BY <1>4, PrefixAt, LenProperties DEF IsStrictPrefix
  <2> QED BY <1>4, <2>1, EmptySeq
<1>6. IsPrefix(Store, Front(p)) /\ IsPrefix(Front(p), p)
      /\ Len(Front(p)) = Len(p) - 1 /\ Len(p) \in Nat
  BY <1>4, <1>5, FrontIsPrefix, LenProperties
<1>7. Front(p) \in Ancestors(p)
  BY <1>3, <1>6 DEF Ancestors, IsStrictPrefix
<1>8. Front(p) \notin disturbed
  BY <1>7 DEF Steady, Undisturbed
<1>9. Ancestors(Front(p)) \subseteq Ancestors(p)
  <2> SUFFICES ASSUME NEW q \in Ancestors(Front(p)) PROVE q \in Ancestors(p)
    OBVIOUS
  <2>1. q \in DirPaths /\ q \in Seq(Names) /\ IsPrefix(q, Front(p))
    BY PathsAreSequences, StoreAssumption DEF Ancestors, IsStrictPrefix
  <2> QED BY <1>4, <1>5, <2>1, FrontIsPrefix DEF Ancestors
<1>10. Steady(Front(p)) /\ node[Front(p)] \in {"dir", "mount"}
  BY <1>1, <1>3, <1>4, <1>8, <1>9 DEF Steady, Undisturbed, None
<1> QED
  BY <1>4, <1>5, <1>6, <1>10

\* A path that is steady after a step held the same before it, and was steady.
LEMMA SteadyStays ==
  ASSUME [Next]_vars, NEW p, Steady(p)'
  PROVE  /\ Steady(p) /\ node'[p] = node[p]
         /\ \A q \in Ancestors(p) : node'[q] = node[q]
         /\ ThroughLink(p)' = ThroughLink(p)
<1>1. /\ disturbed \subseteq disturbed'
      /\ \A q \in Paths \ disturbed' : node'[q] = node[q]
  <2>1. CASE Others
    BY <2>1 DEF Others, Move, Link, Unlink, Swap, Change
  <2>2. CASE Walk
    BY <2>2 DEF Walk, Pop, CheckDirectory, ReadDirectory, TakeEntry, EntriesDone,
       ReadAttributes, ReadMetadata, Finish, Fail, fs
  <2>3. CASE Ended \/ UNCHANGED vars
    BY <2>3 DEF Ended, vars, fs
  <2> QED BY <2>1, <2>2, <2>3 DEF Next
<1>2. p \in Paths /\ p \notin disturbed' /\ Ancestors(p) \cap disturbed' = {}
  BY DEF Steady, Undisturbed, Ancestors
<1>3. Ancestors(p) \subseteq Paths
  BY StoreAssumption DEF Ancestors
<1>4. \A q \in Ancestors(p) : node'[q] = node[q]
  BY <1>1, <1>2, <1>3
<1> QED
  BY <1>1, <1>2, <1>4 DEF Steady, Undisturbed, ThroughLink, Ancestors

\* What is counted of an object at steady paths.
StillDone(o) == {p \in done : Steady(p) /\ node[p] = o}

LEMMA StillDoneFinite ==
  ASSUME NEW o PROVE IsFiniteSet(StillDone(o)) /\ Cardinality(StillDone(o)) \in Nat
<1>1. StillDone(o) \subseteq Paths
  BY DEF StillDone, Steady
<1> QED
  BY <1>1, FS_Subset, FS_CardinalityType, StoreAssumption

LEMMA StillStart == Init => StillInv
<1> SUFFICES ASSUME Init PROVE StillInv
  OBVIOUS
<1> USE DEF Init
<1>1. \A o \in Objects : {p \in done : Steady(p) /\ node[p] = o} = {}
  OBVIOUS
<1>2. \A o \in Objects : o \in Ids
  BY DEF Ids
<1>3. covered \in [Ids -> Nat] /\ \A o \in Objects : 0 <= covered[o]
  BY <1>2 DEF Zero
<1>4. SteadyAtHand
  BY DEF SteadyAtHand
<1>5. \E tree \in Initial : \A p \in Paths \ disturbed : node[p] = tree[p]
  OBVIOUS
<1>6. Store \in pending
  OBVIOUS
<1> QED
  BY <1>1, <1>3, <1>4, <1>5, <1>6, FS_EmptySet DEF StillInv

\* The parts of the invariant that a step leaves alone while it reads no directory
\* and measures nothing.
LEMMA StillStays ==
  ASSUME StillInv, [Next]_vars, UNCHANGED <<done, listed, covered>>,
         \A e \in todo' : e \in todo
  PROVE  /\ \E tree \in Initial : \A p \in Paths \ disturbed' : node'[p] = tree[p]
         /\ \A e \in todo' : Steady(e[1])' => e[2] = Kind(e[1])'
         /\ \A d \in done' : Steady(d)' =>
              /\ node'[d] # "mount"
              /\ node'[d] = "dir" =>
                   {p \in Children(d)' : Undisturbed(p)'} \subseteq listed'
         /\ covered' \in [Ids -> Nat]
         /\ \A o \in Objects :
              Cardinality({p \in done' : Steady(p)' /\ node'[p] = o}) <= covered'[o]
<1>1. \A p : Steady(p)' => Steady(p) /\ node'[p] = node[p]
  BY SteadyStays
<1>2. \E tree \in Initial : \A p \in Paths \ disturbed' : node'[p] = tree[p]
  <2>1. /\ disturbed \subseteq disturbed'
        /\ \A q \in Paths \ disturbed' : node'[q] = node[q]
    <3>1. CASE Others
      BY <3>1 DEF Others, Move, Link, Unlink, Swap, Change
    <3>2. CASE Walk
      BY <3>2 DEF Walk, Pop, CheckDirectory, ReadDirectory, TakeEntry, EntriesDone,
         ReadAttributes, ReadMetadata, Finish, Fail, fs
    <3>3. CASE Ended \/ UNCHANGED vars
      BY <3>3 DEF Ended, vars, fs
    <3> QED BY <3>1, <3>2, <3>3 DEF Next
  <2> QED BY <2>1 DEF StillInv
<1>3. \A e \in todo' : Steady(e[1])' => e[2] = Kind(e[1])'
  BY <1>1 DEF StillInv, Kind
<1>4. \A d \in done' : Steady(d)' => node'[d] # "mount"
  BY <1>1 DEF StillInv
<1>5. \A d \in done' : Steady(d)' /\ node'[d] = "dir" =>
        {p \in Children(d)' : Undisturbed(p)'} \subseteq listed'
  <2> SUFFICES ASSUME NEW d \in done', Steady(d)', node'[d] = "dir",
                      NEW p \in Children(d)', Undisturbed(p)'
               PROVE  p \in listed'
    OBVIOUS
  <2>1. Steady(p)' /\ p \in Paths /\ p # <<>> /\ Front(p) = d
    BY DEF Children, Steady
  <2>2. Steady(p) /\ Steady(d) /\ node[d] = "dir" /\ d \in done
    BY <1>1, <2>1
  <2>3. p \in Children(d) /\ Undisturbed(p)
    BY <2>1, <2>2 DEF Children, Steady
  <2> QED BY <2>2, <2>3 DEF StillInv
<1>6. ASSUME NEW o \in Objects
      PROVE  Cardinality({p \in done' : Steady(p)' /\ node'[p] = o}) <= covered'[o]
  <2> DEFINE D == {p \in done' : Steady(p)' /\ node'[p] = o}
  <2>1. D \subseteq StillDone(o)
    BY <1>1 DEF StillDone
  <2>2. IsFiniteSet(StillDone(o)) /\ Cardinality(StillDone(o)) \in Nat
    BY StillDoneFinite
  <2>3. IsFiniteSet(D) /\ Cardinality(D) <= Cardinality(StillDone(o))
    <3> HIDE DEF D
    <3> QED BY <2>1, <2>2, FS_Subset
  <2>4. Cardinality(D) \in Nat
    <3> HIDE DEF D
    <3> QED BY <2>3, FS_CardinalityType
  <2>5. Cardinality(StillDone(o)) <= covered[o] /\ covered[o] \in Nat /\ covered' = covered
    BY DEF StillInv, StillDone, Ids
  <2> HIDE DEF D
  <2>6. Cardinality(D) <= covered'[o]
    BY <2>2, <2>3, <2>4, <2>5
  <2> QED BY <2>6 DEF D
<1>7. covered' \in [Ids -> Nat]
  BY DEF StillInv
<1> QED
  BY <1>2, <1>3, <1>4, <1>5, <1>6, <1>7

\* A directory nobody touched is listed as it is, and so are its entries.
LEMMA ReadStill ==
  ASSUME WalkInv, OutsideInv, StillInv, ReadDirectory, ~Fail
  PROVE  StillInv'
<1>1. /\ Holds(current) \in {"dir", "link"} /\ todo' = Listing(current)
      /\ listed' = listed \cup {e[1] : e \in Listing(current)}
      /\ done' = done \cup {current} /\ pc = "read" /\ pc' = "entries"
      /\ UNCHANGED <<fs, pending, current, identity, tally>>
  BY DEF ReadDirectory
<1>2. current \in Paths /\ IsPrefix(Store, current) /\ node[current] \in {"dir", "link"}
  BY <1>1 DEF OutsideInv, Upcoming, Holds, None
<1>3. /\ UNCHANGED <<node, disturbed, covered>>
      /\ \A p : Steady(p)' = Steady(p) /\ Undisturbed(p)' = Undisturbed(p)
      /\ \A p : Kind(p)' = Kind(p) /\ Children(p)' = Children(p)
  BY <1>1 DEF fs, tally, Steady, Undisturbed, Ancestors, Kind, Children
<1>4. ASSUME Steady(current)
      PROVE  /\ todo' = {<<p, Kind(p)>> : p \in Children(current)}
             /\ Children(current) \subseteq listed'
  <2>1. node[current] = "dir" /\ ~ThroughLink(current)
    BY <1>1, <1>4 DEF StillInv, SteadyAtHand
  <2>2. Listing(current) = {<<p, Kind(p)>> : p \in Children(current)}
    BY <2>1 DEF Listing
  <2>3. ASSUME NEW p \in Children(current) PROVE p \in listed'
    <3>1. <<p, Kind(p)>> \in Listing(current) /\ <<p, Kind(p)>>[1] = p
      BY <2>2
    <3> QED BY <1>1, <3>1
  <2> QED BY <1>1, <2>2, <2>3
<1>5. ASSUME NEW e \in todo', Steady(e[1])' PROVE e[2] = Kind(e[1])'
  <2>1. e \in Listing(current) /\ Steady(e[1]) /\ e[1] \in Paths
    BY <1>1, <1>3, <1>5 DEF Steady
  <2>2. Front(e[1]) = current /\ IsStrictPrefix(Store, e[1])
    BY <1>2, <2>1, ListedUnder
  <2>3. Steady(current)
    BY <2>1, <2>2, SteadyShape
  <2> QED BY <1>3, <1>4, <1>5, <2>3
<1>6. ASSUME NEW d \in done', Steady(d)', node'[d] = "dir"
      PROVE  {p \in Children(d)' : Undisturbed(p)'} \subseteq listed'
  <2>1. Steady(d) /\ node[d] = "dir" /\ (d \in done \/ d = current)
    BY <1>1, <1>3, <1>6
  <2>2. CASE d = current
    BY <1>3, <1>4, <2>1, <2>2
  <2>3. CASE d \in done
    BY <1>1, <1>3, <2>1, <2>3 DEF StillInv
  <2> QED BY <2>1, <2>2, <2>3
<1>7. \A o \in Objects :
        {p \in done' : Steady(p)' /\ node'[p] = o} = {p \in done : Steady(p) /\ node[p] = o}
  BY <1>1, <1>2, <1>3, StoreAssumption
<1>8. SteadyAtHand'
  BY <1>1 DEF SteadyAtHand
<1>9. Store \in pending' \cup AtHand' \cup done' \/ Excluded(Store)'
  <2>1. Store \in pending \cup {current} \cup done \/ Excluded(Store)
    BY <1>1 DEF StillInv, AtHand
  <2> QED BY <1>1, <2>1 DEF Excluded
<1>10. \A d \in done' : Steady(d)' => node'[d] # "mount"
  BY <1>1, <1>2, <1>3 DEF StillInv
<1> QED
  BY <1>1, <1>3, <1>5, <1>6, <1>7, <1>8, <1>9, <1>10 DEF StillInv

\* A file nobody touched is counted as what it is.
LEMMA MetadataStill ==
  ASSUME StillInv, OutsideInv, ReadMetadata, ~Fail
  PROVE  StillInv'
<1>1. /\ covered' = NewLinks(identity) /\ done' = done \cup {current}
      /\ pc = "stat" /\ pc' = "entries"
      /\ UNCHANGED <<fs, pending, current, todo, identity, listed>>
  BY DEF ReadMetadata
<1>2. /\ UNCHANGED <<node, disturbed>>
      /\ \A p : Steady(p)' = Steady(p) /\ Undisturbed(p)' = Undisturbed(p)
      /\ \A p : Kind(p)' = Kind(p) /\ Children(p)' = Children(p)
  BY <1>1 DEF fs, Steady, Undisturbed, Ancestors, Kind, Children
<1>3. /\ covered \in [Ids -> Nat] /\ identity \in Ids
      /\ covered' = [covered EXCEPT ![identity] = covered[identity] + 1]
  BY <1>1 DEF StillInv, OutsideInv, NewLinks
<1>4. covered' \in [Ids -> Nat]
  BY <1>3
<1>5. Steady(current) => identity = node[current] /\ node[current] \notin {"dir", "mount"}
  BY <1>1 DEF StillInv, SteadyAtHand, Kind
<1>6. ASSUME NEW o \in Objects
      PROVE  Cardinality({p \in done' : Steady(p)' /\ node'[p] = o}) <= covered'[o]
  <2> DEFINE D == {p \in done' : Steady(p)' /\ node'[p] = o}
             S == StillDone(o)
  <2>1. IsFiniteSet(S) /\ Cardinality(S) \in Nat
    BY StillDoneFinite
  <2>2. Cardinality(S) <= covered[o] /\ covered[o] \in Nat /\ o \in Ids
    BY <1>3 DEF StillInv, StillDone, Ids
  <2>3. CASE Steady(current) /\ node[current] = o
    <3>1. covered'[o] = covered[o] + 1
      BY <1>3, <1>5, <2>2, <2>3
    <3>2. D = S \cup {current}
      BY <1>1, <1>2, <2>3 DEF StillDone
    <3>3. Cardinality(S \cup {current}) <= Cardinality(S) + 1
          /\ Cardinality(S \cup {current}) \in Nat
      <4> HIDE DEF S
      <4>1. IsFiniteSet(S \cup {current})
        BY <2>1, FS_AddElement
      <4>2. Cardinality(S \cup {current}) \in {Cardinality(S), Cardinality(S) + 1}
        BY <2>1, FS_AddElement
      <4> QED BY <2>1, <4>2
    <3> HIDE DEF D, S
    <3>4. Cardinality(D) <= covered'[o]
      BY <2>1, <2>2, <3>1, <3>2, <3>3
    <3> QED BY <3>4 DEF D
  <2>4. CASE ~(Steady(current) /\ node[current] = o)
    <3>1. D = S
      BY <1>1, <1>2, <2>4 DEF StillDone
    <3>2. covered'[o] >= covered[o] /\ covered'[o] \in Nat
      BY <1>3, <2>2
    <3> HIDE DEF D, S
    <3>3. Cardinality(D) <= covered'[o]
      BY <2>1, <2>2, <3>1, <3>2
    <3> QED BY <3>3 DEF D
  <2> QED BY <2>3, <2>4
<1>7. ASSUME NEW d \in done', Steady(d)', node'[d] = "dir"
      PROVE  {p \in Children(d)' : Undisturbed(p)'} \subseteq listed'
  <2>1. Steady(d) /\ node[d] = "dir" /\ d \in done
    BY <1>1, <1>2, <1>5, <1>7
  <2> QED BY <1>1, <1>2, <2>1 DEF StillInv
<1>8. SteadyAtHand'
  BY <1>1 DEF SteadyAtHand
<1>9. Store \in pending' \cup AtHand' \cup done' \/ Excluded(Store)'
  <2>1. Store \in pending \cup {current} \cup done \/ Excluded(Store)
    BY <1>1 DEF StillInv, AtHand
  <2> QED BY <1>1, <2>1 DEF Excluded
<1>10. \A d \in done' : Steady(d)' => node'[d] # "mount"
  BY <1>1, <1>2, <1>5 DEF StillInv
<1> QED
  BY <1>1, <1>2, <1>4, <1>6, <1>7, <1>8, <1>9, <1>10 DEF StillInv

LEMMA StillStep ==
  ASSUME WalkInv, OutsideInv, StillInv, [Next]_vars
  PROVE  StillInv'
<1> USE DEF tally, history
<1> DEFINE Store_ == pc' # "error" => Store \in pending' \cup AtHand' \cup done' \/ Excluded(Store)'
           Rest == Store_ /\ SteadyAtHand'
<1>0. ASSUME UNCHANGED <<done, listed, covered>>, \A e \in todo' : e \in todo, Rest
      PROVE  StillInv'
  <2>1. Store_ /\ SteadyAtHand'
    BY <1>0
  <2> QED BY <1>0, <2>1, StillStays DEF StillInv
<1>1. ASSUME NEW d \in pending, Pop(d) PROVE StillInv'
  <2>1. Rest
    BY <1>1 DEF Pop, Popped, StillInv, AtHand, SteadyAtHand, Excluded, fs
  <2> QED BY <1>0, <1>1, <2>1 DEF Pop
<1>2. ASSUME Fail PROVE StillInv'
  <2>1. Rest
    BY <1>2 DEF Fail, AfterFailure, SteadyAtHand
  <2> QED BY <1>0, <1>2, <2>1 DEF Fail
<1>3. ASSUME CheckDirectory, ~Fail PROVE StillInv'
  <2>1. /\ Holds(current) = "dir" /\ ~ThroughLink(current) /\ pc = "check" /\ pc' = "read"
        /\ UNCHANGED <<fs, pending, current, todo, identity, tally, listed, done>>
    BY <1>3 DEF CheckDirectory
  <2>2. SteadyAtHand'
    BY <2>1 DEF SteadyAtHand, Steady, Holds, ThroughLink, Ancestors, fs
  <2>3. Store_
    BY <2>1 DEF StillInv, AtHand, Excluded
  <2> QED BY <1>0, <2>1, <2>2, <2>3
<1>4. ASSUME NEW e \in todo, TakeEntry(e) PROVE StillInv'
  <2>1. /\ todo' = todo \ {e} /\ pc = "entries"
        /\ UNCHANGED <<fs, identity, tally, history>>
        /\ \/ pc' = "entries" /\ UNCHANGED <<pending, current>>
           \/ pc' = "entries" /\ pending' = pending \cup {e[1]} /\ UNCHANGED current
           \/ pc' = "attributes" /\ current' = e[1] /\ e[2] = "other" /\ UNCHANGED pending
    BY <1>4 DEF TakeEntry
  <2>2. Steady(e[1]) => e[2] = Kind(e[1])
    BY DEF StillInv
  <2>3. SteadyAtHand'
    BY <2>1, <2>2 DEF SteadyAtHand, Steady, Undisturbed, Ancestors, Kind, fs
  <2>4. Store_
    BY <2>1 DEF StillInv, AtHand, Excluded
  <2> QED BY <1>0, <2>1, <2>3, <2>4
<1>5. ASSUME EntriesDone \/ Finish PROVE StillInv'
  <2>1. /\ pc \in {"entries", "pop"} /\ pc' \in {"pop", "measured", "error"}
        /\ UNCHANGED <<fs, pending, current, todo, identity, tally, history>>
    BY <1>5 DEF EntriesDone, Finish
  <2>2. Rest
    BY <2>1 DEF StillInv, AtHand, Excluded, SteadyAtHand
  <2> QED BY <1>0, <2>1, <2>2
<1>6. ASSUME ReadAttributes, ~Fail PROVE StillInv'
  <2>1. /\ ~ThroughLink(current) /\ identity' = node[current]
        /\ pc = "attributes" /\ pc' = "stat"
        /\ UNCHANGED <<fs, pending, current, todo, tally, listed, done>>
    BY <1>6 DEF ReadAttributes, FollowsNoLink
  <2>2. SteadyAtHand'
    BY <2>1 DEF StillInv, SteadyAtHand, Steady, Undisturbed, Ancestors, Kind, fs
  <2>3. Store_
    BY <2>1 DEF StillInv, AtHand, Excluded
  <2> QED BY <1>0, <2>1, <2>2, <2>3
<1>7. ASSUME Others PROVE StillInv'
  <2>1. UNCHANGED <<pc, pending, current, todo, identity, tally, history>>
    BY <1>7 DEF Others, Move, Link, Unlink, Swap, Change
  <2>2. SteadyAtHand'
    BY <2>1, SteadyStays DEF StillInv, SteadyAtHand, Kind
  <2>3. Store_
    BY <2>1 DEF StillInv, AtHand, Excluded
  <2> QED BY <1>0, <2>1, <2>2, <2>3
<1>8. ASSUME Ended \/ UNCHANGED vars PROVE StillInv'
  <2>1. UNCHANGED vars
    BY <1>8 DEF Ended
  <2>2. SteadyAtHand'
    BY <2>1 DEF vars, fs, StillInv, SteadyAtHand, Steady, Undisturbed, Ancestors, Kind, ThroughLink
  <2>3. Store_
    BY <2>1 DEF vars, StillInv, AtHand, Excluded
  <2> QED BY <1>0, <2>1, <2>2, <2>3 DEF vars
<1> QED
  BY <1>1, <1>2, <1>3, <1>4, <1>5, <1>6, <1>7, <1>8, ReadStill, MetadataStill DEF Next, Walk

\* What is said of steady paths holds throughout, whatever happens beside them.
THEOREM StillInductive == Spec => []StillInv
<1>1. Init => WalkInv /\ OutsideInv /\ StillInv
  BY WalkStart, OutsideStart, StillStart
<1>2. WalkInv /\ OutsideInv /\ StillInv /\ [Next]_vars => (WalkInv /\ OutsideInv /\ StillInv)'
  BY WalkStep, OutsideStep, StillStep
<1> QED
  BY <1>1, <1>2, PTL DEF Spec

\* A shortest steady path that was missed would lie in a steady directory that was
\* listed.
LEMMA SteadyMet ==
  ASSUME WalkInv, StillInv, pc = "measured"
  PROVE  \A p : Steady(p) /\ Inside(p) => p \in done
<1> DEFINE Missed == {p \in Paths : Steady(p) /\ Inside(p) /\ p \notin done}
           Lengths == {Len(p) : p \in Missed}
<1>1. /\ pending = {} /\ todo = {} /\ AtHand = {}
      /\ Store \in done \/ Excluded(Store)
      /\ \A p \in listed : Excluded(p) \/ p \in done
  BY DEF StillInv, WalkInv, AtHand
<1>2. Lengths \in SUBSET Nat
  BY PathsAreSequences, LenProperties
<1>3. ASSUME Missed # {} PROVE FALSE
  <2>1. PICK n \in Lengths : \A m \in Lengths : n <= m
    <3>1. Lengths # {}
      BY <1>3
    <3> HIDE DEF Lengths, Missed
    <3> QED BY <1>2, <3>1, Least
  <2>2. PICK p \in Missed : Len(p) = n
    OBVIOUS
  <2>3. \A q \in Missed : Len(p) <= Len(q)
    BY <2>1, <2>2
  <2>4. p # Store /\ IsPrefix(Store, p) /\ ~Excluded(p)
    BY <1>1, <2>2 DEF Inside
  <2>5. /\ p # <<>> /\ Front(p) \in Paths /\ IsPrefix(Store, Front(p))
        /\ Steady(Front(p)) /\ node[Front(p)] \in {"dir", "mount"}
        /\ Len(Front(p)) < Len(p)
    BY <2>2, <2>4, SteadyShape DEF IsStrictPrefix
  <2>6. Inside(Front(p))
    <3>1. IsPrefix(Front(p), p)
      BY <2>2, <2>5, PathsAreSequences, FrontIsPrefix
    <3> QED BY <2>2, <2>4, <2>5, <3>1, ExcludedBelow DEF Inside
  <2>7. Front(p) \in done
    <3>1. Front(p) \notin Missed
      <4>1. Len(p) \in Nat /\ Len(Front(p)) \in Nat
        BY <2>2, <2>5, PathsAreSequences, LenProperties
      <4> HIDE DEF Missed
      <4> QED BY <2>3, <2>5, <4>1
    <3> QED BY <2>5, <2>6, <3>1
  <2>8. p \in Children(Front(p)) /\ Undisturbed(p)
    BY <2>2, <2>5 DEF Children, Steady
  <2>9. node[Front(p)] = "dir" => p \in listed
    BY <2>5, <2>7, <2>8 DEF StillInv
  <2>10. node[Front(p)] # "mount"
    BY <2>5, <2>7 DEF StillInv
  <2> QED BY <1>1, <2>2, <2>4, <2>5, <2>9, <2>10
<1> QED
  BY <1>3 DEF Steady

\* A file that nobody touched is counted at each of its links, and the ceiling
\* covers it: for every tree, whatever is moved, unlinked or swapped beside it.
THEOREM StillIsAlwaysCounted == Spec => []StillIsCounted
<1>1. WalkInv /\ OutsideInv /\ StillInv => StillIsCounted
  <2> SUFFICES ASSUME WalkInv, OutsideInv, StillInv, pc = "measured"
               PROVE  /\ \A o \in Objects : Cardinality(StillLinks(o)) <= covered[o]
                      /\ CeilingBytes # Unknown =>
                           SumFunctionOnSet(Allocated, {o \in Objects : StillLinks(o) # {}})
                             <= CeilingBytes
    BY DEF StillIsCounted
  <2>1. ASSUME NEW o \in Objects
        PROVE  /\ o \in Ids /\ covered[o] \in Nat
               /\ IsFiniteSet(StillLinks(o)) /\ Cardinality(StillLinks(o)) \in Nat
               /\ Cardinality(StillLinks(o)) <= covered[o]
    <3> DEFINE D == {p \in done : Steady(p) /\ node[p] = o}
    <3>1. StillLinks(o) \subseteq D
      <4> SUFFICES ASSUME NEW p \in StillLinks(o) PROVE p \in D
        OBVIOUS
      <4>1. p \in Paths /\ node[p] = o /\ Inside(p) /\ Undisturbed(p) /\ o # None
        BY StoreAssumption DEF StillLinks, Holders, None
      <4>2. Steady(p)
        BY <4>1 DEF Steady
      <4> QED BY <4>1, <4>2, SteadyMet
    <3>2. IsFiniteSet(D) /\ Cardinality(D) \in Nat
      BY StillDoneFinite DEF StillDone
    <3>3. Cardinality(D) <= covered[o] /\ covered[o] \in Nat /\ o \in Ids
      BY DEF StillInv, Ids
    <3> HIDE DEF D
    <3>4. IsFiniteSet(StillLinks(o)) /\ Cardinality(StillLinks(o)) <= Cardinality(D)
      BY <3>1, <3>2, FS_Subset
    <3>5. Cardinality(StillLinks(o)) \in Nat
      BY <3>4, FS_CardinalityType
    <3> QED BY <3>2, <3>3, <3>4, <3>5
  <2>2. ASSUME CeilingBytes # Unknown
        PROVE  SumFunctionOnSet(Allocated, {o \in Objects : StillLinks(o) # {}}) <= CeilingBytes
    <3> DEFINE sizes == [i \in Ids |-> AllocatedOf(i)]
               Still == {o \in Objects : StillLinks(o) # {}}
    <3>1. Measurable = Met /\ CeilingBytes = SumFunctionOnSet(sizes, Met)
      BY <2>2 DEF CeilingBytes, AllocatedTotal
    <3>2. ASSUME NEW o \in Still PROVE o \in Met
      <4>1. Cardinality(StillLinks(o)) # 0
        BY <2>1, FS_EmptySet
      <4> QED BY <2>1, <4>1 DEF Met
    <3>3. \A i \in Met : sizes[i] \in Nat
      <4> SUFFICES ASSUME NEW i \in Met PROVE sizes[i] \in Nat
        OBVIOUS
      <4>1. i \in Ids /\ AllocatedOf(i) # Unknown
        BY <3>1 DEF Measurable, Met
      <4> QED BY <4>1, StoreAssumption DEF AllocatedOf
    <3>4. \A o \in Still : Allocated[o] = sizes[o]
      BY <3>2 DEF AllocatedOf, Met
    <3>5. \A o \in Still : Allocated[o] \in Nat /\ Allocated[o] <= sizes[o]
      BY <3>2, <3>3, <3>4
    <3>6. IsFiniteSet(Met) /\ Still \subseteq Met
      BY <3>2, IdsAreFinite, FS_Subset DEF Met
    <3>7. SumFunctionOnSet(Allocated, Still) <= SumFunctionOnSet(sizes, Met)
      <4> HIDE DEF sizes, Still
      <4> QED BY <3>3, <3>5, <3>6, SumMonotone
    <3> QED BY <3>1, <3>7
  <2> QED BY <2>1, <2>2
<1> QED
  BY <1>1, WalkInvariant, StillInductive, WalkStart, WalkStep, OutsideStart, OutsideStep, PTL DEF Spec

-----------------------------------------------------------------------------
(* RoundedBytes: the tables of powers, the formatter, and the bounds.      *)

\* A table of powers: what the recursive definitions of Tens and Units say.
PowersOn(b, D, g) == g = [k \in D |-> IF k = 0 THEN 1 ELSE b * g[k - 1]]
NextPower(b, g, k) == IF k = 0 THEN 1 ELSE b * g[k - 1]

LEMMA PowersAt ==
  ASSUME NEW b, NEW D, NEW g, PowersOn(b, D, g)
  PROVE  \A k \in D : g[k] = NextPower(b, g, k)
<1> DEFINE h == [k \in D |-> NextPower(b, g, k)]
<1>1. g = h
  BY DEF PowersOn, NextPower
<1>2. \A k \in D : h[k] = NextPower(b, g, k)
  OBVIOUS
<1> HIDE DEF h
<1> QED BY <1>1, <1>2

LEMMA PowersFrom ==
  ASSUME NEW b, NEW D, NEW g, g = [k \in D |-> g[k]], \A k \in D : g[k] = NextPower(b, g, k)
  PROVE  PowersOn(b, D, g)
<1> DEFINE h == [k \in D |-> NextPower(b, g, k)]
<1>1. [k \in D |-> g[k]] = h
  OBVIOUS
<1>2. g = h
  BY <1>1
<1> QED BY <1>2 DEF PowersOn, NextPower

\* A claim about every number: the least counterexample is not zero and does
\* not follow another number.
LEMMA FirstPowers ==
  ASSUME NEW b
  PROVE  \A n \in Nat : \E g : PowersOn(b, 0..n, g)
<1> DEFINE Onto(n, g) == [k \in 0..n |-> NextPower(b, g, k)]
           B == {n \in Nat : ~ \E g : PowersOn(b, 0..n, g)}
<1>1. PowersOn(b, 0..0, Onto(0, b))
  BY DEF PowersOn, NextPower
<1>2. ASSUME NEW n \in Nat, NEW g, PowersOn(b, 0..n, g)
      PROVE  PowersOn(b, 0..(n + 1), Onto(n + 1, g))
  <2> DEFINE h == Onto(n + 1, g)
  <2>1. \A k \in 0..n : k \in 0..(n + 1) /\ h[k] = g[k]
    BY <1>2, PowersAt
  <2>2. \A k \in 0..(n + 1) : k # 0 => k - 1 \in 0..n
    OBVIOUS
  <2>3. \A k \in 0..(n + 1) : h[k] = NextPower(b, h, k)
    BY <2>1, <2>2 DEF NextPower
  <2>4. h = [k \in 0..(n + 1) |-> h[k]]
    OBVIOUS
  <2> HIDE DEF h
  <2>5. PowersOn(b, 0..(n + 1), h)
    BY <2>3, <2>4, PowersFrom
  <2> QED BY <2>5 DEF h
<1>3. B = {}
  <2> SUFFICES ASSUME B # {} PROVE FALSE
    OBVIOUS
  <2>1. PICK n \in B : \A m \in B : n <= m
    <3>1. B \in SUBSET Nat
      OBVIOUS
    <3> HIDE DEF B
    <3> QED BY <3>1, Least
  <2>2. n # 0
    BY <1>1
  <2>3. n - 1 \in Nat /\ (n - 1) + 1 = n /\ n - 1 \notin B
    <3>1. n \in Nat
      OBVIOUS
    <3>2. n - 1 \in Nat /\ (n - 1) + 1 = n /\ ~(n <= n - 1)
      BY <3>1, <2>2
    <3> HIDE DEF B
    <3> QED BY <2>1, <3>2
  <2>4. PICK g : PowersOn(b, 0..(n - 1), g)
    BY <2>3
  <2>5. PowersOn(b, 0..((n - 1) + 1), Onto((n - 1) + 1, g))
    <3> HIDE DEF Onto, B
    <3> QED BY <2>3, <2>4, <1>2
  <2> QED BY <2>3, <2>5
<1> QED BY <1>3

\* Two such tables agree as far as both go.
LEMMA PowersAgree ==
  ASSUME NEW b, NEW n \in Nat, NEW g, PowersOn(b, 0..n, g),
         NEW m \in Nat, NEW h, PowersOn(b, 0..m, h), n <= m
  PROVE  \A k \in 0..n : g[k] = h[k]
<1> DEFINE B == {k \in 0..n : g[k] # h[k]}
<1>1. \A k \in 0..n : g[k] = NextPower(b, g, k) /\ h[k] = NextPower(b, h, k)
  <2>1. \A k \in 0..n : k \in 0..m
    OBVIOUS
  <2> QED BY <2>1, PowersAt
<1>2. ASSUME B # {} PROVE FALSE
  <2>1. PICK k \in B : \A j \in B : k <= j
    <3>1. B \in SUBSET Nat
      OBVIOUS
    <3> HIDE DEF B
    <3> QED BY <1>2, <3>1, Least
  <2>2. k \in 0..n /\ g[k] # h[k]
    OBVIOUS
  <2>3. k # 0
    BY <1>1, <2>2 DEF NextPower
  <2>4. k - 1 \in 0..n /\ ~(k <= k - 1)
    BY <2>2, <2>3
  <2>5. g[k - 1] = h[k - 1]
    <3>1. k - 1 \notin B
      <4> HIDE DEF B
      <4> QED BY <2>1, <2>4
    <3> QED BY <2>4, <3>1
  <2> QED BY <1>1, <2>2, <2>3, <2>5 DEF NextPower
<1> QED BY <1>2

LEMMA PowersExist ==
  ASSUME NEW b
  PROVE  \E g : PowersOn(b, Nat, g)
<1> DEFINE G(n) == CHOOSE g : PowersOn(b, 0..n, g)
           f == [n \in Nat |-> G(n)[n]]
<1>1. \A n \in Nat : PowersOn(b, 0..n, G(n))
  BY FirstPowers
<1>2. ASSUME NEW n \in Nat PROVE f[n] = NextPower(b, f, n)
  <2>1. G(n)[n] = NextPower(b, G(n), n)
    <3>1. n \in 0..n /\ PowersOn(b, 0..n, G(n))
      BY <1>1
    <3> HIDE DEF G
    <3> QED BY <3>1, PowersAt
  <2>2. CASE n = 0
    BY <2>1, <2>2 DEF NextPower
  <2>3. CASE n # 0
    <3>1. n - 1 \in Nat /\ n - 1 <= n /\ n - 1 \in 0..(n - 1)
      BY <2>3
    <3>2. G(n - 1)[n - 1] = G(n)[n - 1]
      <4>1. PowersOn(b, 0..(n - 1), G(n - 1)) /\ PowersOn(b, 0..n, G(n))
        BY <1>1, <3>1
      <4> HIDE DEF G
      <4> QED BY <3>1, <4>1, PowersAgree
    <3>3. f[n] = G(n)[n] /\ f[n - 1] = G(n - 1)[n - 1]
      BY <3>1
    <3> HIDE DEF f, G
    <3> QED BY <2>1, <2>3, <3>2, <3>3 DEF NextPower
  <2> QED BY <2>2, <2>3
<1>3. f = [n \in Nat |-> f[n]]
  OBVIOUS
<1> HIDE DEF f
<1>4. PowersOn(b, Nat, f)
  BY <1>2, <1>3, PowersFrom
<1> QED BY <1>4

LEMMA TensAre == PowersOn(10, Nat, Tens)
<1>1. Tens = CHOOSE g : PowersOn(10, Nat, g)
  BY DEF Tens, PowersOn
<1> QED BY <1>1, PowersExist

LEMMA UnitsAre == PowersOn(Base, Nat, Units)
<1>1. Units = CHOOSE g : PowersOn(Base, Nat, g)
  BY DEF Units, PowersOn
<1> QED BY <1>1, PowersExist

LEMMA PowerStep ==
  ASSUME NEW b, NEW g, PowersOn(b, Nat, g)
  PROVE  g[0] = 1 /\ \A k \in Nat : g[k + 1] = b * g[k]
<1>1. \A k \in Nat : g[k] = NextPower(b, g, k)
  BY PowersAt
<1>2. \A k \in Nat : k + 1 \in Nat /\ k + 1 # 0 /\ (k + 1) - 1 = k
  OBVIOUS
<1> QED BY <1>1, <1>2 DEF NextPower

LEMMA PowerType ==
  ASSUME NEW b \in Nat \ {0}, NEW g, PowersOn(b, Nat, g)
  PROVE  \A k \in Nat : g[k] \in Nat \ {0}
<1> DEFINE B == {k \in Nat : g[k] \notin Nat \ {0}}
<1>1. ASSUME B # {} PROVE FALSE
  <2>1. PICK k \in B : \A j \in B : k <= j
    <3>1. B \in SUBSET Nat
      OBVIOUS
    <3> HIDE DEF B
    <3> QED BY <1>1, <3>1, Least
  <2>2. k \in Nat /\ g[k] \notin Nat \ {0}
    OBVIOUS
  <2>3. k # 0
    BY <2>2, PowerStep
  <2>4. k - 1 \in Nat /\ ~(k <= k - 1) /\ (k - 1) + 1 = k
    BY <2>2, <2>3
  <2>5. g[k - 1] \in Nat \ {0}
    <3>1. k - 1 \notin B
      <4> HIDE DEF B
      <4> QED BY <2>1, <2>4
    <3> QED BY <2>4, <3>1
  <2>6. g[k] = b * g[k - 1]
    BY <2>4, PowerStep
  <2>7. b * g[k - 1] \in Nat \ {0}
    BY <2>5
  <2> QED BY <2>2, <2>6, <2>7
<1> QED BY <1>1

\* Powers multiply when their exponents are added.
LEMMA PowerSum ==
  ASSUME NEW b \in Nat \ {0}, NEW g, PowersOn(b, Nat, g), NEW j \in Nat
  PROVE  \A k \in Nat : g[j + k] = g[j] * g[k]
<1> DEFINE B == {k \in Nat : g[j + k] # g[j] * g[k]}
<1>1. g[0] = 1 /\ \A k \in Nat : g[k] \in Nat \ {0} /\ g[k + 1] = b * g[k]
  BY PowerStep, PowerType
<1>2. ASSUME B # {} PROVE FALSE
  <2>1. PICK k \in B : \A i \in B : k <= i
    <3>1. B \in SUBSET Nat
      OBVIOUS
    <3> HIDE DEF B
    <3> QED BY <1>2, <3>1, Least
  <2>2. k \in Nat /\ g[j + k] # g[j] * g[k]
    OBVIOUS
  <2>3. k # 0
    <3>1. g[j + 0] = g[j] * 1
      BY <1>1
    <3> QED BY <1>1, <2>2, <3>1
  <2> DEFINE i == k - 1
  <2>4. i \in Nat /\ ~(k <= i) /\ i + 1 = k /\ (j + i) + 1 = j + k /\ j + i \in Nat
    BY <2>2, <2>3
  <2> HIDE DEF i
  <2>5. g[j + i] = g[j] * g[i]
    <3>1. i \notin B
      <4> HIDE DEF B
      <4> QED BY <2>1, <2>4
    <3> QED BY <2>4, <3>1
  <2>6. g[k] = b * g[i] /\ g[j + k] = b * g[j + i]
    BY <1>1, <2>4
  <2>7. g[i] \in Nat /\ g[j] \in Nat
    BY <1>1, <2>4
  <2>8. \A x, y \in Nat : b * (x * y) = x * (b * y)
    OBVIOUS
  <2>9. g[j + k] = g[j] * g[k]
    BY <2>5, <2>6, <2>7, <2>8
  <2> QED BY <2>2, <2>9
<1> QED BY <1>2

LEMMA PowerGrows ==
  ASSUME NEW b \in Nat \ {0}, NEW g, PowersOn(b, Nat, g), NEW j \in Nat, NEW k \in Nat, j <= k
  PROVE  g[j] <= g[k]
<1>1. k - j \in Nat /\ j + (k - j) = k
  OBVIOUS
<1>2. g[k] = g[j] * g[k - j]
  BY <1>1, PowerSum
<1>3. g[j] \in Nat \ {0} /\ g[k - j] \in Nat \ {0}
  BY <1>1, PowerType
<1>4. \A x, y \in Nat \ {0} : x <= x * y
  OBVIOUS
<1> QED BY <1>2, <1>3, <1>4

LEMMA Division ==
  ASSUME NEW a \in Nat, NEW b \in Nat \ {0}
  PROVE  a \div b \in Nat /\ b * (a \div b) <= a /\ a < b * (a \div b) + b
OBVIOUS

LEMMA Smallest ==
  ASSUME NEW S \in SUBSET Nat, S # {}
  PROVE  Min(S) \in S /\ \A x \in S : Min(S) <= x
<1>1. \E x \in S : \A y \in S : x <= y
  BY Least
<1> QED
  BY <1>1 DEF Min

LEMMA Greatest ==
  ASSUME NEW n \in Nat, NEW S \in SUBSET (0..n), S # {}
  PROVE  Max(S) \in S /\ \A x \in S : x <= Max(S)
<1> DEFINE R == {n - x : x \in S}
<1>1. R \in SUBSET Nat /\ R # {}
  <2>1. \A x \in S : n - x \in Nat
    OBVIOUS
  <2> QED BY <2>1
<1>2. PICK r \in R : \A y \in R : r <= y
  <2> HIDE DEF R
  <2> QED BY <1>1, Least
<1>3. PICK x \in S : r = n - x
  OBVIOUS
<1>4. ASSUME NEW y \in S PROVE y <= x
  <2>1. n - x <= n - y
    BY <1>2, <1>3
  <2>2. x \in 0..n /\ y \in 0..n
    OBVIOUS
  <2> HIDE DEF R
  <2> QED BY <2>1, <2>2
<1>5. \E m \in S : \A y \in S : m >= y
  BY <1>4
<1>6. Max(S) \in S /\ \A y \in S : Max(S) >= y
  BY <1>5 DEF Max
<1>7. ASSUME NEW y \in S PROVE y <= Max(S)
  <2> DEFINE m == Max(S)
  <2>1. m \in S /\ m >= y
    BY <1>6
  <2> HIDE DEF m
  <2>2. m \in Nat /\ y \in Nat
    BY <2>1
  <2>3. y <= m
    BY <2>1, <2>2
  <2> QED BY <2>3 DEF m
<1> QED BY <1>6, <1>7

LEMMA TableTypes ==
  /\ \A k \in Nat : Tens[k] \in Nat \ {0} /\ Units[k] \in Nat \ {0}
  /\ Tens[0] = 1 /\ Units[0] = 1
  /\ \A k \in Nat : Tens[k + 1] = 10 * Tens[k] /\ Units[k + 1] = Base * Units[k]
<1>1. Base \in Nat \ {0} /\ 10 \in Nat \ {0}
  BY RoundedAssumption
<1>2. \A k \in Nat : Tens[k] \in Nat \ {0}
  BY <1>1, TensAre, PowerType
<1>3. \A k \in Nat : Units[k] \in Nat \ {0}
  BY <1>1, UnitsAre, PowerType
<1>4. Tens[0] = 1 /\ \A k \in Nat : Tens[k + 1] = 10 * Tens[k]
  BY TensAre, PowerStep
<1>5. Units[0] = 1 /\ \A k \in Nat : Units[k + 1] = Base * Units[k]
  BY UnitsAre, PowerStep
<1> QED
  BY <1>2, <1>3, <1>4, <1>5

\* The unit is the largest one the size reaches.
LEMMA UnitIsLargest ==
  ASSUME NEW n \in Nat
  PROVE  /\ UnitOf(n) \in 0..LastUnit
         /\ UnitOf(n) = 0 \/ Units[UnitOf(n)] <= n
         /\ UnitOf(n) < LastUnit => n < Units[UnitOf(n) + 1]
         /\ n < Base => UnitOf(n) = 0
<1> DEFINE S == {u \in 0..LastUnit : u = 0 \/ Units[u] <= n}
           u == UnitOf(n)
<1>1. LastUnit \in Nat /\ Base \in Nat
  BY RoundedAssumption
<1>2. u \in S /\ \A v \in S : v <= u
  <2>1. u = Max(S)
    BY DEF UnitOf
  <2>2. S \in SUBSET (0..LastUnit) /\ 0 \in S
    BY <1>1
  <2> HIDE DEF S, u
  <2> QED BY <1>1, <2>1, <2>2, Greatest
<1>3. u \in 0..LastUnit /\ (u = 0 \/ Units[u] <= n)
  BY <1>2
<1>4. ASSUME u < LastUnit PROVE n < Units[u + 1]
  <2>1. u + 1 \in 0..LastUnit /\ ~(u + 1 <= u) /\ u + 1 \in Nat
    <3> HIDE DEF u
    <3> QED BY <1>1, <1>3, <1>4
  <2>2. u + 1 \notin S
    <3> HIDE DEF S, u
    <3> QED BY <1>2, <2>1
  <2>3. ~(Units[u + 1] <= n)
    <3> HIDE DEF u
    <3> QED BY <2>1, <2>2
  <2>4. Units[u + 1] \in Nat
    <3> HIDE DEF u
    <3> QED BY <2>1, TableTypes
  <2> HIDE DEF u
  <2> QED BY <2>3, <2>4
<1>5. ASSUME n < Base, u # 0 PROVE FALSE
  <2> DEFINE v == u - 1
  <2>1. v \in Nat /\ v + 1 = u
    <3> HIDE DEF u
    <3> QED BY <1>1, <1>3, <1>5
  <2> HIDE DEF u, v
  <2>2. Units[u] = Base * Units[v] /\ Units[v] \in Nat \ {0}
    BY <2>1, TableTypes
  <2>3. \A x \in Nat, y \in Nat \ {0} : x <= x * y
    OBVIOUS
  <2>4. Base <= Units[u] /\ Units[u] \in Nat
    BY <1>1, <2>2, <2>3
  <2> QED BY <1>1, <1>3, <1>5, <2>4
<1> QED
  BY <1>3, <1>4, <1>5

\* So few digits are left before the point that the printed ones suffice.
LEMMA LengthFits ==
  ASSUME NEW n \in 0..MaxSize
  PROVE  Length(n \div Units[UnitOf(n)]) \in 1..Digits
<1> DEFINE u == UnitOf(n)
           U == Units[u]
           q == n \div U
           S == {k \in 1..Digits : q < Tens[k]}
<1>1. /\ n \in Nat /\ u \in 0..LastUnit /\ u \in Nat /\ LastUnit \in Nat
      /\ u < LastUnit => n < Units[u + 1]
  <2>1. LastUnit \in Nat /\ MaxSize \in Nat
    BY RoundedAssumption
  <2>2. n \in Nat
    BY <2>1
  <2>3. u \in 0..LastUnit /\ (u < LastUnit => n < Units[u + 1])
    BY <2>2, UnitIsLargest
  <2> HIDE DEF u
  <2> QED BY <2>1, <2>2, <2>3
<1> HIDE DEF u
<1>2. U \in Nat \ {0} /\ Units[u + 1] = Base * U /\ Units[LastUnit] \in Nat
  BY <1>1, TableTypes
<1>3. /\ Digits \in Nat \ {0} /\ Tens[Digits] \in Nat /\ Base \in Nat /\ Base <= Tens[Digits]
      /\ n < Tens[Digits] * Units[LastUnit]
  <2>1. Digits \in Nat \ {0} /\ Tens[Digits] \in Nat
    BY RoundedAssumption, TableTypes
  <2>2. Tens[Digits] * Units[LastUnit] \in Nat /\ MaxSize \in Nat
    BY <1>2, <2>1, RoundedAssumption
  <2>3. MaxSize < Tens[Digits] * Units[LastUnit]
    BY RoundedAssumption
  <2> DEFINE X == Tens[Digits] * Units[LastUnit]
  <2>4. n < X
    <3> HIDE DEF X
    <3>1. X \in Nat /\ MaxSize \in Nat /\ MaxSize < X
      BY <2>2, <2>3 DEF X
    <3> QED BY <3>1
  <2> QED BY <2>1, <2>4, RoundedAssumption
<1>4. n < Tens[Digits] * U
  <2>1. \A x, y, z \in Nat : x <= y => x * z <= y * z
    OBVIOUS
  <2>2. Base * U <= Tens[Digits] * U
    BY <1>2, <1>3, <2>1
  <2>3. CASE u < LastUnit
    <3>1. n < Base * U
      BY <1>1, <1>2, <2>3
    <3> DEFINE X == Base * U
               Y == Tens[Digits] * U
    <3>2. X \in Nat /\ Y \in Nat /\ X <= Y /\ n < X
      BY <1>2, <1>3, <2>2, <3>1
    <3>3. n < Y
      <4> HIDE DEF X, Y
      <4> QED BY <1>1, <3>2
    <3> QED BY <3>3
  <2>4. CASE u = LastUnit
    BY <1>3, <2>4
  <2> QED BY <1>1, <2>3, <2>4
<1>5. q \in Nat /\ U * q <= n
  BY <1>1, <1>2, Division
<1> HIDE DEF U, q
<1>6. q < Tens[Digits]
  <2> SUFFICES ASSUME Tens[Digits] <= q PROVE FALSE
    BY <1>3, <1>5
  <2>1. \A x, y, z \in Nat : x <= y => x * z <= z * y
    OBVIOUS
  <2>2. Tens[Digits] * U <= U * q
    BY <1>2, <1>3, <1>5, <2>1
  <2> DEFINE X == Tens[Digits] * U
             Y == U * q
  <2>3. X \in Nat /\ Y \in Nat /\ X <= Y /\ n < X /\ Y <= n
    BY <1>2, <1>3, <1>4, <1>5, <2>2
  <2> HIDE DEF X, Y
  <2> QED BY <1>1, <2>3
<1>7. Digits \in S /\ S \in SUBSET Nat
  BY <1>3, <1>6
<1>8. Min(S) \in S
  <2> HIDE DEF S
  <2> QED BY <1>7, Smallest
<1>9. Length(n \div Units[UnitOf(n)]) = Min(S)
  BY DEF Length, q, U, u
<1> QED
  BY <1>8, <1>9

\* What a printed size is: a number of digits next to the true size, which
\* loses zeros only.
LEMMA PrintedIs ==
  ASSUME NEW n \in 0..MaxSize, NEW p \in HumanSize(n)
  PROVE  \E d, t, q \in Nat :
           /\ p.unit \in Nat /\ p.decimals \in Nat /\ p.mantissa \in Nat
           /\ d = p.decimals + t /\ q = p.mantissa * Tens[t]
           /\ 2 * (n * Tens[d] - q * Units[p.unit]) <= Units[p.unit]
           /\ 2 * (q * Units[p.unit] - n * Tens[d]) <= Units[p.unit]
           /\ p.unit = 0 => d = 0
           /\ p.unit # 0 => Units[p.unit] <= n /\ d + 1 <= Digits
           /\ n < Base => p.unit = 0
<1> DEFINE u == UnitOf(n)
           d == IF u = 0 THEN 0 ELSE Digits - Length(n \div Units[u])
<1>1. n \in Nat /\ Digits \in Nat
  BY RoundedAssumption
<1>2. u \in Nat /\ (u # 0 => Units[u] <= n) /\ (n < Base => u = 0)
  BY <1>1, UnitIsLargest, RoundedAssumption
<1>3. d \in Nat /\ (u = 0 => d = 0) /\ (u # 0 => d + 1 <= Digits)
  <2>1. Length(n \div Units[u]) \in 1..Digits
    BY LengthFits
  <2> HIDE DEF u
  <2> QED BY <1>1, <2>1
<1>4. PICK q \in Nearest(n * Tens[d], Units[u]) : p = Trimmed(q, d, u)
  BY DEF HumanSize
<1> HIDE DEF u, d
<1>5. n * Tens[d] \in Nat /\ Units[u] \in Nat \ {0} /\ Tens[d] \in Nat
  BY <1>1, <1>2, <1>3, TableTypes
<1>6. /\ q \in Nat
      /\ 2 * (n * Tens[d] - q * Units[u]) <= Units[u]
      /\ 2 * (q * Units[u] - n * Tens[d]) <= Units[u]
  <2> DEFINE a == n * Tens[d]
             b == Units[u]
  <2>1. a \div b \in Nat
    BY <1>5, Division
  <2>2. /\ q \in {a \div b, a \div b + 1}
        /\ 2 * (a - q * b) <= b /\ 2 * (q * b - a) <= b
    BY DEF Nearest
  <2>3. q \in Nat
    <3> HIDE DEF a, b
    <3> QED BY <2>1, <2>2
  <2> QED BY <2>2, <2>3
<1> DEFINE S == {z \in 0..d : q % Tens[z] = 0}
           t == Max(S)
<1>7. t \in S
  <2>1. 0 \in S
    <3>1. q % 1 = 0
      BY <1>6
    <3> QED BY <1>3, <3>1, TableTypes
  <2>2. S \in SUBSET (0..d)
    OBVIOUS
  <2> HIDE DEF S
  <2> QED BY <1>3, <2>1, <2>2, Greatest
<1>8. p = [mantissa |-> q \div Tens[t], decimals |-> d - t, unit |-> u]
  BY <1>4 DEF Trimmed
<1>9. t \in Nat /\ t \in 0..d /\ q % Tens[t] = 0
  <2>1. t \in 0..d /\ q % Tens[t] = 0
    BY <1>7
  <2> HIDE DEF t
  <2> QED BY <1>3, <2>1
<1> HIDE DEF S, t
<1>10. Tens[t] \in Nat \ {0}
  BY <1>9, TableTypes
<1>11. q \div Tens[t] \in Nat /\ q = (q \div Tens[t]) * Tens[t]
  BY <1>6, <1>9, <1>10
<1>12. d - t \in Nat /\ d = (d - t) + t
  BY <1>3, <1>9
<1>13. p.unit = u /\ p.decimals = d - t /\ p.mantissa = q \div Tens[t]
  BY <1>8
<1> QED
  BY <1>2, <1>3, <1>6, <1>9, <1>11, <1>12, <1>13

\* Dropped zeros multiply both sides: what holds of the digits that were rounded
\* holds of the digits that are printed.
LEMMA ZerosCancel ==
  ASSUME NEW n \in Nat, NEW m \in Nat, NEW s \in Nat \ {0}, NEW T \in Nat \ {0},
         NEW U \in Nat \ {0},
         2 * (n * (s * T) - (m * T) * U) <= U, 2 * ((m * T) * U - n * (s * T)) <= U
  PROVE  n * s <= m * U + U /\ m * U <= n * s + U
<1> DEFINE A == n * s
           C == m * U
<1>1. \A x, y, z \in Nat : x * (y * z) = (x * y) * z /\ (x * y) * z = (x * z) * y
  OBVIOUS
<1>2. n * (s * T) = A * T /\ (m * T) * U = C * T
  BY <1>1
<1>3. A \in Nat /\ C \in Nat
  OBVIOUS
<1>4. 2 * (A * T - C * T) <= U /\ 2 * (C * T - A * T) <= U
  BY <1>2
<1> HIDE DEF A, C
<1>5. \A x, y \in Nat : x * T - y * T > U => 2 * (x * T - y * T) > U
  OBVIOUS
<1>6. \A x \in Nat : x <= x * T
  OBVIOUS
<1>7. \A x, y \in Nat : x > y + U => x * T - y * T > U
  <2> SUFFICES ASSUME NEW x \in Nat, NEW y \in Nat, x > y + U PROVE x * T - y * T > U
    OBVIOUS
  <2> DEFINE z == x - y
  <2>1. z \in Nat /\ z > U /\ x = y + z
    OBVIOUS
  <2> HIDE DEF z
  <2>2. x * T = y * T + z * T
    BY <2>1
  <2>3. z * T \in Nat /\ z <= z * T /\ y * T \in Nat
    BY <1>6, <2>1
  <2> DEFINE Z == z * T
             Y == y * T
  <2>4. Z \in Nat /\ Y \in Nat /\ Z > U /\ x * T - y * T = (Y + Z) - Y
    <3>1. Z \in Nat /\ z <= Z /\ Y \in Nat
      BY <2>3
    <3>2. x * T - y * T = (Y + Z) - Y
      BY <2>2
    <3> HIDE DEF Z, Y
    <3> QED BY <2>1, <3>1, <3>2
  <2> HIDE DEF Z, Y
  <2> QED BY <2>4
<1>8. ~(A > C + U)
  BY <1>3, <1>4, <1>5, <1>7
<1>9. ~(C > A + U)
  BY <1>3, <1>4, <1>5, <1>7
<1>10. A <= C + U /\ C <= A + U
  BY <1>3, <1>8, <1>9
<1> QED BY <1>10 DEF A, C

\* What the bounds are made of, with the products as numbers of their own.
LEMMA QuotientsBracket ==
  ASSUME NEW n \in Nat, NEW s \in Nat \ {0}, NEW U \in Nat \ {0}, NEW C \in Nat,
         n * s <= C + U, C <= n * s + U,
         NEW X, X = (IF C >= U THEN C - U ELSE 0)
  PROVE  /\ X \div s \in Nat /\ (C + U + s - 1) \div s \in Nat
         /\ X \div s <= n /\ n <= (C + U + s - 1) \div s
         /\ ((C + U + s - 1) \div s - X \div s - 2) * s <= 2 * U
<1> DEFINE Y == C + U + s - 1
           x == X \div s
           y == Y \div s
           P == n * s
<1>1. P \in Nat /\ P <= C + U /\ C <= P + U
  OBVIOUS
<1>2. X \in Nat /\ Y \in Nat
  OBVIOUS
<1>3. x \in Nat /\ s * x <= X /\ X < s * x + s
  <2> HIDE DEF x
  <2> QED BY <1>2, Division DEF x
<1>4. y \in Nat /\ s * y <= Y /\ Y < s * y + s
  <2> HIDE DEF Y
  <2>1. Y \div s \in Nat /\ s * (Y \div s) <= Y /\ Y < s * (Y \div s) + s
    BY <1>2, Division
  <2> QED BY <2>1
<1> DEFINE a == s * x
           b == s * y
<1>5. a \in Nat /\ b \in Nat /\ a <= X /\ X < a + s /\ b <= Y /\ Y < b + s
  <2> HIDE DEF x, y, Y
  <2> QED BY <1>3, <1>4
<1> HIDE DEF x, y, P, a, b
<1>6. a <= P /\ P <= b /\ (b - a) - 2 * s <= 2 * U
  <2>1. X <= P
    <3>1. CASE C >= U
      BY <1>1, <3>1
    <3>2. CASE ~(C >= U)
      BY <1>1, <3>2
    <3> QED BY <3>1, <3>2
  <2>2. a <= P
    BY <1>1, <1>2, <1>5, <2>1
  <2>3. C - U <= X
    OBVIOUS
  <2>4. P <= b
    BY <1>1, <1>5
  <2>5. (b - a) - 2 * s <= 2 * U
    BY <1>2, <1>5, <2>3
  <2> QED BY <2>2, <2>4, <2>5
<1>7. \A v, w \in Nat : s * v <= w * s => v <= w
  <2> SUFFICES ASSUME NEW v \in Nat, NEW w \in Nat, v > w PROVE s * v > w * s
    OBVIOUS
  <2> DEFINE z == v - w
  <2>1. z \in Nat \ {0} /\ v = w + z
    OBVIOUS
  <2> HIDE DEF z
  <2>2. s * v = w * s + s * z /\ s * z > 0
    BY <2>1
  <2>3. w * s \in Nat /\ s * z \in Nat
    BY <2>1
  <2> QED BY <2>2, <2>3
<1>8. \A v, w \in Nat : v * s <= s * w => v <= w
  <2> SUFFICES ASSUME NEW v \in Nat, NEW w \in Nat, v * s <= s * w PROVE v <= w
    OBVIOUS
  <2>1. v * s = s * v /\ s * w = w * s
    OBVIOUS
  <2> QED BY <1>7, <2>1
<1>9. x <= n
  BY <1>3, <1>6, <1>7 DEF a, P
<1>10. n <= y
  BY <1>4, <1>6, <1>8 DEF b, P
<1>11. (y - x - 2) * s = (s * y - s * x) - 2 * s
  BY <1>3, <1>4
<1>12. (y - x - 2) * s <= 2 * U
  BY <1>6, <1>11 DEF a, b
<1> QED
  BY <1>3, <1>4, <1>9, <1>10, <1>12 DEF x, y

\* Sizes printed in a larger unit are refused only near the largest one: every
\* number that must fit is a small multiple of the size.
LEMMA RefusedIsLarge ==
  ASSUME NEW n \in Nat, NEW s \in Nat \ {0}, NEW U \in Nat \ {0}, NEW C \in Nat,
         NEW K \in Nat, C <= n * s + U, U <= n, 10 * s <= K
  PROVE  s <= n * K /\ C <= n * K /\ C + U + s - 1 <= n * K
<1> DEFINE P == n * s
           Q == n * K
<1>1. \A x, y, z \in Nat : x <= y => z * x <= z * y
  OBVIOUS
<1>2. n * (10 * s) <= Q
  BY <1>1
<1>3. n * (10 * s) = 10 * P
  OBVIOUS
<1>4. n <= P /\ s <= P
  <2>1. \A x, y \in Nat \ {0} : x <= x * y /\ y <= x * y
    OBVIOUS
  <2>2. n \in Nat \ {0}
    OBVIOUS
  <2> QED BY <2>1, <2>2
<1>5. P \in Nat /\ Q \in Nat /\ 10 * P <= Q /\ C <= P + U
  BY <1>2, <1>3
<1> HIDE DEF P, Q
<1>6. s <= Q /\ C <= Q /\ C + U + s - 1 <= Q
  BY <1>4, <1>5
<1> QED BY <1>6 DEF Q

\* What the bounds of a printed size say of the size it was printed for.
LEMMA BoundsOf ==
  ASSUME size \in 0..MaxSize, printed \in HumanSize(size), bounds = Rounded
  PROVE  RoundedBracketsTruth
<1> DEFINE n == size
           s == Scale
           U == Unit
           m == printed.mantissa
           C == m * U
<1>1. PICK d, t, q \in Nat :
        /\ printed.unit \in Nat /\ printed.decimals \in Nat /\ m \in Nat
        /\ d = printed.decimals + t /\ q = m * Tens[t]
        /\ 2 * (n * Tens[d] - q * Units[printed.unit]) <= Units[printed.unit]
        /\ 2 * (q * Units[printed.unit] - n * Tens[d]) <= Units[printed.unit]
        /\ printed.unit = 0 => d = 0
        /\ printed.unit # 0 => Units[printed.unit] <= n /\ d + 1 <= Digits
        /\ n < Base => printed.unit = 0
  BY PrintedIs
<1>2. /\ n \in Nat /\ m \in Nat /\ s \in Nat \ {0} /\ U \in Nat \ {0} /\ Tens[t] \in Nat \ {0}
      /\ Limit \in Nat \ {0} /\ Base \in Nat /\ Digits \in Nat /\ Tens[Digits] \in Nat \ {0}
  BY <1>1, RoundedAssumption, TableTypes DEF Scale, Unit
<1>3. Tens[d] = s * Tens[t]
  <2>1. 10 \in Nat \ {0}
    OBVIOUS
  <2> QED BY <1>1, <2>1, TensAre, PowerSum DEF Scale
<1>4. n * s <= C + U /\ C <= n * s + U
  <2>1. /\ 2 * (n * (s * Tens[t]) - (m * Tens[t]) * U) <= U
        /\ 2 * ((m * Tens[t]) * U - n * (s * Tens[t])) <= U
    BY <1>1, <1>3 DEF Unit
  <2> HIDE DEF n, s, U, m
  <2> QED BY <1>2, <2>1, ZerosCancel
<1>5. C \in Nat /\ Center = C
  BY <1>2 DEF Center
<1>6. CASE printed.unit = 0
  <2>1. d = 0 /\ t = 0 /\ printed.decimals = 0
    BY <1>1, <1>6
  <2>2. U = 1 /\ s = 1 /\ Tens[t] = 1 /\ Tens[d] = 1
    BY <1>6, <2>1, TableTypes DEF Unit, Scale
  <2>3. Exact
    BY <1>6, <2>1 DEF Exact
  <2>4. C = m /\ q = m /\ 2 * (n * 1 - q * 1) <= 1 /\ 2 * (q * 1 - n * 1) <= 1
    BY <1>1, <1>2, <2>2 DEF Unit
  <2>5. C = n
    <3> HIDE DEF n, m, C
    <3> QED BY <1>1, <1>2, <2>4
  <2>6. CASE Fits
    <3>1. bounds = [lower |-> n, upper |-> n]
      BY <1>5, <2>3, <2>5, <2>6 DEF Rounded
    <3>2. bounds # Refused
      BY <1>2, <3>1 DEF Refused
    <3>3. (n - n - 2) * 1 <= 2 * 1
      BY <1>2
    <3> QED
      BY <1>2, <2>2, <3>1, <3>2, <3>3 DEF RoundedBracketsTruth
  <2>7. CASE ~Fits
    <3>1. bounds = Refused
      BY <2>7 DEF Rounded
    <3>2. n > Limit
      BY <1>2, <1>5, <2>2, <2>3, <2>5, <2>7 DEF Fits
    <3>3. \A x \in Nat, y \in Nat \ {0} : x <= x * y
      OBVIOUS
    <3>4. n <= n * Tens[Digits] /\ n * Tens[Digits] \in Nat
      BY <1>2, <3>3
    <3> DEFINE Q == n * Tens[Digits]
    <3>5. Q > Limit
      <4> HIDE DEF Q, n
      <4>1. n <= Q /\ Q \in Nat
        BY <3>4 DEF Q
      <4> QED BY <1>2, <3>2, <4>1
    <3> QED BY <3>1, <3>5 DEF RoundedBracketsTruth
  <2> QED BY <2>6, <2>7
<1>7. CASE printed.unit # 0
  <2>1. ~Exact /\ ~(n < Base) /\ U <= n
    BY <1>1, <1>7 DEF Exact, Unit
  <2>2. CASE Fits
    <3> DEFINE X == IF C >= U THEN C - U ELSE 0
               x == X \div s
               y == (C + U + s - 1) \div s
    <3>1. x \in Nat /\ y \in Nat /\ x <= n /\ n <= y /\ (y - x - 2) * s <= 2 * U
      <4> HIDE DEF n, s, U, C
      <4> QED BY <1>2, <1>4, <1>5, QuotientsBracket
    <3>2. Lower = x /\ Upper = y
      BY <1>5 DEF Lower, Upper
    <3>3. bounds = [lower |-> x, upper |-> y]
      BY <2>1, <2>2, <3>2 DEF Rounded
    <3> HIDE DEF x, y
    <3>4. bounds # Refused
      BY <3>1, <3>3 DEF Refused
    <3> QED
      BY <2>1, <3>1, <3>3, <3>4 DEF RoundedBracketsTruth
  <2>3. CASE ~Fits
    <3>1. bounds = Refused
      BY <2>3 DEF Rounded
    <3>2. 10 * s <= Tens[Digits]
      <4>1. /\ printed.decimals + 1 \in Nat /\ printed.decimals + 1 <= Digits
            /\ Tens[printed.decimals + 1] = 10 * s
        <5>1. d + 1 <= Digits
          BY <1>1, <1>7
        <5>2. printed.decimals \in Nat /\ d = printed.decimals + t
          BY <1>1
        <5>3. printed.decimals + 1 \in Nat /\ printed.decimals + 1 <= Digits
          BY <1>2, <5>1, <5>2
        <5>4. Tens[printed.decimals + 1] = 10 * Tens[printed.decimals]
          BY <5>2, TableTypes
        <5> QED BY <5>3, <5>4 DEF Scale
      <4>2. 10 \in Nat \ {0}
        OBVIOUS
      <4> HIDE DEF s
      <4> QED BY <1>2, <4>1, <4>2, TensAre, PowerGrows
    <3> DEFINE Q == n * Tens[Digits]
    <3>3. s <= Q /\ C <= Q /\ C + U + s - 1 <= Q /\ Q \in Nat
      <4> HIDE DEF n, s, U, C
      <4> QED BY <1>2, <1>4, <1>5, <2>1, <3>2, RefusedIsLarge
    <3>4. ~(s <= Limit /\ C <= Limit /\ C + U + s - 1 <= Limit)
      BY <1>5, <2>3 DEF Fits
    <3>5. Q > Limit
      <4> HIDE DEF n, s, U, C, Q
      <4> QED BY <1>2, <1>5, <3>3, <3>4
    <3> QED BY <3>1, <3>5 DEF RoundedBracketsTruth
  <2> QED BY <2>2, <2>3
<1> QED BY <1>6, <1>7

LEMMA PrintedIsNotBlank ==
  ASSUME NEW n \in 0..MaxSize, NEW p \in HumanSize(n)
  PROVE  p # Blank
<1>1. p.mantissa \in Nat
  BY PrintedIs
<1> QED BY <1>1 DEF Blank

\* The size stays, the print is one of its own, and the bounds are those of the
\* print.
THEOREM RoundedInductive == RoundedSpec => []RoundedInv
<1>1. RoundedInit => RoundedInv
  BY DEF RoundedInit, RoundedInv
<1>2. RoundedInv /\ [RoundedNext]_roundedVars => RoundedInv'
  <2> SUFFICES ASSUME RoundedInv, [RoundedNext]_roundedVars PROVE RoundedInv'
    OBVIOUS
  <2> USE DEF RoundedInv
  <2>1. CASE PrintSize
    <3>1. bounds = Nowhere /\ printed' \in HumanSize(size)
      BY <2>1 DEF PrintSize
    <3> QED BY <2>1, <3>1 DEF PrintSize
  <2>2. CASE RoundedBytes
    <3>1. Rounded' = Rounded
      BY <2>2 DEF RoundedBytes, Rounded, Fits, Exact, Lower, Upper, Center, Scale, Unit, Refused
    <3> QED BY <2>2, <3>1 DEF RoundedBytes
  <2>3. CASE UNCHANGED roundedVars
    <3>1. Rounded' = Rounded
      BY <2>3 DEF roundedVars, Rounded, Fits, Exact, Lower, Upper, Center, Scale, Unit, Refused
    <3> QED BY <2>3, <3>1 DEF roundedVars
  <2> QED BY <2>1, <2>2, <2>3 DEF RoundedNext
<1> QED BY <1>1, <1>2, PTL DEF RoundedSpec

\* model.rs:461-476, decisions.md Q56: for every base, number of digits and limit,
\* the bounds of a printed size hold the size, are one size for bytes, are no
\* wider than two of the last digit, and are refused only near the limit.
THEOREM RoundedBracketsAlways == RoundedSpec => []RoundedBracketsTruth
<1>1. RoundedInv => RoundedBracketsTruth
  <2>1. CASE bounds = Nowhere
    BY <2>1 DEF RoundedBracketsTruth
  <2>2. CASE bounds # Nowhere
    BY <2>2, BoundsOf DEF RoundedInv
  <2> QED BY <2>1, <2>2
<1> QED BY <1>1, RoundedInductive, PTL
=============================================================================

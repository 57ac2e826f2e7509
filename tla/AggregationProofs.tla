-------------------------- MODULE AggregationProofs --------------------------
(***************************************************************************)
(* What the arithmetic of the aggregators computes, for any entries.  The  *)
(* sums, medians and filters of Aggregation are about finite sets of any   *)
(* size, so the lemmas go by induction.  An induction is stated about a    *)
(* set, the set of the numbers or subsets that have the property at hand,  *)
(* and rests on the least element that every set of naturals has.          *)
(***************************************************************************)
EXTENDS Aggregation, FiniteSetTheorems, TLAPS

-----------------------------------------------------------------------------
(* Induction *)

\* A set of naturals has a least element.
LEMMA LeastNatural ==
    ASSUME NEW T \in SUBSET Nat, T # {}
    PROVE  \E n \in T : \A m \in T : n <= m
<1> DEFINE R == OpToRel(<, Nat)
<1>1. IsWellFoundedOn(R, Nat)
  BY NatLessThanWellFounded
<1>2. PICK n \in T : \A m \in T : <<m, n>> \notin R
  <2> HIDE DEF R
  <2> QED
    BY <1>1, WFMin
<1>3. ASSUME NEW m \in T, m < n PROVE FALSE
  <2>1. <<m, n>> \in Nat \X Nat /\ <<m, n>>[1] = m /\ <<m, n>>[2] = n
    OBVIOUS
  <2>2. <<m, n>> \in R
    BY <1>3, <2>1, Zenon DEF OpToRel
  <2> QED
    BY <1>2, <2>2
<1> HIDE DEF R
<1>4. \A m \in T : n <= m
  BY <1>3
<1> QED
  BY <1>4

\* A bounded set of naturals has a greatest element.
LEMMA GreatestNatural ==
    ASSUME NEW T \in SUBSET Nat, T # {}, NEW bound \in Nat, \A n \in T : n <= bound
    PROVE  \E n \in T : \A m \in T : m <= n
<1> DEFINE D == {bound - n : n \in T}
<1>1. D \in SUBSET Nat /\ D # {}
  <2>1. \A n \in T : bound - n \in Nat
    OBVIOUS
  <2> QED
    BY <2>1
<1>2. PICK d \in D : \A e \in D : d <= e
  BY <1>1, LeastNatural
<1>3. PICK n \in T : d = bound - n
  OBVIOUS
<1>4. \A m \in T : bound - n <= bound - m
  BY <1>2, <1>3
<1>5. \A m \in T : m <= n
  <2> SUFFICES ASSUME NEW m \in T PROVE m <= n
    OBVIOUS
  <2>1. bound - n <= bound - m /\ n \in Nat /\ m \in Nat
    BY <1>4
  <2> QED
    BY <2>1
<1> QED
  BY <1>5

LEMMA NaturalInduction ==
    ASSUME NEW Good, 0 \in Good, \A n \in Nat : n \in Good => n + 1 \in Good
    PROVE  Nat \subseteq Good
<1> SUFFICES ASSUME Nat \ Good # {} PROVE FALSE
  OBVIOUS
<1>1. PICK n \in Nat \ Good : \A m \in Nat \ Good : n <= m
  BY LeastNatural
<1>2. n # 0 /\ n - 1 \in Nat
  BY <1>1
<1>3. n - 1 \in Good
  BY <1>1, <1>2
<1>4. (n - 1) + 1 \in Good
  BY <1>2, <1>3
<1> QED
  BY <1>1, <1>4

\* What holds of the empty set, and of a set if it holds of the set without any
\* one element, holds of every finite set.
LEMMA FiniteInduction ==
    ASSUME NEW U, IsFiniteSet(U), NEW Good, {} \in Good,
           \A S \in SUBSET U : S # {} /\ (\A x \in S : S \ {x} \in Good) => S \in Good
    PROVE  \A S \in SUBSET U : S \in Good
<1> DEFINE Sizes == {n \in Nat : \E S \in SUBSET U : S \notin Good /\ Cardinality(S) = n}
<1> SUFFICES ASSUME NEW S0 \in SUBSET U, S0 \notin Good PROVE FALSE
  OBVIOUS
<1>1. \A S \in SUBSET U : IsFiniteSet(S) /\ Cardinality(S) \in Nat
  BY FS_Subset, FS_CardinalityType
<1>2. Cardinality(S0) \in Sizes
  BY <1>1
<1>3. PICK n \in Sizes : \A m \in Sizes : n <= m
  BY <1>2, LeastNatural
<1>4. PICK S \in SUBSET U : S \notin Good /\ Cardinality(S) = n
  BY <1>3
<1>5. ASSUME NEW x \in S PROVE S \ {x} \in Good
  <2>1. Cardinality(S \ {x}) = n - 1
    BY <1>1, <1>4, FS_RemoveElement
  <2>2. S \ {x} \in SUBSET U
    OBVIOUS
  <2> QED
    BY <1>1, <1>3, <2>1, <2>2
<1> QED
  BY <1>4, <1>5

-----------------------------------------------------------------------------
(* Sums over finite sets *)

\* The equation of the fold that SumFunctionOnSet is.
FoldStep(f, g, s) ==
    IF s = {} THEN 0
    ELSE f[CHOOSE x \in s : TRUE] + g[s \ {CHOOSE x \in s : TRUE}]

IsFold(f, g, S) == g = [s \in SUBSET S |-> FoldStep(f, g, s)]

LEMMA SumIsFold ==
    ASSUME NEW f, NEW S
    PROVE  SumFunctionOnSet(f, S) = (CHOOSE g : IsFold(f, g, S))[S]
BY DEF SumFunctionOnSet, FoldFunctionOnSet, MapThenFoldSet, FoldStep, IsFold

\* The recursion ends: there is such a function.
LEMMA FoldExists ==
    ASSUME NEW f, NEW S, IsFiniteSet(S)
    PROVE  \E g : IsFold(f, g, S)
<1> DEFINE Small(n) == {s \in SUBSET S : Cardinality(s) <= n}
           Good == {n \in Nat : \E g : \A s \in Small(n) : g[s] = FoldStep(f, g, s)}
<1>1. \A s \in SUBSET S : IsFiniteSet(s) /\ Cardinality(s) \in Nat
  BY FS_Subset, FS_CardinalityType
<1>2. 0 \in Good
  <2> DEFINE g == [s \in SUBSET S |-> 0]
  <2>1. \A s \in Small(0) : s = {}
    BY <1>1, FS_EmptySet
  <2>2. \A s \in Small(0) : g[s] = FoldStep(f, g, s)
    BY <2>1 DEF FoldStep
  <2> QED
    BY <2>2
<1>3. ASSUME NEW n \in Nat, n \in Good PROVE n + 1 \in Good
  <2>1. PICK g : \A s \in Small(n) : g[s] = FoldStep(f, g, s)
    BY <1>3
  <2> DEFINE h == [s \in SUBSET S |-> IF Cardinality(s) <= n THEN g[s] ELSE FoldStep(f, g, s)]
  <2>2. ASSUME NEW s \in Small(n + 1) PROVE h[s] = FoldStep(f, h, s)
    <3>1. h[s] = FoldStep(f, g, s)
      BY <2>1
    <3>2. CASE s = {}
      BY <3>1, <3>2 DEF FoldStep
    <3>3. CASE s # {}
      <4> DEFINE rest == s \ {CHOOSE x \in s : TRUE}
      <4>1. Cardinality(rest) = Cardinality(s) - 1 /\ rest \in SUBSET S
        BY <1>1, <3>3, FS_RemoveElement
      <4>2. Cardinality(rest) <= n
        BY <1>1, <4>1
      <4>3. h[rest] = g[rest]
        BY <4>1, <4>2
      <4> QED
        BY <3>1, <3>3, <4>3 DEF FoldStep
    <3> QED
      BY <3>2, <3>3
  <2> HIDE DEF h, Small
  <2>3. n + 1 \in Nat /\ \E k : \A s \in Small(n + 1) : k[s] = FoldStep(f, k, s)
    BY <2>2
  <2> QED
    BY <2>3
<1> HIDE DEF Good
<1>4. Nat \subseteq Good
  BY <1>2, <1>3, NaturalInduction
<1>5. Cardinality(S) \in Good
  BY <1>1, <1>4
<1>6. PICK g : \A s \in Small(Cardinality(S)) : g[s] = FoldStep(f, g, s)
  BY <1>5 DEF Good
<1>7. \A s \in SUBSET S : s \in Small(Cardinality(S))
  BY FS_Subset
<1> DEFINE h == [s \in SUBSET S |-> g[s]]
<1>8. ASSUME NEW s \in SUBSET S PROVE h[s] = FoldStep(f, h, s)
  BY <1>6, <1>7 DEF FoldStep
<1>9. h = [s \in SUBSET S |-> FoldStep(f, h, s)]
  BY <1>8
<1> QED
  BY <1>9 DEF IsFold

\* It does not matter in which set the subset to be summed up lies.
LEMMA FoldUnique ==
    ASSUME NEW f, NEW S, IsFiniteSet(S), NEW T \in SUBSET S, NEW g, NEW h,
           IsFold(f, g, S), IsFold(f, h, T)
    PROVE  g[T] = h[T]
<1> DEFINE Good == {s \in SUBSET T : g[s] = h[s]}
<1>1. \A s \in SUBSET T : g[s] = FoldStep(f, g, s) /\ h[s] = FoldStep(f, h, s)
  BY DEF IsFold
<1>2. {} \in Good
  BY <1>1 DEF FoldStep
<1>3. ASSUME NEW s \in SUBSET T, s # {}, \A x \in s : s \ {x} \in Good
      PROVE  s \in Good
  BY <1>1, <1>3 DEF FoldStep
<1>4. IsFiniteSet(T)
  BY FS_Subset
<1> HIDE DEF Good
<1>5. T \in Good
  BY <1>2, <1>3, <1>4, FiniteInduction
<1> QED
  BY <1>5 DEF Good

LEMMA SumEmpty == ASSUME NEW f PROVE SumFunctionOnSet(f, {}) = 0
<1>1. PICK g : IsFold(f, g, {})
  BY FoldExists, FS_EmptySet
<1> DEFINE h == CHOOSE g_1 : IsFold(f, g_1, {})
<1>2. IsFold(f, h, {})
  BY <1>1
<1>3. h[{}] = FoldStep(f, h, {})
  <2> HIDE DEF h
  <2> QED
    BY <1>2 DEF IsFold
<1> QED
  BY <1>3, SumIsFold DEF FoldStep

\* The sum is the chosen element's value and the sum of the others'.
LEMMA SumChosen ==
    ASSUME NEW f, NEW S, IsFiniteSet(S), S # {}
    PROVE  \E x \in S : SumFunctionOnSet(f, S) = f[x] + SumFunctionOnSet(f, S \ {x})
<1> DEFINE x == CHOOSE y \in S : TRUE
           g == CHOOSE k : IsFold(f, k, S)
           h == CHOOSE k : IsFold(f, k, S \ {x})
<1>1. x \in S /\ IsFiniteSet(S \ {x})
  BY FS_RemoveElement
<1>2. IsFold(f, g, S) /\ IsFold(f, h, S \ {x})
  BY <1>1, FoldExists
<1>3. SumFunctionOnSet(f, S) = g[S] /\ SumFunctionOnSet(f, S \ {x}) = h[S \ {x}]
  BY SumIsFold
<1> HIDE DEF g, h
<1>4. g[S \ {x}] = h[S \ {x}]
  BY <1>2, FoldUnique
<1>5. g[S] = FoldStep(f, g, S)
  BY <1>2 DEF IsFold
<1>6. g[S] = f[x] + g[S \ {x}]
  BY <1>5 DEF FoldStep
<1> QED
  BY <1>1, <1>3, <1>4, <1>6

Naturals(f, S) == \A x \in S : f[x] \in Nat

\* Any element can be taken out first.
LEMMA SumElement ==
    ASSUME NEW f, NEW S, IsFiniteSet(S), Naturals(f, S)
    PROVE  /\ SumFunctionOnSet(f, S) \in Nat
           /\ \A x \in S : SumFunctionOnSet(f, S) = f[x] + SumFunctionOnSet(f, S \ {x})
<1> DEFINE Sum(T) == SumFunctionOnSet(f, T)
           Good == {T \in SUBSET S :
                       /\ Sum(T) \in Nat
                       /\ \A x \in T : Sum(T \ {x}) \in Nat /\ Sum(T) = f[x] + Sum(T \ {x})}
<1> HIDE DEF Sum
<1>1. {} \in Good
  BY SumEmpty DEF Sum
<1>2. ASSUME NEW T \in SUBSET S, T # {}, \A x \in T : T \ {x} \in Good
      PROVE  T \in Good
  <2>1. IsFiniteSet(T)
    BY FS_Subset
  <2>2. PICK c \in T : Sum(T) = f[c] + Sum(T \ {c})
    BY <1>2, <2>1, SumChosen DEF Sum
  <2>3. \A x \in T : f[x] \in Nat /\ Sum(T \ {x}) \in Nat
    BY <1>2 DEF Naturals
  <2>4. ASSUME NEW x \in T, x # c PROVE Sum(T) = f[x] + Sum(T \ {x})
    <3>1. Sum(T \ {c}) = f[x] + Sum((T \ {c}) \ {x})
      BY <1>2, <2>4
    <3>2. Sum(T \ {x}) = f[c] + Sum((T \ {x}) \ {c})
      BY <1>2, <2>4
    <3>3. (T \ {c}) \ {x} = (T \ {x}) \ {c}
      OBVIOUS
    <3>4. Sum((T \ {c}) \ {x}) \in Nat
      BY <1>2, <2>4
    <3>5. Sum(T) = f[c] + (f[x] + Sum((T \ {c}) \ {x}))
      BY <2>2, <3>1
    <3>6. Sum(T \ {x}) = f[c] + Sum((T \ {c}) \ {x})
      BY <3>2, <3>3
    <3>7. f[c] \in Nat /\ f[x] \in Nat
      BY <2>3
    <3> HIDE DEF Good
    <3> QED
      BY <3>4, <3>5, <3>6, <3>7
  <2>5. Sum(T) \in Nat
    BY <2>2, <2>3
  <2> QED
    BY <2>2, <2>3, <2>4, <2>5
<1> HIDE DEF Good
<1>3. S \in Good
  BY <1>1, <1>2, FiniteInduction
<1> QED
  BY <1>3 DEF Good, Sum

LEMMA SumOfDisjoint ==
    ASSUME NEW f, NEW S, IsFiniteSet(S), Naturals(f, S), NEW T \in SUBSET S
    PROVE  SumFunctionOnSet(f, S) = SumFunctionOnSet(f, T) + SumFunctionOnSet(f, S \ T)
<1> DEFINE Sum(R) == SumFunctionOnSet(f, R)
           Good == {R \in SUBSET T : Sum((S \ T) \cup R) = Sum(R) + Sum(S \ T)}
<1>1. \A R \in SUBSET S : /\ IsFiniteSet(R) /\ Sum(R) \in Nat
                          /\ \A x \in R : f[x] \in Nat /\ Sum(R) = f[x] + Sum(R \ {x})
  <2> SUFFICES ASSUME NEW R \in SUBSET S
               PROVE  /\ IsFiniteSet(R) /\ Sum(R) \in Nat
                      /\ \A x \in R : f[x] \in Nat /\ Sum(R) = f[x] + Sum(R \ {x})
    OBVIOUS
  <2>1. IsFiniteSet(R) /\ Naturals(f, R)
    BY FS_Subset DEF Naturals
  <2> QED
    BY <2>1, SumElement DEF Naturals
<1> HIDE DEF Sum
<1>2. {} \in Good
  <2>1. Sum({}) = 0 /\ Sum(S \ T) \in Nat
    BY <1>1, SumEmpty DEF Sum
  <2>2. (S \ T) \cup {} = S \ T
    OBVIOUS
  <2> QED
    BY <2>1, <2>2
<1>3. ASSUME NEW R \in SUBSET T, R # {}, \A x \in R : R \ {x} \in Good
      PROVE  R \in Good
  <2>1. PICK x \in R : TRUE
    BY <1>3
  <2>2. Sum(R) = f[x] + Sum(R \ {x})
    BY <1>1
  <2>3. Sum((S \ T) \cup R) = f[x] + Sum(((S \ T) \cup R) \ {x})
    BY <1>1
  <2>4. ((S \ T) \cup R) \ {x} = (S \ T) \cup (R \ {x})
    OBVIOUS
  <2>5. Sum((S \ T) \cup (R \ {x})) = Sum(R \ {x}) + Sum(S \ T)
    BY <1>3
  <2>6. f[x] \in Nat /\ Sum(R \ {x}) \in Nat /\ Sum(S \ T) \in Nat
    BY <1>1
  <2>7. Sum((S \ T) \cup R) = f[x] + (Sum(R \ {x}) + Sum(S \ T))
    BY <2>3, <2>4, <2>5
  <2>8. Sum((S \ T) \cup R) = Sum(R) + Sum(S \ T)
    <3> HIDE DEF Good
    <3> QED
      BY <2>2, <2>6, <2>7
  <2> QED
    BY <2>8
<1>4. IsFiniteSet(T)
  BY FS_Subset
<1> HIDE DEF Good
<1>5. T \in Good
  BY <1>2, <1>3, <1>4, FiniteInduction
<1>6. (S \ T) \cup T = S
  OBVIOUS
<1> QED
  BY <1>5, <1>6 DEF Good, Sum

\* Functions that agree on the set have the same sum over it.
LEMMA SumSame ==
    ASSUME NEW f, NEW g, NEW S, IsFiniteSet(S), Naturals(f, S), \A x \in S : f[x] = g[x]
    PROVE  SumFunctionOnSet(f, S) = SumFunctionOnSet(g, S)
<1> DEFINE Good == {T \in SUBSET S : SumFunctionOnSet(f, T) = SumFunctionOnSet(g, T)}
<1>1. {} \in Good
  BY SumEmpty
<1>2. ASSUME NEW T \in SUBSET S, T # {}, \A x \in T : T \ {x} \in Good
      PROVE  T \in Good
  <2>1. IsFiniteSet(T) /\ Naturals(f, T) /\ Naturals(g, T)
    BY FS_Subset DEF Naturals
  <2>2. PICK x \in T : TRUE
    BY <1>2
  <2>3. /\ SumFunctionOnSet(f, T) = f[x] + SumFunctionOnSet(f, T \ {x})
        /\ SumFunctionOnSet(g, T) = g[x] + SumFunctionOnSet(g, T \ {x})
    BY <2>1, SumElement
  <2>4. SumFunctionOnSet(f, T \ {x}) = SumFunctionOnSet(g, T \ {x}) /\ f[x] = g[x]
    BY <1>2
  <2> QED
    BY <2>3, <2>4
<1> HIDE DEF Good
<1>3. S \in Good
  BY <1>1, <1>2, FiniteInduction
<1> QED
  BY <1>3 DEF Good

\* A sum of larger values is no smaller.
LEMMA SumMonotone ==
    ASSUME NEW f, NEW g, NEW S, IsFiniteSet(S), Naturals(f, S), Naturals(g, S),
           \A x \in S : f[x] <= g[x]
    PROVE  SumFunctionOnSet(f, S) <= SumFunctionOnSet(g, S)
<1> DEFINE F(T) == SumFunctionOnSet(f, T)
           G(T) == SumFunctionOnSet(g, T)
           Good == {T \in SUBSET S : F(T) <= G(T)}
<1>1. \A x \in S : f[x] \in Nat /\ g[x] \in Nat
  BY DEF Naturals
<1>2. \A T \in SUBSET S :
         /\ F(T) \in Nat /\ G(T) \in Nat
         /\ \A x \in T : F(T) = f[x] + F(T \ {x}) /\ G(T) = g[x] + G(T \ {x})
  <2> SUFFICES ASSUME NEW T \in SUBSET S
               PROVE  /\ F(T) \in Nat /\ G(T) \in Nat
                      /\ \A x \in T : F(T) = f[x] + F(T \ {x}) /\ G(T) = g[x] + G(T \ {x})
    OBVIOUS
  <2>1. IsFiniteSet(T) /\ Naturals(f, T) /\ Naturals(g, T)
    BY FS_Subset DEF Naturals
  <2> QED
    BY <2>1, SumElement
<1> HIDE DEF F, G
<1>3. {} \in Good
  BY SumEmpty DEF F, G
<1>4. ASSUME NEW T \in SUBSET S, T # {}, \A x \in T : T \ {x} \in Good
      PROVE  T \in Good
  <2>1. PICK x \in T : TRUE
    BY <1>4
  <2>2. F(T \ {x}) <= G(T \ {x}) /\ f[x] <= g[x]
    BY <1>4
  <2>3. F(T) = f[x] + F(T \ {x}) /\ G(T) = g[x] + G(T \ {x})
    BY <1>2
  <2>4. /\ f[x] \in Nat /\ g[x] \in Nat /\ F(T \ {x}) \in Nat /\ G(T \ {x}) \in Nat
    BY <1>1, <1>2
  <2>5. F(T) <= G(T)
    <3> HIDE DEF Good
    <3> QED
      BY <2>2, <2>3, <2>4
  <2> QED
    BY <2>5
<1> HIDE DEF Good
<1>5. S \in Good
  BY <1>3, <1>4, FiniteInduction
<1> QED
  BY <1>5 DEF Good, F, G

LEMMA SumLinear ==
    ASSUME NEW f, NEW g, NEW S, IsFiniteSet(S), Naturals(g, S), NEW c \in Nat,
           \A x \in S : f[x] = c * g[x]
    PROVE  SumFunctionOnSet(f, S) = c * SumFunctionOnSet(g, S)
<1> DEFINE F(T) == SumFunctionOnSet(f, T)
           G(T) == SumFunctionOnSet(g, T)
           Good == {T \in SUBSET S : F(T) = c * G(T)}
<1>1. \A x \in S : f[x] \in Nat /\ g[x] \in Nat
  BY DEF Naturals
<1>2. \A T \in SUBSET S : /\ G(T) \in Nat
                          /\ \A x \in T : F(T) = f[x] + F(T \ {x}) /\ G(T) = g[x] + G(T \ {x})
  <2> SUFFICES ASSUME NEW T \in SUBSET S
               PROVE  /\ G(T) \in Nat
                      /\ \A x \in T : F(T) = f[x] + F(T \ {x}) /\ G(T) = g[x] + G(T \ {x})
    OBVIOUS
  <2>1. IsFiniteSet(T) /\ Naturals(f, T) /\ Naturals(g, T)
    BY <1>1, FS_Subset DEF Naturals
  <2> QED
    BY <2>1, SumElement
<1> HIDE DEF F, G
<1>3. {} \in Good
  BY SumEmpty DEF F, G
<1>4. ASSUME NEW T \in SUBSET S, T # {}, \A x \in T : T \ {x} \in Good
      PROVE  T \in Good
  <2>1. PICK x \in T : TRUE
    BY <1>4
  <2>2. F(T \ {x}) = c * G(T \ {x}) /\ f[x] = c * g[x]
    BY <1>4
  <2>3. F(T) = c * g[x] + c * G(T \ {x}) /\ G(T) = g[x] + G(T \ {x})
    BY <1>2, <2>2
  <2>4. g[x] \in Nat /\ G(T \ {x}) \in Nat
    BY <1>1, <1>2
  <2>5. c * (g[x] + G(T \ {x})) = c * g[x] + c * G(T \ {x})
    <3>1. \A a, b \in Nat : c * (a + b) = c * a + c * b
      OBVIOUS
    <3> QED
      BY <2>4, <3>1
  <2> QED
    BY <2>3, <2>5
<1> HIDE DEF Good
<1>5. S \in Good
  BY <1>3, <1>4, FiniteInduction
<1> QED
  BY <1>5 DEF Good, F, G

-----------------------------------------------------------------------------
(* Weights *)

\* What is known of the entries of a symbol: weights are positive.
Weighed(entries) ==
    /\ IsFiniteSet(entries)
    /\ \A e \in entries : e.price \in Nat /\ e.weight \in Nat \ {0}

LEMMA WeightIsSum ==
    ASSUME NEW E, Weighed(E), NEW F \in SUBSET E
    PROVE  Weight(F) = SumFunctionOnSet([e \in E |-> e.weight], F)
<1>1. Weight(F) = SumFunctionOnSet([e \in F |-> e.weight], F)
  <2>1. DOMAIN [e \in F |-> e.weight] = F
    OBVIOUS
  <2> QED
    BY <2>1 DEF Weight, SumFunction
<1>2. IsFiniteSet(F) /\ Naturals([e \in F |-> e.weight], F)
  BY FS_Subset DEF Weighed, Naturals
<1>3. \A e \in F : [d \in F |-> d.weight][e] = [d \in E |-> d.weight][e]
  OBVIOUS
<1> QED
  BY <1>1, <1>2, <1>3, SumSame

\* Disjoint parts add up, a part weighs no more than the whole, and nothing but
\* the empty set weighs nothing.
LEMMA WeightOfPart ==
    ASSUME NEW E, Weighed(E), NEW F \in SUBSET E, NEW G \in SUBSET F
    PROVE  /\ Weight(F) \in Nat /\ Weight(G) \in Nat /\ Weight(F \ G) \in Nat
           /\ Weight(F) = Weight(G) + Weight(F \ G)
           /\ Weight(G) <= Weight(F)
           /\ F # {} => Weight(F) > 0
           /\ G # F => Weight(G) < Weight(F)
<1> DEFINE w == [e \in E |-> e.weight]
<1>1. IsFiniteSet(F) /\ Naturals(w, F) /\ IsFiniteSet(F \ G) /\ Naturals(w, F \ G)
      /\ IsFiniteSet(G) /\ Naturals(w, G)
  BY FS_Subset DEF Weighed, Naturals
<1>2. /\ Weight(F) = SumFunctionOnSet(w, F) /\ Weight(G) = SumFunctionOnSet(w, G)
      /\ Weight(F \ G) = SumFunctionOnSet(w, F \ G)
  BY WeightIsSum
<1>3. Weight(F) \in Nat /\ Weight(G) \in Nat /\ Weight(F \ G) \in Nat
  BY <1>1, <1>2, SumElement
<1>4. Weight(F) = Weight(G) + Weight(F \ G)
  BY <1>1, <1>2, SumOfDisjoint
<1>5. ASSUME NEW H \in SUBSET F, H # {} PROVE SumFunctionOnSet(w, H) \in Nat \ {0}
  <2>1. PICK e \in H : TRUE
    BY <1>5
  <2>2. IsFiniteSet(H) /\ Naturals(w, H) /\ IsFiniteSet(H \ {e}) /\ Naturals(w, H \ {e})
    BY <1>1, FS_Subset DEF Naturals
  <2>3. SumFunctionOnSet(w, H) = w[e] + SumFunctionOnSet(w, H \ {e})
    BY <2>2, SumElement
  <2>4. SumFunctionOnSet(w, H \ {e}) \in Nat /\ w[e] \in Nat \ {0}
    BY <2>2, SumElement DEF Weighed
  <2> HIDE DEF w
  <2> QED
    BY <2>3, <2>4
<1>6. F # {} => Weight(F) > 0
  BY <1>2, <1>5
<1>7. G # F => Weight(F \ G) > 0
  BY <1>2, <1>5
<1> QED
  BY <1>3, <1>4, <1>6, <1>7

-----------------------------------------------------------------------------
(* Orders *)

LEMMA MinProperties ==
    ASSUME NEW T \in SUBSET Nat, T # {}
    PROVE  /\ Min(T) \in T /\ \A m \in T : Min(T) <= m
           /\ \A n \in T : (\A m \in T : n <= m) => n = Min(T)
<1>1. \E n \in T : \A m \in T : n <= m
  BY LeastNatural
<1>2. Min(T) \in T /\ \A m \in T : Min(T) <= m
  BY <1>1 DEF Min
<1>3. \A n \in T : (\A m \in T : n <= m) => n = Min(T)
  <2> SUFFICES ASSUME NEW n \in T, \A m \in T : n <= m PROVE n = Min(T)
    OBVIOUS
  <2>1. n <= Min(T) /\ Min(T) <= n /\ n \in Nat /\ Min(T) \in Nat
    BY <1>2
  <2> QED
    BY <2>1
<1> QED
  BY <1>2, <1>3

\* An order has every entry once, and no price before a lower one.
LEMMA OrderProperties ==
    ASSUME NEW E, Weighed(E), NEW s \in Orders(E)
    PROVE  /\ Len(s) \in Nat /\ Len(s) = Cardinality(E)
           /\ \A i \in 1..Len(s) : s[i] \in E
           /\ \A i, j \in 1..Len(s) : s[i] = s[j] => i = j
           /\ \A e \in E : \E i \in 1..Len(s) : s[i] = e
           /\ \A i, j \in 1..Len(s) : i <= j => s[i].price <= s[j].price
<1> DEFINE n == Cardinality(E)
<1>1. n \in Nat /\ IsFiniteSet(E) /\ \A e \in E : e.price \in Nat
  BY FS_CardinalityType DEF Weighed
<1>2. /\ s \in [1..n -> E] /\ \A i, j \in 1..n : i # j => s[i] # s[j]
      /\ \A i \in 1..Len(s) - 1 : s[i].price <= s[i + 1].price
  BY DEF Orders, SetToSeqs
<1>3. Len(s) = n
  BY <1>1, <1>2
<1>4. \A e \in E : \E i \in 1..n : s[i] = e
  <2>1. s \in Injection(1..n, E)
    BY <1>2 DEF Injection, IsInjective
  <2>2. Cardinality(1..n) = n
    BY <1>1, FS_Interval
  <2>3. s \in Surjection(1..n, E)
    BY <1>1, <2>1, <2>2, FS_Injection
  <2> QED
    BY <2>3 DEF Surjection
<1>5. ASSUME NEW i \in 1..n, NEW j \in 1..n, i <= j PROVE s[i].price <= s[j].price
  <2> DEFINE Good == {k \in Nat : i + k <= n => s[i].price <= s[i + k].price}
  <2>1. 0 \in Good
    BY <1>1, <1>2
  <2>2. ASSUME NEW k \in Nat, k \in Good PROVE k + 1 \in Good
    <3> SUFFICES ASSUME i + (k + 1) <= n PROVE s[i].price <= s[i + (k + 1)].price
      OBVIOUS
    <3>1. i + k \in 1..n - 1 /\ i + (k + 1) = (i + k) + 1 /\ i + k <= n
      BY <1>1
    <3>2. i \in 1..n /\ i + k \in 1..n /\ (i + k) + 1 \in 1..n
      BY <1>1, <3>1
    <3>3. s[i].price <= s[i + k].price
      BY <2>2, <3>1
    <3>4. s[i + k].price <= s[(i + k) + 1].price
      BY <1>2, <1>3, <3>1
    <3>5. s[i].price \in Nat /\ s[i + k].price \in Nat /\ s[(i + k) + 1].price \in Nat
      <4> HIDE DEF n, Good
      <4>1. s[i] \in E /\ s[i + k] \in E /\ s[(i + k) + 1] \in E
        BY <1>2, <3>2
      <4> QED
        BY <1>1, <4>1
    <3> QED
      BY <3>1, <3>3, <3>4, <3>5
  <2> HIDE DEF Good
  <2>3. j - i \in Good
    BY <1>5, <2>1, <2>2, NaturalInduction
  <2>4. i + (j - i) = j
    OBVIOUS
  <2> QED
    BY <2>3, <2>4 DEF Good
<1> QED
  BY <1>1, <1>2, <1>3, <1>4, <1>5

-----------------------------------------------------------------------------
(* The weighted median *)

\* The median as a function of the set of entries, whatever their order: the
\* lowest price that with the lower ones has half of the weight, and if that is
\* exactly half, as the rounding has it, the next higher price or halfway to it.
AtMost(F, p) == {e \in F : e.price <= p}
Prices(F) == {e.price : e \in F}
Halfway(F) == {p \in Prices(F) : 2 * Weight(AtMost(F, p)) >= Weight(F)}
Above(F, p) == {q \in Prices(F) : q > p}

Tied(F, p) == 2 * Weight(AtMost(F, p)) = Weight(F) /\ Above(F, p) # {}

MedianOf(F, rounding) ==
    LET p == Min(Halfway(F))
    IN  IF Tied(F, p) /\ rounding = "below" THEN Min(Above(F, p))
        ELSE IF Tied(F, p) /\ rounding = "exact" THEN (p + Min(Above(F, p))) \div 2
        ELSE p

\* Some entry has the highest price.
LEMMA HighestEntry ==
    ASSUME NEW F, Weighed(F), F # {}
    PROVE  \E g \in F : \A e \in F : e.price <= g.price
<1> DEFINE Good == {G \in SUBSET F : G = {} \/ \E g \in G : \A e \in G : e.price <= g.price}
<1>1. \A e \in F : e.price \in Nat
  BY DEF Weighed
<1>2. {} \in Good
  OBVIOUS
<1>3. ASSUME NEW G \in SUBSET F, G # {}, \A x \in G : G \ {x} \in Good
      PROVE  G \in Good
  <2>1. PICK x \in G : TRUE
    BY <1>3
  <2>2. CASE G \ {x} = {}
    <3>1. \A e \in G : e.price <= x.price
      BY <1>1, <2>2
    <3> QED
      BY <3>1
  <2>3. CASE G \ {x} # {}
    <3>1. PICK g \in G \ {x} : \A e \in G \ {x} : e.price <= g.price
      BY <1>3, <2>3
    <3>2. CASE x.price <= g.price
      <4>1. \A e \in G : e.price <= g.price
        BY <3>1, <3>2
      <4> QED
        BY <4>1
    <3>3. CASE ~(x.price <= g.price)
      <4>1. \A e \in G : e.price <= x.price
        BY <1>1, <3>1, <3>3
      <4> QED
        BY <4>1
    <3> QED
      BY <3>2, <3>3
  <2> QED
    BY <2>2, <2>3
<1>4. IsFiniteSet(F)
  BY DEF Weighed
<1> HIDE DEF Good
<1>5. F \in Good
  BY <1>2, <1>3, <1>4, FiniteInduction
<1> QED
  BY <1>5 DEF Good

\* The highest price has all of the weight, so that there is a price with half.
LEMMA HalfwayExists ==
    ASSUME NEW F, Weighed(F), F # {}
    PROVE  /\ Halfway(F) # {} /\ Prices(F) \in SUBSET Nat
           /\ Min(Halfway(F)) \in Halfway(F)
           /\ \A q \in Halfway(F) : Min(Halfway(F)) <= q
<1>1. Prices(F) \in SUBSET Nat
  BY DEF Weighed, Prices
<1>2. PICK g \in F : \A e \in F : e.price <= g.price
  BY HighestEntry
<1>3. AtMost(F, g.price) = F
  BY <1>2 DEF AtMost
<1>4. Weight(F) \in Nat
  BY WeightOfPart
<1>5. g.price \in Halfway(F)
  BY <1>3, <1>4 DEF Halfway, Prices
<1>6. Halfway(F) \in SUBSET Nat
  BY <1>1 DEF Halfway
<1> QED
  BY <1>1, <1>5, <1>6, MinProperties

LEMMA MedianIsNatural ==
    ASSUME NEW F, Weighed(F), F # {}, NEW r
    PROVE  /\ MedianOf(F, r) \in Nat
           /\ MedianOf(F, r) = 0 => 2 * Weight(AtMost(F, 0)) >= Weight(F)
<1> DEFINE p == Min(Halfway(F))
<1>1. p \in Nat /\ 2 * Weight(AtMost(F, p)) >= Weight(F)
  BY HalfwayExists DEF Halfway
<1>2. CASE Above(F, p) = {}
  BY <1>1, <1>2 DEF MedianOf, Tied
<1>3. CASE Above(F, p) # {}
  <2>1. Above(F, p) \in SUBSET Nat
    BY HalfwayExists DEF Above
  <2>2. Min(Above(F, p)) \in Nat /\ Min(Above(F, p)) > p
    BY <1>3, <2>1, MinProperties DEF Above
  <2>3. MedianOf(F, r) \in {p, (p + Min(Above(F, p))) \div 2, Min(Above(F, p))}
    BY DEF MedianOf
  <2> HIDE DEF p
  <2>4. /\ (p + Min(Above(F, p))) \div 2 \in Nat
        /\ (p + Min(Above(F, p))) \div 2 = 0 => p = 0
    BY <1>1, <2>2
  <2> QED
    BY <1>1, <2>2, <2>3, <2>4
<1> QED
  BY <1>2, <1>3

\* Entries with more than half of the weight have the median among them.
LEMMA MajorityHoldsMedian ==
    ASSUME NEW F, Weighed(F), NEW G \in SUBSET F, 2 * Weight(G) > Weight(F),
           NEW low \in Nat, NEW high \in Prices(G),
           \A g \in G : low <= g.price /\ g.price <= high, NEW r
    PROVE  MedianOf(F, r) \in low..high
<1> DEFINE p == Min(Halfway(F))
<1>1. PICK h \in G : h.price = high
  BY DEF Prices
<1>2. /\ p \in Prices(F) /\ p \in Nat /\ high \in Nat /\ high \in Prices(F)
      /\ 2 * Weight(AtMost(F, p)) >= Weight(F)
      /\ \A q \in Halfway(F) : p <= q
  <2>1. F # {} /\ high \in Prices(F)
    BY <1>1 DEF Prices
  <2>2. /\ p \in Halfway(F) /\ \A q \in Halfway(F) : p <= q
        /\ Prices(F) \in SUBSET Nat
    BY <2>1, HalfwayExists
  <2> HIDE DEF p
  <2> QED
    BY <2>1, <2>2 DEF Halfway
<1> HIDE DEF p
<1>3. Weight(G) \in Nat /\ Weight(F) \in Nat
  BY WeightOfPart
<1>4. ASSUME NEW A \in SUBSET F, 2 * Weight(A) >= Weight(F) PROVE A \cap G # {}
  <2>1. SUFFICES ASSUME A \subseteq F \ G PROVE FALSE
    OBVIOUS
  <2>2. Weight(F) = Weight(G) + Weight(F \ G) /\ Weight(F \ G) \in Nat
    BY WeightOfPart
  <2>3. Weight(A) <= Weight(F \ G) /\ Weight(A) \in Nat
    BY <2>1, WeightOfPart
  <2> QED
    BY <1>3, <1>4, <2>2, <2>3
<1>5. low <= p
  <2>1. PICK g \in G : g \in AtMost(F, p)
    BY <1>2, <1>4 DEF AtMost
  <2>2. g.price \in Nat /\ low <= g.price /\ g.price <= p
    BY <2>1 DEF AtMost, Weighed
  <2> QED
    BY <1>2, <2>2
<1>6. p <= high
  <2>1. G \subseteq AtMost(F, high) /\ AtMost(F, high) \in SUBSET F
    BY DEF AtMost
  <2>2. Weight(G) <= Weight(AtMost(F, high)) /\ Weight(AtMost(F, high)) \in Nat
    BY <2>1, WeightOfPart
  <2>3. high \in Halfway(F)
    BY <1>2, <1>3, <2>2 DEF Halfway
  <2> QED
    BY <1>2, <2>3
<1>7. CASE Tied(F, p)
  <2>1. MedianOf(F, r) \in {p, (p + Min(Above(F, p))) \div 2, Min(Above(F, p))}
    BY DEF MedianOf, p
  <2>2. Above(F, p) \in SUBSET Nat
    BY HalfwayExists DEF Above
  <2>3. Min(Above(F, p)) \in Above(F, p) /\ \A q \in Above(F, p) : Min(Above(F, p)) <= q
    BY <1>7, <2>2, MinProperties DEF Tied
  <2>4. PICK g \in G : g \notin AtMost(F, p)
    <3>1. SUFFICES ASSUME G \subseteq AtMost(F, p) PROVE FALSE
      OBVIOUS
    <3>2. Weight(G) <= Weight(AtMost(F, p)) /\ Weight(AtMost(F, p)) \in Nat
      BY <3>1, WeightOfPart DEF AtMost
    <3> QED
      BY <1>3, <1>7, <3>2 DEF Tied
  <2>5. g.price \in Above(F, p) /\ g.price <= high /\ g.price \in Nat
    BY <1>2, <2>4 DEF Above, AtMost, Prices, Weighed
  <2>6. Min(Above(F, p)) <= high /\ Min(Above(F, p)) \in Nat /\ p <= Min(Above(F, p))
    BY <1>2, <2>2, <2>3, <2>5 DEF Above
  <2> QED
    BY <1>2, <1>5, <1>6, <2>1, <2>6
<1>8. CASE ~Tied(F, p)
  <2>1. MedianOf(F, r) = p
    BY <1>8 DEF MedianOf, p
  <2> QED
    BY <1>2, <1>5, <1>6, <2>1
<1> QED
  BY <1>7, <1>8

\* WeightedMedian finds that median in any order of the entries, and for any
\* positions in it.
LEMMA WeightedMedianOfSet ==
    ASSUME NEW E, Weighed(E), NEW s \in Orders(E), NEW P \in SUBSET (1..Len(s)), P # {},
           NEW r
    PROVE  WeightedMedian(s, P, r) = MedianOf(Selected(s, P), r)
<1> DEFINE F == Selected(s, P)
           Before(i) == Selected(s, UpTo(P, i))
           Reached == {i \in P : 2 * Weight(Before(i)) >= Weight(F)}
           half == Min(Reached)
           after == {i \in P : i > half}
           p == s[half].price
           total == Weight(F)
<1>1. /\ Len(s) \in Nat /\ \A i \in 1..Len(s) : s[i] \in E
      /\ \A i, j \in 1..Len(s) : s[i] = s[j] => i = j
      /\ \A i, j \in 1..Len(s) : i <= j => s[i].price <= s[j].price
  BY OrderProperties
<1>2. \A e \in E : e.price \in Nat /\ e.weight \in Nat \ {0}
  BY DEF Weighed
<1>3. F \in SUBSET E /\ F # {} /\ Weighed(F)
  <2>1. F \in SUBSET E /\ F # {}
    <3>1. \A i \in P : s[i] \in E
      BY <1>1
    <3> QED
      BY <3>1 DEF Selected
  <2> QED
    BY <2>1, FS_Subset DEF Weighed
<1>4. \A A \in SUBSET F : /\ Weight(A) \in Nat /\ Weight(A) <= total
                          /\ \A B \in SUBSET A : Weight(B) <= Weight(A)
                          /\ \A B \in SUBSET A : B # A => Weight(B) < Weight(A)
  BY <1>3, WeightOfPart
<1>5. total \in Nat /\ total > 0
  BY <1>3, WeightOfPart
<1>6. \A i \in P : i \in 1..Len(s) /\ i \in Nat /\ s[i] \in F /\ s[i].price \in Nat /\ Before(i) \in SUBSET F
  <2> SUFFICES ASSUME NEW i \in P
               PROVE  i \in 1..Len(s) /\ i \in Nat /\ s[i] \in F /\ s[i].price \in Nat
                      /\ Before(i) \in SUBSET F
    OBVIOUS
  <2>1. i \in 1..Len(s) /\ i \in Nat /\ s[i] \in F
    BY <1>1 DEF Selected
  <2>2. Before(i) \in SUBSET F
    BY DEF Selected, UpTo
  <2> QED
    BY <1>2, <1>3, <2>1, <2>2
<1>7. Reached \in SUBSET Nat /\ Reached # {}
  <2>1. P \in SUBSET Nat /\ \A i \in P : i <= Len(s)
    BY <1>1
  <2>2. PICK last \in P : \A i \in P : i <= last
    BY <1>1, <2>1, GreatestNatural
  <2>3. Before(last) = F
    BY <2>2 DEF Selected, UpTo
  <2>4. last \in Reached
    BY <1>5, <2>3
  <2> QED
    BY <2>1, <2>4
<1>8. half \in Reached /\ \A i \in Reached : half <= i
  BY <1>7, MinProperties
<1>9. /\ half \in P /\ 2 * Weight(Before(half)) >= total
       /\ p \in Prices(F) /\ p \in Nat
       /\ Before(half) \in SUBSET F
  BY <1>6, <1>8 DEF Prices
<1> DEFINE tie == 2 * Weight(Before(half)) = total /\ after # {}
<1>10. WeightedMedian(s, P, r) =
         IF tie /\ r = "below" THEN s[Min(after)].price
         ELSE IF tie /\ r = "exact" THEN (s[half].price + s[Min(after)].price) \div 2
         ELSE s[half].price
  <2> DEFINE amount == [i \in P |-> Weight(Before(i))]
  <2>1. \A i \in P : amount[i] = Weight(Before(i))
    OBVIOUS
  <2>2. {i \in P : 2 * amount[i] >= total} = Reached /\ amount[half] = Weight(Before(half))
    BY <1>9, <2>1
  <2>3. WeightedMedian(s, P, r) = MedianBy(s, P, amount, total, r)
    BY DEF WeightedMedian
  <2> HIDE DEF amount
  <2>4. MedianBy(s, P, amount, total, r) =
           CASE tie /\ r = "below" -> s[Min(after)].price
             [] tie /\ r = "exact" -> (s[half].price + s[Min(after)].price) \div 2
             [] OTHER -> s[half].price
    BY <2>2 DEF MedianBy
  <2> QED
    BY <2>3, <2>4
<1>11. \A e \in F : \E j \in P : e = s[j]
  BY DEF Selected
<1>12. \A i \in P : \A e : e \in Before(i) <=> \E j \in P : j <= i /\ e = s[j]
  BY DEF Selected, UpTo
<1>13. \A i, j \in P : i <= j => s[i].price <= s[j].price
  BY <1>1
<1>14. \A i, j \in P : s[i] = s[j] => i = j
  BY <1>1
<1>15. \A i \in P : 2 * Weight(Before(i)) >= total => half <= i
  BY <1>8
<1>16. after \in SUBSET Nat /\ \A i : i \in after <=> i \in P /\ i > half
  BY <1>6
<1> HIDE DEF F, Before, Reached, half, after, total
<1>17. AtMost(F, p) \in SUBSET F /\ Before(half) \in SUBSET AtMost(F, p)
  BY <1>9, <1>12, <1>13 DEF AtMost
<1>18. /\ Weight(AtMost(F, p)) \in Nat /\ Weight(Before(half)) \in Nat
       /\ Weight(Before(half)) <= Weight(AtMost(F, p))
       /\ Before(half) # AtMost(F, p) => Weight(Before(half)) < Weight(AtMost(F, p))
  BY <1>4, <1>17
<1>19. ASSUME NEW q \in Halfway(F), ~(p <= q) PROVE FALSE
  <2>1. q \in Prices(F) /\ q \in Nat /\ q < p /\ 2 * Weight(AtMost(F, q)) >= total
    <3>1. q \in Prices(F) /\ 2 * Weight(AtMost(F, q)) >= total
      BY DEF Halfway, total
    <3>2. q \in Nat
      BY <1>3, <3>1, HalfwayExists
    <3> QED
      BY <1>9, <1>19, <3>1, <3>2
  <2> DEFINE J == {j \in P : s[j].price <= q}
  <2>2. J \in SUBSET Nat /\ J # {} /\ \A j \in J : j <= Len(s)
    <3>1. PICK j \in P : s[j].price = q
      BY <1>11, <2>1 DEF Prices
    <3>2. j \in J
      BY <2>1, <3>1
    <3>3. \A i \in P : i \in Nat /\ i <= Len(s)
      BY <1>1, <1>6
    <3> QED
      BY <3>2, <3>3
  <2>3. PICK last \in J : \A j \in J : j <= last
    BY <1>1, <2>2, GreatestNatural
  <2>4. AtMost(F, q) \in SUBSET Before(last)
    BY <1>11, <1>12, <2>3 DEF AtMost
  <2>5. Before(last) \in SUBSET F
    BY <1>6
  <2>6. Weight(AtMost(F, q)) <= Weight(Before(last)) /\ Weight(Before(last)) \in Nat
        /\ Weight(AtMost(F, q)) \in Nat
    BY <1>4, <2>4, <2>5
  <2>7. half <= last
    BY <1>5, <1>15, <2>1, <2>6
  <2>8. p <= s[last].price /\ s[last].price <= q /\ s[last].price \in Nat
    BY <1>6, <1>9, <1>13, <2>7
  <2> QED
    BY <1>9, <2>1, <2>8
<1>20. p = Min(Halfway(F))
  <2>1. p \in Halfway(F)
    BY <1>5, <1>9, <1>18 DEF Halfway, total
  <2>2. Halfway(F) \in SUBSET Nat
    BY <1>3, HalfwayExists DEF Halfway
  <2> QED
    BY <1>19, <2>1, <2>2, MinProperties
<1> DEFINE tied == 2 * Weight(AtMost(F, p)) = total /\ Above(F, p) # {}
<1>21. MedianOf(F, r) = IF tied /\ r = "below" THEN Min(Above(F, p))
                        ELSE IF tied /\ r = "exact" THEN (p + Min(Above(F, p))) \div 2
                        ELSE p
  BY <1>20 DEF MedianOf, Tied, total
<1> SUFFICES WeightedMedian(s, P, r) = MedianOf(F, r)
  BY DEF F
<1>22. CASE tie
  <2> DEFINE next == Min(after)
  <2>1. next \in after /\ \A i \in after : next <= i
    BY <1>16, <1>22, MinProperties
  <2>2. WeightedMedian(s, P, r) = IF r = "below" THEN s[next].price
                                  ELSE IF r = "exact" THEN (p + s[next].price) \div 2 ELSE p
    BY <1>10, <1>22
  <2> HIDE DEF next
  <2>3. next \in P /\ next > half /\ s[next].price \in Nat /\ p <= s[next].price
        /\ half \in Nat /\ next \in Nat
    <3>1. next \in P /\ next > half
      BY <1>16, <2>1
    <3>2. next \in Nat /\ half \in Nat /\ s[next].price \in Nat
      BY <1>6, <1>9, <3>1
    <3> QED
      BY <1>9, <1>13, <3>1, <3>2
  <2>4. CASE s[next].price = p
    <3>1. s[next] \in AtMost(F, p)
      BY <1>6, <1>9, <2>3, <2>4 DEF AtMost
    <3>2. s[next] \notin Before(half)
      BY <1>6, <1>9, <1>12, <1>14, <2>3
    <3>3. 2 * Weight(AtMost(F, p)) # total
      BY <1>18, <1>22, <3>1, <3>2
    <3>4. (p + p) \div 2 = p
      BY <1>9
    <3> QED
      BY <1>21, <2>2, <2>4, <3>3, <3>4
  <2>5. CASE s[next].price # p
    <3>1. \A j \in P : s[j].price <= p => ~(j > half)
      <4> SUFFICES ASSUME NEW j \in P, s[j].price <= p, j > half PROVE FALSE
        OBVIOUS
      <4>1. s[next].price <= s[j].price /\ s[j].price \in Nat
        BY <1>6, <1>13, <1>16, <2>1, <2>3
      <4> QED
        BY <1>9, <2>3, <2>5, <4>1
    <3>2. AtMost(F, p) = Before(half)
      <4>1. \A e \in AtMost(F, p) : e \in Before(half)
        BY <1>6, <1>9, <1>11, <1>12, <3>1 DEF AtMost
      <4> QED
        BY <1>17, <4>1
    <3>3. s[next].price \in Above(F, p)
      BY <1>6, <1>9, <2>3, <2>5 DEF Above, Prices
    <3>4. \A q \in Above(F, p) : s[next].price <= q
      <4> SUFFICES ASSUME NEW q \in Above(F, p) PROVE s[next].price <= q
        OBVIOUS
      <4>1. PICK j \in P : q = s[j].price /\ s[j].price > p
        BY <1>11 DEF Above, Prices
      <4>2. j > half
        BY <1>6, <1>9, <1>13, <4>1
      <4> QED
        BY <1>13, <1>16, <2>1, <2>3, <4>1, <4>2
    <3>5. Above(F, p) \in SUBSET Nat
      BY <1>3, HalfwayExists DEF Above
    <3>6. Min(Above(F, p)) = s[next].price
      BY <3>3, <3>4, <3>5, MinProperties
    <3> QED
      BY <1>21, <1>22, <2>2, <3>2, <3>3, <3>6
  <2> QED
    BY <2>4, <2>5
<1>23. CASE ~tie
  <2>1. WeightedMedian(s, P, r) = p
    BY <1>10, <1>23
  <2>2. 2 * Weight(Before(half)) # total
    <3> SUFFICES ASSUME 2 * Weight(Before(half)) = total, after = {} PROVE FALSE
      BY <1>23
    <3>1. \A j \in P : j <= half
      BY <1>6, <1>9, <1>16
    <3>2. Before(half) = F
      BY <1>9, <1>11, <1>12, <3>1
    <3>3. 2 * total = total
      BY <3>2 DEF total
    <3> QED
      BY <1>5, <3>3
  <2>3. 2 * Weight(AtMost(F, p)) # total
    BY <1>5, <1>9, <1>18, <2>2
  <2> QED
    BY <1>21, <2>1, <2>3
<1> QED
  BY <1>22, <1>23

-----------------------------------------------------------------------------
(* Orders exist, and agree on the prices *)

LEMMA OrderExists ==
    ASSUME NEW E, Weighed(E)
    PROVE  Orders(E) # {}
<1> DEFINE Good == {F \in SUBSET E : Orders(F) # {}}
<1>1. \A F \in SUBSET E : Weighed(F)
  BY FS_Subset DEF Weighed
<1>2. {} \in Good
  <2>1. <<>> \in [1..0 -> {}] /\ Len(<<>>) = 0 /\ Cardinality({}) = 0
    BY FS_EmptySet
  <2>2. <<>> \in Orders({})
    BY <2>1 DEF Orders, SetToSeqs
  <2> QED
    BY <2>2
<1>3. ASSUME NEW F \in SUBSET E, F # {}, \A x \in F : F \ {x} \in Good
      PROVE  F \in Good
  <2>1. PICK x \in F : \A e \in F : e.price <= x.price
    BY <1>1, <1>3, HighestEntry
  <2>2. PICK s : s \in Orders(F \ {x})
    BY <1>3
  <2> DEFINE n == Cardinality(F)
             t == [i \in 1..n |-> IF i = n THEN x ELSE s[i]]
  <2>3. n \in Nat /\ n > 0 /\ Cardinality(F \ {x}) = n - 1
    BY <1>1, <1>3, FS_CardinalityType, FS_EmptySet, FS_RemoveElement DEF Weighed
  <2>4. /\ Len(s) = n - 1 /\ \A i \in 1..n - 1 : s[i] \in F \ {x}
        /\ \A i, j \in 1..n - 1 : s[i] = s[j] => i = j
        /\ \A i, j \in 1..n - 1 : i <= j => s[i].price <= s[j].price
    <3>1. Weighed(F \ {x})
      BY <1>1
    <3> HIDE DEF n
    <3> QED
      BY <2>2, <2>3, <3>1, OrderProperties
  <2> HIDE DEF n
  <2>5. t \in [1..n -> F] /\ Len(t) = n
    BY <2>3, <2>4
  <2>6. \A i, j \in 1..n : i # j => t[i] # t[j]
    BY <2>3, <2>4
  <2>7. ASSUME NEW i \in 1..n - 1 PROVE t[i].price <= t[i + 1].price
    <3>1. CASE i + 1 = n
      BY <2>1, <2>3, <2>4, <3>1
    <3>2. CASE i + 1 # n
      BY <2>3, <2>4, <3>2
    <3> QED
      BY <3>1, <3>2
  <2> HIDE DEF t
  <2>8. t \in Orders(F)
    BY <2>5, <2>6, <2>7 DEF Orders, SetToSeqs, n
  <2> QED
    BY <2>8
<1>4. IsFiniteSet(E)
  BY DEF Weighed
<1> HIDE DEF Good
<1>5. \A S \in SUBSET E : S # {} /\ (\A x \in S : S \ {x} \in Good) => S \in Good
  BY <1>3
<1>6. \A S \in SUBSET E : S \in Good
  BY <1>2, <1>4, <1>5, FiniteInduction
<1> QED
  BY <1>6 DEF Good

LEMMA PrefixSize ==
    ASSUME NEW E, Weighed(E), NEW s \in Orders(E), NEW i \in 0..Len(s)
    PROVE  IsFiniteSet(Selected(s, 1..i)) /\ Cardinality(Selected(s, 1..i)) = i
<1> DEFINE f == [j \in 1..i |-> s[j]]
<1>1. i \in Nat /\ \A j \in 1..i : j \in 1..Len(s)
  BY OrderProperties
<1>2. \A j, k \in 1..i : s[j] = s[k] => j = k
  BY <1>1, OrderProperties
<1>3. f \in Bijection(1..i, Selected(s, 1..i))
  BY <1>2 DEF Bijection, Injection, Surjection, IsInjective, Selected
<1>4. ExistsBijection(1..i, Selected(s, 1..i))
  BY <1>3 DEF ExistsBijection
<1> QED
  BY <1>1, <1>4, FS_NatBijection, FS_CountingElements

\* However equal prices are arranged, the i-th price is the same.
LEMMA SamePrices ==
    ASSUME NEW E, Weighed(E), NEW s \in Orders(E), NEW t \in Orders(E), NEW i \in 1..Len(s)
    PROVE  s[i].price = t[i].price
<1>1. ASSUME NEW u \in Orders(E), NEW v \in Orders(E), u[i].price < v[i].price PROVE FALSE
  <2> DEFINE A == Selected(u, 1..i)
             B == Selected(v, 1..(i - 1))
  <2>1. /\ Len(u) = Cardinality(E) /\ Len(v) = Cardinality(E) /\ Len(s) = Cardinality(E)
        /\ Len(s) \in Nat
    BY OrderProperties
  <2>2. i \in 0..Len(u) /\ i - 1 \in 0..Len(v) /\ i \in Nat
    BY <2>1
  <2>3. Cardinality(A) = i /\ IsFiniteSet(B) /\ Cardinality(B) = i - 1
    BY <2>2, PrefixSize
  <2>4. ASSUME NEW j \in 1..i PROVE u[j] \in B
    <3>1. i \in 1..Len(u) /\ i \in 1..Len(v) /\ j \in 1..Len(u) /\ j <= i
      BY <2>1, <2>2
    <3>2. u[j] \in E /\ u[j].price <= u[i].price
      BY <3>1, OrderProperties
    <3>3. PICK k \in 1..Len(v) : v[k] = u[j]
      <4>1. \A e \in E : \E k \in 1..Len(v) : v[k] = e
        BY OrderProperties
      <4> QED
        BY <3>2, <4>1
    <3>4. u[j].price \in Nat /\ u[i].price \in Nat /\ v[i].price \in Nat
      BY <3>1, <3>2, OrderProperties DEF Weighed
    <3>5. ~(i <= k)
      <4> SUFFICES ASSUME i <= k PROVE FALSE
        OBVIOUS
      <4>1. v[i].price <= v[k].price
        BY <3>1, OrderProperties
      <4> QED
        BY <1>1, <3>2, <3>3, <3>4, <4>1
    <3>6. k \in 1..(i - 1)
      BY <2>1, <2>2, <3>5
    <3> QED
      BY <3>3, <3>6 DEF Selected
  <2>5. A \in SUBSET B
    BY <2>4 DEF Selected
  <2>6. Cardinality(A) <= Cardinality(B)
    BY <2>3, <2>5, FS_Subset
  <2> QED
    BY <2>2, <2>3, <2>6
<1>2. s[i] \in E /\ t[i] \in E
  BY OrderProperties
<1>3. s[i].price \in Nat /\ t[i].price \in Nat
  BY <1>2 DEF Weighed
<1> QED
  BY <1>1, <1>3

-----------------------------------------------------------------------------
(* The price as a function of the set of entries *)

Keep(E, F) == IF F = {} THEN E ELSE F

LEMMA Positions ==
    ASSUME NEW E, Weighed(E), E # {}, NEW s \in Orders(E), NEW P \in SUBSET (1..Len(s))
    PROVE  /\ Elements(s) = E /\ 1 \in 1..Len(s)
           /\ Selected(s, P) \in SUBSET E
           /\ Filtered(s, P) \in SUBSET (1..Len(s)) /\ Filtered(s, P) # {}
           /\ Selected(s, Filtered(s, P)) = Keep(E, Selected(s, P))
<1>1. /\ Len(s) \in Nat /\ \A i \in 1..Len(s) : s[i] \in E
      /\ \A e \in E : \E i \in 1..Len(s) : s[i] = e
  BY OrderProperties
<1>2. 1 \in 1..Len(s)
  BY <1>1
<1>3. Elements(s) = E
  BY <1>1 DEF Elements, Selected
<1>4. Selected(s, P) \in SUBSET E /\ (P = {} <=> Selected(s, P) = {})
  BY <1>1 DEF Selected
<1>5. CASE P = {}
  BY <1>2, <1>3, <1>4, <1>5 DEF Filtered, Keep, Elements
<1>6. CASE P # {}
  BY <1>2, <1>3, <1>4, <1>6 DEF Filtered, Keep
<1> QED
  BY <1>5, <1>6

SolePrice(E) == (CHOOSE e \in E : TRUE).price

NearOf(E, median) == Keep(E, {e \in E : Near(e.price, median)})

MedianPriceOf(E, ties) ==
    IF Cardinality(E) = 1 THEN SolePrice(E)
    ELSE IF MedianOf(E, ties.initial) = 0 THEN Panic
    ELSE MedianOf(NearOf(E, MedianOf(E, ties.initial)), ties.final)

LEMMA SoleEntry ==
    ASSUME NEW E, Weighed(E), Cardinality(E) = 1, NEW e \in E
    PROVE  E = {e} /\ SolePrice(E) = e.price
<1>1. PICK x : E = {x}
  BY FS_Singleton DEF Weighed
<1> QED
  BY <1>1 DEF SolePrice

LEMMA OrderLength ==
    ASSUME NEW E, Weighed(E), E # {}, NEW s \in Orders(E)
    PROVE  /\ Len(s) = Cardinality(E) /\ Len(s) \in Nat
           /\ Len(s) = 1 => s[1].price = SolePrice(E)
           /\ Len(s) # 1 => Len(s) > 1
<1>1. Len(s) = Cardinality(E) /\ Len(s) \in Nat
  BY OrderProperties
<1>2. Len(s) = 1 => s[1].price = SolePrice(E)
  <2> SUFFICES ASSUME Len(s) = 1 PROVE s[1].price = SolePrice(E)
    OBVIOUS
  <2>1. 1 \in 1..Len(s)
    OBVIOUS
  <2>2. s[1] \in E
    BY <2>1, OrderProperties
  <2> QED
    BY <1>1, <2>2, SoleEntry
<1>3. Cardinality(E) # 0
  BY FS_EmptySet DEF Weighed
<1> QED
  BY <1>1, <1>2, <1>3

\* The outlier test keeps the same entries in any order.
LEMMA KeptNear ==
    ASSUME NEW E, Weighed(E), E # {}, NEW s \in Orders(E), NEW median
    PROVE  /\ NearMedian(s, median) \in SUBSET (1..Len(s)) /\ NearMedian(s, median) # {}
           /\ Selected(s, NearMedian(s, median)) = NearOf(E, median)
<1> DEFINE near == {i \in 1..Len(s) : Near(s[i].price, median)}
<1>1. near \in SUBSET (1..Len(s))
  OBVIOUS
<1>2. Selected(s, near) = {e \in E : Near(e.price, median)}
  <2>1. \A i \in 1..Len(s) : s[i] \in E
    BY OrderProperties
  <2>2. \A e \in E : \E i \in 1..Len(s) : s[i] = e
    BY OrderProperties
  <2> QED
    BY <2>1, <2>2 DEF Selected
<1>3. NearMedian(s, median) = Filtered(s, near)
  BY DEF NearMedian
<1> HIDE DEF near
<1>4. /\ Filtered(s, near) \in SUBSET (1..Len(s)) /\ Filtered(s, near) # {}
      /\ Selected(s, Filtered(s, near)) = Keep(E, Selected(s, near))
  BY <1>1, Positions
<1> QED
  BY <1>2, <1>3, <1>4 DEF NearOf

\* The first median is taken of all entries.
LEMMA InitialMedian ==
    ASSUME NEW E, Weighed(E), E # {}, NEW s \in Orders(E), NEW r
    PROVE  WeightedMedian(s, 1..Len(s), r) = MedianOf(E, r)
<1>1. 1..Len(s) # {} /\ Selected(s, 1..Len(s)) = E
  BY Positions DEF Elements
<1>2. 1..Len(s) \in SUBSET (1..Len(s))
  OBVIOUS
<1> QED
  BY <1>1, <1>2, WeightedMedianOfSet

LEMMA MedianPriceOfSet ==
    ASSUME NEW E, Weighed(E), E # {}, NEW s \in Orders(E), NEW ties
    PROVE  MedianPrice(s, ties) = MedianPriceOf(E, ties)
<1> DEFINE median == WeightedMedian(s, 1..Len(s), ties.initial)
<1>1. median = MedianOf(E, ties.initial)
  BY InitialMedian
<1> HIDE DEF median
<1>2. WeightedMedian(s, NearMedian(s, median), ties.final)
        = MedianOf(NearOf(E, median), ties.final)
  <2>1. /\ NearMedian(s, median) \in SUBSET (1..Len(s)) /\ NearMedian(s, median) # {}
        /\ Selected(s, NearMedian(s, median)) = NearOf(E, median)
    BY KeptNear
  <2> QED
    BY <2>1, WeightedMedianOfSet
<1>3. MedianPrice(s, ties) =
         CASE Len(s) = 1 -> s[1].price
           [] Len(s) > 1 /\ median = 0 -> Panic
           [] OTHER -> WeightedMedian(s, NearMedian(s, median), ties.final)
  BY DEF MedianPrice, median
<1>4. CASE Len(s) = 1
  <2>1. MedianPrice(s, ties) = s[1].price
    BY <1>3, <1>4
  <2> QED
    BY <1>4, <2>1, OrderLength DEF MedianPriceOf
<1>5. CASE Len(s) # 1
  <2>1. MedianPrice(s, ties) =
           IF median = 0 THEN Panic ELSE WeightedMedian(s, NearMedian(s, median), ties.final)
    BY <1>3, <1>5, OrderLength
  <2>2. Cardinality(E) # 1
    BY <1>5, OrderLength
  <2> QED
    BY <1>1, <1>2, <2>1, <2>2 DEF MedianPriceOf
<1> QED
  BY <1>4, <1>5

\* Around the same median, what is within the sensitivity is the same.
Within(E, m) ==
    {e \in E : Square(Distance(e.price, m)) * Cardinality(E) * Square(SensitivityDen)
                   <= Square(SensitivityNum) * SquaredDeviations(E, m)}

AdaptivePriceOf(E, m, final, rounding) ==
    IF Cardinality(E) = 1 THEN SolePrice(E)
    ELSE IF final = "average" THEN WeightedAverage(Keep(E, Within(E, m)))
    ELSE MedianOf(Keep(E, Within(E, m)), rounding)

\* The adaptive filter keeps the same entries in any order with the same median.
LEMMA KeptWithin ==
    ASSUME NEW E, Weighed(E), E # {}, NEW s \in Orders(E)
    PROVE  /\ WithinThreshold(s) \in SUBSET (1..Len(s)) /\ WithinThreshold(s) # {}
           /\ Selected(s, WithinThreshold(s)) = Keep(E, Within(E, SimpleMedian(s)))
<1> DEFINE m == SimpleMedian(s)
           within == {i \in 1..Len(s) : WithinSensitivity(s[i].price, s, m)}
<1>1. WithinThreshold(s) = Filtered(s, within)
  BY DEF WithinThreshold
<1> HIDE DEF m
<1>2. Selected(s, within) = Within(E, m)
  <2>1. \A i \in 1..Len(s) : s[i] \in E
    BY OrderProperties
  <2>2. \A e \in E : \E i \in 1..Len(s) : s[i] = e
    BY OrderProperties
  <2>3. Len(s) = Cardinality(E) /\ Elements(s) = E
    BY OrderLength, Positions
  <2>4. \A e : WithinSensitivity(e.price, s, m) <=>
            Square(Distance(e.price, m)) * Cardinality(E) * Square(SensitivityDen)
               <= Square(SensitivityNum) * SquaredDeviations(E, m)
    BY <2>3 DEF WithinSensitivity
  <2> QED
    BY <2>1, <2>2, <2>4 DEF Selected, Within
<1>3. within \in SUBSET (1..Len(s))
  OBVIOUS
<1> HIDE DEF within
<1> QED
  BY <1>1, <1>2, <1>3, Positions DEF m

LEMMA AdaptivePriceOfSet ==
    ASSUME NEW E, Weighed(E), E # {}, NEW s \in Orders(E), NEW final \in {"average", "median"},
           NEW r
    PROVE  AdaptivePrice(s, final, r) = AdaptivePriceOf(E, SimpleMedian(s), final, r)
<1> DEFINE kept == Keep(E, Within(E, SimpleMedian(s)))
<1>1. Selected(s, WithinThreshold(s)) = kept
      /\ WeightedMedian(s, WithinThreshold(s), r) = MedianOf(kept, r)
  <2>1. /\ WithinThreshold(s) \in SUBSET (1..Len(s)) /\ WithinThreshold(s) # {}
        /\ Selected(s, WithinThreshold(s)) = kept
    BY KeptWithin
  <2> QED
    BY <2>1, WeightedMedianOfSet
<1>2. AdaptivePriceOf(E, SimpleMedian(s), final, r) =
         IF Cardinality(E) = 1 THEN SolePrice(E)
         ELSE IF final = "average" THEN WeightedAverage(kept) ELSE MedianOf(kept, r)
  BY DEF AdaptivePriceOf
<1> HIDE DEF kept
<1>3. AdaptivePrice(s, final, r) =
         CASE Len(s) = 1 -> s[1].price
           [] Len(s) > 1 /\ final = "average" -> WeightedAverage(Selected(s, WithinThreshold(s)))
           [] Len(s) > 1 /\ final = "median" -> WeightedMedian(s, WithinThreshold(s), r)
  BY DEF AdaptivePrice
<1>4. CASE Len(s) = 1
  <2>1. AdaptivePrice(s, final, r) = s[1].price
    BY <1>3, <1>4
  <2> QED
    BY <1>2, <1>4, <2>1, OrderLength
<1>5. CASE Len(s) # 1
  <2>1. Len(s) > 1 /\ Cardinality(E) # 1
    BY <1>5, OrderLength
  <2>2. AdaptivePrice(s, final, r) =
           IF final = "average" THEN WeightedAverage(Selected(s, WithinThreshold(s)))
           ELSE WeightedMedian(s, WithinThreshold(s), r)
    BY <1>3, <1>5, <2>1
  <2> QED
    BY <1>1, <1>2, <2>1, <2>2
<1> QED
  BY <1>4, <1>5

LEMMA SimpleMedianOfSet ==
    ASSUME NEW E, Weighed(E), E # {}, NEW s \in Orders(E), NEW t \in Orders(E)
    PROVE  SimpleMedian(s) = SimpleMedian(t)
<1> DEFINE n == Len(s)
<1>1. n \in Nat /\ n >= 1 /\ Len(t) = n
  BY OrderLength
<1>2. \A i \in 1..n : s[i].price = t[i].price
  BY SamePrices
<1> HIDE DEF n
<1>3. CASE n % 2 = 1
  <2>1. n \div 2 + 1 \in 1..n
    BY <1>1, <1>3
  <2> QED
    BY <1>1, <1>2, <1>3, <2>1 DEF SimpleMedian, n
<1>4. CASE n % 2 # 1
  <2>1. n \div 2 + 1 \in 1..n /\ n \div 2 \in 1..n
    BY <1>1, <1>4
  <2>2. s[n \div 2 + 1].price = t[n \div 2 + 1].price /\ s[n \div 2].price = t[n \div 2].price
    BY <1>2, <2>1
  <2> QED
    BY <1>1, <1>4, <2>2 DEF SimpleMedian, n
<1> QED
  BY <1>3, <1>4

LEMMA AverageIsNatural ==
    ASSUME NEW E, Weighed(E)
    PROVE  WeightedAverage(E) \in Nat
<1> DEFINE value == [e \in E |-> e.price * e.weight]
<1>1. SumFunction(value) \in Nat
  <2>1. Naturals(value, E) /\ DOMAIN value = E /\ IsFiniteSet(E)
    <3>1. \A e \in E : e.price * e.weight \in Nat
      BY DEF Weighed
    <3> QED
      BY <3>1 DEF Naturals, Weighed
  <2> HIDE DEF value
  <2> QED
    BY <2>1, SumElement DEF SumFunction
<1>2. Weight(E) \in Nat
  BY WeightOfPart
<1>3. WeightedAverage(E) = IF Weight(E) = 0 THEN 0 ELSE SumFunction(value) \div Weight(E)
  BY DEF WeightedAverage
<1> HIDE DEF value
<1> QED
  BY <1>1, <1>2, <1>3

LEMMA KeepsSome ==
    ASSUME NEW E, Weighed(E), E # {}, NEW F \in SUBSET E
    PROVE  Keep(E, F) \in SUBSET E /\ Keep(E, F) # {} /\ Weighed(Keep(E, F))
<1>1. Keep(E, F) \in SUBSET E /\ Keep(E, F) # {}
  BY DEF Keep
<1> QED
  BY <1>1, FS_Subset DEF Weighed

LEMMA SoleIsNatural ==
    ASSUME NEW E, Weighed(E), E # {}
    PROVE  SolePrice(E) \in Nat
<1>1. (CHOOSE e \in E : TRUE) \in E
  OBVIOUS
<1> QED
  BY <1>1 DEF SolePrice, Weighed

\* A price is a natural number unless the median of the entries is zero in
\* median mode, which takes half of the weight at zero.
LEMMA AggregatedType ==
    ASSUME NEW E, Weighed(E), E # {}, NEW s \in Orders(E), NEW m \in Modes,
           NEW ties
    PROVE  /\ Aggregated(m, s, ties) \in Nat \cup {Panic}
           /\ Aggregated(m, s, ties) = Panic =>
                 m = "median" /\ 2 * Weight(AtMost(E, 0)) >= Weight(E)
<1>1. CASE m = "median"
  <2>1. Aggregated(m, s, ties) = MedianPriceOf(E, ties)
    BY <1>1, MedianPriceOfSet DEF Aggregated
  <2> DEFINE first == MedianOf(E, ties.initial)
             near == {e \in E : Near(e.price, first)}
  <2>2. MedianOf(Keep(E, near), ties.final) \in Nat
    <3>1. near \in SUBSET E
      OBVIOUS
    <3> QED
      BY <3>1, KeepsSome, MedianIsNatural
  <2>3. SolePrice(E) \in Nat
    BY SoleIsNatural
  <2>4. \A n \in Nat : n # Panic
    BY DEF Panic
  <2>5. first = 0 => 2 * Weight(AtMost(E, 0)) >= Weight(E)
    BY MedianIsNatural
  <2>6. MedianPriceOf(E, ties) = IF Cardinality(E) = 1 THEN SolePrice(E)
                                 ELSE IF first = 0 THEN Panic
                                 ELSE MedianOf(Keep(E, near), ties.final)
    BY DEF MedianPriceOf, NearOf
  <2> HIDE DEF near, first
  <2> QED
    BY <1>1, <2>1, <2>2, <2>3, <2>4, <2>5, <2>6
<1>2. CASE m = "average"
  <2>1. Aggregated(m, s, ties) = WeightedAverage(E)
    BY <1>2, Positions DEF Aggregated
  <2> QED
    BY <2>1, AverageIsNatural DEF Panic
<1>3. ASSUME NEW final \in {"average", "median"}
      PROVE  AdaptivePrice(s, final, ties.final) \in Nat
  <2> DEFINE kept == Keep(E, Within(E, SimpleMedian(s)))
  <2>1. Within(E, SimpleMedian(s)) \in SUBSET E
    BY DEF Within
  <2>2. Weighed(kept) /\ kept # {}
    BY <2>1, KeepsSome
  <2>3. MedianOf(kept, ties.final) \in Nat /\ WeightedAverage(kept) \in Nat /\ SolePrice(E) \in Nat
    BY <2>2, MedianIsNatural, AverageIsNatural, SoleIsNatural
  <2> QED
    BY <2>3, AdaptivePriceOfSet DEF AdaptivePriceOf
<1>4. CASE m = "adaptive average" \/ m = "adaptive median"
  <2>1. \/ Aggregated(m, s, ties) = AdaptivePrice(s, "average", ties.final)
        \/ Aggregated(m, s, ties) = AdaptivePrice(s, "median", ties.final)
    BY <1>4 DEF Aggregated
  <2>2. Aggregated(m, s, ties) \in Nat
    BY <1>3, <2>1
  <2> QED
    BY <2>2 DEF Panic
<1> QED
  BY <1>1, <1>2, <1>4 DEF Modes

\* For the same roundings all orders give the same price.
LEMMA OrdersAgree ==
    ASSUME NEW E, Weighed(E), E # {}, NEW s \in Orders(E), NEW t \in Orders(E), NEW m \in Modes,
           NEW ties
    PROVE  Aggregated(m, s, ties) = Aggregated(m, t, ties)
<1>1. MedianPrice(s, ties) = MedianPrice(t, ties)
  BY MedianPriceOfSet
<1>2. Elements(s) = Elements(t)
  BY Positions
<1>3. \A final \in {"average", "median"} :
         AdaptivePrice(s, final, ties.final) = AdaptivePrice(t, final, ties.final)
  BY AdaptivePriceOfSet, SimpleMedianOfSet
<1> QED
  BY <1>1, <1>2, <1>3 DEF Aggregated, Modes

\* Where the weights are not in balance there is nothing to round.
LEMMA UnhalvedMedian ==
    ASSUME NEW F, Weighed(F), F # {}, ~Halved(F), NEW r, NEW q
    PROVE  MedianOf(F, r) = MedianOf(F, q)
<1> DEFINE p == Min(Halfway(F))
<1>1. p \in Prices(F)
  BY HalfwayExists DEF Halfway
<1>2. ~Tied(F, p)
  <2> SUFFICES ASSUME Tied(F, p) PROVE FALSE
    OBVIOUS
  <2> HIDE DEF p
  <2>1. \E e \in F : p < e.price
    <3>1. PICK x \in Above(F, p) : TRUE
      BY DEF Tied
    <3>2. PICK e \in F : x = e.price /\ x > p
      BY <3>1 DEF Above, Prices
    <3>3. x \in Nat /\ p \in Nat
      BY <1>1, <3>2 DEF Weighed, Prices
    <3> QED
      BY <3>2, <3>3
  <2>2. 2 * Weight({e \in F : e.price <= p}) = Weight(F)
    BY DEF Tied, AtMost
  <2> QED
    BY <1>1, <2>1, <2>2 DEF Halved, Prices
<1> QED
  BY <1>2 DEF MedianOf

\* Only balanced weights let the rounding show in a price.
LEMMA RoundingNeedsBalance ==
    ASSUME NEW E, Weighed(E), E # {}, NEW s \in Orders(E), NEW m \in Modes, ~Balanced(m, s),
           NEW ties, NEW others
    PROVE  Aggregated(m, s, ties) = Aggregated(m, s, others)
<1>1. CASE m = "median"
  <2> DEFINE first == MedianOf(E, "exact")
  <2>1. ~Halved(E) /\ ~Halved(NearOf(E, first))
    <3>1. Elements(s) = E /\ WeightedMedian(s, 1..Len(s), "exact") = first
      BY Positions, InitialMedian
    <3> HIDE DEF first
    <3>2. Selected(s, NearMedian(s, first)) = NearOf(E, first)
      BY KeptNear
    <3> QED
      BY <1>1, <3>1, <3>2 DEF Balanced
  <2>2. MedianOf(E, ties.initial) = first /\ MedianOf(E, others.initial) = first
    BY <2>1, UnhalvedMedian
  <2> HIDE DEF first
  <2>3. MedianOf(NearOf(E, first), ties.final) = MedianOf(NearOf(E, first), others.final)
    <3>1. {e \in E : Near(e.price, first)} \in SUBSET E
      OBVIOUS
    <3>2. Weighed(NearOf(E, first)) /\ NearOf(E, first) # {}
      BY <3>1, KeepsSome DEF NearOf
    <3> QED
      BY <2>1, <3>2, UnhalvedMedian
  <2>4. MedianPriceOf(E, ties) = MedianPriceOf(E, others)
    BY <2>2, <2>3 DEF MedianPriceOf
  <2> QED
    BY <1>1, <2>4, MedianPriceOfSet DEF Aggregated
<1>2. CASE m = "adaptive median"
  <2> DEFINE kept == Keep(E, Within(E, SimpleMedian(s)))
  <2>1. Weighed(kept) /\ kept # {} /\ ~Halved(kept)
    <3>1. Within(E, SimpleMedian(s)) \in SUBSET E
      BY DEF Within
    <3>2. Selected(s, WithinThreshold(s)) = kept
      BY KeptWithin
    <3> QED
      BY <1>2, <3>1, <3>2, KeepsSome DEF Balanced
  <2>2. MedianOf(kept, ties.final) = MedianOf(kept, others.final)
    BY <2>1, UnhalvedMedian
  <2>3. \A r : AdaptivePrice(s, "median", r) = AdaptivePriceOf(E, SimpleMedian(s), "median", r)
    BY AdaptivePriceOfSet
  <2> QED
    BY <1>2, <2>2, <2>3 DEF Aggregated, AdaptivePriceOf
<1>3. CASE m = "average"
  BY <1>3 DEF Aggregated
<1>4. CASE m = "adaptive average"
  <2>1. \A r, q : AdaptivePrice(s, "average", r) = AdaptivePrice(s, "average", q)
    BY AdaptivePriceOfSet DEF AdaptivePriceOf
  <2> QED
    BY <1>4, <2>1 DEF Aggregated
<1> QED
  BY <1>1, <1>2, <1>3, <1>4 DEF Modes

-----------------------------------------------------------------------------
(* Who decides the price *)

\* In median mode entries within 10% of each other and with more than half of the
\* weight pass the outlier test, so that they decide the second median too.
LEMMA MajorityDecidesPrice ==
    ASSUME NEW E, Weighed(E), NEW G \in SUBSET E, 2 * Weight(G) > Weight(E),
           NEW low \in Nat, NEW high \in Prices(G),
           \A g \in G : low <= g.price /\ g.price <= high,
           10 * (high - low) <= low, NEW ties, MedianPriceOf(E, ties) # Panic
    PROVE  MedianPriceOf(E, ties) \in low..high
<1>1. PICK h \in G : h.price = high
  BY DEF Prices
<1>2. high \in Nat
  BY <1>1 DEF Weighed
<1>3. CASE Cardinality(E) = 1
  <2>1. MedianPriceOf(E, ties) = high
    BY <1>1, <1>3, SoleEntry DEF MedianPriceOf
  <2>2. low <= high
    BY <1>1
  <2> QED
    BY <1>2, <2>1, <2>2
<1>4. CASE Cardinality(E) # 1
  <2> DEFINE m == MedianOf(E, ties.initial)
             near == {e \in E : Near(e.price, m)}
  <2>1. m \in low..high
    BY MajorityHoldsMedian
  <2>2. MedianPriceOf(E, ties) = MedianOf(Keep(E, near), ties.final)
    BY <1>4 DEF MedianPriceOf, NearOf
  <2> HIDE DEF m
  <2>3. ASSUME NEW g \in G PROVE Near(g.price, m)
    <3>1. low <= g.price /\ g.price <= high /\ g.price \in Nat /\ m \in Nat /\ low <= m /\ m <= high
      BY <2>1 DEF Weighed
    <3>2. Distance(g.price, m) \in Nat /\ Distance(g.price, m) <= high - low
      BY <1>2, <3>1 DEF Distance
    <3> HIDE DEF Distance
    <3> QED
      BY <1>2, <3>1, <3>2 DEF Near
  <2>4. near \in SUBSET E /\ G \in SUBSET near
    BY <2>3
  <2> HIDE DEF near
  <2>5. Keep(E, near) = near
    BY <1>1, <2>4 DEF Keep
  <2>6. Weighed(near)
    BY <2>4, FS_Subset DEF Weighed
  <2>7. Weight(near) <= Weight(E) /\ Weight(near) \in Nat /\ Weight(E) \in Nat /\ Weight(G) \in Nat
    BY <2>4, WeightOfPart
  <2>8. 2 * Weight(G) > Weight(near)
    BY <2>7
  <2>9. MedianOf(near, ties.final) \in low..high
    BY <2>4, <2>6, <2>8, MajorityHoldsMedian
  <2> QED
    BY <2>2, <2>5, <2>9
<1> QED
  BY <1>3, <1>4

\* Entries of one price have that price for average and median.
LEMMA SamePriceAggregated ==
    ASSUME NEW E, Weighed(E), E # {}, NEW c \in Nat, \A e \in E : e.price = c,
           NEW r
    PROVE  WeightedAverage(E) = c /\ MedianOf(E, r) = c
<1>1. Weight(E) \in Nat /\ Weight(E) > 0
  BY WeightOfPart
<1>2. MedianOf(E, r) = c
  <2>1. 2 * Weight(E) > Weight(E)
    BY <1>1
  <2>2. c \in Prices(E) /\ \A e \in E : c <= e.price /\ e.price <= c
    BY DEF Prices
  <2>3. MedianOf(E, r) \in c..c
    BY <2>1, <2>2, MajorityHoldsMedian
  <2> QED
    BY <2>3
<1>3. WeightedAverage(E) = c
  <2> DEFINE value == [e \in E |-> e.price * e.weight]
             w == [e \in E |-> e.weight]
  <2>1. IsFiniteSet(E) /\ Naturals(w, E) /\ \A e \in E : value[e] = c * w[e]
    BY DEF Weighed, Naturals
  <2>2. DOMAIN value = E /\ DOMAIN w = E
    OBVIOUS
  <2>3. WeightedAverage(E) = SumFunction(value) \div Weight(E) /\ Weight(E) = SumFunction(w)
    BY <1>1 DEF WeightedAverage, Weight
  <2> HIDE DEF value, w
  <2>4. SumFunctionOnSet(value, E) = c * SumFunctionOnSet(w, E)
    BY <2>1, SumLinear
  <2>5. SumFunction(value) = c * Weight(E)
    BY <2>2, <2>3, <2>4 DEF SumFunction
  <2>6. (c * Weight(E)) \div Weight(E) = c
    <3>1. \A a \in Nat, b \in Nat \ {0} : (a * b) \div b = a
      OBVIOUS
    <3> QED
      BY <1>1, <3>1
  <2> QED
    BY <2>3, <2>5, <2>6
<1> QED
  BY <1>2, <1>3

LEMMA LoneOutlierMedian ==
    ASSUME NEW E, Weighed(E), Cardinality(E) >= 3, NEW s \in Orders(E), NEW e \in E,
           NEW c \in Nat, \A f \in E \ {e} : f.price = c
    PROVE  SimpleMedian(s) = c
<1> DEFINE n == Len(s)
<1>1. n \in Nat /\ n >= 3
  BY OrderProperties
<1>2. PICK k \in 1..n : s[k] = e
  BY OrderProperties
<1>3. \A i, j \in 1..n : s[i] = s[j] => i = j
  BY OrderProperties
<1>4. \A i \in 1..n : s[i] \in E
  BY OrderProperties
<1>5. \A i, j \in 1..n : i <= j => s[i].price <= s[j].price
  BY OrderProperties
<1> HIDE DEF n
<1>6. \A i \in 1..n : i # k => s[i].price = c
  BY <1>2, <1>3, <1>4
<1>7. ASSUME NEW j \in 1..n, 1 < j, j < n PROVE s[j].price = c
  <2>1. CASE j # k
    BY <1>6, <2>1
  <2>2. CASE j = k
    <3>1. s[1].price = c /\ s[n].price = c
      BY <1>1, <1>6, <1>7, <2>2
    <3>2. s[1].price <= s[j].price /\ s[j].price <= s[n].price /\ s[j].price \in Nat
      BY <1>1, <1>4, <1>5, <1>7 DEF Weighed
    <3> QED
      BY <3>1, <3>2
  <2> QED
    BY <2>1, <2>2
<1>8. CASE n % 2 = 1
  <2>1. n \div 2 + 1 \in 1..n /\ 1 < n \div 2 + 1 /\ n \div 2 + 1 < n
    BY <1>1, <1>8
  <2>2. s[n \div 2 + 1].price = c
    BY <1>7, <2>1
  <2> QED
    BY <1>8, <2>2 DEF SimpleMedian, n
<1>9. CASE n % 2 # 1
  <2>1. /\ n \div 2 + 1 \in 1..n /\ 1 < n \div 2 + 1 /\ n \div 2 + 1 < n
        /\ n \div 2 \in 1..n /\ 1 < n \div 2 /\ n \div 2 < n
    BY <1>1, <1>9
  <2>2. s[n \div 2 + 1].price = c /\ s[n \div 2].price = c
    BY <1>7, <2>1
  <2>3. (c + c) \div 2 = c
    OBVIOUS
  <2> QED
    BY <1>9, <2>2, <2>3 DEF SimpleMedian, n
<1> QED
  BY <1>8, <1>9

\* One deviating price among three or more is further away than the sensitivity
\* allows, as it makes up the deviation all by itself.
LEMMA LoneOutlierPrice ==
    ASSUME NEW E, Weighed(E), Cardinality(E) >= 3, NEW s \in Orders(E), NEW e \in E,
           NEW c \in Nat, \A f \in E \ {e} : f.price = c,
           Square(SensitivityNum) < 3 * Square(SensitivityDen),
           NEW final \in {"average", "median"}, NEW r
    PROVE  AdaptivePrice(s, final, r) = c
<1> DEFINE d == Square(Distance(e.price, c))
           n == Cardinality(E)
           num == Square(SensitivityNum)
           den == Square(SensitivityDen)
           K == Within(E, c)
<1>1. n \in Nat /\ n >= 3 /\ IsFiniteSet(E) /\ e.price \in Nat
  BY FS_CardinalityType DEF Weighed
<1>2. num \in Nat /\ den \in Nat /\ num < 3 * den
  BY SensitivityAssumption DEF Square
<1>3. d \in Nat /\ (d = 0 => e.price = c)
  <2>1. Distance(e.price, c) \in Nat /\ (Distance(e.price, c) = 0 => e.price = c)
    BY <1>1 DEF Distance
  <2>2. \A x \in Nat : x * x \in Nat /\ (x * x = 0 => x = 0)
    OBVIOUS
  <2> QED
    BY <2>1, <2>2 DEF Square
<1>4. SimpleMedian(s) = c
  BY LoneOutlierMedian
<1>5. \A f \in E \ {e} : Square(Distance(f.price, c)) = 0
  BY DEF Square, Distance
<1>6. SquaredDeviations(E, c) = d
  <2> DEFINE dev == [f \in E |-> Square(Distance(f.price, c))]
  <2>1. DOMAIN dev = E /\ dev[e] = d /\ \A f \in E \ {e} : dev[f] = 0
    BY <1>5
  <2>2. SquaredDeviations(E, c) = SumFunction(dev)
    BY DEF SquaredDeviations
  <2> HIDE DEF dev, d
  <2>3. Naturals(dev, E) /\ Naturals(dev, E \ {e}) /\ IsFiniteSet(E \ {e})
    BY <1>1, <1>3, <2>1, FS_Subset DEF Naturals
  <2>4. SumFunctionOnSet(dev, E) = dev[e] + SumFunctionOnSet(dev, E \ {e})
    BY <1>1, <2>3, SumElement
  <2>5. SumFunctionOnSet(dev, E \ {e}) \in Nat
    BY <2>3, SumElement
  <2>6. SumFunctionOnSet(dev, E \ {e}) = 0 * SumFunctionOnSet(dev, E \ {e})
    BY <2>1, <2>3, SumLinear
  <2> QED
    BY <1>3, <2>1, <2>2, <2>4, <2>5, <2>6 DEF SumFunction
<1>7. K = {f \in E : Square(Distance(f.price, c)) * n * den <= num * d}
  BY <1>6 DEF Within
<1> HIDE DEF d, n, num, den
<1>8. E \ {e} \subseteq K
  <2>1. \A x \in Nat : 0 * n * den = 0 /\ num * d \in Nat
    BY <1>1, <1>2, <1>3
  <2>2. 0 * n * den <= num * d
    BY <2>1
  <2> QED
    BY <1>5, <1>7, <2>2
<1>9. e \in K => e.price = c
  <2> SUFFICES ASSUME d * n * den <= num * d, d # 0 PROVE FALSE
    BY <1>3, <1>7 DEF d
  <2>1. d * n * den = d * (n * den) /\ num * d = d * num
    BY <1>1, <1>2, <1>3
  <2>2. \A x, y \in Nat : d * x <= d * y => x <= y
    BY <1>3
  <2>3. n * den <= num
    BY <1>1, <1>2, <2>1, <2>2
  <2>4. 3 * den <= n * den
    <3>1. \A x, y, z \in Nat : x <= y => x * z <= y * z
      OBVIOUS
    <3> QED
      BY <1>1, <1>2, <3>1
  <2> QED
    BY <1>1, <1>2, <2>3, <2>4
<1>10. K \in SUBSET E /\ \A f \in K : f.price = c
  BY <1>7, <1>9
<1>11. K # {}
  <2>1. Cardinality(E \ {e}) = n - 1
    BY <1>1, FS_RemoveElement DEF n
  <2>2. E \ {e} # {}
    BY <1>1, <2>1, FS_EmptySet
  <2> QED
    BY <1>8, <2>2
<1>12. Weighed(K) /\ Keep(E, K) = K
  BY <1>10, <1>11, FS_Subset DEF Weighed, Keep
<1> HIDE DEF K
<1>13. WeightedAverage(K) = c /\ MedianOf(K, r) = c
  BY <1>10, <1>11, <1>12, SamePriceAggregated
<1>14. AdaptivePrice(s, final, r) = AdaptivePriceOf(E, c, final, r)
  BY <1>4, AdaptivePriceOfSet
<1> QED
  BY <1>1, <1>12, <1>13, <1>14 DEF AdaptivePriceOf, K, n

\* The same, with the agreement said as the property says it.
LEMMA LoneOutlierAgreed ==
    ASSUME NEW E, Weighed(E), Cardinality(E) >= 3, NEW s \in Orders(E), NEW e \in E,
           Cardinality({f.price : f \in E \ {e}}) = 1,
           Square(SensitivityNum) < 3 * Square(SensitivityDen),
           NEW final \in {"average", "median"}, NEW r
    PROVE  AdaptivePrice(s, final, r) \in {f.price : f \in E \ {e}}
<1> DEFINE others == {f.price : f \in E \ {e}}
<1>1. IsFiniteSet(others)
  <2> DEFINE f == [x \in E \ {e} |-> x.price]
  <2>1. f \in Surjection(E \ {e}, others)
    BY DEF Surjection
  <2>2. IsFiniteSet(E \ {e})
    BY FS_RemoveElement DEF Weighed
  <2> HIDE DEF others, f
  <2> QED
    BY <2>1, <2>2, FS_Surjection
<1>2. PICK c : others = {c}
  BY <1>1, FS_Singleton
<1>3. c \in Nat /\ \A f \in E \ {e} : f.price = c
  BY <1>2 DEF Weighed
<1> HIDE DEF others
<1>4. AdaptivePrice(s, final, r) = c
  BY <1>3, LoneOutlierPrice
<1> QED
  BY <1>2, <1>4 DEF others

\* What the two adaptive modes publish.
LEMMA AdaptiveModes ==
    ASSUME NEW m \in {"adaptive average", "adaptive median"}
    PROVE  \E final \in {"average", "median"} :
              \A s, ties : Aggregated(m, s, ties) = AdaptivePrice(s, final, ties.final)
  BY Zenon DEF Aggregated
-----------------------------------------------------------------------------
(* No price from nowhere *)

\* Median and average lie between the prices of the entries they are made of.
LEMMA MedianBetween ==
    ASSUME NEW F, Weighed(F), F # {}, NEW low \in Nat, NEW high \in Prices(F),
           \A e \in F : low <= e.price /\ e.price <= high, NEW r
    PROVE  MedianOf(F, r) \in low..high
<1>1. Weight(F) \in Nat /\ Weight(F) > 0
  BY WeightOfPart
<1>2. 2 * Weight(F) > Weight(F)
  BY <1>1
<1> QED
  BY <1>2, MajorityHoldsMedian

LEMMA AverageBetween ==
    ASSUME NEW F, Weighed(F), F # {}, NEW low \in Nat, NEW high \in Nat,
           \A e \in F : low <= e.price /\ e.price <= high
    PROVE  WeightedAverage(F) \in low..high
<1> DEFINE value == [e \in F |-> e.price * e.weight]
           w == [e \in F |-> e.weight]
           lowest == [e \in F |-> low * e.weight]
           highest == [e \in F |-> high * e.weight]
<1>1. Weight(F) \in Nat \ {0}
  <2>1. Weight(F) \in Nat /\ Weight(F) > 0
    BY WeightOfPart
  <2> QED
    BY <2>1
<1>2. WeightedAverage(F) = SumFunctionOnSet(value, F) \div Weight(F)
  <2>1. DOMAIN value = F
    OBVIOUS
  <2> QED
    BY <1>1, <2>1 DEF WeightedAverage, SumFunction
<1>3. Weight(F) = SumFunctionOnSet(w, F)
  <2>1. DOMAIN w = F
    OBVIOUS
  <2> QED
    BY <2>1 DEF Weight, SumFunction
<1>4. ASSUME NEW e \in F
      PROVE  /\ value[e] \in Nat /\ w[e] \in Nat /\ lowest[e] \in Nat /\ highest[e] \in Nat
             /\ lowest[e] = low * w[e] /\ highest[e] = high * w[e]
             /\ lowest[e] <= value[e] /\ value[e] <= highest[e]
  <2>1. e.price \in Nat /\ e.weight \in Nat /\ low <= e.price /\ e.price <= high
    BY DEF Weighed
  <2>2. \A a, b, c \in Nat : a * c \in Nat /\ (a <= b => a * c <= b * c)
    OBVIOUS
  <2> QED
    BY <2>1, <2>2
<1> HIDE DEF value, w, lowest, highest
<1>5. /\ IsFiniteSet(F) /\ Naturals(value, F) /\ Naturals(w, F)
      /\ Naturals(lowest, F) /\ Naturals(highest, F)
  BY <1>4 DEF Naturals, Weighed
<1>6. /\ SumFunctionOnSet(lowest, F) = low * Weight(F)
      /\ SumFunctionOnSet(highest, F) = high * Weight(F)
  BY <1>3, <1>4, <1>5, SumLinear
<1>7. /\ SumFunctionOnSet(lowest, F) <= SumFunctionOnSet(value, F)
      /\ SumFunctionOnSet(value, F) <= SumFunctionOnSet(highest, F)
  BY <1>4, <1>5, SumMonotone
<1>8. SumFunctionOnSet(value, F) \in Nat
  BY <1>5, SumElement
<1>9. \A a, b, v \in Nat, d \in Nat \ {0} :
         a * d <= v /\ v <= b * d => v \div d \in a..b
  OBVIOUS
<1> QED
  BY <1>1, <1>2, <1>6, <1>7, <1>8, <1>9

\* In every mode the price lies between the lowest and the highest entry.
LEMMA PriceBetween ==
    ASSUME NEW E, Weighed(E), E # {}, NEW s \in Orders(E), NEW m \in Modes,
           NEW ties, Aggregated(m, s, ties) # Panic
    PROVE  \E low, high \in E :
              low.price <= Aggregated(m, s, ties) /\ Aggregated(m, s, ties) <= high.price
<1>1. PICK top \in E : \A e \in E : e.price <= top.price
  BY HighestEntry
<1>2. \A e \in E : e.price \in Nat
  BY DEF Weighed
<1>3. PICK bottom \in E : \A e \in E : bottom.price <= e.price
  <2>1. Prices(E) \in SUBSET Nat /\ Prices(E) # {}
    BY <1>2 DEF Prices
  <2>2. PICK p \in Prices(E) : \A q \in Prices(E) : p <= q
    BY <2>1, LeastNatural
  <2> QED
    BY <2>2 DEF Prices
<1> DEFINE low == bottom.price
           high == top.price
           Good(price) == low <= price /\ price <= high
<1>4. ASSUME NEW F \in SUBSET E
      PROVE  (\A r : Good(MedianOf(Keep(E, F), r))) /\ Good(WeightedAverage(Keep(E, F)))
  <2> DEFINE K == Keep(E, F)
  <2>1. K \in SUBSET E /\ K # {} /\ Weighed(K)
    BY KeepsSome
  <2>2. PICK g \in K : \A e \in K : e.price <= g.price
    BY <2>1, HighestEntry
  <2> HIDE DEF K
  <2>3. /\ g.price \in Prices(K) /\ low \in Nat /\ high \in Nat /\ g.price \in Nat
        /\ g.price <= high
        /\ \A e \in K : low <= e.price /\ e.price <= g.price /\ e.price <= high
    BY <1>1, <1>2, <1>3, <2>1, <2>2 DEF Prices
  <2>4. (\A r : MedianOf(K, r) \in low..g.price) /\ WeightedAverage(K) \in low..high
    BY <2>1, <2>3, MedianBetween, AverageBetween
  <2>5. \A x : x \in low..g.price => Good(x)
    BY <2>3
  <2>6. \A x : x \in low..high => Good(x)
    BY <2>3
  <2> QED
    BY <2>4, <2>5, <2>6 DEF K
<1>5. Good(SolePrice(E))
  BY <1>1, <1>3 DEF SolePrice
<1>6. Good(WeightedAverage(E))
  <2>1. Keep(E, E) = E
    BY DEF Keep
  <2> QED
    BY <1>4, <2>1
<1> HIDE DEF Good
<1>7. m = "median" => Good(Aggregated(m, s, ties))
  <2> SUFFICES ASSUME m = "median" PROVE Good(Aggregated(m, s, ties))
    OBVIOUS
  <2>1. Aggregated(m, s, ties) = MedianPriceOf(E, ties)
    BY MedianPriceOfSet DEF Aggregated
  <2>2. {e \in E : Near(e.price, MedianOf(E, ties.initial))} \in SUBSET E
    OBVIOUS
  <2> QED
    BY <1>4, <1>5, <2>1, <2>2 DEF MedianPriceOf, NearOf
<1>8. m = "average" => Good(Aggregated(m, s, ties))
  <2> SUFFICES ASSUME m = "average" PROVE Good(Aggregated(m, s, ties))
    OBVIOUS
  <2>1. Aggregated(m, s, ties) = WeightedAverage(E)
    BY Positions DEF Aggregated
  <2> QED
    BY <1>6, <2>1
<1>9. ASSUME NEW final \in {"average", "median"} PROVE Good(AdaptivePrice(s, final, ties.final))
  <2>1. Within(E, SimpleMedian(s)) \in SUBSET E
    BY DEF Within
  <2> QED
    BY <1>4, <1>5, <2>1, AdaptivePriceOfSet DEF AdaptivePriceOf
<1>10. m \in {"adaptive average", "adaptive median"} => Good(Aggregated(m, s, ties))
  <2> SUFFICES ASSUME m \in {"adaptive average", "adaptive median"}
               PROVE  Good(Aggregated(m, s, ties))
    OBVIOUS
  <2>1. PICK final \in {"average", "median"} :
           Aggregated(m, s, ties) = AdaptivePrice(s, final, ties.final)
    BY AdaptiveModes
  <2> QED
    BY <1>9, <2>1
<1>11. Good(Aggregated(m, s, ties))
  BY <1>7, <1>8, <1>10, Zenon DEF Modes
<1>12. bottom.price <= Aggregated(m, s, ties) /\ Aggregated(m, s, ties) <= top.price
  BY <1>11 DEF Good
<1> HIDE DEF low, high
<1> QED
  BY <1>12, Zenon
=============================================================================

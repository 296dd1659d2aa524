----------------------------- MODULE FiniteFacts ----------------------------
(***************************************************************************)
(* Least and greatest elements of sets of naturals, for the minima and     *)
(* maxima the code takes over ids, counts and list positions, and what     *)
(* they give: induction along a list and over the subsets of a finite set, *)
(* and the sums of the community modules, whatever the order they take.    *)
(***************************************************************************)
EXTENDS Integers, Functions, FiniteSetTheorems, WellFoundedInduction, TLAPS

\* Every non-empty set of naturals has a least element: min() over player ids,
\* as in the succession of alliance leaders, is defined.
LEMMA LeastNatural ==
    ASSUME NEW S \in SUBSET Nat, S # {}
    PROVE  \E x \in S : \A y \in S : x <= y
<1> DEFINE R == OpToRel(<, Nat)
<1>1. IsWellFoundedOn(R, Nat)
    BY NatLessThanWellFounded
<1> HIDE DEF R
<1>2. PICK x \in S : \A y \in S : ~(<<y, x>> \in R)
    BY <1>1, WFMin, Zenon
<1>3. ASSUME NEW y \in S PROVE x <= y
    <2>1. ~(<<y, x>> \in R)
        BY <1>2
    <2>2. x \in Nat /\ y \in Nat
        OBVIOUS
    <2>3. ~(y < x)
        BY <2>1, <2>2 DEF R, OpToRel
    <2> QED BY <2>2, <2>3
<1> QED BY <1>3

\* A non-empty bounded set of naturals has a greatest element: max() over city
\* counts, and the last of the treaties found in a list, are defined.
LEMMA GreatestBoundedNatural ==
    ASSUME NEW N \in Nat, NEW S \in SUBSET (0..N), S # {}
    PROVE  \E x \in S : \A y \in S : y <= x
<1> DEFINE T == {N - x : x \in S}
<1>1. T \in SUBSET Nat /\ T # {}
    <2>1. ASSUME NEW x \in S PROVE N - x \in Nat
        <3>1. x \in 0..N
            OBVIOUS
        <3> QED BY <3>1
    <2> QED BY <2>1
<1>2. PICK t \in T : \A u \in T : t <= u
    <2> HIDE DEF T
    <2> QED BY <1>1, LeastNatural
<1>3. PICK x \in S : t = N - x
    OBVIOUS
<1>4. \A y \in S : N - x <= N - y
    BY <1>2, <1>3
<1>5. \A y \in S : y <= x
    BY <1>4
<1> QED BY <1>5

\* Induction along the positions of a list: what holds of 0 and goes from one to the next
\* holds up to the end.
LEMMA UpToInduction ==
    ASSUME NEW N \in Nat, NEW G, 0 \in G, \A n \in 0..(N - 1) : n \in G => n + 1 \in G
    PROVE  \A n \in 0..N : n \in G
<1> DEFINE bad == {n \in 0..N : n \notin G}
<1>1. SUFFICES ASSUME bad # {} PROVE FALSE
  OBVIOUS
<1>2. bad \in SUBSET Nat
  OBVIOUS
<1>3. PICK n \in bad : \A m \in bad : n <= m
  <2> HIDE DEF bad
  <2> QED BY <1>1, <1>2, LeastNatural
<1>4. n \in 1..N /\ n - 1 \notin bad
  BY <1>3
<1>5. n - 1 \in 0..(N - 1) /\ n - 1 \in G /\ (n - 1) + 1 = n
  BY <1>4
<1> QED BY <1>3, <1>5

\* Induction over the subsets of a finite set: what holds of a set once it holds of the set
\* without any one of its elements holds of all.
LEMMA SubsetInduction ==
    ASSUME NEW S, IsFiniteSet(S), NEW G,
           \A T \in SUBSET S : (\A x \in T : T \ {x} \in G) => T \in G
    PROVE  \A T \in SUBSET S : T \in G
<1> DEFINE bad == {T \in SUBSET S : T \notin G}
           sizes == {Cardinality(T) : T \in bad}
<1>1. SUFFICES ASSUME bad # {} PROVE FALSE
  OBVIOUS
<1>2. \A T \in SUBSET S : IsFiniteSet(T) /\ Cardinality(T) \in Nat
  BY FS_Subset, FS_CardinalityType
<1>3. sizes \in SUBSET Nat /\ sizes # {}
  BY <1>1, <1>2
<1>4. PICK n \in sizes : \A m \in sizes : n <= m
  <2> HIDE DEF sizes
  <2> QED BY <1>3, LeastNatural
<1>5. PICK T \in bad : Cardinality(T) = n
  BY <1>4
<1>6. ASSUME NEW x \in T PROVE T \ {x} \in G
  <2>1. Cardinality(T \ {x}) = Cardinality(T) - 1
    BY <1>2, <1>5, FS_RemoveElement
  <2>2. T \ {x} \in SUBSET S
    BY <1>5
  <2>3. T \ {x} \in bad => n <= n - 1
    BY <1>4, <1>5, <2>1
  <2> QED BY <1>2, <1>5, <2>2, <2>3
<1> QED BY <1>5, <1>6

-----------------------------------------------------------------------------
(* Sums: SumFunctionOnSet(f, S) takes the elements of S in some order.     *)

\* The element taken first.
First(s) == CHOOSE x \in s : TRUE
\* g adds up the values of f over every set of D, which is closed under taking out the first.
Adds(g, f, D) == g = [s \in D |-> IF s = {} THEN 0 ELSE f[First(s)] + g[s \ {First(s)}]]

LEMMA AddsExists ==
    ASSUME NEW f, NEW S, IsFiniteSet(S)
    PROVE  \E g : Adds(g, f, SUBSET S)
<1> DEFINE D(n) == {s \in SUBSET S : Cardinality(s) <= n}
           bad == {n \in Nat : ~\E g : Adds(g, f, D(n))}
<1>1. \A s \in SUBSET S : IsFiniteSet(s) /\ Cardinality(s) \in Nat /\ Cardinality(s) <= Cardinality(S)
  BY FS_Subset, FS_CardinalityType
<1>2. \A s \in SUBSET S : s # {} =>
          /\ First(s) \in s
          /\ Cardinality(s \ {First(s)}) = Cardinality(s) - 1
  BY <1>1, FS_RemoveElement DEF First
<1>3. 0 \notin bad
  <2>1. \A s \in D(0) : s = {}
    BY <1>1, FS_EmptySet
  <2> DEFINE g == [s \in D(0) |-> 0]
  <2>2. Adds(g, f, D(0))
    <3>1. \A s \in D(0) : (IF s = {} THEN 0 ELSE f[First(s)] + g[s \ {First(s)}]) = 0
      BY <2>1
    <3> HIDE DEF D
    <3>2. g = [s \in D(0) |-> IF s = {} THEN 0 ELSE f[First(s)] + g[s \ {First(s)}]]
      BY <3>1
    <3> QED BY <3>2 DEF Adds
  <2> HIDE DEF g
  <2> QED BY <2>2
<1>4. ASSUME NEW n \in Nat, n \notin bad PROVE n + 1 \notin bad
  <2>1. PICK g : Adds(g, f, D(n))
    BY <1>4
  <2> DEFINE h == [s \in D(n + 1) |-> IF s = {} THEN 0 ELSE f[First(s)] + g[s \ {First(s)}]]
  <2>2. \A s \in D(n + 1) : s # {} => s \ {First(s)} \in D(n)
    BY <1>1, <1>2
  <2>3. \A s \in D(n) : s \in D(n + 1)
    BY <1>1
  <2> HIDE DEF D
  <2>4. \A s \in D(n) : h[s] = g[s]
    BY <2>1, <2>3 DEF Adds
  <2>5. \A s \in D(n + 1) : h[s] = IF s = {} THEN 0 ELSE f[First(s)] + h[s \ {First(s)}]
    BY <2>2, <2>4
  <2>6. Adds(h, f, D(n + 1))
    <3> HIDE DEF h
    <3>1. h = [s \in D(n + 1) |-> h[s]]
      BY DEF h
    <3>2. [s \in D(n + 1) |-> h[s]] = [s \in D(n + 1) |-> IF s = {} THEN 0 ELSE f[First(s)] + h[s \ {First(s)}]]
      BY <2>5
    <3> QED BY <3>1, <3>2 DEF Adds
  <2> HIDE DEF h
  <2> QED BY <2>6
<1>5. bad = {}
  <2>1. SUFFICES ASSUME bad # {} PROVE FALSE
    OBVIOUS
  <2> HIDE DEF bad
  <2>2. bad \in SUBSET Nat
    BY DEF bad
  <2>3. PICK n \in bad : \A m \in bad : n <= m
    BY <2>1, <2>2, LeastNatural
  <2>4. n \in Nat /\ n # 0
    BY <1>3, <2>2
  <2>5. n - 1 \in Nat /\ n - 1 \notin bad
    BY <2>3, <2>4, <2>2
  <2> QED BY <1>4, <2>4, <2>5, <2>3
<1>6. Cardinality(S) \in Nat
  BY FS_CardinalityType
<1>7. D(Cardinality(S)) = SUBSET S
  BY <1>1
<1>8. \E g : Adds(g, f, D(Cardinality(S)))
  <2> HIDE DEF D
  <2> QED BY <1>5, <1>6
<1> QED BY <1>7, <1>8

AddsUp(g, f, S) == Adds(g, f, SUBSET S)

LEMMA SumAdds ==
    ASSUME NEW f, NEW S, IsFiniteSet(S)
    PROVE  \E g : AddsUp(g, f, S) /\ SumFunctionOnSet(f, S) = g[S]
<1> DEFINE iter == CHOOSE g : g = [s \in SUBSET S |-> IF s = {} THEN 0 ELSE f[CHOOSE x \in s : TRUE] + g[s \ {CHOOSE x \in s : TRUE}]]
<1>1. SumFunctionOnSet(f, S) = iter[S]
  BY DEF SumFunctionOnSet, FoldFunctionOnSet, MapThenFoldSet
<1>2. \E g : g = [s \in SUBSET S |-> IF s = {} THEN 0 ELSE f[CHOOSE x \in s : TRUE] + g[s \ {CHOOSE x \in s : TRUE}]]
  <2>1. PICK g : AddsUp(g, f, S)
    BY AddsExists DEF AddsUp
  <2>2. g = [s \in SUBSET S |-> IF s = {} THEN 0 ELSE f[First(s)] + g[s \ {First(s)}]]
    BY <2>1 DEF AddsUp, Adds
  <2>3. g = [s \in SUBSET S |-> IF s = {} THEN 0 ELSE f[CHOOSE x \in s : TRUE] + g[s \ {CHOOSE x \in s : TRUE}]]
    BY <2>2, Zenon DEF First
  <2> QED BY <2>3
<1>3. iter = [s \in SUBSET S |-> IF s = {} THEN 0 ELSE f[CHOOSE x \in s : TRUE] + iter[s \ {CHOOSE x \in s : TRUE}]]
  BY <1>2, Zenon
<1>4. AddsUp(iter, f, S)
  BY <1>3 DEF AddsUp, Adds, First
<1> QED BY <1>1, <1>4

LEMMA AddsAgree ==
    ASSUME NEW S, IsFiniteSet(S), NEW f, NEW e, NEW g, NEW h, NEW T, T \subseteq S,
           AddsUp(g, f, S), AddsUp(h, e, T), \A x \in T : f[x] = e[x]
    PROVE  \A U \in SUBSET T : g[U] = h[U]
<1> DEFINE G == {U \in SUBSET T : g[U] = h[U]}
<1>1. IsFiniteSet(T)
  BY FS_Subset
<1>2. ASSUME NEW U \in SUBSET T, \A x \in U : U \ {x} \in G PROVE U \in G
  <2>1. g[U] = IF U = {} THEN 0 ELSE f[First(U)] + g[U \ {First(U)}]
    BY DEF AddsUp, Adds
  <2>2. h[U] = IF U = {} THEN 0 ELSE e[First(U)] + h[U \ {First(U)}]
    BY DEF AddsUp, Adds
  <2>3. CASE U = {}
    BY <2>1, <2>2, <2>3
  <2>4. CASE U # {}
    <3>1. First(U) \in U /\ First(U) \in T
      BY <2>4 DEF First
    <3> QED BY <1>2, <2>1, <2>2, <2>4, <3>1
  <2> QED BY <2>3, <2>4
<1>3. \A U \in SUBSET T : U \in G
  <2> HIDE DEF G
  <2> QED BY <1>1, <1>2, SubsetInduction
<1> QED BY <1>3

LEMMA SumSame ==
    ASSUME NEW S, IsFiniteSet(S), NEW f, NEW e, \A x \in S : f[x] = e[x]
    PROVE  SumFunctionOnSet(f, S) = SumFunctionOnSet(e, S)
<1>1. PICK g : AddsUp(g, f, S) /\ SumFunctionOnSet(f, S) = g[S]
  BY SumAdds
<1>2. PICK h : AddsUp(h, e, S) /\ SumFunctionOnSet(e, S) = h[S]
  BY SumAdds
<1> QED BY <1>1, <1>2, AddsAgree

LEMMA SumEmpty == ASSUME NEW f PROVE SumFunctionOnSet(f, {}) = 0
<1>1. IsFiniteSet({})
  BY FS_EmptySet
<1>2. PICK g : AddsUp(g, f, {}) /\ SumFunctionOnSet(f, {}) = g[{}]
  BY <1>1, SumAdds
<1> QED BY <1>2 DEF AddsUp, Adds

LEMMA SumFirst ==
    ASSUME NEW S, IsFiniteSet(S), S # {}, NEW f
    PROVE  SumFunctionOnSet(f, S) = f[First(S)] + SumFunctionOnSet(f, S \ {First(S)})
<1>1. PICK T : T \subseteq S /\ T = S \ {First(S)}
  OBVIOUS
<1>2. IsFiniteSet(T)
  BY <1>1, FS_Subset
<1>3. PICK g : AddsUp(g, f, S) /\ SumFunctionOnSet(f, S) = g[S]
  BY SumAdds
<1>4. PICK h : AddsUp(h, f, T) /\ SumFunctionOnSet(f, T) = h[T]
  BY <1>2, SumAdds
<1>5. \A x \in T : f[x] = f[x]
  OBVIOUS
<1>6. \A U \in SUBSET T : g[U] = h[U]
  BY <1>1, <1>3, <1>4, <1>5, AddsAgree
<1>7. g[S] = f[First(S)] + g[T]
  BY <1>1, <1>3 DEF AddsUp, Adds
<1> QED BY <1>1, <1>3, <1>4, <1>6, <1>7

LEMMA SumType ==
    ASSUME NEW S, IsFiniteSet(S), NEW f, \A x \in S : f[x] \in Int
    PROVE  /\ SumFunctionOnSet(f, S) \in Int
           /\ (\A x \in S : f[x] >= 0) => SumFunctionOnSet(f, S) >= 0
<1> DEFINE Right(T) == /\ SumFunctionOnSet(f, T) \in Int
                       /\ (\A x \in T : f[x] >= 0) => SumFunctionOnSet(f, T) >= 0
           G == {T \in SUBSET S : Right(T)}
<1>1. ASSUME NEW T \in SUBSET S, \A x \in T : T \ {x} \in G PROVE T \in G
  <2>1. CASE T = {}
    BY <2>1, SumEmpty
  <2>2. CASE T # {}
    <3>1. First(T) \in T /\ First(T) \in S /\ IsFiniteSet(T)
      BY <2>2, FS_Subset DEF First
    <3>2. SumFunctionOnSet(f, T) = f[First(T)] + SumFunctionOnSet(f, T \ {First(T)})
      BY <2>2, <3>1, SumFirst
    <3>3. Right(T \ {First(T)})
      BY <1>1, <3>1
    <3>4. f[First(T)] \in Int
      BY <3>1
    <3>5. SumFunctionOnSet(f, T) \in Int
      BY <3>2, <3>3, <3>4
    <3>6. ASSUME \A x \in T : f[x] >= 0 PROVE SumFunctionOnSet(f, T) >= 0
      BY <3>1, <3>2, <3>3, <3>4, <3>6
    <3> QED BY <3>5, <3>6
  <2> QED BY <2>1, <2>2
<1>2. \A T \in SUBSET S : T \in G
  <2> HIDE DEF G
  <2> QED BY <1>1, SubsetInduction
<1>3. S \in G
  BY <1>2
<1> QED BY <1>3

\* The order in which a sum is taken does not matter.
LEMMA SumRemove ==
    ASSUME NEW S, IsFiniteSet(S), NEW f, \A x \in S : f[x] \in Int
    PROVE  \A x \in S : SumFunctionOnSet(f, S) = f[x] + SumFunctionOnSet(f, S \ {x})
<1> DEFINE Sum(T) == SumFunctionOnSet(f, T)
           Right(T) == \A x \in T : Sum(T) = f[x] + Sum(T \ {x})
           G == {T \in SUBSET S : Right(T)}
<1>1. \A T \in SUBSET S : IsFiniteSet(T) /\ Sum(T) \in Int
  <2>1. ASSUME NEW T \in SUBSET S PROVE IsFiniteSet(T) /\ Sum(T) \in Int
    <3>1. IsFiniteSet(T)
      BY FS_Subset
    <3>2. \A x \in T : f[x] \in Int
      OBVIOUS
    <3> QED BY <3>1, <3>2, SumType
  <2> QED BY <2>1
<1>2. ASSUME NEW T \in SUBSET S, \A x \in T : T \ {x} \in G PROVE T \in G
  <2>1. ASSUME NEW x \in T PROVE Sum(T) = f[x] + Sum(T \ {x})
    <3> DEFINE y == First(T)
    <3>1. y \in T /\ Sum(T) = f[y] + Sum(T \ {y})
      BY <1>1, <2>1, SumFirst DEF First
    <3>2. CASE x = y
      BY <3>1, <3>2
    <3>3. CASE x # y
      <4>0. T \ {y} \in G /\ T \ {x} \in G /\ x \in T \ {y} /\ y \in T \ {x}
        BY <1>2, <3>1, <3>3
      <4>1. Sum(T \ {y}) = f[x] + Sum((T \ {y}) \ {x})
        BY <4>0
      <4>2. Sum(T \ {x}) = f[y] + Sum((T \ {x}) \ {y})
        BY <4>0
      <4>3. (T \ {y}) \ {x} = (T \ {x}) \ {y}
        OBVIOUS
      <4>4. (T \ {x}) \ {y} \in SUBSET S
        OBVIOUS
      <4>5. f[x] \in Int /\ f[y] \in Int /\ Sum((T \ {x}) \ {y}) \in Int
        BY <1>1, <3>1, <4>4
      <4>6. Sum(T) = f[y] + (f[x] + Sum((T \ {x}) \ {y}))
        BY <3>1, <4>1, <4>3
      <4>7. \A a, b, c \in Int : a + (b + c) = b + (a + c)
        OBVIOUS
      <4>8. Sum(T) = f[x] + (f[y] + Sum((T \ {x}) \ {y}))
        <5> HIDE DEF Sum, y
        <5> QED BY <4>5, <4>6, <4>7
      <4> QED BY <4>2, <4>8
    <3> QED BY <3>2, <3>3
  <2> HIDE DEF Sum
  <2> QED BY <2>1
<1>3. \A T \in SUBSET S : T \in G
  <2> HIDE DEF G
  <2> QED BY <1>2, SubsetInduction
<1>4. S \in G
  BY <1>3
<1> QED BY <1>4

LEMMA SumMonotone ==
    ASSUME NEW S, IsFiniteSet(S), NEW f, NEW e,
           \A x \in S : f[x] \in Int /\ e[x] \in Int /\ f[x] <= e[x]
    PROVE  SumFunctionOnSet(f, S) <= SumFunctionOnSet(e, S)
<1> DEFINE Right(T) == SumFunctionOnSet(f, T) <= SumFunctionOnSet(e, T)
           G == {T \in SUBSET S : Right(T)}
<1>1. ASSUME NEW T \in SUBSET S, \A x \in T : T \ {x} \in G PROVE T \in G
  <2>1. CASE T = {}
    BY <2>1, SumEmpty
  <2>2. CASE T # {}
    <3> DEFINE y == First(T)
    <3>1. y \in T /\ y \in S /\ IsFiniteSet(T)
      BY <2>2, FS_Subset DEF First
    <3>2. \A h : SumFunctionOnSet(h, T) = h[y] + SumFunctionOnSet(h, T \ {y})
      BY <2>2, <3>1, SumFirst
    <3>3. Right(T \ {y})
      BY <1>1, <3>1
    <3>4. IsFiniteSet(T \ {y}) /\ \A x \in T \ {y} : x \in S
      BY <3>1, FS_Subset
    <3>5. SumFunctionOnSet(f, T \ {y}) \in Int /\ f[y] \in Int
      BY <3>1, <3>4, SumType
    <3>6. SumFunctionOnSet(e, T \ {y}) \in Int /\ e[y] \in Int
      BY <3>1, <3>4, SumType
    <3> HIDE DEF y
    <3>9. Right(T)
      <4>1. f[y] <= e[y]
        BY <3>1
      <4> QED BY <3>2, <3>3, <3>5, <3>6, <4>1
    <3> QED BY <3>9
  <2> QED BY <2>1, <2>2
<1>2. \A T \in SUBSET S : T \in G
  <2> HIDE DEF G
  <2> QED BY <1>1, SubsetInduction
<1>3. S \in G
  BY <1>2
<1> QED BY <1>3

LEMMA SumPlus ==
    ASSUME NEW S, IsFiniteSet(S), NEW f, NEW e, NEW d,
           \A x \in S : f[x] \in Int /\ e[x] \in Int /\ d[x] = f[x] + e[x]
    PROVE  SumFunctionOnSet(d, S) = SumFunctionOnSet(f, S) + SumFunctionOnSet(e, S)
<1> DEFINE Right(T) == SumFunctionOnSet(d, T) = SumFunctionOnSet(f, T) + SumFunctionOnSet(e, T)
           G == {T \in SUBSET S : Right(T)}
<1>1. ASSUME NEW T \in SUBSET S, \A x \in T : T \ {x} \in G PROVE T \in G
  <2>1. CASE T = {}
    BY <2>1, SumEmpty
  <2>2. CASE T # {}
    <3> DEFINE y == First(T)
    <3>1. y \in T /\ y \in S /\ IsFiniteSet(T)
      BY <2>2, FS_Subset DEF First
    <3>2. \A h : SumFunctionOnSet(h, T) = h[y] + SumFunctionOnSet(h, T \ {y})
      BY <2>2, <3>1, SumFirst
    <3>3. Right(T \ {y})
      BY <1>1, <3>1
    <3>4. IsFiniteSet(T \ {y}) /\ \A x \in T \ {y} : x \in S
      BY <3>1, FS_Subset
    <3>5. SumFunctionOnSet(f, T \ {y}) \in Int /\ f[y] \in Int
      BY <3>1, <3>4, SumType
    <3>6. SumFunctionOnSet(e, T \ {y}) \in Int /\ e[y] \in Int
      BY <3>1, <3>4, SumType
    <3> HIDE DEF y
    <3>9. Right(T)
      <4>1. d[y] = f[y] + e[y]
        BY <3>1
      <4> QED BY <3>2, <3>3, <3>5, <3>6, <4>1
    <3> QED BY <3>9
  <2> QED BY <2>1, <2>2
<1>2. \A T \in SUBSET S : T \in G
  <2> HIDE DEF G
  <2> QED BY <1>1, SubsetInduction
<1>3. S \in G
  BY <1>2
<1> QED BY <1>3

LEMMA SumTimes ==
    ASSUME NEW S, IsFiniteSet(S), NEW k \in Int, NEW f, NEW e,
           \A x \in S : f[x] \in Int /\ e[x] = k * f[x]
    PROVE  SumFunctionOnSet(e, S) = k * SumFunctionOnSet(f, S)
<1> DEFINE Right(T) == SumFunctionOnSet(e, T) = k * SumFunctionOnSet(f, T)
           G == {T \in SUBSET S : Right(T)}
<1>1. ASSUME NEW T \in SUBSET S, \A x \in T : T \ {x} \in G PROVE T \in G
  <2>1. CASE T = {}
    BY <2>1, SumEmpty
  <2>2. CASE T # {}
    <3> DEFINE y == First(T)
    <3>1. y \in T /\ y \in S /\ IsFiniteSet(T)
      BY <2>2, FS_Subset DEF First
    <3>2. \A h : SumFunctionOnSet(h, T) = h[y] + SumFunctionOnSet(h, T \ {y})
      BY <2>2, <3>1, SumFirst
    <3>3. Right(T \ {y})
      BY <1>1, <3>1
    <3>4. IsFiniteSet(T \ {y}) /\ \A x \in T \ {y} : x \in S
      BY <3>1, FS_Subset
    <3>5. SumFunctionOnSet(f, T \ {y}) \in Int /\ f[y] \in Int
      BY <3>1, <3>4, SumType
    <3> HIDE DEF y
    <3>9. Right(T)
      <4>1. e[y] = k * f[y]
        BY <3>1
      <4>2. \A a, b \in Int : k * a + k * b = k * (a + b)
        OBVIOUS
      <4>3. SumFunctionOnSet(e, T) = k * f[y] + k * SumFunctionOnSet(f, T \ {y})
        BY <3>2, <3>3, <4>1
      <4>4. SumFunctionOnSet(f, T) = f[y] + SumFunctionOnSet(f, T \ {y})
        BY <3>2
      <4> QED BY <3>5, <4>2, <4>3, <4>4
    <3> QED BY <3>9
  <2> QED BY <2>1, <2>2
<1>2. \A T \in SUBSET S : T \in G
  <2> HIDE DEF G
  <2> QED BY <1>1, SubsetInduction
<1>3. S \in G
  BY <1>2
<1> QED BY <1>3

\* A sum of ones counts.
LEMMA SumCounts ==
    ASSUME NEW S, IsFiniteSet(S), NEW K, NEW f,
           \A x \in S : f[x] = IF x \in K THEN 1 ELSE 0
    PROVE  SumFunctionOnSet(f, S) = Cardinality(S \cap K)
<1> DEFINE Right(T) == SumFunctionOnSet(f, T) = Cardinality(T \cap K)
           G == {T \in SUBSET S : Right(T)}
<1>1. ASSUME NEW T \in SUBSET S, \A x \in T : T \ {x} \in G PROVE T \in G
  <2>1. CASE T = {}
    BY <2>1, SumEmpty, FS_EmptySet
  <2>2. CASE T # {}
    <3> DEFINE y == First(T)
    <3>1. y \in T /\ y \in S /\ IsFiniteSet(T)
      BY <2>2, FS_Subset DEF First
    <3>2. \A h : SumFunctionOnSet(h, T) = h[y] + SumFunctionOnSet(h, T \ {y})
      BY <2>2, <3>1, SumFirst
    <3>3. Right(T \ {y})
      BY <1>1, <3>1
    <3>4. IsFiniteSet(T \ {y}) /\ \A x \in T \ {y} : x \in S
      BY <3>1, FS_Subset
    <3>5. IsFiniteSet(T \cap K) /\ Cardinality(T \cap K) \in Nat
      BY <3>1, FS_Subset, FS_CardinalityType
    <3> HIDE DEF y
    <3>9. Right(T)
      <4>1. CASE y \in K
        <5>1. (T \ {y}) \cap K = (T \cap K) \ {y}
          OBVIOUS
        <5>2. Cardinality((T \cap K) \ {y}) = Cardinality(T \cap K) - 1
          BY <3>1, <3>5, <4>1, FS_RemoveElement
        <5>3. f[y] = 1
          BY <3>1, <4>1
        <5>4. SumFunctionOnSet(f, T \ {y}) = Cardinality((T \cap K) \ {y})
          BY <3>3, <5>1, Zenon
        <5>5. SumFunctionOnSet(f, T) = 1 + SumFunctionOnSet(f, T \ {y})
          BY <3>2, <5>3
        <5> QED BY <3>5, <5>2, <5>4, <5>5
      <4>2. CASE y \notin K
        <5>1. (T \ {y}) \cap K = T \cap K
          BY <4>2
        <5>2. f[y] = 0
          BY <3>1, <4>2
        <5> QED BY <3>2, <3>3, <3>5, <5>1, <5>2
      <4> QED BY <4>1, <4>2
    <3> QED BY <3>9
  <2> QED BY <2>1, <2>2
<1>2. \A T \in SUBSET S : T \in G
  <2> HIDE DEF G
  <2> QED BY <1>1, SubsetInduction
<1>3. S \in G
  BY <1>2
<1> QED BY <1>3

\* Along a list: the sum of a list with one more element.
LEMMA SumAppend ==
    ASSUME NEW n \in Nat, NEW f, \A i \in 1..(n + 1) : f[i] \in Int
    PROVE  SumFunctionOnSet(f, 1..(n + 1)) = SumFunctionOnSet(f, 1..n) + f[n + 1]
<1>1. IsFiniteSet(1..(n + 1)) /\ IsFiniteSet(1..n)
  BY FS_Interval
<1>2. (1..(n + 1)) \ {n + 1} = 1..n
  OBVIOUS
<1>3. SumFunctionOnSet(f, 1..(n + 1)) = f[n + 1] + SumFunctionOnSet(f, (1..(n + 1)) \ {n + 1})
  BY <1>1, SumRemove
<1>4. SumFunctionOnSet(f, 1..n) \in Int /\ f[n + 1] \in Int
  BY <1>1, SumType
<1>5. SumFunctionOnSet(f, 1..(n + 1)) = f[n + 1] + SumFunctionOnSet(f, 1..n)
  BY <1>2, <1>3, Zenon
<1> QED BY <1>4, <1>5

-----------------------------------------------------------------------------
(* Rankings.                                                               *)

\* ahead[x] are the elements before x in a strict total order of a set.
Ranks(ahead, S) ==
    /\ \A x \in S : ahead[x] \subseteq S /\ x \notin ahead[x]
    /\ \A x, y \in S : y \in ahead[x] => ahead[y] \subseteq ahead[x]
    /\ \A x, y \in S : x # y => x \in ahead[y] \/ y \in ahead[x]

\* In a ranking of a finite set every element has a place, and every place an element.
LEMMA RankPlaces ==
    ASSUME NEW S, IsFiniteSet(S), NEW ahead, Ranks(ahead, S)
    PROVE  /\ \A x \in S : Cardinality(ahead[x]) \in 0..(Cardinality(S) - 1)
           /\ \A x, y \in S : x \in ahead[y] => Cardinality(ahead[x]) < Cardinality(ahead[y])
           /\ \A n \in 0..(Cardinality(S) - 1) : \E x \in S : Cardinality(ahead[x]) = n
<1> DEFINE N == Cardinality(S)
           R == 0..(N - 1)
           r == [x \in S |-> Cardinality(ahead[x])]
<1>1. N \in Nat /\ IsFiniteSet(R) /\ Cardinality(R) = N
  <2>1. N \in Nat
    BY FS_CardinalityType
  <2> HIDE DEF N
  <2>2. 0 \in Int /\ N - 1 \in Int
    BY <2>1
  <2>3. IsFiniteSet(R) /\ Cardinality(R) = IF 0 > N - 1 THEN 0 ELSE (N - 1) - 0 + 1
    BY <2>2, FS_Interval
  <2> QED BY <2>1, <2>3
<1>2. ASSUME NEW x \in S
      PROVE  IsFiniteSet(ahead[x]) /\ r[x] = Cardinality(ahead[x]) /\ r[x] \in Nat /\ r[x] < N
  <2> DEFINE A == ahead[x]
  <2>1. A \subseteq S /\ A # S
    BY DEF Ranks
  <2> HIDE DEF A
  <2>2. IsFiniteSet(A) /\ Cardinality(A) <= Cardinality(S) /\ Cardinality(A) # Cardinality(S)
    BY <2>1, FS_Subset
  <2>3. Cardinality(A) \in Nat
    BY <2>2, FS_CardinalityType
  <2>4. r[x] = Cardinality(A)
    BY DEF A
  <2> QED BY <1>1, <2>2, <2>3, <2>4 DEF A
<1>3. ASSUME NEW x \in S, NEW y \in S, x \in ahead[y] PROVE r[x] < r[y]
  <2> DEFINE A == ahead[x]
             B == ahead[y]
  <2>1. A \subseteq B /\ A # B
    BY <1>3 DEF Ranks
  <2>2. IsFiniteSet(B) /\ r[x] = Cardinality(A) /\ r[y] = Cardinality(B) /\ r[x] \in Nat /\ r[y] \in Nat
    BY <1>2
  <2> HIDE DEF A, B, r
  <2>3. Cardinality(A) <= Cardinality(B) /\ Cardinality(A) # Cardinality(B)
    BY <2>1, <2>2, FS_Subset
  <2> QED BY <2>2, <2>3
<1>4. \A x, y \in S : x # y => r[x] # r[y]
  <2> HIDE DEF r
  <2>1. ASSUME NEW x \in S, NEW y \in S, x # y PROVE r[x] # r[y]
    <3>1. x \in ahead[y] \/ y \in ahead[x]
      BY <2>1 DEF Ranks
    <3>2. r[x] \in Nat /\ r[y] \in Nat
      BY <1>2
    <3> QED BY <1>3, <3>1, <3>2
  <2> QED BY <2>1
<1>5. r \in Injection(S, R)
  <2>1. r \in [S -> R]
    BY <1>1, <1>2
  <2> HIDE DEF R
  <2>2. DOMAIN r = S
    OBVIOUS
  <2> HIDE DEF r
  <2> QED BY <1>4, <2>1, <2>2 DEF Injection, IsInjective
<1>6. r \in Surjection(S, R)
  <2> HIDE DEF r, R
  <2> QED BY <1>1, <1>5, FS_Injection
<1>7. \A n \in R : \E x \in S : r[x] = n
  <2> HIDE DEF r, R
  <2> QED BY <1>6 DEF Surjection
<1>8. \A x \in S : r[x] = Cardinality(ahead[x]) /\ r[x] \in R
  BY <1>1, <1>2
<1>9. \A x, y \in S : x \in ahead[y] => r[x] < r[y]
  BY <1>3
<1> HIDE DEF r
<1> QED BY <1>7, <1>8, <1>9 DEF R, N

\* In a ranking of a finite set, k elements have fewer than k before them.
LEMMA RankCounts ==
    ASSUME NEW S, IsFiniteSet(S), NEW ahead, Ranks(ahead, S), NEW k \in Nat, k <= Cardinality(S)
    PROVE  Cardinality({x \in S : Cardinality(ahead[x]) < k}) = k
<1> DEFINE N == Cardinality(S)
           R == 0..(N - 1)
           r == [x \in S |-> Cardinality(ahead[x])]
           first == {x \in S : r[x] < k}
           q == [x \in first |-> r[x]]
<1>1. N \in Nat
  BY FS_CardinalityType
<1>2. /\ \A x \in S : Cardinality(ahead[x]) \in R
      /\ \A x, y \in S : x \in ahead[y] => Cardinality(ahead[x]) < Cardinality(ahead[y])
      /\ \A n \in R : \E x \in S : Cardinality(ahead[x]) = n
  BY RankPlaces
<1>3. \A x \in S : r[x] = Cardinality(ahead[x]) /\ r[x] \in R
  BY <1>2
<1>4. \A x, y \in S : x # y => r[x] # r[y]
  <2> SUFFICES ASSUME NEW x \in S, NEW y \in S, x # y PROVE r[x] # r[y]
    OBVIOUS
  <2>1. x \in ahead[y] \/ y \in ahead[x]
    BY DEF Ranks
  <2>2. r[x] < r[y] \/ r[y] < r[x]
    BY <1>2, <1>3, <2>1
  <2> QED BY <1>1, <1>3, <2>2
<1>7. \A n \in R : \E x \in S : r[x] = n
  BY <1>2
<1> HIDE DEF r
<1>8. q \in [first -> 0..(k - 1)] /\ \A x \in first : q[x] = r[x]
  BY <1>1, <1>3
<1>9. q \in Injection(first, 0..(k - 1))
  <2>1. DOMAIN q = first
    OBVIOUS
  <2>2. \A x, y \in first : q[x] = q[y] => x = y
    BY <1>4
  <2> HIDE DEF q, first
  <2> QED BY <1>8, <2>1, <2>2 DEF Injection, IsInjective
<1>10. ASSUME NEW n \in 0..(k - 1) PROVE \E x \in first : q[x] = n
  <2>1. n \in R
    BY <1>1
  <2>2. PICK x \in S : r[x] = n
    BY <1>7, <2>1
  <2>3. x \in first
    BY <2>2
  <2> QED BY <2>2, <2>3
<1> HIDE DEF q, first
<1>11. q \in Surjection(first, 0..(k - 1))
  BY <1>8, <1>10 DEF Surjection
<1>12. IsFiniteSet(0..(k - 1)) /\ Cardinality(0..(k - 1)) = k
  <2>1. 0 \in Int /\ k - 1 \in Int
    OBVIOUS
  <2>2. IsFiniteSet(0..(k - 1)) /\ Cardinality(0..(k - 1)) = IF 0 > k - 1 THEN 0 ELSE (k - 1) - 0 + 1
    BY <2>1, FS_Interval
  <2> QED BY <2>2
<1>13. Cardinality(first) = k
  BY <1>9, <1>11, <1>12, FS_Injection
<1>14. first = {x \in S : Cardinality(ahead[x]) < k}
  BY DEF first, r
<1> QED BY <1>13, <1>14

\* Places and elements again: a ranked set can be listed in its order.
LEMMA RankedList ==
    ASSUME NEW S, IsFiniteSet(S), NEW ahead, Ranks(ahead, S)
    PROVE  \E s \in [1..Cardinality(S) -> S] :
               \A i, j \in 1..Cardinality(S) : i < j => s[i] \in ahead[s[j]]
<1> DEFINE N == Cardinality(S)
           at(i) == CHOOSE x \in S : Cardinality(ahead[x]) = i - 1
           s == [i \in 1..N |-> at(i)]
<1>1. N \in Nat
  BY FS_CardinalityType
<1>2. /\ \A x, y \in S : x \in ahead[y] => Cardinality(ahead[x]) < Cardinality(ahead[y])
      /\ \A n \in 0..(N - 1) : \E x \in S : Cardinality(ahead[x]) = n
  BY RankPlaces
<1> HIDE DEF N
<1>3. ASSUME NEW i \in 1..N PROVE s[i] \in S /\ Cardinality(ahead[s[i]]) = i - 1
  <2>1. i - 1 \in 0..(N - 1)
    BY <1>1
  <2>2. \E x \in S : Cardinality(ahead[x]) = i - 1
    BY <1>2, <2>1
  <2>3. at(i) \in S /\ Cardinality(ahead[at(i)]) = i - 1
    BY <2>2
  <2> QED BY <2>3
<1>4. s \in [1..N -> S]
  BY <1>3
<1> HIDE DEF s
<1>5. ASSUME NEW i \in 1..N, NEW j \in 1..N, i < j PROVE s[i] \in ahead[s[j]]
  <2>1. s[i] \in S /\ s[j] \in S /\ Cardinality(ahead[s[i]]) = i - 1 /\ Cardinality(ahead[s[j]]) = j - 1
    BY <1>3
  <2>2. s[i] # s[j] /\ s[j] \notin ahead[s[i]]
    BY <1>1, <1>2, <1>5, <2>1
  <2> QED BY <2>1, <2>2 DEF Ranks
<1> QED BY <1>4, <1>5 DEF N

\* A list of a set: every element of S once, and all of them.
Lists(s, S) ==
    /\ s \in [1..Cardinality(S) -> S]
    /\ \A i, j \in 1..Cardinality(S) : s[i] = s[j] => i = j
    /\ \A x \in S : \E i \in 1..Cardinality(S) : s[i] = x

\* A list in the order of a ranking has every element once.
LEMMA ListHasAll ==
    ASSUME NEW S, IsFiniteSet(S), NEW ahead, Ranks(ahead, S),
           NEW s \in [1..Cardinality(S) -> S],
           \A i, j \in 1..Cardinality(S) : i < j => s[i] \in ahead[s[j]]
    PROVE  Lists(s, S)
<1> DEFINE N == Cardinality(S)
<1>1. N \in Nat /\ IsFiniteSet(1..N) /\ Cardinality(1..N) = N
  <2>1. N \in Nat
    BY FS_CardinalityType
  <2> HIDE DEF N
  <2>2. IsFiniteSet(1..N) /\ Cardinality(1..N) = IF 1 > N THEN 0 ELSE N - 1 + 1
    BY <2>1, FS_Interval
  <2> QED BY <2>1, <2>2
<1> HIDE DEF N
<1>2. s \in [1..N -> S] /\ \A i, j \in 1..N : i < j => s[i] \in ahead[s[j]]
  BY DEF N
<1>3. \A i, j \in 1..N : s[i] = s[j] => i = j
  <2> SUFFICES ASSUME NEW i \in 1..N, NEW j \in 1..N, s[i] = s[j], i < j PROVE FALSE
    BY <1>1
  <2>1. s[i] \in ahead[s[j]] /\ s[j] \in S
    BY <1>2
  <2> QED BY <2>1 DEF Ranks
<1>4. s \in Injection(1..N, S)
  BY <1>2, <1>3 DEF Injection, IsInjective
<1>5. s \in Surjection(1..N, S)
  BY <1>1, <1>4, FS_Injection DEF N
<1>6. \A x \in S : \E i \in 1..N : s[i] = x
  BY <1>5 DEF Surjection
<1> QED BY <1>2, <1>3, <1>6 DEF Lists, N

-----------------------------------------------------------------------------
(* Parts of a set: part[x] belongs to x.                                   *)

PartsOf(part, T) == UNION {part[x] : x \in T}

\* The parts of a set are those of an element and those of the others.
LEMMA PartsWithout ==
    ASSUME NEW part, NEW T, NEW x \in T
    PROVE  PartsOf(part, T) = PartsOf(part, T \ {x}) \cup part[x]
BY DEF PartsOf

\* Parts of at most m elements each have no more than that together.
LEMMA PartsAtMost ==
    ASSUME NEW S, IsFiniteSet(S), NEW part, NEW m \in Nat,
           \A x \in S : IsFiniteSet(part[x]) /\ Cardinality(part[x]) <= m
    PROVE  /\ IsFiniteSet(PartsOf(part, S))
           /\ Cardinality(PartsOf(part, S)) <= m * Cardinality(S)
<1> DEFINE Small(T) == /\ IsFiniteSet(PartsOf(part, T))
                       /\ Cardinality(PartsOf(part, T)) <= m * Cardinality(T)
           G == {T \in SUBSET S : Small(T)}
<1>1. ASSUME NEW T \in SUBSET S, \A x \in T : T \ {x} \in G PROVE Small(T)
  <2>1. CASE T = {}
    <3>1. PartsOf(part, T) = {} /\ Cardinality(T) = 0 /\ m * 0 = 0
      BY <2>1, FS_EmptySet DEF PartsOf
    <3> QED BY <3>1, FS_EmptySet
  <2>2. CASE T # {}
    <3>1. PICK x \in T : TRUE
      BY <2>2
    <3> DEFINE A == PartsOf(part, T \ {x})
               B == part[x]
               n == Cardinality(T \ {x})
    <3>2. IsFiniteSet(A) /\ Cardinality(A) <= m * n
      BY <1>1, <3>1
    <3>3. IsFiniteSet(B) /\ Cardinality(B) <= m
      BY <3>1
    <3>4. IsFiniteSet(T) /\ IsFiniteSet(T \ {x}) /\ n = Cardinality(T) - 1 /\ n \in Nat
      BY <3>1, FS_Subset, FS_RemoveElement, FS_CardinalityType
    <3>5. PartsOf(part, T) = A \cup B
      BY <3>1, PartsWithout
    <3> HIDE DEF A, B
    <3>6. /\ IsFiniteSet(A \cup B) /\ IsFiniteSet(A \cap B)
          /\ Cardinality(A \cup B) = Cardinality(A) + Cardinality(B) - Cardinality(A \cap B)
      BY <3>2, <3>3, FS_Union, FS_Subset
    <3>7. Cardinality(A) \in Nat /\ Cardinality(B) \in Nat /\ Cardinality(A \cap B) \in Nat
      BY <3>2, <3>3, <3>6, FS_CardinalityType
    <3>8. Cardinality(A \cup B) <= m * n + m
      <4>1. m * n \in Nat
        BY <3>4
      <4> QED BY <3>2, <3>3, <3>6, <3>7, <4>1
    <3>9. m * n + m = m * Cardinality(T)
      <4> HIDE DEF n
      <4>1. Cardinality(T) = n + 1 /\ m * (n + 1) = m * n + m
        BY <3>4, FS_CardinalityType
      <4> QED BY <4>1
    <3> QED BY <3>5, <3>6, <3>8, <3>9
  <2> QED BY <2>1, <2>2
<1>2. \A T \in SUBSET S : (\A x \in T : T \ {x} \in G) => T \in G
  BY <1>1
<1>3. S \in G
  <2> HIDE DEF G
  <2>1. \A T \in SUBSET S : T \in G
    BY <1>2, SubsetInduction
  <2> QED BY <2>1
<1> QED BY <1>3

\* Parts that have nothing in common and m elements each have just that together.
LEMMA PartsAdd ==
    ASSUME NEW S, IsFiniteSet(S), NEW part, NEW m \in Nat,
           \A x \in S : IsFiniteSet(part[x]) /\ Cardinality(part[x]) = m,
           \A x, y \in S : x # y => part[x] \cap part[y] = {}
    PROVE  /\ IsFiniteSet(PartsOf(part, S))
           /\ Cardinality(PartsOf(part, S)) = m * Cardinality(S)
<1> DEFINE Full(T) == /\ IsFiniteSet(PartsOf(part, T))
                      /\ Cardinality(PartsOf(part, T)) = m * Cardinality(T)
           G == {T \in SUBSET S : Full(T)}
<1>1. ASSUME NEW T \in SUBSET S, \A x \in T : T \ {x} \in G PROVE Full(T)
  <2>1. CASE T = {}
    <3>1. PartsOf(part, T) = {} /\ Cardinality(T) = 0 /\ m * 0 = 0
      BY <2>1, FS_EmptySet DEF PartsOf
    <3> QED BY <3>1, FS_EmptySet
  <2>2. CASE T # {}
    <3>1. PICK x \in T : TRUE
      BY <2>2
    <3> DEFINE A == PartsOf(part, T \ {x})
               B == part[x]
               n == Cardinality(T \ {x})
    <3>2. IsFiniteSet(A) /\ Cardinality(A) = m * n
      BY <1>1, <3>1
    <3>3. IsFiniteSet(B) /\ Cardinality(B) = m
      BY <3>1
    <3>4. IsFiniteSet(T) /\ IsFiniteSet(T \ {x}) /\ n = Cardinality(T) - 1 /\ n \in Nat
      BY <3>1, FS_Subset, FS_RemoveElement, FS_CardinalityType
    <3>5. PartsOf(part, T) = A \cup B /\ A \cap B = {}
      <4>1. A \cap B = {}
        BY <3>1 DEF PartsOf
      <4> QED BY <3>1, <4>1, PartsWithout
    <3> HIDE DEF A, B
    <3>6. /\ IsFiniteSet(A \cup B)
          /\ Cardinality(A \cup B) = Cardinality(A) + Cardinality(B) - Cardinality({})
      BY <3>2, <3>3, <3>5, FS_Union
    <3>7. Cardinality({}) = 0
      BY FS_EmptySet
    <3>8. Cardinality(A \cup B) = m * n + m
      <4>1. m * n \in Nat
        BY <3>4
      <4> QED BY <3>2, <3>3, <3>6, <3>7, <4>1
    <3>9. m * n + m = m * Cardinality(T)
      <4> HIDE DEF n
      <4>1. Cardinality(T) = n + 1 /\ m * (n + 1) = m * n + m
        BY <3>4, FS_CardinalityType
      <4> QED BY <4>1
    <3> QED BY <3>5, <3>6, <3>8, <3>9
  <2> QED BY <2>1, <2>2
<1>2. \A T \in SUBSET S : (\A x \in T : T \ {x} \in G) => T \in G
  BY <1>1
<1>3. S \in G
  <2> HIDE DEF G
  <2>1. \A T \in SUBSET S : T \in G
    BY <1>2, SubsetInduction
  <2> QED BY <2>1
<1> QED BY <1>3
=============================================================================

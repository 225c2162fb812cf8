---------------------------- MODULE Sums_proofs ----------------------------
(***************************************************************************)
(* Facts about least elements and about the sum SumFunctionOnSet of the    *)
(* community modules, on which the proofs about totals and about recursive *)
(* definitions rest.  Each is an induction written as the search for a     *)
(* least counterexample: the set of the counterexamples, were it not       *)
(* empty, would have a minimal element.                                    *)
(***************************************************************************)
EXTENDS Functions, Naturals, FiniteSets, FiniteSetTheorems, WellFoundedInduction, TLAPS

\* A set of natural numbers that is not empty has a least element.
LEMMA LeastNumber ==
    ASSUME NEW F, F \subseteq Nat, F # {}
    PROVE  \E m \in F : \A n \in F : m <= n
<1>1. PICK m \in F : \A n \in F : ~ (<<n, m>> \in OpToRel(<, Nat))
  BY NatLessThanWellFounded, WFMin, Zenon
<1>2. \A n \in F : <<n, m>> \in OpToRel(<, Nat) <=> n < m
  BY DEF OpToRel
<1>3. \A n \in F : ~ (n < m)
  BY <1>1, <1>2, Zenon
<1> QED BY <1>3

\* A family of subsets of a finite set that is not empty has a minimal member.
LEMMA MinimalSubset ==
    ASSUME NEW S, IsFiniteSet(S), NEW F, F \subseteq SUBSET S, F # {}
    PROVE  \E T \in F : \A U \in F : U \subseteq T => U = T
<1>1. FiniteSubsetsOf(S) = SUBSET S
  BY FS_FiniteSubsetsOfFinite
<1>2. IsWellFoundedOn(StrictSubsetOrdering(S), FiniteSubsetsOf(S))
  BY FS_StrictSubsetOrderingWellFounded
<1>3. PICK T \in F : \A U \in F : ~ (<<U, T>> \in StrictSubsetOrdering(S))
  BY <1>1, <1>2, WFMin, Zenon
<1> QED BY <1>3 DEF StrictSubsetOrdering

-----------------------------------------------------------------------------
(* The sum of the values of f at the members of a finite set.              *)

Picked(S) == CHOOSE x \in S : TRUE

\* g sums f over every subset of S.
Totals(g, f, S) ==
    g = [s \in SUBSET S |-> IF s = {} THEN 0 ELSE f[Picked(s)] + g[s \ {Picked(s)}]]

\* The equation of the sum at the set s.
SumAt(f, s) ==
    SumFunctionOnSet(f, s) =
        IF s = {} THEN 0 ELSE f[Picked(s)] + SumFunctionOnSet(f, s \ {Picked(s)})

LEMMA SumUnfolds ==
    ASSUME NEW f, NEW S
    PROVE  SumFunctionOnSet(f, S) = (CHOOSE g : Totals(g, f, S))[S]
BY Zenon DEF SumFunctionOnSet, FoldFunctionOnSet, MapThenFoldSet, Totals, Picked

\* If the equation holds at every smaller set it holds at s.
LEMMA SumStep ==
    ASSUME NEW f, NEW s, IsFiniteSet(s), \A u \in SUBSET s : u # s => SumAt(f, u)
    PROVE  SumAt(f, s)
<1> DEFINE value == IF s = {} THEN 0 ELSE f[Picked(s)] + SumFunctionOnSet(f, s \ {Picked(s)})
           h == [u \in SUBSET s |-> IF u = s THEN value ELSE SumFunctionOnSet(f, u)]
           G == CHOOSE g : Totals(g, f, s)
<1>1. \A u \in SUBSET s : u # {} => Picked(u) \in u /\ u \ {Picked(u)} \in SUBSET s /\ u \ {Picked(u)} # s
  BY DEF Picked
<1>2. Totals(h, f, s)
  <2>1. ASSUME NEW u \in SUBSET s
        PROVE  h[u] = IF u = {} THEN 0 ELSE f[Picked(u)] + h[u \ {Picked(u)}]
    <3>1. CASE u = s
      <4>1. CASE s = {}
        BY <3>1, <4>1
      <4>2. CASE s # {}
        <5>1. h[u \ {Picked(u)}] = SumFunctionOnSet(f, u \ {Picked(u)})
          BY <1>1, <3>1, <4>2, Zenon
        <5>2. h[u] = f[Picked(s)] + SumFunctionOnSet(f, s \ {Picked(s)})
          BY <3>1, <4>2, Zenon
        <5> QED BY <3>1, <4>2, <5>1, <5>2, Zenon
      <4> QED BY <4>1, <4>2
    <3>2. CASE u # s
      <4>1. h[u] = SumFunctionOnSet(f, u)
        BY <3>2, Zenon
      <4>2. SumAt(f, u)
        BY <3>2, Zenon
      <4>3. CASE u = {}
        BY <4>1, <4>2, <4>3, Zenon DEF SumAt
      <4>4. CASE u # {}
        <5>1. h[u \ {Picked(u)}] = SumFunctionOnSet(f, u \ {Picked(u)})
          BY <1>1, <4>4, Zenon
        <5> QED BY <4>1, <4>2, <4>4, <5>1, Zenon DEF SumAt
      <4> QED BY <4>3, <4>4
    <3> QED BY <3>1, <3>2
  <2>2. h = [u \in SUBSET s |-> h[u]]
    OBVIOUS
  <2> HIDE DEF h
  <2> QED BY <2>1, <2>2, Zenon DEF Totals
<1>3. Totals(G, f, s)
  <2> HIDE DEF h
  <2> QED BY <1>2, Zenon
<1>4. \A u \in SUBSET s : G[u] = IF u = {} THEN 0 ELSE f[Picked(u)] + G[u \ {Picked(u)}]
  <2> HIDE DEF G
  <2> QED BY <1>3, Zenon DEF Totals
<1>5. SumFunctionOnSet(f, s) = G[s]
  BY SumUnfolds, Zenon
<1> HIDE DEF G, h
<1>6. \A u \in SUBSET s : u # s => G[u] = SumFunctionOnSet(f, u)
  <2> DEFINE Bad == {u \in SUBSET s : u # s /\ G[u] # SumFunctionOnSet(f, u)}
  <2> SUFFICES ASSUME Bad # {} PROVE FALSE
    OBVIOUS
  <2>1. PICK T \in Bad : \A U \in Bad : U \subseteq T => U = T
    <3> HIDE DEF Bad
    <3>1. Bad \subseteq SUBSET s
      BY DEF Bad
    <3> QED BY <3>1, MinimalSubset
  <2>2. T \in SUBSET s /\ T # s /\ SumAt(f, T)
    OBVIOUS
  <2>3. CASE T = {}
    BY <1>4, <2>2, <2>3, Zenon DEF SumAt
  <2>4. CASE T # {}
    <3>1. T \ {Picked(T)} \in SUBSET s /\ T \ {Picked(T)} # s /\ T \ {Picked(T)} # T
      BY <1>1, <2>2, <2>4, Zenon
    <3>2. G[T \ {Picked(T)}] = SumFunctionOnSet(f, T \ {Picked(T)})
      BY <2>1, <3>1
    <3>3. G[T] = SumFunctionOnSet(f, T)
      BY <1>4, <2>2, <2>4, <3>2, Zenon DEF SumAt
    <3> QED BY <3>3
  <2> QED BY <2>3, <2>4
<1>7. CASE s = {}
  BY <1>4, <1>5, <1>7, Zenon DEF SumAt
<1>8. CASE s # {}
  <2>1. G[s \ {Picked(s)}] = SumFunctionOnSet(f, s \ {Picked(s)})
    BY <1>1, <1>6, <1>8, Zenon
  <2> QED BY <1>4, <1>5, <1>8, <2>1, Zenon DEF SumAt
<1> QED BY <1>7, <1>8

\* The sum over a finite set satisfies its recursive equation.
LEMMA SumEquation ==
    ASSUME NEW f, NEW S, IsFiniteSet(S)
    PROVE  SumAt(f, S)
<1> DEFINE Bad == {u \in SUBSET S : ~ SumAt(f, u)}
<1> SUFFICES ASSUME Bad # {} PROVE FALSE
  OBVIOUS
<1>1. PICK T \in Bad : \A U \in Bad : U \subseteq T => U = T
  <2>1. Bad \subseteq SUBSET S
    OBVIOUS
  <2> HIDE DEF Bad
  <2> QED BY <2>1, MinimalSubset
<1>2. T \in SUBSET S /\ ~ SumAt(f, T)
  OBVIOUS
<1>3. \A u \in SUBSET T : u # T => SumAt(f, u)
  BY <1>1, <1>2
<1>4. IsFiniteSet(T)
  BY <1>2, FS_Subset
<1> QED BY <1>2, <1>3, <1>4, SumStep

\* The sum over no element is zero.
LEMMA SumOfNone ==
    ASSUME NEW f
    PROVE  SumFunctionOnSet(f, {}) = 0
BY SumEquation, FS_EmptySet, Zenon DEF SumAt

\* The sum of integers is an integer, and any member may be taken out of it.
LEMMA SumTakes ==
    ASSUME NEW f, NEW S, IsFiniteSet(S), \A x \in S : f[x] \in Int
    PROVE  /\ SumFunctionOnSet(f, S) \in Int
           /\ \A x \in S : SumFunctionOnSet(f, S) = f[x] + SumFunctionOnSet(f, S \ {x})
<1> DEFINE Good(u) == /\ SumFunctionOnSet(f, u) \in Int
                      /\ \A x \in u : SumFunctionOnSet(f, u) = f[x] + SumFunctionOnSet(f, u \ {x})
           Bad == {u \in SUBSET S : ~ Good(u)}
<1> SUFFICES ASSUME Bad # {} PROVE FALSE
  OBVIOUS
<1> HIDE DEF Good
<1>1. PICK T \in Bad : \A U \in Bad : U \subseteq T => U = T
  <2>1. Bad \subseteq SUBSET S
    OBVIOUS
  <2> HIDE DEF Bad
  <2> QED BY <2>1, MinimalSubset
<1>2. T \in SUBSET S /\ ~ Good(T)
  OBVIOUS
<1>3. \A u \in SUBSET T : u # T => Good(u)
  BY <1>1, <1>2
<1>4. SumAt(f, T)
  BY <1>2, FS_Subset, SumEquation, Zenon
<1>5. CASE T = {}
  BY <1>2, <1>5, SumOfNone DEF Good
<1>6. CASE T # {}
  <2> DEFINE c == Picked(T)
  <2>1. c \in T
    BY <1>6 DEF Picked
  <2>2. SumFunctionOnSet(f, T) = f[c] + SumFunctionOnSet(f, T \ {c})
    BY <1>4, <1>6 DEF SumAt
  <2> HIDE DEF c
  <2>3. Good(T \ {c})
    BY <1>3, <2>1
  <2>4. SumFunctionOnSet(f, T \ {c}) \in Int /\ f[c] \in Int
    BY <1>2, <2>1, <2>3 DEF Good
  <2>5. ASSUME NEW x \in T, x # c
        PROVE  SumFunctionOnSet(f, T) = f[x] + SumFunctionOnSet(f, T \ {x})
    <3>1. Good(T \ {x})
      BY <1>3
    <3>2. SumFunctionOnSet(f, T \ {c}) = f[x] + SumFunctionOnSet(f, (T \ {c}) \ {x})
      BY <2>3, <2>5 DEF Good
    <3>3. SumFunctionOnSet(f, T \ {x}) = f[c] + SumFunctionOnSet(f, (T \ {c}) \ {x})
      <4>1. (T \ {c}) \ {x} = (T \ {x}) \ {c}
        OBVIOUS
      <4> QED BY <2>1, <2>5, <3>1, <4>1, Zenon DEF Good
    <3>4. Good((T \ {c}) \ {x})
      BY <1>3, <2>1
    <3>5. SumFunctionOnSet(f, (T \ {c}) \ {x}) \in Int /\ f[x] \in Int
      BY <1>2, <3>4 DEF Good
    <3> QED BY <2>2, <2>4, <3>2, <3>3, <3>5
  <2>6. SumFunctionOnSet(f, T) \in Int
    BY <2>2, <2>4
  <2> QED BY <1>2, <2>2, <2>5, <2>6 DEF Good
<1> QED BY <1>5, <1>6

\* The sum is that of the values at the members, and grows with them.
LEMMA SumMonotone ==
    ASSUME NEW f, NEW g, NEW S, IsFiniteSet(S),
           \A x \in S : f[x] \in Int /\ g[x] \in Int /\ f[x] <= g[x]
    PROVE  SumFunctionOnSet(f, S) <= SumFunctionOnSet(g, S)
<1> DEFINE Good(u) == SumFunctionOnSet(f, u) <= SumFunctionOnSet(g, u)
           Bad == {u \in SUBSET S : ~ Good(u)}
<1> SUFFICES ASSUME Bad # {} PROVE FALSE
  OBVIOUS
<1> HIDE DEF Good
<1>1. PICK T \in Bad : \A U \in Bad : U \subseteq T => U = T
  <2>1. Bad \subseteq SUBSET S
    OBVIOUS
  <2> HIDE DEF Bad
  <2> QED BY <2>1, MinimalSubset
<1>2. T \in SUBSET S /\ ~ Good(T) /\ IsFiniteSet(T)
  BY FS_Subset
<1>3. \A u \in SUBSET T : u # T => Good(u)
  BY <1>1, <1>2
<1>4. CASE T = {}
  BY <1>2, <1>4, SumOfNone DEF Good
<1>5. CASE T # {}
  <2>1. PICK x \in T : TRUE
    BY <1>5
  <2>2. SumFunctionOnSet(f, T) = f[x] + SumFunctionOnSet(f, T \ {x})
    BY <1>2, SumTakes
  <2>3. SumFunctionOnSet(g, T) = g[x] + SumFunctionOnSet(g, T \ {x})
    BY <1>2, SumTakes
  <2>4. IsFiniteSet(T \ {x})
    BY <1>2, FS_Subset
  <2>5. SumFunctionOnSet(f, T \ {x}) \in Int
    BY <1>2, <2>4, SumTakes
  <2>6. SumFunctionOnSet(g, T \ {x}) \in Int
    BY <1>2, <2>4, SumTakes
  <2>7. Good(T \ {x})
    BY <1>3
  <2> QED BY <1>2, <2>2, <2>3, <2>5, <2>6, <2>7 DEF Good
<1> QED BY <1>4, <1>5

LEMMA SumAgrees ==
    ASSUME NEW f, NEW g, NEW S, IsFiniteSet(S),
           \A x \in S : f[x] \in Int /\ g[x] = f[x]
    PROVE  SumFunctionOnSet(f, S) = SumFunctionOnSet(g, S)
<1>1. SumFunctionOnSet(f, S) <= SumFunctionOnSet(g, S)
  BY SumMonotone
<1>2. SumFunctionOnSet(g, S) <= SumFunctionOnSet(f, S)
  BY SumMonotone
<1>3. SumFunctionOnSet(f, S) \in Int
  BY SumTakes
<1>4. SumFunctionOnSet(g, S) \in Int
  BY SumTakes
<1> QED BY <1>1, <1>2, <1>3, <1>4

\* The sets A and B differ in the element x at most, f and g at x at most.
DifferAt(x, f, A, g, B) ==
    /\ IsFiniteSet(A) /\ IsFiniteSet(B) /\ A \ {x} = B \ {x}
    /\ \A y \in A : f[y] \in Int
    /\ \A y \in B : g[y] \in Int
    /\ \A y \in A \ {x} : g[y] = f[y]

\* What x contributes to the sum over S.
PartOf(x, f, S) == IF x \in S THEN f[x] ELSE 0

\* The sums of two functions over two sets that differ at x at most.
LEMMA SumChange ==
    ASSUME NEW x, NEW f, NEW A, NEW g, NEW B, DifferAt(x, f, A, g, B)
    PROVE  SumFunctionOnSet(g, B) = SumFunctionOnSet(f, A) - PartOf(x, f, A) + PartOf(x, g, B)
<1> USE DEF DifferAt, PartOf
<1> DEFINE rest == A \ {x}
<1>1. IsFiniteSet(rest)
  BY FS_Subset
<1>2. SumFunctionOnSet(f, rest) \in Int
  BY <1>1, SumTakes
<1>3. SumFunctionOnSet(g, rest) = SumFunctionOnSet(f, rest)
  <2>1. \A y \in rest : f[y] \in Int /\ g[y] = f[y]
    OBVIOUS
  <2> HIDE DEF rest
  <2> QED BY <1>1, <2>1, SumAgrees
<1>4. SumFunctionOnSet(f, A) = (IF x \in A THEN f[x] ELSE 0) + SumFunctionOnSet(f, rest)
  <2>1. CASE x \in A
    BY <2>1, SumTakes
  <2>2. CASE x \notin A
    <3>1. rest = A
      BY <2>2
    <3> HIDE DEF rest
    <3> QED BY <1>2, <2>2, <3>1
  <2> QED BY <2>1, <2>2
<1>5. SumFunctionOnSet(g, B) = (IF x \in B THEN g[x] ELSE 0) + SumFunctionOnSet(g, rest)
  <2>1. CASE x \in B
    BY <2>1, SumTakes
  <2>2. CASE x \notin B
    <3>1. rest = B
      BY <2>2
    <3> HIDE DEF rest
    <3> QED BY <1>2, <1>3, <2>2, <3>1
  <2> QED BY <2>1, <2>2
<1> HIDE DEF rest
<1> QED BY <1>2, <1>3, <1>4, <1>5

\* Among values that are not negative, a subset has a smaller sum.
LEMMA SumSubset ==
    ASSUME NEW f, NEW S, IsFiniteSet(S), \A x \in S : f[x] \in Nat, NEW T \in SUBSET S
    PROVE  SumFunctionOnSet(f, T) <= SumFunctionOnSet(f, S)
<1> DEFINE Good(u) == SumFunctionOnSet(f, u) <= SumFunctionOnSet(f, S)
           Bad == {u \in SUBSET S : T \subseteq u /\ SumFunctionOnSet(f, u) < SumFunctionOnSet(f, T)}
<1> SUFFICES ASSUME S \in Bad PROVE FALSE
  <2>1. IsFiniteSet(T)
    BY FS_Subset
  <2>2. SumFunctionOnSet(f, T) \in Int
    BY <2>1, SumTakes
  <2>3. SumFunctionOnSet(f, S) \in Int
    BY SumTakes
  <2> QED BY <2>2, <2>3
<1>1. PICK u \in Bad : \A U \in Bad : U \subseteq u => U = u
  <2>1. Bad \subseteq SUBSET S /\ Bad # {}
    OBVIOUS
  <2> HIDE DEF Bad
  <2> QED BY <2>1, MinimalSubset
<1>2. u \in SUBSET S /\ T \subseteq u /\ SumFunctionOnSet(f, u) < SumFunctionOnSet(f, T) /\ IsFiniteSet(u)
  BY FS_Subset
<1>3. SumFunctionOnSet(f, T) \in Int
  <2>1. IsFiniteSet(T)
    BY FS_Subset
  <2> QED BY <2>1, SumTakes
<1>4. u # T
  BY <1>2, <1>3
<1>5. PICK x \in u : x \notin T
  BY <1>2, <1>4
<1>6. SumFunctionOnSet(f, u) = f[x] + SumFunctionOnSet(f, u \ {x})
  BY <1>2, SumTakes
<1>7. SumFunctionOnSet(f, u \ {x}) \in Int
  <2>1. IsFiniteSet(u \ {x})
    BY <1>2, FS_Subset
  <2> QED BY <1>2, <2>1, SumTakes
<1>8. f[x] \in Nat
  BY <1>2
<1>9. u \ {x} \in Bad
  BY <1>2, <1>3, <1>5, <1>6, <1>7, <1>8
<1> QED BY <1>1, <1>5, <1>9

\* The sum of zeros is zero.
LEMMA SumOfZeros ==
    ASSUME NEW f, NEW S, IsFiniteSet(S), \A x \in S : f[x] = 0
    PROVE  SumFunctionOnSet(f, S) = 0
<1> DEFINE Bad == {u \in SUBSET S : SumFunctionOnSet(f, u) # 0}
<1> SUFFICES ASSUME Bad # {} PROVE FALSE
  OBVIOUS
<1>1. PICK T \in Bad : \A U \in Bad : U \subseteq T => U = T
  <2>1. Bad \subseteq SUBSET S
    OBVIOUS
  <2> HIDE DEF Bad
  <2> QED BY <2>1, MinimalSubset
<1>2. T \in SUBSET S /\ SumFunctionOnSet(f, T) # 0 /\ T # {} /\ IsFiniteSet(T)
  BY SumOfNone, FS_Subset
<1>3. PICK x \in T : TRUE
  BY <1>2
<1>4. SumFunctionOnSet(f, T) = f[x] + SumFunctionOnSet(f, T \ {x})
  BY <1>2, SumTakes
<1>5. SumFunctionOnSet(f, T \ {x}) = 0
  BY <1>1, <1>2
<1> QED BY <1>2, <1>4, <1>5
=============================================================================

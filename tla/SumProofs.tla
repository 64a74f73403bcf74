------------------------------ MODULE SumProofs ------------------------------
(***************************************************************************)
(* What SumFunctionOnSet of Functions is, for naturals over finite sets:   *)
(* an element more or less, sums of sums, larger summands.                 *)
(*                                                                         *)
(* The library defines the sum by a function on the subsets of the set,    *)
(* which exists because there is no smallest set on which it does not; the *)
(* facts about it are proved the same way, from a smallest counterexample. *)
(***************************************************************************)
EXTENDS Functions, Integers, FiniteSetTheorems, WellFoundedInduction, TLAPS

\* Of finitely many sets one is minimal under inclusion.
LEMMA SmallestSet ==
    \A S, T : IsFiniteSet(S) /\ T \subseteq SUBSET S /\ T # {}
              => \E U \in T : \A V \in T : V \subseteq U => V = U
  <1> SUFFICES ASSUME NEW S, IsFiniteSet(S), NEW T, T \subseteq SUBSET S, T # {}
               PROVE  \E U \in T : \A V \in T : V \subseteq U => V = U
    OBVIOUS
  <1>1. FiniteSubsetsOf(S) = SUBSET S
    BY FS_FiniteSubsetsOfFinite
  <1>2. IsWellFoundedOn(StrictSubsetOrdering(S), SUBSET S)
    BY <1>1, FS_StrictSubsetOrderingWellFounded
  <1>3. PICK U \in T : \A V \in T : ~ (<<V, U>> \in StrictSubsetOrdering(S))
    BY <1>2, WFMin
  <1> QED
    BY <1>3 DEF StrictSubsetOrdering

\* A set of naturals has a smallest one: the induction of all these proofs.
LEMMA SmallestNumber ==
    ASSUME NEW T, T \subseteq Nat, T # {}
    PROVE  \E n \in T : \A m \in T : n <= m
  <1>1. PICK top \in T : TRUE
    OBVIOUS
  <1> DEFINE all == 0..top
             family == {0..m : m \in {n \in T : n <= top}}
  <1>2. IsFiniteSet(all)
    BY FS_Interval
  <1>3. family \subseteq SUBSET all
    OBVIOUS
  <1>7. family # {}
    BY <1>1
  <1>4. PICK U \in family : \A V \in family : V \subseteq U => V = U
    <2> HIDE DEF family, all
    <2> QED
      BY <1>2, <1>3, <1>7, SmallestSet
  <1>5. PICK n \in T : n <= top /\ U = 0..n
    BY <1>4
  <1>6. ASSUME NEW m \in T, m < n PROVE FALSE
    <2>1. 0..m \in family /\ 0..m \subseteq 0..n
      BY <1>1, <1>5, <1>6
    <2>2. 0..m = 0..n
      BY <1>4, <1>5, <2>1
    <2>3. n \in 0..n
      OBVIOUS
    <2> QED
      BY <1>6, <2>2, <2>3
  <1> QED
    BY <1>6

-------------------------------------------------------------------------------
(***************************************************************************)
(* The function behind the sum.                                            *)
(***************************************************************************)
\* The element that the fold takes first.
Pick(s) == CHOOSE x \in s : TRUE

\* g sums f over every set in "sets".
Sums(g, f, sets) ==
    g = [s \in sets |-> IF s = {} THEN 0 ELSE f[Pick(s)] + g[s \ {Pick(s)}]]

\* The function that the fold chooses.
Iter(f, S) == CHOOSE g : Sums(g, f, SUBSET S)

\* The library's sum is that function, at the whole set.
LEMMA SumIsIter ==
    ASSUME NEW f, NEW S
    PROVE  SumFunctionOnSet(f, S) = Iter(f, S)[S]
  BY Zenon DEF SumFunctionOnSet, FoldFunctionOnSet, MapThenFoldSet, Iter, Sums, Pick

\* What is picked from a set is in it.
LEMMA PickIn ==
    ASSUME NEW s, s # {}
    PROVE  Pick(s) \in s
  BY DEF Pick

\* The subsets of at most n elements.
Below(S, n) == {s \in SUBSET S : Cardinality(s) <= n}

\* A set without what is picked from it has one element less.
LEMMA Smaller ==
    ASSUME NEW S, IsFiniteSet(S), NEW s \in SUBSET S, s # {}
    PROVE  /\ Cardinality(s) \in Nat \ {0}
           /\ s \ {Pick(s)} \in SUBSET S
           /\ Cardinality(s \ {Pick(s)}) = Cardinality(s) - 1
  <1>1. IsFiniteSet(s)
    BY FS_Subset
  <1>2. Pick(s) \in s
    BY PickIn
  <1> QED
    BY <1>1, <1>2, FS_RemoveElement, FS_CardinalityType, FS_EmptySet

\* There is a function that sums f over every subset of a finite set.
LEMMA SumExists ==
    ASSUME NEW S, IsFiniteSet(S), NEW f
    PROVE  \E g : Sums(g, f, SUBSET S)
  <1> DEFINE none == {n \in Nat : ~ \E g : Sums(g, f, Below(S, n))}
  <1>1. none = {}
    <2> SUFFICES ASSUME none # {} PROVE FALSE
      OBVIOUS
    <2>1. PICK n \in none : \A m \in none : n <= m
      BY SmallestNumber
    <2>2. n # 0
      <3>1. ASSUME NEW s \in Below(S, 0), s # {} PROVE FALSE
        <4>1. s \in SUBSET S /\ Cardinality(s) <= 0
          BY DEF Below
        <4>2. Cardinality(s) \in Nat \ {0}
          BY <3>1, <4>1, Smaller
        <4> QED
          BY <4>1, <4>2
      <3>2. Sums([s \in Below(S, 0) |-> 0], f, Below(S, 0))
        BY <3>1 DEF Sums
      <3> QED
        BY <2>1, <3>2
    <2>3. PICK g : Sums(g, f, Below(S, n - 1))
      BY <2>1, <2>2
    <2> DEFINE h == [s \in Below(S, n) |->
                       IF s = {} THEN 0 ELSE f[Pick(s)] + g[s \ {Pick(s)}]]
    <2>4. ASSUME NEW s \in Below(S, n), s # {}
          PROVE  h[s \ {Pick(s)}] = g[s \ {Pick(s)}]
      <3> DEFINE t == s \ {Pick(s)}
      <3>1. t \in Below(S, n - 1)
        BY <2>4, Smaller DEF Below
      <3>2. t \in Below(S, n)
        BY <3>1, FS_Subset, FS_CardinalityType DEF Below
      <3>3. g[t] = IF t = {} THEN 0 ELSE f[Pick(t)] + g[t \ {Pick(t)}]
        BY <2>3, <3>1 DEF Sums
      <3> QED
        BY <3>2, <3>3
    <2>5. Sums(h, f, Below(S, n))
      BY <2>4 DEF Sums
    <2> QED
      BY <2>1, <2>5
  <1>2. Cardinality(S) \in Nat
    BY FS_CardinalityType
  <1>3. Below(S, Cardinality(S)) = SUBSET S
    BY FS_Subset DEF Below
  <1> QED
    BY <1>1, <1>2, <1>3

\* So the chosen function sums.
LEMMA IterSums ==
    ASSUME NEW S, IsFiniteSet(S), NEW f
    PROVE  Sums(Iter(f, S), f, SUBSET S)
  BY SumExists DEF Iter

\* Sums of functions that agree on a set are the same.
LEMMA SumsAgree ==
    ASSUME NEW S, IsFiniteSet(S), NEW U, IsFiniteSet(U), NEW f, NEW e, NEW g, NEW h,
           Sums(g, f, SUBSET S), Sums(h, e, SUBSET U),
           NEW V \in (SUBSET S) \cap SUBSET U, \A x \in V : f[x] = e[x]
    PROVE  g[V] = h[V]
  <1> DEFINE differ == {s \in SUBSET V : g[s] # h[s]}
  <1> SUFFICES ASSUME differ # {} PROVE FALSE
    OBVIOUS
  <1>1. IsFiniteSet(V)
    BY FS_Subset
  <1>2. PICK s \in differ : \A t \in differ : t \subseteq s => t = s
    <2>1. differ \subseteq SUBSET V
      OBVIOUS
    <2> HIDE DEF differ
    <2> QED
      BY <1>1, <2>1, SmallestSet
  <1>3. s \in SUBSET S /\ s \in SUBSET U /\ s \subseteq V
    OBVIOUS
  <1>4. /\ g[s] = IF s = {} THEN 0 ELSE f[Pick(s)] + g[s \ {Pick(s)}]
        /\ h[s] = IF s = {} THEN 0 ELSE e[Pick(s)] + h[s \ {Pick(s)}]
    BY <1>3 DEF Sums
  <1>5. s # {}
    BY <1>2, <1>4
  <1>6. Pick(s) \in s
    BY <1>5, PickIn
  <1>7. s \ {Pick(s)} \notin differ
    BY <1>2, <1>6
  <1>8. g[s \ {Pick(s)}] = h[s \ {Pick(s)}]
    BY <1>3, <1>7
  <1> QED
    BY <1>2, <1>3, <1>4, <1>5, <1>6, <1>8

-------------------------------------------------------------------------------
(***************************************************************************)
(* Facts about sums.                                                       *)
(***************************************************************************)
\* The empty sum is zero.
LEMMA SumEmpty == \A f : SumFunctionOnSet(f, {}) = 0
  <1> SUFFICES ASSUME NEW f PROVE SumFunctionOnSet(f, {}) = 0
    OBVIOUS
  <1>1. Sums(Iter(f, {}), f, SUBSET {})
    BY FS_EmptySet, IterSums
  <1> QED
    BY <1>1, SumIsIter DEF Sums

\* A sum depends on the summands only.
LEMMA SumAgree ==
    ASSUME NEW S, IsFiniteSet(S), NEW f, NEW e, \A x \in S : f[x] = e[x]
    PROVE  SumFunctionOnSet(f, S) = SumFunctionOnSet(e, S)
  <1>1. Sums(Iter(f, S), f, SUBSET S) /\ Sums(Iter(e, S), e, SUBSET S)
    BY IterSums
  <1>2. Iter(f, S)[S] = Iter(e, S)[S]
    BY <1>1, SumsAgree
  <1> QED
    BY <1>2, SumIsIter

\* A sum without the element that is picked first.
LEMMA SumPick ==
    ASSUME NEW S, IsFiniteSet(S), S # {}, NEW f
    PROVE  SumFunctionOnSet(f, S) = f[Pick(S)] + SumFunctionOnSet(f, S \ {Pick(S)})
  <1> DEFINE T == S \ {Pick(S)}
  <1>1. IsFiniteSet(T) /\ T \in SUBSET S
    BY FS_Subset
  <1>2. Sums(Iter(f, S), f, SUBSET S) /\ Sums(Iter(f, T), f, SUBSET T)
    BY <1>1, IterSums
  <1>3. Iter(f, S)[T] = Iter(f, T)[T]
    <2>1. T \in (SUBSET S) \cap SUBSET T
      BY <1>1
    <2> HIDE DEF T
    <2> QED
      BY <1>1, <1>2, <2>1, SumsAgree
  <1>4. Iter(f, S)[S] = f[Pick(S)] + Iter(f, S)[T]
    BY <1>2 DEF Sums
  <1> QED
    BY <1>3, <1>4, SumIsIter

\* A sum of naturals is a natural.
LEMMA SumRange ==
    ASSUME NEW S, IsFiniteSet(S), NEW f, \A x \in S : f[x] \in Nat
    PROVE  SumFunctionOnSet(f, S) \in Nat
  <1> DEFINE bad == {U \in SUBSET S : SumFunctionOnSet(f, U) \notin Nat}
  <1> SUFFICES ASSUME bad # {} PROVE FALSE
    OBVIOUS
  <1>1. PICK U \in bad : \A V \in bad : V \subseteq U => V = U
    <2>1. bad \subseteq SUBSET S
      OBVIOUS
    <2> HIDE DEF bad
    <2> QED
      BY <2>1, SmallestSet
  <1>2. U # {}
    BY SumEmpty
  <1>3. Pick(U) \in U
    BY <1>2, PickIn
  <1>4. U \ {Pick(U)} \notin bad
    BY <1>1, <1>3
  <1>5. IsFiniteSet(U)
    BY FS_Subset
  <1>6. SumFunctionOnSet(f, U) = f[Pick(U)] + SumFunctionOnSet(f, U \ {Pick(U)})
    BY <1>2, <1>5, SumPick
  <1> QED
    BY <1>3, <1>4, <1>6

\* A sum without one of its elements, whichever it is.
LEMMA SumRemove ==
    ASSUME NEW S, IsFiniteSet(S), NEW f, \A x \in S : f[x] \in Nat, NEW y \in S
    PROVE  SumFunctionOnSet(f, S) = f[y] + SumFunctionOnSet(f, S \ {y})
  <1> DEFINE Sum(U) == SumFunctionOnSet(f, U)
             bad == {U \in SUBSET S : \E x \in U : Sum(U) # f[x] + Sum(U \ {x})}
  <1> SUFFICES ASSUME bad # {} PROVE FALSE
    OBVIOUS
  <1>1. PICK U \in bad : \A V \in bad : V \subseteq U => V = U
    <2>1. bad \subseteq SUBSET S
      OBVIOUS
    <2> HIDE DEF bad
    <2> QED
      BY <2>1, SmallestSet
  <1>2. PICK x \in U : Sum(U) # f[x] + Sum(U \ {x})
    BY <1>1
  <1> DEFINE p == Pick(U)
  <1>3. p \in U
    BY PickIn
  <1>4. ASSUME NEW V \in SUBSET S
        PROVE  /\ IsFiniteSet(V)
               /\ Sum(V) \in Nat
               /\ V # {} => Sum(V) = f[Pick(V)] + Sum(V \ {Pick(V)})
    BY FS_Subset, SumRange, SumPick
  <1>5. x # p
    BY <1>2, <1>3, <1>4
  <1> HIDE DEF p, Sum
  <1>6. U \ {p} \notin bad /\ U \ {x} \notin bad
    BY <1>1, <1>2, <1>3
  <1>7. Sum(U \ {p}) = f[x] + Sum((U \ {p}) \ {x})
    BY <1>2, <1>5, <1>6
  <1>8. Sum(U \ {x}) = f[p] + Sum((U \ {x}) \ {p})
    BY <1>3, <1>5, <1>6
  <1>9. (U \ {x}) \ {p} = (U \ {p}) \ {x}
    OBVIOUS
  <1>10. Sum(U) = f[p] + Sum(U \ {p})
    BY <1>3, <1>4 DEF p
  <1> DEFINE rest == Sum((U \ {p}) \ {x})
  <1>11. f[x] \in Nat /\ f[p] \in Nat /\ rest \in Nat
    BY <1>2, <1>3, <1>4
  <1>12. Sum(U) = f[p] + (f[x] + rest) /\ Sum(U \ {x}) = f[p] + rest
    BY <1>7, <1>8, <1>9, <1>10
  <1> HIDE DEF rest, bad
  <1>13. f[p] + (f[x] + rest) = f[x] + (f[p] + rest)
    BY <1>11
  <1> QED
    BY <1>2, <1>12, <1>13

\* The sum of sums.
LEMMA SumAdd ==
    ASSUME NEW S, IsFiniteSet(S), NEW f, NEW g, NEW h,
           \A x \in S : f[x] \in Nat /\ g[x] \in Nat /\ h[x] = f[x] + g[x]
    PROVE  SumFunctionOnSet(h, S) = SumFunctionOnSet(f, S) + SumFunctionOnSet(g, S)
  <1> DEFINE F(U) == SumFunctionOnSet(f, U)
             G(U) == SumFunctionOnSet(g, U)
             H(U) == SumFunctionOnSet(h, U)
             bad == {U \in SUBSET S : H(U) # F(U) + G(U)}
  <1> SUFFICES ASSUME bad # {} PROVE FALSE
    OBVIOUS
  <1>1. PICK U \in bad : \A V \in bad : V \subseteq U => V = U
    <2>1. bad \subseteq SUBSET S
      OBVIOUS
    <2> HIDE DEF bad
    <2> QED
      BY <2>1, SmallestSet
  <1> DEFINE p == Pick(U)
             rest == U \ {p}
  <1>2. U # {}
    <2> SUFFICES ASSUME U = {} PROVE FALSE
      OBVIOUS
    <2>1. H(U) # F(U) + G(U)
      BY <1>1
    <2>2. F(U) = 0 /\ G(U) = 0 /\ H(U) = 0
      BY SumEmpty
    <2> HIDE DEF F, G, H
    <2> QED
      BY <2>1, <2>2
  <1>3. p \in U
    BY <1>2, PickIn
  <1>4. IsFiniteSet(U) /\ IsFiniteSet(rest)
    BY FS_Subset
  <1>5. /\ H(U) = h[p] + H(rest)
        /\ F(U) = f[p] + F(rest)
        /\ G(U) = g[p] + G(rest)
    BY <1>2, <1>4, SumPick
  <1>6. F(rest) \in Nat /\ G(rest) \in Nat
    BY <1>4, SumRange
  <1>7. rest \notin bad
    BY <1>1, <1>3
  <1>8. H(rest) = F(rest) + G(rest)
    BY <1>7
  <1>9. H(U) # F(U) + G(U)
    BY <1>1
  <1>10. f[p] \in Nat /\ g[p] \in Nat /\ h[p] = f[p] + g[p]
    BY <1>3
  <1> HIDE DEF F, G, H, p, rest, bad
  <1> QED
    BY <1>5, <1>6, <1>8, <1>9, <1>10

\* Larger summands make a larger sum.
LEMMA SumMonotone ==
    ASSUME NEW S, IsFiniteSet(S), NEW f, NEW g,
           \A x \in S : f[x] \in Nat /\ g[x] \in Nat /\ f[x] <= g[x]
    PROVE  SumFunctionOnSet(f, S) <= SumFunctionOnSet(g, S)
  <1> DEFINE slack == [x \in S |-> g[x] - f[x]]
  <1>1. \A x \in S : slack[x] \in Nat /\ g[x] = f[x] + slack[x]
    OBVIOUS
  <1> HIDE DEF slack
  <1>2. SumFunctionOnSet(g, S) = SumFunctionOnSet(f, S) + SumFunctionOnSet(slack, S)
    BY <1>1, SumAdd
  <1>3. SumFunctionOnSet(f, S) \in Nat /\ SumFunctionOnSet(slack, S) \in Nat
    BY <1>1, SumRange
  <1> QED
    BY <1>2, <1>3

\* Summands that are zero outside a subset leave its sum.
LEMMA SumMask ==
    ASSUME NEW S, IsFiniteSet(S), NEW T \in SUBSET S, NEW f, NEW g,
           \A x \in S : f[x] \in Nat /\ g[x] = IF x \in T THEN f[x] ELSE 0
    PROVE  SumFunctionOnSet(g, S) = SumFunctionOnSet(f, T)
  <1> DEFINE F(U) == SumFunctionOnSet(f, U \cap T)
             G(U) == SumFunctionOnSet(g, U)
             bad == {U \in SUBSET S : G(U) # F(U)}
  <1> SUFFICES ASSUME bad # {} PROVE FALSE
    <2>1. S \notin bad /\ S \cap T = T
      OBVIOUS
    <2> QED
      BY <2>1
  <1>1. PICK U \in bad : \A V \in bad : V \subseteq U => V = U
    <2>1. bad \subseteq SUBSET S
      OBVIOUS
    <2> HIDE DEF bad
    <2> QED
      BY <2>1, SmallestSet
  <1> DEFINE p == Pick(U)
             rest == U \ {p}
  <1>2. U # {}
    <2>1. {} \cap T = {}
      OBVIOUS
    <2> QED
      BY <2>1, SumEmpty
  <1>3. p \in U
    BY <1>2, PickIn
  <1>4. IsFiniteSet(U) /\ IsFiniteSet(U \cap T) /\ IsFiniteSet(rest \cap T)
    BY FS_Subset
  <1>5. G(U) = g[p] + G(rest)
    BY <1>2, <1>4, SumPick
  <1>6. rest \notin bad
    BY <1>1, <1>3
  <1>7. G(rest) = F(rest)
    BY <1>6
  <1>8. F(rest) \in Nat
    BY <1>4, SumRange
  <1>9. G(U) # F(U)
    BY <1>1
  <1>10. CASE p \in T
    <2>1. rest \cap T = (U \cap T) \ {p}
      OBVIOUS
    <2>2. p \in U \cap T /\ \A x \in U \cap T : f[x] \in Nat
      BY <1>3, <1>10
    <2>3. F(U) = f[p] + F(rest)
      BY <1>4, <2>1, <2>2, SumRemove
    <2>4. g[p] = f[p]
      BY <1>3, <1>10
    <2> QED
      BY <1>5, <1>7, <1>9, <2>3, <2>4
  <1>11. CASE p \notin T
    <2>1. rest \cap T = U \cap T
      BY <1>11
    <2>2. g[p] = 0
      BY <1>3, <1>11
    <2> HIDE DEF G, rest, p
    <2>3. G(U) = F(rest)
      BY <1>5, <1>7, <1>8, <2>2
    <2> QED
      BY <1>9, <2>1, <2>3
  <1> QED
    BY <1>10, <1>11
==============================================================================

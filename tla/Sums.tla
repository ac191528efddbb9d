-------------------------------- MODULE Sums --------------------------------
(***************************************************************************)
(* Facts about finite sums (SumFunctionOnSet of the community modules),    *)
(* for the proofs about the ledger's entries, the purchase counters, the   *)
(* coins in escrow and the gems spent: the empty sum, one more term, terms *)
(* that change, a subset, and a sum taken group by group.                  *)
(*                                                                         *)
(* A sum is computed by a recursive function over the subsets of the set,  *)
(* so each fact is an induction over them.  Induction is derived from the  *)
(* library's well-founded order on finite sets: of the subsets that are    *)
(* counterexamples take a minimal one.                                     *)
(***************************************************************************)
EXTENDS Integers, Functions, FiniteSets, FiniteSetTheorems, TLAPS

\* The element a sum starts with, and what a partial sum g has to satisfy.
Pick(s) == CHOOSE x \in s : TRUE
Partly(f, D, g) ==
    g = [s \in D |-> IF s = {} THEN 0 ELSE f[Pick(s)] + g[s \ {Pick(s)}]]
Adds(f, S, g) == Partly(f, SUBSET S, g)
Small(S, n)   == {s \in SUBSET S : Cardinality(s) <= n}

\* What the empty set has, and a set keeps with one more element, every
\* finite set has.
LEMMA SetInduction ==
  ASSUME NEW S, IsFiniteSet(S), NEW F, {} \in F,
         \A T \in SUBSET S, x \in S : T \in F => T \cup {x} \in F
  PROVE  S \in F
<1> SUFFICES ASSUME S \notin F PROVE FALSE
  OBVIOUS
<1> DEFINE B == (SUBSET S) \ F
<1>1. B \subseteq FiniteSubsetsOf(S) /\ B # {}
  BY FS_FiniteSubsetsOfFinite
<1>2. PICK M \in B : \A T \in B : ~ (<<T, M>> \in StrictSubsetOrdering(S))
  BY <1>1, FS_StrictSubsetOrderingWellFounded, WFMin
<1>3. PICK x \in M : TRUE
  OBVIOUS
<1>4. <<M \ {x}, M>> \in StrictSubsetOrdering(S)
  BY DEF StrictSubsetOrdering
<1>5. M \ {x} \in F
  BY <1>2, <1>4
<1>6. (M \ {x}) \cup {x} = M
  OBVIOUS
<1> QED BY <1>5, <1>6

\* The same for the natural numbers.
LEMMA Counting ==
  ASSUME NEW P, 0 \in P, \A n \in Nat : n \in P => n + 1 \in P
  PROVE  \A n \in Nat : n \in P
<1> SUFFICES ASSUME NEW n \in Nat PROVE n \in P
  OBVIOUS
<1> DEFINE F == {T \in SUBSET (1..n) : Cardinality(T) \in P}
<1>1. IsFiniteSet(1..n) /\ Cardinality(1..n) = n
  BY FS_Interval
<1>2. {} \in F
  BY FS_EmptySet
<1>3. ASSUME NEW T \in SUBSET (1..n), NEW x \in 1..n, T \in F PROVE T \cup {x} \in F
  <2>1. IsFiniteSet(T) /\ Cardinality(T) \in Nat
    BY <1>1, FS_Subset, FS_CardinalityType
  <2>2. Cardinality(T \cup {x}) \in {Cardinality(T), Cardinality(T) + 1}
    BY <2>1, FS_AddElement
  <2> QED BY <1>3, <2>1, <2>2
<1>4. (1..n) \in F
  <2> HIDE DEF F
  <2> QED BY <1>1, <1>2, <1>3, SetInduction
<1> QED BY <1>1, <1>4

\* A set that is not empty has an element to start with.
LEMMA Picking ==
  ASSUME NEW s, s # {}
  PROVE  Pick(s) \in s
BY DEF Pick

\* Without one of its elements a finite set is smaller by one.
LEMMA Fewer ==
  ASSUME NEW S, IsFiniteSet(S), NEW s \in SUBSET S, NEW x \in s
  PROVE  /\ IsFiniteSet(s) /\ Cardinality(s) \in Nat \ {0}
         /\ IsFiniteSet(s \ {x}) /\ Cardinality(s \ {x}) = Cardinality(s) - 1
<1>1. IsFiniteSet(s) /\ Cardinality(s) \in Nat
  BY FS_Subset, FS_CardinalityType
<1>2. Cardinality(s) # 0
  BY <1>1, FS_EmptySet
<1> QED BY <1>1, <1>2, FS_RemoveElement

\* A sum can be built up, one more element at a time.
LEMMA AddsExists ==
  ASSUME NEW f, NEW S, IsFiniteSet(S)
  PROVE  \E g : Adds(f, S, g)
<1> DEFINE P == {n \in Nat : \E g : Partly(f, Small(S, n), g)}
<1>1. 0 \in P
  <2> DEFINE g == [s \in Small(S, 0) |-> 0]
  <2>1. Small(S, 0) = {{}}
    <3>1. \A s \in SUBSET S : IsFiniteSet(s) /\ Cardinality(s) \in Nat
      BY FS_Subset, FS_CardinalityType
    <3>2. \A s \in SUBSET S : Cardinality(s) <= 0 <=> s = {}
      BY <3>1, FS_EmptySet
    <3> QED BY <3>2 DEF Small
  <2>2. Partly(f, Small(S, 0), g)
    BY <2>1 DEF Partly
  <2> QED BY <2>2
<1>2. ASSUME NEW n \in Nat, n \in P PROVE n + 1 \in P
  <2>1. PICK g : Partly(f, Small(S, n), g)
    BY <1>2
  <2> DEFINE h == [s \in Small(S, n + 1) |-> IF s = {} THEN 0 ELSE f[Pick(s)] + g[s \ {Pick(s)}]]
  <2>2. Small(S, n) \subseteq Small(S, n + 1)
    BY FS_Subset, FS_CardinalityType DEF Small
  <2>3. \A s \in Small(S, n) : h[s] = g[s]
    BY <2>1, <2>2 DEF Partly
  <2>4. \A s \in Small(S, n + 1) : s # {} => s \ {Pick(s)} \in Small(S, n)
    BY Fewer, Picking DEF Small
  <2>5. Partly(f, Small(S, n + 1), h)
    BY <2>3, <2>4 DEF Partly
  <2> QED BY <2>5
<1>3. \A n \in Nat : n \in P
  <2> HIDE DEF P
  <2> QED BY <1>1, <1>2, Counting
<1>4. Small(S, Cardinality(S)) = SUBSET S
  BY FS_Subset DEF Small
<1>5. Cardinality(S) \in Nat
  BY FS_CardinalityType
<1> QED BY <1>3, <1>4, <1>5 DEF Partly, Adds

\* It is the same whatever larger set it is built up in.
LEMMA AddsAgree ==
  ASSUME NEW f, NEW S, NEW T, IsFiniteSet(S), IsFiniteSet(T), NEW g, NEW h,
         Adds(f, S, g), Adds(f, T, h)
  PROVE  \A s \in SUBSET (S \cap T) : g[s] = h[s]
<1> DEFINE P == {n \in Nat : \A s \in SUBSET (S \cap T) : Cardinality(s) = n => g[s] = h[s]}
<1>1. IsFiniteSet(S \cap T)
  BY FS_Intersection
<1>2. 0 \in P
  BY <1>1, FS_Subset, FS_EmptySet DEF Adds, Partly
<1>3. ASSUME NEW n \in Nat, n \in P PROVE n + 1 \in P
  <2> SUFFICES ASSUME NEW s \in SUBSET (S \cap T), Cardinality(s) = n + 1 PROVE g[s] = h[s]
    OBVIOUS
  <2>1. s # {}
    BY FS_EmptySet
  <2>2. Pick(s) \in s
    BY <2>1, Picking
  <2>3. s \ {Pick(s)} \in SUBSET (S \cap T) /\ Cardinality(s \ {Pick(s)}) = n
    <3>1. Cardinality(s \ {Pick(s)}) = Cardinality(s) - 1
      BY <1>1, <2>2, Fewer
    <3> QED BY <3>1
  <2>4. g[s \ {Pick(s)}] = h[s \ {Pick(s)}]
    BY <1>3, <2>3
  <2>5. g[s] = f[Pick(s)] + g[s \ {Pick(s)}] /\ h[s] = f[Pick(s)] + h[s \ {Pick(s)}]
    BY <2>1 DEF Adds, Partly
  <2> QED BY <2>4, <2>5
<1>4. \A n \in Nat : n \in P
  <2> HIDE DEF P
  <2> QED BY <1>2, <1>3, Counting
<1>5. \A s \in SUBSET (S \cap T) : Cardinality(s) \in Nat
  BY <1>1, FS_Subset, FS_CardinalityType
<1> QED BY <1>4, <1>5

\* The sum is what a function built up in this way says of the whole set.
LEMMA Unfold ==
  ASSUME NEW f, NEW S
  PROVE SumFunctionOnSet(f, S) = (CHOOSE g : Adds(f, S, g))[S]
BY DEF SumFunctionOnSet, FoldFunctionOnSet, MapThenFoldSet, Adds, Partly, Pick

\* So any function built up in this way tells the sum of every subset.
LEMMA SumIs ==
  ASSUME NEW f, NEW S, IsFiniteSet(S), NEW g, Adds(f, S, g)
  PROVE  \A s \in SUBSET S : SumFunctionOnSet(f, s) = g[s]
<1> SUFFICES ASSUME NEW s \in SUBSET S PROVE SumFunctionOnSet(f, s) = g[s]
  OBVIOUS
<1> DEFINE h == CHOOSE h : Adds(f, s, h)
<1>1. IsFiniteSet(s)
  BY FS_Subset
<1>2. Adds(f, s, h)
  BY <1>1, AddsExists
<1>3. SumFunctionOnSet(f, s) = h[s]
  BY Unfold
<1> HIDE DEF h
<1>4. s \in SUBSET (S \cap s)
  OBVIOUS
<1>5. g[s] = h[s]
  BY <1>1, <1>2, <1>4, AddsAgree
<1> QED BY <1>3, <1>5

\* No terms add up to nothing.
LEMMA SumEmpty == ASSUME NEW f PROVE SumFunctionOnSet(f, {}) = 0
<1>1. PICK g : Adds(f, {}, g)
  BY FS_EmptySet, AddsExists
<1>2. SumFunctionOnSet(f, {}) = g[{}]
  BY <1>1, SumIs, FS_EmptySet
<1> QED BY <1>1, <1>2 DEF Adds, Partly

\* The sum is its first term and the sum of the rest.
LEMMA SumPick ==
  ASSUME NEW f, NEW S, IsFiniteSet(S), S # {}
  PROVE  SumFunctionOnSet(f, S) = f[Pick(S)] + SumFunctionOnSet(f, S \ {Pick(S)})
<1>1. PICK g : Adds(f, S, g)
  BY AddsExists
<1>2. \A s \in SUBSET S : SumFunctionOnSet(f, s) = g[s]
  BY <1>1, SumIs
<1> QED BY <1>1, <1>2 DEF Adds, Partly

\* Natural numbers add up to one, integers to an integer.
LEMMA SumType ==
  ASSUME NEW f, NEW S, IsFiniteSet(S), NEW N \in {Nat, Int}, \A x \in S : f[x] \in N
  PROVE  SumFunctionOnSet(f, S) \in N
<1> DEFINE F == {s \in SUBSET S : SumFunctionOnSet(f, s) \in N}
           P == {n \in Nat : \A s \in SUBSET S : Cardinality(s) = n => SumFunctionOnSet(f, s) \in N}
<1>1. 0 \in P
  BY FS_Subset, FS_EmptySet, SumEmpty
<1>2. ASSUME NEW n \in Nat, n \in P PROVE n + 1 \in P
  <2> SUFFICES ASSUME NEW s \in SUBSET S, Cardinality(s) = n + 1
               PROVE  SumFunctionOnSet(f, s) \in N
    OBVIOUS
  <2>1. IsFiniteSet(s) /\ s # {}
    BY FS_Subset, FS_EmptySet
  <2>2. Pick(s) \in s
    BY <2>1, Picking
  <2>3. Cardinality(s \ {Pick(s)}) = Cardinality(s) - 1
    BY <2>2, Fewer
  <2>4. SumFunctionOnSet(f, s \ {Pick(s)}) \in N
    BY <1>2, <2>3
  <2> QED BY <2>1, <2>2, <2>4, SumPick
<1>3. \A n \in Nat : n \in P
  <2> HIDE DEF P
  <2> QED BY <1>1, <1>2, Counting
<1> QED BY <1>3, FS_CardinalityType

\* The first term may be any of them: the order does not matter.
LEMMA SumAny ==
  ASSUME NEW f, NEW S, IsFiniteSet(S), \A x \in S : f[x] \in Int
  PROVE  \A x \in S : SumFunctionOnSet(f, S) = f[x] + SumFunctionOnSet(f, S \ {x})
<1> DEFINE Sum(s) == SumFunctionOnSet(f, s)
           Good(s) == \A x \in s : Sum(s) = f[x] + Sum(s \ {x})
           P == {n \in Nat : \A s \in SUBSET S : Cardinality(s) = n => Good(s)}
<1>0. \A s \in SUBSET S : Sum(s) \in Int
  BY FS_Subset, SumType
<1>1. 0 \in P
  BY FS_Subset, FS_EmptySet
<1>2. ASSUME NEW n \in Nat, n \in P PROVE n + 1 \in P
  <2> SUFFICES ASSUME NEW s \in SUBSET S, Cardinality(s) = n + 1 PROVE Good(s)
    OBVIOUS
  <2> DEFINE p == Pick(s)
  <2>1. IsFiniteSet(s) /\ s # {}
    BY FS_Subset, FS_EmptySet
  <2>2. p \in s
    BY <2>1, Picking
  <2> HIDE DEF p
  <2>3. Sum(s) = f[p] + Sum(s \ {p})
    BY <2>1, SumPick DEF p
  <2>4. \A x \in s : s \ {x} \in SUBSET S /\ Cardinality(s \ {x}) = n
    BY Fewer
  <2> HIDE DEF Good
  <2>5. \A x \in s : Good(s \ {x})
    BY <1>2, <2>4
  <2> HIDE DEF Sum
  <2>6. ASSUME NEW x \in s, x # p PROVE Sum(s) = f[x] + Sum(s \ {x})
    <3>1. Sum(s \ {p}) = f[x] + Sum((s \ {p}) \ {x})
      BY <2>2, <2>5, <2>6 DEF Good
    <3>2. Sum(s \ {x}) = f[p] + Sum((s \ {x}) \ {p})
      BY <2>2, <2>5, <2>6 DEF Good
    <3>3. (s \ {p}) \ {x} = (s \ {x}) \ {p}
      OBVIOUS
    <3> DEFINE rest == Sum((s \ {x}) \ {p})
    <3>4. f[x] \in Int /\ f[p] \in Int /\ rest \in Int
      BY <1>0, <2>2
    <3>5. Sum(s) = f[p] + (f[x] + rest)
      BY <2>3, <3>1, <3>3
    <3>6. Sum(s \ {x}) = f[p] + rest
      BY <3>2
    <3> HIDE DEF rest
    <3>7. f[p] + (f[x] + rest) = f[x] + (f[p] + rest)
      BY <3>4
    <3> QED BY <3>5, <3>6, <3>7
  <2> QED BY <2>3, <2>6 DEF Good
<1>3. \A n \in Nat : n \in P
  <2> HIDE DEF P
  <2> QED BY <1>1, <1>2, Counting
<1> QED BY <1>3, FS_CardinalityType

\* One more element adds its term.
LEMMA SumAdd ==
  ASSUME NEW f, NEW S, IsFiniteSet(S), NEW x, x \notin S, \A y \in S \cup {x} : f[y] \in Int
  PROVE  SumFunctionOnSet(f, S \cup {x}) = SumFunctionOnSet(f, S) + f[x]
<1>1. IsFiniteSet(S \cup {x})
  BY FS_AddElement
<1>2. SumFunctionOnSet(f, S \cup {x}) = f[x] + SumFunctionOnSet(f, (S \cup {x}) \ {x})
  BY <1>1, SumAny
<1>3. (S \cup {x}) \ {x} = S
  OBVIOUS
<1>4. SumFunctionOnSet(f, S) \in Int /\ f[x] \in Int
  BY SumType
<1>5. SumFunctionOnSet(f, S \cup {x}) = f[x] + SumFunctionOnSet(f, S)
  BY <1>2, <1>3
<1> QED BY <1>4, <1>5

\* Terms that are all zero add up to nothing.
LEMMA SumZero ==
  ASSUME NEW f, NEW S, IsFiniteSet(S), \A x \in S : f[x] = 0
  PROVE  SumFunctionOnSet(f, S) = 0
<1> DEFINE F == {s \in SUBSET S : SumFunctionOnSet(f, s) = 0}
<1>1. {} \in F
  BY SumEmpty
<1>2. ASSUME NEW T \in SUBSET S, NEW x \in S, T \in F PROVE T \cup {x} \in F
  <2>1. CASE x \in T
    <3>1. T \cup {x} = T
      BY <2>1
    <3> QED BY <3>1, <1>2
  <2>2. CASE x \notin T
    <3>1. IsFiniteSet(T)
      BY FS_Subset
    <3>2. SumFunctionOnSet(f, T \cup {x}) = SumFunctionOnSet(f, T) + f[x]
      BY <2>2, <3>1, SumAdd
    <3> QED BY <1>2, <3>2
  <2> QED BY <2>1, <2>2
<1>3. S \in F
  <2> HIDE DEF F
  <2> QED BY <1>1, <1>2, SetInduction
<1> QED BY <1>3

\* A sum grows with its terms ...
LEMMA SumMonotone ==
  ASSUME NEW f, NEW g, NEW S, IsFiniteSet(S),
         \A x \in S : f[x] \in Int /\ g[x] \in Int /\ f[x] <= g[x]
  PROVE  SumFunctionOnSet(f, S) <= SumFunctionOnSet(g, S)
<1> DEFINE F == {s \in SUBSET S : SumFunctionOnSet(f, s) <= SumFunctionOnSet(g, s)}
<1>1. {} \in F
  BY SumEmpty
<1>2. ASSUME NEW T \in SUBSET S, NEW x \in S, T \in F PROVE T \cup {x} \in F
  <2>1. CASE x \in T
    <3>1. T \cup {x} = T
      BY <2>1
    <3> QED BY <3>1, <1>2
  <2>2. CASE x \notin T
    <3>1. IsFiniteSet(T)
      BY FS_Subset
    <3>2. /\ SumFunctionOnSet(f, T \cup {x}) = SumFunctionOnSet(f, T) + f[x]
          /\ SumFunctionOnSet(g, T \cup {x}) = SumFunctionOnSet(g, T) + g[x]
      BY <2>2, <3>1, SumAdd
    <3>3. SumFunctionOnSet(f, T) \in Int /\ SumFunctionOnSet(g, T) \in Int
      BY <3>1, SumType
    <3> QED BY <1>2, <3>2, <3>3
  <2> QED BY <2>1, <2>2
<1>3. S \in F
  <2> HIDE DEF F
  <2> QED BY <1>1, <1>2, SetInduction
<1> QED BY <1>3

\* ... and depends on its terms alone.
LEMMA SumSame ==
  ASSUME NEW f, NEW g, NEW S, IsFiniteSet(S), \A x \in S : f[x] \in Int /\ f[x] = g[x]
  PROVE  SumFunctionOnSet(f, S) = SumFunctionOnSet(g, S)
<1>1. SumFunctionOnSet(f, S) <= SumFunctionOnSet(g, S)
  BY SumMonotone
<1>2. SumFunctionOnSet(g, S) <= SumFunctionOnSet(f, S)
  BY SumMonotone
<1>3. SumFunctionOnSet(f, S) \in Int /\ SumFunctionOnSet(g, S) \in Int
  BY SumType
<1> QED BY <1>1, <1>2, <1>3

\* Fewer terms that are natural numbers add up to no more.
LEMMA SumSubset ==
  ASSUME NEW f, NEW S, IsFiniteSet(S), \A x \in S : f[x] \in Nat, NEW T \in SUBSET S
  PROVE  SumFunctionOnSet(f, T) <= SumFunctionOnSet(f, S)
<1> DEFINE F == {s \in SUBSET S : SumFunctionOnSet(f, T) <= SumFunctionOnSet(f, T \cup s)}
<1>1. {} \in F
  <2>1. T \cup {} = T /\ SumFunctionOnSet(f, T) \in Nat
    BY FS_Subset, SumType
  <2> QED BY <2>1
<1>2. ASSUME NEW s \in SUBSET S, NEW x \in S, s \in F PROVE s \cup {x} \in F
  <2>1. CASE x \in T \cup s
    <3>1. T \cup (s \cup {x}) = T \cup s
      BY <2>1
    <3> QED BY <3>1, <1>2
  <2>2. CASE x \notin T \cup s
    <3>1. IsFiniteSet(T \cup s) /\ IsFiniteSet(T)
      BY FS_Subset
    <3>2. SumFunctionOnSet(f, (T \cup s) \cup {x}) = SumFunctionOnSet(f, T \cup s) + f[x]
      BY <2>2, <3>1, SumAdd
    <3>3. SumFunctionOnSet(f, T) \in Nat /\ SumFunctionOnSet(f, T \cup s) \in Nat /\ f[x] \in Nat
      BY <3>1, SumType
    <3>4. T \cup (s \cup {x}) = (T \cup s) \cup {x}
      OBVIOUS
    <3>5. SumFunctionOnSet(f, T \cup (s \cup {x})) = SumFunctionOnSet(f, T \cup s) + f[x]
      BY <3>2, <3>4
    <3>6. SumFunctionOnSet(f, T) <= SumFunctionOnSet(f, T \cup s)
      BY <1>2
    <3>7. SumFunctionOnSet(f, T) <= SumFunctionOnSet(f, T \cup (s \cup {x}))
      BY <3>3, <3>5, <3>6
    <3> QED BY <3>7
  <2> QED BY <2>1, <2>2
<1>3. S \in F
  <2> HIDE DEF F
  <2> QED BY <1>1, <1>2, SetInduction
<1>4. T \cup S = S
  OBVIOUS
<1> QED BY <1>3, <1>4

\* Sums add up term by term.
LEMMA SumPlus ==
  ASSUME NEW f, NEW g, NEW h, NEW S, IsFiniteSet(S),
         \A x \in S : f[x] \in Int /\ g[x] \in Int /\ h[x] = f[x] + g[x]
  PROVE  SumFunctionOnSet(h, S) = SumFunctionOnSet(f, S) + SumFunctionOnSet(g, S)
<1> DEFINE F == {s \in SUBSET S : SumFunctionOnSet(h, s)
                                  = SumFunctionOnSet(f, s) + SumFunctionOnSet(g, s)}
<1>1. {} \in F
  BY SumEmpty
<1>2. ASSUME NEW T \in SUBSET S, NEW x \in S, T \in F PROVE T \cup {x} \in F
  <2>1. CASE x \in T
    <3>1. T \cup {x} = T
      BY <2>1
    <3> QED BY <3>1, <1>2
  <2>2. CASE x \notin T
    <3>1. IsFiniteSet(T)
      BY FS_Subset
    <3>2. \A y \in S : h[y] \in Int
      OBVIOUS
    <3>3. /\ SumFunctionOnSet(f, T \cup {x}) = SumFunctionOnSet(f, T) + f[x]
          /\ SumFunctionOnSet(g, T \cup {x}) = SumFunctionOnSet(g, T) + g[x]
          /\ SumFunctionOnSet(h, T \cup {x}) = SumFunctionOnSet(h, T) + h[x]
      BY <2>2, <3>1, <3>2, SumAdd
    <3>4. SumFunctionOnSet(f, T) \in Int /\ SumFunctionOnSet(g, T) \in Int
      BY <3>1, SumType
    <3>5. SumFunctionOnSet(h, T) = SumFunctionOnSet(f, T) + SumFunctionOnSet(g, T)
      BY <1>2
    <3>6. SumFunctionOnSet(h, T \cup {x})
            = SumFunctionOnSet(f, T \cup {x}) + SumFunctionOnSet(g, T \cup {x})
      BY <3>3, <3>4, <3>5
    <3> QED BY <3>6
  <2> QED BY <2>1, <2>2
<1>3. S \in F
  <2> HIDE DEF F
  <2> QED BY <1>1, <1>2, SetInduction
<1> QED BY <1>3

\* Changing one term by d changes the sum by d.
LEMMA SumBump ==
  ASSUME NEW f, NEW g, NEW S, IsFiniteSet(S), NEW x \in S, NEW d \in Int,
         \A y \in S : f[y] \in Int /\ g[y] = IF y = x THEN f[y] + d ELSE f[y]
  PROVE  SumFunctionOnSet(g, S) = SumFunctionOnSet(f, S) + d
<1>1. \A y \in S : g[y] \in Int
  OBVIOUS
<1>2. IsFiniteSet(S \ {x})
  BY FS_Subset
<1>3. /\ SumFunctionOnSet(f, S) = f[x] + SumFunctionOnSet(f, S \ {x})
      /\ SumFunctionOnSet(g, S) = g[x] + SumFunctionOnSet(g, S \ {x})
  BY <1>1, SumAny
<1>4. SumFunctionOnSet(f, S \ {x}) = SumFunctionOnSet(g, S \ {x})
  BY <1>2, SumSame
<1>5. SumFunctionOnSet(f, S \ {x}) \in Int
  BY <1>2, SumType
<1>6. f[x] \in Int /\ g[x] = f[x] + d
  OBVIOUS
<1> QED BY <1>3, <1>4, <1>5, <1>6

\* A sum may be taken group by group.
LEMMA SumGrouped ==
  ASSUME NEW f, NEW S, IsFiniteSet(S), NEW T, IsFiniteSet(T), NEW h, \A x \in S : h[x] \in T,
         \A x \in S : f[x] \in Int
  PROVE  SumFunctionOnSet([t \in T |-> SumFunctionOnSet(f, {x \in S : h[x] = t})], T)
           = SumFunctionOnSet(f, S)
<1> DEFINE Group(s, t) == {x \in s : h[x] = t}
           Groups(s) == [t \in T |-> SumFunctionOnSet(f, Group(s, t))]
           F == {s \in SUBSET S : SumFunctionOnSet(Groups(s), T) = SumFunctionOnSet(f, s)}
<1>1. {} \in F
  <2> DEFINE zero == Groups({})
  <2>1. \A t \in T : zero[t] = 0
    <3>1. \A t \in T : Group({}, t) = {}
      OBVIOUS
    <3> QED BY <3>1, SumEmpty
  <2> HIDE DEF zero
  <2>2. SumFunctionOnSet(zero, T) = 0
    BY <2>1, SumZero
  <2>3. SumFunctionOnSet(zero, T) = SumFunctionOnSet(f, {})
    BY <2>2, SumEmpty
  <2> QED BY <2>3 DEF zero
<1>2. ASSUME NEW s \in SUBSET S, NEW y \in S, s \in F PROVE s \cup {y} \in F
  <2>1. CASE y \in s
    <3>1. s \cup {y} = s
      BY <2>1
    <3> QED BY <3>1, <1>2
  <2>2. CASE y \notin s
    <3> DEFINE more == s \cup {y}
    <3>1. IsFiniteSet(s)
      BY FS_Subset
    <3>2. \A t \in T : IsFiniteSet(Group(s, t)) /\ Group(s, t) \subseteq S
      BY <3>1, FS_Subset
    <3>3. \A t \in T : Groups(s)[t] \in Int
      BY <3>2, SumType
    <3>4. \A t \in T : Groups(more)[t] = IF t = h[y] THEN Groups(s)[t] + f[y] ELSE Groups(s)[t]
      <4> SUFFICES ASSUME NEW t \in T
                   PROVE  SumFunctionOnSet(f, Group(more, t))
                            = IF t = h[y] THEN SumFunctionOnSet(f, Group(s, t)) + f[y]
                                          ELSE SumFunctionOnSet(f, Group(s, t))
        OBVIOUS
      <4>1. CASE t = h[y]
        <5>1. Group(more, t) = Group(s, t) \cup {y} /\ y \notin Group(s, t)
          BY <2>2, <4>1
        <5>2. SumFunctionOnSet(f, Group(s, t) \cup {y}) = SumFunctionOnSet(f, Group(s, t)) + f[y]
          <6> HIDE DEF Group
          <6> QED BY <3>2, <5>1, SumAdd
        <5> QED BY <4>1, <5>1, <5>2
      <4>2. CASE t # h[y]
        <5>1. Group(more, t) = Group(s, t)
          BY <4>2
        <5> QED BY <4>2, <5>1
      <4> QED BY <4>1, <4>2
    <3> HIDE DEF Groups
    <3>5. SumFunctionOnSet(Groups(more), T) = SumFunctionOnSet(Groups(s), T) + f[y]
      <4> DEFINE old == Groups(s)
                 new == Groups(more)
      <4>1. \A t \in T : old[t] \in Int /\ new[t] = IF t = h[y] THEN old[t] + f[y] ELSE old[t]
        BY <3>3, <3>4
      <4> HIDE DEF old, new
      <4>2. h[y] \in T /\ f[y] \in Int
        OBVIOUS
      <4>3. SumFunctionOnSet(new, T) = SumFunctionOnSet(old, T) + f[y]
        BY <4>1, <4>2, SumBump
      <4> QED BY <4>3 DEF old, new
    <3>6. SumFunctionOnSet(f, more) = SumFunctionOnSet(f, s) + f[y]
      BY <2>2, <3>1, SumAdd
    <3>7. SumFunctionOnSet(Groups(s), T) = SumFunctionOnSet(f, s)
      BY <1>2
    <3> QED BY <3>5, <3>6, <3>7
  <2> QED BY <2>1, <2>2
<1>3. S \in F
  <2> HIDE DEF F
  <2> QED BY <1>1, <1>2, SetInduction
<1> QED BY <1>3

\* Terms of at most M add up to at most M for each.
LEMMA SumBounded ==
  ASSUME NEW f, NEW S, IsFiniteSet(S), NEW M \in Nat, \A x \in S : f[x] \in Nat /\ f[x] <= M
  PROVE  SumFunctionOnSet(f, S) <= Cardinality(S) * M
<1> DEFINE F == {s \in SUBSET S : SumFunctionOnSet(f, s) <= Cardinality(s) * M}
<1>1. {} \in F
  BY SumEmpty, FS_EmptySet
<1>2. ASSUME NEW T \in SUBSET S, NEW x \in S, T \in F PROVE T \cup {x} \in F
  <2>1. CASE x \in T
    <3>1. T \cup {x} = T
      BY <2>1
    <3> QED BY <1>2, <3>1
  <2>2. CASE x \notin T
    <3>1. IsFiniteSet(T) /\ Cardinality(T) \in Nat /\ Cardinality(T \cup {x}) = Cardinality(T) + 1
      BY <2>2, FS_Subset, FS_CardinalityType, FS_AddElement
    <3>2. \A y \in T \cup {x} : f[y] \in Int
      OBVIOUS
    <3>3. SumFunctionOnSet(f, T \cup {x}) = SumFunctionOnSet(f, T) + f[x]
      BY <2>2, <3>1, <3>2, SumAdd
    <3>4. SumFunctionOnSet(f, T) \in Nat
      BY <3>1, SumType
    <3>5. PICK n \in Nat, a \in Nat, b \in Nat :
             n = Cardinality(T) /\ a = SumFunctionOnSet(f, T) /\ b = f[x]
      BY <3>1, <3>4
    <3>6. a <= n * M /\ b <= M
      BY <1>2, <3>5
    <3>7. (n + 1) * M = n * M + M /\ n * M \in Nat
      OBVIOUS
    <3>8. a + b <= (n + 1) * M
      BY <3>6, <3>7
    <3> QED BY <3>1, <3>3, <3>5, <3>8
  <2> QED BY <2>1, <2>2
<1> HIDE DEF F
<1>3. S \in F
  BY <1>1, <1>2, SetInduction
<1> QED BY <1>3 DEF F

\* One of the elements of a finite set has the greatest term.
LEMMA Greatest ==
  ASSUME NEW f, NEW S, IsFiniteSet(S), S # {}, \A x \in S : f[x] \in Int
  PROVE  \E m \in S : \A y \in S : f[m] >= f[y]
<1> DEFINE F == {s \in SUBSET S : s = {} \/ \E m \in s : \A y \in s : f[m] >= f[y]}
<1>1. {} \in F
  OBVIOUS
<1>2. ASSUME NEW T \in SUBSET S, NEW x \in S, T \in F PROVE T \cup {x} \in F
  <2>1. CASE T = {}
    BY <2>1
  <2>2. CASE T # {}
    <3>1. PICK m \in T : \A y \in T : f[m] >= f[y]
      BY <1>2, <2>2
    <3>2. CASE f[m] >= f[x]
      BY <3>1, <3>2
    <3>3. CASE ~(f[m] >= f[x])
      <4>1. \A y \in T \cup {x} : f[x] >= f[y]
        BY <3>1, <3>3
      <4> QED BY <4>1
    <3> QED BY <3>2, <3>3
  <2> QED BY <2>1, <2>2
<1> HIDE DEF F
<1>3. S \in F
  BY <1>1, <1>2, SetInduction
<1> QED BY <1>3 DEF F
===============================================================================

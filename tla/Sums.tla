------------------------------- MODULE Sums -------------------------------
(***************************************************************************)
(* What the folds of the community modules add up to, for the theorems     *)
(* about balances and limits: the sum of the values of a function over a   *)
(* finite set.  The facts follow from a least set that would violate them. *)
(***************************************************************************)
EXTENDS Integers, FiniteSets, Functions, TLAPS, FiniteSetTheorems

\* The element a fold takes next.
First(s) == CHOOSE x \in s : TRUE

\* h holds, for every part of S, the sum of f over it.
Adds(f, S, h) == h = [s \in SUBSET S |-> IF s = {} THEN 0 ELSE f[First(s)] + h[s \ {First(s)}]]

Total(f, S) == (CHOOSE h : Adds(f, S, h))[S]

----------------------------------------------------------------------------
LEMMA FirstIn == \A s : s # {} => First(s) \in s
BY DEF First

\* Of the finite sets with some property one has no smaller one.
LEMMA LeastSet ==
  ASSUME NEW S, IsFiniteSet(S), NEW Bad \in SUBSET (SUBSET S), Bad # {}
  PROVE  \E s \in Bad : \A r \in SUBSET s : r # s => r \notin Bad
<1>1. \A s \in SUBSET S : IsFiniteSet(s)
  BY FS_Subset
<1>2. Bad \subseteq FiniteSubsetsOf(S)
  BY <1>1 DEF FiniteSubsetsOf
<1>3. PICK s \in Bad : \A r \in Bad : ~(<<r, s>> \in StrictSubsetOrdering(S))
  BY <1>2, FS_StrictSubsetOrderingWellFounded, WFMin
<1>4. \A r \in SUBSET s : r # s => r \notin Bad
  BY <1>3 DEF StrictSubsetOrdering
<1> QED
  BY <1>4

\* Two such functions agree on what they share.
LEMMA AddsUnique ==
  ASSUME NEW f, NEW S, NEW T, IsFiniteSet(S), NEW g, NEW h, Adds(f, S, g), Adds(f, T, h), S \subseteq T
  PROVE  \A s \in SUBSET S : g[s] = h[s]
<1> DEFINE Bad == {s \in SUBSET S : g[s] # h[s]}
<1> SUFFICES ASSUME Bad # {}
             PROVE  FALSE
  OBVIOUS
<1>1. PICK s \in Bad : \A r \in SUBSET s : r # s => r \notin Bad
  <2>1. Bad \in SUBSET (SUBSET S)
    OBVIOUS
  <2> HIDE DEF Bad
  <2> QED
    BY <2>1, LeastSet
<1>2. /\ g[s] = IF s = {} THEN 0 ELSE f[First(s)] + g[s \ {First(s)}]
      /\ h[s] = IF s = {} THEN 0 ELSE f[First(s)] + h[s \ {First(s)}]
  BY DEF Adds
<1>3. s # {} => g[s \ {First(s)}] = h[s \ {First(s)}]
  BY <1>1, FirstIn
<1> QED
  BY <1>2, <1>3

LEMMA AddsExists ==
  ASSUME NEW f, NEW S, IsFiniteSet(S)
  PROVE  \E h : Adds(f, S, h)
<1> DEFINE Bad == {s \in SUBSET S : ~\E h : Adds(f, s, h)}
<1> SUFFICES ASSUME Bad # {}
             PROVE  FALSE
  OBVIOUS
<1>1. PICK T \in Bad : \A r \in SUBSET T : r # T => r \notin Bad
  <2>1. Bad \in SUBSET (SUBSET S)
    OBVIOUS
  <2> HIDE DEF Bad
  <2> QED
    BY <2>1, LeastSet
<1>2. T \in SUBSET S /\ IsFiniteSet(T) /\ ~\E h : Adds(f, T, h)
  BY FS_Subset
<1>3. \A r \in SUBSET T : r # T => \E h : Adds(f, r, h)
  BY <1>1, <1>2
<1> HIDE DEF Bad
<1> DEFINE H(r) == CHOOSE h : Adds(f, r, h)
           Rest(s) == s \ {First(s)}
           g == [s \in SUBSET T |-> IF s = {} THEN 0 ELSE f[First(s)] + H(Rest(s))[Rest(s)]]
<1>4. \A r \in SUBSET T : r # T => Adds(f, r, H(r))
  BY <1>3
<1>5. \A s \in SUBSET T : s # {} => Rest(s) \in SUBSET T /\ Rest(s) # T /\ Rest(s) \in SUBSET s
  BY FirstIn
<1> HIDE DEF H
<1>6. ASSUME NEW r \in SUBSET T, r # T
      PROVE  g[r] = H(r)[r]
  <2>1. CASE r = {}
    BY <1>4, <1>6, <2>1 DEF Adds
  <2>2. CASE r # {}
    <3>1. H(r)[r] = f[First(r)] + H(r)[Rest(r)]
      BY <1>4, <1>6, <2>2 DEF Adds
    <3>2. Adds(f, r, H(r)) /\ Adds(f, Rest(r), H(Rest(r)))
      BY <1>4, <1>5, <1>6, <2>2
    <3>3. IsFiniteSet(Rest(r)) /\ Rest(r) \subseteq r
      BY <1>2, <1>5, <2>2, FS_Subset
    <3> HIDE DEF Rest
    <3>4. H(Rest(r))[Rest(r)] = H(r)[Rest(r)]
      BY <3>2, <3>3, AddsUnique
    <3> QED
      BY <2>2, <3>1, <3>4
  <2> QED
    BY <2>1, <2>2
<1>7. Adds(f, T, g)
  <2>1. \A s \in SUBSET T : g[s] = IF s = {} THEN 0 ELSE f[First(s)] + g[Rest(s)]
    BY <1>5, <1>6
  <2>2. g = [s \in SUBSET T |-> g[s]]
    OBVIOUS
  <2> HIDE DEF g
  <2>3. g = [s \in SUBSET T |-> IF s = {} THEN 0 ELSE f[First(s)] + g[Rest(s)]]
    BY <2>1, <2>2
  <2> QED
    BY <2>3 DEF Adds
<1> QED
  BY <1>2, <1>7

\* The sum, as the recursion computes it.
LEMMA TotalAdds ==
  ASSUME NEW f, NEW S, IsFiniteSet(S)
  PROVE  \E h : Adds(f, S, h) /\ \A s \in SUBSET S : h[s] = Total(f, s)
<1>1. \A s \in SUBSET S : Adds(f, s, CHOOSE h : Adds(f, s, h))
  BY AddsExists, FS_Subset
<1> DEFINE h == CHOOSE g : Adds(f, S, g)
<1>2. Adds(f, S, h)
  BY <1>1
<1>3. ASSUME NEW s \in SUBSET S
      PROVE  h[s] = Total(f, s)
  <2> DEFINE g == CHOOSE k : Adds(f, s, k)
  <2>1. Adds(f, s, g) /\ IsFiniteSet(s)
    BY <1>1, FS_Subset
  <2>2. Total(f, s) = g[s]
    BY DEF Total
  <2> HIDE DEF g, h
  <2> QED
    BY <1>2, <2>1, <2>2, AddsUnique
<1> HIDE DEF h
<1> QED
  BY <1>2, <1>3

LEMMA TotalStep ==
  ASSUME NEW f, NEW S, IsFiniteSet(S)
  PROVE  Total(f, S) = IF S = {} THEN 0 ELSE f[First(S)] + Total(f, S \ {First(S)})
<1>1. PICK h : Adds(f, S, h) /\ \A s \in SUBSET S : h[s] = Total(f, s)
  BY TotalAdds
<1>2. h[S] = IF S = {} THEN 0 ELSE f[First(S)] + h[S \ {First(S)}]
  BY <1>1 DEF Adds
<1> QED
  BY <1>1, <1>2

LEMMA TotalType ==
  ASSUME NEW S, IsFiniteSet(S), NEW f, \A x \in S : f[x] \in Int
  PROVE  Total(f, S) \in Int
<1> DEFINE Bad == {s \in SUBSET S : Total(f, s) \notin Int}
<1> SUFFICES ASSUME Bad # {}
             PROVE  FALSE
  OBVIOUS
<1>1. PICK s \in Bad : \A r \in SUBSET s : r # s => r \notin Bad
  <2>1. Bad \in SUBSET (SUBSET S)
    OBVIOUS
  <2> HIDE DEF Bad
  <2> QED
    BY <2>1, LeastSet
<1>2. s \in SUBSET S /\ IsFiniteSet(s) /\ Total(f, s) \notin Int
  BY FS_Subset
<1>3. Total(f, s) = IF s = {} THEN 0 ELSE f[First(s)] + Total(f, s \ {First(s)})
  BY <1>2, TotalStep
<1>4. s # {} => Total(f, s \ {First(s)}) \in Int /\ f[First(s)] \in Int
  BY <1>1, <1>2, FirstIn
<1> QED
  BY <1>2, <1>3, <1>4

\* Functions that differ by d at x alone.
LEMMA TotalChange ==
  ASSUME NEW S, IsFiniteSet(S), NEW f, \A y \in S : f[y] \in Int, NEW g, NEW x, NEW d \in Int,
         \A y \in S : g[y] = IF y = x THEN f[y] + d ELSE f[y]
  PROVE  Total(g, S) = Total(f, S) + (IF x \in S THEN d ELSE 0)
<1> DEFINE Bad == {s \in SUBSET S : Total(g, s) # Total(f, s) + (IF x \in s THEN d ELSE 0)}
<1> SUFFICES ASSUME Bad # {}
             PROVE  FALSE
  OBVIOUS
<1>1. PICK s \in Bad : \A r \in SUBSET s : r # s => r \notin Bad
  <2>1. Bad \in SUBSET (SUBSET S)
    OBVIOUS
  <2> HIDE DEF Bad
  <2> QED
    BY <2>1, LeastSet
<1>2. s \in SUBSET S /\ IsFiniteSet(s) /\ Total(g, s) # Total(f, s) + (IF x \in s THEN d ELSE 0)
  BY FS_Subset
<1>3. /\ Total(f, s) = IF s = {} THEN 0 ELSE f[First(s)] + Total(f, s \ {First(s)})
      /\ Total(g, s) = IF s = {} THEN 0 ELSE g[First(s)] + Total(g, s \ {First(s)})
  BY <1>2, TotalStep
<1>4. CASE s = {}
  BY <1>2, <1>3, <1>4
<1>5. CASE s # {}
  <2> DEFINE y == First(s)
             r == s \ {y}
  <2>1. y \in s /\ y \in S /\ r \in SUBSET s /\ r # s
    BY <1>2, <1>5, FirstIn
  <2>2. Total(g, r) = Total(f, r) + (IF x \in r THEN d ELSE 0)
    BY <1>1, <1>2, <2>1
  <2>3. /\ Total(f, s) = f[y] + Total(f, r)
        /\ Total(g, s) = g[y] + Total(g, r)
    BY <1>3, <1>5
  <2>4. IsFiniteSet(r) /\ \A z \in r : f[z] \in Int
    BY <1>2, <2>1, FS_Subset
  <2>5. Total(f, r) \in Int
    <3> HIDE DEF r
    <3> QED
      BY <2>4, TotalType
  <2>6. f[y] \in Int /\ g[y] = (IF y = x THEN f[y] + d ELSE f[y]) /\ (x \in s <=> x = y \/ x \in r)
        /\ y \notin r
    BY <2>1
  <2> HIDE DEF y, r
  <2> QED
    BY <1>2, <2>2, <2>3, <2>5, <2>6
<1> QED
  BY <1>4, <1>5

\* Functions equal on the set have one sum.
LEMMA TotalSame ==
  ASSUME NEW S, IsFiniteSet(S), NEW f, \A y \in S : f[y] \in Int, NEW g, \A y \in S : g[y] = f[y]
  PROVE  Total(g, S) = Total(f, S)
<1>1. \A y \in S : g[y] = IF y = S THEN f[y] + 0 ELSE f[y]
  OBVIOUS
<1>2. Total(g, S) = Total(f, S) + (IF S \in S THEN 0 ELSE 0)
  BY <1>1, TotalChange
<1> QED
  BY <1>2, TotalType

LEMMA TotalNat ==
  ASSUME NEW S, IsFiniteSet(S), NEW f, \A y \in S : f[y] \in Nat
  PROVE  Total(f, S) \in Nat
<1> DEFINE Bad == {s \in SUBSET S : Total(f, s) \notin Nat}
<1> SUFFICES ASSUME Bad # {}
             PROVE  FALSE
  OBVIOUS
<1>1. PICK s \in Bad : \A r \in SUBSET s : r # s => r \notin Bad
  <2>1. Bad \in SUBSET (SUBSET S)
    OBVIOUS
  <2> HIDE DEF Bad
  <2> QED
    BY <2>1, LeastSet
<1>2. s \in SUBSET S /\ IsFiniteSet(s) /\ Total(f, s) \notin Nat
  BY FS_Subset
<1>3. Total(f, s) = IF s = {} THEN 0 ELSE f[First(s)] + Total(f, s \ {First(s)})
  BY <1>2, TotalStep
<1>4. s # {} => Total(f, s \ {First(s)}) \in Nat /\ f[First(s)] \in Nat
  BY <1>1, <1>2, FirstIn
<1> QED
  BY <1>2, <1>3, <1>4

LEMMA TotalZero ==
  ASSUME NEW S, IsFiniteSet(S), NEW f, \A y \in S : f[y] = 0
  PROVE  Total(f, S) = 0
<1> DEFINE Bad == {s \in SUBSET S : Total(f, s) # 0}
<1> SUFFICES ASSUME Bad # {}
             PROVE  FALSE
  OBVIOUS
<1>1. PICK s \in Bad : \A r \in SUBSET s : r # s => r \notin Bad
  <2>1. Bad \in SUBSET (SUBSET S)
    OBVIOUS
  <2> HIDE DEF Bad
  <2> QED
    BY <2>1, LeastSet
<1>2. s \in SUBSET S /\ IsFiniteSet(s) /\ Total(f, s) # 0
  BY FS_Subset
<1>3. Total(f, s) = IF s = {} THEN 0 ELSE f[First(s)] + Total(f, s \ {First(s)})
  BY <1>2, TotalStep
<1>4. s # {} => Total(f, s \ {First(s)}) = 0 /\ f[First(s)] = 0
  BY <1>1, <1>2, FirstIn
<1> QED
  BY <1>2, <1>3, <1>4

----------------------------------------------------------------------------
\* The sum of the community modules is this one.
LEMMA SumIsTotal == \A f, S : SumFunctionOnSet(f, S) = Total(f, S)
<1> SUFFICES ASSUME NEW f, NEW S
             PROVE  SumFunctionOnSet(f, S) = Total(f, S)
  OBVIOUS
<1> DEFINE Body(h) == [s \in SUBSET S |->
                         IF s = {} THEN 0 ELSE f[First(s)] + h[s \ {First(s)}]]
<1>1. SumFunctionOnSet(f, S) = (CHOOSE h : h = Body(h))[S]
  BY DEF SumFunctionOnSet, FoldFunctionOnSet, MapThenFoldSet, First
<1> QED
  BY <1>1 DEF Total, Adds

=============================================================================

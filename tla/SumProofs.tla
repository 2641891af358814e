------------------------------ MODULE SumProofs -----------------------------
(***************************************************************************)
(* Sums over finite sets, as the averages of the simulator use them: what  *)
(* MapThenSumSet adds up does not depend on the order in which it chooses  *)
(* the elements.                                                           *)
(***************************************************************************)
EXTENDS FiniteSetsExt, FiniteSetTheorems, WellFoundedInduction, TLAPS
-----------------------------------------------------------------------------
(* Induction, as the existence of a smallest counterexample. *)

LEMMA SmallestSubset ==
  ASSUME NEW S, IsFiniteSet(S), NEW Bad \in SUBSET (SUBSET S), Bad # {}
  PROVE  \E T \in Bad : \A U \in SUBSET T : U # T => U \notin Bad
  <1>1. Bad \subseteq FiniteSubsetsOf(S)
    BY FS_Subset DEF FiniteSubsetsOf
  <1>2. IsWellFoundedOn(StrictSubsetOrdering(S), FiniteSubsetsOf(S))
    BY FS_StrictSubsetOrderingWellFounded
  <1>3. PICK T \in Bad : \A U \in Bad : <<U, T>> \notin StrictSubsetOrdering(S)
    BY <1>1, <1>2, WFMin
  <1>4. ASSUME NEW U \in Bad, U \subseteq T, U # T PROVE FALSE
    BY <1>3, <1>4 DEF StrictSubsetOrdering
  <1> QED
    BY <1>4

\* Induction over a finite set, with a set of sets for the predicate.
LEMMA SetInduction ==
  ASSUME NEW S, IsFiniteSet(S), NEW P, {} \in P,
         \A T \in SUBSET S : T \in P => \A x \in S \ T : T \cup {x} \in P
  PROVE  S \in P
  <1> DEFINE Bad == (SUBSET S) \ P
  <1> SUFFICES ASSUME Bad # {} PROVE FALSE
    OBVIOUS
  <1>1. PICK T \in Bad : \A u \in SUBSET T : u # T => u \notin Bad
    <2>1. Bad \in SUBSET (SUBSET S)
      OBVIOUS
    <2> HIDE DEF Bad
    <2> QED
      BY <2>1, SmallestSubset
  <1>2. PICK x \in T : TRUE
    <2>1. T # {}
      BY <1>1
    <2> QED
      BY <2>1
  <1>3. T \ {x} \in P
    BY <1>1, <1>2
  <1>4. (T \ {x}) \cup {x} \in P
    BY <1>1, <1>2, <1>3
  <1>5. (T \ {x}) \cup {x} = T
    BY <1>2
  <1> QED
    BY <1>1, <1>4, <1>5

LEMMA SmallestNumber ==
  ASSUME NEW Bad \in SUBSET Nat, Bad # {}
  PROVE  \E m \in Bad : \A k \in Bad : m <= k
  <1>1. PICK m \in Bad : \A k \in Bad : <<k, m>> \notin OpToRel(<, Nat)
    BY NatLessThanWellFounded, WFMin
  <1>2. \A k \in Bad : ~(k < m)
    BY <1>1 DEF OpToRel
  <1> QED
    BY <1>2
-----------------------------------------------------------------------------
(* The sum of a function over a set. *)

SumOver(f, S) == MapThenSumSet(LAMBDA x : f[x], S)

First(s) == CHOOSE x \in s : TRUE

\* The function by which the sum is defined.
AddsUp(f, g, S) ==
  g = [s \in SUBSET S |-> IF s = {} THEN 0
                          ELSE f[First(s)] + g[s \ {First(s)}]]

LEMMA SumOverIs ==
  ASSUME NEW f, NEW S
  PROVE  SumOver(f, S) = (CHOOSE g : AddsUp(f, g, S))[S]
  BY DEF SumOver, MapThenSumSet, MapThenFoldSet, First, AddsUp

LEMMA FirstIn ==
  ASSUME NEW S, S # {}
  PROVE  First(S) \in S
  BY DEF First

LEMMA AddsUpOnce ==
  ASSUME NEW f, NEW S, NEW T, NEW g, NEW h, IsFiniteSet(S), T \subseteq S,
         AddsUp(f, g, S), AddsUp(f, h, T)
  PROVE  \A s \in SUBSET T : g[s] = h[s]
  <1> DEFINE Bad == {s \in SUBSET T : g[s] # h[s]}
  <1> SUFFICES ASSUME Bad # {} PROVE FALSE
    OBVIOUS
  <1>1. PICK s \in Bad : \A u \in SUBSET s : u # s => u \notin Bad
    <2>1. Bad \in SUBSET (SUBSET T) /\ IsFiniteSet(T)
      BY FS_Subset
    <2> HIDE DEF Bad
    <2> QED
      BY <2>1, SmallestSubset
  <1>2. s # {}
    BY <1>1 DEF AddsUp
  <1>3. g[s \ {First(s)}] = h[s \ {First(s)}]
    BY <1>1, <1>2, FirstIn
  <1>4. s \in SUBSET S /\ s \in SUBSET T
    BY <1>1
  <1>5. g[s] = f[First(s)] + g[s \ {First(s)}]
    BY <1>2, <1>4 DEF AddsUp
  <1>6. h[s] = f[First(s)] + h[s \ {First(s)}]
    BY <1>2, <1>4 DEF AddsUp
  <1> QED
    BY <1>1, <1>3, <1>5, <1>6

\* If there is such a function for a set, SumOver obeys its equation there.
LEMMA SumStep ==
  ASSUME NEW f, NEW S, IsFiniteSet(S),
         \A s \in SUBSET S : \E g : AddsUp(f, g, s)
  PROVE  SumOver(f, S) = IF S = {} THEN 0
                         ELSE f[First(S)] + SumOver(f, S \ {First(S)})
  <1> DEFINE T == S \ {First(S)}
             g == CHOOSE gg : AddsUp(f, gg, S)
             h == CHOOSE hh : AddsUp(f, hh, T)
  <1>1. AddsUp(f, g, S) /\ AddsUp(f, h, T)
    OBVIOUS
  <1>2. g[T] = h[T]
    BY <1>1, AddsUpOnce
  <1>3. g[S] = IF S = {} THEN 0 ELSE f[First(S)] + g[T]
    BY <1>1 DEF AddsUp
  <1> QED
    BY <1>2, <1>3, SumOverIs

LEMMA AddsUpExists ==
  ASSUME NEW f, NEW S, IsFiniteSet(S)
  PROVE  \E g : AddsUp(f, g, S)
  <1> DEFINE Bad == {s \in SUBSET S : ~ \E g : AddsUp(f, g, s)}
  <1> SUFFICES ASSUME Bad # {} PROVE FALSE
    OBVIOUS
  <1>1. PICK T \in Bad : \A u \in SUBSET T : u # T => u \notin Bad
    <2>1. Bad \in SUBSET (SUBSET S)
      OBVIOUS
    <2> HIDE DEF Bad
    <2> QED
      BY <2>1, SmallestSubset
  <1>2. ASSUME NEW s \in SUBSET T, s # T PROVE \E g : AddsUp(f, g, s)
    BY <1>1, <1>2
  <1> DEFINE G == [s \in SUBSET T |-> IF s = {} THEN 0
                                      ELSE f[First(s)] + SumOver(f, s \ {First(s)})]
  <1>3. ASSUME NEW s \in SUBSET T, s # T PROVE G[s] = SumOver(f, s)
    <2>1. IsFiniteSet(s)
      BY <1>1, FS_Subset
    <2>2. \A u \in SUBSET s : \E g : AddsUp(f, g, u)
      BY <1>2, <1>3
    <2> QED
      BY <2>1, <2>2, SumStep
  <1>4. ASSUME NEW s \in SUBSET T, s # {}
        PROVE  G[s \ {First(s)}] = SumOver(f, s \ {First(s)})
    <2>1. s \ {First(s)} \in SUBSET T /\ s \ {First(s)} # T
      BY <1>4, FirstIn
    <2> QED
      BY <1>3, <2>1
  <1>5. AddsUp(f, G, T)
    BY <1>4 DEF AddsUp
  <1> QED
    BY <1>1, <1>5

\* The equation of a sum.
LEMMA SumEquation ==
  ASSUME NEW f, NEW S, IsFiniteSet(S)
  PROVE  SumOver(f, S) = IF S = {} THEN 0
                         ELSE f[First(S)] + SumOver(f, S \ {First(S)})
  <1>1. \A s \in SUBSET S : \E g : AddsUp(f, g, s)
    BY FS_Subset, AddsUpExists
  <1> QED
    BY <1>1, SumStep

LEMMA SumEmpty ==
  ASSUME NEW f
  PROVE  SumOver(f, {}) = 0
  BY SumEquation, FS_EmptySet

LEMMA SumIsNat ==
  ASSUME NEW f, NEW S, IsFiniteSet(S), \A x \in S : f[x] \in Nat
  PROVE  SumOver(f, S) \in Nat
  <1> DEFINE Bad == {s \in SUBSET S : SumOver(f, s) \notin Nat}
  <1> SUFFICES ASSUME Bad # {} PROVE FALSE
    OBVIOUS
  <1>1. PICK s \in Bad : \A u \in SUBSET s : u # s => u \notin Bad
    <2>1. Bad \in SUBSET (SUBSET S)
      OBVIOUS
    <2> HIDE DEF Bad
    <2> QED
      BY <2>1, SmallestSubset
  <1>2. s # {}
    <2>1. SumOver(f, {}) \in Nat
      BY SumEmpty
    <2>2. SumOver(f, s) \notin Nat
      BY <1>1
    <2> QED
      BY <2>1, <2>2
  <1>3. First(s) \in S /\ SumOver(f, s \ {First(s)}) \in Nat
    BY <1>1, <1>2, FirstIn
  <1>4. SumOver(f, s) = f[First(s)] + SumOver(f, s \ {First(s)})
    BY <1>1, <1>2, SumEquation, FS_Subset
  <1> QED
    BY <1>1, <1>3, <1>4

\* Any element of the set may be taken out first.
LEMMA SumRemove ==
  ASSUME NEW f, NEW S, IsFiniteSet(S), \A x \in S : f[x] \in Nat, NEW y \in S
  PROVE  SumOver(f, S) = f[y] + SumOver(f, S \ {y})
  <1> DEFINE Bad == {s \in SUBSET S :
                       \E x \in s : SumOver(f, s) # f[x] + SumOver(f, s \ {x})}
  <1> SUFFICES ASSUME Bad # {} PROVE FALSE
    OBVIOUS
  <1>1. PICK s \in Bad : \A u \in SUBSET s : u # s => u \notin Bad
    <2>1. Bad \in SUBSET (SUBSET S)
      OBVIOUS
    <2> HIDE DEF Bad
    <2> QED
      BY <2>1, SmallestSubset
  <1>2. PICK x \in s : SumOver(f, s) # f[x] + SumOver(f, s \ {x})
    BY <1>1
  <1> DEFINE z == First(s)
  <1>3. /\ z \in s
        /\ SumOver(f, s) = f[z] + SumOver(f, s \ {z})
    BY <1>1, <1>2, FirstIn, SumEquation, FS_Subset
  <1>4. x # z
    BY <1>2, <1>3
  <1>5. SumOver(f, s \ {z}) = f[x] + SumOver(f, (s \ {z}) \ {x})
    BY <1>1, <1>2, <1>3, <1>4
  <1>6. SumOver(f, s \ {x}) = f[z] + SumOver(f, (s \ {x}) \ {z})
    BY <1>1, <1>2, <1>3, <1>4
  <1>7. (s \ {z}) \ {x} = (s \ {x}) \ {z}
    OBVIOUS
  <1> DEFINE rest == SumOver(f, (s \ {x}) \ {z})
  <1>8. rest \in Nat
    BY <1>1, FS_Subset, SumIsNat
  <1>9. f[x] \in Nat /\ f[z] \in Nat
    BY <1>1, <1>3
  <1>10. /\ SumOver(f, s) = f[z] + (f[x] + rest)
         /\ SumOver(f, s \ {x}) = f[z] + rest
    BY <1>3, <1>5, <1>6, <1>7
  <1> HIDE DEF rest
  <1>11. f[z] + (f[x] + rest) = f[x] + (f[z] + rest)
    BY <1>8, <1>9
  <1> QED
    BY <1>2, <1>10, <1>11

LEMMA SumAdd ==
  ASSUME NEW f, NEW S, IsFiniteSet(S), NEW y, y \notin S,
         \A x \in S \cup {y} : f[x] \in Nat
  PROVE  SumOver(f, S \cup {y}) = SumOver(f, S) + f[y]
  <1>1. (S \cup {y}) \ {y} = S
    OBVIOUS
  <1>2. SumOver(f, S \cup {y}) = f[y] + SumOver(f, S)
    BY <1>1, SumRemove, FS_AddElement
  <1> QED
    BY <1>2, SumIsNat

\* The sum of what two functions add up to.
LEMMA SumOfSums ==
  ASSUME NEW S, IsFiniteSet(S), NEW f, NEW g, NEW h,
         \A x \in S : f[x] \in Nat /\ g[x] \in Nat /\ h[x] = f[x] + g[x]
  PROVE  SumOver(h, S) = SumOver(f, S) + SumOver(g, S)
  <1> DEFINE P == {s \in SUBSET S : SumOver(h, s) = SumOver(f, s) + SumOver(g, s)}
  <1>1. {} \in P
    <2>1. SumOver(f, {}) = 0 /\ SumOver(g, {}) = 0 /\ SumOver(h, {}) = 0
      BY SumEmpty
    <2> QED
      BY <2>1
  <1>2. ASSUME NEW T \in SUBSET S, T \in P, NEW x \in S \ T
        PROVE  T \cup {x} \in P
    <2>1. IsFiniteSet(T) /\ T \cup {x} \subseteq S
      BY <1>2, FS_Subset
    <2>2. \A y \in T \cup {x} : h[y] \in Nat
      BY <2>1
    <2>3. /\ SumOver(f, T \cup {x}) = SumOver(f, T) + f[x]
          /\ SumOver(g, T \cup {x}) = SumOver(g, T) + g[x]
          /\ SumOver(h, T \cup {x}) = SumOver(h, T) + h[x]
      BY <2>1, <2>2, <1>2, SumAdd
    <2>4. SumOver(f, T) \in Nat /\ SumOver(g, T) \in Nat
      BY <2>1, SumIsNat
    <2>5. SumOver(h, T) = SumOver(f, T) + SumOver(g, T)
      BY <1>2
    <2>6. f[x] \in Nat /\ g[x] \in Nat /\ h[x] = f[x] + g[x]
      BY <1>2
    <2>7. SumOver(h, T \cup {x}) = SumOver(f, T \cup {x}) + SumOver(g, T \cup {x})
      BY <2>3, <2>4, <2>5, <2>6
    <2> QED
      BY <2>1, <2>7
  <1> HIDE DEF P
  <1>3. S \in P
    BY <1>1, <1>2, SetInduction
  <1> QED
    BY <1>3 DEF P

LEMMA SumAtMost ==
  ASSUME NEW S, IsFiniteSet(S), NEW f, NEW g,
         \A x \in S : f[x] \in Nat /\ g[x] \in Nat /\ f[x] <= g[x]
  PROVE  SumOver(f, S) <= SumOver(g, S)
  <1> DEFINE d == [x \in S |-> g[x] - f[x]]
  <1>1. \A x \in S : f[x] \in Nat /\ d[x] \in Nat /\ g[x] = f[x] + d[x]
    OBVIOUS
  <1>2. /\ SumOver(f, S) \in Nat
        /\ SumOver(d, S) \in Nat
    BY <1>1, SumIsNat
  <1>3. SumOver(g, S) = SumOver(f, S) + SumOver(d, S)
    BY <1>1, SumOfSums
  <1> QED
    BY <1>2, <1>3

LEMMA SumSame ==
  ASSUME NEW S, IsFiniteSet(S), NEW f, NEW g,
         \A x \in S : f[x] \in Nat /\ f[x] = g[x]
  PROVE  SumOver(f, S) = SumOver(g, S)
  <1>1. SumOver(f, S) <= SumOver(g, S) /\ SumOver(g, S) <= SumOver(f, S)
    BY SumAtMost
  <1>2. SumOver(f, S) \in Nat /\ SumOver(g, S) \in Nat
    BY SumIsNat
  <1> QED
    BY <1>1, <1>2

\* A sum over a part of a set is one over the set, with 0 for the rest.
LEMMA SumOfPart ==
  ASSUME NEW S, IsFiniteSet(S), NEW A \in SUBSET S, NEW f, NEW g,
         \A x \in S : f[x] \in Nat,
         \A x \in S : g[x] = IF x \in A THEN f[x] ELSE 0
  PROVE  SumOver(g, S) = SumOver(f, A)
  <1> DEFINE P == {s \in SUBSET S : SumOver(g, s) = SumOver(f, s \cap A)}
  <1>1. {} \in P
    <2>1. SumOver(g, {}) = 0 /\ SumOver(f, {}) = 0 /\ {} \cap A = {}
      BY SumEmpty
    <2> QED
      BY <2>1
  <1>2. ASSUME NEW T \in SUBSET S, T \in P, NEW x \in S \ T
        PROVE  T \cup {x} \in P
    <2>1. IsFiniteSet(T) /\ IsFiniteSet(T \cap A) /\ T \cup {x} \subseteq S
      BY <1>2, FS_Subset
    <2>2. \A y \in T \cup {x} : g[y] \in Nat /\ f[y] \in Nat
      BY <2>1
    <2>3. SumOver(g, T \cup {x}) = SumOver(g, T) + g[x]
      BY <1>2, <2>1, <2>2, SumAdd
    <2>4. SumOver(g, T) = SumOver(f, T \cap A) /\ SumOver(f, T \cap A) \in Nat
      BY <1>2, <2>1, <2>2, SumIsNat
    <2>5. CASE x \in A
      <3>1. (T \cup {x}) \cap A = (T \cap A) \cup {x}
        BY <2>5
      <3>2. SumOver(f, (T \cap A) \cup {x}) = SumOver(f, T \cap A) + f[x]
        BY <1>2, <2>1, <2>2, SumAdd
      <3>3. SumOver(g, T \cup {x}) = SumOver(f, (T \cup {x}) \cap A)
        BY <2>3, <2>4, <2>5, <3>1, <3>2
      <3> QED
        BY <2>1, <3>3
    <2>6. CASE x \notin A
      <3>1. (T \cup {x}) \cap A = T \cap A
        BY <2>6
      <3>2. g[x] = 0
        BY <2>6
      <3>3. SumOver(g, T \cup {x}) = SumOver(f, (T \cup {x}) \cap A)
        BY <2>3, <2>4, <3>1, <3>2
      <3> QED
        BY <2>1, <3>3
    <2> QED
      BY <2>5, <2>6
  <1>3. S \in P
    <2> HIDE DEF P
    <2> QED
      BY <1>1, <1>2, SetInduction
  <1>4. S \cap A = A
    OBVIOUS
  <1> QED
    BY <1>3, <1>4
=============================================================================

-------------------------------- MODULE Sums --------------------------------
(***************************************************************************)
(* What a sum over a finite set does when one of its terms changes: the     *)
(* facts about SumFunction that the proofs about money rest on.             *)
(***************************************************************************)
EXTENDS Functions, FiniteSetTheorems, WellFoundedInduction, TLAPS

\* A set of numbers that is not empty has a least one: induction without a
\* predicate as parameter.
LEMMA LeastNumber ==
    ASSUME NEW T \in SUBSET Nat, T # {}
    PROVE  \E n \in T : \A m \in T : n <= m
  <1>1. PICK n \in T : \A m \in T : <<m, n>> \notin OpToRel(<, Nat)
    BY NatLessThanWellFounded, WFMin
  <1>2. ASSUME NEW m \in T PROVE n <= m
    <2>1. <<m, n>> \in Nat \X Nat /\ <<m, n>> \notin {p \in Nat \X Nat : p[1] < p[2]}
      BY <1>1 DEF OpToRel
    <2>. QED  BY <2>1
  <1>. QED  BY <1>2

\* A property of the numbers that holds of 0 and is passed on holds of all.
LEMMA Numbers ==
    ASSUME NEW T \in SUBSET Nat, 0 \in T, \A n \in T : n + 1 \in T
    PROVE  T = Nat
  <1>. SUFFICES ASSUME Nat \ T # {} PROVE FALSE
    OBVIOUS
  <1>1. PICK n \in Nat \ T : \A m \in Nat \ T : n <= m
    BY LeastNumber
  <1>2. n - 1 \in Nat /\ n - 1 \notin Nat \ T
    BY <1>1
  <1>. QED  BY <1>1, <1>2

\* The subsets of S with n elements at most
Sized(S, n) == {s \in SUBSET S : Cardinality(s) <= n}

LEMMA Sizes ==
    ASSUME NEW S, IsFiniteSet(S)
    PROVE  /\ \A s \in SUBSET S : IsFiniteSet(s) /\ Cardinality(s) \in Nat
           /\ \A s \in SUBSET S : \A x \in s :
                 s \ {x} \in SUBSET S /\ Cardinality(s \ {x}) = Cardinality(s) - 1
           /\ \A s \in SUBSET S : Cardinality(s) = 0 <=> s = {}
           /\ Sized(S, Cardinality(S)) = SUBSET S
  <1>1. \A s \in SUBSET S : IsFiniteSet(s) /\ Cardinality(s) \in Nat
    BY FS_Subset, FS_CardinalityType
  <1>2. \A s \in SUBSET S : \A x \in s :
           s \ {x} \in SUBSET S /\ Cardinality(s \ {x}) = Cardinality(s) - 1
    BY <1>1, FS_RemoveElement
  <1>3. \A s \in SUBSET S : Cardinality(s) = 0 <=> s = {}
    BY <1>1, FS_EmptySet
  <1>4. \A s \in SUBSET S : Cardinality(s) <= Cardinality(S)
    BY FS_Subset
  <1>. QED  BY <1>1, <1>2, <1>3, <1>4 DEF Sized

\* How the fold goes over a set
Next1(s) == CHOOSE x \in s : TRUE
SumOf(f, g, s) == IF s = {} THEN 0 ELSE f[Next1(s)] + g[s \ {Next1(s)}]
Sums(f, S) == CHOOSE g : g = [s \in SUBSET S |-> SumOf(f, g, s)]

LEMMA SumIsFold ==
    ASSUME NEW f, NEW S, DOMAIN f = S
    PROVE  SumFunction(f) = Sums(f, S)[S]
  BY DEF SumFunction, SumFunctionOnSet, FoldFunctionOnSet, MapThenFoldSet, Sums, SumOf, Next1

LEMMA NextIsMember == \A s : s # {} => Next1(s) \in s
  BY DEF Next1

\* There is a function as the fold describes it: one for sets of n elements
\* gives one for n + 1.
LEMMA SumsExist ==
    ASSUME NEW S, IsFiniteSet(S), NEW f \in [S -> Nat]
    PROVE  \E g \in [SUBSET S -> Nat] : g = [s \in SUBSET S |-> SumOf(f, g, s)]
  <1>. DEFINE good(n) == \E g \in [SUBSET S -> Nat] : \A s \in Sized(S, n) : g[s] = SumOf(f, g, s)
              T == {n \in Nat : good(n)}
  <1>1. 0 \in T
    <2>. DEFINE g == [s \in SUBSET S |-> 0]
    <2>1. \A s \in Sized(S, 0) : s = {}
      BY Sizes DEF Sized
    <2>2. g \in [SUBSET S -> Nat] /\ \A s \in Sized(S, 0) : g[s] = SumOf(f, g, s)
      BY <2>1 DEF SumOf, Sized
    <2>. QED  BY <2>2
  <1>2. ASSUME NEW n \in T PROVE n + 1 \in T
    <2>1. PICK g \in [SUBSET S -> Nat] : \A s \in Sized(S, n) : g[s] = SumOf(f, g, s)
      OBVIOUS
    <2>. DEFINE h == [s \in SUBSET S |-> SumOf(f, g, s)]
    <2>2. h \in [SUBSET S -> Nat]
      <3>1. ASSUME NEW s \in SUBSET S PROVE SumOf(f, g, s) \in Nat
        <4>1. s # {} => f[Next1(s)] \in Nat /\ g[s \ {Next1(s)}] \in Nat
          BY NextIsMember
        <4>. QED  BY <4>1 DEF SumOf
      <3>. QED  BY <3>1
    <2>3. ASSUME NEW s \in Sized(S, n + 1) PROVE h[s] = SumOf(f, h, s)
      <3>1. s \in SUBSET S /\ h[s] = SumOf(f, g, s)
        BY DEF Sized
      <3>2. CASE s # {}
        <4>. DEFINE r == s \ {Next1(s)}
        <4>1. r \in Sized(S, n)
          BY <3>1, <3>2, NextIsMember, Sizes DEF Sized
        <4>2. h[r] = g[r]
          BY <2>1, <4>1 DEF Sized
        <4>. QED  BY <3>1, <3>2, <4>2 DEF SumOf
      <3>. QED  BY <3>1, <3>2 DEF SumOf
    <2>. HIDE DEF h
    <2>4. good(n + 1)
      BY <2>2, <2>3
    <2>. QED  BY <2>4
  <1>. HIDE DEF T
  <1>3. T = Nat
    BY <1>1, <1>2, Numbers DEF T
  <1>4. Cardinality(S) \in T
    BY <1>3, FS_CardinalityType
  <1>5. PICK g \in [SUBSET S -> Nat] : \A s \in SUBSET S : g[s] = SumOf(f, g, s)
    <2>1. good(Cardinality(S))
      BY <1>4 DEF T
    <2>2. Sized(S, Cardinality(S)) = SUBSET S
      BY Sizes
    <2>. QED  BY <2>1, <2>2
  <1>6. g = [s \in SUBSET S |-> SumOf(f, g, s)]
    BY <1>5
  <1>. QED  BY <1>6

LEMMA SumsAre ==
    ASSUME NEW S, IsFiniteSet(S), NEW f \in [S -> Nat]
    PROVE  /\ Sums(f, S) \in [SUBSET S -> Nat]
           /\ \A s \in SUBSET S : Sums(f, S)[s] = SumOf(f, Sums(f, S), s)
  <1>. DEFINE G == Sums(f, S)
  <1>0. \E g \in [SUBSET S -> Nat] : g = [s \in SUBSET S |-> SumOf(f, g, s)]
    BY SumsExist, SMTT(30)
  <1>1. \E g : g = [s \in SUBSET S |-> SumOf(f, g, s)]
    BY <1>0, Zenon
  <1>2. G = [s \in SUBSET S |-> SumOf(f, G, s)]
    BY <1>1 DEF Sums
  <1>. HIDE DEF G
  <1>3. \A s \in SUBSET S : G[s] = SumOf(f, G, s)
    BY <1>2
  <1>4. \A s \in SUBSET S : G[s] \in Nat
    <2>. DEFINE T == {n \in Nat : \A s \in Sized(S, n) : G[s] \in Nat}
    <2>1. 0 \in T
      <3>1. \A s \in Sized(S, 0) : s = {} /\ s \in SUBSET S
        BY Sizes DEF Sized
      <3>2. G[{}] = 0
        <4>1. {} \in SUBSET S
          OBVIOUS
        <4>2. G[{}] = SumOf(f, G, {})
          BY <1>3, <4>1
        <4>. QED  BY <4>2 DEF SumOf
      <3>3. ASSUME NEW s \in Sized(S, 0) PROVE G[s] \in Nat
        <4>1. s = {}
          BY <3>1
        <4>. QED  BY <3>2, <4>1
      <3>. QED  BY <3>3
    <2>2. ASSUME NEW n \in T PROVE n + 1 \in T
      <3>1. ASSUME NEW s \in Sized(S, n + 1) PROVE G[s] \in Nat
        <4>1. s \in SUBSET S
          BY DEF Sized
        <4>2. ASSUME s # {} PROVE f[Next1(s)] \in Nat /\ s \ {Next1(s)} \in Sized(S, n)
          BY <4>1, <4>2, NextIsMember, Sizes DEF Sized
        <4>3. s # {} => G[s \ {Next1(s)}] \in Nat
          BY <4>2
        <4>4. G[s] = SumOf(f, G, s)
          BY <1>3, <4>1
        <4>. QED  BY <4>2, <4>3, <4>4 DEF SumOf
      <3>. QED  BY <3>1
    <2>. HIDE DEF T
    <2>3. T = Nat
      BY <2>1, <2>2, Numbers DEF T
    <2>4. Cardinality(S) \in T
      BY <2>3, FS_CardinalityType
    <2>. QED  BY <2>4, Sizes DEF T
  <1>. QED  BY <1>2, <1>3, <1>4 DEF G

\* The order in which the fold takes the members does not matter.
LEMMA SumTakes ==
    ASSUME NEW S, IsFiniteSet(S), NEW f \in [S -> Nat]
    PROVE  \A s \in SUBSET S : \A x \in s : Sums(f, S)[s] = f[x] + Sums(f, S)[s \ {x}]
  <1>. DEFINE G == Sums(f, S)
              takes(s) == \A x \in s : G[s] = f[x] + G[s \ {x}]
              T == {n \in Nat : \A s \in Sized(S, n) : takes(s)}
  <1>1. G \in [SUBSET S -> Nat] /\ \A s \in SUBSET S : G[s] = SumOf(f, G, s)
    BY SumsAre
  <1>. HIDE DEF G
  <1>2. 0 \in T
    <2>1. \A s \in Sized(S, 0) : s = {}
      BY Sizes DEF Sized
    <2>. QED  BY <2>1
  <1>3. ASSUME NEW n \in T PROVE n + 1 \in T
    <2>1. ASSUME NEW s \in Sized(S, n + 1), NEW x \in s PROVE G[s] = f[x] + G[s \ {x}]
      <3>. DEFINE y == Next1(s)
      <3>1. s \in SUBSET S /\ y \in s /\ s # {}
        BY NextIsMember DEF Sized
      <3>2. G[s] = f[y] + G[s \ {y}]
        BY <1>1, <3>1 DEF SumOf
      <3>. HIDE DEF y
      <3>3. CASE x # y
        <4>1. s \ {x} \in Sized(S, n) /\ s \ {y} \in Sized(S, n)
          BY <3>1, Sizes DEF Sized
        <4>2. G[s \ {y}] = f[x] + G[(s \ {y}) \ {x}]
          BY <3>1, <3>3, <4>1
        <4>3. G[s \ {x}] = f[y] + G[(s \ {x}) \ {y}]
          BY <3>1, <3>3, <4>1
        <4>4. (s \ {y}) \ {x} = (s \ {x}) \ {y}
          OBVIOUS
        <4>5. f[x] \in Nat /\ f[y] \in Nat /\ G[(s \ {x}) \ {y}] \in Nat
          BY <1>1, <3>1
        <4>6. G[s] = f[y] + (f[x] + G[(s \ {x}) \ {y}])
          BY <3>2, <4>2, <4>4
        <4>. HIDE DEF T
        <4>. QED  BY <4>3, <4>5, <4>6
      <3>. QED  BY <3>2, <3>3
    <2>. QED  BY <2>1
  <1>. HIDE DEF T
  <1>a. T = Nat
    BY <1>2, <1>3, Numbers DEF T
  <1>4. Cardinality(S) \in T
    BY <1>a, FS_CardinalityType
  <1>5. \A s \in Sized(S, Cardinality(S)) : takes(s)
    BY <1>4 DEF T
  <1>6. Sized(S, Cardinality(S)) = SUBSET S
    BY Sizes
  <1>. QED  BY <1>5, <1>6 DEF G

\* Members that two functions agree on add the same to both.
LEMMA SumAgrees ==
    ASSUME NEW S, IsFiniteSet(S), NEW f \in [S -> Nat], NEW h \in [S -> Nat],
           NEW R \in SUBSET S, \A x \in R : f[x] = h[x]
    PROVE  \A s \in SUBSET R : Sums(f, S)[s] = Sums(h, S)[s]
  <1>. DEFINE F == Sums(f, S)
              H == Sums(h, S)
              T == {n \in Nat : \A s \in Sized(R, n) : F[s] = H[s]}
  <1>1. \A s \in SUBSET S : F[s] = SumOf(f, F, s) /\ H[s] = SumOf(h, H, s)
    BY SumsAre
  <1>. HIDE DEF F, H
  <1>2. IsFiniteSet(R)
    BY FS_Subset
  <1>3. 0 \in T
    <2>1. \A s \in Sized(R, 0) : s = {} /\ s \in SUBSET S
      BY <1>2, Sizes DEF Sized
    <2>2. \A s \in Sized(R, 0) : F[s] = H[s]
      BY <1>1, <2>1 DEF SumOf
    <2>. QED  BY <2>2
  <1>4. ASSUME NEW n \in T PROVE n + 1 \in T
    <2>1. ASSUME NEW s \in Sized(R, n + 1) PROVE F[s] = H[s]
      <3>1. s \in SUBSET S /\ s \in SUBSET R
        BY DEF Sized
      <3>2. CASE s # {}
        <4>1. Next1(s) \in R /\ s \ {Next1(s)} \in Sized(R, n)
          BY <1>2, <3>1, <3>2, NextIsMember, Sizes DEF Sized
        <4>2. F[s \ {Next1(s)}] = H[s \ {Next1(s)}] /\ f[Next1(s)] = h[Next1(s)]
          BY <4>1
        <4>. QED  BY <1>1, <3>1, <3>2, <4>2 DEF SumOf
      <3>. QED  BY <1>1, <3>1, <3>2 DEF SumOf
    <2>. QED  BY <2>1
  <1>. HIDE DEF T
  <1>a. T = Nat
    BY <1>3, <1>4, Numbers DEF T
  <1>5. Cardinality(R) \in T
    BY <1>2, <1>a, FS_CardinalityType
  <1>. QED  BY <1>2, <1>5, Sizes DEF T, F, H

\* What the proofs below use of sums
LEMMA SumIsNumber ==
    ASSUME NEW S, IsFiniteSet(S), NEW f \in [S -> Nat]
    PROVE  SumFunction(f) \in Nat
  <1>1. SumFunction(f) = Sums(f, S)[S]
    BY SumIsFold
  <1>2. Sums(f, S) \in [SUBSET S -> Nat]
    BY SumsAre
  <1>. QED  BY <1>1, <1>2

LEMMA SumChanges ==
    ASSUME NEW S, IsFiniteSet(S), NEW f \in [S -> Nat], NEW h \in [S -> Nat],
           NEW c \in S, \A d \in S : d # c => h[d] = f[d]
    PROVE  SumFunction(h) = SumFunction(f) - f[c] + h[c]
  <1>1. S \ {c} \in SUBSET S /\ S \in SUBSET S /\ S \ {c} \in SUBSET (S \ {c})
    OBVIOUS
  <1>2. Sums(f, S)[S \ {c}] = Sums(h, S)[S \ {c}]
    BY <1>1, SumAgrees
  <1>3. SumFunction(f) = Sums(f, S)[S] /\ SumFunction(h) = Sums(h, S)[S]
    BY SumIsFold
  <1>4. Sums(f, S)[S] = f[c] + Sums(f, S)[S \ {c}]
    BY <1>1, SumTakes
  <1>5. Sums(h, S)[S] = h[c] + Sums(h, S)[S \ {c}]
    BY <1>1, SumTakes
  <1>6. Sums(f, S) \in [SUBSET S -> Nat]
    BY SumsAre
  <1>7. f[c] \in Nat /\ h[c] \in Nat /\ Sums(f, S)[S \ {c}] \in Nat
    BY <1>1, <1>6
  <1>. QED  BY <1>2, <1>3, <1>4, <1>5, <1>7

LEMMA SumOfZeros ==
    ASSUME NEW S, IsFiniteSet(S), NEW f \in [S -> Nat], \A x \in S : f[x] = 0
    PROVE  SumFunction(f) = 0
  <1>. DEFINE G == Sums(f, S)
              T == {n \in Nat : \A s \in Sized(S, n) : G[s] = 0}
  <1>1. \A s \in SUBSET S : G[s] = SumOf(f, G, s)
    BY SumsAre
  <1>. HIDE DEF G
  <1>2. 0 \in T
    <2>1. \A s \in Sized(S, 0) : s = {} /\ s \in SUBSET S
      BY Sizes DEF Sized
    <2>2. \A s \in Sized(S, 0) : G[s] = 0
      BY <1>1, <2>1 DEF SumOf
    <2>. QED  BY <2>2
  <1>3. ASSUME NEW n \in T PROVE n + 1 \in T
    <2>1. ASSUME NEW s \in Sized(S, n + 1) PROVE G[s] = 0
      <3>1. s \in SUBSET S
        BY DEF Sized
      <3>2. CASE s # {}
        <4>1. Next1(s) \in S /\ s \ {Next1(s)} \in Sized(S, n)
          BY <3>1, <3>2, NextIsMember, Sizes DEF Sized
        <4>2. G[s \ {Next1(s)}] = 0 /\ f[Next1(s)] = 0
          BY <4>1
        <4>. QED  BY <1>1, <3>1, <3>2, <4>2 DEF SumOf
      <3>. QED  BY <1>1, <3>1, <3>2 DEF SumOf
    <2>. QED  BY <2>1
  <1>. HIDE DEF T
  <1>a. T = Nat
    BY <1>2, <1>3, Numbers DEF T
  <1>4. Cardinality(S) \in T
    BY <1>a, FS_CardinalityType
  <1>5. Sums(f, S)[S] = 0
    BY <1>4, Sizes DEF T, G
  <1>. QED  BY <1>5, SumIsFold

\* No term is more than the sum.
LEMMA SumBounds ==
    ASSUME NEW S, IsFiniteSet(S), NEW f \in [S -> Nat], NEW c \in S
    PROVE  f[c] <= SumFunction(f)
  <1>. DEFINE h == [x \in S |-> IF x = c THEN 0 ELSE f[x]]
  <1>1. h \in [S -> Nat] /\ h[c] = 0 /\ \A x \in S : x # c => h[x] = f[x]
    OBVIOUS
  <1>. HIDE DEF h
  <1>2. SumFunction(h) = SumFunction(f) - f[c] + h[c]
    BY <1>1, SumChanges
  <1>3. SumFunction(h) \in Nat /\ SumFunction(f) \in Nat /\ f[c] \in Nat
    BY <1>1, SumIsNumber
  <1>. QED  BY <1>1, <1>2, <1>3

\* All of it at once.
LEMMA SumMoves ==
    ASSUME NEW S, IsFiniteSet(S), NEW f \in [S -> Nat], NEW h \in [S -> Nat],
           NEW c \in S, \A d \in S : d # c => h[d] = f[d]
    PROVE  /\ SumFunction(f) \in Nat /\ SumFunction(h) \in Nat /\ f[c] \in Nat /\ h[c] \in Nat
           /\ f[c] <= SumFunction(f)
           /\ SumFunction(h) = SumFunction(f) - f[c] + h[c]
  <1>1. SumFunction(f) \in Nat /\ SumFunction(h) \in Nat
    BY SumIsNumber
  <1>2. SumFunction(h) = SumFunction(f) - f[c] + h[c]
    BY SumChanges
  <1>3. f[c] <= SumFunction(f)
    BY SumBounds
  <1>. QED  BY <1>1, <1>2, <1>3
=============================================================================

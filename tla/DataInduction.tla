---------------------------- MODULE DataInduction ----------------------------
(***************************************************************************)
(* Induction over data: what the folds, sorts and sums the models are      *)
(* written with compute, for every input.  All of it rests on one fact of  *)
(* the library, that < is well founded on Nat: a property is the set of    *)
(* the numbers, or of the finite sets, that have it.                       *)
(***************************************************************************)
EXTENDS Integers, Sequences, FiniteSets, SequencesExt, Ascending, Halving,
        FunctionTheorems, FiniteSetTheorems, WellFoundedInduction, TLAPS

-----------------------------------------------------------------------------
(***************************************************************************)
(* The principles.                                                         *)
(***************************************************************************)

\* A nonempty set of naturals has a least element.
LEMMA LeastNat ==
    ASSUME NEW T \in SUBSET Nat, T # {}
    PROVE  \E m \in T : \A k \in T : m <= k
  <1> DEFINE R == OpToRel(<, Nat)
  <1>1. IsWellFoundedOn(R, Nat)
    BY NatLessThanWellFounded, Zenon DEF R
  <1>2. ASSUME NEW x \in Nat, NEW y \in Nat, x < y PROVE <<x, y>> \in R
    BY <1>2 DEF R, OpToRel
  <1> HIDE DEF R
  <1>3. PICK m \in T : \A k \in T : ~(<<k, m>> \in R)
    BY <1>1, WFMin
  <1>4. ASSUME NEW k \in T PROVE m <= k
    <2>1. ~(<<k, m>> \in R) /\ k \in Nat /\ m \in Nat
      BY <1>3
    <2>2. ~(k < m)
      BY <2>1, <1>2
    <2> QED  BY <2>1, <2>2
  <1> QED  BY <1>3, <1>4

\* The least of a set of naturals is in it.
LEMMA LeastIs ==
    ASSUME NEW S \in SUBSET Nat, S # {}
    PROVE  Min(S) \in S /\ \A x \in S : Min(S) <= x
  <1>1. PICK m \in S : \A x \in S : m <= x
    BY LeastNat
  <1> QED  BY <1>1 DEF Min

\* Induction over the naturals, for the set T of those that have the property.
LEMMA NatSetInduction ==
    ASSUME NEW T, 0 \in T, \A n \in Nat : n \in T => n + 1 \in T
    PROVE  Nat \subseteq T
  <1> SUFFICES ASSUME Nat \ T # {} PROVE FALSE
    OBVIOUS
  <1>1. PICK m \in Nat \ T : \A k \in Nat \ T : m <= k
    BY LeastNat
  <1>2. m # 0 /\ m - 1 \in Nat
    BY <1>1
  <1>3. m - 1 \in T
    BY <1>1, <1>2
  <1>4. (m - 1) + 1 = m
    BY <1>1
  <1>5. m \in T
    BY <1>2, <1>3, <1>4
  <1> QED  BY <1>1, <1>5

\* Induction over the subsets of a finite set, by adding one element.
LEMMA FiniteSetInduction ==
    ASSUME NEW S, IsFiniteSet(S), NEW P, {} \in P,
           \A T \in SUBSET S, x \in S : T \in P /\ x \notin T => T \cup {x} \in P
    PROVE  SUBSET S \subseteq P
  <1> DEFINE N == {n \in Nat : \A T \in SUBSET S : Cardinality(T) = n => T \in P}
  <1>1. 0 \in N
    <2>1. ASSUME NEW T \in SUBSET S, Cardinality(T) = 0 PROVE T \in P
      <3>1. T = {}
        BY <2>1, FS_Subset, FS_EmptySet
      <3> QED  BY <3>1
    <2> QED  BY <2>1
  <1>2. ASSUME NEW n \in Nat, n \in N PROVE n + 1 \in N
    <2>1. ASSUME NEW T \in SUBSET S, Cardinality(T) = n + 1 PROVE T \in P
      <3>1. IsFiniteSet(T)
        BY <2>1, FS_Subset
      <3>2. T # {}
        <4>1. Cardinality(T) # 0
          BY <2>1
        <4> QED  BY <4>1, FS_EmptySet
      <3>3. PICK x \in T : TRUE
        BY <3>2
      <3>4. Cardinality(T \ {x}) = n
        <4>1. Cardinality(T \ {x}) = Cardinality(T) - 1
          BY <3>1, <3>3, FS_RemoveElement
        <4> QED  BY <2>1, <4>1
      <3>5. T \ {x} \in P
        BY <1>2, <3>4
      <3>6. (T \ {x}) \cup {x} \in P
        BY <3>5, <3>3
      <3>7. (T \ {x}) \cup {x} = T
        BY <3>3
      <3> QED  BY <3>6, <3>7
    <2> QED  BY <2>1
  <1> HIDE DEF N
  <1>3. Nat \subseteq N
    BY <1>1, <1>2, NatSetInduction
  <1>4. ASSUME NEW T \in SUBSET S PROVE T \in P
    <2>1. Cardinality(T) \in Nat
      BY FS_Subset, FS_CardinalityType
    <2>2. Cardinality(T) \in N
      BY <1>3, <2>1
    <2> QED  BY <2>2 DEF N
  <1> QED  BY <1>4

\* The image of a finite set is finite.
LEMMA FiniteImage ==
    ASSUME NEW S, IsFiniteSet(S), NEW f
    PROVE  IsFiniteSet({f[x] : x \in S})
  <1> DEFINE Im(T) == {f[x] : x \in T}
             P == {T \in SUBSET S : IsFiniteSet(Im(T))}
  <1>1. {} \in P
    <2>1. Im({}) = {}
      OBVIOUS
    <2> QED  BY <2>1, FS_EmptySet
  <1>2. ASSUME NEW T \in SUBSET S, NEW z \in S, T \in P, z \notin T
        PROVE  T \cup {z} \in P
    <2>1. Im(T \cup {z}) = Im(T) \cup {f[z]}
      OBVIOUS
    <2>2. IsFiniteSet(Im(T))
      BY <1>2
    <2> HIDE DEF Im
    <2>3. IsFiniteSet(Im(T) \cup {f[z]})
      BY <2>2, FS_AddElement
    <2> QED  BY <2>1, <2>3
  <1>3. SUBSET S \subseteq P
    <2> HIDE DEF P
    <2> QED  BY <1>1, <1>2, FiniteSetInduction
  <1> QED  BY <1>3

Recurs(h, d, F) == h[0] = d /\ \A n \in Nat : h[n + 1] = F[<<n, h[n]>>]

\* A recursion along the naturals has a solution.
LEMMA NatRecursion ==
    ASSUME NEW D, NEW d \in D, NEW F \in [Nat \X D -> D]
    PROVE  \E h \in [Nat -> D] : Recurs(h, d, F)
  <1> DEFINE Upto(n, g) == /\ g \in [0..n -> D] /\ g[0] = d
                           /\ \A i \in 0..n : i < n => g[i + 1] = F[<<i, g[i]>>]
             N == {n \in Nat : /\ \E g : Upto(n, g)
                               /\ \A g, k : Upto(n, g) /\ Upto(n, k) => g = k}
             h == [n \in Nat |-> (CHOOSE g : Upto(n, g))[n]]
  <1>1. 0 \in N
    <2>1. Upto(0, [i \in 0..0 |-> d])
      OBVIOUS
    <2>2. ASSUME NEW g, NEW k, Upto(0, g), Upto(0, k) PROVE g = k
      <3>1. 0..0 = {0}
        OBVIOUS
      <3> QED  BY <2>2, <3>1
    <2> HIDE DEF Upto
    <2> QED  BY <2>1, <2>2
  <1>2. ASSUME NEW n \in Nat, NEW g, Upto(n + 1, g)
        PROVE  Upto(n, [i \in 0..n |-> g[i]])
    BY <1>2
  <1>3. ASSUME NEW n \in Nat, n \in N PROVE n + 1 \in N
    <2>1. PICK g : Upto(n, g)
      BY <1>3
    <2> DEFINE k == [i \in 0..(n + 1) |-> IF i = n + 1 THEN F[<<n, g[n]>>] ELSE g[i]]
    <2>2. Upto(n + 1, k)
      <3>1. g[n] \in D /\ F[<<n, g[n]>>] \in D
        BY <2>1
      <3>2. k \in [0..(n + 1) -> D] /\ k[0] = d
        BY <2>1, <3>1
      <3>3. ASSUME NEW i \in 0..(n + 1), i < n + 1 PROVE k[i + 1] = F[<<i, k[i]>>]
        <4>1. CASE i = n
          BY <4>1
        <4>2. CASE i # n
          <5>1. i \in 0..n /\ i < n /\ i + 1 \in 0..n
            BY <3>3, <4>2
          <5>2. k[i + 1] = g[i + 1] /\ k[i] = g[i]
            BY <5>1
          <5> QED  BY <5>1, <5>2, <2>1
        <4> QED  BY <4>1, <4>2
      <3> QED  BY <3>2, <3>3
    <2>3. ASSUME NEW a, NEW b, Upto(n + 1, a), Upto(n + 1, b) PROVE a = b
      <3> DEFINE a0 == [i \in 0..n |-> a[i]]
                 b0 == [i \in 0..n |-> b[i]]
      <3>1. a0 = b0
        <4>1. Upto(n, a0) /\ Upto(n, b0)
          BY <2>3, <1>2
        <4> HIDE DEF Upto, a0, b0
        <4> QED  BY <4>1, <1>3
      <3>2. ASSUME NEW i \in 0..n PROVE a[i] = b[i]
        <4>1. a0[i] = a[i] /\ b0[i] = b[i]
          OBVIOUS
        <4> QED  BY <4>1, <3>1
      <3>3. a[n + 1] = F[<<n, a[n]>>] /\ b[n + 1] = F[<<n, b[n]>>]
        BY <2>3
      <3>4. a[n + 1] = b[n + 1]
        BY <3>2, <3>3
      <3>5. \A i \in 0..(n + 1) : a[i] = b[i]
        BY <3>2, <3>4
      <3> QED  BY <2>3, <3>5
    <2> HIDE DEF Upto
    <2> QED  BY <2>2, <2>3
  <1>4. Nat \subseteq N
    <2> HIDE DEF N
    <2> QED  BY <1>1, <1>3, NatSetInduction
  <1>5. ASSUME NEW n \in Nat
        PROVE  Upto(n, CHOOSE g : Upto(n, g))
    <2>1. \E g : Upto(n, g)
      BY <1>4
    <2> HIDE DEF Upto
    <2> QED  BY <2>1
  <1>6. ASSUME NEW n \in Nat PROVE h[n] \in D /\ h[n + 1] = F[<<n, h[n]>>]
    <2> DEFINE a == CHOOSE g : Upto(n, g)
               b == CHOOSE g : Upto(n + 1, g)
    <2>0. n + 1 \in Nat
      OBVIOUS
    <2>1. Upto(n, a) /\ Upto(n + 1, b)
      <3> HIDE DEF Upto
      <3> QED  BY <2>0, <1>5
    <2>2. h[n] = a[n] /\ h[n + 1] = b[n + 1]
      <3> HIDE DEF Upto
      <3> QED  BY <2>0
    <2> HIDE DEF a, b, h
    <2> DEFINE c == [i \in 0..n |-> b[i]]
    <2>4. Upto(n, c)
      BY <2>1, <1>2
    <2>5. c = a
      <3> HIDE DEF Upto, c
      <3> QED  BY <2>1, <2>4, <1>4
    <2>6. b[n] = a[n]
      BY <2>5
    <2>7. b[n + 1] = F[<<n, b[n]>>] /\ a[n] \in D
      BY <2>1
    <2> QED  BY <2>2, <2>6, <2>7
  <1>7. h[0] = d
    BY <1>5
  <1> HIDE DEF h
  <1>8. h \in [Nat -> D]
    BY <1>6 DEF h
  <1> QED  BY <1>6, <1>7, <1>8 DEF Recurs

\* One step after another along the naturals.
Iterates(g, d, G) == g = [i \in Nat |-> IF i = 0 THEN d ELSE G[g[i - 1]]]

LEMMA Iterated ==
    ASSUME NEW D, NEW d \in D, NEW G \in [D -> D]
    PROVE  \E g \in [Nat -> D] : Iterates(g, d, G)
  <1> DEFINE F == [p \in Nat \X D |-> G[p[2]]]
  <1>1. F \in [Nat \X D -> D]
    <2>1. ASSUME NEW p \in Nat \X D PROVE G[p[2]] \in D
      OBVIOUS
    <2> QED  BY <2>1
  <1>2. PICK g \in [Nat -> D] : Recurs(g, d, F)
    <2> HIDE DEF F
    <2> QED  BY <1>1, NatRecursion
  <1>3. g[0] = d /\ \A n \in Nat : g[n + 1] = G[g[n]]
    BY <1>2 DEF Recurs
  <1>4. ASSUME NEW i \in Nat PROVE g[i] = IF i = 0 THEN d ELSE G[g[i - 1]]
    <2>1. CASE i = 0
      BY <2>1, <1>3
    <2>2. CASE i # 0
      <3>1. i - 1 \in Nat /\ (i - 1) + 1 = i
        BY <2>2
      <3>2. g[(i - 1) + 1] = G[g[i - 1]]
        BY <3>1, <1>3
      <3> QED  BY <2>2, <3>1, <3>2
    <2> QED  BY <2>1, <2>2
  <1>5. Iterates(g, d, G)
    BY <1>4 DEF Iterates
  <1> QED  BY <1>5

-----------------------------------------------------------------------------
(***************************************************************************)
(* Sums: SumFunctionOnSet of the community modules takes the elements in   *)
(* the order of CHOOSE, and the sum does not depend on it.                 *)
(***************************************************************************)

Pick(s) == CHOOSE x \in s : TRUE
SumSolves(it, f, S) ==
    it = [s \in SUBSET S |->
             IF s = {} THEN 0 ELSE f[Pick(s)] + it[s \ {Pick(s)}]]

LEMMA PickIn ==
    ASSUME NEW s, s # {}
    PROVE  Pick(s) \in s
  BY DEF Pick

LEMMA SumUnfold ==
    ASSUME NEW f, NEW S
    PROVE  SumFunctionOnSet(f, S) = (CHOOSE it : SumSolves(it, f, S))[S]
  BY DEF SumFunctionOnSet, FoldFunctionOnSet, MapThenFoldSet, SumSolves, Pick

\* The recursion over the subsets has a solution.
LEMMA SumSolution ==
    ASSUME NEW S, IsFiniteSet(S), NEW f, \A x \in S : f[x] \in Int
    PROVE  \E it \in [SUBSET S -> Int] : SumSolves(it, f, S)
  <1> DEFINE D == [SUBSET S -> Int]
             zero == [s \in SUBSET S |-> 0]
             Step(g) == [s \in SUBSET S |-> IF s = {} THEN 0
                                            ELSE f[Pick(s)] + g[s \ {Pick(s)}]]
             F == [p \in Nat \X D |-> Step(p[2])]
  <1>1. ASSUME NEW g \in D PROVE Step(g) \in D
    <2>1. ASSUME NEW s \in SUBSET S, s # {}
          PROVE  f[Pick(s)] + g[s \ {Pick(s)}] \in Int
      <3>1. Pick(s) \in S /\ s \ {Pick(s)} \in SUBSET S
        BY <2>1, PickIn
      <3>2. f[Pick(s)] \in Int /\ g[s \ {Pick(s)}] \in Int
        BY <3>1
      <3> QED  BY <3>2
    <2> QED  BY <2>1
  <1>2. zero \in D
    OBVIOUS
  <1> HIDE DEF D, zero
  <1>3. F \in [Nat \X D -> D]
    <2> HIDE DEF Step
    <2>1. \A p \in Nat \X D : p[2] \in D
      OBVIOUS
    <2> QED  BY <1>1, <2>1
  <1>4. PICK h \in [Nat -> D] : Recurs(h, zero, F)
    <2> HIDE DEF F
    <2> QED  BY <1>2, <1>3, NatRecursion
  <1>5. ASSUME NEW n \in Nat PROVE h[n + 1] = Step(h[n])
    <2> HIDE DEF Step
    <2>1. h[n] \in D /\ h[n + 1] = F[<<n, h[n]>>]
      BY <1>4 DEF Recurs
    <2> QED  BY <2>1
  <1> DEFINE it == [s \in SUBSET S |-> h[Cardinality(s) + 1][s]]
  <1>6. ASSUME NEW s \in SUBSET S
        PROVE  /\ Cardinality(s) \in Nat
               /\ it[s] = IF s = {} THEN 0 ELSE f[Pick(s)] + h[Cardinality(s)][s \ {Pick(s)}]
    <2>1. Cardinality(s) \in Nat
      BY FS_Subset, FS_CardinalityType
    <2>2. h[Cardinality(s) + 1] = Step(h[Cardinality(s)])
      BY <1>5, <2>1
    <2> QED  BY <2>1, <2>2
  <1>7. ASSUME NEW s \in SUBSET S, s # {}
        PROVE  /\ s \ {Pick(s)} \in SUBSET S
               /\ Cardinality(s \ {Pick(s)}) + 1 = Cardinality(s)
    <2>1. IsFiniteSet(s) /\ Pick(s) \in s
      BY <1>7, PickIn, FS_Subset
    <2>2. Cardinality(s) \in Nat
      BY <1>6
    <2>3. Cardinality(s \ {Pick(s)}) = Cardinality(s) - 1
      BY <2>1, FS_RemoveElement
    <2> QED  BY <2>2, <2>3
  <1>8. ASSUME NEW s \in SUBSET S
        PROVE  it[s] = IF s = {} THEN 0 ELSE f[Pick(s)] + it[s \ {Pick(s)}]
    <2>1. CASE s = {}
      BY <2>1, <1>6
    <2>2. CASE s # {}
      <3>1. it[s \ {Pick(s)}] = h[Cardinality(s)][s \ {Pick(s)}]
        BY <2>2, <1>7
      <3> QED  BY <2>2, <3>1, <1>6
    <2> QED  BY <2>1, <2>2
  <1>9. ASSUME NEW s \in SUBSET S PROVE h[Cardinality(s) + 1][s] \in Int
    <2>1. Cardinality(s) + 1 \in Nat
      BY FS_Subset, FS_CardinalityType
    <2>2. h[Cardinality(s) + 1] \in D
      BY <1>4, <2>1
    <2> QED  BY <2>2 DEF D
  <1>10. it \in [SUBSET S -> Int]
    BY <1>9
  <1> HIDE DEF it
  <1> QED  BY <1>8, <1>10 DEF SumSolves

\* The solutions over a set and over a part of it agree.
LEMMA SumUnique ==
    ASSUME NEW S, IsFiniteSet(S), NEW T \in SUBSET S, NEW f,
           NEW a, SumSolves(a, f, S), NEW b, SumSolves(b, f, T)
    PROVE  a[T] = b[T]
  <1> DEFINE N == {n \in Nat : \A U \in SUBSET T : Cardinality(U) = n => a[U] = b[U]}
  <1>1. ASSUME NEW U \in SUBSET T
        PROVE  /\ a[U] = IF U = {} THEN 0 ELSE f[Pick(U)] + a[U \ {Pick(U)}]
               /\ b[U] = IF U = {} THEN 0 ELSE f[Pick(U)] + b[U \ {Pick(U)}]
               /\ IsFiniteSet(U)
    <2>1. U \in SUBSET S
      OBVIOUS
    <2>2. IsFiniteSet(U)
      BY <2>1, FS_Subset
    <2> QED  BY <2>1, <2>2 DEF SumSolves
  <1>2. 0 \in N
    <2>1. ASSUME NEW U \in SUBSET T, Cardinality(U) = 0 PROVE a[U] = b[U]
      <3>1. U = {}
        BY <2>1, <1>1, FS_EmptySet
      <3> QED  BY <3>1, <1>1
    <2> QED  BY <2>1
  <1>3. ASSUME NEW n \in Nat, n \in N PROVE n + 1 \in N
    <2>1. ASSUME NEW U \in SUBSET T, Cardinality(U) = n + 1 PROVE a[U] = b[U]
      <3>1. U # {}
        BY <2>1, FS_EmptySet
      <3>2. Pick(U) \in U
        BY <3>1, PickIn
      <3> DEFINE V == U \ {Pick(U)}
      <3>3. Cardinality(V) = Cardinality(U) - 1
        BY <3>2, <1>1, FS_RemoveElement
      <3>4. Cardinality(V) = n
        BY <3>3, <2>1
      <3>5. a[V] = b[V]
        BY <3>4, <1>3
      <3> QED  BY <3>1, <3>5, <1>1
    <2> QED  BY <2>1
  <1>4. Nat \subseteq N
    <2> HIDE DEF N
    <2> QED  BY <1>2, <1>3, NatSetInduction
  <1>5. Cardinality(T) \in Nat
    BY FS_Subset, FS_CardinalityType
  <1> QED  BY <1>4, <1>5

LEMMA SumIs ==
    ASSUME NEW S, IsFiniteSet(S), NEW T \in SUBSET S, NEW f, \A x \in S : f[x] \in Int,
           NEW it, SumSolves(it, f, S)
    PROVE  SumFunctionOnSet(f, T) = it[T]
  <1>1. IsFiniteSet(T) /\ \A x \in T : f[x] \in Int
    BY FS_Subset
  <1>2. \E b \in [SUBSET T -> Int] : SumSolves(b, f, T)
    BY <1>1, SumSolution
  <1>3. SumSolves(CHOOSE b : SumSolves(b, f, T), f, T)
    BY <1>2
  <1> DEFINE b == CHOOSE b : SumSolves(b, f, T)
  <1>4. SumFunctionOnSet(f, T) = b[T]
    BY SumUnfold
  <1> HIDE DEF b
  <1>5. it[T] = b[T]
    BY <1>3, SumUnique DEF b
  <1> QED  BY <1>4, <1>5

\* The empty sum, and the type of a sum.
LEMMA SumEmpty ==
    ASSUME NEW f
    PROVE  SumFunctionOnSet(f, {}) = 0
  <1>1. IsFiniteSet({}) /\ \A x \in {} : f[x] \in Int
    BY FS_EmptySet
  <1>2. PICK it \in [SUBSET {} -> Int] : SumSolves(it, f, {})
    BY <1>1, SumSolution
  <1>3. SumFunctionOnSet(f, {}) = it[{}]
    BY <1>1, <1>2, SumIs
  <1> QED  BY <1>2, <1>3 DEF SumSolves

\* One more element adds its value.
LEMMA SumAdd ==
    ASSUME NEW S, IsFiniteSet(S), NEW f, \A y \in S : f[y] \in Int, NEW x \in S
    PROVE  /\ SumFunctionOnSet(f, S \ {x}) \in Int
           /\ SumFunctionOnSet(f, S) = SumFunctionOnSet(f, S \ {x}) + f[x]
  <1>1. PICK it \in [SUBSET S -> Int] : SumSolves(it, f, S)
    BY SumSolution
  <1> DEFINE N == {n \in Nat : \A T \in SUBSET S, z \in S :
                       Cardinality(T) = n /\ z \in T => it[T] = it[T \ {z}] + f[z]}
  <1>2. ASSUME NEW T \in SUBSET S, NEW z \in T
        PROVE  /\ Pick(T) \in T /\ IsFiniteSet(T)
               /\ it[T] = f[Pick(T)] + it[T \ {Pick(T)}]
    <2>1. Pick(T) \in T
      BY PickIn
    <2>2. IsFiniteSet(T)
      BY FS_Subset
    <2> QED  BY <2>1, <2>2, <1>1 DEF SumSolves
  <1>3. 0 \in N
    <2>1. ASSUME NEW T \in SUBSET S, NEW z \in T, Cardinality(T) = 0 PROVE FALSE
      BY <2>1, <1>2, FS_EmptySet
    <2> QED  BY <2>1
  <1>4. ASSUME NEW n \in Nat, n \in N PROVE n + 1 \in N
    <2>1. ASSUME NEW T \in SUBSET S, NEW z \in T, Cardinality(T) = n + 1
          PROVE  it[T] = it[T \ {z}] + f[z]
      <3> DEFINE p == Pick(T)
      <3>1. p \in T /\ IsFiniteSet(T) /\ it[T] = f[p] + it[T \ {p}]
        BY <1>2
      <3> HIDE DEF p
      <3>2. T \ {p} \in SUBSET S /\ T \ {z} \in SUBSET S /\ (T \ {z}) \ {p} \in SUBSET S
        OBVIOUS
      <3>3. /\ it[T \ {p}] \in Int /\ it[T \ {z}] \in Int
            /\ it[(T \ {z}) \ {p}] \in Int /\ f[p] \in Int /\ f[z] \in Int
        BY <3>1, <3>2, <1>1
      <3>4. CASE p = z
        BY <3>1, <3>3, <3>4
      <3>5. CASE p # z
        <4>1. Cardinality(T \ {p}) = n /\ Cardinality(T \ {z}) = n
          <5>1. /\ Cardinality(T \ {p}) = Cardinality(T) - 1
                /\ Cardinality(T \ {z}) = Cardinality(T) - 1
            BY <3>1, FS_RemoveElement
          <5> QED  BY <5>1, <2>1
        <4>2. it[T \ {p}] = it[(T \ {p}) \ {z}] + f[z]
          BY <4>1, <3>2, <3>5, <1>4
        <4>3. it[T \ {z}] = it[(T \ {z}) \ {p}] + f[p]
          BY <4>1, <3>1, <3>2, <3>5, <1>4
        <4>4. (T \ {p}) \ {z} = (T \ {z}) \ {p}
          OBVIOUS
        <4>5. it[T \ {p}] = it[(T \ {z}) \ {p}] + f[z]
          BY <4>2, <4>4
        <4> HIDE DEF N
        <4> QED  BY <3>1, <3>3, <4>3, <4>5
      <3> QED  BY <3>4, <3>5
    <2>2. ASSUME NEW T \in SUBSET S, NEW z \in S, Cardinality(T) = n + 1, z \in T
          PROVE  it[T] = it[T \ {z}] + f[z]
      BY <2>1, <2>2
    <2> QED  BY <2>2
  <1>5. Nat \subseteq N
    <2> HIDE DEF N
    <2> QED  BY <1>3, <1>4, NatSetInduction
  <1>6. Cardinality(S) \in Nat
    BY FS_CardinalityType
  <1>7. it[S] = it[S \ {x}] + f[x]
    BY <1>5, <1>6
  <1>8. SumFunctionOnSet(f, S) = it[S]
    BY <1>1, SumIs
  <1>9. S \ {x} \in SUBSET S
    OBVIOUS
  <1>10. SumFunctionOnSet(f, S \ {x}) = it[S \ {x}]
    BY <1>1, <1>9, SumIs
  <1> QED  BY <1>1, <1>7, <1>8, <1>9, <1>10

\* A sum of integers is an integer, of naturals a natural.
LEMMA SumType ==
    ASSUME NEW S, IsFiniteSet(S), NEW f
    PROVE  /\ (\A x \in S : f[x] \in Int) => SumFunctionOnSet(f, S) \in Int
           /\ (\A x \in S : f[x] \in Nat) => SumFunctionOnSet(f, S) \in Nat
  <1>1. ASSUME \A x \in S : f[x] \in Int PROVE SumFunctionOnSet(f, S) \in Int
    <2>1. PICK it \in [SUBSET S -> Int] : SumSolves(it, f, S)
      BY <1>1, SumSolution
    <2>2. SumFunctionOnSet(f, S) = it[S]
      BY <1>1, <2>1, SumIs
    <2> QED  BY <2>1, <2>2
  <1>2. ASSUME \A x \in S : f[x] \in Nat PROVE SumFunctionOnSet(f, S) \in Nat
    <2> DEFINE P == {T \in SUBSET S : SumFunctionOnSet(f, T) \in Nat}
    <2>1. {} \in P
      BY SumEmpty
    <2>2. ASSUME NEW T \in SUBSET S, NEW x \in S, T \in P, x \notin T
          PROVE  T \cup {x} \in P
      <3>1. IsFiniteSet(T \cup {x})
        <4>1. T \cup {x} \in SUBSET S
          OBVIOUS
        <4> QED  BY <4>1, FS_Subset
      <3>2. \A y \in T \cup {x} : f[y] \in Int
        BY <1>2
      <3>3. x \in T \cup {x} /\ (T \cup {x}) \ {x} = T
        BY <2>2
      <3>4. SumFunctionOnSet(f, T \cup {x}) =
                SumFunctionOnSet(f, (T \cup {x}) \ {x}) + f[x]
        BY <3>1, <3>2, <3>3, SumAdd
      <3>5. SumFunctionOnSet(f, T) \in Nat /\ f[x] \in Nat
        BY <1>2, <2>2
      <3> QED  BY <3>3, <3>4, <3>5
    <2> HIDE DEF P
    <2>3. SUBSET S \subseteq P
      BY <2>1, <2>2, FiniteSetInduction
    <2>4. S \in P
      BY <2>3
    <2> QED  BY <2>4 DEF P
  <1> QED  BY <1>1, <1>2

\* Only the values on the set count.
LEMMA SumEqual ==
    ASSUME NEW S, IsFiniteSet(S), NEW f, NEW g,
           \A x \in S : f[x] \in Int /\ g[x] = f[x]
    PROVE  SumFunctionOnSet(g, S) = SumFunctionOnSet(f, S)
  <1>1. PICK it \in [SUBSET S -> Int] : SumSolves(it, f, S)
    BY SumSolution
  <1>2. SumFunctionOnSet(f, S) = it[S]
    BY <1>1, SumIs
  <1>3. SumSolves(it, g, S)
    <2>1. ASSUME NEW s \in SUBSET S, s # {} PROVE g[Pick(s)] = f[Pick(s)]
      BY <2>1, PickIn
    <2>2. [s \in SUBSET S |-> IF s = {} THEN 0 ELSE f[Pick(s)] + it[s \ {Pick(s)}]]
           = [s \in SUBSET S |-> IF s = {} THEN 0 ELSE g[Pick(s)] + it[s \ {Pick(s)}]]
      BY <2>1
    <2> QED  BY <1>1, <2>2 DEF SumSolves
  <1>4. \A x \in S : g[x] \in Int
    OBVIOUS
  <1>5. SumFunctionOnSet(g, S) = it[S]
    BY <1>3, <1>4, SumIs
  <1> QED  BY <1>2, <1>5

\* What lies beyond a set adds to its sum what it is.
LEMMA SumBeyond ==
    ASSUME NEW S, IsFiniteSet(S), NEW T \in SUBSET S, NEW f, \A x \in S : f[x] \in Int
    PROVE  /\ {SumFunctionOnSet(f, S), SumFunctionOnSet(f, T)} \subseteq Int
           /\ (\A x \in S \ T : f[x] = 0) =>
                  SumFunctionOnSet(f, S) = SumFunctionOnSet(f, T)
           /\ (\A x \in S \ T : f[x] >= 0) =>
                  SumFunctionOnSet(f, S) >= SumFunctionOnSet(f, T)
  <1> DEFINE Sm(U) == SumFunctionOnSet(f, U)
             R == S \ T
             P == {U \in SUBSET R :
                      /\ Sm(T \cup U) \in Int
                      /\ (\A x \in R : f[x] = 0) => Sm(T \cup U) = Sm(T)
                      /\ (\A x \in R : f[x] >= 0) => Sm(T \cup U) >= Sm(T)}
  <1>1. IsFiniteSet(T) /\ IsFiniteSet(R)
    <2>1. R \in SUBSET S
      OBVIOUS
    <2> HIDE DEF R
    <2> QED  BY <2>1, FS_Subset
  <1>2. Sm(T) \in Int
    BY <1>1, SumType
  <1>3. {} \in P
    <2>1. T \cup {} = T
      OBVIOUS
    <2> HIDE DEF Sm
    <2> QED  BY <1>2, <2>1
  <1>4. ASSUME NEW U \in SUBSET R, NEW x \in R, U \in P, x \notin U
        PROVE  U \cup {x} \in P
    <2> DEFINE V == T \cup (U \cup {x})
    <2>1. V \in SUBSET S /\ x \in V /\ V \ {x} = T \cup U
      BY <1>4
    <2>2. IsFiniteSet(V) /\ \A y \in V : f[y] \in Int
      BY <2>1, FS_Subset
    <2>3. Sm(V) = Sm(V \ {x}) + f[x]
      <3> HIDE DEF V
      <3> QED  BY <2>1, <2>2, SumAdd
    <2>4. f[x] \in Int /\ U \cup {x} \in SUBSET R
      OBVIOUS
    <2>5. Sm(V) = Sm(T \cup U) + f[x]
      BY <2>1, <2>3
    <2>6. /\ Sm(T \cup U) \in Int
          /\ (\A y \in R : f[y] = 0) => Sm(T \cup U) = Sm(T)
          /\ (\A y \in R : f[y] >= 0) => Sm(T \cup U) >= Sm(T)
      BY <1>4
    <2> HIDE DEF Sm, V, R
    <2>7. /\ Sm(V) \in Int
          /\ (\A y \in R : f[y] = 0) => Sm(V) = Sm(T)
          /\ (\A y \in R : f[y] >= 0) => Sm(V) >= Sm(T)
      BY <1>2, <2>4, <2>5, <2>6
    <2> QED  BY <2>4, <2>7 DEF V
  <1>5. SUBSET R \subseteq P
    <2> HIDE DEF P, R
    <2> QED  BY <1>1, <1>3, <1>4, FiniteSetInduction
  <1>6. R \in P /\ T \cup R = S
    BY <1>5
  <1> HIDE DEF Sm
  <1> QED  BY <1>2, <1>6 DEF Sm

-----------------------------------------------------------------------------
(***************************************************************************)
(* Order: the greatest element, and the elements in ascending order.       *)
(***************************************************************************)

LEMMA GreatestExists ==
    ASSUME NEW S \in SUBSET Int, IsFiniteSet(S), S # {}
    PROVE  \E m \in S : \A x \in S : x <= m
  <1> DEFINE P == {T \in SUBSET S : T # {} => \E m \in T : \A x \in T : x <= m}
  <1>1. {} \in P
    OBVIOUS
  <1>2. ASSUME NEW T \in SUBSET S, NEW z \in S, T \in P, z \notin T
        PROVE  T \cup {z} \in P
    <2>1. CASE T = {}
      <3>1. \A x \in T \cup {z} : x <= z
        BY <2>1
      <3> QED  BY <3>1
    <2>2. CASE T # {}
      <3>1. PICK m \in T : \A x \in T : x <= m
        BY <1>2, <2>2
      <3>2. CASE z <= m
        <4>1. \A x \in T \cup {z} : x <= m
          BY <3>1, <3>2
        <4> QED  BY <4>1
      <3>3. CASE ~(z <= m)
        <4>1. \A x \in T \cup {z} : x <= z
          BY <3>1, <3>3
        <4> QED  BY <4>1
      <3> QED  BY <3>2, <3>3
    <2> QED  BY <2>1, <2>2
  <1> HIDE DEF P
  <1>3. SUBSET S \subseteq P
    BY <1>1, <1>2, FiniteSetInduction
  <1>4. S \in P
    BY <1>3
  <1> QED  BY <1>4 DEF P

LEMMA GreatestIs ==
    ASSUME NEW S \in SUBSET Int, IsFiniteSet(S), S # {}
    PROVE  Max(S) \in S /\ \A x \in S : x <= Max(S)
  <1>1. PICK m \in S : \A x \in S : x <= m
    BY GreatestExists
  <1>2. \A x \in S : m >= x
    BY <1>1
  <1>3. Max(S) \in S /\ \A x \in S : Max(S) >= x
    BY <1>2 DEF Max
  <1> QED  BY <1>3

\* A subset that holds what is greatest has the same greatest element.
LEMMA GreatestOfPart ==
    ASSUME NEW S \in SUBSET Int, IsFiniteSet(S), NEW T \in SUBSET S, T # {},
           \A x \in S \ T : \A y \in T : x <= y
    PROVE  Max(S) = Max(T)
  <1>1. IsFiniteSet(T) /\ T \in SUBSET Int
    BY FS_Subset
  <1>2. Max(T) \in T /\ \A x \in T : x <= Max(T)
    BY <1>1, GreatestIs
  <1>3. Max(S) \in S /\ \A x \in S : x <= Max(S)
    BY GreatestIs
  <1> DEFINE a == Max(S)
             b == Max(T)
  <1>4. a \in S /\ a \in Int /\ b \in S /\ b \in Int /\ b <= a
    BY <1>1, <1>2, <1>3
  <1>5. a <= b
    <2>1. CASE a \in T
      BY <2>1, <1>2
    <2>2. CASE a \notin T
      BY <2>2, <1>2, <1>3
    <2> QED  BY <2>1, <2>2
  <1> HIDE DEF a, b
  <1>6. a = b
    BY <1>4, <1>5
  <1> QED  BY <1>6 DEF a, b

LEMMA IncreasingExists ==
    ASSUME NEW S \in SUBSET Int, IsFiniteSet(S)
    PROVE  \E s \in [1..Cardinality(S) -> S] : Increasing(s)
  <1> DEFINE N == {n \in Nat : \A T \in SUBSET S : Cardinality(T) = n =>
                                   \E s \in [1..n -> T] : Increasing(s)}
  <1>1. 0 \in N
    <2>1. ASSUME NEW T \in SUBSET S, Cardinality(T) = 0
          PROVE  \E s \in [1..0 -> T] : Increasing(s)
      <3>1. [i \in 1..0 |-> 0] \in [1..0 -> T]
        OBVIOUS
      <3>2. Increasing([i \in 1..0 |-> 0])
        BY DEF Increasing
      <3> QED  BY <3>1, <3>2
    <2> QED  BY <2>1
  <1>2. ASSUME NEW n \in Nat, n \in N PROVE n + 1 \in N
    <2>1. ASSUME NEW T \in SUBSET S, Cardinality(T) = n + 1
          PROVE  \E s \in [1..(n + 1) -> T] : Increasing(s)
      <3>1. IsFiniteSet(T) /\ T \in SUBSET Int
        BY <2>1, FS_Subset
      <3>2. T # {}
        <4>1. Cardinality(T) # 0
          BY <2>1
        <4> QED  BY <4>1, FS_EmptySet
      <3>3. PICK m \in T : \A x \in T : x <= m
        BY <3>1, <3>2, GreatestExists
      <3>4. Cardinality(T \ {m}) = n
        <4>1. Cardinality(T \ {m}) = Cardinality(T) - 1
          BY <3>1, FS_RemoveElement
        <4> QED  BY <4>1, <2>1
      <3>5. PICK s \in [1..n -> T \ {m}] : Increasing(s)
        <4>1. T \ {m} \in SUBSET S
          OBVIOUS
        <4> QED  BY <4>1, <3>4, <1>2
      <3> DEFINE t == [i \in 1..(n + 1) |-> IF i = n + 1 THEN m ELSE s[i]]
      <3>6. \A i \in 1..n : s[i] \in T /\ s[i] # m
        BY <3>5
      <3>7. t \in [1..(n + 1) -> T]
        BY <3>6
      <3>8. ASSUME NEW i \in 1..(n + 1), NEW j \in 1..(n + 1), i < j
            PROVE  t[i] < t[j]
        <4>1. i \in 1..n /\ t[i] = s[i]
          BY <3>8
        <4>2. CASE j = n + 1
          <5>1. s[i] \in T /\ s[i] # m /\ s[i] <= m
            BY <4>1, <3>3, <3>6
          <5>2. s[i] \in Int /\ m \in Int
            BY <5>1, <3>1
          <5> QED  BY <4>1, <4>2, <5>1, <5>2
        <4>3. CASE j # n + 1
          <5>1. j \in 1..n /\ t[j] = s[j]
            BY <4>3
          <5> QED  BY <4>1, <5>1, <3>5, <3>8 DEF Increasing
        <4> QED  BY <4>2, <4>3
      <3>9. DOMAIN t = 1..(n + 1)
        OBVIOUS
      <3> HIDE DEF t
      <3>10. Increasing(t)
        BY <3>8, <3>9 DEF Increasing
      <3> QED  BY <3>7, <3>10
    <2> QED  BY <2>1
  <1>3. Nat \subseteq N
    <2> HIDE DEF N
    <2> QED  BY <1>1, <1>2, NatSetInduction
  <1>4. Cardinality(S) \in Nat
    BY FS_CardinalityType
  <1> QED  BY <1>3, <1>4

\* orderBy returns every number of the set once, in order.
LEMMA AscendingIs ==
    ASSUME NEW S \in SUBSET Int, IsFiniteSet(S)
    PROVE  /\ Ascending(S) \in [1..Cardinality(S) -> S]
           /\ Cardinality(S) \in Nat
           /\ Increasing(Ascending(S))
           /\ \A i, j \in 1..Cardinality(S) :
                  Ascending(S)[i] = Ascending(S)[j] => i = j
           /\ \A x \in S : \E i \in 1..Cardinality(S) : Ascending(S)[i] = x
  <1> DEFINE s == Ascending(S)
             n == Cardinality(S)
  <1>1. s \in [1..n -> S] /\ Increasing(s)
    BY IncreasingExists DEF Ascending
  <1>2. n \in Nat
    BY FS_CardinalityType
  <1> HIDE DEF s, n
  <1>3. ASSUME NEW i \in 1..n, NEW j \in 1..n, s[i] = s[j] PROVE i = j
    <2>1. s[i] \in Int /\ DOMAIN s = 1..n
      BY <1>1
    <2>2. ~(s[i] < s[j]) /\ ~(s[j] < s[i])
      BY <2>1, <1>3
    <2>3. ~(i < j) /\ ~(j < i)
      BY <2>1, <2>2, <1>1 DEF Increasing
    <2> QED  BY <2>3, <1>2
  <1>4. s \in Injection(1..n, S)
    BY <1>1, <1>3, Fun_IsInj
  <1>5. IsFiniteSet(1..n) /\ Cardinality(1..n) = n
    BY <1>2, FS_Interval
  <1>6. s \in Surjection(1..n, S)
    BY <1>4, <1>5, FS_Injection DEF n
  <1>7. \A x \in S : \E i \in 1..n : s[i] = x
    BY <1>6 DEF Surjection
  <1> QED  BY <1>1, <1>2, <1>3, <1>7 DEF s, n

LEMMA AscendingSeq ==
    ASSUME NEW S \in SUBSET Int, IsFiniteSet(S)
    PROVE  /\ Ascending(S) \in Seq(S)
           /\ Len(Ascending(S)) = Cardinality(S)
           /\ ToSet(Ascending(S)) = S
  <1>1. Ascending(S) \in Seq(S) /\ Len(Ascending(S)) = Cardinality(S)
    BY AscendingIs
  <1>2. DOMAIN Ascending(S) = 1..Cardinality(S)
    BY AscendingIs
  <1>3. \A i \in 1..Cardinality(S) : Ascending(S)[i] \in S
    BY AscendingIs
  <1>4. \A x \in S : \E i \in 1..Cardinality(S) : Ascending(S)[i] = x
    BY AscendingIs
  <1>5. ToSet(Ascending(S)) = {Ascending(S)[i] : i \in 1..Cardinality(S)}
    BY <1>2 DEF ToSet
  <1>6. ToSet(Ascending(S)) = S
    BY <1>3, <1>4, <1>5
  <1> QED  BY <1>1, <1>6

-----------------------------------------------------------------------------
(***************************************************************************)
(* Halvings.                                                               *)
(***************************************************************************)

HalvesOn(h, d) == h = [i \in Nat |-> IF i = 0 THEN d ELSE h[i - 1] \div 2]

LEMMA LeftOfUnfold ==
    ASSUME NEW d, NEW n
    PROVE  LeftOf(d, n) = (CHOOSE h : HalvesOn(h, d))[n]
  BY DEF LeftOf, HalvesOn

\* Each halving takes half of what the last one has left.
LEMMA LeftOfIs ==
    ASSUME NEW d \in Nat
    PROVE  /\ LeftOf(d, 0) = d
           /\ \A n \in Nat : /\ LeftOf(d, n) \in Nat
                             /\ LeftOf(d, n + 1) = LeftOf(d, n) \div 2
  <1> DEFINE G == [r \in Nat |-> r \div 2]
  <1>1. G \in [Nat -> Nat]
    OBVIOUS
  <1>2. PICK g \in [Nat -> Nat] : Iterates(g, d, G)
    <2> HIDE DEF G
    <2> QED  BY <1>1, Iterated
  <1>3. HalvesOn(g, d)
    <2>1. \A i \in Nat : i # 0 => G[g[i - 1]] = g[i - 1] \div 2
      OBVIOUS
    <2> HIDE DEF G
    <2>2. [i \in Nat |-> IF i = 0 THEN d ELSE G[g[i - 1]]]
          = [i \in Nat |-> IF i = 0 THEN d ELSE g[i - 1] \div 2]
      BY <2>1
    <2> QED  BY <1>2, <2>2 DEF HalvesOn, Iterates
  <1> DEFINE c == CHOOSE h : HalvesOn(h, d)
  <1>4. HalvesOn(c, d)
    BY <1>3
  <1>5. \A n \in Nat : LeftOf(d, n) = c[n]
    BY LeftOfUnfold
  <1> HIDE DEF c
  <1>6. \A i \in Nat : c[i] = IF i = 0 THEN d ELSE c[i - 1] \div 2
    BY <1>4 DEF HalvesOn
  <1>7. c[0] = d /\ \A n \in Nat : c[n + 1] = c[n] \div 2
    <2>1. ASSUME NEW n \in Nat PROVE c[n + 1] = c[n] \div 2
      <3>1. n + 1 \in Nat /\ n + 1 # 0 /\ (n + 1) - 1 = n
        OBVIOUS
      <3>2. c[n + 1] = c[(n + 1) - 1] \div 2
        BY <3>1, <1>6
      <3> QED  BY <3>1, <3>2
    <2> QED  BY <2>1, <1>6
  <1> DEFINE N == {n \in Nat : c[n] \in Nat}
  <1>8. Nat \subseteq N
    <2>1. 0 \in N
      BY <1>7
    <2>2. \A n \in Nat : n \in N => n + 1 \in N
      BY <1>7
    <2> HIDE DEF N
    <2> QED  BY <2>1, <2>2, NatSetInduction
  <1> QED  BY <1>5, <1>7, <1>8
=============================================================================

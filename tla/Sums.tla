-------------------------------- MODULE Sums ---------------------------------
(***************************************************************************)
(* The sum of a function over a finite set, as a number of pieces: f[x] of  *)
(* them for each member x.  What the folds of the models compute is this   *)
(* sum, whichever order they take the members in.                          *)
(***************************************************************************)
EXTENDS Integers, FiniteSets, FiniteSetTheorems, WellFoundedInduction, TLAPS

Pieces(f, S) == UNION {{x} \X (1..f[x]) : x \in S}

Sum(f, S) == Cardinality(Pieces(f, S))

LEMMA LeastNumber ==
    ASSUME NEW S \in SUBSET Nat, S # {}
    PROVE  \E x \in S : \A y \in S : x <= y
<1>1. PICK x \in S : \A y \in S : ~ (<<y, x>> \in OpToRel(<, Nat))
  BY WFMin, NatLessThanWellFounded
<1>2. \A y \in S : x <= y
  <2> SUFFICES ASSUME NEW y \in S PROVE x <= y
    OBVIOUS
  <2>1. x \in Nat /\ y \in Nat
    OBVIOUS
  <2>2. <<y, x>> \in Nat \X Nat /\ <<y, x>>[1] = y /\ <<y, x>>[2] = x
    BY <2>1
  <2>3. ~(y < x)
    BY <1>1, <2>2 DEF OpToRel
  <2> QED BY <2>1, <2>3
<1> QED BY <1>2

(* Of some subsets of a finite set, one has the fewest members: the way to an
   induction over finite sets *)
LEMMA FewestMembers ==
    ASSUME NEW S, IsFiniteSet(S), NEW C \in SUBSET (SUBSET S), C # {}
    PROVE  \E T \in C : /\ IsFiniteSet(T)
                        /\ \A x \in T : T \ {x} \notin C
<1> DEFINE N == {Cardinality(T) : T \in C}
<1>1. \A T \in C : IsFiniteSet(T) /\ Cardinality(T) \in Nat
  BY FS_Subset, FS_CardinalityType
<1>2. N \in SUBSET Nat /\ N # {}
  BY <1>1
<1> HIDE DEF N
<1>3. PICK n \in N : \A m \in N : n <= m
  BY <1>2, LeastNumber
<1>4. PICK T \in C : n = Cardinality(T)
  BY <1>3 DEF N
<1>5. ASSUME NEW x \in T, T \ {x} \in C PROVE FALSE
  <2>1. Cardinality(T \ {x}) = n - 1
    BY <1>1, <1>4, FS_RemoveElement
  <2>2. n <= Cardinality(T \ {x})
    BY <1>3, <1>5 DEF N
  <2>3. n \in Nat
    BY <1>2
  <2> QED BY <2>1, <2>2, <2>3
<1> QED BY <1>1, <1>5

LEMMA PiecesOf ==
    ASSUME NEW f, NEW S, NEW T
    PROVE  /\ Pieces(f, {}) = {}
           /\ Pieces(f, S \cup T) = Pieces(f, S) \cup Pieces(f, T)
           /\ S \cap T = {} => Pieces(f, S) \cap Pieces(f, T) = {}
           /\ S \subseteq T => Pieces(f, S) \subseteq Pieces(f, T)
           /\ \A x : Pieces(f, {x}) = {x} \X (1..f[x])
<1>1. Pieces(f, {}) = {}
  BY DEF Pieces
<1>2. Pieces(f, S \cup T) = Pieces(f, S) \cup Pieces(f, T)
  BY DEF Pieces
<1>3. S \cap T = {} => Pieces(f, S) \cap Pieces(f, T) = {}
  <2> SUFFICES ASSUME S \cap T = {}, NEW u, u \in Pieces(f, S), u \in Pieces(f, T) PROVE FALSE
    OBVIOUS
  <2>1. PICK x \in S : u \in {x} \X (1..f[x])
    BY DEF Pieces
  <2>2. PICK y \in T : u \in {y} \X (1..f[y])
    BY DEF Pieces
  <2>3. x = y
    BY <2>1, <2>2
  <2> QED BY <2>3
<1>4. S \subseteq T => Pieces(f, S) \subseteq Pieces(f, T)
  BY DEF Pieces
<1>5. \A x : Pieces(f, {x}) = {x} \X (1..f[x])
  BY DEF Pieces
<1> QED BY <1>1, <1>2, <1>3, <1>4, <1>5

LEMMA PiecesOfOne ==
    ASSUME NEW f, NEW x, f[x] \in Nat
    PROVE  IsFiniteSet(Pieces(f, {x})) /\ Cardinality(Pieces(f, {x})) = f[x]
<1>1. Pieces(f, {x}) = {x} \X (1..f[x])
  BY PiecesOf
<1>2. IsFiniteSet({x}) /\ Cardinality({x}) = 1
  BY FS_Singleton
<1>3. IsFiniteSet(1..f[x]) /\ Cardinality(1..f[x]) = f[x]
  BY FS_Interval
<1>4. IsFiniteSet({x} \X (1..f[x])) /\ Cardinality({x} \X (1..f[x])) = 1 * f[x]
  BY <1>2, <1>3, FS_Product
<1>5. \A n \in Nat : 1 * n = n
  OBVIOUS
<1>6. 1 * f[x] = f[x]
  BY <1>5
<1> QED BY <1>1, <1>4, <1>6

LEMMA PiecesFinite ==
    ASSUME NEW S, IsFiniteSet(S), NEW f, \A x \in S : f[x] \in Nat
    PROVE  IsFiniteSet(Pieces(f, S))
<1> DEFINE C == {T \in SUBSET S : ~IsFiniteSet(Pieces(f, T))}
<1> SUFFICES C = {}
  OBVIOUS
<1>1. ASSUME C # {} PROVE FALSE
  <2>0. C \in SUBSET (SUBSET S)
    OBVIOUS
  <2>1. PICK T \in C : \A x \in T : T \ {x} \notin C
    <3> HIDE DEF C
    <3> QED BY <1>1, <2>0, FewestMembers
  <2>2. T # {}
    BY PiecesOf, FS_EmptySet
  <2>3. PICK x : x \in T
    BY <2>2
  <2>4. IsFiniteSet(Pieces(f, T \ {x}))
    BY <2>1, <2>3
  <2>5. IsFiniteSet(Pieces(f, {x}))
    BY <2>3, PiecesOfOne
  <2>6. T = (T \ {x}) \cup {x}
    BY <2>3
  <2>7. Pieces(f, T) = Pieces(f, T \ {x}) \cup Pieces(f, {x})
    BY <2>6, PiecesOf
  <2>8. IsFiniteSet(Pieces(f, T \ {x}) \cup Pieces(f, {x}))
    BY <2>4, <2>5, FS_Union
  <2> QED BY <2>7, <2>8
<1> QED BY <1>1

LEMMA SumType ==
    ASSUME NEW S, IsFiniteSet(S), NEW f, \A x \in S : f[x] \in Nat
    PROVE  Sum(f, S) \in Nat
  BY PiecesFinite, FS_CardinalityType DEF Sum

LEMMA SumEmpty == ASSUME NEW f PROVE Sum(f, {}) = 0
  BY PiecesOf, FS_EmptySet DEF Sum

LEMMA SumUnion ==
    ASSUME NEW S, IsFiniteSet(S), NEW T, IsFiniteSet(T), S \cap T = {},
           NEW f, \A x \in S \cup T : f[x] \in Nat
    PROVE  Sum(f, S \cup T) = Sum(f, S) + Sum(f, T)
<1>1. IsFiniteSet(Pieces(f, S)) /\ IsFiniteSet(Pieces(f, T))
  BY PiecesFinite
<1>2. Pieces(f, S \cup T) = Pieces(f, S) \cup Pieces(f, T) /\ Pieces(f, S) \cap Pieces(f, T) = {}
  BY PiecesOf
<1>3. Cardinality(Pieces(f, S) \cup Pieces(f, T))
        = Cardinality(Pieces(f, S)) + Cardinality(Pieces(f, T))
            - Cardinality(Pieces(f, S) \cap Pieces(f, T))
  BY <1>1, FS_Union
<1>4. Sum(f, S) \in Nat /\ Sum(f, T) \in Nat
  BY <1>1, FS_CardinalityType DEF Sum
<1>5. Sum(f, S \cup T) = Sum(f, S) + Sum(f, T) - 0
  BY <1>2, <1>3, FS_EmptySet DEF Sum
<1> QED BY <1>4, <1>5

LEMMA SumOne ==
    ASSUME NEW f, NEW x, f[x] \in Nat
    PROVE  Sum(f, {x}) = f[x]
  BY PiecesOfOne DEF Sum

LEMMA SumWithout ==
    ASSUME NEW S, IsFiniteSet(S), NEW f, \A x \in S : f[x] \in Nat, NEW x \in S
    PROVE  Sum(f, S) = f[x] + Sum(f, S \ {x})
<1>1. IsFiniteSet({x}) /\ IsFiniteSet(S \ {x})
  BY FS_Singleton, FS_RemoveElement
<1>2. (S \ {x}) \cup {x} = S /\ (S \ {x}) \cap {x} = {}
  OBVIOUS
<1>3. Sum(f, (S \ {x}) \cup {x}) = Sum(f, S \ {x}) + Sum(f, {x})
  BY <1>1, <1>2, SumUnion
<1>4. Sum(f, S \ {x}) \in Nat
  BY <1>1, SumType
<1>5. Sum(f, {x}) = f[x]
  BY SumOne
<1>6. Sum(f, S) = Sum(f, S \ {x}) + f[x] /\ f[x] \in Nat
  BY <1>2, <1>3, <1>5
<1> QED BY <1>4, <1>6

LEMMA SumSame ==
    ASSUME NEW S, NEW f, NEW g, \A x \in S : f[x] = g[x]
    PROVE  Sum(f, S) = Sum(g, S)
  BY DEF Sum, Pieces

LEMMA SumMonotone ==
    ASSUME NEW S, IsFiniteSet(S), NEW T \in SUBSET S, NEW f, NEW g,
           \A x \in S : f[x] \in Nat /\ g[x] \in Nat /\ f[x] <= g[x]
    PROVE  Sum(f, T) <= Sum(g, S)
<1>1. Pieces(f, T) \subseteq Pieces(g, S)
  <2> SUFFICES ASSUME NEW u \in Pieces(f, T) PROVE u \in Pieces(g, S)
    OBVIOUS
  <2>1. PICK x \in T : u \in {x} \X (1..f[x])
    BY DEF Pieces
  <2>2. u \in {x} \X (1..g[x])
    BY <2>1
  <2> QED BY <2>2 DEF Pieces
<1>2. IsFiniteSet(Pieces(g, S))
  BY PiecesFinite
<1> QED BY <1>1, <1>2, FS_Subset DEF Sum

(* What is at most u times as much member by member is so in sum *)
LEMMA SumScaled ==
    ASSUME NEW S, IsFiniteSet(S), NEW u \in Nat, NEW f, NEW g,
           \A x \in S : f[x] \in Nat /\ g[x] \in Nat /\ f[x] <= u * g[x]
    PROVE  Sum(f, S) <= u * Sum(g, S)
<1> DEFINE C == {T \in SUBSET S : ~(Sum(f, T) <= u * Sum(g, T))}
<1> SUFFICES C = {}
  OBVIOUS
<1>1. ASSUME C # {} PROVE FALSE
  <2>0. C \in SUBSET (SUBSET S)
    OBVIOUS
  <2>1. PICK T \in C : \A x \in T : T \ {x} \notin C
    <3> HIDE DEF C
    <3> QED BY <1>1, <2>0, FewestMembers
  <2>2. ~(Sum(f, T) <= u * Sum(g, T)) /\ T \in SUBSET S
    OBVIOUS
  <2>3. CASE T = {}
    <3>1. Sum(f, T) = 0 /\ Sum(g, T) = 0
      BY <2>3, SumEmpty
    <3> QED BY <2>2, <3>1
  <2>4. CASE T # {}
    <3>1. PICK x : x \in T
      BY <2>4
    <3>2. IsFiniteSet(T) /\ IsFiniteSet(T \ {x}) /\ x \in S
      BY <2>2, <3>1, FS_Subset, FS_RemoveElement
    <3>3. PICK a : a = Sum(f, T \ {x})
      OBVIOUS
    <3>4. PICK b : b = Sum(g, T \ {x})
      OBVIOUS
    <3>5. a \in Nat /\ b \in Nat
      BY <2>2, <3>2, <3>3, <3>4, SumType
    <3>6. a <= u * b
      BY <2>1, <2>2, <3>1, <3>3, <3>4
    <3>7. Sum(f, T) = f[x] + a /\ Sum(g, T) = g[x] + b
      BY <2>2, <3>1, <3>2, <3>3, <3>4, SumWithout
    <3>8. PICK k : k = f[x]
      OBVIOUS
    <3>9. PICK m : m = g[x]
      OBVIOUS
    <3>10. k \in Nat /\ m \in Nat /\ k <= u * m
      BY <3>2, <3>8, <3>9
    <3>11. u * (m + b) = u * m + u * b
      BY <3>5, <3>10
    <3>12. k + a <= u * (m + b)
      BY <3>5, <3>6, <3>10, <3>11
    <3> QED BY <2>2, <3>7, <3>8, <3>9, <3>12
  <2> QED BY <2>3, <2>4
<1> QED BY <1>1

(* What is u times as much member by member is so in sum *)
LEMMA SumTimes ==
    ASSUME NEW S, IsFiniteSet(S), NEW u \in Nat, NEW f, NEW g,
           \A x \in S : f[x] \in Nat /\ g[x] \in Nat /\ f[x] = u * g[x]
    PROVE  Sum(f, S) = u * Sum(g, S)
<1> DEFINE C == {T \in SUBSET S : Sum(f, T) # u * Sum(g, T)}
<1> SUFFICES C = {}
  OBVIOUS
<1>1. ASSUME C # {} PROVE FALSE
  <2>0. C \in SUBSET (SUBSET S)
    OBVIOUS
  <2>1. PICK T \in C : \A x \in T : T \ {x} \notin C
    <3> HIDE DEF C
    <3> QED BY <1>1, <2>0, FewestMembers
  <2>2. Sum(f, T) # u * Sum(g, T) /\ T \in SUBSET S
    OBVIOUS
  <2>3. PICK x : x \in T
    <3>1. T = {} => Sum(f, T) = 0 /\ Sum(g, T) = 0
      BY SumEmpty
    <3> QED BY <2>2, <3>1
  <2>4. IsFiniteSet(T) /\ IsFiniteSet(T \ {x}) /\ x \in S
    BY <2>2, <2>3, FS_Subset, FS_RemoveElement
  <2>5. PICK a, b : a = Sum(f, T \ {x}) /\ b = Sum(g, T \ {x})
    OBVIOUS
  <2>6. a \in Nat /\ b \in Nat
    BY <2>2, <2>4, <2>5, SumType
  <2>7. a = u * b
    BY <2>1, <2>2, <2>3, <2>5
  <2>8. Sum(f, T) = f[x] + a /\ Sum(g, T) = g[x] + b
    BY <2>2, <2>3, <2>4, <2>5, SumWithout
  <2>9. PICK m \in Nat : m = g[x] /\ f[x] = u * m
    BY <2>4
  <2>10. u * (m + b) = u * m + u * b
    BY <2>6
  <2> QED BY <2>2, <2>7, <2>8, <2>9, <2>10
<1> QED BY <1>1

(* The members may be renamed one to one *)
LEMMA SumRenamed ==
    ASSUME NEW D, IsFiniteSet(D), NEW R, NEW h \in [D -> R],
           \A d, e \in D : h[d] = h[e] => d = e,
           \A r \in R : \E d \in D : h[d] = r,
           NEW f, NEW g, \A d \in D : f[d] \in Nat /\ g[h[d]] = f[d]
    PROVE  /\ Sum(f, D) = Sum(g, R)
           /\ IsFiniteSet(R) /\ Cardinality(R) = Cardinality(D)
<1>1. h \in Bijection(D, R)
  BY DEF Bijection, Injection, Surjection, IsInjective
<1>2. IsFiniteSet(R) /\ Cardinality(R) = Cardinality(D)
  BY <1>1, FS_Bijection DEF ExistsBijection
<1> DEFINE H == [u \in Pieces(f, D) |-> <<h[u[1]], u[2]>>]
<1>3. ASSUME NEW u \in Pieces(f, D)
      PROVE  u = <<u[1], u[2]>> /\ u[1] \in D /\ u[2] \in 1..f[u[1]]
  BY DEF Pieces
<1>4. ASSUME NEW d \in D, NEW k \in 1..f[d] PROVE <<d, k>> \in Pieces(f, D)
  BY DEF Pieces
<1>5. ASSUME NEW u \in Pieces(f, D) PROVE H[u] \in Pieces(g, R)
  <2>1. h[u[1]] \in R /\ u[2] \in 1..g[h[u[1]]]
    BY <1>3
  <2>2. <<h[u[1]], u[2]>> \in {h[u[1]]} \X (1..g[h[u[1]]])
    BY <2>1
  <2> QED BY <2>1, <2>2 DEF Pieces
<1>6. ASSUME NEW u \in Pieces(f, D), NEW w \in Pieces(f, D), H[u] = H[w] PROVE u = w
  BY <1>3, <1>6
<1>7. ASSUME NEW w \in Pieces(g, R) PROVE \E u \in Pieces(f, D) : H[u] = w
  <2>1. PICK r \in R : w \in {r} \X (1..g[r])
    BY DEF Pieces
  <2>2. PICK d \in D : h[d] = r
    OBVIOUS
  <2>3. w = <<r, w[2]>> /\ w[2] \in 1..f[d]
    BY <2>1, <2>2
  <2>4. <<d, w[2]>> \in Pieces(f, D)
    BY <1>4, <2>3
  <2> QED BY <2>2, <2>3, <2>4
<1>8. H \in Bijection(Pieces(f, D), Pieces(g, R))
  <2>1. H \in [Pieces(f, D) -> Pieces(g, R)]
    BY <1>5
  <2> HIDE DEF H
  <2> QED BY <1>6, <1>7, <2>1 DEF Bijection, Injection, Surjection, IsInjective
<1>9. IsFiniteSet(Pieces(f, D))
  BY PiecesFinite
<1>10. Cardinality(Pieces(g, R)) = Cardinality(Pieces(f, D))
  BY <1>8, <1>9, FS_Bijection DEF ExistsBijection
<1> QED BY <1>2, <1>10 DEF Sum

(* A fold that takes the members of S one by one is the sum over S *)
IsFold(iter, f, S) ==
    iter = [s \in SUBSET S |-> IF s = {} THEN 0
                               ELSE f[CHOOSE x \in s : TRUE] + iter[s \ {CHOOSE x \in s : TRUE}]]

LEMMA FoldExists ==
    ASSUME NEW S, IsFiniteSet(S), NEW f, \A x \in S : f[x] \in Nat
    PROVE  IsFold([s \in SUBSET S |-> Sum(f, s)], f, S)
<1> SUFFICES ASSUME NEW s \in SUBSET S
             PROVE  Sum(f, s) = IF s = {} THEN 0
                                ELSE f[CHOOSE x \in s : TRUE] + Sum(f, s \ {CHOOSE x \in s : TRUE})
  BY DEF IsFold
<1>1. CASE s = {}
  BY <1>1, SumEmpty
<1>2. CASE s # {}
  <2>1. (CHOOSE x \in s : TRUE) \in s
    BY <1>2
  <2>2. IsFiniteSet(s)
    BY FS_Subset
  <2> QED BY <1>2, <2>1, <2>2, SumWithout
<1> QED BY <1>1, <1>2

LEMMA FoldIsSum ==
    ASSUME NEW S, IsFiniteSet(S), NEW f, \A x \in S : f[x] \in Nat,
           NEW iter, IsFold(iter, f, S)
    PROVE  iter[S] = Sum(f, S)
<1> DEFINE C == {T \in SUBSET S : iter[T] # Sum(f, T)}
<1> SUFFICES C = {}
  OBVIOUS
<1>1. ASSUME C # {} PROVE FALSE
  <2>0. C \in SUBSET (SUBSET S)
    OBVIOUS
  <2>1. PICK T \in C : \A x \in T : T \ {x} \notin C
    <3> HIDE DEF C
    <3> QED BY <1>1, <2>0, FewestMembers
  <2>2. T # {}
    BY SumEmpty DEF IsFold
  <2>3. PICK x \in T : iter[T] = f[x] + iter[T \ {x}]
    BY <2>2 DEF IsFold
  <2>4. iter[T \ {x}] = Sum(f, T \ {x})
    BY <2>1
  <2>5. IsFiniteSet(T)
    BY FS_Subset
  <2> QED BY <2>3, <2>4, <2>5, SumWithout
<1> QED BY <1>1
=============================================================================

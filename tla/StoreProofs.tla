----------------------------- MODULE StoreProofs -----------------------------
(***************************************************************************)
(* Theorems about the store, for every set of names, shelves, prices and   *)
(* amounts, and any number of merchandise and carts.                       *)
(***************************************************************************)
EXTENDS Store, InductionProofs, FiniteSetTheorems

-----------------------------------------------------------------------------
(* Sums over finite sets.  SumFunctionOnSet takes one element out of the   *)
(* set after the other, in an order nobody knows.                          *)
Pick(S) == CHOOSE x \in S : TRUE

Summing(g, f, S) ==
  g = [s \in SUBSET S |-> IF s = {} THEN 0 ELSE f[Pick(s)] + g[s \ {Pick(s)}]]

(* The sum is the value of the function that its definition describes.     *)
LEMMA SumIs ==
  ASSUME NEW f, NEW S
  PROVE  SumFunctionOnSet(f, S) = (CHOOSE g : Summing(g, f, S))[S]
BY Zenon DEF SumFunctionOnSet, FoldFunctionOnSet, MapThenFoldSet, Summing, Pick

(* Induction over the subsets of a finite set, of a statement given as the *)
(* set of the subsets it holds for.                                        *)
LEMMA SubsetInduction ==
  ASSUME NEW S, IsFiniteSet(S), NEW T,
         \A A \in SUBSET S : (\A B \in SUBSET S : Cardinality(B) < Cardinality(A) => B \in T) => A \in T
  PROVE  \A A \in SUBSET S : A \in T
<1> DEFINE Sizes == {n \in Nat : \E A \in SUBSET S : A \notin T /\ Cardinality(A) = n}
<1>1. \A A \in SUBSET S : Cardinality(A) \in Nat
  BY FS_Subset, FS_CardinalityType
<1>2. ASSUME NEW n \in Sizes, \A k \in Sizes : n <= k PROVE FALSE
  <2>1. PICK A \in SUBSET S : A \notin T /\ Cardinality(A) = n
    OBVIOUS
  <2>2. PICK B \in SUBSET S : Cardinality(B) < Cardinality(A) /\ B \notin T
    BY <2>1
  <2>3. Cardinality(B) \in Sizes /\ Cardinality(B) \in Nat /\ n \in Nat
    BY <1>1, <2>2
  <2> QED BY <1>2, <2>1, <2>2, <2>3
<1>3. Sizes = {}
  <2>1. Sizes \subseteq Nat
    OBVIOUS
  <2> HIDE DEF Sizes
  <2> QED BY <1>2, <2>1, LeastNatural
<1> QED BY <1>1, <1>3

(* A set without the element picked is smaller. *)
LEMMA PickSmaller ==
  ASSUME NEW S, IsFiniteSet(S), S # {}
  PROVE  /\ Pick(S) \in S
         /\ S \ {Pick(S)} \subseteq S
         /\ IsFiniteSet(S \ {Pick(S)})
         /\ Cardinality(S \ {Pick(S)}) < Cardinality(S)
<1>1. Pick(S) \in S
  BY DEF Pick
<1>2. Cardinality(S) \in Nat
  BY FS_CardinalityType
<1>3. \A x \in S : IsFiniteSet(S \ {x}) /\ Cardinality(S \ {x}) = Cardinality(S) - 1
  BY FS_RemoveElement
<1>4. IsFiniteSet(S \ {Pick(S)}) /\ Cardinality(S \ {Pick(S)}) = Cardinality(S) - 1
  BY <1>1, <1>3, Zenon
<1> QED BY <1>1, <1>2, <1>4

(* Two such functions agree wherever both are defined. *)
LEMMA SummingAgrees ==
  ASSUME NEW f, NEW S, NEW R, R \subseteq S, IsFiniteSet(S),
         NEW g, NEW h, Summing(g, f, S), Summing(h, f, R)
  PROVE  g[R] = h[R]
<1> DEFINE T == {A \in SUBSET R : g[A] = h[A]}
<1>1. IsFiniteSet(R)
  BY FS_Subset
<1>2. ASSUME NEW A \in SUBSET R, \A B \in SUBSET R : Cardinality(B) < Cardinality(A) => B \in T
      PROVE  A \in T
  <2>1. A \in SUBSET S /\ IsFiniteSet(A)
    BY <1>1, FS_Subset
  <2>2. CASE A = {}
    BY <2>1, <2>2 DEF Summing
  <2>3. CASE A # {}
    <3> DEFINE B == A \ {Pick(A)}
    <3>1. B \in SUBSET R /\ Cardinality(B) < Cardinality(A)
      BY <2>1, <2>3, PickSmaller
    <3>2. B \in T
      BY <1>2, <3>1
    <3>3. g[B] = h[B]
      BY <3>2
    <3>4. g[A] = f[Pick(A)] + g[B]
      BY <2>1, <2>3 DEF Summing
    <3>5. h[A] = f[Pick(A)] + h[B]
      BY <2>3 DEF Summing
    <3> QED BY <3>3, <3>4, <3>5
  <2> QED BY <2>2, <2>3
<1> HIDE DEF T
<1>3. \A A \in SUBSET R : A \in T
  BY <1>1, <1>2, SubsetInduction
<1> QED BY <1>3 DEF T

(* There is one. *)
LEMMA SummingExists ==
  ASSUME NEW f, NEW S, IsFiniteSet(S)
  PROVE  \E g : Summing(g, f, S)
<1> DEFINE T == {A \in SUBSET S : \E g : Summing(g, f, A)}
           Fun(A) == CHOOSE g : Summing(g, f, A)
           Rest(A) == A \ {Pick(A)}
<1>0. ASSUME NEW r, NEW q, NEW u, NEW v, IsFiniteSet(r), q \in SUBSET r,
             Summing(u, f, r), Summing(v, f, q)
      PROVE  u[q] = v[q]
  <2>1. q \subseteq r /\ q \in SUBSET q
    BY <1>0
  <2> QED BY ONLY <1>0, <2>1, SummingAgrees
<1>1. ASSUME NEW A \in SUBSET S, \A B \in SUBSET S : Cardinality(B) < Cardinality(A) => B \in T
      PROVE  A \in T
  <2> DEFINE Value(s) == IF s = {} THEN 0 ELSE f[Pick(s)] + Fun(Rest(s))[Rest(s)]
             g == [s \in SUBSET A |-> Value(s)]
  <2>1. IsFiniteSet(A) /\ \A s \in SUBSET A : IsFiniteSet(s) /\ Cardinality(s) <= Cardinality(A)
    BY FS_Subset
  <2>2. ASSUME NEW s \in SUBSET A, s # {} PROVE g[Rest(s)] = Fun(Rest(s))[Rest(s)]
    <3> DEFINE r == Rest(s)
               h == Fun(r)
    <3>1. /\ r \in SUBSET s /\ r \in SUBSET A /\ r \in SUBSET S
          /\ Cardinality(r) < Cardinality(s) /\ IsFiniteSet(r)
      BY <2>1, <2>2, PickSmaller
    <3>2. /\ Cardinality(r) \in Nat /\ Cardinality(s) \in Nat /\ Cardinality(A) \in Nat
      BY <2>1, <3>1, FS_CardinalityType
    <3>3. r \in T
      BY <1>1, <2>1, <3>1, <3>2
    <3>4. Summing(h, f, r)
      BY <3>3
    <3>5. CASE r = {}
      BY <3>1, <3>4, <3>5 DEF Summing
    <3>6. CASE r # {}
      <4> DEFINE q == Rest(r)
      <4>1. q \in SUBSET r /\ q \in SUBSET S /\ IsFiniteSet(q) /\ Cardinality(q) < Cardinality(r)
        BY <3>1, <3>6, PickSmaller
      <4>2. Cardinality(q) \in Nat
        BY <4>1, FS_CardinalityType
      <4>3. q \in T
        BY <1>1, <2>1, <3>1, <3>2, <4>1, <4>2
      <4>4. Summing(Fun(q), f, q)
        BY <4>3
      <4>5. h[q] = Fun(q)[q]
        <5> HIDE DEF Fun, r, q
        <5> QED BY <1>0, <3>1, <3>4, <4>1, <4>4
      <4>6. h[r] = f[Pick(r)] + h[q]
        BY <3>4, <3>6 DEF Summing
      <4>7. g[r] = f[Pick(r)] + Fun(q)[q]
        BY <3>1, <3>6
      <4> QED BY <4>5, <4>6, <4>7
    <3> QED BY <3>5, <3>6
  <2>3. Summing(g, f, A)
    <3>1. ASSUME NEW s \in SUBSET A
          PROVE  Value(s) = IF s = {} THEN 0 ELSE f[Pick(s)] + g[s \ {Pick(s)}]
      <4>1. s # {} => g[s \ {Pick(s)}] = Fun(Rest(s))[Rest(s)]
        BY <2>2
      <4> HIDE DEF g
      <4> QED BY <4>1
    <3> HIDE DEF Value
    <3>2. g = [s \in SUBSET A |-> IF s = {} THEN 0 ELSE f[Pick(s)] + g[s \ {Pick(s)}]]
      BY <3>1, Zenon
    <3> QED BY <3>2, Zenon DEF Summing
  <2> QED BY <2>3
<1> HIDE DEF T
<1>2. S \in T
  BY <1>1, SubsetInduction
<1> QED BY <1>2 DEF T

(* The sum over no element, and over some. *)
LEMMA SumEmpty ==
  ASSUME NEW f
  PROVE  SumFunctionOnSet(f, {}) = 0
<1> DEFINE g == CHOOSE h : Summing(h, f, {})
<1>1. \E h : Summing(h, f, {})
  BY FS_EmptySet, SummingExists
<1>2. Summing(g, f, {})
  BY <1>1
<1>3. SumFunctionOnSet(f, {}) = g[{}]
  BY SumIs
<1> HIDE DEF g
<1>4. g[{}] = 0
  BY <1>2 DEF Summing
<1> QED BY <1>3, <1>4

(* The element picked is added to the sum of the others. *)
LEMMA SumPick ==
  ASSUME NEW f, NEW S, IsFiniteSet(S), S # {}
  PROVE  SumFunctionOnSet(f, S) = f[Pick(S)] + SumFunctionOnSet(f, S \ {Pick(S)})
<1> DEFINE R == S \ {Pick(S)}
           g == CHOOSE h : Summing(h, f, S)
           k == CHOOSE h : Summing(h, f, R)
<1>1. R \subseteq S /\ IsFiniteSet(R)
  BY PickSmaller
<1>2. Summing(g, f, S)
  BY SummingExists
<1>3. Summing(k, f, R)
  <2>1. \E h : Summing(h, f, R)
    <3> HIDE DEF R
    <3> QED BY <1>1, SummingExists
  <2> QED BY <2>1
<1>4. SumFunctionOnSet(f, S) = g[S] /\ SumFunctionOnSet(f, R) = k[R]
  BY SumIs
<1>5. g[S] = f[Pick(S)] + g[R]
  <2> HIDE DEF g
  <2> QED BY <1>2 DEF Summing
<1>6. g[R] = k[R]
  <2> HIDE DEF g, k, R
  <2> QED BY ONLY <1>1, <1>2, <1>3, IsFiniteSet(S), SummingAgrees
<1> QED BY <1>4, <1>5, <1>6

(* Sums of integers, and of natural numbers. *)
LEMMA SumInt ==
  ASSUME NEW S, IsFiniteSet(S), NEW f, \A x \in S : f[x] \in Int
  PROVE  SumFunctionOnSet(f, S) \in Int
<1> DEFINE T == {A \in SUBSET S : SumFunctionOnSet(f, A) \in Int}
<1>1. ASSUME NEW A \in SUBSET S, \A B \in SUBSET S : Cardinality(B) < Cardinality(A) => B \in T
      PROVE  A \in T
  <2>1. CASE A = {}
    BY <2>1, SumEmpty
  <2>2. CASE A # {}
    <3>1. IsFiniteSet(A)
      BY FS_Subset
    <3>2. /\ Pick(A) \in S /\ A \ {Pick(A)} \in SUBSET S
          /\ Cardinality(A \ {Pick(A)}) < Cardinality(A)
      BY <2>2, <3>1, PickSmaller
    <3>3. SumFunctionOnSet(f, A \ {Pick(A)}) \in Int
      BY <1>1, <3>2
    <3> QED BY <2>2, <3>1, <3>2, <3>3, SumPick
  <2> QED BY <2>1, <2>2
<1> HIDE DEF T
<1>2. S \in T
  BY <1>1, SubsetInduction
<1> QED BY <1>2 DEF T

(* A sum of natural numbers is one. *)
LEMMA SumNat ==
  ASSUME NEW S, IsFiniteSet(S), NEW f, \A x \in S : f[x] \in Nat
  PROVE  SumFunctionOnSet(f, S) \in Nat
<1> DEFINE T == {A \in SUBSET S : SumFunctionOnSet(f, A) \in Nat}
<1>1. ASSUME NEW A \in SUBSET S, \A B \in SUBSET S : Cardinality(B) < Cardinality(A) => B \in T
      PROVE  A \in T
  <2>1. CASE A = {}
    BY <2>1, SumEmpty
  <2>2. CASE A # {}
    <3>1. IsFiniteSet(A)
      BY FS_Subset
    <3>2. /\ Pick(A) \in S /\ A \ {Pick(A)} \in SUBSET S
          /\ Cardinality(A \ {Pick(A)}) < Cardinality(A)
      BY <2>2, <3>1, PickSmaller
    <3>3. SumFunctionOnSet(f, A \ {Pick(A)}) \in Nat
      BY <1>1, <3>2
    <3> QED BY <2>2, <3>1, <3>2, <3>3, SumPick
  <2> QED BY <2>1, <2>2
<1> HIDE DEF T
<1>2. S \in T
  BY <1>1, SubsetInduction
<1> QED BY <1>2 DEF T

(* Any element can be taken out first: the order does not matter. *)
LEMMA SumRemove ==
  ASSUME NEW S, IsFiniteSet(S), NEW f, \A x \in S : f[x] \in Int, NEW e \in S
  PROVE  SumFunctionOnSet(f, S) = f[e] + SumFunctionOnSet(f, S \ {e})
<1> DEFINE Sum(A) == SumFunctionOnSet(f, A)
           T == {A \in SUBSET S : \A x \in A : Sum(A) = f[x] + Sum(A \ {x})}
<1>1. ASSUME NEW A \in SUBSET S
      PROVE  IsFiniteSet(A) /\ Sum(A) \in Int
  <2>1. IsFiniteSet(A)
    BY FS_Subset
  <2> QED BY <2>1, SumInt
<1>2. ASSUME NEW A \in SUBSET S, \A B \in SUBSET S : Cardinality(B) < Cardinality(A) => B \in T,
             NEW x \in A
      PROVE  Sum(A) = f[x] + Sum(A \ {x})
  <2> DEFINE p == Pick(A)
  <2>1. IsFiniteSet(A) /\ A # {}
    BY <1>1
  <2>2. p \in A /\ Sum(A) = f[p] + Sum(A \ {p})
    BY <2>1, PickSmaller, SumPick
  <2>3. CASE x # p
    <3> HIDE DEF p
    <3>1. \A y \in A : Cardinality(A \ {y}) < Cardinality(A) /\ A \ {y} \in SUBSET S
      <4>1. Cardinality(A) \in Nat
        BY <2>1, FS_CardinalityType
      <4>2. \A y \in A : Cardinality(A \ {y}) = Cardinality(A) - 1
        BY <2>1, FS_RemoveElement
      <4> QED BY <4>1, <4>2
    <3>2. A \ {p} \in T /\ A \ {x} \in T
      BY <1>2, <2>2, <3>1
    <3>3. x \in A \ {p} /\ p \in A \ {x}
      BY <2>2, <2>3
    <3> DEFINE r == A \ {p, x}
    <3>4. (A \ {p}) \ {x} = r /\ (A \ {x}) \ {p} = r
      OBVIOUS
    <3>5. Sum(A \ {p}) = f[x] + Sum(r) /\ Sum(A \ {x}) = f[p] + Sum(r)
      BY <3>2, <3>3, <3>4
    <3>6. f[x] \in Int /\ f[p] \in Int /\ Sum(r) \in Int
      BY <1>1, <2>2
    <3> HIDE DEF Sum, r
    <3> QED BY <2>2, <3>5, <3>6
  <2> QED BY <2>2, <2>3
<1> HIDE DEF Sum
<1>3. ASSUME NEW A \in SUBSET S, \A B \in SUBSET S : Cardinality(B) < Cardinality(A) => B \in T
      PROVE  A \in T
  BY <1>2, <1>3
<1> HIDE DEF T
<1>4. S \in T
  BY <1>3, SubsetInduction
<1>5. Sum(S) = f[e] + Sum(S \ {e})
  BY <1>4 DEF T
<1> QED BY <1>5 DEF Sum

(* Sums of the same numbers, and of smaller ones. *)
LEMMA SumOrdered ==
  ASSUME NEW S, IsFiniteSet(S), NEW f, NEW g,
         \A x \in S : f[x] \in Int /\ g[x] \in Int /\ f[x] <= g[x]
  PROVE  SumFunctionOnSet(f, S) <= SumFunctionOnSet(g, S)
<1> DEFINE T == {A \in SUBSET S : SumFunctionOnSet(f, A) <= SumFunctionOnSet(g, A)}
<1>1. ASSUME NEW A \in SUBSET S, \A B \in SUBSET S : Cardinality(B) < Cardinality(A) => B \in T
      PROVE  A \in T
  <2>1. CASE A = {}
    BY <2>1, SumEmpty
  <2>2. CASE A # {}
    <3> DEFINE B == A \ {Pick(A)}
    <3>1. IsFiniteSet(A)
      BY FS_Subset
    <3>2. /\ Pick(A) \in S /\ B \in SUBSET S /\ IsFiniteSet(B)
          /\ Cardinality(B) < Cardinality(A)
      BY <2>2, <3>1, PickSmaller
    <3>3. SumFunctionOnSet(f, B) <= SumFunctionOnSet(g, B)
      BY <1>1, <3>2
    <3>4. /\ SumFunctionOnSet(f, A) = f[Pick(A)] + SumFunctionOnSet(f, B)
          /\ SumFunctionOnSet(g, A) = g[Pick(A)] + SumFunctionOnSet(g, B)
      BY <2>2, <3>1, SumPick
    <3>5. SumFunctionOnSet(f, B) \in Int /\ SumFunctionOnSet(g, B) \in Int
      BY <3>2, SumInt
    <3> HIDE DEF B
    <3>6. SumFunctionOnSet(f, A) <= SumFunctionOnSet(g, A)
      BY <3>2, <3>3, <3>4, <3>5
    <3> QED BY <3>6
  <2> QED BY <2>1, <2>2
<1> HIDE DEF T
<1>2. S \in T
  BY <1>1, SubsetInduction
<1> QED BY <1>2 DEF T

(* Equal numbers have equal sums. *)
LEMMA SumSame ==
  ASSUME NEW S, IsFiniteSet(S), NEW f, NEW g, \A x \in S : f[x] = g[x]
  PROVE  SumFunctionOnSet(f, S) = SumFunctionOnSet(g, S)
<1> DEFINE T == {A \in SUBSET S : SumFunctionOnSet(f, A) = SumFunctionOnSet(g, A)}
<1>1. ASSUME NEW A \in SUBSET S, \A B \in SUBSET S : Cardinality(B) < Cardinality(A) => B \in T
      PROVE  A \in T
  <2>1. CASE A = {}
    BY <2>1, SumEmpty
  <2>2. CASE A # {}
    <3> DEFINE B == A \ {Pick(A)}
    <3>1. IsFiniteSet(A)
      BY FS_Subset
    <3>2. Pick(A) \in S /\ B \in SUBSET S /\ Cardinality(B) < Cardinality(A)
      BY <2>2, <3>1, PickSmaller
    <3>3. SumFunctionOnSet(f, B) = SumFunctionOnSet(g, B) /\ f[Pick(A)] = g[Pick(A)]
      BY <1>1, <3>2
    <3>4. /\ SumFunctionOnSet(f, A) = f[Pick(A)] + SumFunctionOnSet(f, B)
          /\ SumFunctionOnSet(g, A) = g[Pick(A)] + SumFunctionOnSet(g, B)
      BY <2>2, <3>1, SumPick
    <3> HIDE DEF B
    <3> QED BY <3>3, <3>4
  <2> QED BY <2>1, <2>2
<1> HIDE DEF T
<1>2. S \in T
  BY <1>1, SubsetInduction
<1> QED BY <1>2 DEF T

(* A sum of zeros is zero. *)
LEMMA SumZero ==
  ASSUME NEW S, IsFiniteSet(S), NEW f, \A x \in S : f[x] = 0
  PROVE  SumFunctionOnSet(f, S) = 0
<1> DEFINE T == {A \in SUBSET S : SumFunctionOnSet(f, A) = 0}
<1>1. ASSUME NEW A \in SUBSET S, \A B \in SUBSET S : Cardinality(B) < Cardinality(A) => B \in T
      PROVE  A \in T
  <2>1. CASE A = {}
    BY <2>1, SumEmpty
  <2>2. CASE A # {}
    <3>1. IsFiniteSet(A)
      BY FS_Subset
    <3>2. /\ Pick(A) \in S /\ A \ {Pick(A)} \in SUBSET S
          /\ Cardinality(A \ {Pick(A)}) < Cardinality(A)
      BY <2>2, <3>1, PickSmaller
    <3>3. SumFunctionOnSet(f, A \ {Pick(A)}) = 0
      BY <1>1, <3>2
    <3> QED BY <2>2, <3>1, <3>2, <3>3, SumPick
  <2> QED BY <2>1, <2>2
<1> HIDE DEF T
<1>2. S \in T
  BY <1>1, SubsetInduction
<1> QED BY <1>2 DEF T

(* Numbers that differ in one place only. *)
Changed(f, g, S, e) ==
  \A x \in S : f[x] \in Int /\ g[x] \in Int /\ (x # e => g[x] = f[x])

(* A change of one value changes the sum by as much. *)
LEMMA SumChange ==
  ASSUME NEW S, IsFiniteSet(S), NEW f, NEW g, NEW e \in S, Changed(f, g, S, e)
  PROVE  SumFunctionOnSet(g, S) = SumFunctionOnSet(f, S) + (g[e] - f[e])
<1> USE DEF Changed
<1> DEFINE R == S \ {e}
<1>1. /\ SumFunctionOnSet(f, S) = f[e] + SumFunctionOnSet(f, R)
      /\ SumFunctionOnSet(g, S) = g[e] + SumFunctionOnSet(g, R)
  BY SumRemove
<1>2. IsFiniteSet(R) /\ \A x \in R : g[x] = f[x] /\ f[x] \in Int
  BY FS_Subset
<1>3. f[e] \in Int /\ g[e] \in Int
  OBVIOUS
<1> HIDE DEF R
<1>4. SumFunctionOnSet(f, R) = SumFunctionOnSet(g, R) /\ SumFunctionOnSet(f, R) \in Int
  BY <1>2, SumSame, SumInt
<1> QED BY <1>1, <1>3, <1>4

(* A part of a sum of natural numbers is no more than all, and no less     *)
(* than any of them.                                                       *)
LEMMA SumPart ==
  ASSUME NEW S, IsFiniteSet(S), NEW f, \A x \in S : f[x] \in Nat
  PROVE  \A R \in SUBSET S : SumFunctionOnSet(f, R) <= SumFunctionOnSet(f, S)
<1> DEFINE Sum(A) == SumFunctionOnSet(f, A)
           T == {A \in SUBSET S : \A R \in SUBSET A : Sum(R) <= Sum(A)}
<1>1. ASSUME NEW A \in SUBSET S
      PROVE  IsFiniteSet(A) /\ Sum(A) \in Nat
  <2>1. IsFiniteSet(A)
    BY FS_Subset
  <2> QED BY <2>1, SumNat
<1>2. ASSUME NEW A \in SUBSET S, \A B \in SUBSET S : Cardinality(B) < Cardinality(A) => B \in T,
             NEW R \in SUBSET A
      PROVE  Sum(R) <= Sum(A)
  <2>1. CASE R = A
    BY <1>1, <2>1
  <2>2. CASE R # A
    <3>1. PICK x \in A : x \notin R
      BY <2>2
    <3> DEFINE B == A \ {x}
    <3>2. R \in SUBSET B /\ B \in SUBSET S /\ Cardinality(B) < Cardinality(A)
      <4>1. IsFiniteSet(A) /\ Cardinality(A) \in Nat
        BY <1>1, FS_CardinalityType
      <4>2. Cardinality(B) = Cardinality(A) - 1
        BY <4>1, FS_RemoveElement
      <4> QED BY <3>1, <4>1, <4>2
    <3>3. Sum(R) <= Sum(B)
      BY <1>2, <3>2
    <3>4. Sum(A) = f[x] + Sum(B)
      <4>1. IsFiniteSet(A) /\ \A y \in A : f[y] \in Int
        BY <1>1
      <4> QED BY <4>1, SumRemove
    <3>5. f[x] \in Nat /\ Sum(R) \in Nat /\ Sum(B) \in Nat
      BY <1>1, <3>2
    <3> HIDE DEF Sum, B
    <3> QED BY <3>3, <3>4, <3>5
  <2> QED BY <2>1, <2>2
<1> HIDE DEF Sum
<1>3. ASSUME NEW A \in SUBSET S, \A B \in SUBSET S : Cardinality(B) < Cardinality(A) => B \in T
      PROVE  A \in T
  BY <1>2, <1>3
<1> HIDE DEF T
<1>4. S \in T
  BY <1>3, SubsetInduction
<1>5. \A R \in SUBSET S : Sum(R) <= Sum(S)
  BY <1>4 DEF T
<1> QED BY <1>5 DEF Sum

(* No natural number is more than the sum it is part of. *)
LEMMA SumMember ==
  ASSUME NEW S, IsFiniteSet(S), NEW f, \A x \in S : f[x] \in Nat, NEW e \in S
  PROVE  f[e] <= SumFunctionOnSet(f, S)
<1> DEFINE R == S \ {e}
<1>1. SumFunctionOnSet(f, S) = f[e] + SumFunctionOnSet(f, R)
  BY SumRemove
<1>2. IsFiniteSet(R) /\ \A x \in R : f[x] \in Nat
  BY FS_Subset
<1>3. f[e] \in Nat
  OBVIOUS
<1> HIDE DEF R
<1>4. SumFunctionOnSet(f, R) \in Nat
  BY <1>2, SumNat
<1> QED BY <1>1, <1>3, <1>4

(* The elements of S under the names b, those of R; and the numbers g of   *)
(* the ones are the numbers f of the others.                               *)
Renamed(b, S, R) == (\A x, y \in S : b[x] = b[y] => x = y) /\ R = {b[x] : x \in S}
SameNumbers(b, S, f, g) == \A x \in S : g[x] = f[b[x]] /\ g[x] \in Int

(* Other names for the elements do not change the sum. *)
LEMMA SumReindex ==
  ASSUME NEW S, IsFiniteSet(S), NEW R, IsFiniteSet(R), NEW b, Renamed(b, S, R),
         NEW f, NEW g, SameNumbers(b, S, f, g)
  PROVE  SumFunctionOnSet(f, R) = SumFunctionOnSet(g, S)
<1> USE DEF Renamed, SameNumbers
<1> DEFINE Image(A) == {b[x] : x \in A}
           T == {A \in SUBSET S : SumFunctionOnSet(f, Image(A)) = SumFunctionOnSet(g, A)}
<1>1. ASSUME NEW A \in SUBSET S, \A B \in SUBSET S : Cardinality(B) < Cardinality(A) => B \in T
      PROVE  A \in T
  <2>1. CASE A = {}
    BY <2>1, SumEmpty
  <2>2. CASE A # {}
    <3> DEFINE e == Pick(A)
               B == A \ {e}
    <3>1. IsFiniteSet(A)
      BY FS_Subset
    <3>2. e \in A /\ B \in SUBSET S /\ Cardinality(B) < Cardinality(A)
      BY <2>2, <3>1, PickSmaller
    <3>3. SumFunctionOnSet(g, A) = g[e] + SumFunctionOnSet(g, B)
      BY <2>2, <3>1, SumPick
    <3> HIDE DEF e
    <3>4. SumFunctionOnSet(f, Image(B)) = SumFunctionOnSet(g, B)
      BY <1>1, <3>2
    <3>5. IsFiniteSet(Image(A))
      <4>1. Image(A) \subseteq Image(S)
        OBVIOUS
      <4> QED BY <4>1, FS_Subset
    <3>6. Image(A) \ {b[e]} = Image(B) /\ b[e] \in Image(A)
      BY <3>2
    <3>7. \A y \in Image(A) : f[y] \in Int
      OBVIOUS
    <3>8. SumFunctionOnSet(f, Image(A)) = f[b[e]] + SumFunctionOnSet(f, Image(B))
      <4> HIDE DEF Image
      <4>1. SumFunctionOnSet(f, Image(A)) = f[b[e]] + SumFunctionOnSet(f, Image(A) \ {b[e]})
        BY <3>5, <3>6, <3>7, SumRemove
      <4> QED BY <3>6, <4>1
    <3>9. g[e] = f[b[e]]
      BY <3>2
    <3> QED BY <3>3, <3>4, <3>8, <3>9
  <2> QED BY <2>1, <2>2
<1> HIDE DEF T
<1>2. S \in T
  BY <1>1, SubsetInduction
<1>3. SumFunctionOnSet(f, Image(S)) = SumFunctionOnSet(g, S) /\ R = Image(S)
  BY <1>2 DEF T
<1> QED BY <1>3

-----------------------------------------------------------------------------
(* The goods on the shelves of a list.                                     *)
Goods == [shelf_name : Shelves, num_of_merch : Nat]

Nums(links) == [i \in DOMAIN links |-> links[i].num_of_merch]

(* A shelf of a list. *)
LEMMA GoodsAt ==
  ASSUME NEW links \in Seq(Goods), NEW i \in 1 .. Len(links)
  PROVE  links[i] \in Goods /\ links[i].num_of_merch \in Nat
<1>1. links[i] \in Goods
  BY ElementOfSeq
<1> QED BY <1>1 DEF Goods

(* What a list of shelves holds. *)
LEMMA StockIs ==
  ASSUME NEW links \in Seq(Goods)
  PROVE  /\ IsFiniteSet(1 .. Len(links)) /\ Nums(links) \in [1 .. Len(links) -> Nat]
         /\ SumOfShelves(links) = SumFunctionOnSet(Nums(links), 1 .. Len(links))
         /\ SumOfShelves(links) \in Nat
<1>1. DOMAIN links = 1 .. Len(links) /\ Len(links) \in Nat
  BY LenProperties
<1>2. IsFiniteSet(1 .. Len(links))
  BY <1>1, FS_Interval
<1>3. Nums(links) \in [1 .. Len(links) -> Nat]
  <2>1. \A i \in 1 .. Len(links) : links[i].num_of_merch \in Nat
    BY GoodsAt
  <2> QED BY <1>1, <2>1 DEF Nums
<1>4. SumOfShelves(links) = SumFunctionOnSet(Nums(links), 1 .. Len(links))
  BY <1>1, Zenon DEF SumOfShelves, SumFunction, Nums
<1>5. \A i \in 1 .. Len(links) : Nums(links)[i] \in Nat
  BY <1>3
<1>6. SumFunctionOnSet(Nums(links), 1 .. Len(links)) \in Nat
  BY <1>2, <1>5, SumNat
<1> QED BY <1>2, <1>3, <1>4, <1>6

(* A part of the shelves. *)
LEMMA StockPart ==
  ASSUME NEW links \in Seq(Goods), NEW R \in SUBSET (1 .. Len(links))
  PROVE  /\ SumFunctionOnSet(Nums(links), R) \in Nat
         /\ SumFunctionOnSet(Nums(links), R) <= SumOfShelves(links)
<1>1. IsFiniteSet(1 .. Len(links)) /\ \A i \in 1 .. Len(links) : Nums(links)[i] \in Nat
  BY StockIs
<1>2. IsFiniteSet(R) /\ \A i \in R : Nums(links)[i] \in Nat
  BY <1>1, FS_Subset
<1>3. SumFunctionOnSet(Nums(links), R) \in Nat
  BY <1>2, SumNat
<1>4. SumFunctionOnSet(Nums(links), R) <= SumFunctionOnSet(Nums(links), 1 .. Len(links))
  BY <1>1, SumPart
<1> QED BY <1>3, <1>4, StockIs

(* The others are what links has at the places R, in the order b. *)
Moved(b, others, links, R) ==
  /\ \A i \in 1 .. Len(others) : others[i].num_of_merch = links[b[i]].num_of_merch
  /\ Renamed(b, 1 .. Len(others), R) /\ R \subseteq 1 .. Len(links)

(* They hold the same. *)
LEMMA StockMoved ==
  ASSUME NEW links \in Seq(Goods), NEW others \in Seq(Goods), NEW b, NEW R,
         Moved(b, others, links, R)
  PROVE  SumOfShelves(others) = SumFunctionOnSet(Nums(links), R)
<1> DEFINE S == 1 .. Len(others)
           f == Nums(links)
           g == Nums(others)
<1>1. IsFiniteSet(S) /\ IsFiniteSet(R) /\ Renamed(b, S, R)
  BY StockIs, FS_Subset DEF Moved
<1>2. ASSUME NEW i \in S
      PROVE  g[i] = f[b[i]] /\ g[i] \in Int
  <2>1. b[i] \in DOMAIN links /\ i \in DOMAIN others
    BY LenProperties DEF Moved, Renamed
  <2>2. g[i] \in Nat
    BY StockIs
  <2> QED BY <2>1, <2>2 DEF Nums, Moved
<1>3. SumFunctionOnSet(f, R) = SumFunctionOnSet(g, S)
  <2> HIDE DEF S, f, g
  <2>1. SameNumbers(b, S, f, g)
    BY <1>2 DEF SameNumbers
  <2> QED BY <1>1, <2>1, SumReindex
<1> QED BY <1>3, StockIs

(* A shelf less. *)
LEMMA StockDropped ==
  ASSUME NEW links \in Seq(Goods), NEW q \in 1 .. Len(links)
  PROVE  /\ Dropped(links, q) \in Seq(Goods) /\ Len(Dropped(links, q)) = Len(links) - 1
         /\ SumOfShelves(links) = SumOfShelves(Dropped(links, q)) + links[q].num_of_merch
<1> DEFINE others == Dropped(links, q)
           n == Len(links)
           b == [i \in 1 .. n - 1 |-> IF i < q THEN i ELSE i + 1]
<1>1. n \in Nat /\ q \in 1 .. n /\ DOMAIN links = 1 .. n
  BY LenProperties
<1>2. others \in Seq(Goods) /\ Len(others) = n - 1
  BY DroppedFacts
<1>3. \A i \in 1 .. n - 1 : others[i].num_of_merch = links[b[i]].num_of_merch
  BY DEF Dropped
<1>4. \A i, j \in 1 .. n - 1 : b[i] = b[j] => i = j
  BY <1>1
<1>5. {b[i] : i \in 1 .. n - 1} = (1 .. n) \ {q}
  <2>1. ASSUME NEW j \in (1 .. n) \ {q} PROVE \E i \in 1 .. n - 1 : j = b[i]
    <3>1. CASE j < q
      <4>1. j \in 1 .. n - 1 /\ b[j] = j
        BY <1>1, <3>1
      <4> QED BY <4>1
    <3>2. CASE j > q
      <4>1. j - 1 \in 1 .. n - 1 /\ b[j - 1] = j
        BY <1>1, <3>2
      <4> QED BY <4>1
    <3> QED BY <1>1, <3>1, <3>2
  <2>2. \A i \in 1 .. n - 1 : b[i] \in (1 .. n) \ {q}
    BY <1>1
  <2> HIDE DEF b
  <2> QED BY <2>1, <2>2
<1>6. SumOfShelves(others) = SumFunctionOnSet(Nums(links), (1 .. n) \ {q})
  <2> DEFINE R == (1 .. n) \ {q}
  <2>1. Moved(b, others, links, R)
    <3>1. R \subseteq 1 .. Len(links)
      BY <1>1
    <3> HIDE DEF b, others
    <3> QED BY <1>2, <1>3, <1>4, <1>5, <3>1 DEF Moved, Renamed
  <2> HIDE DEF b, others, R
  <2>2. SumOfShelves(others) = SumFunctionOnSet(Nums(links), R)
    BY <1>2, <2>1, StockMoved
  <2> QED BY <2>2 DEF R
<1>7. /\ IsFiniteSet(1 .. n) /\ \A i \in 1 .. n : Nums(links)[i] \in Int
      /\ SumOfShelves(links) = SumFunctionOnSet(Nums(links), 1 .. n)
  BY StockIs
<1>8. SumFunctionOnSet(Nums(links), 1 .. n)
        = Nums(links)[q] + SumFunctionOnSet(Nums(links), (1 .. n) \ {q})
  <2> DEFINE S == 1 .. n
  <2>1. IsFiniteSet(S) /\ q \in S /\ \A i \in S : Nums(links)[i] \in Int
    BY <1>7
  <2> HIDE DEF S
  <2>2. SumFunctionOnSet(Nums(links), S) = Nums(links)[q] + SumFunctionOnSet(Nums(links), S \ {q})
    BY <2>1, SumRemove
  <2> QED BY <2>2 DEF S
<1>9. Nums(links)[q] = links[q].num_of_merch /\ Nums(links)[q] \in Nat
  BY <1>1, StockIs DEF Nums
<1>10. SumOfShelves(others) \in Nat
  BY <1>2, StockIs
<1> HIDE DEF others
<1>11. SumOfShelves(links) = SumOfShelves(others) + links[q].num_of_merch
  BY <1>6, <1>7, <1>8, <1>9, <1>10
<1> QED BY <1>2, <1>11 DEF others

(* A shelf more. *)
LEMMA StockInserted ==
  ASSUME NEW links \in Seq(Goods), NEW p \in 0 .. Len(links), NEW v \in Goods
  PROVE  /\ Inserted(links, p, v) \in Seq(Goods)
         /\ Len(Inserted(links, p, v)) = Len(links) + 1
         /\ SumOfShelves(Inserted(links, p, v)) = SumOfShelves(links) + v.num_of_merch
<1> DEFINE others == Inserted(links, p, v)
<1>1. others \in Seq(Goods) /\ Len(others) = Len(links) + 1
  BY InsertedFacts
<1>2. p + 1 \in 1 .. Len(others) /\ others[p + 1] = v
  BY <1>1 DEF Inserted
<1>3. Dropped(others, p + 1) = links
  <2>1. Dropped(others, p + 1) \in Seq(Goods) /\ Len(Dropped(others, p + 1)) = Len(links)
    <3> HIDE DEF others
    <3> QED BY <1>1, <1>2, DroppedFacts
  <2>2. ASSUME NEW i \in 1 .. Len(links) PROVE Dropped(others, p + 1)[i] = links[i]
    BY <1>1 DEF Dropped, Inserted
  <2> HIDE DEF others
  <2> QED BY <2>1, <2>2, SeqEqual
<1> HIDE DEF others
<1>4. SumOfShelves(others) = SumOfShelves(Dropped(others, p + 1)) + others[p + 1].num_of_merch
  BY <1>1, <1>2, StockDropped
<1>5. SumOfShelves(others) = SumOfShelves(links) + v.num_of_merch
  BY <1>2, <1>3, <1>4
<1> QED BY <1>1, <1>5 DEF others

(* The other way round. *)
LEMMA StockReversed ==
  ASSUME NEW links \in Seq(Goods)
  PROVE  /\ Reverse(links) \in Seq(Goods) /\ Len(Reverse(links)) = Len(links)
         /\ SumOfShelves(Reverse(links)) = SumOfShelves(links)
<1> DEFINE n == Len(links)
           others == Reverse(links)
           b == [i \in 1 .. n |-> n - i + 1]
<1>1. n \in Nat
  OBVIOUS
<1>2. others \in Seq(Goods) /\ Len(others) = n
  <2>1. \A i \in 1 .. n : n - i + 1 \in 1 .. n
    BY <1>1
  <2>2. others \in [1 .. n -> Goods]
    BY <2>1, ElementOfSeq DEF Reverse
  <2> HIDE DEF others
  <2> QED BY <1>1, <2>2, FunctionIsSeq
<1>3. \A i \in 1 .. n : others[i].num_of_merch = links[b[i]].num_of_merch
  BY DEF Reverse
<1>4. \A i, j \in 1 .. n : b[i] = b[j] => i = j
  BY <1>1
<1>5. {b[i] : i \in 1 .. n} = 1 .. n
  <2>1. ASSUME NEW j \in 1 .. n PROVE \E i \in 1 .. n : j = b[i]
    <3>1. n - j + 1 \in 1 .. n /\ b[n - j + 1] = j
      BY <1>1
    <3> QED BY <3>1
  <2>2. \A i \in 1 .. n : b[i] \in 1 .. n
    BY <1>1
  <2> HIDE DEF b
  <2> QED BY <2>1, <2>2
<1>6. SumOfShelves(others) = SumFunctionOnSet(Nums(links), 1 .. n)
  <2> DEFINE R == 1 .. n
  <2>1. Moved(b, others, links, R)
    <3>1. R \subseteq 1 .. Len(links)
      BY <1>1
    <3> HIDE DEF b, others
    <3> QED BY <1>2, <1>3, <1>4, <1>5, <3>1 DEF Moved, Renamed
  <2> HIDE DEF b, others, R
  <2>2. SumOfShelves(others) = SumFunctionOnSet(Nums(links), R)
    BY <1>2, <2>1, StockMoved
  <2> QED BY <2>2 DEF R
<1> HIDE DEF others
<1>7. SumOfShelves(others) = SumOfShelves(links)
  BY <1>6, StockIs
<1> QED BY <1>2, <1>7 DEF others

(* The first shelves. *)
LEMMA StockPrefix ==
  ASSUME NEW links \in Seq(Goods), NEW size \in 0 .. Len(links)
  PROVE  /\ SubSeq(links, 1, size) \in Seq(Goods) /\ Len(SubSeq(links, 1, size)) = size
         /\ SumOfShelves(SubSeq(links, 1, size)) <= SumOfShelves(links)
<1> DEFINE others == SubSeq(links, 1, size)
           b == [i \in 1 .. size |-> i]
<1>1. size \in Nat /\ Len(links) \in Nat /\ size <= Len(links)
  OBVIOUS
<1>2. others \in Seq(Goods) /\ Len(others) = size /\ \A i \in 1 .. size : others[i] = links[i]
  BY <1>1, SubSeqProperties
<1> HIDE DEF others
<1>3. SumOfShelves(others) = SumFunctionOnSet(Nums(links), 1 .. size)
  <2> DEFINE R == 1 .. size
  <2>1. Moved(b, others, links, R)
    <3>1. R \subseteq 1 .. Len(links)
      BY <1>1
    <3> QED BY <1>1, <1>2, <3>1 DEF Moved, Renamed
  <2> HIDE DEF b, R
  <2>2. SumOfShelves(others) = SumFunctionOnSet(Nums(links), R)
    BY <1>2, <2>1, StockMoved
  <2> QED BY <2>2 DEF R
<1>4. 1 .. size \in SUBSET (1 .. Len(links))
  BY <1>1
<1>5. SumFunctionOnSet(Nums(links), 1 .. size) <= SumOfShelves(links)
  BY <1>4, StockPart
<1> QED BY <1>2, <1>3, <1>5 DEF others

(* Goods taken from one shelf. *)
LEMMA StockTaken ==
  ASSUME NEW links \in Seq(Goods), NEW others \in Seq(Goods), Len(others) = Len(links),
         NEW k \in 1 .. Len(links), \A i \in 1 .. Len(links) : i # k => others[i] = links[i]
  PROVE  SumOfShelves(others)
           = SumOfShelves(links) + (others[k].num_of_merch - links[k].num_of_merch)
<1> DEFINE S == 1 .. Len(links)
<1>1. DOMAIN links = S /\ DOMAIN others = S
  BY LenProperties
<1>2. /\ IsFiniteSet(S)
      /\ Nums(links) \in [S -> Nat] /\ Nums(others) \in [S -> Nat]
      /\ SumOfShelves(links) = SumFunctionOnSet(Nums(links), S)
      /\ SumOfShelves(others) = SumFunctionOnSet(Nums(others), S)
  BY StockIs
<1> DEFINE f == Nums(links)
           g == Nums(others)
<1>3. /\ \A i \in S : f[i] \in Int /\ g[i] \in Int
      /\ \A i \in S : i # k => g[i] = f[i]
  <2>1. \A i \in S : i # k => g[i] = f[i]
    BY <1>1 DEF Nums
  <2> HIDE DEF S
  <2> QED BY <1>2, <2>1
<1>4. Nums(links)[k] = links[k].num_of_merch /\ Nums(others)[k] = others[k].num_of_merch
  BY <1>1 DEF Nums
<1>5. k \in S
  OBVIOUS
<1>6. SumFunctionOnSet(g, S) = SumFunctionOnSet(f, S) + (g[k] - f[k])
  <2>1. IsFiniteSet(S)
    BY <1>2
  <2> HIDE DEF S, f, g
  <2>2. Changed(f, g, S, k)
    BY <1>3 DEF Changed
  <2> QED BY <1>5, <2>1, <2>2, SumChange
<1> QED BY <1>2, <1>4, <1>6

(* No shelf holds more than all of them. *)
LEMMA ShelvesBounded ==
  ASSUME NEW l \in Seq(Goods), SumOfShelves(l) <= MaxStock
  PROVE  l \in Seq([shelf_name : Shelves, num_of_merch : 0 .. MaxStock])
<1>1. Len(l) \in Nat /\ DOMAIN l = 1 .. Len(l) /\ MaxStock \in Nat /\ SumOfShelves(l) \in Nat
  BY StockIs, StoreAssumption, LenProperties
<1>2. ASSUME NEW i \in 1 .. Len(l)
      PROVE  l[i] \in [shelf_name : Shelves, num_of_merch : 0 .. MaxStock]
  <2>1. l[i] \in Goods /\ l[i].num_of_merch \in Nat /\ Nums(l)[i] = l[i].num_of_merch
    BY <1>1, GoodsAt, ElementOfSeq DEF Nums
  <2>2. SumFunctionOnSet(Nums(l), {i}) <= SumOfShelves(l)
    BY StockPart
  <2>3. SumFunctionOnSet(Nums(l), {i}) = Nums(l)[i]
    <3>1. IsFiniteSet({i}) /\ {i} \ {i} = {} /\ \A x \in {i} : Nums(l)[x] \in Int
      <4>1. IsFiniteSet({i})
        BY FS_Singleton
      <4>2. \A x \in {i} : x = i
        OBVIOUS
      <4>3. Nums(l)[i] \in Int
        BY <2>1
      <4> QED BY <4>1, <4>2, <4>3
    <3>2. SumFunctionOnSet(Nums(l), {i}) = Nums(l)[i] + SumFunctionOnSet(Nums(l), {i} \ {i})
      BY <3>1, SumRemove
    <3>3. SumFunctionOnSet(Nums(l), {i} \ {i}) = 0
      BY <3>1, SumEmpty
    <3> QED BY <2>1, <3>2, <3>3
  <2>4. l[i].num_of_merch \in 0 .. MaxStock
    BY <1>1, <2>1, <2>2, <2>3
  <2> QED BY <2>1, <2>4 DEF Goods
<1>3. l \in [1 .. Len(l) -> [shelf_name : Shelves, num_of_merch : 0 .. MaxStock]]
  BY <1>1, <1>2
<1> QED BY <1>1, <1>3, FunctionIsSeq

(* What is on the shelves from the i-th on: what is on it, and the rest.   *)
Rest(links, i) == SumFunctionOnSet(Nums(links), {j \in 1 .. Len(links) : j >= i})

(* From the first on it is all there is, and behind the last nothing. *)
LEMMA RestFacts ==
  ASSUME NEW l \in Seq(Goods)
  PROVE  /\ Rest(l, 1) = SumOfShelves(l)
         /\ l = << >> => \A i : Rest(l, i) = 0
         /\ \A i \in 1 .. Len(l) :
              /\ Rest(l, i) = l[i].num_of_merch + Rest(l, i + 1)
              /\ Rest(l, i + 1) \in Nat
              /\ i = Len(l) => Rest(l, i + 1) = 0
<1> DEFINE f == Nums(l)
           T(i) == {j \in 1 .. Len(l) : j >= i}
<1>1. /\ Len(l) \in Nat /\ SumOfShelves(l) = SumFunctionOnSet(f, 1 .. Len(l))
      /\ \A i \in 1 .. Len(l) : f[i] \in Nat /\ f[i] = l[i].num_of_merch
  BY StockIs, GoodsAt DEF Nums
<1>2. Rest(l, 1) = SumOfShelves(l)
  <2>1. T(1) = 1 .. Len(l)
    BY <1>1
  <2> QED BY <1>1, <2>1 DEF Rest
<1>3. l = << >> => \A i : Rest(l, i) = 0
  <2>1. ASSUME l = << >>, NEW i PROVE Rest(l, i) = 0
    <3>1. T(i) = {}
      BY <2>1
    <3>2. Rest(l, i) = SumFunctionOnSet(f, T(i))
      BY DEF Rest
    <3> HIDE DEF f, T
    <3> QED BY <3>1, <3>2, SumEmpty
  <2> QED BY <2>1
<1>4. ASSUME NEW i \in 1 .. Len(l)
      PROVE  /\ Rest(l, i) = l[i].num_of_merch + Rest(l, i + 1)
             /\ Rest(l, i + 1) \in Nat
             /\ i = Len(l) => Rest(l, i + 1) = 0
  <2> DEFINE A == T(i)
             B == T(i + 1)
  <2>1. /\ A \subseteq 1 .. Len(l) /\ B \subseteq 1 .. Len(l) /\ i \in A /\ B = A \ {i}
        /\ i = Len(l) => B = {}
    BY <1>1
  <2>2. Rest(l, i) = SumFunctionOnSet(f, A) /\ Rest(l, i + 1) = SumFunctionOnSet(f, B)
    BY DEF Rest
  <2> HIDE DEF A, B, T, f
  <2>3. IsFiniteSet(A) /\ IsFiniteSet(B)
    <3>1. IsFiniteSet(1 .. Len(l))
      BY <1>1, FS_Interval
    <3> QED BY <2>1, <3>1, FS_Subset
  <2>4. (\A x \in A : f[x] \in Int) /\ (\A x \in B : f[x] \in Nat)
    BY <1>1, <2>1
  <2>5. SumFunctionOnSet(f, A) = f[i] + SumFunctionOnSet(f, A \ {i})
    BY <2>1, <2>3, <2>4, SumRemove
  <2>6. SumFunctionOnSet(f, B) \in Nat
    BY <2>3, <2>4, SumNat
  <2>7. i = Len(l) => SumFunctionOnSet(f, B) = 0
    BY <2>1, SumEmpty
  <2> QED BY <1>1, <2>1, <2>2, <2>5, <2>6, <2>7
<1> QED BY <1>2, <1>3, <1>4

(* What is taken from a shelf is not missing on those behind it. *)
LEMMA RestSame ==
  ASSUME NEW l \in Seq(Goods), NEW new, Len(new) = Len(l), NEW i \in 1 .. Len(l),
         \A j \in 1 .. Len(l) : j # i => Nums(new)[j] = Nums(l)[j]
  PROVE  Rest(new, i + 1) = Rest(l, i + 1)
<1> DEFINE S == {j \in 1 .. Len(l) : j >= i + 1}
           f == Nums(l)
           g == Nums(new)
<1>1. Len(l) \in Nat /\ IsFiniteSet(1 .. Len(l)) /\ S \subseteq 1 .. Len(l) /\ i \notin S
  BY FS_Interval
<1>2. Rest(new, i + 1) = SumFunctionOnSet(g, S) /\ Rest(l, i + 1) = SumFunctionOnSet(f, S)
  BY DEF Rest
<1> HIDE DEF S, f, g
<1>3. IsFiniteSet(S)
  BY <1>1, FS_Subset
<1>4. \A j \in S : g[j] = f[j]
  BY <1>1 DEF f, g
<1>5. SumFunctionOnSet(g, S) = SumFunctionOnSet(f, S)
  BY <1>3, <1>4, SumSame
<1> QED BY <1>2, <1>5

-----------------------------------------------------------------------------
(* A list of shelves: only one that shows two or more hides some.          *)
IsList(c) ==
  /\ c \in [links : Seq(Goods), size : Nat]
  /\ c.size <= Len(c.links)
  /\ Hidden(c) => c.size >= 2

(* What it shows is no more than it has, and all of it if nothing is       *)
(* hidden.                                                                 *)
LEMMA ShownFacts ==
  ASSUME NEW c, IsList(c)
  PROVE  /\ Shown(c) \in Seq(Goods) /\ Len(Shown(c)) = c.size
         /\ SumOfShelves(Shown(c)) \in Nat
         /\ SumOfShelves(Shown(c)) <= SumOfShelves(c.links)
         /\ ~Hidden(c) => SumOfShelves(Shown(c)) = SumOfShelves(c.links)
<1>1. c.links \in Seq(Goods) /\ c.size \in 0 .. Len(c.links) /\ Len(c.links) \in Nat
  BY DEF IsList
<1>2. /\ Shown(c) \in Seq(Goods) /\ Len(Shown(c)) = c.size
      /\ SumOfShelves(Shown(c)) <= SumOfShelves(c.links)
  BY <1>1, StockPrefix DEF Shown
<1>3. ~Hidden(c) => Shown(c) = c.links
  <2>1. ~Hidden(c) => c.size = Len(c.links)
    BY <1>1 DEF Hidden
  <2>2. SubSeq(c.links, 1, Len(c.links)) = c.links
    <3>1. /\ SubSeq(c.links, 1, Len(c.links)) \in Seq(Goods)
          /\ Len(SubSeq(c.links, 1, Len(c.links))) = Len(c.links)
          /\ \A i \in 1 .. Len(c.links) : SubSeq(c.links, 1, Len(c.links))[i] = c.links[i]
      BY <1>1, SubSeqProperties
    <3> QED BY <1>1, <3>1, SeqEqual
  <2> QED BY <2>1, <2>2 DEF Shown
<1>4. SumOfShelves(Shown(c)) \in Nat
  BY <1>2, StockIs
<1> QED BY <1>2, <1>3, <1>4

(* A copy shows all it has: what the list shows. *)
LEMMA copy_shelfsFacts ==
  ASSUME NEW c, IsList(c)
  PROVE  /\ IsList(copy_shelfs(c)) /\ ~Hidden(copy_shelfs(c))
         /\ SumOfShelves(copy_shelfs(c).links) = SumOfShelves(Shown(c))
<1> DEFINE r == Reverse(Shown(c))
<1>1. Shown(c) \in Seq(Goods) /\ Len(Shown(c)) = c.size
  BY ShownFacts
<1>2. r \in Seq(Goods) /\ Len(r) = c.size /\ SumOfShelves(r) = SumOfShelves(Shown(c))
  BY <1>1, StockReversed
<1>3. copy_shelfs(c) = [links |-> r, size |-> c.size] /\ c.size \in Nat
  BY DEF copy_shelfs, Chained, IsList
<1> HIDE DEF r
<1> QED BY <1>2, <1>3 DEF IsList, Hidden

(* The list without any shelf. *)
LEMMA EmptyFacts == IsList(Empty) /\ ~Hidden(Empty) /\ SumOfShelves(Empty.links) = 0
<1>1. Empty = [links |-> << >>, size |-> 0]
  BY DEF Empty, Chained
<1>2. << >> \in Seq(Goods) /\ Len(<< >>) = 0
  OBVIOUS
<1>3. SumOfShelves(<< >>) = SumFunctionOnSet(Nums(<< >>), 1 .. 0)
  BY <1>2, StockIs
<1>4. 1 .. 0 = {}
  OBVIOUS
<1>5. SumOfShelves(<< >>) = 0
  BY <1>3, <1>4, SumEmpty
<1> QED BY <1>1, <1>2, <1>5 DEF IsList, Hidden

(* A shelf the list shows is found by its name. *)
LEMMA IndexFacts ==
  ASSUME NEW c, IsList(c), NEW shelf
  PROVE  LET index == index_for_shelf_pair(c, shelf) IN
         \/ index = -1
         \/ index \in Nat /\ index + 1 \in 1 .. c.size /\ c.links[index + 1].shelf_name = shelf
<1> DEFINE hits == {i \in 1 .. c.size : c.links[i].shelf_name = shelf}
           least == Min(hits)
<1>1. CASE hits = {}
  BY <1>1 DEF index_for_shelf_pair
<1>2. CASE hits # {}
  <2>1. hits \subseteq Nat
    BY DEF IsList
  <2>2. \E n \in hits : \A m \in hits : n <= m
    <3> HIDE DEF hits
    <3> QED BY <1>2, <2>1, LeastNatural
  <2>3. least \in hits
    <3> HIDE DEF hits
    <3> QED BY <2>2, Zenon DEF Min
  <2>4. index_for_shelf_pair(c, shelf) = least - 1
    BY <1>2 DEF index_for_shelf_pair
  <2> HIDE DEF least
  <2>5. least \in 1 .. c.size /\ c.links[least].shelf_name = shelf /\ least \in Nat
    BY <2>1, <2>3
  <2>6. (least - 1) + 1 = least /\ least - 1 \in Nat
    BY <2>5
  <2> QED BY <2>4, <2>5, <2>6
<1> QED BY <1>1, <1>2

(* What a delivery of n makes of a list: no less than it had, what was     *)
(* hidden stays hidden, and if nothing is, n more than it had.             *)
Grown(d, c, n) ==
  /\ IsList(d)
  /\ SumOfShelves(d.links) >= SumOfShelves(c.links)
  /\ Hidden(c) => Hidden(d)
  /\ ~Hidden(d) => SumOfShelves(d.links) = SumOfShelves(c.links) + n

(* What is to be shown of a list that has grown. *)
LEMMA GrownIs ==
  ASSUME NEW c, IsList(c), NEW n \in Nat, NEW new \in Seq(Goods), NEW size \in Nat,
         SumOfShelves(new) = SumOfShelves(c.links) + n,
         size <= Len(new), Len(new) > size => size >= 2, Hidden(c) => Len(new) > size
  PROVE  Grown(Chained(new, size), c, n)
<1> DEFINE d == Chained(new, size)
<1>1. /\ d \in [links : Seq(Goods), size : Nat] /\ d.links = new /\ d.size = size
      /\ Hidden(d) <=> Len(new) > size
  BY DEF Chained, Hidden
<1> HIDE DEF d
<1>2. SumOfShelves(c.links) \in Nat
  BY StockIs DEF IsList
<1>3. SumOfShelves(d.links) >= SumOfShelves(c.links)
  BY <1>1, <1>2
<1>4. Grown(d, c, n)
  BY <1>1, <1>3 DEF Grown, IsList
<1> QED BY <1>4 DEF d

(* A delivery, to a shelf the list shows or to a new one. *)
LEMMA ReplenishedFacts ==
  ASSUME NEW c, IsList(c), NEW shelf \in Shelves, NEW n \in Nat
  PROVE  Grown(Replenished(c, shelf, n), c, n)
<1> DEFINE index == index_for_shelf_pair(c, shelf)
           l == c.links
           d == Replenished(c, shelf, n)
<1>1. /\ l \in Seq(Goods) /\ Len(l) \in Nat /\ c.size \in Nat /\ c.size <= Len(l)
      /\ Len(l) > c.size => c.size >= 2
      /\ SumOfShelves(l) \in Nat
  BY StockIs DEF IsList, Hidden
<1>2. CASE index = -1
  <2> DEFINE v == shelf_pair(shelf, n)
             new == Inserted(l, 0, v)
  <2>1. v \in Goods /\ v.num_of_merch = n
    BY DEF shelf_pair, Goods
  <2>2. d = Prepended(c, v)
    BY <1>2 DEF Replenished
  <2> HIDE DEF v
  <2>3. <<v>> \o l = new
    BY <1>1, <2>1, PrependInserts
  <2>4. c.size = 0 => <<v>> \o l = <<v>>
    <3>1. c.size = 0 => l = << >>
      BY <1>1
    <3>2. <<v>> \in Seq(Goods)
      BY <2>1
    <3> HIDE DEF l
    <3>3. <<v>> \o << >> = <<v>>
      BY <3>2, ConcatEmptySeq
    <3> QED BY <3>1, <3>3
  <2>5. d = Chained(new, c.size + 1)
    BY <2>2, <2>3, <2>4 DEF Prepended
  <2>6. /\ new \in Seq(Goods) /\ Len(new) = Len(l) + 1
        /\ SumOfShelves(new) = SumOfShelves(l) + n
    <3>1. 0 \in 0 .. Len(l)
      BY <1>1
    <3> HIDE DEF l
    <3> QED BY <1>1, <2>1, <3>1, StockInserted
  <2> HIDE DEF new
  <2>7. /\ c.size + 1 \in Nat /\ c.size + 1 <= Len(new)
        /\ Len(new) > c.size + 1 => c.size + 1 >= 2
        /\ Hidden(c) => Len(new) > c.size + 1
    <3>1. Hidden(c) => Len(l) > c.size
      BY DEF Hidden
    <3>2. /\ Len(l) \in Nat /\ c.size \in Nat /\ Len(new) = Len(l) + 1
          /\ c.size <= Len(l)
      BY <1>1, <2>6
    <3>3. Len(l) > c.size => c.size >= 2
      BY <1>1
    <3> HIDE DEF l
    <3> QED BY <3>1, <3>2, <3>3
  <2>8. Grown(Chained(new, c.size + 1), c, n)
    BY <2>6, <2>7, GrownIs
  <2> QED BY <2>5, <2>8
<1>3. CASE index # -1
  <2> DEFINE p == index + 1
             old == l[p].num_of_merch
             v == shelf_pair(shelf, old + n)
             r == Removed(c, index)
  <2>1. index \in Int /\ index >= 0 /\ p \in 1 .. c.size /\ p \in 1 .. Len(l)
    <3>1. p \in 1 .. c.size
      BY <1>3, IndexFacts
    <3>2. index \in Int
      BY <1>3, IndexFacts
    <3> QED BY <1>1, <3>1, <3>2
  <2>2. old \in Nat
    <3> HIDE DEF p, l
    <3> QED BY <1>1, <2>1, GoodsAt
  <2>3. d = Appended(r, v)
    BY <2>1 DEF Replenished
  <2>4. v \in Goods /\ v.num_of_merch = old + n
    BY <2>2 DEF shelf_pair, Goods
  <2> HIDE DEF v, old
  <2>5. CASE index = 0 \/ p < Len(l)
    <3> DEFINE rest == Dropped(l, p)
               new == Append(rest, v)
    <3>1. /\ rest \in Seq(Goods) /\ Len(rest) = Len(l) - 1
          /\ SumOfShelves(l) = SumOfShelves(rest) + old
      BY <1>1, <2>1, StockDropped DEF old
    <3>2. r = [links |-> rest, size |-> c.size - 1]
      BY <1>1, <2>1, <2>5, SubSeqsDrop DEF Removed, Without, Chained
    <3> HIDE DEF rest
    <3>3. c.size - 1 = 0 => rest = << >>
      BY <1>1, <2>1, <2>5, <3>1
    <3>4. c.size - 1 = 0 => <<v>> = new
      BY <2>4, <3>3
    <3>5. d = Chained(new, c.size)
      <4>1. r.links = rest /\ r.size = c.size - 1 /\ r.size + 1 = c.size
        BY <1>1, <3>2
      <4> QED BY <2>3, <3>4, <4>1 DEF Appended
    <3>6. /\ new \in Seq(Goods) /\ Len(new) = Len(rest) + 1
          /\ SumOfShelves(new) = SumOfShelves(rest) + (old + n)
      <4>1. new = Inserted(rest, Len(rest), v) /\ Len(rest) \in 0 .. Len(rest)
        BY <1>1, <2>4, <3>1, AppendInserts
      <4> QED BY <2>4, <3>1, <4>1, StockInserted
    <3>7. SumOfShelves(rest) \in Nat
      BY <3>1, StockIs
    <3> HIDE DEF new
    <3>8. Len(new) = Len(l) /\ SumOfShelves(new) = SumOfShelves(l) + n
      BY <1>1, <2>2, <3>1, <3>6, <3>7
    <3>9. /\ c.size <= Len(new) /\ (Len(new) > c.size => c.size >= 2)
          /\ Hidden(c) => Len(new) > c.size
      BY <1>1, <3>8 DEF Hidden
    <3>10. Grown(Chained(new, c.size), c, n)
      BY <1>1, <3>6, <3>8, <3>9, GrownIs
    <3> QED BY <3>5, <3>10
  <2>6. CASE ~(index = 0 \/ p < Len(l))
    <3> DEFINE new == Append(l, v)
    <3>1. c.size >= 2 /\ c.size = Len(l)
      BY <1>1, <2>1, <2>6
    <3>2. r = [links |-> l, size |-> c.size - 1]
      BY <1>1, <2>1, <2>6 DEF Removed, Chained
    <3>3. d = Chained(new, c.size)
      <4>1. r.links = l /\ r.size = c.size - 1 /\ r.size + 1 = c.size /\ r.size # 0
        <5> HIDE DEF r, l
        <5>1. r.links = l /\ r.size = c.size - 1
          BY <3>2
        <5>2. c.size \in Nat /\ c.size >= 2
          BY <1>1, <3>1
        <5>3. (c.size - 1) + 1 = c.size /\ c.size - 1 # 0
          BY ONLY <5>2
        <5> QED BY <5>1, <5>3
      <4> QED BY <2>3, <4>1 DEF Appended
    <3>4. /\ new \in Seq(Goods) /\ Len(new) = Len(l) + 1
          /\ SumOfShelves(new) = SumOfShelves(l) + (old + n)
      <4>1. new = Inserted(l, Len(l), v) /\ Len(l) \in 0 .. Len(l)
        BY <1>1, <2>4, AppendInserts
      <4> QED BY <1>1, <2>4, <4>1, StockInserted
    <3> HIDE DEF new
    <3>5. /\ c.size <= Len(new) /\ (Len(new) > c.size => c.size >= 2)
          /\ Hidden(c) => Len(new) > c.size
      BY <1>1, <3>1, <3>4
    <3>6. Grown(Chained(new, c.size), c, old + n)
      <4>1. old + n \in Nat
        BY <2>2
      <4> QED BY <1>1, <3>4, <3>5, <4>1, GrownIs
    <3>7. Hidden(Chained(new, c.size))
      BY <1>1, <3>1, <3>4 DEF Hidden, Chained
    <3>8. Grown(Chained(new, c.size), c, n)
      BY <3>6, <3>7 DEF Grown
    <3> QED BY <3>3, <3>8
  <2> QED BY <2>5, <2>6
<1> QED BY <1>2, <1>3

(* Goods taken from a shelf. *)
LEMMA TakenFacts ==
  ASSUME NEW c, IsList(c), NEW i \in 1 .. Len(c.links),
         NEW n \in Nat, n <= c.links[i].num_of_merch
  PROVE  LET d == Taken(c, i, n) IN
         /\ IsList(d) /\ (Hidden(d) <=> Hidden(c)) /\ Len(d.links) = Len(c.links)
         /\ SumOfShelves(d.links) = SumOfShelves(c.links) - n
         /\ \A j \in 1 .. Len(c.links) :
              Nums(d.links)[j] = IF j = i THEN Nums(c.links)[j] - n ELSE Nums(c.links)[j]
<1> DEFINE l == c.links
           new == [l EXCEPT ![i].num_of_merch = @ - n]
           d == Taken(c, i, n)
<1>1. l \in Seq(Goods) /\ i \in DOMAIN l /\ Len(l) \in Nat /\ DOMAIN l = 1 .. Len(l)
  BY LenProperties DEF IsList
<1>2. d.links = new /\ d.size = c.size /\ d \in [links : {new}, size : Nat]
  BY DEF Taken, IsList
<1>3. new \in [1 .. Len(l) -> Goods] /\ new[i].num_of_merch = l[i].num_of_merch - n
  <2> DEFINE v == [l[i] EXCEPT !.num_of_merch = @ - n]
  <2>1. l[i] \in Goods /\ l[i].num_of_merch \in Nat /\ l[i].num_of_merch - n \in Nat
    BY <1>1, GoodsAt
  <2>2. v \in Goods /\ v.num_of_merch = l[i].num_of_merch - n
    BY <2>1 DEF Goods
  <2>3. \A j \in 1 .. Len(l) : l[j] \in Goods
    BY <1>1, ElementOfSeq
  <2>4. new = [l EXCEPT ![i] = v]
    OBVIOUS
  <2> HIDE DEF v, new, l
  <2> QED BY <1>1, <2>2, <2>3, <2>4
<1>4. \A j \in 1 .. Len(l) : j # i => new[j] = l[j]
  BY <1>1
<1> HIDE DEF new, d
<1>5. new \in Seq(Goods) /\ Len(new) = Len(l) /\ DOMAIN new = 1 .. Len(l)
  BY <1>1, <1>3, FunctionIsSeq
<1>6. SumOfShelves(new) = SumOfShelves(l) + (new[i].num_of_merch - l[i].num_of_merch)
  BY <1>1, <1>4, <1>5, StockTaken
<1>7. SumOfShelves(l) \in Nat /\ l[i].num_of_merch \in Nat
  BY <1>1, StockIs, GoodsAt
<1>8. SumOfShelves(new) = SumOfShelves(l) - n
  BY <1>3, <1>6, <1>7
<1>9. \A j \in 1 .. Len(l) : Nums(new)[j] = IF j = i THEN Nums(l)[j] - n ELSE Nums(l)[j]
  BY <1>1, <1>3, <1>4, <1>5 DEF Nums
<1>10. IsList(d) /\ (Hidden(d) <=> Hidden(c)) /\ d.links = new
  BY <1>2, <1>5 DEF IsList, Hidden
<1> HIDE DEF l
<1> QED BY <1>5, <1>8, <1>9, <1>10 DEF l, d

-----------------------------------------------------------------------------
(* A cart with pairs of the first n merchandise.                           *)
IsCart(cart, n) ==
  /\ cart \in [DOMAIN cart -> [merch : 1 .. n, amount_in_cart : Nat]]
  /\ DOMAIN cart \subseteq Names /\ IsFiniteSet(DOMAIN cart)

(* The amounts of m in a cart, and of everything. *)
Amounts(cart, m) == [name \in DOMAIN cart |-> Amount(cart[name], m)]
AllAmounts(cart) == [name \in DOMAIN cart |-> cart[name].amount_in_cart]

(* The sums over a cart. *)
LEMMA CartSums ==
  ASSUME NEW n, NEW cart, IsCart(cart, n), NEW m
  PROVE  /\ \A name \in DOMAIN cart :
              Amounts(cart, m)[name] \in Nat /\ AllAmounts(cart)[name] \in Nat
         /\ ReservedIn(cart, m) = SumFunctionOnSet(Amounts(cart, m), DOMAIN cart)
         /\ num_of_merch_in_one_cart(cart) = SumFunctionOnSet(AllAmounts(cart), DOMAIN cart)
         /\ ReservedIn(cart, m) \in Nat /\ num_of_merch_in_one_cart(cart) \in Nat
         /\ ReservedIn(cart, m) <= num_of_merch_in_one_cart(cart)
<1> DEFINE S == DOMAIN cart
           f == Amounts(cart, m)
           g == AllAmounts(cart)
<1>1. \A name \in S : f[name] \in Nat /\ g[name] \in Nat /\ f[name] <= g[name]
  <2>1. \A name \in S : cart[name].amount_in_cart \in Nat
    BY DEF IsCart
  <2> QED BY <2>1 DEF Amounts, AllAmounts, Amount
<1>2. /\ ReservedIn(cart, m) = SumFunctionOnSet(f, S)
      /\ num_of_merch_in_one_cart(cart) = SumFunctionOnSet(g, S)
  BY Zenon DEF ReservedIn, num_of_merch_in_one_cart, SumFunction, Amounts, AllAmounts
<1>3. IsFiniteSet(S)
  BY DEF IsCart
<1>4. /\ SumFunctionOnSet(f, S) \in Nat /\ SumFunctionOnSet(g, S) \in Nat
      /\ SumFunctionOnSet(f, S) <= SumFunctionOnSet(g, S)
  <2> HIDE DEF S, f, g
  <2>1. \A name \in S : f[name] \in Int /\ g[name] \in Int /\ f[name] <= g[name]
    BY <1>1
  <2> QED BY <1>1, <1>3, <2>1, SumNat, SumOrdered
<1> QED BY <1>1, <1>2, <1>4

(* A table with another value for k, or none: the sum of the others, and   *)
(* that of k if it has one.                                                *)
LEMMA SumWithout ==
  ASSUME NEW S, IsFiniteSet(S), NEW f, \A x \in S : f[x] \in Int, NEW k
  PROVE  /\ IsFiniteSet(S \ {k})
         /\ SumFunctionOnSet(f, S)
              = SumFunctionOnSet(f, S \ {k}) + (IF k \in S THEN f[k] ELSE 0)
<1>1. SumFunctionOnSet(f, S) \in Int /\ IsFiniteSet(S \ {k})
  BY SumInt, FS_RemoveElement
<1>2. CASE k \in S
  <2>1. SumFunctionOnSet(f, S) = f[k] + SumFunctionOnSet(f, S \ {k})
    BY <1>2, SumRemove
  <2>2. SumFunctionOnSet(f, S \ {k}) \in Int
    <3>1. \A x \in S \ {k} : f[x] \in Int
      OBVIOUS
    <3> QED BY <1>1, <3>1, SumInt
  <2>3. f[k] \in Int
    BY <1>2
  <2> QED BY <1>1, <1>2, <2>1, <2>2, <2>3
<1>3. CASE k \notin S
  <2>1. SumFunctionOnSet(f, S \ {k}) = SumFunctionOnSet(f, S)
    <3>1. S \ {k} = S
      BY <1>3
    <3> QED BY <3>1
  <2> QED BY <1>1, <1>3, <2>1
<1> QED BY <1>2, <1>3

(* A pair put into a cart, where it takes the place of one of the name. *)
LEMMA CartWith ==
  ASSUME NEW n \in Nat, NEW cart, IsCart(cart, n), NEW name \in Names,
         NEW m \in 1 .. n, NEW q \in Nat
  PROVE  LET new == With(cart, name, cart_pair(m, q + InCart(cart, name))) IN
         /\ IsCart(new, n)
         /\ num_of_merch_in_one_cart(new) = num_of_merch_in_one_cart(cart) + q
         /\ \A i : i # m => ReservedIn(new, i) <= ReservedIn(cart, i)
<1> DEFINE pair == cart_pair(m, q + InCart(cart, name))
           new == With(cart, name, pair)
           S == DOMAIN cart
           R == S \ {name}
<1>1. InCart(cart, name) \in Nat /\ InCart(cart, name) = IF name \in S THEN AllAmounts(cart)[name] ELSE 0
  <2>1. name \in S => cart[name].amount_in_cart \in Nat
    BY DEF IsCart
  <2> QED BY <2>1 DEF InCart, AllAmounts
<1>2. pair \in [merch : 1 .. n, amount_in_cart : Nat] /\ pair.merch = m
      /\ pair.amount_in_cart = q + InCart(cart, name)
  BY <1>1 DEF cart_pair
<1> HIDE DEF pair
<1>3. /\ DOMAIN new = S \cup {name} /\ new[name] = pair
      /\ \A x \in R : new[x] = cart[x] /\ x \in DOMAIN new
  BY DEF With
<1>4. IsCart(new, n)
  <2>1. IsFiniteSet(S \cup {name}) /\ S \cup {name} \subseteq Names
    BY FS_AddElement DEF IsCart
  <2>2. \A x \in S : cart[x] \in [merch : 1 .. n, amount_in_cart : Nat]
    BY DEF IsCart
  <2>3. new \in [S \cup {name} -> [merch : 1 .. n, amount_in_cart : Nat]]
    BY <1>2, <2>2 DEF With
  <2> HIDE DEF new
  <2> QED BY <1>3, <2>1, <2>3 DEF IsCart
<1> HIDE DEF new
<1>5. (DOMAIN new) \ {name} = R /\ name \in DOMAIN new /\ IsFiniteSet(S) /\ IsFiniteSet(R) /\ IsFiniteSet(DOMAIN new)
  BY <1>3, <1>4, FS_Subset DEF IsCart
<1>6. num_of_merch_in_one_cart(new) = num_of_merch_in_one_cart(cart) + q
  <2> DEFINE f == AllAmounts(cart)
             g == AllAmounts(new)
  <2>1. /\ \A x \in R : f[x] = g[x]
        /\ g[name] = q + InCart(cart, name)
    BY <1>2, <1>3 DEF AllAmounts
  <2>2. /\ \A x \in S : f[x] \in Int
        /\ \A x \in DOMAIN new : g[x] \in Int
        /\ num_of_merch_in_one_cart(cart) = SumFunctionOnSet(f, S)
        /\ num_of_merch_in_one_cart(new) = SumFunctionOnSet(g, DOMAIN new)
    BY <1>4, CartSums
  <2> HIDE DEF f, g, R
  <2>3. SumFunctionOnSet(g, DOMAIN new) = SumFunctionOnSet(g, R) + g[name]
    BY <1>5, <2>2, SumWithout
  <2>4. SumFunctionOnSet(f, S) = SumFunctionOnSet(f, R) + InCart(cart, name)
    <3>1. InCart(cart, name) = IF name \in S THEN f[name] ELSE 0
      BY <1>1 DEF f
    <3> HIDE DEF S
    <3> QED BY <1>5, <2>2, <3>1, SumWithout DEF R
  <2>5. SumFunctionOnSet(f, R) = SumFunctionOnSet(g, R) /\ SumFunctionOnSet(f, R) \in Int
    <3>1. \A x \in R : f[x] \in Int
      BY <2>2 DEF R
    <3> QED BY <1>5, <2>1, <3>1, SumSame, SumInt
  <2> QED BY <1>1, <2>1, <2>2, <2>3, <2>4, <2>5
<1>7. ASSUME NEW i, i # m PROVE ReservedIn(new, i) <= ReservedIn(cart, i)
  <2> DEFINE f == Amounts(cart, i)
             g == Amounts(new, i)
  <2>1. /\ \A x \in R : f[x] = g[x]
        /\ g[name] = 0
    BY <1>2, <1>3, <1>7 DEF Amounts, Amount
  <2>2. /\ \A x \in S : f[x] \in Nat
        /\ \A x \in DOMAIN new : g[x] \in Int
        /\ ReservedIn(cart, i) = SumFunctionOnSet(f, S)
        /\ ReservedIn(new, i) = SumFunctionOnSet(g, DOMAIN new)
    <3>1. \A x \in DOMAIN new : g[x] \in Nat
      BY <1>4, CartSums
    <3> QED BY <1>4, <3>1, CartSums
  <2> HIDE DEF f, g
  <2>3. SumFunctionOnSet(g, DOMAIN new) = SumFunctionOnSet(g, R) + g[name]
    <3> HIDE DEF R
    <3> QED BY <1>5, <2>2, SumWithout
  <2>4. R \in SUBSET S
    OBVIOUS
  <2>5. SumFunctionOnSet(f, R) <= SumFunctionOnSet(f, S)
    <3> HIDE DEF R, S
    <3> QED BY <1>5, <2>2, <2>4, SumPart
  <2>6. SumFunctionOnSet(f, R) = SumFunctionOnSet(g, R) /\ SumFunctionOnSet(f, R) \in Int
    <3>1. \A x \in R : f[x] \in Int
      BY <2>2
    <3> HIDE DEF R
    <3> QED BY <1>5, <2>1, <3>1, SumSame, SumInt
  <2> QED BY <2>1, <2>2, <2>3, <2>5, <2>6
<1> QED BY <1>4, <1>6, <1>7 DEF new, pair

(* What is left of a cart. *)
LEMMA CartLess ==
  ASSUME NEW n \in Nat, NEW cart, IsCart(cart, n), NEW name, NEW q \in Nat
  PROVE  LET new == Less(cart, name, q) IN
         /\ IsCart(new, n)
         /\ \A m : ReservedIn(new, m) <= ReservedIn(cart, m)
         /\ DOMAIN new \subseteq DOMAIN cart
         /\ \A x \in DOMAIN new : new[x].merch = cart[x].merch
         /\ name \in DOMAIN new => cart[name].amount_in_cart > q
<1> DEFINE new == Less(cart, name, q)
           Pair == [merch : 1 .. n, amount_in_cart : Nat]
<1>1. /\ cart \in [DOMAIN cart -> Pair] /\ DOMAIN cart \subseteq Names
      /\ IsFiniteSet(DOMAIN cart)
  BY DEF IsCart
<1>2. CASE name \notin DOMAIN cart
  <2>1. new = cart
    BY <1>2 DEF Less
  <2>2. \A m : ReservedIn(cart, m) \in Nat
    BY CartSums
  <2> QED BY <1>2, <2>1, <2>2
<1>3. CASE name \in DOMAIN cart
  <2>0. cart[name] \in Pair /\ cart[name].amount_in_cart \in Nat
    BY <1>1, <1>3
  <2>1. /\ new \in [DOMAIN new -> Pair] /\ DOMAIN new \subseteq DOMAIN cart
        /\ \A x \in DOMAIN new : /\ new[x].merch = cart[x].merch
                                 /\ new[x].amount_in_cart <= cart[x].amount_in_cart
        /\ name \in DOMAIN new => cart[name].amount_in_cart > q
    <3>1. CASE cart[name].amount_in_cart <= q
      <4>1. new = [x \in DOMAIN cart \ {name} |-> cart[x]]
        BY <1>3, <3>1 DEF Less, Drop
      <4>2. \A x \in DOMAIN cart : cart[x].amount_in_cart \in Nat
        BY <1>1
      <4> HIDE DEF new
      <4> QED BY <1>1, <4>1, <4>2
    <3>2. CASE ~(cart[name].amount_in_cart <= q)
      <4> DEFINE v == [cart[name] EXCEPT !.amount_in_cart = @ - q]
      <4>1. v \in Pair /\ v.merch = cart[name].merch /\ v.amount_in_cart <= cart[name].amount_in_cart
        <5>1. cart[name].amount_in_cart - q \in Nat
          BY <2>0, <3>2
        <5> QED BY <2>0, <5>1
      <4>2. new = [cart EXCEPT ![name] = v]
        BY <1>3, <3>2 DEF Less
      <4>3. \A x \in DOMAIN cart : cart[x].amount_in_cart \in Nat
        BY <1>1
      <4> HIDE DEF new, v, Pair
      <4>4. new \in [DOMAIN cart -> Pair] /\ DOMAIN new = DOMAIN cart
        BY <1>1, <1>3, <4>1, <4>2
      <4>5. \A x \in DOMAIN cart : new[x] = IF x = name THEN v ELSE cart[x]
        BY <1>1, <1>3, <4>2
      <4>6. \A x \in DOMAIN cart : /\ new[x].merch = cart[x].merch
                                   /\ new[x].amount_in_cart <= cart[x].amount_in_cart
        BY <4>1, <4>3, <4>5
      <4>7. cart[name].amount_in_cart > q
        BY <2>0, <3>2
      <4> QED BY <4>4, <4>6, <4>7
    <3> QED BY <3>1, <3>2
  <2> HIDE DEF new, Pair
  <2>2. IsCart(new, n)
    <3>1. IsFiniteSet(DOMAIN new) /\ DOMAIN new \subseteq Names
      BY <1>1, <2>1, FS_Subset
    <3> QED BY <2>1, <3>1 DEF IsCart, Pair
  <2>3. ASSUME NEW m PROVE ReservedIn(new, m) <= ReservedIn(cart, m)
    <3> DEFINE f == Amounts(cart, m)
               g == Amounts(new, m)
               S == DOMAIN cart
               R == DOMAIN new
    <3>1. \A x \in R : x \in S /\ g[x] <= f[x]
      <4>1. \A x \in R : x \in S /\ new[x].merch = cart[x].merch /\ new[x].amount_in_cart <= cart[x].amount_in_cart
        BY <2>1
      <4> QED BY <4>1 DEF Amounts, Amount
    <3>2. /\ \A x \in S : f[x] \in Nat
          /\ \A x \in R : g[x] \in Nat
          /\ ReservedIn(cart, m) = SumFunctionOnSet(f, S)
          /\ ReservedIn(new, m) = SumFunctionOnSet(g, R)
          /\ IsFiniteSet(R) /\ IsFiniteSet(S) /\ R \in SUBSET S
      BY <1>1, <2>1, <2>2, CartSums DEF IsCart
    <3> HIDE DEF f, g, S, R
    <3>3. SumFunctionOnSet(g, R) <= SumFunctionOnSet(f, R)
      <4>1. \A x \in R : g[x] \in Int /\ f[x] \in Int /\ g[x] <= f[x]
        BY <3>1, <3>2
      <4> QED BY <3>2, <4>1, SumOrdered
    <3>4. SumFunctionOnSet(f, R) <= SumFunctionOnSet(f, S)
      BY <3>2, SumPart
    <3>5. /\ SumFunctionOnSet(g, R) \in Nat /\ SumFunctionOnSet(f, R) \in Nat
          /\ SumFunctionOnSet(f, S) \in Nat
      <4>1. \A x \in R : f[x] \in Nat
        BY <3>1, <3>2
      <4> QED BY <3>2, <4>1, SumNat
    <3> QED BY <3>2, <3>3, <3>4, <3>5
  <2> QED BY <2>1, <2>2, <2>3 DEF new
<1> QED BY <1>2, <1>3

-----------------------------------------------------------------------------
(* The carts, with keys up to k. *)
AreCarts(carts, n, k) ==
  /\ DOMAIN carts \subseteq 1 .. k /\ \A key \in DOMAIN carts : IsCart(carts[key], n)

(* What the carts hold of m, and of everything. *)
HeldOf(carts, m) == [key \in DOMAIN carts |-> ReservedIn(carts[key], m)]
Held(carts, m) == SumFunctionOnSet(HeldOf(carts, m), DOMAIN carts)
AllHeldOf(carts) == [key \in DOMAIN carts |-> num_of_merch_in_one_cart(carts[key])]
AllHeld(carts) == SumFunctionOnSet(AllHeldOf(carts), DOMAIN carts)

(* What the store computes, as a sum over the carts. *)
LEMMA HeldIs == /\ \A m : Reserved(m) = Held(all_carts, m)
                /\ num_of_merch_in_carts = AllHeld(all_carts)
BY Zenon DEF Reserved, Held, HeldOf, SumFunction, num_of_merch_in_carts, AllHeld, AllHeldOf

(* What is held of m is part of all that is held. *)
LEMMA HeldFacts ==
  ASSUME NEW n \in Nat, NEW k \in Nat, NEW carts, AreCarts(carts, n, k), NEW m
  PROVE  /\ IsFiniteSet(DOMAIN carts)
         /\ \A key \in DOMAIN carts :
              HeldOf(carts, m)[key] \in Nat /\ AllHeldOf(carts)[key] \in Nat
         /\ Held(carts, m) \in Nat /\ AllHeld(carts) \in Nat
         /\ Held(carts, m) <= AllHeld(carts)
<1> DEFINE S == DOMAIN carts
           f == HeldOf(carts, m)
           g == AllHeldOf(carts)
<1>1. IsFiniteSet(S)
  <2>1. IsFiniteSet(1 .. k)
    BY FS_Interval
  <2>2. S \in SUBSET (1 .. k)
    BY DEF AreCarts
  <2> HIDE DEF S
  <2> QED BY <2>1, <2>2, FS_Subset
<1>2. \A key \in S : f[key] \in Nat /\ g[key] \in Nat /\ f[key] <= g[key]
  <2>1. \A key \in S : IsCart(carts[key], n)
    BY DEF AreCarts
  <2>2. \A key \in S : /\ ReservedIn(carts[key], m) \in Nat
                       /\ num_of_merch_in_one_cart(carts[key]) \in Nat
                       /\ ReservedIn(carts[key], m) <= num_of_merch_in_one_cart(carts[key])
    BY <2>1, CartSums
  <2> QED BY <2>2 DEF HeldOf, AllHeldOf
<1> HIDE DEF S, f, g
<1>3. \A key \in S : f[key] \in Int /\ g[key] \in Int /\ f[key] <= g[key]
  BY <1>2
<1>4. /\ SumFunctionOnSet(f, S) \in Nat /\ SumFunctionOnSet(g, S) \in Nat
      /\ SumFunctionOnSet(f, S) <= SumFunctionOnSet(g, S)
  BY <1>1, <1>2, <1>3, SumNat, SumOrdered
<1> QED BY <1>1, <1>2, <1>4 DEF S, f, g, Held, AllHeld

(* Less in each cart, or fewer carts, is less in all. *)
LEMMA HeldOrdered ==
  ASSUME NEW n \in Nat, NEW k \in Nat, NEW carts, AreCarts(carts, n, k),
         NEW others, AreCarts(others, n, k), NEW m,
         DOMAIN others \subseteq DOMAIN carts,
         \A key \in DOMAIN others : ReservedIn(others[key], m) <= ReservedIn(carts[key], m)
  PROVE  Held(others, m) <= Held(carts, m)
<1> DEFINE S == DOMAIN carts
           R == DOMAIN others
           f == HeldOf(carts, m)
           g == HeldOf(others, m)
<1>1. /\ IsFiniteSet(S) /\ IsFiniteSet(R) /\ R \in SUBSET S
      /\ \A key \in S : f[key] \in Nat
      /\ \A key \in R : g[key] \in Nat
  BY HeldFacts
<1>2. \A key \in R : g[key] <= f[key]
  BY DEF HeldOf
<1> HIDE DEF S, R, f, g
<1>3. \A key \in R : g[key] \in Int /\ f[key] \in Int /\ f[key] \in Nat /\ g[key] <= f[key]
  BY <1>1, <1>2
<1>4. /\ SumFunctionOnSet(g, R) <= SumFunctionOnSet(f, R)
      /\ SumFunctionOnSet(f, R) <= SumFunctionOnSet(f, S)
  BY <1>1, <1>3, SumOrdered, SumPart
<1>5. /\ SumFunctionOnSet(g, R) \in Nat /\ SumFunctionOnSet(f, R) \in Nat
      /\ SumFunctionOnSet(f, S) \in Nat
  BY <1>1, <1>3, SumNat
<1> QED BY <1>4, <1>5 DEF S, R, f, g, Held

(* Another cart for the key e. *)
LEMMA HeldChange ==
  ASSUME NEW n \in Nat, NEW k \in Nat, NEW carts, AreCarts(carts, n, k),
         NEW others, AreCarts(others, n, k), NEW e \in DOMAIN others,
         DOMAIN others = DOMAIN carts \cup {e},
         \A key \in DOMAIN carts : key # e => others[key] = carts[key]
  PROVE  /\ AllHeld(others)
              = AllHeld(carts) + num_of_merch_in_one_cart(others[e])
                - (IF e \in DOMAIN carts THEN num_of_merch_in_one_cart(carts[e]) ELSE 0)
         /\ \A m : Held(others, m)
              = Held(carts, m) + ReservedIn(others[e], m)
                - (IF e \in DOMAIN carts THEN ReservedIn(carts[e], m) ELSE 0)
<1> DEFINE S == DOMAIN carts
           R == DOMAIN others
           Q == S \ {e}
<1>1. IsFiniteSet(S) /\ IsFiniteSet(R) /\ IsFiniteSet(Q) /\ R \ {e} = Q /\ e \in R
  <2>1. IsFiniteSet(S) /\ IsFiniteSet(R)
    BY HeldFacts
  <2> QED BY <2>1, FS_Subset
<1>2. ASSUME NEW f, NEW g,
             \A x \in S : f[x] \in Nat, \A x \in R : g[x] \in Nat,
             \A x \in Q : f[x] = g[x]
      PROVE  SumFunctionOnSet(g, R)
               = SumFunctionOnSet(f, S) + g[e] - (IF e \in S THEN f[e] ELSE 0)
  <2> HIDE DEF S, R
  <2>1. /\ \A x \in S : f[x] \in Int
        /\ \A x \in R : g[x] \in Int
        /\ \A x \in Q : f[x] \in Nat
    BY <1>2
  <2>2. SumFunctionOnSet(f, S) = SumFunctionOnSet(f, Q) + (IF e \in S THEN f[e] ELSE 0)
    BY <1>1, <2>1, SumWithout
  <2>3. SumFunctionOnSet(g, R) = SumFunctionOnSet(g, Q) + g[e]
    <3>1. SumFunctionOnSet(g, R) = SumFunctionOnSet(g, R \ {e}) + (IF e \in R THEN g[e] ELSE 0)
      BY <1>1, <2>1, SumWithout
    <3> QED BY <1>1, <3>1
  <2> HIDE DEF Q
  <2>4. SumFunctionOnSet(f, Q) = SumFunctionOnSet(g, Q) /\ SumFunctionOnSet(f, Q) \in Nat
    BY <1>1, <1>2, <2>1, SumSame, SumNat
  <2>5. (IF e \in S THEN f[e] ELSE 0) \in Nat /\ g[e] \in Nat
    BY <1>1, <1>2
  <2> QED BY <2>2, <2>3, <2>4, <2>5
<1>3. ASSUME NEW m
      PROVE  Held(others, m)
               = Held(carts, m) + ReservedIn(others[e], m)
                 - (IF e \in S THEN ReservedIn(carts[e], m) ELSE 0)
  <2> DEFINE f == HeldOf(carts, m)
             g == HeldOf(others, m)
  <2>1. (\A x \in S : f[x] \in Nat) /\ (\A x \in R : g[x] \in Nat)
    BY HeldFacts
  <2>2. /\ \A x \in Q : f[x] = g[x]
        /\ g[e] = ReservedIn(others[e], m)
        /\ e \in S => f[e] = ReservedIn(carts[e], m)
    BY DEF HeldOf
  <2> HIDE DEF f, g, S, R, Q
  <2>3. SumFunctionOnSet(g, R) = SumFunctionOnSet(f, S) + g[e] - (IF e \in S THEN f[e] ELSE 0)
    BY <1>2, <2>1, <2>2
  <2> QED BY <2>2, <2>3 DEF Held, f, g, S, R
<1>4. AllHeld(others)
        = AllHeld(carts) + num_of_merch_in_one_cart(others[e])
          - (IF e \in S THEN num_of_merch_in_one_cart(carts[e]) ELSE 0)
  <2> DEFINE f == AllHeldOf(carts)
             g == AllHeldOf(others)
  <2>1. (\A x \in S : f[x] \in Nat) /\ (\A x \in R : g[x] \in Nat)
    BY HeldFacts
  <2>2. /\ \A x \in Q : f[x] = g[x]
        /\ g[e] = num_of_merch_in_one_cart(others[e])
        /\ e \in S => f[e] = num_of_merch_in_one_cart(carts[e])
    BY DEF AllHeldOf
  <2> HIDE DEF f, g, S, R, Q
  <2>3. SumFunctionOnSet(g, R) = SumFunctionOnSet(f, S) + g[e] - (IF e \in S THEN f[e] ELSE 0)
    BY <1>2, <2>1, <2>2
  <2> QED BY <2>2, <2>3 DEF AllHeld, f, g, S, R
<1> QED BY <1>3, <1>4

-----------------------------------------------------------------------------
(* The checkout d: the pairs of a cart that are not served yet, what is    *)
(* due of m, and what is taken from the shelves at the moment.             *)
Unserved(carts, d, key) ==
  IF d.at = "desk" /\ d.cart = key THEN d.pairs ELSE DOMAIN carts[key]
DueOf(carts, d, m) ==
  [key \in DOMAIN carts |-> SumFunctionOnSet(Amounts(carts[key], m), Unserved(carts, d, key))]
OnDesk(d, m) == IF d.at = "desk" /\ d.merch = m THEN d.amount ELSE 0
Pending(carts, d, m) == SumFunctionOnSet(DueOf(carts, d, m), DOMAIN carts) + OnDesk(d, m)

(* Its cart is one of the carts. *)
DeskFits(d, carts) ==
  d.at = "desk" =>
    d.cart \in DOMAIN carts /\ d.pairs \subseteq DOMAIN carts[d.cart] /\ d.amount \in Nat

(* A pair not served yet is part of what is due. *)
LEMMA DueFacts ==
  ASSUME NEW n \in Nat, NEW k \in Nat, NEW carts, AreCarts(carts, n, k),
         NEW d, DeskFits(d, carts), NEW m
  PROVE  /\ \A key \in DOMAIN carts :
              /\ DueOf(carts, d, m)[key] \in Nat
              /\ IsFiniteSet(Unserved(carts, d, key))
              /\ Unserved(carts, d, key) \subseteq DOMAIN carts[key]
              /\ \A name \in Unserved(carts, d, key) :
                   Amount(carts[key][name], m) <= DueOf(carts, d, m)[key]
         /\ SumFunctionOnSet(DueOf(carts, d, m), DOMAIN carts) \in Nat
<1>1. ASSUME NEW key \in DOMAIN carts
      PROVE  /\ DueOf(carts, d, m)[key] \in Nat
             /\ IsFiniteSet(Unserved(carts, d, key))
             /\ Unserved(carts, d, key) \subseteq DOMAIN carts[key]
             /\ \A name \in Unserved(carts, d, key) :
                  Amount(carts[key][name], m) <= DueOf(carts, d, m)[key]
  <2> DEFINE R == Unserved(carts, d, key)
             f == Amounts(carts[key], m)
  <2>1. IsCart(carts[key], n)
    BY DEF AreCarts
  <2>2. R \subseteq DOMAIN carts[key]
    BY DEF Unserved, DeskFits
  <2>3. IsFiniteSet(R)
    BY <2>1, <2>2, FS_Subset DEF IsCart
  <2>4. \A name \in R : f[name] \in Nat /\ f[name] = Amount(carts[key][name], m)
    <3>1. \A name \in DOMAIN carts[key] : f[name] \in Nat
      BY <2>1, CartSums
    <3> QED BY <2>2, <3>1 DEF Amounts
  <2>5. DueOf(carts, d, m)[key] = SumFunctionOnSet(f, R)
    BY DEF DueOf
  <2> HIDE DEF R, f
  <2>6. SumFunctionOnSet(f, R) \in Nat /\ \A name \in R : f[name] <= SumFunctionOnSet(f, R)
    BY <2>3, <2>4, SumNat, SumMember
  <2>7. /\ DueOf(carts, d, m)[key] \in Nat
        /\ \A name \in R : Amount(carts[key][name], m) <= DueOf(carts, d, m)[key]
    BY <2>4, <2>5, <2>6
  <2> QED BY <2>2, <2>3, <2>7 DEF R
<1>2. IsFiniteSet(DOMAIN carts)
  BY HeldFacts
<1> QED BY <1>1, <1>2, SumNat

(* A pair not served yet is part of what is pending. *)
LEMMA PendingFacts ==
  ASSUME NEW n \in Nat, NEW k \in Nat, NEW carts, AreCarts(carts, n, k),
         NEW d, DeskFits(d, carts), NEW m
  PROVE  /\ Pending(carts, d, m) \in Nat
         /\ \A key \in DOMAIN carts : \A name \in Unserved(carts, d, key) :
              Amount(carts[key][name], m) <= Pending(carts, d, m)
<1> DEFINE f == DueOf(carts, d, m)
           S == DOMAIN carts
<1>1. IsFiniteSet(S)
  BY HeldFacts
<1>2. /\ \A key \in S : f[key] \in Nat
      /\ SumFunctionOnSet(f, S) \in Nat
      /\ \A key \in S : \A name \in Unserved(carts, d, key) :
           Amount(carts[key][name], m) <= f[key]
  BY DueFacts
<1>3. OnDesk(d, m) \in Nat
  BY DEF OnDesk, DeskFits
<1>4. \A key \in S : \A name \in Unserved(carts, d, key) : Amount(carts[key][name], m) \in Nat
  <2>1. ASSUME NEW key \in S, NEW name \in Unserved(carts, d, key)
        PROVE  Amount(carts[key][name], m) \in Nat
    <3>1. IsCart(carts[key], n) /\ name \in DOMAIN carts[key]
      BY <2>1, DueFacts DEF AreCarts
    <3> QED BY <3>1 DEF IsCart, Amount
  <2> QED BY <2>1
<1> HIDE DEF f, S
<1>5. \A key \in S : f[key] <= SumFunctionOnSet(f, S)
  BY <1>1, <1>2, SumMember
<1>6. Pending(carts, d, m) = SumFunctionOnSet(f, S) + OnDesk(d, m)
  BY DEF Pending, f, S
<1>7. ASSUME NEW key \in S, NEW name \in Unserved(carts, d, key)
      PROVE  Amount(carts[key][name], m) <= Pending(carts, d, m)
  <2>1. Amount(carts[key][name], m) <= f[key] /\ f[key] \in Nat /\ f[key] <= SumFunctionOnSet(f, S)
    BY <1>2, <1>5
  <2>2. Amount(carts[key][name], m) \in Nat
    BY <1>4
  <2> QED BY <1>2, <1>3, <1>6, <2>1, <2>2
<1> QED BY <1>2, <1>3, <1>6, <1>7 DEF S

(* Without a checkout it is what the carts hold, and at its start, too. *)
LEMMA PendingStarts ==
  ASSUME NEW n \in Nat, NEW k \in Nat, NEW carts, AreCarts(carts, n, k),
         NEW d, \/ d.at # "desk"
                \/ d.cart \in DOMAIN carts /\ d.pairs = DOMAIN carts[d.cart] /\ d.amount = 0,
         NEW m
  PROVE  Pending(carts, d, m) = Held(carts, m)
<1>1. IsFiniteSet(DOMAIN carts) /\ Held(carts, m) \in Nat
  BY HeldFacts
<1>2. ASSUME NEW key \in DOMAIN carts PROVE DueOf(carts, d, m)[key] = HeldOf(carts, m)[key]
  <2>1. IsCart(carts[key], n)
    BY DEF AreCarts
  <2>2. Unserved(carts, d, key) = DOMAIN carts[key]
    BY DEF Unserved
  <2>3. ReservedIn(carts[key], m) = SumFunctionOnSet(Amounts(carts[key], m), DOMAIN carts[key])
    BY <2>1, CartSums
  <2> QED BY <2>2, <2>3 DEF DueOf, HeldOf
<1>3. SumFunctionOnSet(DueOf(carts, d, m), DOMAIN carts) = Held(carts, m)
  BY <1>1, <1>2, SumSame DEF Held
<1>4. OnDesk(d, m) = 0
  BY DEF OnDesk
<1> QED BY <1>1, <1>3, <1>4 DEF Pending

(* With the next pair of the cart it is the same. *)
LEMMA PendingNext ==
  ASSUME NEW n \in Nat, NEW k \in Nat, NEW carts, AreCarts(carts, n, k),
         NEW d, DeskFits(d, carts), d.at = "desk", d.amount = 0,
         NEW name \in d.pairs, NEW next, next.at = "desk",
         next.cart = d.cart, next.pairs = d.pairs \ {name},
         next.merch = carts[d.cart][name].merch,
         next.amount = carts[d.cart][name].amount_in_cart,
         NEW m
  PROVE  Pending(carts, next, m) = Pending(carts, d, m)
<1> DEFINE S == DOMAIN carts
           e == d.cart
           pair == carts[e][name]
           f == DueOf(carts, d, m)
           g == DueOf(carts, next, m)
           a == Amounts(carts[e], m)
           A == d.pairs
           B == A \ {name}
<1>1. /\ e \in S /\ name \in DOMAIN carts[e] /\ IsCart(carts[e], n)
      /\ A \subseteq DOMAIN carts[e] /\ name \in A
  BY DEF DeskFits, AreCarts
<1>2. pair.amount_in_cart \in Nat
  BY <1>1 DEF IsCart
<1>3. DeskFits(next, carts)
  BY <1>1, <1>2 DEF DeskFits
<1>4. /\ IsFiniteSet(S)
      /\ \A key \in S : f[key] \in Nat /\ g[key] \in Nat
      /\ SumFunctionOnSet(f, S) \in Nat /\ SumFunctionOnSet(g, S) \in Nat
  BY <1>3, DueFacts, HeldFacts
<1>5. \A key \in S : key # e => g[key] = f[key]
  BY DEF DueOf, Unserved
<1>6. f[e] = SumFunctionOnSet(a, A) /\ g[e] = SumFunctionOnSet(a, B)
  BY <1>1 DEF DueOf, Unserved
<1>7. SumFunctionOnSet(a, A) = a[name] + SumFunctionOnSet(a, B)
  <2>1. IsFiniteSet(A) /\ \A x \in A : a[x] \in Int
    <3>1. IsFiniteSet(A)
      BY <1>1, FS_Subset DEF IsCart
    <3>2. \A x \in DOMAIN carts[e] : a[x] \in Nat
      BY <1>1, CartSums
    <3> QED BY <1>1, <3>1, <3>2
  <2> HIDE DEF A, a
  <2> QED BY <1>1, <2>1, SumRemove
<1>8. a[name] = OnDesk(next, m) /\ a[name] \in Nat
  BY <1>1, <1>2 DEF Amounts, Amount, OnDesk
<1>9. OnDesk(d, m) = 0
  BY DEF OnDesk
<1>10. SumFunctionOnSet(g, S) = SumFunctionOnSet(f, S) + (g[e] - f[e])
  <2> HIDE DEF f, g, e
  <2>1. Changed(f, g, S, e)
    BY <1>4, <1>5 DEF Changed
  <2> HIDE DEF S
  <2> QED BY <1>1, <1>4, <2>1, SumChange
<1>11. f[e] \in Nat /\ g[e] \in Nat
  BY <1>1, <1>4
<1>12. /\ Pending(carts, d, m) = SumFunctionOnSet(f, S) + OnDesk(d, m)
       /\ Pending(carts, next, m) = SumFunctionOnSet(g, S) + OnDesk(next, m)
  BY DEF Pending
<1> HIDE DEF f, g, S, e, a, A, B
<1> QED BY <1>4, <1>6, <1>7, <1>8, <1>9, <1>10, <1>11, <1>12

(* What is taken of it is no longer pending. *)
LEMMA PendingServed ==
  ASSUME NEW n \in Nat, NEW k \in Nat, NEW carts, AreCarts(carts, n, k),
         NEW d, DeskFits(d, carts), d.at = "desk",
         NEW taken \in Nat, NEW next, next.at = "desk", next.cart = d.cart,
         next.pairs = d.pairs, next.merch = d.merch, next.amount = d.amount - taken,
         NEW m
  PROVE  Pending(carts, next, m) = Pending(carts, d, m) - (IF m = d.merch THEN taken ELSE 0)
<1>1. DueOf(carts, next, m) = DueOf(carts, d, m)
  BY DEF DueOf, Unserved
<1>2. OnDesk(next, m) = OnDesk(d, m) - (IF m = d.merch THEN taken ELSE 0) /\ OnDesk(d, m) \in Nat
  BY DEF OnDesk, DeskFits
<1>3. SumFunctionOnSet(DueOf(carts, d, m), DOMAIN carts) \in Nat
  BY DueFacts
<1> QED BY <1>1, <1>2, <1>3 DEF Pending

(* At the end it is what the other carts hold. *)
LEMMA PendingEnds ==
  ASSUME NEW n \in Nat, NEW k \in Nat, NEW carts, AreCarts(carts, n, k),
         NEW d, DeskFits(d, carts), d.at = "desk", d.amount = 0, d.pairs = {}, NEW m
  PROVE  Held(Drop(carts, d.cart), m) = Pending(carts, d, m)
<1> DEFINE S == DOMAIN carts
           e == d.cart
           R == S \ {e}
           f == DueOf(carts, d, m)
           others == Drop(carts, e)
           g == HeldOf(others, m)
<1>1. IsFiniteSet(S) /\ e \in S /\ \A key \in S : f[key] \in Nat
  BY DueFacts, HeldFacts DEF DeskFits
<1>2. f[e] = 0
  BY <1>1, SumEmpty DEF DueOf, Unserved
<1>3. DOMAIN others = R /\ \A key \in R : others[key] = carts[key]
  BY DEF Drop
<1>4. ASSUME NEW key \in R PROVE g[key] = f[key]
  <2>1. IsCart(carts[key], n) /\ Unserved(carts, d, key) = DOMAIN carts[key]
    BY DEF AreCarts, Unserved
  <2>2. ReservedIn(carts[key], m) = SumFunctionOnSet(Amounts(carts[key], m), DOMAIN carts[key])
    BY <2>1, CartSums
  <2> QED BY <1>3, <2>1, <2>2 DEF DueOf, HeldOf
<1>5. OnDesk(d, m) = 0
  BY DEF OnDesk
<1>6. Held(others, m) = SumFunctionOnSet(g, R)
  BY <1>3 DEF Held
<1>7. Pending(carts, d, m) = SumFunctionOnSet(f, S) + OnDesk(d, m)
  BY DEF Pending
<1> HIDE DEF S, e, f, g
<1>8. /\ IsFiniteSet(R) /\ SumFunctionOnSet(f, S) = f[e] + SumFunctionOnSet(f, R)
      /\ \A key \in R : f[key] \in Nat
  <2>1. \A key \in S : f[key] \in Int
    BY <1>1
  <2> QED BY <1>1, <2>1, SumRemove, FS_RemoveElement
<1> HIDE DEF R
<1>9. SumFunctionOnSet(f, R) = SumFunctionOnSet(g, R) /\ SumFunctionOnSet(f, R) \in Nat
  BY <1>4, <1>8, SumSame, SumNat
<1> HIDE DEF others
<1>10. Held(others, m) = Pending(carts, d, m)
  BY <1>2, <1>5, <1>6, <1>7, <1>8, <1>9
<1> QED BY <1>10 DEF others, e

-----------------------------------------------------------------------------
(* The merchandise, each with a list of shelves that holds no more than    *)
(* the bound.                                                              *)
Merchandise == [name : Names, price : Prices, shelfs : [links : Seq(Goods), size : Nat]]
Stock(ms, m) == SumOfShelves(ms[m].shelfs.links)
AreLists(ms) == ms \in Seq(Merchandise) /\ \A m \in 1 .. Len(ms) : IsList(ms[m].shelfs)
IsShop(ms) == AreLists(ms) /\ \A m \in 1 .. Len(ms) : Stock(ms, m) <= MaxStock

(* What each holds, and what they hold together. *)
LEMMA AllStockCovers ==
  ASSUME NEW ms, AreLists(ms)
  PROVE  \A m \in 1 .. Len(ms) :
           Stock(ms, m) \in Nat
             /\ Stock(ms, m) <= SumFunction([i \in DOMAIN ms |-> SumOfShelves(ms[i].shelfs.links)])
<1> DEFINE S == 1 .. Len(ms)
           f == [i \in DOMAIN ms |-> SumOfShelves(ms[i].shelfs.links)]
<1>1. IsFiniteSet(S) /\ DOMAIN ms = S
  <2>1. Len(ms) \in Nat /\ DOMAIN ms = 1 .. Len(ms)
    BY LenProperties DEF AreLists
  <2> QED BY <2>1, FS_Interval
<1>2. \A m \in S : f[m] = Stock(ms, m) /\ Stock(ms, m) \in Nat
  <2>1. \A m \in S : ms[m].shelfs.links \in Seq(Goods)
    BY DEF AreLists, IsList
  <2> QED BY <1>1, <2>1, StockIs DEF Stock
<1>3. SumFunction(f) = SumFunctionOnSet(f, S)
  BY <1>1, Zenon DEF SumFunction
<1> HIDE DEF f
<1>4. \A m \in S : f[m] <= SumFunctionOnSet(f, S)
  <2>1. \A m \in S : f[m] \in Nat
    BY <1>2
  <2> HIDE DEF S
  <2> QED BY <1>1, <2>1, SumMember
<1> QED BY <1>2, <1>3, <1>4 DEF f

(* All the stock is a number. *)
LEMMA AllStockInt ==
  ASSUME NEW ms, AreLists(ms)
  PROVE  SumFunction([i \in DOMAIN ms |-> SumOfShelves(ms[i].shelfs.links)]) \in Int
<1> DEFINE S == 1 .. Len(ms)
           f == [i \in DOMAIN ms |-> SumOfShelves(ms[i].shelfs.links)]
<1>1. IsFiniteSet(S) /\ DOMAIN ms = S
  <2>1. Len(ms) \in Nat /\ DOMAIN ms = 1 .. Len(ms)
    BY LenProperties DEF AreLists
  <2> QED BY <2>1, FS_Interval
<1>2. \A i \in S : f[i] \in Int
  <2>1. \A i \in S : Stock(ms, i) \in Nat
    BY AllStockCovers
  <2> QED BY <1>1, <2>1 DEF Stock
<1> HIDE DEF S
<1>3. SumFunction(f) = SumFunctionOnSet(f, S)
  BY <1>1 DEF SumFunction
<1> HIDE DEF f
<1>4. SumFunctionOnSet(f, S) \in Int
  BY <1>1, <1>2, SumInt
<1> QED BY <1>3, <1>4 DEF f

(* One more of them. *)
LEMMA ShopAppended ==
  ASSUME NEW ms, IsShop(ms), NEW name \in Names, NEW price \in Prices,
         NEW c, IsList(c), SumOfShelves(c.links) <= MaxStock
  PROVE  LET new == Append(ms, make_merch(name, price, c)) IN
         /\ IsShop(new) /\ Len(new) = Len(ms) + 1 /\ Len(ms) \in Nat
         /\ \A m \in 1 .. Len(ms) : new[m] = ms[m]
         /\ new[Len(ms) + 1].shelfs = c
<1> DEFINE v == make_merch(name, price, c)
           new == Append(ms, v)
<1>1. ms \in Seq(Merchandise) /\ Len(ms) \in Nat
  BY DEF IsShop, AreLists
<1>2. v \in Merchandise /\ v.shelfs = c
  BY DEF make_merch, Merchandise, IsList
<1> HIDE DEF v
<1>3. /\ new \in Seq(Merchandise) /\ Len(new) = Len(ms) + 1
      /\ \A m \in 1 .. Len(ms) : new[m] = ms[m]
      /\ new[Len(ms) + 1] = v
  BY <1>1, <1>2
<1> HIDE DEF new
<1>4. \A m \in 1 .. Len(new) : m \in 1 .. Len(ms) \/ m = Len(ms) + 1
  BY <1>1, <1>3
<1>5. \A m \in 1 .. Len(new) : IsList(new[m].shelfs) /\ SumOfShelves(new[m].shelfs.links) <= MaxStock
  BY <1>2, <1>3, <1>4 DEF IsShop, AreLists, Stock
<1>6. IsShop(new)
  BY <1>3, <1>5 DEF IsShop, AreLists, Stock
<1> QED BY <1>1, <1>2, <1>3, <1>6 DEF new, v

(* Another list of shelves for one of them. *)
LEMMA ShopChanged ==
  ASSUME NEW ms, IsShop(ms), NEW m \in 1 .. Len(ms), NEW c, IsList(c)
  PROVE  LET new == [ms EXCEPT ![m].shelfs = c] IN
         /\ AreLists(new) /\ Len(new) = Len(ms) /\ DOMAIN new = 1 .. Len(ms)
         /\ \A i \in 1 .. Len(ms) : i # m => new[i] = ms[i]
         /\ new[m].shelfs = c
         /\ SumOfShelves(c.links) <= MaxStock => IsShop(new)
<1> DEFINE v == [ms[m] EXCEPT !.shelfs = c]
           new == [ms EXCEPT ![m].shelfs = c]
<1>1. /\ ms \in Seq(Merchandise) /\ Len(ms) \in Nat /\ DOMAIN ms = 1 .. Len(ms)
      /\ \A i \in 1 .. Len(ms) : ms[i] \in Merchandise
  <2>1. ms \in Seq(Merchandise)
    BY DEF IsShop, AreLists
  <2> QED BY <2>1, LenProperties, ElementOfSeq
<1>2. v \in Merchandise /\ v.shelfs = c
  <2>1. ms[m] \in Merchandise /\ c \in [links : Seq(Goods), size : Nat]
    BY <1>1 DEF IsList
  <2> QED BY <2>1 DEF Merchandise
<1>3. new = [ms EXCEPT ![m] = v]
  OBVIOUS
<1> HIDE DEF v, new
<1>4. /\ new \in [1 .. Len(ms) -> Merchandise] /\ new[m] = v
      /\ \A i \in 1 .. Len(ms) : i # m => new[i] = ms[i]
  BY <1>1, <1>2, <1>3
<1>5. new \in Seq(Merchandise) /\ Len(new) = Len(ms) /\ DOMAIN new = 1 .. Len(ms)
  BY <1>1, <1>4, FunctionIsSeq
<1>6. \A i \in 1 .. Len(ms) : IsList(new[i].shelfs)
  BY <1>2, <1>4 DEF IsShop, AreLists
<1>7. AreLists(new)
  BY <1>5, <1>6 DEF AreLists
<1>8. SumOfShelves(c.links) <= MaxStock
        => \A i \in 1 .. Len(ms) : SumOfShelves(new[i].shelfs.links) <= MaxStock
  BY <1>2, <1>4 DEF IsShop, Stock
<1>9. SumOfShelves(c.links) <= MaxStock => IsShop(new)
  BY <1>5, <1>7, <1>8 DEF IsShop, Stock
<1> QED BY <1>2, <1>4, <1>5, <1>7, <1>9 DEF new

(* Carts of the first merchandise are carts of more, and with more keys. *)
LEMMA CartsWiden ==
  ASSUME NEW n \in Nat, NEW k \in Nat, NEW j \in Nat, NEW i \in Nat, n <= j, k <= i,
         NEW carts, AreCarts(carts, n, k)
  PROVE  AreCarts(carts, j, i)
<1>1. 1 .. n \subseteq 1 .. j /\ 1 .. k \subseteq 1 .. i
  OBVIOUS
<1>2. ASSUME NEW key \in DOMAIN carts PROVE IsCart(carts[key], j)
  <2> DEFINE cart == carts[key]
  <2>1. IsCart(cart, n)
    BY DEF AreCarts
  <2> HIDE DEF cart
  <2>2. IsCart(cart, j)
    BY <1>1, <2>1 DEF IsCart
  <2> QED BY <2>2 DEF cart
<1> QED BY <1>1, <1>2 DEF AreCarts

(* Some of name taken out of every cart. *)
AreLess(others, carts, name, q) == others = [key \in DOMAIN carts |-> Less(carts[key], name, q)]

(* Of what is left every pair is an old one, and those of the name were    *)
(* more.                                                                   *)
OldPairs(others, carts, name, q) ==
  \A key \in DOMAIN others : \A x \in DOMAIN others[key] :
    /\ key \in DOMAIN carts /\ x \in DOMAIN carts[key]
    /\ others[key][x].merch = carts[key][x].merch
    /\ x = name => carts[key][x].amount_in_cart > q

(* Every cart loses some, and none gains. *)
LEMMA CartsLess ==
  ASSUME NEW n \in Nat, NEW k \in Nat, NEW carts, AreCarts(carts, n, k),
         NEW name, NEW q \in Nat, NEW others, AreLess(others, carts, name, q)
  PROVE  /\ AreCarts(others, n, k)
         /\ \A m : Held(others, m) <= Held(carts, m)
         /\ OldPairs(others, carts, name, q)
<1>1. ASSUME NEW key \in DOMAIN carts
      PROVE  /\ IsCart(others[key], n)
             /\ \A m : ReservedIn(others[key], m) <= ReservedIn(carts[key], m)
             /\ \A x \in DOMAIN others[key] :
                  /\ x \in DOMAIN carts[key]
                  /\ others[key][x].merch = carts[key][x].merch
                  /\ x = name => carts[key][x].amount_in_cart > q
  <2>1. IsCart(carts[key], n) /\ others[key] = Less(carts[key], name, q)
    BY DEF AreCarts, AreLess
  <2> QED BY <2>1, CartLess
<1>2. DOMAIN others = DOMAIN carts
  BY DEF AreLess
<1>3. AreCarts(others, n, k)
  BY <1>1, <1>2 DEF AreCarts
<1>4. \A m : Held(others, m) <= Held(carts, m)
  BY <1>1, <1>2, <1>3, HeldOrdered
<1>5. OldPairs(others, carts, name, q)
  BY <1>1, <1>2 DEF OldPairs
<1> QED BY <1>3, <1>4, <1>5

-----------------------------------------------------------------------------
(* The inductive invariant.  First what the variables are.                 *)
IsDesk(d, n) ==
  d \in {Menu, Dead} \cup
        [at : {"desk"}, cart : Nat, pairs : SUBSET Names,
         merch : 0 .. n, shelf : Nat, amount : Nat]

Typed ==
  /\ IsShop(merch)
  /\ all_merch \in [Names -> 0 .. Len(merch)]
  /\ created_carts \in 0 .. MaxCarts
  /\ AreCarts(all_carts, Len(merch), created_carts)
  /\ IsDesk(desk, Len(merch))
  /\ clobbered \subseteq 1 .. Len(merch) /\ lossy \subseteq 1 .. Len(merch)
  /\ book \in Seq(Int) /\ Len(book) = Len(merch)

(* Where a checkout is. *)
Serving ==
  /\ DeskFits(desk, all_carts)
  /\ AtDesk => /\ desk.merch = NULL => desk.amount = 0
               /\ \/ desk.merch = NULL \/ desk.shelf = 1
                  \/ desk.shelf \in 1 .. Len(merch[desk.merch].shelfs.links)

(* What is in the carts and not served yet, and what the desk still takes, *)
(* is on the shelves.                                                      *)
Covered ==
  desk # Dead =>
    \A m \in 1 .. Len(merch) : m \notin clobbered => Pending(all_carts, desk, m) <= Stock(merch, m)

(* The books are right, but for what the desk still takes. *)
Balanced ==
  desk # Dead =>
    \A m \in 1 .. Len(merch) : Whole(m) => num_for_shelfs(m) = book[m] + OnDesk(desk, m)

(* What the desk still takes is on the shelves ahead. *)
Left(ms, m, i) == Rest(ms[m].shelfs.links, i)
Ahead ==
  (AtDesk /\ desk.merch # NULL /\ desk.merch \notin clobbered) =>
    desk.amount <= Left(merch, desk.merch, desk.shelf)

(* As Regular, and as Whole, of any merchandise. *)
IsRegular(ms, cl, m) == m \notin cl /\ ~Hidden(ms[m].shelfs)
IsWhole(ms, cl, lo, m) == IsRegular(ms, cl, m) /\ m \notin lo

(* PairsInCatalogue cart by cart. *)
Catalogued ==
  \A key \in DOMAIN all_carts : \A name \in DOMAIN all_carts[key] :
    IsRegular(merch, clobbered, all_carts[key][name].merch)
      => all_merch[name] = all_carts[key][name].merch

StoreInv == Typed /\ Serving /\ Covered /\ Balanced /\ Ahead /\ Catalogued

(* The menu is no checkout. *)
LEMMA DeskFacts == Menu.at # "desk" /\ Dead.at # "desk" /\ Menu # Dead
BY DEF Menu, Dead

(* The types one by one. *)
LEMMA TypedFacts ==
  ASSUME Typed
  PROVE  /\ Len(merch) \in Nat /\ created_carts \in Nat /\ MaxCarts \in Nat /\ MaxStock \in Nat
         /\ \A m \in 1 .. Len(merch) :
              /\ IsList(merch[m].shelfs)
              /\ Stock(merch, m) \in Nat /\ Stock(merch, m) <= MaxStock
              /\ num_for_shelfs(m) \in Nat /\ num_for_shelfs(m) <= Stock(merch, m)
              /\ ~Hidden(merch[m].shelfs) => num_for_shelfs(m) = Stock(merch, m)
              /\ book[m] \in Int
         /\ \A key \in DOMAIN all_carts :
              /\ key \in Nat /\ IsCart(all_carts[key], Len(merch))
              /\ \A name \in DOMAIN all_carts[key] :
                   /\ name \in Names
                   /\ all_carts[key][name].merch \in 1 .. Len(merch)
                   /\ all_carts[key][name].amount_in_cart \in Nat
         /\ \A name \in Names : all_merch[name] # NULL => all_merch[name] \in 1 .. Len(merch)
<1>1. /\ Len(merch) \in Nat /\ created_carts \in Nat /\ MaxCarts \in Nat /\ MaxStock \in Nat
      /\ AreLists(merch) /\ \A m \in 1 .. Len(merch) : IsList(merch[m].shelfs)
  BY StoreAssumption DEF Typed, IsShop, AreLists
<1>2. ASSUME NEW m \in 1 .. Len(merch)
      PROVE  /\ IsList(merch[m].shelfs)
             /\ Stock(merch, m) \in Nat /\ Stock(merch, m) <= MaxStock
             /\ num_for_shelfs(m) \in Nat /\ num_for_shelfs(m) <= Stock(merch, m)
             /\ ~Hidden(merch[m].shelfs) => num_for_shelfs(m) = Stock(merch, m)
             /\ book[m] \in Int
  <2>1. IsList(merch[m].shelfs) /\ Stock(merch, m) \in Nat /\ Stock(merch, m) <= MaxStock
    BY <1>1, AllStockCovers DEF Typed, IsShop
  <2>2. /\ num_for_shelfs(m) \in Nat /\ num_for_shelfs(m) <= Stock(merch, m)
        /\ ~Hidden(merch[m].shelfs) => num_for_shelfs(m) = Stock(merch, m)
    BY <2>1, ShownFacts DEF num_for_shelfs, Stock
  <2>3. book[m] \in Int
    BY ElementOfSeq DEF Typed
  <2> QED BY <2>1, <2>2, <2>3
<1>3. ASSUME NEW key \in DOMAIN all_carts
      PROVE  /\ key \in Nat /\ IsCart(all_carts[key], Len(merch))
             /\ \A name \in DOMAIN all_carts[key] :
                  /\ name \in Names
                  /\ all_carts[key][name].merch \in 1 .. Len(merch)
                  /\ all_carts[key][name].amount_in_cart \in Nat
  <2>1. key \in Nat /\ IsCart(all_carts[key], Len(merch))
    BY <1>1 DEF Typed, AreCarts
  <2> QED BY <2>1 DEF IsCart
<1>4. \A name \in Names : all_merch[name] # NULL => all_merch[name] \in 1 .. Len(merch)
  <2>1. \A name \in Names : all_merch[name] \in 0 .. Len(merch)
    BY DEF Typed
  <2> QED BY <1>1, <2>1 DEF NULL
<1> QED BY <1>1, <1>2, <1>3, <1>4

(* At the menu. *)
LEMMA MenuFacts ==
  ASSUME Typed, Covered, Balanced, AtMenu
  PROVE  /\ \A m \in 1 .. Len(merch) :
              /\ m \notin clobbered => Held(all_carts, m) <= Stock(merch, m)
              /\ Whole(m) => num_for_shelfs(m) = book[m]
<1>1. /\ AreCarts(all_carts, Len(merch), created_carts)
      /\ Len(merch) \in Nat /\ created_carts \in Nat
  BY TypedFacts DEF Typed
<1>2. desk.at # "desk" /\ desk # Dead
  BY DeskFacts DEF AtMenu
<1>3. \A m : Pending(all_carts, desk, m) = Held(all_carts, m)
  BY <1>1, <1>2, PendingStarts
<1>4. \A m : OnDesk(desk, m) = 0
  BY <1>2 DEF OnDesk
<1>5. \A m \in 1 .. Len(merch) : book[m] + 0 = book[m]
  BY TypedFacts
<1> QED BY <1>2, <1>3, <1>4, <1>5 DEF Covered, Balanced

(* It is enough to look at these for a step that ends at the menu. *)
LEMMA MenuStep ==
  ASSUME Typed', desk' = Menu,
         Len(merch') \in Nat, created_carts' \in Nat,
         \A m \in 1 .. Len(merch') :
           m \notin clobbered' => Held(all_carts', m) <= Stock(merch', m),
         \A m \in 1 .. Len(merch') : book'[m] \in Int,
         \A m \in 1 .. Len(merch') :
           IsWhole(merch', clobbered', lossy', m) => num_for_shelfs(m)' = book'[m],
         Catalogued'
  PROVE  StoreInv'
<1>1. AreCarts(all_carts', Len(merch'), created_carts')
  BY DEF Typed
<1>2. desk'.at # "desk" /\ desk' # Dead
  BY DeskFacts
<1>3. \A m : Pending(all_carts', desk', m) = Held(all_carts', m)
  BY <1>1, <1>2, PendingStarts
<1>4. \A m : OnDesk(desk', m) = 0
  BY <1>2 DEF OnDesk
<1>5. \A m \in 1 .. Len(merch') : book'[m] + 0 = book'[m]
  OBVIOUS
<1>6. Serving'
  BY <1>2 DEF Serving, DeskFits, AtDesk
<1>7. Covered'
  BY <1>3 DEF Covered
<1>8. Balanced'
  BY <1>4, <1>5 DEF Balanced, Whole, Regular, IsWhole, IsRegular
<1>9. Ahead'
  BY <1>2 DEF Ahead, AtDesk
<1> QED BY <1>6, <1>7, <1>8, <1>9 DEF StoreInv

-----------------------------------------------------------------------------
(* Nothing is held of merchandise that is not made yet. *)
LEMMA HeldNone ==
  ASSUME NEW n \in Nat, NEW k \in Nat, NEW carts, AreCarts(carts, n, k),
         NEW m, m \notin 1 .. n
  PROVE  Held(carts, m) = 0
<1>1. ASSUME NEW key \in DOMAIN carts PROVE ReservedIn(carts[key], m) = 0
  <2> DEFINE cart == carts[key]
  <2>1. IsCart(cart, n)
    BY DEF AreCarts
  <2> HIDE DEF cart
  <2>2. \A name \in DOMAIN cart : Amounts(cart, m)[name] = 0
    BY <2>1 DEF IsCart, Amounts, Amount
  <2>3. IsFiniteSet(DOMAIN cart)
    BY <2>1 DEF IsCart
  <2>4. ReservedIn(cart, m) = 0
    BY <2>1, <2>2, <2>3, CartSums, SumZero
  <2> QED BY <2>4 DEF cart
<1>2. \A key \in DOMAIN carts : HeldOf(carts, m)[key] = 0
  BY <1>1 DEF HeldOf
<1>3. IsFiniteSet(DOMAIN carts)
  BY HeldFacts
<1> QED BY <1>2, <1>3, SumZero DEF Held

(* When name is removed, no cart keeps a regular pair of that name: what   *)
(* is held of it is no more than its list shows.                           *)
LEMMA RemovedFromCarts ==
  ASSUME StoreInv, AtMenu, NEW name \in Names, all_merch[name] # NULL
  PROVE  LET carts == remove_merchandise_all_carts(name, num_for_shelfs(all_merch[name]))
             others == [all_merch EXCEPT ![name] = NULL]
         IN  /\ AreCarts(carts, Len(merch), created_carts)
             /\ \A m : Held(carts, m) <= Held(all_carts, m)
             /\ others \in [Names -> 0 .. Len(merch)]
             /\ \A key \in DOMAIN carts : \A x \in DOMAIN carts[key] :
                  IsRegular(merch, clobbered, carts[key][x].merch) => others[x] = carts[key][x].merch
<1> DEFINE m == all_merch[name]
           q == num_for_shelfs(m)
           carts == remove_merchandise_all_carts(name, q)
           others == [all_merch EXCEPT ![name] = NULL]
<1>1. /\ Typed /\ Covered /\ Balanced /\ Catalogued
      /\ AreCarts(all_carts, Len(merch), created_carts)
      /\ Len(merch) \in Nat /\ created_carts \in Nat
      /\ all_merch \in [Names -> 0 .. Len(merch)]
  BY TypedFacts DEF StoreInv, Typed
<1>2. m \in 1 .. Len(merch) /\ q \in Nat
  BY <1>1, TypedFacts
<1>3. AreLess(carts, all_carts, name, q)
  BY DEF remove_merchandise_all_carts, AreLess
<1>4. /\ AreCarts(carts, Len(merch), created_carts)
      /\ \A i : Held(carts, i) <= Held(all_carts, i)
      /\ OldPairs(carts, all_carts, name, q)
  <2> HIDE DEF carts, q
  <2> QED BY <1>1, <1>2, <1>3, CartsLess
<1> HIDE DEF carts
<1>5. others \in [Names -> 0 .. Len(merch)] /\ \A x \in Names : others[x] = IF x = name THEN NULL ELSE all_merch[x]
  BY <1>1 DEF NULL
<1>6. ASSUME NEW key \in DOMAIN carts, NEW x \in DOMAIN carts[key],
             IsRegular(merch, clobbered, carts[key][x].merch)
      PROVE  others[x] = carts[key][x].merch
  <2> DEFINE pair == all_carts[key][x]
  <2>1. /\ key \in DOMAIN all_carts /\ x \in DOMAIN all_carts[key]
        /\ carts[key][x].merch = pair.merch
        /\ x = name => pair.amount_in_cart > q
    BY <1>4 DEF OldPairs
  <2>2. x \in Names /\ pair.amount_in_cart \in Nat /\ all_merch[x] = pair.merch
    BY <1>1, <1>6, <2>1, TypedFacts DEF Catalogued
  <2>3. CASE x = name
    <3>1. pair.merch = m /\ m \notin clobbered /\ ~Hidden(merch[m].shelfs)
      BY <1>6, <2>1, <2>2, <2>3 DEF IsRegular
    <3>2. q = Stock(merch, m) /\ Held(all_carts, m) <= Stock(merch, m) /\ Stock(merch, m) \in Nat
      BY <1>1, <1>2, <3>1, TypedFacts, MenuFacts
    <3>3. pair.amount_in_cart <= Held(all_carts, m)
      <4>1. Menu.at # "desk" /\ DeskFits(Menu, all_carts)
        BY DeskFacts DEF DeskFits
      <4>2. Unserved(all_carts, Menu, key) = DOMAIN all_carts[key]
        BY <4>1 DEF Unserved
      <4>3. Amount(pair, m) <= Pending(all_carts, Menu, m)
        BY <1>1, <2>1, <4>1, <4>2, PendingFacts
      <4>4. Pending(all_carts, Menu, m) = Held(all_carts, m)
        BY <1>1, <4>1, PendingStarts
      <4> QED BY <3>1, <4>3, <4>4 DEF Amount
    <3>4. Held(all_carts, m) \in Nat
      BY <1>1, HeldFacts
    <3> HIDE DEF m, q, pair
    <3> QED BY <1>2, <2>1, <2>2, <2>3, <3>2, <3>3, <3>4
  <2>4. CASE x # name
    BY <1>5, <2>1, <2>2, <2>4
  <2> QED BY <2>3, <2>4
<1> QED BY <1>4, <1>5, <1>6 DEF carts

(* Merchandise is made: nothing is held of it, and its book is what its    *)
(* shelves hold, unless it is lossy.                                       *)
LEMMA MakingStep ==
  ASSUME StoreInv, AtMenu, UNCHANGED <<desk, created_carts, clobbered>>,
         NEW name \in Names, NEW price \in Prices,
         NEW c, IsList(c), ~Hidden(c), SumOfShelves(c.links) <= MaxStock,
         NEW others \in [Names -> 0 .. Len(merch)], others[name] = NULL,
         merch' = Append(merch, make_merch(name, price, c)),
         all_merch' = [others EXCEPT ![name] = Len(merch) + 1],
         NEW v \in Int, book' = Append(book, v),
         lossy' = lossy \/ lossy' = lossy \cup {Len(merch) + 1},
         Len(merch) + 1 \in lossy' \/ v = SumOfShelves(c.links),
         AreCarts(all_carts', Len(merch), created_carts),
         \A m : Held(all_carts', m) <= Held(all_carts, m),
         \A key \in DOMAIN all_carts' : \A x \in DOMAIN all_carts'[key] :
           IsRegular(merch, clobbered, all_carts'[key][x].merch) => others[x] = all_carts'[key][x].merch
  PROVE  StoreInv'
<1> DEFINE n == Len(merch)
<1>1. /\ Typed /\ Covered /\ Balanced
      /\ IsShop(merch) /\ n \in Nat /\ created_carts \in Nat
      /\ book \in Seq(Int) /\ Len(book) = n
      /\ AreCarts(all_carts, n, created_carts)
  BY TypedFacts DEF StoreInv, Typed
<1>2. /\ IsShop(merch') /\ Len(merch') = n + 1
      /\ \A m \in 1 .. n : merch'[m] = merch[m]
      /\ merch'[n + 1].shelfs = c
  BY <1>1, ShopAppended
<1>3. SumOfShelves(c.links) \in Nat /\ SumOfShelves(Shown(c)) = SumOfShelves(c.links)
  BY StockIs, ShownFacts DEF IsList
<1>4. /\ book' \in Seq(Int) /\ Len(book') = n + 1
      /\ \A m \in 1 .. n : book'[m] = book[m]
      /\ book'[n + 1] = v
  <2> HIDE DEF n
  <2>1. v \in Int
    OBVIOUS
  <2>2. book' = Append(book, v)
    OBVIOUS
  <2>3. book \in Seq(Int) /\ Len(book) = n /\ n \in Nat
    BY <1>1
  <2>4. book' \in Seq(Int) /\ Len(book') = n + 1
    BY <2>1, <2>2, <2>3
  <2>5. (\A m \in 1 .. n : book'[m] = book[m]) /\ book'[n + 1] = v
    BY <2>1, <2>2, <2>3
  <2> QED BY <2>4, <2>5
<1>5. desk' = Menu
  BY DEF AtMenu
<1>6. Typed'
  <2>1. all_merch' \in [Names -> 0 .. n + 1]
    BY <1>1
  <2>2. AreCarts(all_carts', n + 1, created_carts)
    BY <1>1, CartsWiden
  <2>3. IsDesk(desk', n + 1)
    BY <1>5 DEF IsDesk
  <2>4. clobbered \subseteq 1 .. n + 1 /\ lossy' \subseteq 1 .. n + 1
    <3>1. clobbered \subseteq 1 .. n /\ lossy \subseteq 1 .. n
      BY <1>1 DEF Typed
    <3>2. 1 .. n \subseteq 1 .. n + 1 /\ n + 1 \in 1 .. n + 1
      BY <1>1
    <3> QED BY <3>1, <3>2
  <2>5. created_carts' \in 0 .. MaxCarts
    BY <1>1 DEF Typed
  <2> HIDE DEF n
  <2> QED BY <1>2, <1>4, <2>1, <2>2, <2>3, <2>4, <2>5 DEF Typed
<1>7. \A m \in 1 .. n + 1 : m \in 1 .. n \/ (m = n + 1 /\ m \notin 1 .. n)
  BY <1>1
<1>8. ASSUME NEW m \in 1 .. n + 1, m \notin clobbered
      PROVE  Held(all_carts', m) <= Stock(merch', m)
  <2>1. /\ Held(all_carts', m) \in Nat /\ Held(all_carts', m) <= Held(all_carts, m)
        /\ Held(all_carts, m) \in Nat
    BY <1>1, HeldFacts
  <2>2. CASE m \in 1 .. n
    <3>1. Held(all_carts, m) <= Stock(merch, m) /\ Stock(merch, m) \in Nat
      BY <1>1, <1>8, <2>2, MenuFacts, TypedFacts
    <3>2. Stock(merch', m) = Stock(merch, m)
      BY <1>2, <2>2 DEF Stock
    <3> QED BY <2>1, <3>1, <3>2
  <2>3. CASE m \notin 1 .. n
    <3>1. Held(all_carts', m) = 0
      BY <1>1, <2>3, HeldNone
    <3>2. Stock(merch', m) \in Nat
      BY <1>2, <1>3, <1>7, <2>3 DEF Stock
    <3> QED BY <3>1, <3>2
  <2> QED BY <2>2, <2>3
<1>9. ASSUME NEW m \in 1 .. n + 1, IsWhole(merch', clobbered, lossy', m)
      PROVE  num_for_shelfs(m)' = book'[m]
  <2>1. CASE m \in 1 .. n
    <3>1. num_for_shelfs(m)' = num_for_shelfs(m) /\ book'[m] = book[m]
      BY <1>2, <1>4, <2>1 DEF num_for_shelfs
    <3>2. m \notin lossy
      BY <1>9 DEF IsWhole
    <3>3. Whole(m)
      BY <1>2, <1>9, <2>1, <3>2 DEF Whole, Regular, IsWhole, IsRegular
    <3> QED BY <1>1, <2>1, <3>1, <3>3, MenuFacts
  <2>2. CASE m = n + 1
    <3>1. v = SumOfShelves(c.links)
      BY <1>9, <2>2 DEF IsWhole
    <3> QED BY <1>2, <1>3, <1>4, <2>2, <3>1 DEF num_for_shelfs
  <2> QED BY <1>7, <2>1, <2>2
<1>10. Catalogued'
  <2>1. ASSUME NEW key \in DOMAIN all_carts', NEW x \in DOMAIN all_carts'[key],
               IsRegular(merch', clobbered, all_carts'[key][x].merch)
        PROVE  all_merch'[x] = all_carts'[key][x].merch
    <3> DEFINE m == all_carts'[key][x].merch
    <3>1. m \in 1 .. n /\ x \in Names
      BY <1>1 DEF AreCarts, IsCart
    <3>2. IsRegular(merch, clobbered, m)
      BY <1>2, <2>1, <3>1 DEF IsRegular
    <3>3. others[x] = m
      BY <3>2
    <3>4. x # name
      BY <1>1, <3>1, <3>3 DEF NULL
    <3> HIDE DEF m
    <3>5. all_merch'[x] = others[x]
      BY <3>1, <3>4
    <3> QED BY <3>3, <3>5 DEF m
  <2> QED BY <2>1 DEF Catalogued
<1>11. \A m \in 1 .. Len(merch') : book'[m] \in Int
  BY <1>2, <1>4, ElementOfSeq
<1>12. Len(merch') \in Nat /\ created_carts' \in Nat
  BY <1>1, <1>2
<1> QED BY <1>2, <1>5, <1>6, <1>8, <1>9, <1>10, <1>11, <1>12, MenuStep

(* Only carts and the catalogue change, and the step ends at the menu. *)
LEMMA CartStep ==
  ASSUME StoreInv, desk # Dead, \A m : OnDesk(desk, m) = 0, desk' = Menu,
         UNCHANGED <<merch, clobbered, lossy, book>>,
         all_merch' \in [Names -> 0 .. Len(merch)], created_carts' \in 0 .. MaxCarts,
         AreCarts(all_carts', Len(merch), created_carts'),
         \A m \in 1 .. Len(merch) :
           m \notin clobbered => Held(all_carts', m) <= Stock(merch, m),
         Catalogued'
  PROVE  StoreInv'
<1>1. Typed /\ Balanced /\ Len(merch) \in Nat /\ MaxCarts \in Nat
  BY TypedFacts DEF StoreInv
<1>2. IsDesk(desk', Len(merch))
  BY DEF IsDesk
<1>3. Typed'
  BY <1>1, <1>2 DEF Typed
<1>4. Len(merch') \in Nat /\ created_carts' \in Nat
  BY <1>1
<1>5. \A m \in 1 .. Len(merch) : book[m] \in Int /\ book[m] + 0 = book[m]
  BY <1>1, TypedFacts
<1>6. ASSUME NEW m \in 1 .. Len(merch'), IsWhole(merch', clobbered', lossy', m)
      PROVE  num_for_shelfs(m)' = book'[m]
  <2>1. Whole(m) /\ num_for_shelfs(m)' = num_for_shelfs(m)
    BY <1>6 DEF IsWhole, IsRegular, Whole, Regular, num_for_shelfs
  <2> QED BY <1>1, <1>5, <2>1 DEF Balanced
<1>7. \A m \in 1 .. Len(merch') : m \notin clobbered' => Held(all_carts', m) <= Stock(merch', m)
  OBVIOUS
<1>8. \A m \in 1 .. Len(merch') : book'[m] \in Int
  BY <1>5
<1> QED BY <1>3, <1>4, <1>6, <1>7, <1>8, MenuStep

(* What the steps of the menu start from. *)
LEMMA AtMenuFacts ==
  ASSUME StoreInv, AtMenu
  PROVE  /\ desk = Menu /\ desk # Dead /\ \A m : OnDesk(desk, m) = 0
         /\ Typed /\ Catalogued
         /\ Len(merch) \in Nat /\ created_carts \in Nat /\ MaxCarts \in Nat /\ MaxStock \in Nat
         /\ created_carts \in 0 .. MaxCarts
         /\ all_merch \in [Names -> 0 .. Len(merch)]
         /\ IsShop(merch) /\ AreCarts(all_carts, Len(merch), created_carts)
         /\ \A m : Held(all_carts, m) \in Nat
         /\ \A m \in 1 .. Len(merch) :
              m \notin clobbered => Held(all_carts, m) <= Stock(merch, m)
<1>1. Typed /\ Covered /\ Balanced /\ Catalogued
  BY DEF StoreInv
<1>2. desk = Menu /\ desk # Dead /\ \A m : OnDesk(desk, m) = 0
  BY DeskFacts DEF AtMenu, OnDesk
<1>3. /\ Len(merch) \in Nat /\ created_carts \in Nat /\ MaxCarts \in Nat /\ MaxStock \in Nat
      /\ IsShop(merch) /\ AreCarts(all_carts, Len(merch), created_carts)
      /\ created_carts \in 0 .. MaxCarts
      /\ all_merch \in [Names -> 0 .. Len(merch)]
  BY <1>1, TypedFacts DEF Typed
<1>4. \A m : Held(all_carts, m) \in Nat
  BY <1>3, HeldFacts
<1>5. \A m \in 1 .. Len(merch) : m \notin clobbered => Held(all_carts, m) <= Stock(merch, m)
  BY <1>1, MenuFacts
<1> QED BY <1>1, <1>2, <1>3, <1>4, <1>5

(* Merchandise is made, without a shelf. *)
LEMMA add_merchandiseStep ==
  ASSUME StoreInv, NEW name \in Names, NEW price \in Prices, add_merchandise(name, price)
  PROVE  StoreInv'
<1>1. AtMenu /\ UNCHANGED <<desk, created_carts, clobbered>> /\ all_carts' = all_carts
  BY DEF add_merchandise
<1>2. /\ AreCarts(all_carts', Len(merch), created_carts)
      /\ \A m : Held(all_carts', m) <= Held(all_carts, m)
      /\ Catalogued /\ all_merch \in [Names -> 0 .. Len(merch)]
  BY <1>1, AtMenuFacts
<1>3. \A key \in DOMAIN all_carts' : \A x \in DOMAIN all_carts'[key] :
        IsRegular(merch, clobbered, all_carts'[key][x].merch)
          => all_merch[x] = all_carts'[key][x].merch
  BY <1>1, <1>2 DEF Catalogued
<1>4. /\ IsList(Empty) /\ ~Hidden(Empty)
      /\ SumOfShelves(Empty.links) <= MaxStock /\ SumOfShelves(Empty.links) = 0
  BY <1>1, AtMenuFacts, EmptyFacts
<1>5. /\ all_merch[name] = NULL
      /\ merch' = Append(merch, make_merch(name, price, Empty))
      /\ all_merch' = [all_merch EXCEPT ![name] = Len(merch) + 1]
  BY DEF add_merchandise
<1> DEFINE stock == SumOfShelves(Empty.links)
<1>6. stock \in Int /\ book' = Append(book, stock)
  BY <1>4 DEF add_merchandise
<1>7. /\ lossy' = lossy \/ lossy' = lossy \cup {Len(merch) + 1}
      /\ Len(merch) + 1 \in lossy' \/ stock = SumOfShelves(Empty.links)
  BY DEF add_merchandise
<1> HIDE DEF stock
<1> QED BY <1>1, <1>2, <1>3, <1>4, <1>5, <1>6, <1>7, MakingStep

(* Merchandise leaves the catalogue, and the carts. *)
LEMMA remove_merchandiseStep ==
  ASSUME StoreInv, NEW name \in Names, remove_merchandise(name)
  PROVE  StoreInv'
<1> DEFINE carts == remove_merchandise_all_carts(name, num_for_shelfs(all_merch[name]))
           others == [all_merch EXCEPT ![name] = NULL]
<1>1. /\ AtMenu /\ all_merch[name] # NULL /\ all_carts' = carts /\ all_merch' = others
      /\ UNCHANGED <<merch, created_carts, desk, clobbered, lossy, book>>
  BY DEF remove_merchandise
<1>2. /\ AreCarts(carts, Len(merch), created_carts)
      /\ \A m : Held(carts, m) <= Held(all_carts, m)
      /\ others \in [Names -> 0 .. Len(merch)]
      /\ \A key \in DOMAIN carts : \A x \in DOMAIN carts[key] :
           IsRegular(merch, clobbered, carts[key][x].merch) => others[x] = carts[key][x].merch
  BY <1>1, RemovedFromCarts
<1> HIDE DEF carts, others
<1>3. Catalogued'
  BY <1>1, <1>2 DEF Catalogued
<1>4. ASSUME NEW m \in 1 .. Len(merch), m \notin clobbered
      PROVE  Held(carts, m) <= Stock(merch, m)
  <2>1. /\ Held(carts, m) <= Held(all_carts, m) /\ Held(all_carts, m) <= Stock(merch, m)
        /\ Held(all_carts, m) \in Nat
    BY <1>1, <1>2, <1>4, AtMenuFacts
  <2>2. Held(carts, m) \in Nat /\ Stock(merch, m) \in Nat
    BY <1>1, <1>2, AtMenuFacts, HeldFacts, TypedFacts
  <2> QED BY <2>1, <2>2
<1>5. desk # Dead /\ desk' = Menu /\ created_carts' \in 0 .. MaxCarts /\ \A m : OnDesk(desk, m) = 0
  BY <1>1, AtMenuFacts
<1> QED BY <1>1, <1>2, <1>3, <1>4, <1>5, CartStep

(* Merchandise is made again with copies of its shelves, or gives them to  *)
(* another, which is then clobbered.                                       *)
LEMMA edit_merchandiseStep ==
  ASSUME StoreInv, NEW name \in Names, NEW new_name \in Names, NEW price \in Prices,
         edit_merchandise(name, new_name, price)
  PROVE  StoreInv'
<1> DEFINE old == all_merch[name]
           c == copy_shelfs(merch[old].shelfs)
           carts == remove_merchandise_all_carts(name, num_for_shelfs(old))
           others == [all_merch EXCEPT ![name] = NULL]
           m == others[new_name]
           n == Len(merch)
<1>1. /\ AtMenu /\ old # NULL /\ all_carts' = carts
      /\ UNCHANGED <<created_carts, desk>>
  BY DEF edit_merchandise
<1>2. /\ AreCarts(carts, n, created_carts)
      /\ \A i : Held(carts, i) <= Held(all_carts, i)
      /\ others \in [Names -> 0 .. n]
      /\ \A key \in DOMAIN carts : \A x \in DOMAIN carts[key] :
           IsRegular(merch, clobbered, carts[key][x].merch) => others[x] = carts[key][x].merch
  BY <1>1, RemovedFromCarts
<1>3. /\ Typed /\ n \in Nat /\ created_carts \in Nat /\ created_carts \in 0 .. MaxCarts
      /\ IsShop(merch) /\ MaxStock \in Nat
  BY <1>1, AtMenuFacts
<1>4. old \in 1 .. n /\ IsList(merch[old].shelfs)
  BY <1>1, <1>3, TypedFacts
<1>5. /\ IsList(c) /\ ~Hidden(c)
      /\ SumOfShelves(c.links) = num_for_shelfs(old)
      /\ SumOfShelves(c.links) <= MaxStock
  <2>1. IsList(c) /\ ~Hidden(c) /\ SumOfShelves(c.links) = num_for_shelfs(old)
    BY <1>4, copy_shelfsFacts DEF num_for_shelfs
  <2>2. /\ num_for_shelfs(old) <= Stock(merch, old) /\ Stock(merch, old) <= MaxStock
        /\ num_for_shelfs(old) \in Nat /\ Stock(merch, old) \in Nat
    BY <1>3, <1>4, TypedFacts
  <2> QED BY <1>3, <2>1, <2>2
<1>6. \/ /\ m = NULL
         /\ merch' = Append(merch, make_merch(new_name, price, c))
         /\ all_merch' = [others EXCEPT ![new_name] = n + 1]
         /\ book' = Append(book, book[old])
         /\ lossy' = IF Whole(old) THEN lossy ELSE lossy \cup {n + 1}
         /\ UNCHANGED clobbered
      \/ /\ m # NULL
         /\ merch' = [merch EXCEPT ![m].shelfs = c]
         /\ all_merch' = others
         /\ clobbered' = clobbered \cup {m}
         /\ UNCHANGED <<lossy, book>>
  BY DEF edit_merchandise
<1> HIDE DEF c, carts, others, m, old
<1>7. CASE m = NULL
  <2>1. /\ merch' = Append(merch, make_merch(new_name, price, c))
        /\ all_merch' = [others EXCEPT ![new_name] = n + 1]
        /\ book' = Append(book, book[old])
        /\ UNCHANGED <<desk, created_carts, clobbered>>
    BY <1>1, <1>6, <1>7
  <2>2. others[new_name] = NULL
    BY <1>7 DEF m
  <2>3. /\ AreCarts(all_carts', n, created_carts)
        /\ \A i : Held(all_carts', i) <= Held(all_carts, i)
        /\ \A key \in DOMAIN all_carts' : \A x \in DOMAIN all_carts'[key] :
             IsRegular(merch, clobbered, all_carts'[key][x].merch)
               => others[x] = all_carts'[key][x].merch
    BY <1>1, <1>2
  <2>4. book[old] \in Int
    BY <1>3, <1>4, TypedFacts
  <2>5. Whole(old) => book[old] = SumOfShelves(c.links)
    BY <1>1, <1>4, <1>5, MenuFacts DEF StoreInv
  <2>6. /\ lossy' = lossy \/ lossy' = lossy \cup {n + 1}
        /\ n + 1 \in lossy' \/ book[old] = SumOfShelves(c.links)
    <3>1. lossy' = IF Whole(old) THEN lossy ELSE lossy \cup {n + 1}
      BY <1>6, <1>7
    <3>2. CASE Whole(old)
      BY <2>5, <3>1, <3>2
    <3>3. CASE ~Whole(old)
      BY <3>1, <3>3
    <3> QED BY <3>2, <3>3
  <2> QED BY <1>1, <1>2, <1>5, <2>1, <2>2, <2>3, <2>4, <2>6, MakingStep
<1>8. CASE m # NULL
  <2>1. /\ merch' = [merch EXCEPT ![m].shelfs = c]
        /\ all_merch' = others /\ clobbered' = clobbered \cup {m}
        /\ book' = book /\ lossy' = lossy
    BY <1>6, <1>8
  <2>2. m \in 1 .. n
    <3>1. m \in 0 .. n
      BY <1>2 DEF m
    <3> QED BY <1>3, <1>8, <3>1 DEF NULL
  <2>3. /\ Len(merch') = n /\ IsShop(merch')
        /\ \A i \in 1 .. n : i # m => merch'[i] = merch[i]
    BY <1>3, <1>5, <2>1, <2>2, ShopChanged
  <2>4. desk' = Menu /\ Len(merch') \in Nat /\ created_carts' \in Nat
    BY <1>1, <1>3, <2>3 DEF AtMenu
  <2>5. Typed'
    <3>1. IsDesk(desk', n)
      BY <2>4 DEF IsDesk
    <3>2. clobbered' \subseteq 1 .. n /\ lossy' \subseteq 1 .. n
      BY <1>3, <2>1, <2>2 DEF Typed
    <3>3. /\ AreCarts(all_carts', n, created_carts') /\ all_merch' \in [Names -> 0 .. n]
          /\ created_carts' \in 0 .. MaxCarts /\ book' \in Seq(Int) /\ Len(book') = n
      BY <1>1, <1>2, <1>3, <2>1 DEF Typed
    <3> QED BY <2>3, <3>1, <3>2, <3>3 DEF Typed
  <2>6. ASSUME NEW i \in 1 .. n, i \notin clobbered'
        PROVE  Held(all_carts', i) <= Stock(merch', i)
    <3>1. i \notin clobbered /\ i # m /\ Stock(merch', i) = Stock(merch, i)
      BY <2>1, <2>3, <2>6 DEF Stock
    <3>2. /\ Held(carts, i) <= Held(all_carts, i) /\ Held(all_carts, i) <= Stock(merch, i)
          /\ Held(all_carts, i) \in Nat
      BY <1>1, <1>2, <3>1, AtMenuFacts
    <3>3. Held(carts, i) \in Nat /\ Stock(merch, i) \in Nat
      BY <1>2, <1>3, HeldFacts, TypedFacts
    <3> QED BY <1>1, <3>1, <3>2, <3>3
  <2>7. ASSUME NEW i \in 1 .. n, IsRegular(merch', clobbered', i)
        PROVE  /\ IsRegular(merch, clobbered, i)
               /\ i \notin lossy' => num_for_shelfs(i)' = book'[i]
    <3>1. i # m /\ merch'[i] = merch[i] /\ i \notin clobbered
      BY <2>1, <2>3, <2>7 DEF IsRegular
    <3>2. Regular(i) /\ IsRegular(merch, clobbered, i)
      BY <2>7, <3>1 DEF IsRegular, Regular
    <3>3. i \notin lossy => num_for_shelfs(i) = book[i]
      BY <1>1, <3>2, MenuFacts DEF StoreInv, Whole
    <3> QED BY <2>1, <3>1, <3>2, <3>3 DEF num_for_shelfs
  <2>8. Catalogued'
    <3>1. \A key \in DOMAIN carts : \A x \in DOMAIN carts[key] : carts[key][x].merch \in 1 .. n
      BY <1>2 DEF AreCarts, IsCart
    <3> QED BY <1>1, <1>2, <2>1, <2>7, <3>1 DEF Catalogued
  <2>9. \A i \in 1 .. n : book'[i] \in Int
    BY <1>3, <2>1, TypedFacts
  <2>10. \A i \in 1 .. n : IsWhole(merch', clobbered', lossy', i) => num_for_shelfs(i)' = book'[i]
    BY <2>7 DEF IsWhole
  <2> QED BY <2>3, <2>4, <2>5, <2>6, <2>8, <2>9, <2>10, MenuStep
<1> QED BY <1>7, <1>8

(* The books after an entry. *)
LEMMA BookedFacts ==
  ASSUME NEW m, NEW n \in Int, book \in Seq(Int), m \in 1 .. Len(book)
  PROVE  /\ Booked(m, n) \in Seq(Int) /\ Len(Booked(m, n)) = Len(book)
         /\ \A i \in 1 .. Len(book) :
              Booked(m, n)[i] = IF i = m THEN book[m] + n ELSE book[i]
<1>1. /\ Len(book) \in Nat /\ DOMAIN book = 1 .. Len(book) /\ book[m] \in Int
      /\ book \in [1 .. Len(book) -> Int]
  BY ElementOfSeq, LenProperties
<1>2. Booked(m, n) = [book EXCEPT ![m] = book[m] + n]
  BY DEF Booked
<1>3. book[m] + n \in Int
  BY <1>1
<1>4. Booked(m, n) \in [1 .. Len(book) -> Int]
  BY <1>1, <1>2, <1>3
<1>5. Booked(m, n) \in Seq(Int) /\ Len(Booked(m, n)) = Len(book)
  BY <1>1, <1>4, FunctionIsSeq
<1> QED BY <1>1, <1>2, <1>5

(* Goods are delivered: there is no less on the shelves, and as long as    *)
(* all of it shows the books say so.                                       *)
LEMMA replenishStep ==
  ASSUME StoreInv, NEW name \in Names, NEW shelf \in Shelves, NEW n \in Deliveries,
         replenish(name, shelf, n)
  PROVE  StoreInv'
<1> DEFINE m == all_merch[name]
           c == merch[m].shelfs
           d == Replenished(c, shelf, n)
<1>1. /\ AtMenu /\ m # NULL /\ merch' = [merch EXCEPT ![m].shelfs = d]
      /\ AllStock' <= MaxStock /\ book' = Booked(m, n)
      /\ UNCHANGED <<all_merch, all_carts, created_carts, desk, clobbered, lossy>>
  BY DEF replenish
<1>2. /\ Typed /\ Catalogued /\ Len(merch) \in Nat /\ created_carts \in Nat
      /\ IsShop(merch) /\ MaxStock \in Nat
      /\ AreCarts(all_carts, Len(merch), created_carts)
  BY <1>1, AtMenuFacts
<1>3. m \in 1 .. Len(merch) /\ IsList(c) /\ n \in Nat
  BY <1>1, <1>2, TypedFacts, StoreAssumption
<1>4. Grown(d, c, n)
  BY <1>3, ReplenishedFacts
<1> HIDE DEF d, m
<1>5. /\ AreLists(merch') /\ Len(merch') = Len(merch) /\ DOMAIN merch' = 1 .. Len(merch)
      /\ \A i \in 1 .. Len(merch) : i # m => merch'[i] = merch[i]
      /\ merch'[m].shelfs = d
      /\ SumOfShelves(d.links) <= MaxStock => IsShop(merch')
  <2>1. /\ IsShop(merch) /\ m \in 1 .. Len(merch) /\ IsList(d)
        /\ merch' = [merch EXCEPT ![m].shelfs = d]
    BY <1>1, <1>2, <1>3, <1>4 DEF Grown
  <2> HIDE DEF c
  <2>2. AreLists(merch') /\ Len(merch') = Len(merch) /\ DOMAIN merch' = 1 .. Len(merch)
    BY <2>1, ShopChanged
  <2>3. (\A i \in 1 .. Len(merch) : i # m => merch'[i] = merch[i]) /\ merch'[m].shelfs = d
    BY <2>1, ShopChanged
  <2>4. SumOfShelves(d.links) <= MaxStock => IsShop(merch')
    BY <2>1, ShopChanged
  <2> QED BY <2>2, <2>3, <2>4
<1>6. IsShop(merch')
  <2>1. /\ Stock(merch', m) \in Nat
        /\ Stock(merch', m) <= SumFunction([i \in DOMAIN merch' |-> SumOfShelves(merch'[i].shelfs.links)])
    BY <1>3, <1>5, AllStockCovers
  <2>2. AllStock' = SumFunction([i \in DOMAIN merch' |-> SumOfShelves(merch'[i].shelfs.links)])
    BY DEF AllStock
  <2>3. Stock(merch', m) <= AllStock' /\ AllStock' \in Int
    <3>1. SumFunction([i \in DOMAIN merch' |-> SumOfShelves(merch'[i].shelfs.links)]) \in Int
      BY <1>5, AllStockInt
    <3> QED BY <2>1, <2>2, <3>1
  <2>4. SumOfShelves(d.links) \in Nat /\ Stock(merch', m) = SumOfShelves(d.links)
    BY <1>5, <2>1 DEF Stock
  <2>5. SumOfShelves(d.links) <= MaxStock
    BY <1>1, <1>2, <2>3, <2>4
  <2> QED BY <1>5, <2>5
<1>7. /\ Len(book) = Len(merch) /\ book \in Seq(Int) /\ book' \in Seq(Int)
      /\ Len(book') = Len(merch)
      /\ \A i \in 1 .. Len(merch) :
           book'[i] = IF i = m THEN book[m] + n ELSE book[i]
  <2>1. book \in Seq(Int) /\ Len(book) = Len(merch)
    BY <1>2 DEF Typed
  <2> QED BY <1>1, <1>3, <2>1, BookedFacts
<1>8. Typed' /\ desk' = Menu
  <2>1. desk' = Menu
    BY <1>1 DEF AtMenu
  <2>2. IsDesk(desk', Len(merch))
    BY <2>1 DEF IsDesk
  <2> QED BY <1>1, <1>2, <1>5, <1>6, <1>7, <2>1, <2>2 DEF Typed
<1>9. ASSUME NEW i \in 1 .. Len(merch), i \notin clobbered
      PROVE  Held(all_carts', i) <= Stock(merch', i)
  <2>1. /\ Held(all_carts, i) <= Stock(merch, i) /\ Held(all_carts, i) \in Nat
        /\ Stock(merch, i) \in Nat /\ Stock(merch', i) \in Nat
    BY <1>1, <1>2, <1>5, <1>9, AtMenuFacts, TypedFacts, AllStockCovers
  <2>2. Stock(merch', i) >= Stock(merch, i)
    <3>1. CASE i = m
      BY <1>4, <1>5, <3>1 DEF Grown, Stock
    <3>2. CASE i # m
      <4>1. Stock(merch', i) = Stock(merch, i)
        BY <1>5, <3>2 DEF Stock
      <4> QED BY <2>1, <4>1
    <3> QED BY <3>1, <3>2
  <2> QED BY <1>1, <2>1, <2>2
<1>10. ASSUME NEW i \in 1 .. Len(merch), IsRegular(merch', clobbered', i)
       PROVE  IsRegular(merch, clobbered, i)
  <2>1. Hidden(merch[i].shelfs) => Hidden(merch'[i].shelfs)
    BY <1>4, <1>5 DEF Grown
  <2> QED BY <1>1, <1>10, <2>1 DEF IsRegular
<1>16. ASSUME NEW i \in 1 .. Len(merch), IsRegular(merch', clobbered', i), i \notin lossy'
       PROVE  num_for_shelfs(i)' = book'[i]
  <2>1. IsRegular(merch, clobbered, i) /\ Whole(i)
    BY <1>1, <1>10, <1>16 DEF IsRegular, Regular, Whole
  <2>2. num_for_shelfs(i) = book[i] /\ num_for_shelfs(i) = Stock(merch, i)
    BY <1>1, <1>2, <2>1, MenuFacts, TypedFacts DEF StoreInv, Whole, Regular
  <2>3. num_for_shelfs(i)' = Stock(merch', i)
    <3>1. IsList(merch'[i].shelfs) /\ ~Hidden(merch'[i].shelfs)
      BY <1>5, <1>16 DEF AreLists, IsRegular
    <3> QED BY <3>1, ShownFacts DEF num_for_shelfs, Stock
  <2>4. CASE i = m
    <3>1. Stock(merch', i) = Stock(merch, i) + n
      BY <1>4, <1>5, <1>16, <2>4 DEF Grown, Stock, IsRegular
    <3> QED BY <1>7, <2>1, <2>2, <2>3, <2>4, <3>1
  <2>5. CASE i # m
    <3>1. Stock(merch', i) = Stock(merch, i)
      BY <1>5, <2>5 DEF Stock
    <3> QED BY <1>7, <2>1, <2>2, <2>3, <2>5, <3>1
  <2> QED BY <2>4, <2>5
<1>11. Catalogued'
  <2>1. \A key \in DOMAIN all_carts : \A x \in DOMAIN all_carts[key] :
          all_carts[key][x].merch \in 1 .. Len(merch)
    BY <1>2, TypedFacts
  <2> QED BY <1>1, <1>2, <1>10, <2>1 DEF Catalogued
<1>12. \A i \in 1 .. Len(merch') : book'[i] \in Int
  BY <1>5, <1>7, ElementOfSeq
<1>13. Len(merch') \in Nat /\ created_carts' \in Nat
  BY <1>1, <1>2, <1>5
<1>14. \A i \in 1 .. Len(merch') :
         i \notin clobbered' => Held(all_carts', i) <= Stock(merch', i)
  BY <1>1, <1>5, <1>9
<1>15. \A i \in 1 .. Len(merch') :
         IsWhole(merch', clobbered', lossy', i) => num_for_shelfs(i)' = book'[i]
  BY <1>5, <1>16 DEF IsWhole
<1> QED BY <1>8, <1>11, <1>12, <1>13, <1>14, <1>15, MenuStep

(* An empty cart: it holds nothing. *)
LEMMA create_cartStep ==
  ASSUME StoreInv, create_cart
  PROVE  StoreInv'
<1> DEFINE k == created_carts + 1
           carts == With(all_carts, k, << >>)
           n == Len(merch)
<1>1. /\ AtMenu /\ created_carts < MaxCarts /\ created_carts' = k /\ all_carts' = carts
      /\ UNCHANGED <<merch, all_merch, desk, clobbered, lossy, book>>
  BY DEF create_cart
<1>2. /\ desk # Dead /\ desk' = Menu /\ \A m : OnDesk(desk, m) = 0
      /\ Catalogued /\ n \in Nat /\ created_carts \in Nat /\ MaxCarts \in Nat
      /\ all_merch \in [Names -> 0 .. n]
      /\ AreCarts(all_carts, n, created_carts)
  BY <1>1, AtMenuFacts
<1>3. k \in 0 .. MaxCarts /\ k \in Nat /\ created_carts <= k /\ k \notin DOMAIN all_carts
  <2>1. DOMAIN all_carts \subseteq 1 .. created_carts
    BY <1>2 DEF AreCarts
  <2> QED BY <1>1, <1>2, <2>1
<1>4. /\ DOMAIN carts = DOMAIN all_carts \cup {k} /\ carts[k] = << >>
      /\ \A key \in DOMAIN all_carts : key # k => carts[key] = all_carts[key]
  <2> HIDE DEF k
  <2> QED BY DEF With
<1> HIDE DEF k, carts
<1>5. IsCart(<< >>, n) /\ DOMAIN << >> = {}
  <2>1. DOMAIN << >> = {} /\ << >> \in [{} -> [merch : 1 .. n, amount_in_cart : Nat]]
    OBVIOUS
  <2> QED BY <2>1, FS_EmptySet DEF IsCart
<1>6. AreCarts(all_carts, n, k)
  BY <1>2, <1>3, CartsWiden
<1>7. AreCarts(carts, n, k)
  <2>1. DOMAIN carts \subseteq 1 .. k
    <3>1. k \in 1 .. k
      BY <1>2 DEF k
    <3> QED BY <1>4, <1>6, <3>1 DEF AreCarts
  <2>2. \A key \in DOMAIN carts : IsCart(carts[key], n)
    BY <1>4, <1>5, <1>6 DEF AreCarts
  <2> QED BY <2>1, <2>2 DEF AreCarts
<1>8. ASSUME NEW m PROVE Held(carts, m) = Held(all_carts, m)
  <2>1. ReservedIn(<< >>, m) = 0
    <3>1. ReservedIn(<< >>, m) = SumFunctionOnSet(Amounts(<< >>, m), {})
      BY <1>5, CartSums
    <3> QED BY <3>1, SumEmpty
  <2>2. k \in DOMAIN carts
    BY <1>4
  <2>3. Held(carts, m) = Held(all_carts, m) + ReservedIn(carts[k], m)
          - (IF k \in DOMAIN all_carts THEN ReservedIn(all_carts[k], m) ELSE 0)
    BY <1>2, <1>3, <1>4, <1>6, <1>7, <2>2, HeldChange
  <2>4. Held(all_carts, m) \in Nat
    BY <1>1, AtMenuFacts
  <2> QED BY <1>3, <1>4, <2>1, <2>3, <2>4
<1>9. ASSUME NEW m \in 1 .. n, m \notin clobbered PROVE Held(all_carts', m) <= Stock(merch, m)
  BY <1>1, <1>8, <1>9, AtMenuFacts
<1>10. Catalogued'
  BY <1>1, <1>2, <1>4, <1>5 DEF Catalogued
<1>11. /\ all_merch' \in [Names -> 0 .. n] /\ created_carts' \in 0 .. MaxCarts
       /\ AreCarts(all_carts', n, created_carts')
       /\ UNCHANGED <<merch, clobbered, lossy, book>>
  BY <1>1, <1>2, <1>3, <1>7
<1> QED BY <1>2, <1>9, <1>10, <1>11, CartStep

(* A pair is put into a cart: all that the carts hold fits on the shelves  *)
(* of its merchandise.                                                     *)
LEMMA add_to_cartStep ==
  ASSUME StoreInv, NEW key \in DOMAIN all_carts, NEW name \in Names, NEW q \in Quantities,
         add_to_cart(key, name, q)
  PROVE  StoreInv'
<1> DEFINE m == all_merch[name]
           cart == all_carts[key]
           new == With(cart, name, cart_pair(m, q + InCart(cart, name)))
           carts == [all_carts EXCEPT ![key] = new]
           n == Len(merch)
<1>1. /\ AtMenu /\ m # NULL /\ Available(m, key, q) /\ all_carts' = carts
      /\ UNCHANGED <<merch, all_merch, created_carts, desk, clobbered, lossy, book>>
  BY DEF add_to_cart
<1>2. /\ desk # Dead /\ desk' = Menu /\ \A i : OnDesk(desk, i) = 0
      /\ Typed /\ Catalogued /\ n \in Nat /\ created_carts \in Nat
      /\ created_carts \in 0 .. MaxCarts
      /\ all_merch \in [Names -> 0 .. n]
      /\ AreCarts(all_carts, n, created_carts)
  BY <1>1, AtMenuFacts
<1>3. m \in 1 .. n /\ q \in Nat /\ IsCart(cart, n)
  BY <1>1, <1>2, TypedFacts, StoreAssumption
<1>4. /\ IsCart(new, n)
      /\ num_of_merch_in_one_cart(new) = num_of_merch_in_one_cart(cart) + q
      /\ \A i : i # m => ReservedIn(new, i) <= ReservedIn(cart, i)
  BY <1>2, <1>3, CartWith
<1>5. /\ DOMAIN new = DOMAIN cart \cup {name} /\ new[name].merch = m
      /\ \A x \in DOMAIN cart : x # name => new[x] = cart[x]
  BY DEF With, cart_pair
<1> HIDE DEF new
<1>6. /\ DOMAIN carts = DOMAIN all_carts /\ carts[key] = new
      /\ \A e \in DOMAIN all_carts : e # key => carts[e] = all_carts[e]
  OBVIOUS
<1> HIDE DEF carts, m, cart
<1>7. AreCarts(carts, n, created_carts)
  <2>1. \A e \in DOMAIN carts : IsCart(carts[e], n)
    BY <1>2, <1>4, <1>6 DEF AreCarts
  <2> QED BY <1>2, <1>6, <2>1 DEF AreCarts
<1>8. Held(carts, m) <= num_for_shelfs(m)
  <2>1. AllHeld(carts) = AllHeld(all_carts) + num_of_merch_in_one_cart(carts[key])
          - (IF key \in DOMAIN all_carts THEN num_of_merch_in_one_cart(all_carts[key]) ELSE 0)
    <3>1. key \in DOMAIN carts /\ DOMAIN carts = DOMAIN all_carts \cup {key}
      BY <1>6
    <3>2. \A e \in DOMAIN all_carts : e # key => carts[e] = all_carts[e]
      BY <1>6
    <3> HIDE DEF n
    <3> QED BY <1>2, <1>7, <3>1, <3>2, HeldChange
  <2>2. AllHeld(all_carts) \in Nat /\ num_of_merch_in_one_cart(cart) \in Nat
    BY <1>2, <1>3, HeldFacts, CartSums
  <2>3. AllHeld(carts) = AllHeld(all_carts) + q
    BY <1>3, <1>4, <1>6, <2>1, <2>2 DEF cart
  <2>4. q + AllHeld(all_carts) <= num_for_shelfs(m)
    BY <1>1, HeldIs DEF Available
  <2>5. Held(carts, m) <= AllHeld(carts) /\ Held(carts, m) \in Nat /\ AllHeld(carts) \in Nat
    BY <1>2, <1>7, HeldFacts
  <2>6. num_for_shelfs(m) \in Nat
    BY <1>2, <1>3, TypedFacts
  <2> QED BY <1>3, <2>2, <2>3, <2>4, <2>5, <2>6
<1>9. ASSUME NEW i \in 1 .. n, i \notin clobbered PROVE Held(all_carts', i) <= Stock(merch, i)
  <2>1. Held(carts, i) \in Nat /\ Stock(merch, i) \in Nat
    BY <1>2, <1>7, HeldFacts, TypedFacts
  <2>2. CASE i = m
    <3>1. num_for_shelfs(m) <= Stock(merch, m) /\ num_for_shelfs(m) \in Nat
      BY <1>2, <1>3, TypedFacts
    <3> QED BY <1>1, <1>8, <2>1, <2>2, <3>1
  <2>3. CASE i # m
    <3>1. Held(carts, i) <= Held(all_carts, i)
      <4>1. \A e \in DOMAIN carts : ReservedIn(carts[e], i) <= ReservedIn(all_carts[e], i)
        <5>1. ReservedIn(carts[key], i) <= ReservedIn(all_carts[key], i)
          BY <1>4, <1>6, <2>3 DEF cart
        <5>2. ASSUME NEW e \in DOMAIN carts, e # key
              PROVE  ReservedIn(carts[e], i) <= ReservedIn(all_carts[e], i)
          <6>1. carts[e] = all_carts[e] /\ ReservedIn(all_carts[e], i) \in Nat
            BY <1>2, <1>6, <5>2, TypedFacts, CartSums
          <6> QED BY <6>1
        <5> QED BY <5>1, <5>2
      <4> QED BY <1>2, <1>6, <1>7, <4>1, HeldOrdered
    <3>2. Held(all_carts, i) <= Stock(merch, i) /\ Held(all_carts, i) \in Nat
      BY <1>1, <1>9, AtMenuFacts
    <3> QED BY <1>1, <2>1, <3>1, <3>2
  <2> QED BY <2>2, <2>3
<1>10. Catalogued'
  <2>1. ASSUME NEW e \in DOMAIN carts, NEW x \in DOMAIN carts[e],
               IsRegular(merch, clobbered, carts[e][x].merch)
        PROVE  all_merch[x] = carts[e][x].merch
    <3>1. CASE e = key /\ x = name
      BY <1>5, <1>6, <3>1 DEF m
    <3>2. CASE ~(e = key /\ x = name)
      <4>1. e \in DOMAIN all_carts /\ x \in DOMAIN all_carts[e] /\ carts[e][x] = all_carts[e][x]
        BY <1>5, <1>6, <3>2 DEF cart
      <4> QED BY <1>2, <2>1, <4>1 DEF Catalogued
    <3> QED BY <3>1, <3>2
  <2> QED BY <1>1, <2>1 DEF Catalogued
<1>11. /\ all_merch' \in [Names -> 0 .. n] /\ created_carts' \in 0 .. MaxCarts
       /\ AreCarts(all_carts', n, created_carts')
       /\ UNCHANGED <<merch, clobbered, lossy, book>>
  BY <1>1, <1>2, <1>7
<1> QED BY <1>2, <1>9, <1>10, <1>11, CartStep

(* Some is taken out of a cart. *)
LEMMA remove_from_cartStep ==
  ASSUME StoreInv, NEW key \in DOMAIN all_carts, NEW name \in Names, NEW q \in Quantities,
         remove_from_cart(key, name, q)
  PROVE  StoreInv'
<1> DEFINE cart == all_carts[key]
           new == Less(cart, name, q)
           carts == [all_carts EXCEPT ![key] = new]
           n == Len(merch)
<1>1. /\ AtMenu /\ all_carts' = carts
      /\ UNCHANGED <<merch, all_merch, created_carts, desk, clobbered, lossy, book>>
  BY DEF remove_from_cart
<1>2. /\ desk # Dead /\ desk' = Menu /\ \A i : OnDesk(desk, i) = 0
      /\ Typed /\ Catalogued /\ n \in Nat /\ created_carts \in Nat
      /\ created_carts \in 0 .. MaxCarts
      /\ all_merch \in [Names -> 0 .. n]
      /\ AreCarts(all_carts, n, created_carts)
  BY <1>1, AtMenuFacts
<1>3. q \in Nat /\ IsCart(cart, n)
  BY <1>1, <1>2, TypedFacts, StoreAssumption
<1>4. /\ IsCart(new, n)
      /\ \A i : ReservedIn(new, i) <= ReservedIn(cart, i)
      /\ DOMAIN new \subseteq DOMAIN cart
      /\ \A x \in DOMAIN new : new[x].merch = cart[x].merch
  BY <1>2, <1>3, CartLess
<1> HIDE DEF new
<1>5. /\ DOMAIN carts = DOMAIN all_carts /\ carts[key] = new
      /\ \A e \in DOMAIN all_carts : e # key => carts[e] = all_carts[e]
  OBVIOUS
<1> HIDE DEF carts, cart
<1>6. AreCarts(carts, n, created_carts)
  <2>1. \A e \in DOMAIN carts : IsCart(carts[e], n)
    BY <1>2, <1>4, <1>5 DEF AreCarts
  <2> QED BY <1>2, <1>5, <2>1 DEF AreCarts
<1>7. ASSUME NEW i \in 1 .. n, i \notin clobbered PROVE Held(all_carts', i) <= Stock(merch, i)
  <2>1. Held(carts, i) \in Nat /\ Stock(merch, i) \in Nat
    BY <1>2, <1>6, HeldFacts, TypedFacts
  <2>2. \A e \in DOMAIN carts : ReservedIn(carts[e], i) <= ReservedIn(all_carts[e], i)
    <3>1. ReservedIn(carts[key], i) <= ReservedIn(all_carts[key], i)
      BY <1>4, <1>5 DEF cart
    <3>2. ASSUME NEW e \in DOMAIN carts, e # key
          PROVE  ReservedIn(carts[e], i) <= ReservedIn(all_carts[e], i)
      <4>1. carts[e] = all_carts[e] /\ ReservedIn(all_carts[e], i) \in Nat
        BY <1>2, <1>5, <3>2, TypedFacts, CartSums
      <4> QED BY <4>1
    <3> QED BY <3>1, <3>2
  <2>3. Held(carts, i) <= Held(all_carts, i)
    BY <1>2, <1>5, <1>6, <2>2, HeldOrdered
  <2>4. Held(all_carts, i) <= Stock(merch, i) /\ Held(all_carts, i) \in Nat
    BY <1>1, <1>7, AtMenuFacts
  <2> QED BY <1>1, <2>1, <2>3, <2>4
<1>8. Catalogued'
  <2>1. ASSUME NEW e \in DOMAIN carts, NEW x \in DOMAIN carts[e]
        PROVE  /\ e \in DOMAIN all_carts /\ x \in DOMAIN all_carts[e]
               /\ carts[e][x].merch = all_carts[e][x].merch
    <3>1. CASE e = key
      BY <1>4, <1>5, <3>1 DEF cart
    <3>2. CASE e # key
      BY <1>5, <3>2
    <3> QED BY <3>1, <3>2
  <2> QED BY <1>1, <1>2, <2>1 DEF Catalogued
<1>9. /\ all_merch' \in [Names -> 0 .. n] /\ created_carts' \in 0 .. MaxCarts
      /\ AreCarts(all_carts', n, created_carts')
      /\ UNCHANGED <<merch, clobbered, lossy, book>>
  BY <1>1, <1>2, <1>6
<1> QED BY <1>2, <1>7, <1>8, <1>9, CartStep

(* The carts without one of them. *)
LEMMA CartsWithout ==
  ASSUME NEW n \in Nat, NEW k \in Nat, NEW carts, AreCarts(carts, n, k), NEW e
  PROVE  /\ DOMAIN Drop(carts, e) = DOMAIN carts \ {e}
         /\ \A key \in DOMAIN Drop(carts, e) : Drop(carts, e)[key] = carts[key]
         /\ AreCarts(Drop(carts, e), n, k)
         /\ \A m : Held(Drop(carts, e), m) <= Held(carts, m)
<1> DEFINE others == Drop(carts, e)
<1>1. /\ DOMAIN others = DOMAIN carts \ {e}
      /\ \A key \in DOMAIN others : others[key] = carts[key]
  BY DEF Drop
<1> HIDE DEF others
<1>2. AreCarts(others, n, k)
  <2>1. \A key \in DOMAIN others : IsCart(others[key], n)
    BY <1>1 DEF AreCarts
  <2> QED BY <1>1, <2>1 DEF AreCarts
<1>3. ASSUME NEW m PROVE Held(others, m) <= Held(carts, m)
  <2>1. ASSUME NEW key \in DOMAIN others
        PROVE  ReservedIn(others[key], m) <= ReservedIn(carts[key], m)
    <3>1. IsCart(others[key], n)
      BY <1>2 DEF AreCarts
    <3>2. others[key] = carts[key] /\ ReservedIn(others[key], m) \in Nat
      BY <1>1, <3>1, CartSums
    <3> QED BY <3>2
  <2>2. DOMAIN others \subseteq DOMAIN carts
    BY <1>1
  <2> QED BY <1>2, <2>1, <2>2, HeldOrdered
<1> QED BY <1>1, <1>2, <1>3 DEF others

(* A cart is removed. *)
LEMMA remove_cartStep ==
  ASSUME StoreInv, NEW key \in DOMAIN all_carts, remove_cart(key)
  PROVE  StoreInv'
<1> DEFINE carts == Drop(all_carts, key)
           n == Len(merch)
<1>1. /\ AtMenu /\ all_carts' = carts
      /\ UNCHANGED <<merch, all_merch, created_carts, desk, clobbered, lossy, book>>
  BY DEF remove_cart
<1>2. /\ desk # Dead /\ desk' = Menu /\ \A i : OnDesk(desk, i) = 0
      /\ Typed /\ Catalogued /\ n \in Nat /\ created_carts \in Nat
      /\ created_carts \in 0 .. MaxCarts
      /\ all_merch \in [Names -> 0 .. n]
      /\ AreCarts(all_carts, n, created_carts)
  BY <1>1, AtMenuFacts
<1>3. /\ AreCarts(carts, n, created_carts)
      /\ DOMAIN carts \subseteq DOMAIN all_carts
      /\ \A e \in DOMAIN carts : carts[e] = all_carts[e]
      /\ \A i : Held(carts, i) <= Held(all_carts, i)
  <2>1. /\ AreCarts(carts, n, created_carts)
        /\ DOMAIN carts = DOMAIN all_carts \ {key}
        /\ \A e \in DOMAIN carts : carts[e] = all_carts[e]
        /\ \A i : Held(carts, i) <= Held(all_carts, i)
    <3>1. AreCarts(all_carts, n, created_carts) /\ n \in Nat /\ created_carts \in Nat
      BY <1>2
    <3>2. AreCarts(carts, n, created_carts)
      BY <3>1, CartsWithout
    <3>3. DOMAIN carts = DOMAIN all_carts \ {key}
      BY DEF Drop
    <3>4. \A e \in DOMAIN carts : carts[e] = all_carts[e]
      BY DEF Drop
    <3>5. \A i : Held(carts, i) <= Held(all_carts, i)
      BY <3>1, CartsWithout
    <3> HIDE DEF carts
    <3> QED BY <3>2, <3>3, <3>4, <3>5
  <2> HIDE DEF n, carts
  <2> QED BY <2>1
<1> HIDE DEF carts
<1>4. ASSUME NEW i \in 1 .. n, i \notin clobbered PROVE Held(all_carts', i) <= Stock(merch, i)
  <2>1. Held(carts, i) \in Nat /\ Stock(merch, i) \in Nat
    BY <1>2, <1>3, HeldFacts, TypedFacts
  <2>2. Held(carts, i) <= Held(all_carts, i)
    BY <1>3
  <2>3. Held(all_carts, i) <= Stock(merch, i) /\ Held(all_carts, i) \in Nat
    BY <1>1, <1>4, AtMenuFacts
  <2> QED BY <1>1, <2>1, <2>2, <2>3
<1>5. Catalogued'
  BY <1>1, <1>2, <1>3 DEF Catalogued
<1>6. /\ all_merch' \in [Names -> 0 .. n] /\ created_carts' \in 0 .. MaxCarts
      /\ AreCarts(all_carts', n, created_carts')
      /\ UNCHANGED <<merch, clobbered, lossy, book>>
  BY <1>1, <1>2, <1>3
<1> QED BY <1>2, <1>4, <1>5, <1>6, CartStep

-----------------------------------------------------------------------------
(* What the steps of a checkout start from. *)
LEMMA AtDeskFacts ==
  ASSUME StoreInv, AtDesk
  PROVE  /\ desk # Dead /\ desk.at = "desk" /\ DeskFits(desk, all_carts)
         /\ desk \in [at : {"desk"}, cart : Nat, pairs : SUBSET Names,
                      merch : 0 .. Len(merch), shelf : Nat, amount : Nat]
         /\ desk.cart \in DOMAIN all_carts /\ desk.pairs \subseteq DOMAIN all_carts[desk.cart]
         /\ Typed /\ Catalogued /\ Len(merch) \in Nat /\ created_carts \in Nat
         /\ AreCarts(all_carts, Len(merch), created_carts)
         /\ \A m \in 1 .. Len(merch) :
              /\ m \notin clobbered => Pending(all_carts, desk, m) <= Stock(merch, m)
              /\ Whole(m) => num_for_shelfs(m) = book[m] + OnDesk(desk, m)
<1>1. desk # Dead /\ desk # Menu /\ desk.at = "desk"
  BY DeskFacts DEF AtDesk
<1>2. /\ Typed /\ Catalogued /\ Serving /\ Covered /\ Balanced
      /\ Len(merch) \in Nat /\ created_carts \in Nat
      /\ AreCarts(all_carts, Len(merch), created_carts)
      /\ IsDesk(desk, Len(merch))
  BY TypedFacts DEF StoreInv, Typed
<1>3. desk \in [at : {"desk"}, cart : Nat, pairs : SUBSET Names,
                merch : 0 .. Len(merch), shelf : Nat, amount : Nat]
  BY <1>1, <1>2 DEF IsDesk
<1>4. DeskFits(desk, all_carts) /\ desk.cart \in DOMAIN all_carts
      /\ desk.pairs \subseteq DOMAIN all_carts[desk.cart]
  BY <1>1, <1>2 DEF Serving, DeskFits
<1>5. \A m \in 1 .. Len(merch) :
        /\ m \notin clobbered => Pending(all_carts, desk, m) <= Stock(merch, m)
        /\ Whole(m) => num_for_shelfs(m) = book[m] + OnDesk(desk, m)
  BY <1>1, <1>2 DEF Covered, Balanced
<1> QED BY <1>1, <1>2, <1>3, <1>4, <1>5

(* The checkout of a cart begins. *)
LEMMA checkoutStep ==
  ASSUME StoreInv, NEW key \in DOMAIN all_carts, checkout(key)
  PROVE  StoreInv'
<1> DEFINE n == Len(merch)
           d == [at |-> "desk", cart |-> key, pairs |-> DOMAIN all_carts[key],
                 merch |-> NULL, shelf |-> 0, amount |-> 0]
<1>1. /\ AtMenu /\ desk' = d
      /\ UNCHANGED <<merch, all_merch, all_carts, created_carts, clobbered, lossy, book>>
  BY DEF checkout
<1>2. /\ Typed /\ Catalogued /\ n \in Nat /\ created_carts \in Nat
      /\ AreCarts(all_carts, n, created_carts) /\ Covered /\ Balanced
  BY <1>1, AtMenuFacts DEF StoreInv
<1>3. key \in Nat /\ DOMAIN all_carts[key] \in SUBSET Names
  BY <1>2, TypedFacts
<1>4. /\ d.at = "desk" /\ d.cart = key /\ d.pairs = DOMAIN all_carts[key]
      /\ d.merch = NULL /\ d.amount = 0
  OBVIOUS
<1>5. IsDesk(d, n)
  <2>1. d \in [at : {"desk"}, cart : Nat, pairs : SUBSET Names,
               merch : 0 .. n, shelf : Nat, amount : Nat]
    BY <1>2, <1>3 DEF NULL
  <2> HIDE DEF d
  <2> QED BY <2>1 DEF IsDesk
<1> HIDE DEF d
<1>6. Typed'
  BY <1>1, <1>2, <1>5 DEF Typed
<1>7. Serving'
  BY <1>1, <1>4 DEF Serving, DeskFits, AtDesk
<1>8. \A m : Pending(all_carts, d, m) = Held(all_carts, m)
  BY <1>2, <1>4, PendingStarts
<1>9. Covered'
  <2>1. \A m \in 1 .. n : m \notin clobbered => Pending(all_carts, d, m) <= Stock(merch, m)
    BY <1>1, <1>8, AtMenuFacts
  <2> QED BY <1>1, <2>1 DEF Covered
<1>10. Balanced'
  <2>1. \A m : OnDesk(d, m) = 0
    BY <1>4 DEF OnDesk
  <2>2. \A m \in 1 .. n : Whole(m) => num_for_shelfs(m) = book[m]
    BY <1>1, <1>2, MenuFacts
  <2>3. \A m \in 1 .. n : book[m] + 0 = book[m]
    BY <1>2, TypedFacts
  <2> QED BY <1>1, <2>1, <2>2, <2>3 DEF Balanced, Whole, Regular, num_for_shelfs
<1>11. Ahead'
  BY <1>1, <1>4 DEF Ahead
<1>12. Catalogued'
  BY <1>1, <1>2 DEF Catalogued
<1> QED BY <1>6, <1>7, <1>9, <1>10, <1>11, <1>12 DEF StoreInv

(* The next pair of the cart: all of it is on the shelves. *)
LEMMA decrease_stockStep ==
  ASSUME StoreInv, NEW name \in Names, decrease_stock(name)
  PROVE  StoreInv'
<1> DEFINE n == Len(merch)
           pair == all_carts[desk.cart][name]
           d == [desk EXCEPT !.pairs = @ \ {name}, !.merch = pair.merch,
                             !.shelf = 1, !.amount = pair.amount_in_cart]
<1>1. /\ AtDesk /\ desk.amount = 0 /\ name \in desk.pairs /\ desk' = d
      /\ book' = Booked(pair.merch, -pair.amount_in_cart)
      /\ UNCHANGED <<merch, all_merch, all_carts, created_carts, clobbered, lossy>>
  BY DEF decrease_stock
<1>2. /\ desk # Dead /\ desk.at = "desk" /\ DeskFits(desk, all_carts)
      /\ desk \in [at : {"desk"}, cart : Nat, pairs : SUBSET Names,
                   merch : 0 .. n, shelf : Nat, amount : Nat]
      /\ desk.cart \in DOMAIN all_carts /\ desk.pairs \subseteq DOMAIN all_carts[desk.cart]
      /\ Typed /\ Catalogued /\ n \in Nat /\ created_carts \in Nat
      /\ AreCarts(all_carts, n, created_carts)
  BY <1>1, AtDeskFacts
<1>3. pair.merch \in 1 .. n /\ pair.amount_in_cart \in Nat
  BY <1>1, <1>2, TypedFacts
<1> HIDE DEF pair
<1>4. /\ d.at = "desk" /\ d.cart = desk.cart /\ d.pairs = desk.pairs \ {name}
      /\ d.merch = pair.merch /\ d.shelf = 1 /\ d.amount = pair.amount_in_cart
      /\ d \in [at : {"desk"}, cart : Nat, pairs : SUBSET Names,
                merch : 0 .. n, shelf : Nat, amount : Nat]
  <2>1. pair.merch \in 0 .. n /\ desk.pairs \ {name} \in SUBSET Names /\ 1 \in Nat
    BY <1>2, <1>3
  <2>2. /\ d.at = "desk" /\ d.cart = desk.cart /\ d.pairs = desk.pairs \ {name}
        /\ d.merch = pair.merch /\ d.shelf = 1 /\ d.amount = pair.amount_in_cart
    BY <1>2
  <2>3. d \in [at : {"desk"}, cart : Nat, pairs : SUBSET Names,
              merch : 0 .. n, shelf : Nat, amount : Nat]
    BY <1>2, <1>3, <2>1
  <2> QED BY <2>2, <2>3
<1> HIDE DEF d
<1>5. /\ book \in Seq(Int) /\ Len(book) = n /\ book' \in Seq(Int) /\ Len(book') = n
      /\ \A m \in 1 .. n :
           book'[m] = IF m = pair.merch THEN book[m] + (-pair.amount_in_cart)
                      ELSE book[m]
  <2>1. book \in Seq(Int) /\ Len(book) = n
    BY <1>2 DEF Typed
  <2> DEFINE a == -pair.amount_in_cart
  <2>2. a \in Int
    BY <1>3
  <2> HIDE DEF a, n
  <2>3. book' = Booked(pair.merch, a)
    BY <1>1 DEF a
  <2>4. /\ book' \in Seq(Int) /\ Len(book') = n
        /\ \A m \in 1 .. n :
             book'[m] = IF m = pair.merch THEN book[m] + a ELSE book[m]
    BY <1>3, <2>1, <2>2, <2>3, BookedFacts
  <2> QED BY <2>1, <2>4 DEF a
<1>6. Typed'
  <2>1. IsDesk(d, n)
    BY <1>4 DEF IsDesk
  <2> QED BY <1>1, <1>2, <1>5, <2>1 DEF Typed
<1>7. Serving'
  <2>1. d.merch # NULL
    BY <1>2, <1>3, <1>4 DEF NULL
  <2>2. d.pairs \subseteq DOMAIN all_carts[d.cart]
    BY <1>2, <1>4
  <2> QED BY <1>1, <1>2, <1>3, <1>4, <2>1, <2>2 DEF Serving, DeskFits, AtDesk
<1>8. ASSUME NEW m PROVE Pending(all_carts, d, m) = Pending(all_carts, desk, m)
  BY <1>1, <1>2, <1>4, PendingNext DEF pair
<1>9. Covered'
  <2>1. \A m \in 1 .. n : m \notin clobbered => Pending(all_carts, d, m) <= Stock(merch, m)
    BY <1>1, <1>8, AtDeskFacts
  <2> QED BY <1>1, <2>1 DEF Covered
<1>10. Balanced'
  <2>1. ASSUME NEW m \in 1 .. n, Whole(m)
        PROVE  num_for_shelfs(m) = book'[m] + OnDesk(d, m)
    <3>1. num_for_shelfs(m) = book[m] + OnDesk(desk, m) /\ OnDesk(desk, m) = 0
      BY <1>1, <2>1, AtDeskFacts DEF OnDesk
    <3>2. book[m] \in Int
      BY <1>2, TypedFacts
    <3>3. OnDesk(d, m) = IF m = pair.merch THEN pair.amount_in_cart ELSE 0
      BY <1>4 DEF OnDesk
    <3>4. CASE m = pair.merch
      <4>1. book'[m] = book[m] + (-pair.amount_in_cart)
        BY <1>5, <3>4
      <4> QED BY <1>3, <3>1, <3>2, <3>3, <3>4, <4>1
    <3>5. CASE m # pair.merch
      <4>1. book'[m] = book[m]
        BY <1>5, <3>5
      <4> QED BY <3>1, <3>3, <3>5, <4>1
    <3> QED BY <3>4, <3>5
  <2> QED BY <1>1, <2>1 DEF Balanced, Whole, Regular, num_for_shelfs
<1>11. Ahead'
  <2>1. ASSUME pair.merch \notin clobbered
        PROVE  pair.amount_in_cart <= Left(merch, pair.merch, 1)
    <3> DEFINE m == pair.merch
    <3>1. Pending(all_carts, desk, m) <= Stock(merch, m)
      BY <1>1, <1>3, <2>1, AtDeskFacts
    <3>2. name \in Unserved(all_carts, desk, desk.cart)
      BY <1>1, <1>2 DEF Unserved
    <3>3. Amount(pair, m) <= Pending(all_carts, desk, m) /\ Pending(all_carts, desk, m) \in Nat
      BY <1>2, <3>2, PendingFacts DEF pair
    <3>4. merch[m].shelfs.links \in Seq(Goods) /\ Stock(merch, m) \in Nat
      BY <1>2, <1>3, TypedFacts DEF IsList
    <3>5. Left(merch, m, 1) = Stock(merch, m)
      BY <3>4, RestFacts DEF Left, Stock
    <3>6. Amount(pair, m) = pair.amount_in_cart
      BY DEF Amount
    <3> QED BY <1>3, <3>1, <3>3, <3>4, <3>5, <3>6
  <2> QED BY <1>1, <1>4, <2>1 DEF Ahead
<1>12. Catalogued'
  BY <1>1, <1>2 DEF Catalogued
<1> QED BY <1>6, <1>7, <1>9, <1>10, <1>11, <1>12 DEF StoreInv

(* The smaller of two. *)
LEMMA MinFacts ==
  ASSUME NEW a \in Nat, NEW b \in Nat
  PROVE  /\ Min({a, b}) \in Nat /\ Min({a, b}) <= a /\ Min({a, b}) <= b
         /\ Min({a, b}) = a \/ Min({a, b}) = b
<1>1. \E x \in {a, b} : \A y \in {a, b} : x <= y
  <2>1. a <= b \/ b <= a
    OBVIOUS
  <2> QED BY <2>1
<1>2. Min({a, b}) \in {a, b} /\ \A y \in {a, b} : Min({a, b}) <= y
  BY <1>1, Zenon DEF Min
<1> QED BY <1>2

(* A round of the loop: the shelf it stands at, and what it takes.  Unless *)
(* the shelves are those of another, there are some, and it stands at the  *)
(* last one only to take the rest.                                         *)
LEMMA ServeShelfFacts ==
  ASSUME StoreInv, ServeShelf
  PROVE  LET m == desk.merch
             c == merch[m].shelfs
             i == desk.shelf
             taken == Min({c.links[i].num_of_merch, desk.amount})
         IN  /\ AtDesk /\ desk.amount \in Nat /\ desk.amount > 0
             /\ m \in 1 .. Len(merch) /\ IsList(c)
             /\ UNCHANGED <<all_merch, all_carts, created_carts, clobbered, lossy, book>>
             /\ \/ m \in clobbered /\ desk' = Dead /\ UNCHANGED merch
                \/ /\ i \in 1 .. Len(c.links) /\ taken \in Nat
                   /\ taken <= c.links[i].num_of_merch /\ taken <= desk.amount
                   /\ taken = desk.amount \/ taken = c.links[i].num_of_merch
                   /\ merch' = [merch EXCEPT ![m].shelfs = Taken(c, i, taken)]
                   /\ desk' = [desk EXCEPT !.amount = @ - taken, !.shelf = NextShelf(c, i)]
                   /\ m \notin clobbered =>
                        /\ desk.amount <= Left(merch, m, i)
                        /\ taken = desk.amount \/ i < Len(c.links)
<1> DEFINE m == desk.merch
           c == merch[m].shelfs
           i == desk.shelf
           n == c.links[i].num_of_merch
           taken == Min({n, desk.amount})
<1>1. /\ AtDesk /\ desk.amount > 0
      /\ UNCHANGED <<all_merch, all_carts, created_carts, clobbered, lossy, book>>
      /\ \/ c.links = << >> /\ desk' = Dead /\ UNCHANGED merch
         \/ /\ c.links # << >>
            /\ merch' = [merch EXCEPT ![m].shelfs = Taken(c, i, taken)]
            /\ desk' = [desk EXCEPT !.amount = @ - taken, !.shelf = NextShelf(c, i)]
  BY DEF ServeShelf
<1>2. /\ desk \in [at : {"desk"}, cart : Nat, pairs : SUBSET Names,
                   merch : 0 .. Len(merch), shelf : Nat, amount : Nat]
      /\ Typed /\ Serving /\ Ahead /\ Len(merch) \in Nat
  BY <1>1, AtDeskFacts DEF StoreInv
<1>3. desk.amount \in Nat /\ m \in 0 .. Len(merch) /\ i \in Nat
  BY <1>2
<1>4. m # NULL /\ (i = 1 \/ i \in 1 .. Len(c.links))
  <2>1. /\ m = NULL => desk.amount = 0
        /\ m = NULL \/ i = 1 \/ i \in 1 .. Len(c.links)
    <3>1. AtDesk /\ Serving
      BY <1>1, <1>2
    <3> QED BY ONLY <3>1 DEF Serving
  <2> QED BY <1>1, <1>3, <2>1
<1>5. m \in 1 .. Len(merch)
  BY <1>2, <1>3, <1>4 DEF NULL
<1>6. IsList(c) /\ c.links \in Seq(Goods) /\ Len(c.links) \in Nat
  <2>1. IsList(c)
    BY <1>2, <1>5, TypedFacts
  <2> QED BY <2>1 DEF IsList
<1>7. m \notin clobbered => desk.amount <= Left(merch, m, i)
  <2>1. AtDesk /\ Ahead /\ m # NULL
    BY <1>1, <1>2, <1>4
  <2> QED BY <2>1 DEF Ahead
<1>8. Left(merch, m, i) = Rest(c.links, i)
  BY DEF Left
<1>9. CASE c.links = << >>
  <2>1. Left(merch, m, i) = 0
    BY <1>6, <1>8, <1>9, RestFacts
  <2>2. m \in clobbered
    BY <1>1, <1>3, <1>7, <2>1
  <2> QED BY <1>1, <1>3, <1>5, <1>6, <1>9, <2>2
<1>10. CASE c.links # << >>
  <2>1. i \in 1 .. Len(c.links)
    <3>1. Len(c.links) # 0
      BY <1>6, <1>10, EmptySeq
    <3> QED BY <1>4, <1>6, <3>1
  <2>2. n \in Nat
    BY <1>6, <2>1, GoodsAt
  <2>3. /\ taken \in Nat /\ taken <= n /\ taken <= desk.amount
        /\ taken = desk.amount \/ taken = n
    <3> HIDE DEF n
    <3> QED BY <1>3, <2>2, MinFacts
  <2>4. m \notin clobbered => (taken = desk.amount \/ i < Len(c.links))
    <3>1. /\ Left(merch, m, i) = n + Rest(c.links, i + 1)
          /\ i = Len(c.links) => Rest(c.links, i + 1) = 0
      BY <1>6, <1>8, <2>1, RestFacts
    <3>2. i = Len(c.links) => Left(merch, m, i) = n
      BY <2>2, <3>1
    <3> HIDE DEF n, taken
    <3> QED BY <1>3, <1>6, <1>7, <2>1, <2>2, <2>3, <3>2
  <2> HIDE DEF n, taken, c, m, i
  <2>5. /\ merch' = [merch EXCEPT ![m].shelfs = Taken(c, i, taken)]
        /\ desk' = [desk EXCEPT !.amount = @ - taken, !.shelf = NextShelf(c, i)]
    BY <1>1, <1>10
  <2>6. /\ AtDesk /\ desk.amount \in Nat /\ desk.amount > 0
        /\ m \in 1 .. Len(merch) /\ IsList(c)
        /\ UNCHANGED <<all_merch, all_carts, created_carts, clobbered, lossy, book>>
    BY <1>1, <1>3, <1>5, <1>6
  <2>7. /\ i \in 1 .. Len(c.links) /\ taken \in Nat
        /\ taken <= n /\ taken <= desk.amount
        /\ taken = desk.amount \/ taken = n
        /\ m \notin clobbered =>
             /\ desk.amount <= Left(merch, m, i)
             /\ taken = desk.amount \/ i < Len(c.links)
    BY <1>7, <2>1, <2>3, <2>4
  <2> QED BY <2>5, <2>6, <2>7 DEF n, taken, c, m, i
<1> QED BY <1>9, <1>10

(* A shelf is served. *)
LEMMA ServeShelfStep ==
  ASSUME StoreInv, ServeShelf
  PROVE  StoreInv'
<1> DEFINE k == Len(merch)
           m == desk.merch
           c == merch[m].shelfs
           l == c.links
           i == desk.shelf
           taken == Min({l[i].num_of_merch, desk.amount})
           d == Taken(c, i, taken)
           next == [desk EXCEPT !.amount = @ - taken, !.shelf = NextShelf(c, i)]
<1>1. /\ AtDesk /\ desk.amount \in Nat /\ desk.amount > 0
      /\ m \in 1 .. k /\ IsList(c)
      /\ UNCHANGED <<all_merch, all_carts, created_carts, clobbered, lossy, book>>
      /\ \/ m \in clobbered /\ desk' = Dead /\ UNCHANGED merch
         \/ /\ i \in 1 .. Len(l) /\ taken \in Nat
            /\ taken <= l[i].num_of_merch /\ taken <= desk.amount
            /\ taken = desk.amount \/ taken = l[i].num_of_merch
            /\ merch' = [merch EXCEPT ![m].shelfs = d]
            /\ desk' = next
            /\ m \notin clobbered =>
                 /\ desk.amount <= Left(merch, m, i)
                 /\ taken = desk.amount \/ i < Len(l)
  BY ServeShelfFacts
<1>2. /\ desk # Dead /\ desk.at = "desk" /\ DeskFits(desk, all_carts)
      /\ desk \in [at : {"desk"}, cart : Nat, pairs : SUBSET Names,
                   merch : 0 .. k, shelf : Nat, amount : Nat]
      /\ desk.cart \in DOMAIN all_carts /\ desk.pairs \subseteq DOMAIN all_carts[desk.cart]
      /\ Typed /\ Catalogued /\ k \in Nat /\ created_carts \in Nat
      /\ AreCarts(all_carts, k, created_carts)
  BY <1>1, AtDeskFacts
<1>3. CASE m \in clobbered /\ desk' = Dead /\ UNCHANGED merch
  <2>1. Dead.at # "desk" /\ IsDesk(desk', k)
    BY <1>3, DeskFacts DEF IsDesk
  <2>2. Typed'
    BY <1>1, <1>2, <1>3, <2>1 DEF Typed
  <2>3. Serving' /\ Covered' /\ Balanced' /\ Ahead'
    <3>1. Serving'
      BY <1>3, <2>1 DEF Serving, DeskFits, AtDesk
    <3>2. Covered' /\ Balanced'
      BY <1>3 DEF Covered, Balanced
    <3>3. Ahead'
      BY <1>3, <2>1 DEF Ahead, AtDesk
    <3> QED BY <3>1, <3>2, <3>3
  <2>4. Catalogued'
    <3>1. UNCHANGED <<merch, clobbered, all_carts, all_merch>>
      BY <1>1, <1>3
    <3>2. Catalogued
      BY <1>2
    <3> QED BY ONLY <3>1, <3>2 DEF Catalogued
  <2> QED BY <2>2, <2>3, <2>4 DEF StoreInv
<1>4. CASE ~(m \in clobbered /\ desk' = Dead /\ UNCHANGED merch)
  <2> HIDE DEF k, m, i, taken, d, next, l
  <2>1. /\ i \in 1 .. Len(l) /\ taken \in Nat
        /\ taken <= l[i].num_of_merch /\ taken <= desk.amount
        /\ taken = desk.amount \/ taken = l[i].num_of_merch
        /\ merch' = [merch EXCEPT ![m].shelfs = d]
        /\ desk' = next
        /\ m \notin clobbered =>
             /\ desk.amount <= Left(merch, m, i)
             /\ taken = desk.amount \/ i < Len(l)
    BY <1>1, <1>4
  <2>2. /\ l \in Seq(Goods) /\ Len(l) \in Nat /\ i \in Nat
        /\ SumOfShelves(l) \in Nat /\ Stock(merch, m) = SumOfShelves(l)
        /\ SumOfShelves(l) <= MaxStock /\ MaxStock \in Nat
    <3>1. l \in Seq(Goods) /\ Len(l) \in Nat
      BY <1>1 DEF IsList, l
    <3>2. Stock(merch, m) = SumOfShelves(l)
      BY DEF Stock, l
    <3> QED BY <1>1, <1>2, <2>1, <3>1, <3>2, TypedFacts DEF k
  <2>3. /\ IsList(d) /\ (Hidden(d) <=> Hidden(c)) /\ Len(d.links) = Len(l)
        /\ SumOfShelves(d.links) = SumOfShelves(l) - taken
        /\ \A j \in 1 .. Len(l) : Nums(d.links)[j] = IF j = i THEN Nums(l)[j] - taken ELSE Nums(l)[j]
    <3> HIDE DEF c
    <3> QED BY <1>1, <2>1, TakenFacts DEF d, l
  <2> HIDE DEF c
  <2>4. /\ Len(merch') = k /\ IsShop(merch')
        /\ \A j \in 1 .. k : j # m => merch'[j] = merch[j]
        /\ merch'[m].shelfs = d
    <3>1. IsShop(merch)
      BY <1>2 DEF Typed
    <3>2. SumOfShelves(d.links) <= MaxStock
      BY <2>1, <2>2, <2>3
    <3>3. m \in 1 .. Len(merch) /\ IsList(d) /\ merch' = [merch EXCEPT ![m].shelfs = d]
      BY <1>1, <2>1, <2>3 DEF k
    <3>4. /\ Len(merch') = Len(merch) /\ IsShop(merch')
          /\ \A j \in 1 .. Len(merch) : j # m => merch'[j] = merch[j]
          /\ merch'[m].shelfs = d
      BY <3>1, <3>2, <3>3, ShopChanged
    <3> QED BY <3>4 DEF k
  <2>5. /\ NextShelf(c, i) \in 1 .. Len(l)
        /\ i < Len(l) => NextShelf(c, i) = i + 1
    BY <2>1, <2>2 DEF NextShelf, l
  <2>6. /\ next.at = "desk" /\ next.cart = desk.cart /\ next.pairs = desk.pairs
        /\ next.merch = m /\ next.amount = desk.amount - taken /\ next.shelf = NextShelf(c, i)
        /\ next \in [at : {"desk"}, cart : Nat, pairs : SUBSET Names,
                     merch : 0 .. k, shelf : Nat, amount : Nat]
    <3>1. desk.amount - taken \in Nat /\ NextShelf(c, i) \in Nat
      BY <1>1, <2>1, <2>2, <2>5
    <3>2. /\ next.at = "desk" /\ next.cart = desk.cart /\ next.pairs = desk.pairs
          /\ next.merch = m /\ next.amount = desk.amount - taken /\ next.shelf = NextShelf(c, i)
      BY <1>2 DEF next, m
    <3>3. next \in [at : {"desk"}, cart : Nat, pairs : SUBSET Names,
                    merch : 0 .. k, shelf : Nat, amount : Nat]
      BY <1>2, <3>1 DEF next
    <3> QED BY <3>2, <3>3
  <2>7. Typed'
    <3>1. IsDesk(next, k)
      BY <2>6 DEF IsDesk
    <3> QED BY <1>1, <1>2, <2>1, <2>4, <3>1 DEF Typed, k
  <2>8. Serving'
    <3>1. next.merch # NULL
      BY <1>1, <1>2, <2>6 DEF NULL
    <3>2. DeskFits(next, all_carts)
      BY <1>2, <2>6 DEF DeskFits
    <3>3. next.shelf \in 1 .. Len(merch'[next.merch].shelfs.links)
      <4>1. merch'[next.merch].shelfs = d /\ Len(d.links) = Len(l) /\ next.shelf = NextShelf(c, i)
        BY <2>3, <2>4, <2>6
      <4> QED BY <2>5, <4>1
    <3> QED BY <1>1, <2>1, <3>1, <3>2, <3>3 DEF Serving, AtDesk
  <2>9. ASSUME NEW j
        PROVE  /\ Pending(all_carts, next, j)
                    = Pending(all_carts, desk, j) - (IF j = m THEN taken ELSE 0)
               /\ Pending(all_carts, desk, j) \in Nat
    <3>1. Pending(all_carts, desk, j) \in Nat
      BY <1>2, PendingFacts
    <3>2. /\ next.merch = desk.merch /\ next.pairs = desk.pairs /\ next.cart = desk.cart
          /\ next.at = "desk" /\ next.amount = desk.amount - taken /\ taken \in Nat
      BY <2>1, <2>6 DEF m
    <3>3. Pending(all_carts, next, j)
            = Pending(all_carts, desk, j) - (IF j = desk.merch THEN taken ELSE 0)
      BY <1>2, <3>2, PendingServed
    <3> QED BY <3>1, <3>3 DEF m
  <2>10. Stock(merch', m) = Stock(merch, m) - taken /\ Stock(merch, m) \in Nat
    BY <2>2, <2>3, <2>4 DEF Stock
  <2>11. Covered'
    <3>1. ASSUME NEW j \in 1 .. k, j \notin clobbered
          PROVE  Pending(all_carts, next, j) <= Stock(merch', j)
      <4>1. Pending(all_carts, desk, j) <= Stock(merch, j)
        BY <1>1, <3>1, AtDeskFacts DEF k
      <4>2. CASE j = m
        BY <2>1, <2>9, <2>10, <4>1, <4>2
      <4>3. CASE j # m
        <5>1. Stock(merch', j) = Stock(merch, j) /\ Stock(merch, j) \in Nat
          BY <1>2, <2>4, <4>3, TypedFacts DEF Stock, k
        <5> QED BY <2>9, <4>1, <4>3, <5>1
      <4> QED BY <4>2, <4>3
    <3> QED BY <1>1, <2>1, <2>4, <3>1 DEF Covered
  <2>12. Balanced'
    <3>1. ASSUME NEW j \in 1 .. k, IsRegular(merch', clobbered, j), j \notin lossy
          PROVE  num_for_shelfs(j)' = book[j] + OnDesk(next, j)
      <4>1. num_for_shelfs(j)' = Stock(merch', j)
        <5>1. IsList(merch'[j].shelfs) /\ ~Hidden(merch'[j].shelfs)
          BY <2>4, <3>1 DEF IsRegular, IsShop, AreLists
        <5> QED BY <5>1, ShownFacts DEF num_for_shelfs, Stock
      <4>2. Regular(j) /\ Whole(j)
        <5>1. CASE j = m
          BY <2>3, <2>4, <3>1, <5>1 DEF IsRegular, Regular, Whole, c
        <5>2. CASE j # m
          BY <2>4, <3>1, <5>2 DEF IsRegular, Regular, Whole
        <5> QED BY <5>1, <5>2
      <4>3. /\ Stock(merch, j) = book[j] + OnDesk(desk, j)
            /\ Stock(merch, j) \in Nat /\ book[j] \in Int
        BY <1>1, <1>2, <4>2, TypedFacts, AtDeskFacts DEF k, Regular
      <4>4. CASE j = m
        <5>1. OnDesk(next, j) = desk.amount - taken /\ OnDesk(desk, j) = desk.amount
          BY <1>2, <2>6, <4>4 DEF OnDesk, m
        <5> QED BY <1>1, <2>1, <2>10, <4>1, <4>3, <4>4, <5>1
      <4>5. CASE j # m
        <5>1. OnDesk(next, j) = 0 /\ OnDesk(desk, j) = 0
          BY <2>6, <4>5 DEF OnDesk, m
        <5>2. Stock(merch', j) = Stock(merch, j)
          BY <2>4, <4>5 DEF Stock
        <5> QED BY <4>1, <4>3, <5>1, <5>2
      <4> QED BY <4>4, <4>5
    <3> QED BY <1>1, <2>1, <2>4, <3>1 DEF Balanced, Whole, Regular, IsRegular
  <2>13. Ahead'
    <3>1. ASSUME m \notin clobbered
          PROVE  next.amount <= Left(merch', m, next.shelf)
      <4> DEFINE a == next.shelf
      <4>1. /\ Left(merch', m, a) = Rest(d.links, a) /\ Left(merch, m, i) = Rest(l, i)
            /\ d.links \in Seq(Goods) /\ a \in 1 .. Len(d.links) /\ a \in Nat
        <5>1. a \in 1 .. Len(l) /\ Len(d.links) = Len(l) /\ merch'[m].shelfs = d
          BY <2>3, <2>4, <2>5, <2>6
        <5>2. d.links \in Seq(Goods)
          BY <2>3 DEF IsList
        <5> HIDE DEF a
        <5>3. Left(merch', m, a) = Rest(d.links, a)
          BY <5>1 DEF Left
        <5>4. Left(merch, m, i) = Rest(l, i)
          BY DEF Left, l, c
        <5> QED BY <2>2, <5>1, <5>2, <5>3, <5>4
      <4>2. CASE taken = desk.amount
        <5>1. Rest(d.links, a) \in Nat
          <6>1. /\ Rest(d.links, a) = d.links[a].num_of_merch + Rest(d.links, a + 1)
                /\ Rest(d.links, a + 1) \in Nat
            BY <4>1, RestFacts
          <6>2. d.links[a].num_of_merch \in Nat
            BY <4>1, GoodsAt
          <6> QED BY <6>1, <6>2
        <5>2. next.amount = 0
          BY <1>1, <2>6, <4>2
        <5> QED BY <4>1, <5>1, <5>2
      <4>3. CASE taken # desk.amount
        <5>1. a = i + 1 /\ taken = l[i].num_of_merch
          BY <2>1, <2>5, <2>6, <3>1, <4>3
        <5>2. Rest(l, i) = taken + Rest(l, i + 1) /\ Rest(l, i + 1) \in Nat
          BY <2>1, <2>2, <5>1, RestFacts
        <5>3. Rest(d.links, i + 1) = Rest(l, i + 1)
          <6>1. \A j \in 1 .. Len(l) : j # i => Nums(d.links)[j] = Nums(l)[j]
            BY <2>3
          <6> QED BY <2>1, <2>2, <2>3, <6>1, RestSame
        <5>4. desk.amount <= Rest(l, i)
          BY <2>1, <3>1, <4>1
        <5> QED BY <1>1, <2>1, <2>6, <4>1, <5>1, <5>2, <5>3, <5>4
      <4> QED BY <4>2, <4>3
    <3> QED BY <1>1, <2>1, <2>6, <3>1 DEF Ahead
  <2>14. Catalogued'
    <3>1. ASSUME NEW j \in 1 .. k, IsRegular(merch', clobbered, j)
          PROVE  IsRegular(merch, clobbered, j)
      <4>1. CASE j = m
        BY <2>3, <2>4, <3>1, <4>1 DEF IsRegular, c
      <4>2. CASE j # m
        BY <2>4, <3>1, <4>2 DEF IsRegular
      <4> QED BY <4>1, <4>2
    <3>2. \A key \in DOMAIN all_carts : \A x \in DOMAIN all_carts[key] :
            all_carts[key][x].merch \in 1 .. k
      BY <1>2, TypedFacts DEF k
    <3> QED BY <1>1, <1>2, <3>1, <3>2 DEF Catalogued
  <2> QED BY <2>7, <2>8, <2>11, <2>12, <2>13, <2>14 DEF StoreInv
<1> QED BY <1>3, <1>4

(* The end of a checkout: what the other carts hold is still pending. *)
LEMMA EndCheckoutStep ==
  ASSUME StoreInv, EndCheckout
  PROVE  StoreInv'
<1> DEFINE carts == Drop(all_carts, desk.cart)
           n == Len(merch)
<1>1. /\ AtDesk /\ desk.amount = 0 /\ desk.pairs = {} /\ all_carts' = carts /\ desk' = Menu
      /\ UNCHANGED <<merch, all_merch, created_carts, clobbered, lossy, book>>
  BY DEF EndCheckout
<1>2. /\ desk # Dead /\ desk.at = "desk" /\ DeskFits(desk, all_carts)
      /\ Typed /\ Catalogued /\ n \in Nat /\ created_carts \in Nat
      /\ AreCarts(all_carts, n, created_carts)
      /\ created_carts \in 0 .. MaxCarts /\ all_merch \in [Names -> 0 .. n]
  BY <1>1, AtDeskFacts DEF Typed
<1>3. AreCarts(carts, n, created_carts)
  BY <1>2, CartsWithout
<1>4. ASSUME NEW i \in 1 .. n, i \notin clobbered PROVE Held(carts, i) <= Stock(merch, i)
  <2>1. Held(carts, i) = Pending(all_carts, desk, i)
    BY <1>1, <1>2, PendingEnds
  <2>2. Pending(all_carts, desk, i) <= Stock(merch, i)
    BY <1>1, <1>4, AtDeskFacts
  <2> QED BY <2>1, <2>2
<1>5. /\ DOMAIN carts \subseteq DOMAIN all_carts
      /\ \A e \in DOMAIN carts : carts[e] = all_carts[e]
  BY DEF Drop
<1> HIDE DEF carts
<1>6. Catalogued'
  BY <1>1, <1>2, <1>5 DEF Catalogued
<1>7. \A m : OnDesk(desk, m) = 0
  BY <1>1 DEF OnDesk
<1>8. /\ all_merch' \in [Names -> 0 .. n] /\ created_carts' \in 0 .. MaxCarts
      /\ AreCarts(all_carts', n, created_carts') /\ desk' = Menu
      /\ UNCHANGED <<merch, clobbered, lossy, book>>
  BY <1>1, <1>2, <1>3
<1>9. \A i \in 1 .. n : i \notin clobbered => Held(all_carts', i) <= Stock(merch, i)
  BY <1>1, <1>4
<1> QED BY <1>2, <1>6, <1>7, <1>8, <1>9, CartStep

-----------------------------------------------------------------------------
(* A store without merchandise and carts. *)
LEMMA StoreStarts == StoreInit => StoreInv
<1> SUFFICES ASSUME StoreInit PROVE StoreInv
  OBVIOUS
<1>1. /\ merch = << >> /\ all_merch = [name \in Names |-> NULL] /\ all_carts = << >>
      /\ created_carts = 0 /\ desk = Menu /\ clobbered = {} /\ lossy = {} /\ book = << >>
  BY DEF StoreInit
<1>2. Len(merch) = 0 /\ DOMAIN all_carts = {} /\ 1 .. 0 = {} /\ desk.at # "desk"
  BY <1>1, DeskFacts
<1>3. Typed
  <2>1. IsShop(merch)
    BY <1>1, <1>2 DEF IsShop, AreLists
  <2>2. all_merch \in [Names -> 0 .. 0]
    BY <1>1 DEF NULL
  <2>3. AreCarts(all_carts, 0, 0)
    BY <1>2 DEF AreCarts
  <2>4. IsDesk(desk, 0)
    BY <1>1 DEF IsDesk
  <2>5. created_carts \in 0 .. MaxCarts
    BY <1>1, StoreAssumption
  <2>6. book \in Seq(Int) /\ Len(book) = 0
    BY <1>1
  <2> QED BY <1>1, <1>2, <2>1, <2>2, <2>3, <2>4, <2>5, <2>6 DEF Typed
<1>4. Serving /\ Ahead
  BY <1>2 DEF Serving, DeskFits, Ahead, AtDesk
<1>5. Covered /\ Balanced
  BY <1>2 DEF Covered, Balanced
<1>6. Catalogued
  BY <1>2 DEF Catalogued
<1> QED BY <1>3, <1>4, <1>5, <1>6 DEF StoreInv

(* Every step preserves the invariant. *)
LEMMA StoreContinues == StoreInv /\ [StoreNext]_storeVars => StoreInv'
<1> SUFFICES ASSUME StoreInv, [StoreNext]_storeVars PROVE StoreInv'
  OBVIOUS
<1>1. CASE event_loop
  <2>1. CASE \E name \in Names : remove_merchandise(name)
    BY <2>1, remove_merchandiseStep
  <2>2. CASE \E name \in Names, price \in Prices : add_merchandise(name, price)
    BY <2>2, add_merchandiseStep
  <2>3. CASE \E name \in Names, price \in Prices, new_name \in Names :
               edit_merchandise(name, new_name, price)
    BY <2>3, edit_merchandiseStep
  <2>4. CASE \E name \in Names, shelf \in Shelves, n \in Deliveries : replenish(name, shelf, n)
    BY <2>4, replenishStep
  <2>5. CASE \E name \in Names, key \in DOMAIN all_carts, n \in Quantities :
               add_to_cart(key, name, n)
    BY <2>5, add_to_cartStep
  <2>6. CASE \E name \in Names, key \in DOMAIN all_carts, n \in Quantities :
               remove_from_cart(key, name, n)
    BY <2>6, remove_from_cartStep
  <2>7. CASE create_cart
    BY <2>7, create_cartStep
  <2>8. CASE \E key \in DOMAIN all_carts : remove_cart(key)
    BY <2>8, remove_cartStep
  <2>9. CASE \E key \in DOMAIN all_carts : checkout(key)
    BY <2>9, checkoutStep
  <2> QED BY <1>1, <2>1, <2>2, <2>3, <2>4, <2>5, <2>6, <2>7, <2>8, <2>9 DEF event_loop
<1>2. CASE Serve
  <2>1. CASE \E name \in Names : decrease_stock(name)
    BY <2>1, decrease_stockStep
  <2>2. CASE ServeShelf
    BY <2>2, ServeShelfStep
  <2>3. CASE EndCheckout
    BY <2>3, EndCheckoutStep
  <2> QED BY <1>2, <2>1, <2>2, <2>3 DEF Serve
<1>3. CASE UNCHANGED storeVars
  <2>1. UNCHANGED <<merch, all_merch, all_carts, created_carts, desk, clobbered, lossy, book>>
    BY <1>3 DEF storeVars
  <2>2. Typed' /\ Serving' /\ Covered'
    BY <2>1 DEF StoreInv, Typed, Serving, Covered, AtDesk
  <2>3. Balanced' /\ Ahead' /\ Catalogued'
    BY <2>1 DEF StoreInv, Balanced, Ahead, Catalogued, AtDesk, Whole, Regular, num_for_shelfs
  <2> QED BY <2>2, <2>3 DEF StoreInv
<1> QED BY <1>1, <1>2, <1>3 DEF StoreNext

(* The inductive invariant holds in every state of the store: in its       *)
(* middle, what the carts still claim, and what the checkout under way     *)
(* still takes, is on the shelves and ahead of where it stands.            *)
THEOREM StoreInvariance == StoreSpec => []StoreInv
BY StoreStarts, StoreContinues, PTL DEF StoreSpec

(* Objects refer to objects there are, stocks and amounts never fall below *)
(* zero, and no list claims more shelves than it has: decrease_stock takes *)
(* no more from a shelf than is on it (stor_functions.c:444-472).          *)
THEOREM StoreTypeCorrect == StoreSpec => []StoreTypeOK
<1>1. StoreInv => StoreTypeOK
  <2> SUFFICES ASSUME StoreInv PROVE StoreTypeOK
    OBVIOUS
  <2>1. Typed /\ IsShop(merch) /\ AreLists(merch) /\ merch \in Seq(Merchandise)
        /\ DOMAIN merch = 1 .. Len(merch) /\ Len(merch) \in Nat
    BY TypedFacts, LenProperties DEF StoreInv, Typed, IsShop, AreLists
  <2>2. ASSUME NEW m \in DOMAIN merch
        PROVE  /\ merch[m].name \in Names /\ merch[m].price \in Prices
               /\ merch[m].shelfs.size \in 0 .. Len(merch[m].shelfs.links)
               /\ merch[m].shelfs.links \in Seq([shelf_name : Shelves, num_of_merch : 0 .. MaxStock])
    <3> DEFINE c == merch[m].shelfs
    <3>1. merch[m] \in Merchandise /\ IsList(c) /\ SumOfShelves(c.links) <= MaxStock
      BY <2>1, ElementOfSeq DEF AreLists, IsShop, Stock
    <3>2. merch[m].name \in Names /\ merch[m].price \in Prices
      BY <3>1 DEF Merchandise
    <3> HIDE DEF c
    <3>3. c.links \in Seq(Goods) /\ c.size \in 0 .. Len(c.links)
      BY <3>1 DEF IsList
    <3>4. c.links \in Seq([shelf_name : Shelves, num_of_merch : 0 .. MaxStock])
      BY <3>1, <3>3, ShelvesBounded
    <3> QED BY <3>2, <3>3, <3>4 DEF c
  <2>3. all_merch \in [Names -> DOMAIN merch \cup {NULL}]
    <3>1. 0 .. Len(merch) = DOMAIN merch \cup {NULL}
      BY <2>1 DEF NULL
    <3> QED BY <2>1, <3>1 DEF Typed
  <2>4. created_carts \in 0 .. MaxCarts /\ DOMAIN all_carts \subseteq 1 .. created_carts
    BY <2>1 DEF Typed, AreCarts
  <2>5. ASSUME NEW p \in Pairs
        PROVE  /\ p[2] \in Names /\ PairAt(p).merch \in DOMAIN merch
               /\ PairAt(p).amount_in_cart \in Nat
    <3>1. PICK key \in DOMAIN all_carts : p \in {<<key, name>> : name \in DOMAIN all_carts[key]}
      BY DEF Pairs
    <3>2. PICK name \in DOMAIN all_carts[key] : p = <<key, name>>
      BY <3>1
    <3>3. p[1] = key /\ p[2] = name /\ PairAt(p) = all_carts[key][name]
      BY <3>2 DEF PairAt
    <3> QED BY <2>1, <3>3, TypedFacts
  <2>6. desk.at \in {"menu", "dead", "desk"}
    <3>1. IsDesk(desk, Len(merch))
      BY <2>1 DEF Typed
    <3> QED BY <3>1 DEF IsDesk, Menu, Dead
  <2>7. /\ clobbered \subseteq DOMAIN merch /\ lossy \subseteq DOMAIN merch
        /\ book \in Seq(Int) /\ Len(book) = Len(merch)
    BY <2>1 DEF Typed
  <2> QED BY <2>2, <2>3, <2>4, <2>5, <2>6, <2>7 DEF StoreTypeOK
<1> QED BY <1>1, StoreInvariance, PTL

(* What all carts together hold of a merchandise is on its shelves,        *)
(* however often it was replenished, removed, edited or sold, unless       *)
(* another was renamed onto it (stor_functions.c:328-373, 249-252).        *)
THEOREM StockAlwaysCovers == StoreSpec => []StockCoversCarts
<1>1. StoreInv => StockCoversCarts
  <2> SUFFICES ASSUME StoreInv, AtMenu, NEW m \in DOMAIN merch \ clobbered
               PROVE  Reserved(m) <= SumOfShelves(merch[m].shelfs.links)
    BY DEF StockCoversCarts
  <2>1. m \in 1 .. Len(merch)
    BY LenProperties DEF StoreInv, Typed, IsShop, AreLists
  <2>2. Held(all_carts, m) <= Stock(merch, m)
    BY <2>1, AtMenuFacts
  <2> QED BY <2>2, HeldIs DEF Stock
<1> QED BY <1>1, StoreInvariance, PTL

(* A cart holds merchandise of the catalogue, not some that was removed or *)
(* edited since, unless that had a hidden shelf or another's shelves       *)
(* (stor_functions.c:90-114, 157).                                         *)
THEOREM PairsAlwaysInCatalogue == StoreSpec => []PairsInCatalogue
<1>1. StoreInv => PairsInCatalogue
  <2> SUFFICES ASSUME StoreInv, NEW p \in Pairs, Regular(PairAt(p).merch)
               PROVE  all_merch[p[2]] = PairAt(p).merch
    BY DEF PairsInCatalogue
  <2>1. PICK key \in DOMAIN all_carts : p \in {<<key, name>> : name \in DOMAIN all_carts[key]}
    BY DEF Pairs
  <2>2. PICK name \in DOMAIN all_carts[key] : p = <<key, name>>
    BY <2>1
  <2>3. p[2] = name /\ PairAt(p) = all_carts[key][name]
    BY <2>2 DEF PairAt
  <2> QED BY <2>3 DEF StoreInv, Catalogued, Regular, IsRegular
<1> QED BY <1>1, StoreInvariance, PTL

(* The stock shown is what was delivered and not sold, under whatever name *)
(* it was: no checkout takes too much or too little, and no edit loses a   *)
(* shelf, as long as none was hidden by replenishing the last one and none *)
(* went over to other merchandise (stor_functions.c:118-140, 249, 444-472).*)
THEOREM BooksAlwaysBalance == StoreSpec => []BooksBalance
<1>1. StoreInv => BooksBalance
  <2> SUFFICES ASSUME StoreInv, AtMenu, NEW m \in DOMAIN merch, Whole(m)
               PROVE  num_for_shelfs(m) = book[m]
    BY DEF BooksBalance
  <2>1. m \in 1 .. Len(merch)
    BY LenProperties DEF StoreInv, Typed, IsShop, AreLists
  <2> QED BY <2>1, MenuFacts DEF StoreInv
<1> QED BY <1>1, StoreInvariance, PTL

(* As long as an amount is to be taken of merchandise that was not given   *)
(* the shelves of another, every round of decrease_stock takes the rest or *)
(* goes on to the next shelf: it neither meets NULL nor turns at the last  *)
(* one (stor_functions.c:444-472).                                         *)
THEOREM CheckoutAlwaysAdvances == StoreSpec => CheckoutAdvances
<1> DEFINE Advances ==
      (AtDesk /\ desk.amount > 0 /\ desk.merch \notin clobbered) =>
        /\ desk'.at = "desk"
        /\ desk'.amount = 0 \/ desk'.shelf = desk.shelf + 1
<1>1. StoreInv /\ StoreNext => Advances
  <2> SUFFICES ASSUME StoreInv, StoreNext, AtDesk, desk.amount > 0, desk.merch \notin clobbered
               PROVE  /\ desk'.at = "desk"
                      /\ desk'.amount = 0 \/ desk'.shelf = desk.shelf + 1
    OBVIOUS
  <2>1. ~AtMenu /\ desk.amount # 0
    BY DeskFacts, AtDeskFacts DEF AtMenu, AtDesk
  <2>2. ServeShelf
    <3>1. ~event_loop
      BY <2>1 DEF event_loop, remove_merchandise, add_merchandise, edit_merchandise, replenish,
           add_to_cart, remove_from_cart, create_cart, remove_cart, checkout
    <3> QED BY <2>1, <3>1 DEF StoreNext, Serve, decrease_stock, EndCheckout
  <2> DEFINE c == merch[desk.merch].shelfs
             i == desk.shelf
             taken == Min({c.links[i].num_of_merch, desk.amount})
  <2>3. /\ i \in 1 .. Len(c.links)
        /\ desk' = [desk EXCEPT !.amount = @ - taken, !.shelf = NextShelf(c, i)]
        /\ taken = desk.amount \/ i < Len(c.links)
    BY <2>2, ServeShelfFacts
  <2> HIDE DEF taken, c
  <2>4. desk \in [at : {"desk"}, cart : Nat, pairs : SUBSET Names,
                  merch : 0 .. Len(merch), shelf : Nat, amount : Nat]
    BY AtDeskFacts
  <2>5. desk'.at = "desk" /\ desk'.amount = desk.amount - taken /\ desk'.shelf = NextShelf(c, i)
    BY <2>3, <2>4
  <2>6. CASE taken = desk.amount
    BY <2>4, <2>5, <2>6
  <2>7. CASE i < Len(c.links)
    BY <2>5, <2>7 DEF NextShelf
  <2> QED BY <2>3, <2>5, <2>6, <2>7
<1>2. StoreInv /\ [StoreNext]_storeVars => [Advances]_storeVars
  BY <1>1
<1> QED BY <1>2, StoreInvariance, PTL DEF StoreSpec, CheckoutAdvances

(* The second of the two tests of the stock in add_to_cart. *)
SecondTest(m, key, name, q) == q + InCart(all_carts[key], name) <= num_for_shelfs(m)

(* It follows from the first: what is in the cart is part of all there is. *)
LEMMA SecondTestFollows ==
  ASSUME StoreInv, NEW key \in DOMAIN all_carts, NEW name \in Names, all_merch[name] # NULL,
         NEW q \in Quantities, Available(all_merch[name], key, q)
  PROVE  SecondTest(all_merch[name], key, name, q)
<1> DEFINE m == all_merch[name]
           cart == all_carts[key]
<1>1. /\ Typed /\ Len(merch) \in Nat /\ created_carts \in Nat
      /\ AreCarts(all_carts, Len(merch), created_carts)
      /\ m \in 1 .. Len(merch) /\ num_for_shelfs(m) \in Nat
      /\ IsCart(cart, Len(merch)) /\ q \in Nat
  BY TypedFacts, StoreAssumption DEF StoreInv, Typed
<1>2. InCart(cart, name) \in Nat /\ InCart(cart, name) <= num_of_merch_in_one_cart(cart)
  <2> DEFINE f == AllAmounts(cart)
             S == DOMAIN cart
  <2>1. /\ IsFiniteSet(S) /\ \A x \in S : f[x] \in Nat
        /\ num_of_merch_in_one_cart(cart) = SumFunctionOnSet(f, S)
        /\ num_of_merch_in_one_cart(cart) \in Nat
    BY <1>1, CartSums DEF IsCart
  <2>2. name \in S => InCart(cart, name) = f[name]
    BY DEF InCart, AllAmounts
  <2>3. name \notin S => InCart(cart, name) = 0
    BY DEF InCart
  <2> HIDE DEF f, S, cart
  <2>4. name \in S => f[name] <= SumFunctionOnSet(f, S)
    BY <2>1, SumMember
  <2> QED BY <2>1, <2>2, <2>3, <2>4
<1>3. num_of_merch_in_one_cart(cart) <= AllHeld(all_carts)
  <2> DEFINE g == AllHeldOf(all_carts)
             T == DOMAIN all_carts
  <2>1. IsFiniteSet(T) /\ \A x \in T : g[x] \in Nat
    BY <1>1, HeldFacts
  <2>2. g[key] = num_of_merch_in_one_cart(cart) /\ key \in T
    BY DEF AllHeldOf
  <2>3. AllHeld(all_carts) = SumFunctionOnSet(g, T)
    BY DEF AllHeld
  <2> HIDE DEF g, T, cart
  <2>4. g[key] <= SumFunctionOnSet(g, T)
    BY <2>1, <2>2, SumMember
  <2> QED BY <2>2, <2>3, <2>4
<1>4. q + AllHeld(all_carts) <= num_for_shelfs(m)
  BY HeldIs DEF Available
<1>5. AllHeld(all_carts) \in Nat /\ num_of_merch_in_one_cart(cart) \in Nat
  BY <1>1, HeldFacts, CartSums
<1> QED BY <1>1, <1>2, <1>3, <1>4, <1>5 DEF SecondTest

(* The second test, made when the old pair is out of the cart already,     *)
(* never fails once the first has succeeded: the pair is always put back,  *)
(* with the new amount (stor_functions.c:345-364).                         *)
THEOREM SecondTestNeverFails ==
  StoreSpec => [](\A key \in DOMAIN all_carts, name \in Names, q \in Quantities :
                    all_merch[name] # NULL /\ Available(all_merch[name], key, q)
                      => SecondTest(all_merch[name], key, name, q))
<1>1. StoreInv =>
        \A key \in DOMAIN all_carts, name \in Names, q \in Quantities :
          all_merch[name] # NULL /\ Available(all_merch[name], key, q)
            => SecondTest(all_merch[name], key, name, q)
  BY SecondTestFollows
<1> QED BY <1>1, StoreInvariance, PTL
=============================================================================

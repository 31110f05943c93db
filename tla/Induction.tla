----------------------------- MODULE Induction -----------------------------
(***************************************************************************)
(* Facts the proofs of several components need, each by induction: least   *)
(* elements, and the sums that FiniteSetsExt folds over a set.             *)
(*                                                                         *)
(* The library's induction theorems take an operator, which the backends   *)
(* cannot instantiate; here they are stated with sets and functions.       *)
(***************************************************************************)
EXTENDS Integers, FiniteSets, FiniteSetsExt, FiniteSetTheorems, WellFoundedInduction, TLAPS

\* A set of naturals that is not empty has a least element.
LEMMA Smallest ==
    ASSUME NEW T \in SUBSET Nat, T # {}
    PROVE  \E m \in T : \A k \in T : m <= k
<1> DEFINE R == {ss \in Nat \X Nat : ss[1] < ss[2]}
<1>1. IsWellFoundedOn(R, Nat)
  BY NatLessThanWellFounded DEF OpToRel
<1> HIDE DEF R
<1>2. PICK m \in T : \A k \in T : ~(<<k, m>> \in R)
  BY <1>1, WFMin
<1>3. \A k \in T : ~(k < m)
  BY <1>2 DEF R
<1>4. \A k \in T : m <= k
  BY <1>3
<1> QED BY <1>4

\* A set with 0 that is closed under successor has all the naturals.
LEMMA SetInduction ==
    ASSUME NEW S, 0 \in S, \A n \in Nat : n \in S => n + 1 \in S
    PROVE  Nat \subseteq S
<1> SUFFICES ASSUME NEW n \in Nat, n \notin S PROVE FALSE
  OBVIOUS
<1> DEFINE T == Nat \ S
<1>1. PICK m \in T : \A k \in T : m <= k
  BY Smallest
<1>2. m # 0 /\ m - 1 \in Nat
  BY <1>1
<1>3. m - 1 \in S
  BY <1>1, <1>2
<1>4. (m - 1) + 1 \in S
  BY <1>2, <1>3
<1> QED BY <1>1, <1>4

\* A set of naturals that is not empty has its Min.
LEMMA MinOf ==
    ASSUME NEW S \in SUBSET Nat, S # {}
    PROVE  Min(S) \in S /\ \A k \in S : Min(S) <= k
<1>1. \E m \in S : \A k \in S : m <= k
  BY Smallest
<1> QED BY <1>1 DEF Min

\* A set of naturals up to a bound has its Max.
LEMMA MaxOf ==
    ASSUME NEW n \in Nat, NEW S \in SUBSET (0 .. n), S # {}
    PROVE  Max(S) \in S /\ \A k \in S : k <= Max(S)
<1> DEFINE T == {k \in Nat : \E x \in S : k = n - x}
<1>1. T \in SUBSET Nat /\ T # {}
  <2>1. PICK x \in S : TRUE
    OBVIOUS
  <2>2. n - x \in T
    BY <2>1
  <2> QED BY <2>2
<1> HIDE DEF T
<1>2. PICK m \in T : \A k \in T : m <= k
  BY <1>1, Smallest
<1>3. PICK y \in S : m = n - y
  BY <1>2 DEF T
<1>4. ASSUME NEW x \in S PROVE y >= x
  <2>1. n - x \in T
    BY DEF T
  <2> QED BY <1>2, <1>3, <2>1
<1>5. \E z \in S : \A x \in S : z >= x
  BY <1>4
<1>6. Max(S) \in S /\ \A x \in S : Max(S) >= x
  BY <1>5 DEF Max
<1> QED BY <1>6

(***************************************************************************)
(* Sums.  The fold is a recursive function on the subsets of the set; there*)
(* is one, by induction over the size of the subset.                       *)
(***************************************************************************)
Pick(s) == CHOOSE x \in s : TRUE

IsSum(u, D, g) ==
    u = [s \in D |-> IF s = {} THEN 0 ELSE g[Pick(s)] + u[s \ {Pick(s)}]]

UpTo(S, k) == {s \in SUBSET S : Cardinality(s) <= k}

\* A subset that is not empty has an element, and is smaller without it.
LEMMA Smaller ==
    ASSUME NEW S, IsFiniteSet(S), NEW k \in Nat, NEW s \in UpTo(S, k + 1), s # {}
    PROVE  Pick(s) \in s /\ Pick(s) \in S /\ s \ {Pick(s)} \in UpTo(S, k)
<1>1. Pick(s) \in s
  BY DEF Pick
<1>2. s \in SUBSET S /\ Cardinality(s) <= k + 1
  BY DEF UpTo
<1>3. IsFiniteSet(s)
  BY <1>2, FS_Subset
<1>4. Cardinality(s) \in Nat /\ Cardinality(s \ {Pick(s)}) = Cardinality(s) - 1
  BY <1>1, <1>3, FS_CardinalityType, FS_RemoveElement
<1>5. Cardinality(s \ {Pick(s)}) <= k
  BY <1>2, <1>4
<1> QED BY <1>1, <1>2, <1>5 DEF UpTo

\* A set without elements is the empty one.
LEMMA UpToZero ==
    ASSUME NEW S, IsFiniteSet(S), NEW s \in UpTo(S, 0)
    PROVE  s = {}
<1>1. IsFiniteSet(s) /\ Cardinality(s) <= 0
  BY FS_Subset DEF UpTo
<1>2. Cardinality(s) \in Nat
  BY <1>1, FS_CardinalityType
<1>3. Cardinality(s) = 0
  BY <1>1, <1>2
<1> QED BY <1>1, <1>3, FS_EmptySet

\* There is a sum on the subsets of a finite set.
LEMMA SumExists ==
    ASSUME NEW S, IsFiniteSet(S), NEW g
    PROVE  \E u : IsSum(u, SUBSET S, g)
<1> DEFINE T == {k \in Nat : \E u : IsSum(u, UpTo(S, k), g)}
<1>1. 0 \in T
  <2>1. \A s \in UpTo(S, 0) : s = {}
    BY UpToZero
  <2> DEFINE u == [s \in UpTo(S, 0) |-> 0]
  <2>2. IsSum(u, UpTo(S, 0), g)
    BY <2>1 DEF IsSum
  <2> QED BY <2>2
<1>2. ASSUME NEW k \in Nat, k \in T PROVE k + 1 \in T
  <2>1. PICK u : IsSum(u, UpTo(S, k), g)
    BY <1>2
  <2> DEFINE v == [s \in UpTo(S, k + 1) |->
                      IF s = {} THEN 0 ELSE g[Pick(s)] + u[s \ {Pick(s)}]]
             w == [s \in UpTo(S, k + 1) |->
                      IF s = {} THEN 0 ELSE g[Pick(s)] + v[s \ {Pick(s)}]]
  <2>2. ASSUME NEW s \in UpTo(S, k + 1) PROVE v[s] = w[s]
    <3>1. CASE s = {}
      BY <3>1
    <3>2. CASE s # {}
      <4> DEFINE r == s \ {Pick(s)}
      <4>1. r \in UpTo(S, k)
        BY <3>2, Smaller
      <4>2. Cardinality(r) \in Nat /\ Cardinality(r) <= k /\ r \in SUBSET S
        <5>1. IsFiniteSet(r)
          BY <4>1, FS_Subset DEF UpTo
        <5> HIDE DEF r
        <5> QED BY <4>1, <5>1, FS_CardinalityType DEF UpTo
      <4>3. r \in UpTo(S, k + 1)
        <5> HIDE DEF r
        <5> QED BY <4>2 DEF UpTo
      <4>4. u[r] = IF r = {} THEN 0 ELSE g[Pick(r)] + u[r \ {Pick(r)}]
        <5> HIDE DEF r
        <5> QED BY <2>1, <4>1 DEF IsSum
      <4>5. v[r] = IF r = {} THEN 0 ELSE g[Pick(r)] + u[r \ {Pick(r)}]
        <5> HIDE DEF r
        <5> QED BY <4>3
      <4>6. v[r] = u[r]
        BY <4>4, <4>5
      <4>7. v[s] = g[Pick(s)] + u[r] /\ w[s] = g[Pick(s)] + v[r]
        BY <3>2
      <4> HIDE DEF r, v, w
      <4> QED BY <4>6, <4>7
    <3> QED BY <3>1, <3>2
  <2>3. v = w
    BY <2>2
  <2>4. IsSum(v, UpTo(S, k + 1), g)
    BY <2>3 DEF IsSum
  <2> HIDE DEF v
  <2> QED BY <2>4
<1>3. Nat \subseteq T
  <2> HIDE DEF T
  <2> QED BY <1>1, <1>2, SetInduction
<1>4. Cardinality(S) \in Nat
  BY FS_CardinalityType
<1>5. UpTo(S, Cardinality(S)) = SUBSET S
  BY FS_Subset DEF UpTo
<1>6. \E u : IsSum(u, UpTo(S, Cardinality(S)), g)
  BY <1>3, <1>4
<1> QED BY <1>5, <1>6

\* A sum of integers is one.
LEMMA SumInt ==
    ASSUME NEW S, IsFiniteSet(S), NEW g, \A x \in S : g[x] \in Int,
           NEW u, IsSum(u, SUBSET S, g)
    PROVE  \A s \in SUBSET S : u[s] \in Int
<1> DEFINE T == {k \in Nat : \A s \in UpTo(S, k) : u[s] \in Int}
<1>u. ASSUME NEW s \in SUBSET S
      PROVE  u[s] = IF s = {} THEN 0 ELSE g[Pick(s)] + u[s \ {Pick(s)}]
  BY DEF IsSum
<1>1. 0 \in T
  <2> SUFFICES ASSUME NEW s \in UpTo(S, 0) PROVE u[s] \in Int
    OBVIOUS
  <2>1. s = {} /\ s \in SUBSET S
    BY UpToZero DEF UpTo
  <2>2. u[s] = 0
    BY <2>1, <1>u
  <2> QED BY <2>2
<1>2. ASSUME NEW k \in Nat, k \in T PROVE k + 1 \in T
  <2> SUFFICES ASSUME NEW s \in UpTo(S, k + 1) PROVE u[s] \in Int
    BY <1>2
  <2>1. s \in SUBSET S
    BY DEF UpTo
  <2>2. CASE s = {}
    <3>1. u[s] = 0
      BY <2>1, <2>2, <1>u
    <3> QED BY <3>1
  <2>3. CASE s # {}
    <3>1. g[Pick(s)] \in Int /\ s \ {Pick(s)} \in UpTo(S, k)
      BY <2>3, Smaller
    <3>2. u[s \ {Pick(s)}] \in Int
      BY <1>2, <3>1
    <3>3. u[s] = g[Pick(s)] + u[s \ {Pick(s)}]
      BY <2>1, <2>3, <1>u
    <3> QED BY <3>1, <3>2, <3>3
  <2> QED BY <2>2, <2>3
<1>3. Nat \subseteq T
  <2> HIDE DEF T
  <2> QED BY <1>1, <1>2, SetInduction
<1> SUFFICES ASSUME NEW s \in SUBSET S PROVE u[s] \in Int
  OBVIOUS
<1>4. Cardinality(s) \in Nat
  BY FS_Subset, FS_CardinalityType
<1>5. s \in UpTo(S, Cardinality(s))
  BY <1>4 DEF UpTo
<1> QED BY <1>3, <1>4, <1>5

\* A sum whose terms are at most one, and at most zero outside K, is at most
\* the size of K.
LEMMA SumBound ==
    ASSUME NEW S, IsFiniteSet(S), NEW K, NEW g, NEW u, IsSum(u, SUBSET S, g),
           \A x \in S : g[x] \in Int /\ g[x] <= 1 /\ (x \notin K => g[x] <= 0)
    PROVE  u[S] <= Cardinality(S \cap K)
<1> DEFINE T == {k \in Nat : \A s \in UpTo(S, k) : u[s] <= Cardinality(s \cap K)}
<1>u. ASSUME NEW s \in SUBSET S
      PROVE  u[s] = IF s = {} THEN 0 ELSE g[Pick(s)] + u[s \ {Pick(s)}]
  BY DEF IsSum
<1>i. \A s \in SUBSET S : u[s] \in Int
  BY SumInt
<1>f. \A s \in SUBSET S : IsFiniteSet(s \cap K) /\ Cardinality(s \cap K) \in Nat
  BY FS_Subset, FS_CardinalityType
<1>0. ASSUME NEW s \in SUBSET S, s = {} PROVE u[s] <= Cardinality(s \cap K)
  <2>1. u[s] = 0
    BY <1>0, <1>u
  <2>2. Cardinality(s \cap K) \in Nat
    BY <1>f
  <2> QED BY <2>1, <2>2
<1>1. 0 \in T
  BY <1>0, UpToZero DEF UpTo
<1>2. ASSUME NEW k \in Nat, k \in T PROVE k + 1 \in T
  <2> SUFFICES ASSUME NEW s \in UpTo(S, k + 1) PROVE u[s] <= Cardinality(s \cap K)
    BY <1>2
  <2>1. s \in SUBSET S
    BY DEF UpTo
  <2>2. CASE s = {}
    BY <1>0, <2>1, <2>2
  <2>3. CASE s # {}
    <3> DEFINE x == Pick(s)
               r == s \ {x}
    <3>1. x \in s /\ x \in S /\ r \in UpTo(S, k) /\ r \in SUBSET S
      BY <2>1, <2>3, Smaller
    <3>2. u[r] <= Cardinality(r \cap K)
      BY <1>2, <3>1
    <3>3. u[s] = g[x] + u[r]
      BY <2>1, <2>3, <1>u
    <3>4. u[r] \in Int /\ Cardinality(r \cap K) \in Nat /\ g[x] \in Int
      BY <1>i, <1>f, <3>1
    <3>5. CASE x \in K
      <4>1. r \cap K = (s \cap K) \ {x} /\ x \in s \cap K
        BY <3>1, <3>5
      <4>2. Cardinality((s \cap K) \ {x}) = Cardinality(s \cap K) - 1
        BY <1>f, <2>1, <4>1, FS_RemoveElement
      <4>3. Cardinality(r \cap K) = Cardinality(s \cap K) - 1
        BY <4>1, <4>2
      <4>4. Cardinality(s \cap K) \in Nat /\ g[x] <= 1
        BY <1>f, <2>1, <3>1
      <4> HIDE DEF r, x
      <4> QED BY <3>2, <3>3, <3>4, <4>3, <4>4
    <3>6. CASE x \notin K
      <4>1. r \cap K = s \cap K /\ g[x] <= 0
        BY <3>1, <3>6
      <4>2. u[r] <= Cardinality(s \cap K)
        BY <3>2, <4>1
      <4>3. Cardinality(s \cap K) \in Nat
        BY <1>f, <2>1
      <4> HIDE DEF r, x
      <4>4. g[x] + u[r] <= Cardinality(s \cap K)
        BY <3>4, <4>1, <4>2, <4>3
      <4> QED BY <3>3, <4>4
    <3> QED BY <3>5, <3>6
  <2> QED BY <2>2, <2>3
<1>3. Nat \subseteq T
  <2> HIDE DEF T
  <2> QED BY <1>1, <1>2, SetInduction
<1>4. Cardinality(S) \in Nat /\ S \in UpTo(S, Cardinality(S))
  BY FS_CardinalityType DEF UpTo
<1> QED BY <1>3, <1>4

(***************************************************************************)
(* A sum does not depend on the order of its terms, nor on the set whose   *)
(* subsets it is defined on.                                               *)
(***************************************************************************)

\* A set without one of its elements is smaller.
LEMMA Removes ==
    ASSUME NEW S, IsFiniteSet(S), NEW s \in SUBSET S, NEW x \in s
    PROVE  s \ {x} \in SUBSET S /\ Cardinality(s \ {x}) < Cardinality(s)
<1>1. IsFiniteSet(s)
  BY FS_Subset
<1>2. Cardinality(s) \in Nat /\ Cardinality(s \ {x}) = Cardinality(s) - 1
  BY <1>1, FS_CardinalityType, FS_RemoveElement
<1>3. Cardinality(s \ {x}) < Cardinality(s)
  BY <1>2
<1> QED BY <1>3

\* Induction over the size of a subset.
LEMMA SizeInduction ==
    ASSUME NEW S, IsFiniteSet(S), NEW G,
           \A s \in SUBSET S :
              (\A r \in SUBSET S : Cardinality(r) < Cardinality(s) => r \in G) => s \in G
    PROVE  SUBSET S \subseteq G
<1> SUFFICES ASSUME NEW b \in SUBSET S, b \notin G PROVE FALSE
  OBVIOUS
<1> DEFINE T == {Cardinality(s) : s \in (SUBSET S) \ G}
<1>1. \A s \in SUBSET S : Cardinality(s) \in Nat
  BY FS_Subset, FS_CardinalityType
<1>2. T \in SUBSET Nat /\ T # {}
  BY <1>1
<1>3. PICK m \in T : \A k \in T : m <= k
  <2> HIDE DEF T
  <2> QED BY <1>2, Smallest
<1>4. PICK s \in (SUBSET S) \ G : m = Cardinality(s)
  BY <1>3
<1>5. ASSUME NEW r \in SUBSET S, Cardinality(r) < Cardinality(s) PROVE r \in G
  <2>1. r \notin G => m <= Cardinality(r)
    BY <1>3
  <2>2. Cardinality(r) \in Nat /\ Cardinality(s) \in Nat
    BY <1>1
  <2> QED BY <1>4, <1>5, <2>1, <2>2
<1> QED BY <1>4, <1>5

\* The sums on the subsets of two sets agree.
LEMMA SumAgrees ==
    ASSUME NEW S, IsFiniteSet(S), NEW R \in SUBSET S, NEW g,
           NEW u, IsSum(u, SUBSET R, g), NEW v, IsSum(v, SUBSET S, g)
    PROVE  \A s \in SUBSET R : u[s] = v[s]
<1> DEFINE G == {s \in SUBSET R : u[s] = v[s]}
<1>0. IsFiniteSet(R)
  BY FS_Subset
<1>1. ASSUME NEW s \in SUBSET R,
             \A r \in SUBSET R : Cardinality(r) < Cardinality(s) => r \in G
      PROVE  s \in G
  <2>1. /\ u[s] = IF s = {} THEN 0 ELSE g[Pick(s)] + u[s \ {Pick(s)}]
        /\ v[s] = IF s = {} THEN 0 ELSE g[Pick(s)] + v[s \ {Pick(s)}]
    BY DEF IsSum
  <2>2. CASE s = {}
    BY <2>1, <2>2
  <2>3. CASE s # {}
    <3>1. Pick(s) \in s
      BY <2>3 DEF Pick
    <3>2. s \ {Pick(s)} \in SUBSET R /\ Cardinality(s \ {Pick(s)}) < Cardinality(s)
      BY <1>0, <3>1, Removes
    <3>3. u[s \ {Pick(s)}] = v[s \ {Pick(s)}]
      BY <1>1, <3>2
    <3> QED BY <2>1, <2>3, <3>3
  <2> QED BY <2>2, <2>3
<1> HIDE DEF G
<1>2. SUBSET R \subseteq G
  BY <1>0, <1>1, SizeInduction
<1> QED BY <1>2 DEF G

\* Any term may be taken out.
LEMMA SumTakes ==
    ASSUME NEW S, IsFiniteSet(S), NEW g, \A x \in S : g[x] \in Int,
           NEW u, IsSum(u, SUBSET S, g)
    PROVE  \A s \in SUBSET S : \A x \in s : u[s] = g[x] + u[s \ {x}]
<1> DEFINE G == {s \in SUBSET S : \A x \in s : u[s] = g[x] + u[s \ {x}]}
<1>i. \A s \in SUBSET S : u[s] \in Int
  BY SumInt
<1>1. ASSUME NEW s \in SUBSET S,
             \A r \in SUBSET S : Cardinality(r) < Cardinality(s) => r \in G
      PROVE  s \in G
  <2> SUFFICES ASSUME NEW x \in s PROVE u[s] = g[x] + u[s \ {x}]
    OBVIOUS
  <2> DEFINE p == Pick(s)
  <2>1. p \in s
    BY DEF Pick
  <2>2. u[s] = g[p] + u[s \ {p}]
    BY DEF IsSum
  <2>3. CASE x = p
    BY <2>2, <2>3
  <2>4. CASE x # p
    <3> HIDE DEF p, G
    <3>1. s \ {p} \in SUBSET S /\ s \ {x} \in SUBSET S /\ x \in s \ {p} /\ p \in s \ {x}
      BY <2>1, <2>4
    <3>2. Cardinality(s \ {p}) < Cardinality(s) /\ Cardinality(s \ {x}) < Cardinality(s)
      BY <2>1, Removes
    <3>3. s \ {p} \in G /\ s \ {x} \in G
      BY <1>1, <3>1, <3>2
    <3> DEFINE r == (s \ {p}) \ {x}
    <3>4. r = (s \ {x}) \ {p} /\ r \in SUBSET S
      OBVIOUS
    <3>5. u[s \ {p}] = g[x] + u[r]
      BY <3>1, <3>3 DEF G
    <3>6. u[s \ {x}] = g[p] + u[r]
      BY <3>1, <3>3, <3>4 DEF G
    <3>7. g[x] \in Int /\ g[p] \in Int /\ u[r] \in Int
      BY <1>i, <2>1, <3>4
    <3> HIDE DEF r
    <3> QED BY <2>2, <3>5, <3>6, <3>7
  <2> QED BY <2>3, <2>4
<1> HIDE DEF G
<1>2. SUBSET S \subseteq G
  BY <1>1, SizeInduction
<1> QED BY <1>2 DEF G

\* The sum over a set is that over a part of it and that over the rest.
LEMMA SumSplit ==
    ASSUME NEW S, IsFiniteSet(S), NEW g, \A x \in S : g[x] \in Int,
           NEW u, IsSum(u, SUBSET S, g), NEW t \in SUBSET S
    PROVE  \A s \in SUBSET t : u[t] = u[s] + u[t \ s]
<1> DEFINE G == {s \in SUBSET t : u[t] = u[s] + u[t \ s]}
<1>i. \A s \in SUBSET S : u[s] \in Int
  BY SumInt
<1>f. IsFiniteSet(t)
  BY FS_Subset
<1>1. ASSUME NEW s \in SUBSET t,
             \A r \in SUBSET t : Cardinality(r) < Cardinality(s) => r \in G
      PROVE  s \in G
  <2>1. CASE s = {}
    <3>1. u[s] = 0 /\ t \ s = t
      BY <2>1 DEF IsSum
    <3>2. u[t] \in Int
      BY <1>i
    <3> QED BY <3>1, <3>2
  <2>2. CASE s # {}
    <3>1. PICK x \in s : TRUE
      BY <2>2
    <3> DEFINE r == s \ {x}
               rest == t \ r
    <3>2. r \in SUBSET t /\ Cardinality(r) < Cardinality(s)
      BY <1>f, <3>1, Removes
    <3>3. u[t] = u[r] + u[rest]
      <4> HIDE DEF r
      <4> QED BY <1>1, <3>2
    <3>4. x \in rest /\ rest \in SUBSET S /\ rest \ {x} = t \ s
      BY <3>1
    <3>5. u[rest] = g[x] + u[t \ s]
      <4> HIDE DEF rest
      <4>1. u[rest] = g[x] + u[rest \ {x}]
        BY <3>4, SumTakes
      <4> QED BY <3>4, <4>1
    <3>6. u[s] = g[x] + u[r]
      BY <3>1, SumTakes
    <3>7. u[r] \in Int /\ u[t \ s] \in Int /\ g[x] \in Int
      BY <1>i, <3>1, <3>2
    <3> HIDE DEF r, rest
    <3>8. u[t] = u[s] + u[t \ s]
      BY <3>3, <3>5, <3>6, <3>7
    <3> QED BY <3>8
  <2> QED BY <2>1, <2>2
<1> HIDE DEF G
<1>2. SUBSET t \subseteq G
  BY <1>f, <1>1, SizeInduction
<1> QED BY <1>2 DEF G

\* A sum of natural numbers is one.
LEMMA SumNat ==
    ASSUME NEW S, IsFiniteSet(S), NEW g, \A x \in S : g[x] \in Nat,
           NEW u, IsSum(u, SUBSET S, g)
    PROVE  \A s \in SUBSET S : u[s] \in Nat
<1> DEFINE G == {s \in SUBSET S : u[s] \in Nat}
<1>1. ASSUME NEW s \in SUBSET S,
             \A r \in SUBSET S : Cardinality(r) < Cardinality(s) => r \in G
      PROVE  s \in G
  <2>1. u[s] = IF s = {} THEN 0 ELSE g[Pick(s)] + u[s \ {Pick(s)}]
    BY DEF IsSum
  <2>2. CASE s = {}
    BY <2>1, <2>2
  <2>3. CASE s # {}
    <3>1. Pick(s) \in s
      BY <2>3 DEF Pick
    <3>2. s \ {Pick(s)} \in SUBSET S /\ Cardinality(s \ {Pick(s)}) < Cardinality(s)
      BY <3>1, Removes
    <3>3. u[s \ {Pick(s)}] \in Nat /\ g[Pick(s)] \in Nat
      BY <1>1, <3>1, <3>2
    <3> QED BY <2>1, <2>3, <3>3
  <2> QED BY <2>2, <2>3
<1> HIDE DEF G
<1>2. SUBSET S \subseteq G
  BY <1>1, SizeInduction
<1> QED BY <1>2 DEF G
=============================================================================

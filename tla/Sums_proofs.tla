----------------------------- MODULE Sums_proofs -----------------------------
(***************************************************************************)
(* Sums over finite sets.  A sum is a fold, that is a CHOOSE of a function   *)
(* that satisfies the recursive equation: Fixpoint shows that there is     *)
(* one, SumPick that a sum unfolds at the element the fold picks, SumSplit *)
(* that it does at any element.  Induction is by a least counterexample.   *)
(***************************************************************************)
EXTENDS Functions, FiniteSets, NaturalsInduction, WellFoundedInduction, FiniteSetTheorems, TLAPS

\* A set of naturals has a least element.
LEMMA LeastNatural ==
  ASSUME NEW T, T \subseteq Nat, T # {}
  PROVE  \E x \in T : \A y \in T : x <= y
<1> DEFINE R == OpToRel(<, Nat)
<1>1. IsWellFoundedOn(R, Nat)
  BY NatLessThanWellFounded
<1>2. \A x, y \in Nat : y < x => <<y, x>> \in R
  BY DEF OpToRel
<1> HIDE DEF R
<1>3. PICK x \in T : \A y \in T : ~(<<y, x>> \in R)
  BY <1>1, WFMin
<1>4. ASSUME NEW y \in T PROVE x <= y
  <2>1. ~(y < x)
    BY <1>2, <1>3
  <2> QED
    BY <2>1
<1> QED
  BY <1>3, <1>4

-----------------------------------------------------------------------------
(* The recursion of the fold. *)

\* The sum of f over S, of the community modules.
Sum(f, S) == SumFunctionOnSet(f, S)

Pick(s) == CHOOSE x \in s : TRUE
Body(f, g, s) == IF s = {} THEN 0 ELSE f[Pick(s)] + g[s \ {Pick(s)}]
Solves(f, g, D) == g = [s \in D |-> Body(f, g, s)]
Iter(f, S) == CHOOSE g : Solves(f, g, SUBSET S)
Small(S, n) == {s \in SUBSET S : Cardinality(s) <= n}

LEMMA SumIs == ASSUME NEW f, NEW S PROVE Sum(f, S) = Iter(f, S)[S]
BY DEF Sum, SumFunctionOnSet, Iter, Solves, Body, Pick, FoldFunctionOnSet, MapThenFoldSet

LEMMA PickIs == ASSUME NEW s, s # {} PROVE Pick(s) \in s
BY DEF Pick

\* Without the element picked a subset is smaller.
LEMMA Smaller ==
  ASSUME NEW S, IsFiniteSet(S), NEW s \in SUBSET S, NEW x \in s
  PROVE  /\ s \ {x} \in SUBSET S /\ IsFiniteSet(s) /\ IsFiniteSet(s \ {x})
         /\ Cardinality(s) \in Nat /\ Cardinality(s \ {x}) \in Nat
         /\ Cardinality(s \ {x}) = Cardinality(s) - 1
<1>1. IsFiniteSet(s)
  BY FS_Subset
<1>2. IsFiniteSet(s \ {x}) /\ Cardinality(s \ {x}) = Cardinality(s) - 1
  BY <1>1, FS_RemoveElement
<1> QED
  BY <1>1, <1>2, FS_CardinalityType

LEMMA Grows ==
  ASSUME NEW S, IsFiniteSet(S), NEW f, NEW n \in Nat, NEW g, Solves(f, g, Small(S, n))
  PROVE  \E h : Solves(f, h, Small(S, n + 1))
<1> DEFINE h == [s \in Small(S, n + 1) |-> Body(f, g, s)]
<1>1. ASSUME NEW s \in Small(S, n + 1)
      PROVE  Body(f, g, s) = Body(f, h, s)
  <2>1. CASE s = {}
    BY <2>1 DEF Body
  <2>2. CASE s # {}
    <3> DEFINE r == s \ {Pick(s)}
    <3>1. Pick(s) \in s /\ s \in SUBSET S /\ Cardinality(s) <= n + 1
      BY <2>2, PickIs DEF Small
    <3>0. Cardinality(s) \in Nat /\ Cardinality(r) \in Nat /\ Cardinality(r) = Cardinality(s) - 1
      BY <3>1, Smaller
    <3>2. r \in SUBSET S /\ Cardinality(r) <= n
      BY <3>1, <3>0
    <3>3. r \in Small(S, n) /\ r \in Small(S, n + 1)
      BY <3>0, <3>2 DEF Small
    <3> HIDE DEF r
    <3>4. g[r] = Body(f, g, r)
      BY <3>3 DEF Solves
    <3>5. h[r] = Body(f, g, r)
      BY <3>3
    <3>6. g[r] = h[r]
      BY <3>4, <3>5
    <3> HIDE DEF h
    <3> QED
      BY <2>2, <3>6 DEF Body, r
  <2> QED
    BY <2>1, <2>2
<1>2. h = [s \in Small(S, n + 1) |-> Body(f, h, s)]
  BY <1>1
<1> QED
  BY <1>2 DEF Solves

LEMMA Fixpoint ==
  ASSUME NEW S, IsFiniteSet(S), NEW f
  PROVE  Solves(f, Iter(f, S), SUBSET S)
<1> DEFINE Missing == {n \in Nat : ~\E g : Solves(f, g, Small(S, n))}
<1>1. Missing = {}
  <2> SUFFICES ASSUME Missing # {} PROVE FALSE
    OBVIOUS
  <2>1. PICK n \in Missing : \A y \in Missing : n <= y
    BY LeastNatural
  <2>2. CASE n = 0
    <3> DEFINE g == [s \in Small(S, 0) |-> 0]
    <3>1. ASSUME NEW s \in Small(S, 0) PROVE s = {}
      <4>1. s \in SUBSET S /\ Cardinality(s) <= 0 /\ IsFiniteSet(s)
        BY FS_Subset DEF Small
      <4>2. Cardinality(s) = 0
        BY <4>1, FS_CardinalityType
      <4> QED
        BY <4>1, <4>2, FS_EmptySet
    <3>2. g = [s \in Small(S, 0) |-> Body(f, g, s)]
      BY <3>1 DEF Body
    <3> QED
      BY <2>2, <3>2 DEF Solves
  <2>3. CASE n # 0
    <3>1. n - 1 \in Nat /\ n - 1 \notin Missing /\ (n - 1) + 1 = n
      BY <2>1, <2>3
    <3>2. PICK g : Solves(f, g, Small(S, n - 1))
      BY <3>1
    <3>3. \E h : Solves(f, h, Small(S, (n - 1) + 1))
      BY <3>1, <3>2, Grows
    <3> QED
      BY <2>1, <3>1, <3>3
  <2> QED
    BY <2>2, <2>3
<1>2. Cardinality(S) \in Nat
  BY FS_CardinalityType
<1>3. Small(S, Cardinality(S)) = SUBSET S
  BY FS_Subset DEF Small
<1>4. \E g : Solves(f, g, SUBSET S)
  <2>1. \E g : Solves(f, g, Small(S, Cardinality(S)))
    BY <1>1, <1>2
  <2> QED
    BY <1>3, <2>1
<1> QED
  BY <1>4 DEF Iter

\* Two solutions agree where both are defined.
LEMMA Unique ==
  ASSUME NEW S, IsFiniteSet(S), NEW T \in SUBSET S, NEW f, NEW g, NEW h,
         Solves(f, g, SUBSET S), Solves(f, h, SUBSET T)
  PROVE  g[T] = h[T]
<1> DEFINE Bad == {n \in Nat : \E s \in SUBSET T : Cardinality(s) = n /\ g[s] # h[s]}
<1>1. Bad = {}
  <2> SUFFICES ASSUME Bad # {} PROVE FALSE
    OBVIOUS
  <2>1. PICK n \in Bad : \A y \in Bad : n <= y
    BY LeastNatural
  <2>2. PICK s \in SUBSET T : Cardinality(s) = n /\ g[s] # h[s]
    BY <2>1
  <2>3. g[s] = Body(f, g, s) /\ h[s] = Body(f, h, s)
    BY DEF Solves
  <2>4. s # {}
    BY <2>2, <2>3 DEF Body
  <2> DEFINE r == s \ {Pick(s)}
  <2>5. Pick(s) \in s /\ IsFiniteSet(T)
    BY <2>4, PickIs, FS_Subset
  <2>6. r \in SUBSET T /\ Cardinality(r) = n - 1 /\ Cardinality(r) \in Nat /\ n \in Nat
    BY <2>2, <2>5, Smaller
  <2> HIDE DEF r
  <2>7. g[r] = h[r]
    BY <2>1, <2>6
  <2> QED
    BY <2>2, <2>3, <2>4, <2>7 DEF Body, r
<1>2. IsFiniteSet(T) /\ Cardinality(T) \in Nat
  BY FS_Subset, FS_CardinalityType
<1> QED
  BY <1>1, <1>2

LEMMA SumEmpty == \A f : Sum(f, {}) = 0
<1> SUFFICES ASSUME NEW f PROVE Sum(f, {}) = 0
  OBVIOUS
<1>1. Solves(f, Iter(f, {}), SUBSET {})
  BY Fixpoint, FS_EmptySet
<1>2. Iter(f, {})[{}] = Body(f, Iter(f, {}), {})
  BY <1>1 DEF Solves
<1> QED
  BY <1>2, SumIs DEF Body

LEMMA SumPick ==
  ASSUME NEW S, IsFiniteSet(S), S # {}, NEW f
  PROVE  Sum(f, S) = f[Pick(S)] + Sum(f, S \ {Pick(S)})
<1> DEFINE T == S \ {Pick(S)}
           g == Iter(f, S)
           h == Iter(f, T)
<1>1. T \in SUBSET S /\ IsFiniteSet(T)
  BY FS_Subset
<1>2. Solves(f, g, SUBSET S) /\ Solves(f, h, SUBSET T)
  BY <1>1, Fixpoint
<1>3. Sum(f, S) = g[S] /\ Sum(f, T) = h[T]
  BY SumIs
<1> HIDE DEF g, h
<1>4. g[S] = Body(f, g, S)
  BY <1>2 DEF Solves
<1>5. g[S] = f[Pick(S)] + g[T]
  BY <1>4 DEF Body
<1>6. g[T] = h[T]
  BY <1>1, <1>2, Unique
<1> QED
  BY <1>3, <1>5, <1>6

-----------------------------------------------------------------------------
(* What the proofs use. *)

\* A function that is a natural number everywhere on S.
Counts(f, S) == \A x \in S : f[x] \in Nat

LEMMA SumType ==
  ASSUME NEW S, IsFiniteSet(S), NEW f, Counts(f, S)
  PROVE  Sum(f, S) \in Nat
<1> DEFINE Bad == {n \in Nat : \E s \in SUBSET S : Cardinality(s) = n /\ Sum(f, s) \notin Nat}
<1>1. Bad = {}
  <2> SUFFICES ASSUME Bad # {} PROVE FALSE
    OBVIOUS
  <2>1. PICK n \in Bad : \A y \in Bad : n <= y
    BY LeastNatural
  <2>2. PICK s \in SUBSET S : Cardinality(s) = n /\ Sum(f, s) \notin Nat
    BY <2>1
  <2>3. s # {} /\ IsFiniteSet(s)
    <3>1. Sum(f, {}) = 0 /\ 0 \in Nat
      BY SumEmpty
    <3> QED
      BY <2>2, <3>1, FS_Subset
  <2> DEFINE r == s \ {Pick(s)}
  <2>4. Pick(s) \in s /\ Pick(s) \in S
    BY <2>3, PickIs
  <2>5. r \in SUBSET S /\ Cardinality(r) = n - 1 /\ Cardinality(r) \in Nat /\ n \in Nat
    BY <2>2, <2>4, Smaller
  <2>6. Sum(f, s) = f[Pick(s)] + Sum(f, r)
    BY <2>3, SumPick
  <2> HIDE DEF r
  <2>7. Sum(f, r) \in Nat
    BY <2>1, <2>5
  <2>8. f[Pick(s)] \in Nat
    BY <2>4 DEF Counts
  <2> QED
    BY <2>2, <2>6, <2>7, <2>8
<1>2. Cardinality(S) \in Nat
  BY FS_CardinalityType
<1> QED
  BY <1>1, <1>2

\* A sum unfolds at any element.
LEMMA SumSplit ==
  ASSUME NEW S, IsFiniteSet(S), NEW f, Counts(f, S), NEW x \in S
  PROVE  /\ Sum(f, S) = f[x] + Sum(f, S \ {x})
         /\ f[x] \in Nat /\ Sum(f, S \ {x}) \in Nat /\ Sum(f, S) \in Nat
<1> DEFINE Bad == {n \in Nat : \E s \in SUBSET S : Cardinality(s) = n /\ \E y \in s : Sum(f, s) # f[y] + Sum(f, s \ {y})}
<1>0. ASSUME NEW s \in SUBSET S
      PROVE  IsFiniteSet(s) /\ Counts(f, s) /\ Sum(f, s) \in Nat
  <2>1. IsFiniteSet(s) /\ Counts(f, s)
    BY FS_Subset DEF Counts
  <2> QED
    BY <2>1, SumType
<1>1. Bad = {}
  <2> SUFFICES ASSUME Bad # {} PROVE FALSE
    OBVIOUS
  <2>1. PICK n \in Bad : \A z \in Bad : n <= z
    BY LeastNatural
  <2>2. PICK s \in SUBSET S : Cardinality(s) = n /\ \E y \in s : Sum(f, s) # f[y] + Sum(f, s \ {y})
    BY <2>1
  <2>3. PICK y \in s : Sum(f, s) # f[y] + Sum(f, s \ {y})
    BY <2>2
  <2> DEFINE p == Pick(s)
             r == s \ {p}
             q == s \ {y}
             b == (s \ {p}) \ {y}
  <2>4. p \in s /\ IsFiniteSet(s)
    BY <1>0, PickIs
  <2>5. Sum(f, s) = f[p] + Sum(f, r)
    BY <2>3, <2>4, SumPick
  <2>6. p # y
    BY <2>3, <2>5
  <2>7. r \in SUBSET S /\ q \in SUBSET S /\ b \in SUBSET S
    OBVIOUS
  <2>8. Cardinality(r) = n - 1 /\ Cardinality(q) = n - 1 /\ n - 1 \in Nat /\ n \in Nat
    <3>1. Cardinality(r) = n - 1 /\ Cardinality(r) \in Nat /\ n \in Nat
      BY <2>2, <2>4, Smaller
    <3>2. Cardinality(q) = n - 1
      BY <2>2, <2>3, Smaller
    <3> QED
      BY <3>1, <3>2
  <2>9. n - 1 \notin Bad
    BY <2>1, <2>8
  <2>10. y \in r /\ p \in q /\ r \ {y} = b /\ q \ {p} = b
    BY <2>4, <2>6
  <2>11. f[p] \in Nat /\ f[y] \in Nat /\ Sum(f, r) \in Nat /\ Sum(f, q) \in Nat /\ Sum(f, b) \in Nat
    BY <1>0, <2>4, <2>7 DEF Counts
  <2> HIDE DEF p, r, q, b
  <2>12. Sum(f, r) = f[y] + Sum(f, r \ {y})
    BY <2>7, <2>8, <2>9, <2>10
  <2>13. Sum(f, q) = f[p] + Sum(f, q \ {p})
    BY <2>7, <2>8, <2>9, <2>10
  <2>14. Sum(f, s) = f[y] + Sum(f, q)
    BY <2>5, <2>10, <2>11, <2>12, <2>13
  <2> QED
    BY <2>3, <2>14 DEF q
<1>2. Cardinality(S) \in Nat /\ S \in SUBSET S
  BY FS_CardinalityType
<1>3. Sum(f, S) = f[x] + Sum(f, S \ {x})
  BY <1>1, <1>2
<1> QED
  BY <1>0, <1>3 DEF Counts
\* A sum only looks at the function's values on the set.
LEMMA SumSame ==
  ASSUME NEW S, IsFiniteSet(S), NEW f, NEW g, \A x \in S : f[x] = g[x]
  PROVE  Sum(f, S) = Sum(g, S)
<1> DEFINE Bad == {n \in Nat : \E s \in SUBSET S : Cardinality(s) = n /\ Sum(f, s) # Sum(g, s)}
<1>1. Bad = {}
  <2> SUFFICES ASSUME Bad # {} PROVE FALSE
    OBVIOUS
  <2>1. PICK n \in Bad : \A y \in Bad : n <= y
    BY LeastNatural
  <2>2. PICK s \in SUBSET S : Cardinality(s) = n /\ Sum(f, s) # Sum(g, s)
    BY <2>1
  <2>3. s # {} /\ IsFiniteSet(s)
    BY <2>2, SumEmpty, FS_Subset
  <2> DEFINE r == s \ {Pick(s)}
  <2>4. Pick(s) \in s /\ Pick(s) \in S
    BY <2>3, PickIs
  <2>5. r \in SUBSET S /\ Cardinality(r) = n - 1 /\ Cardinality(r) \in Nat /\ n \in Nat
    BY <2>2, <2>4, Smaller
  <2>6. Sum(f, s) = f[Pick(s)] + Sum(f, r) /\ Sum(g, s) = g[Pick(s)] + Sum(g, r)
    BY <2>3, SumPick
  <2> HIDE DEF r
  <2>7. Sum(f, r) = Sum(g, r)
    BY <2>1, <2>5
  <2>8. f[Pick(s)] = g[Pick(s)]
    BY <2>4
  <2> QED
    BY <2>2, <2>6, <2>7, <2>8
<1>2. Cardinality(S) \in Nat
  BY FS_CardinalityType
<1> QED
  BY <1>1, <1>2

\* One value of the function changes.
LEMMA SumUpdate ==
  ASSUME NEW S, IsFiniteSet(S), NEW f, Counts(f, S), NEW g, Counts(g, S),
         NEW x \in S, \A y \in S \ {x} : g[y] = f[y]
  PROVE  /\ Sum(g, S) + f[x] = Sum(f, S) + g[x]
         /\ Sum(f, S) \in Nat /\ Sum(g, S) \in Nat /\ f[x] \in Nat /\ g[x] \in Nat
         /\ Sum(f, S) >= f[x] /\ Sum(g, S) >= g[x]
<1>1. Sum(f, S) = f[x] + Sum(f, S \ {x}) /\ f[x] \in Nat /\ Sum(f, S \ {x}) \in Nat
  BY SumSplit
<1>2. Sum(g, S) = g[x] + Sum(g, S \ {x}) /\ g[x] \in Nat /\ Sum(g, S \ {x}) \in Nat
  BY SumSplit
<1>3. Sum(f, S \ {x}) = Sum(g, S \ {x})
  <2>1. IsFiniteSet(S \ {x})
    BY FS_RemoveElement
  <2> QED
    BY <2>1, SumSame
<1> QED
  BY <1>1, <1>2, <1>3

\* Two values change.
LEMMA SumUpdateTwo ==
  ASSUME NEW S, IsFiniteSet(S), NEW f, Counts(f, S), NEW g, Counts(g, S),
         NEW x \in S, NEW z \in S, x # z, \A y \in S \ {x, z} : g[y] = f[y]
  PROVE  /\ Sum(g, S) + f[x] + f[z] = Sum(f, S) + g[x] + g[z]
         /\ Sum(f, S) \in Nat /\ Sum(g, S) \in Nat /\ f[x] \in Nat /\ g[x] \in Nat
         /\ f[z] \in Nat /\ g[z] \in Nat
<1> DEFINE T == S \ {x}
<1>1. Sum(f, S) = f[x] + Sum(f, T) /\ f[x] \in Nat
  BY SumSplit
<1>2. Sum(g, S) = g[x] + Sum(g, T) /\ g[x] \in Nat
  BY SumSplit
<1>3. IsFiniteSet(T) /\ Counts(f, T) /\ Counts(g, T) /\ z \in T /\ \A y \in T \ {z} : g[y] = f[y]
  BY FS_RemoveElement DEF Counts
<1> HIDE DEF T
<1>4. /\ Sum(g, T) + f[z] = Sum(f, T) + g[z]
      /\ Sum(f, T) \in Nat /\ Sum(g, T) \in Nat /\ f[z] \in Nat /\ g[z] \in Nat
  BY <1>3, SumUpdate
<1> QED
  BY <1>1, <1>2, <1>4

\* Every value is part of the sum.
LEMMA SumAtLeast ==
  ASSUME NEW S, IsFiniteSet(S), NEW f, Counts(f, S), NEW x \in S
  PROVE  f[x] <= Sum(f, S)
<1>1. Sum(f, S) = f[x] + Sum(f, S \ {x}) /\ f[x] \in Nat /\ Sum(f, S \ {x}) \in Nat
  BY SumSplit
<1> QED
  BY <1>1

\* A sum of zeros.
LEMMA SumZero ==
  ASSUME NEW S, IsFiniteSet(S), NEW f, \A x \in S : f[x] = 0
  PROVE  Sum(f, S) = 0
<1> DEFINE Bad == {n \in Nat : \E s \in SUBSET S : Cardinality(s) = n /\ Sum(f, s) # 0}
<1>1. Bad = {}
  <2> SUFFICES ASSUME Bad # {} PROVE FALSE
    OBVIOUS
  <2>1. PICK n \in Bad : \A y \in Bad : n <= y
    BY LeastNatural
  <2>2. PICK s \in SUBSET S : Cardinality(s) = n /\ Sum(f, s) # 0
    BY <2>1
  <2>3. s # {} /\ IsFiniteSet(s)
    BY <2>2, SumEmpty, FS_Subset
  <2> DEFINE r == s \ {Pick(s)}
  <2>4. Pick(s) \in s /\ Pick(s) \in S
    BY <2>3, PickIs
  <2>5. r \in SUBSET S /\ Cardinality(r) = n - 1 /\ Cardinality(r) \in Nat /\ n \in Nat
    BY <2>2, <2>4, Smaller
  <2>6. Sum(f, s) = f[Pick(s)] + Sum(f, r)
    BY <2>3, SumPick
  <2> HIDE DEF r
  <2>7. Sum(f, r) = 0
    BY <2>1, <2>5
  <2>8. f[Pick(s)] = 0
    BY <2>4
  <2> QED
    BY <2>2, <2>6, <2>7, <2>8
<1>2. Cardinality(S) \in Nat
  BY FS_CardinalityType
<1> QED
  BY <1>1, <1>2
-----------------------------------------------------------------------------
(* The same for the sum of all values of a function. *)

LEMMA SumFunctionIs ==
  ASSUME NEW S, IsFiniteSet(S), NEW f \in [S -> Nat]
  PROVE  SumFunction(f) = Sum(f, S) /\ Counts(f, S) /\ SumFunction(f) \in Nat
<1>1. SumFunction(f) = Sum(f, S)
  BY DEF SumFunction, Sum
<1>2. Counts(f, S)
  BY DEF Counts
<1> QED
  BY <1>1, <1>2, SumType

LEMMA OneChanges ==
  ASSUME NEW S, IsFiniteSet(S), NEW f \in [S -> Nat], NEW g \in [S -> Nat],
         NEW x \in S, \A y \in S : y # x => g[y] = f[y]
  PROVE  /\ SumFunction(g) + f[x] = SumFunction(f) + g[x]
         /\ SumFunction(f) \in Nat /\ SumFunction(g) \in Nat /\ f[x] \in Nat /\ g[x] \in Nat
         /\ f[x] <= SumFunction(f)
<1>1. /\ SumFunction(f) = Sum(f, S) /\ Counts(f, S) /\ SumFunction(g) = Sum(g, S) /\ Counts(g, S)
      /\ SumFunction(f) \in Nat /\ SumFunction(g) \in Nat
  BY SumFunctionIs
<1>2. Sum(g, S) + f[x] = Sum(f, S) + g[x] /\ f[x] \in Nat /\ g[x] \in Nat
  BY <1>1, SumUpdate
<1>3. f[x] <= Sum(f, S)
  BY <1>1, SumAtLeast
<1> QED
  BY <1>1, <1>2, <1>3

LEMMA TwoChange ==
  ASSUME NEW S, IsFiniteSet(S), NEW f \in [S -> Nat], NEW g \in [S -> Nat],
         NEW x \in S, NEW z \in S, x # z, \A y \in S : y # x /\ y # z => g[y] = f[y]
  PROVE  /\ SumFunction(g) + f[x] + f[z] = SumFunction(f) + g[x] + g[z]
         /\ SumFunction(f) \in Nat /\ SumFunction(g) \in Nat /\ f[x] \in Nat /\ g[x] \in Nat
         /\ f[z] \in Nat /\ g[z] \in Nat
<1>1. /\ SumFunction(f) = Sum(f, S) /\ Counts(f, S) /\ SumFunction(g) = Sum(g, S) /\ Counts(g, S)
      /\ SumFunction(f) \in Nat /\ SumFunction(g) \in Nat
  BY SumFunctionIs
<1>2. /\ Sum(g, S) + f[x] + f[z] = Sum(f, S) + g[x] + g[z]
      /\ f[x] \in Nat /\ g[x] \in Nat /\ f[z] \in Nat /\ g[z] \in Nat
  BY <1>1, SumUpdateTwo
<1> QED
  BY <1>1, <1>2

LEMMA AllZero ==
  ASSUME NEW S, IsFiniteSet(S), NEW f \in [S -> Nat], \A x \in S : f[x] = 0
  PROVE  SumFunction(f) = 0
<1>1. SumFunction(f) = Sum(f, S)
  BY SumFunctionIs
<1> QED
  BY <1>1, SumZero

LEMMA OneGrows ==
  ASSUME NEW S, IsFiniteSet(S), NEW f \in [S -> Nat], NEW g \in [S -> Nat],
         NEW x \in S, NEW d \in Nat, g[x] = f[x] + d, \A y \in S : y # x => g[y] = f[y]
  PROVE  SumFunction(g) = SumFunction(f) + d
<1>1. /\ SumFunction(g) + f[x] = SumFunction(f) + g[x]
      /\ SumFunction(f) \in Nat /\ SumFunction(g) \in Nat /\ f[x] \in Nat
  BY OneChanges
<1>2. g[x] = f[x] + d
  OBVIOUS
<1> QED
  BY <1>1, <1>2

\* Nothing changes.
LEMMA NoneChanges ==
  ASSUME NEW S, IsFiniteSet(S), NEW f \in [S -> Nat], NEW g \in [S -> Nat],
         \A y \in S : g[y] = f[y]
  PROVE  SumFunction(g) = SumFunction(f)
<1>1. g = f
  OBVIOUS
<1> QED
  BY <1>1

\* Two entries change and keep their total.
Redivided(S, f, g, x, z) ==
  /\ f \in [S -> Nat] /\ g \in [S -> Nat] /\ x \in S /\ z \in S /\ x # z
  /\ g[x] + g[z] = f[x] + f[z]
  /\ \A y \in S : y # x /\ y # z => g[y] = f[y]

LEMMA TwoBalance ==
  ASSUME NEW S, IsFiniteSet(S), NEW f, NEW g, NEW x, NEW z, Redivided(S, f, g, x, z)
  PROVE  SumFunction(g) = SumFunction(f)
<1>1. /\ f \in [S -> Nat] /\ g \in [S -> Nat] /\ x \in S /\ z \in S /\ x # z
      /\ g[x] + g[z] = f[x] + f[z]
      /\ \A y \in S : y # x /\ y # z => g[y] = f[y]
  BY DEF Redivided
<1>2. /\ SumFunction(g) + f[x] + f[z] = SumFunction(f) + g[x] + g[z]
      /\ SumFunction(f) \in Nat /\ SumFunction(g) \in Nat /\ f[x] \in Nat /\ g[x] \in Nat
      /\ f[z] \in Nat /\ g[z] \in Nat
  BY <1>1, TwoChange
<1> QED
  BY <1>1, <1>2
==============================================================================

------------------------------ MODULE SumTheorems ------------------------------
(***************************************************************************)
(* Induction over the natural numbers and over finite sets, for sets       *)
(* instead of predicates: the provers cannot instantiate an operator, but  *)
(* they can a set.  From it, what SumFunctionOnSet (Functions.tla) gives   *)
(* for natural numbers: the sum does not depend on the order in which it   *)
(* is taken, so that one summand can be set apart from the others.         *)
(***************************************************************************)
EXTENDS Integers, FiniteSets, Functions, TLAPS, FiniteSetTheorems, WellFoundedInduction

LessThan == {p \in Nat \X Nat : p[1] < p[2]}

\* A set of numbers that is not empty has a least one.
LEMMA LeastNumber ==
  ASSUME NEW S \in SUBSET Nat, S # {}
  PROVE  \E n \in S : \A m \in S : n <= m
<1>1. IsWellFoundedOn(LessThan, Nat)
  BY NatLessThanWellFounded DEF OpToRel, LessThan
<1>2. PICK n \in S : \A m \in S : <<m, n>> \notin LessThan
  BY <1>1, WFMin
<1>3. ASSUME NEW m \in S PROVE n <= m
  <2>1. <<m, n>> \in LessThan <=> m < n
    BY DEF LessThan
  <2> QED BY <1>2, <2>1
<1> QED BY <1>3

\* Induction over the numbers, for a set instead of a predicate.
LEMMA NatSetInduction ==
  ASSUME NEW S, 0 \in S, \A n \in Nat : n \in S => n + 1 \in S
  PROVE  Nat \subseteq S
<1>1. SUFFICES ASSUME Nat \ S # {} PROVE FALSE
  OBVIOUS
<1>2. PICK n \in Nat \ S : \A m \in Nat \ S : n <= m
  BY <1>1, LeastNumber
<1>3. n # 0 /\ n - 1 \in Nat /\ n - 1 \in S
  BY <1>2
<1> QED BY <1>2, <1>3

-----------------------------------------------------------------------------
(* The function SumFunctionOnSet computes along subsets.                   *)

One(S) == CHOOSE x \in S : TRUE

Sums(f, S) ==
  LET iter[s \in SUBSET S] == IF s = {} THEN 0 ELSE f[One(s)] + iter[s \ {One(s)}]
  IN  iter

\* The fold of the community module, as the function it computes.
LEMMA SumIsSums ==
  ASSUME NEW f, NEW S
  PROVE  SumFunctionOnSet(f, S) = Sums(f, S)[S]
BY DEF SumFunctionOnSet, FoldFunctionOnSet, MapThenFoldSet, Sums, One

Step(f, g, s) == IF s = {} THEN 0 ELSE f[One(s)] + g[s \ {One(s)}]
UpTo(S, n) == {s \in SUBSET S : Cardinality(s) <= n}

\* A member of a set that is not empty is chosen; without it the set is smaller.
LEMMA OneLess ==
  ASSUME NEW S, IsFiniteSet(S), NEW s \in SUBSET S, s # {}
  PROVE  /\ One(s) \in s /\ IsFiniteSet(s)
         /\ Cardinality(s) \in Nat /\ Cardinality(s) # 0
         /\ Cardinality(s \ {One(s)}) = Cardinality(s) - 1
<1>1. One(s) \in s
  BY DEF One
<1>2. IsFiniteSet(s) /\ Cardinality(s) \in Nat /\ Cardinality(s) # 0
  BY FS_Subset, FS_CardinalityType, FS_EmptySet
<1>3. Cardinality(s \ {One(s)}) = Cardinality(s) - 1
  BY <1>1, <1>2, FS_RemoveElement
<1> QED BY <1>1, <1>2, <1>3

\* Only the empty set has no elements.
LEMMA UpToNone ==
  ASSUME NEW S, IsFiniteSet(S), NEW s \in UpTo(S, 0)
  PROVE  s = {}
<1>1. SUFFICES ASSUME s # {} PROVE FALSE
  OBVIOUS
<1>2. s \in SUBSET S /\ Cardinality(s) <= 0
  BY DEF UpTo
<1>3. Cardinality(s) \in Nat /\ Cardinality(s) # 0
  BY <1>1, <1>2, OneLess
<1> QED BY <1>2, <1>3

\* The recursive definition has a solution on the subsets of up to n elements.
LEMMA SolutionsExist ==
  ASSUME NEW f, NEW S, IsFiniteSet(S)
  PROVE  \A n \in Nat : \E g : g = [s \in UpTo(S, n) |-> Step(f, g, s)]
<1> DEFINE Good == {n \in Nat : \E g : g = [s \in UpTo(S, n) |-> Step(f, g, s)]}
<1>1. 0 \in Good
  <2> DEFINE g == [s \in UpTo(S, 0) |-> 0]
  <2>1. \A s \in UpTo(S, 0) : s = {}
    BY UpToNone
  <2>2. g = [s \in UpTo(S, 0) |-> Step(f, g, s)]
    BY <2>1 DEF Step
  <2> HIDE DEF g
  <2> QED BY <2>2
<1>2. ASSUME NEW n \in Nat, n \in Good PROVE n + 1 \in Good
  <2>1. PICK g : g = [s \in UpTo(S, n) |-> Step(f, g, s)]
    BY <1>2
  <2> DEFINE h == [s \in UpTo(S, n + 1) |-> Step(f, g, s)]
  <2>2. ASSUME NEW s \in UpTo(S, n + 1) PROVE Step(f, h, s) = Step(f, g, s)
    <3>1. CASE s = {}
      BY <3>1 DEF Step
    <3>2. CASE s # {}
      <4> DEFINE r == s \ {One(s)}
      <4>1. r \in UpTo(S, n) /\ r \in UpTo(S, n + 1)
        BY <3>2, OneLess DEF UpTo
      <4>2. h[r] = Step(f, g, r)
        BY <4>1
      <4>3. g[r] = Step(f, g, r)
        BY <4>1, <2>1
      <4> QED BY <3>2, <4>2, <4>3 DEF Step
    <3> QED BY <3>1, <3>2
  <2>3. h = [s \in UpTo(S, n + 1) |-> Step(f, h, s)]
    BY <2>2
  <2> HIDE DEF h
  <2> QED BY <2>3
<1> HIDE DEF Good
<1>3. Nat \subseteq Good
  BY <1>1, <1>2, NatSetInduction
<1> QED BY <1>3 DEF Good

\* The function the fold computes follows its own definition on every subset.
LEMMA SumsSolve ==
  ASSUME NEW f, NEW S, IsFiniteSet(S)
  PROVE  \A s \in SUBSET S : Sums(f, S)[s] = Step(f, Sums(f, S), s)
<1>1. Cardinality(S) \in Nat
  BY FS_CardinalityType
<1>2. UpTo(S, Cardinality(S)) = SUBSET S
  BY FS_Subset DEF UpTo
<1>3. \E g : g = [s \in SUBSET S |-> Step(f, g, s)]
  <2>1. PICK n \in Nat : n = Cardinality(S)
    BY <1>1
  <2>2. \E g : g = [s \in UpTo(S, n) |-> Step(f, g, s)]
    BY SolutionsExist
  <2> QED BY <1>2, <2>1, <2>2
<1>4. Sums(f, S) = CHOOSE g : g = [s \in SUBSET S |-> Step(f, g, s)]
  BY DEF Sums, Step
<1>5. Sums(f, S) = [s \in SUBSET S |-> Step(f, Sums(f, S), s)]
  BY <1>3, <1>4
<1> QED BY <1>5

\* The sum over a set is that of the element chosen and of the others.
LEMMA SumsStep ==
  ASSUME NEW f, NEW S, IsFiniteSet(S)
  PROVE  /\ Sums(f, S)[{}] = 0
         /\ \A s \in (SUBSET S) \ {{}} : Sums(f, S)[s] = f[One(s)] + Sums(f, S)[s \ {One(s)}]
<1>1. Sums(f, S)[{}] = 0
  BY SumsSolve DEF Step
<1>2. ASSUME NEW s \in SUBSET S, s # {}
      PROVE Sums(f, S)[s] = f[One(s)] + Sums(f, S)[s \ {One(s)}]
  <2>1. Sums(f, S)[s] = Step(f, Sums(f, S), s)
    BY SumsSolve
  <2> QED BY <1>2, <2>1 DEF Step
<1> QED BY <1>1, <1>2

\* A statement about all subsets of a finite set, one element at a time.
LEMMA SubsetInduction ==
  ASSUME NEW S, IsFiniteSet(S), NEW G, {} \in G,
         \A s \in SUBSET S : s # {} /\ (\A r \in SUBSET s : r # s => r \in G) => s \in G
  PROVE  SUBSET S \subseteq G
<1> DEFINE Good == {n \in Nat : UpTo(S, n) \subseteq G}
<1>1. 0 \in Good
  BY UpToNone
<1>2. ASSUME NEW n \in Nat, n \in Good PROVE n + 1 \in Good
  <2>1. SUFFICES ASSUME NEW s \in UpTo(S, n + 1), s # {} PROVE s \in G
    BY <1>2
  <2>2. ASSUME NEW r \in SUBSET s, r # s PROVE r \in UpTo(S, n)
    <3>1. IsFiniteSet(s) /\ s \in SUBSET S /\ Cardinality(s) <= n + 1
      BY FS_Subset DEF UpTo
    <3>2. Cardinality(r) < Cardinality(s) /\ Cardinality(r) \in Nat /\ Cardinality(s) \in Nat
      BY <2>2, <3>1, FS_Subset, FS_CardinalityType
    <3> QED BY <3>1, <3>2 DEF UpTo
  <2> QED BY <1>2, <2>1, <2>2 DEF UpTo
<1> HIDE DEF Good
<1>3. Nat \subseteq Good
  BY <1>1, <1>2, NatSetInduction
<1>4. UpTo(S, Cardinality(S)) \subseteq G
  BY <1>3, FS_CardinalityType DEF Good
<1> QED BY <1>4, FS_Subset, FS_CardinalityType DEF UpTo
-----------------------------------------------------------------------------
(* Sums of natural numbers.                                                *)

\* Sums of numbers are numbers.
LEMMA SumsAreNat ==
  ASSUME NEW f, NEW S, IsFiniteSet(S), \A x \in S : f[x] \in Nat
  PROVE  \A s \in SUBSET S : Sums(f, S)[s] \in Nat
<1> DEFINE Good == {s \in SUBSET S : Sums(f, S)[s] \in Nat}
<1>1. {} \in Good
  BY SumsStep
<1>2. ASSUME NEW s \in SUBSET S, s # {}, \A r \in SUBSET s : r # s => r \in Good
      PROVE s \in Good
  <2>1. One(s) \in s
    BY <1>2 DEF One
  <2>2. s \ {One(s)} \in Good
    BY <1>2, <2>1
  <2>3. Sums(f, S)[s] = f[One(s)] + Sums(f, S)[s \ {One(s)}]
    BY <1>2, SumsStep
  <2> QED BY <2>1, <2>2, <2>3
<1> HIDE DEF Good
<1>3. SUBSET S \subseteq Good
  BY <1>1, <1>2, SubsetInduction
<1> QED BY <1>3 DEF Good

\* Any element may be taken first.
LEMMA SumsAnyFirst ==
  ASSUME NEW f, NEW S, IsFiniteSet(S), \A x \in S : f[x] \in Nat
  PROVE  \A s \in SUBSET S : \A x \in s : Sums(f, S)[s] = f[x] + Sums(f, S)[s \ {x}]
<1> DEFINE G == Sums(f, S)
           Good == {s \in SUBSET S : \A x \in s : G[s] = f[x] + G[s \ {x}]}
<1>0. \A s \in SUBSET S : G[s] \in Nat
  BY SumsAreNat
<1>1. {} \in Good
  OBVIOUS
<1>2. ASSUME NEW s \in SUBSET S, s # {}, \A r \in SUBSET s : r # s => r \in Good
      PROVE s \in Good
  <2> DEFINE y == One(s)
  <2>1. y \in s /\ G[s] = f[y] + G[s \ {y}]
    <3>1. \A r \in (SUBSET S) \ {{}} : G[r] = f[One(r)] + G[r \ {One(r)}]
      BY SumsStep
    <3>2. y \in s
      BY <1>2 DEF One
    <3> QED BY <1>2, <3>1, <3>2
  <2> HIDE DEF y, G
  <2>2. SUFFICES ASSUME NEW x \in s, x # y PROVE G[s] = f[x] + G[s \ {x}]
    BY <2>1
  <2>3. s \ {x} \in Good /\ s \ {y} \in Good
    BY <1>2, <2>1
  <2>4. G[s \ {y}] = f[x] + G[(s \ {y}) \ {x}]
    BY <2>1, <2>2, <2>3
  <2>5. G[s \ {x}] = f[y] + G[(s \ {x}) \ {y}]
    BY <2>1, <2>2, <2>3
  <2>6. (s \ {y}) \ {x} = (s \ {x}) \ {y}
    OBVIOUS
  <2>7. PICK k \in Nat : k = G[(s \ {x}) \ {y}]
    BY <1>0
  <2>8. PICK a \in Nat, b \in Nat : a = f[x] /\ b = f[y]
    BY <2>1
  <2>9. G[s \ {y}] = a + k /\ G[s \ {x}] = b + k /\ G[s] = b + G[s \ {y}]
    BY <2>1, <2>4, <2>5, <2>6, <2>7, <2>8
  <2> QED BY <2>8, <2>9
<1> HIDE DEF Good
<1>3. SUBSET S \subseteq Good
  BY <1>1, <1>2, SubsetInduction
<1> QED BY <1>3 DEF Good

\* A sum knows its summands only.
LEMMA SumsAlike ==
  ASSUME NEW f, NEW g, NEW S, NEW R, IsFiniteSet(S), IsFiniteSet(R), R \subseteq S,
         \A x \in R : f[x] = g[x]
  PROVE  Sums(f, S)[R] = Sums(g, R)[R]
<1> DEFINE Good == {s \in SUBSET R : Sums(f, S)[s] = Sums(g, R)[s]}
<1>1. {} \in Good
  BY SumsStep
<1>2. ASSUME NEW s \in SUBSET R, s # {}, \A r \in SUBSET s : r # s => r \in Good
      PROVE s \in Good
  <2>1. One(s) \in s
    BY <1>2 DEF One
  <2>2. s \ {One(s)} \in Good
    BY <1>2, <2>1
  <2>3. Sums(f, S)[s] = f[One(s)] + Sums(f, S)[s \ {One(s)}]
    BY <1>2, SumsStep
  <2>4. Sums(g, R)[s] = g[One(s)] + Sums(g, R)[s \ {One(s)}]
    <3>1. \A r \in (SUBSET R) \ {{}} : Sums(g, R)[r] = g[One(r)] + Sums(g, R)[r \ {One(r)}]
      BY SumsStep
    <3> QED BY <1>2, <3>1
  <2> QED BY <2>1, <2>2, <2>3, <2>4
<1> HIDE DEF Good
<1>3. SUBSET R \subseteq Good
  BY <1>1, <1>2, SubsetInduction
<1> QED BY <1>3 DEF Good

\* The sum over nothing, and that sums are natural numbers.
LEMMA SumType ==
  ASSUME NEW f, NEW S, IsFiniteSet(S), \A x \in S : f[x] \in Nat
  PROVE  SumFunctionOnSet(f, S) \in Nat
BY SumIsSums, SumsAreNat

\* The empty sum is zero.
LEMMA SumOfNone == \A f : SumFunctionOnSet(f, {}) = 0
BY SumIsSums, SumsStep, FS_EmptySet

\* Functions that agree on a set have one sum over it.
LEMMA SumSame ==
  ASSUME NEW f, NEW g, NEW S, IsFiniteSet(S), \A x \in S : f[x] = g[x]
  PROVE  SumFunctionOnSet(f, S) = SumFunctionOnSet(g, S)
BY SumIsSums, SumsAlike

\* One summand apart from the others.
LEMMA SumApart ==
  ASSUME NEW f, NEW S, IsFiniteSet(S), \A x \in S : f[x] \in Nat, NEW x \in S
  PROVE  SumFunctionOnSet(f, S) = f[x] + SumFunctionOnSet(f, S \ {x})
<1>1. Sums(f, S)[S] = f[x] + Sums(f, S)[S \ {x}]
  BY SumsAnyFirst
<1>2. IsFiniteSet(S \ {x})
  BY FS_Subset
<1>3. Sums(f, S)[S \ {x}] = Sums(f, S \ {x})[S \ {x}]
  <2>1. PICK R : R = S \ {x}
    OBVIOUS
  <2>2. IsFiniteSet(R) /\ R \subseteq S /\ \A y \in R : f[y] = f[y]
    BY <1>2, <2>1
  <2>3. Sums(f, S)[R] = Sums(f, R)[R]
    BY <2>2, SumsAlike
  <2> QED BY <2>1, <2>3
<1> QED BY <1>1, <1>3, SumIsSums

\* What becomes of a sum when one summand changes.
LEMMA SumChange ==
  ASSUME NEW f, NEW g, NEW S, IsFiniteSet(S), NEW x \in S,
         \A y \in S : f[y] \in Nat /\ g[y] \in Nat,
         \A y \in S : y # x => f[y] = g[y]
  PROVE  SumFunctionOnSet(g, S) = SumFunctionOnSet(f, S) - f[x] + g[x]
<1>1. IsFiniteSet(S \ {x})
  BY FS_Subset
<1>2. PICK k \in Nat : k = SumFunctionOnSet(f, S \ {x})
  BY <1>1, SumType
<1>3. SumFunctionOnSet(g, S \ {x}) = k
  BY <1>1, <1>2, SumSame
<1>4. SumFunctionOnSet(f, S) = f[x] + k
  BY <1>2, SumApart
<1>5. SumFunctionOnSet(g, S) = g[x] + k
  BY <1>3, SumApart
<1> QED BY <1>4, <1>5

\* No summand exceeds the sum.
LEMMA SumAtLeast ==
  ASSUME NEW f, NEW S, IsFiniteSet(S), \A x \in S : f[x] \in Nat, NEW x \in S
  PROVE  f[x] <= SumFunctionOnSet(f, S)
<1>1. IsFiniteSet(S \ {x})
  BY FS_Subset
<1>2. PICK k \in Nat : k = SumFunctionOnSet(f, S \ {x})
  BY <1>1, SumType
<1>3. SumFunctionOnSet(f, S) = f[x] + k
  BY <1>2, SumApart
<1> QED BY <1>3

\* A sum of zeros is zero.
LEMMA SumOfZeros ==
  ASSUME NEW f, NEW S, IsFiniteSet(S), \A x \in S : f[x] = 0
  PROVE  SumFunctionOnSet(f, S) = 0
<1> DEFINE Good == {s \in SUBSET S : SumFunctionOnSet(f, s) = 0}
<1>1. {} \in Good
  BY SumOfNone
<1>2. ASSUME NEW s \in SUBSET S, s # {}, \A r \in SUBSET s : r # s => r \in Good
      PROVE s \in Good
  <2>1. PICK x \in s : TRUE
    BY <1>2
  <2>2. IsFiniteSet(s) /\ \A y \in s : f[y] \in Nat
    BY FS_Subset
  <2>3. SumFunctionOnSet(f, s) = f[x] + SumFunctionOnSet(f, s \ {x})
    BY <2>2, SumApart
  <2> QED BY <1>2, <2>3
<1> HIDE DEF Good
<1>3. SUBSET S \subseteq Good
  BY <1>1, <1>2, SubsetInduction
<1> QED BY <1>3 DEF Good

\* The sum over fewer is not larger.
LEMMA SumOfFewer ==
  ASSUME NEW f, NEW S, IsFiniteSet(S), \A x \in S : f[x] \in Nat, NEW R \in SUBSET S
  PROVE  SumFunctionOnSet(f, R) <= SumFunctionOnSet(f, S)
<1> DEFINE Good == {s \in SUBSET S : SumFunctionOnSet(f, s \cap R) <= SumFunctionOnSet(f, s)}
<1>1. {} \in Good
  <2>1. {} \cap R = {}
    OBVIOUS
  <2> QED BY <2>1, SumOfNone
<1>2. ASSUME NEW s \in SUBSET S, s # {}, \A r \in SUBSET s : r # s => r \in Good
      PROVE s \in Good
  <2>1. PICK x \in s : TRUE
    BY <1>2
  <2>2. PICK less : less = s \ {x}
    OBVIOUS
  <2>3. /\ IsFiniteSet(s) /\ IsFiniteSet(less) /\ IsFiniteSet(s \cap R) /\ IsFiniteSet(less \cap R)
    BY <2>2, FS_Subset
  <2>4. PICK a, b : a = SumFunctionOnSet(f, less \cap R) /\ b = SumFunctionOnSet(f, less)
    OBVIOUS
  <2>5. a \in Nat /\ b \in Nat /\ f[x] \in Nat
    <3>1. (\A y \in less \cap R : f[y] \in Nat) /\ (\A y \in less : f[y] \in Nat)
      BY <2>2
    <3> QED BY <2>1, <2>3, <2>4, <3>1, SumType
  <2>6. a <= b
    BY <1>2, <2>1, <2>2, <2>4
  <2>7. SumFunctionOnSet(f, s) = f[x] + b
    BY <2>1, <2>2, <2>3, <2>4, SumApart
  <2>8. CASE x \in R
    <3>1. (s \cap R) \ {x} = less \cap R /\ x \in s \cap R /\ \A y \in s \cap R : f[y] \in Nat
      BY <2>1, <2>2, <2>8
    <3>2. SumFunctionOnSet(f, s \cap R) = f[x] + SumFunctionOnSet(f, (s \cap R) \ {x})
      BY <2>3, <3>1, SumApart
    <3>3. SumFunctionOnSet(f, s \cap R) = f[x] + a
      BY <2>4, <3>1, <3>2
    <3>4. f[x] + a <= f[x] + b
      BY <2>5, <2>6
    <3> QED BY <2>7, <3>3, <3>4
  <2>9. CASE x \notin R
    <3>1. s \cap R = less \cap R
      BY <2>1, <2>2, <2>9
    <3> QED BY <2>4, <2>5, <2>6, <2>7, <3>1
  <2> QED BY <2>8, <2>9
<1> HIDE DEF Good
<1>3. SUBSET S \subseteq Good
  BY <1>1, <1>2, SubsetInduction
<1>4. S \cap R = R /\ S \in Good
  BY <1>3
<1> QED BY <1>4 DEF Good
=============================================================================

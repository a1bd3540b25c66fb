---------------------------- MODULE SumTheorems ----------------------------
(***************************************************************************)
(* Induction on data, and what it gives about sums over finite sets, for   *)
(* the proofs of the components that count bytes and rows.                 *)
(*                                                                         *)
(* The induction principles are stated about sets: a property is the set   *)
(* of the numbers, or of the subsets of a finite set, that have it.  They  *)
(* follow from the well-foundedness of Nat.                                *)
(***************************************************************************)
EXTENDS Integers, Functions, FiniteSetTheorems, TLAPS

(* The less-than relation on Nat is a well-founded set of pairs.            *)
LEMMA LessThanOnNat ==
    \E R : IsWellFoundedOn(R, Nat) /\ \A x, y \in Nat : <<x, y>> \in R <=> x < y
<1>1. IsWellFoundedOn(OpToRel(<, Nat), Nat)
  BY NatLessThanWellFounded
<1>2. \A x, y \in Nat : <<x, y>> \in OpToRel(<, Nat) <=> x < y
  BY DEF OpToRel
<1> QED
  BY <1>1, <1>2, Zenon

(* A minimal element of a set, on which a relation is well founded.         *)
LEMMA MinimalElement ==
    ASSUME NEW R, NEW S, IsWellFoundedOn(R, S), NEW T, T \subseteq S, T # {}
    PROVE  \E x \in T : \A y \in T : <<y, x>> \notin R
BY WFMin

(* A set of natural numbers has a least element.                            *)
LEMMA LeastNumber ==
    ASSUME NEW T \in SUBSET Nat, T # {}
    PROVE  \E m \in T : \A k \in T : m <= k
<1>1. PICK R : IsWellFoundedOn(R, Nat) /\ \A x, y \in Nat : <<x, y>> \in R <=> x < y
  BY LessThanOnNat
<1>2. T \subseteq Nat
  OBVIOUS
<1>3. IsWellFoundedOn(R, Nat)
  BY <1>1
<1>4. \E x \in T : \A y \in T : <<y, x>> \notin R
  BY <1>2, <1>3, MinimalElement, Zenon
<1>5. PICK x \in T : \A y \in T : <<y, x>> \notin R
  BY <1>4
<1>6. ASSUME NEW k \in T PROVE x <= k
  <2>1. k \in Nat /\ x \in Nat
    BY <1>2
  <2>2. <<k, x>> \notin R
    BY <1>5
  <2>3. ~(k < x)
    BY <1>1, <2>1, <2>2, Zenon
  <2> QED
    BY <2>1, <2>3
<1> QED
  BY <1>6

(* Induction: a set that holds 0 and is closed under successors holds all   *)
(* natural numbers.                                                         *)
LEMMA NumberInduction ==
    ASSUME NEW T, 0 \in T, \A n \in Nat : n \in T => n + 1 \in T
    PROVE  Nat \subseteq T
<1> SUFFICES ASSUME Nat \ T # {} PROVE FALSE
  OBVIOUS
<1>1. PICK m \in Nat \ T : \A k \in Nat \ T : m <= k
  BY LeastNumber
<1>2. m # 0
  OBVIOUS
<1>3. m - 1 \in Nat /\ m - 1 \in T
  BY <1>1, <1>2
<1> QED
  BY <1>3

(* Induction up to a bound.                                                 *)
LEMMA IntervalInduction ==
    ASSUME NEW n \in Nat, NEW T, 0 \in T, \A k \in 0 .. n - 1 : k \in T => k + 1 \in T
    PROVE  0 .. n \subseteq T
<1> DEFINE U == {k \in Nat : k <= n => k \in T}
<1>1. 0 \in U
  OBVIOUS
<1>2. \A k \in Nat : k \in U => k + 1 \in U
  OBVIOUS
<1> HIDE DEF U
<1>3. Nat \subseteq U
  BY <1>1, <1>2, NumberInduction
<1> QED
  BY <1>3 DEF U

GoAlike(n, g, h) == g[0] = h[0] /\ \A i \in 1 .. n : g[i - 1] = h[i - 1] => g[i] = h[i]

(* Functions that begin alike and go on alike are alike.                    *)
LEMMA SameRecursion ==
    ASSUME NEW n \in Nat, NEW g, NEW h, GoAlike(n, g, h)
    PROVE  \A i \in 0 .. n : g[i] = h[i]
<1> DEFINE T == {i \in 0 .. n : g[i] = h[i]}
<1>1. 0 \in T
  BY DEF GoAlike
<1>2. ASSUME NEW k \in 0 .. n - 1, k \in T PROVE k + 1 \in T
  <2>1. k + 1 \in 1 .. n /\ k + 1 \in 0 .. n /\ k + 1 - 1 = k
    OBVIOUS
  <2> QED
    BY <1>2, <2>1 DEF GoAlike
<1>3. 0 .. n \subseteq T
  <2> HIDE DEF T
  <2> QED
    BY <1>1, <1>2, IntervalInduction
<1> QED
  BY <1>3

(* A function defined by recursion on an interval: each value is the step   *)
(* of its place, applied to the value before.                               *)
StepsStay(step, n, S) == \A i \in 1 .. n, x \in S : step[i][x] \in S
Iterates(g, n, S, base, step) ==
    /\ g \in [0 .. n -> S]
    /\ g[0] = base
    /\ \A i \in 1 .. n : g[i] = step[i][g[i - 1]]

(* There is such a function.                                                *)
LEMMA RecursionDefined ==
    ASSUME NEW n \in Nat, NEW S, NEW base \in S, NEW step, StepsStay(step, n, S)
    PROVE  \E g : Iterates(g, n, S, base, step)
<1> DEFINE Defined(k, g) == g[0] = base /\ \A i \in 1 .. k : g[i] = step[i][g[i - 1]]
           T == {k \in 0 .. n : \E g \in [0 .. k -> S] : Defined(k, g)}
<1>1. 0 \in T
  <2> DEFINE g == [i \in 0 .. 0 |-> base]
  <2>1. g \in [0 .. 0 -> S] /\ Defined(0, g)
    OBVIOUS
  <2>2. 0 \in 0 .. n
    OBVIOUS
  <2> HIDE DEF g, Defined
  <2> QED
    BY <2>1, <2>2
<1>2. ASSUME NEW k \in 0 .. n - 1, k \in T PROVE k + 1 \in T
  <2>1. PICK g \in [0 .. k -> S] : Defined(k, g)
    BY <1>2
  <2> DEFINE h == [i \in 0 .. k + 1 |-> IF i = k + 1 THEN step[k + 1][g[k]] ELSE g[i]]
  <2>2. step[k + 1][g[k]] \in S
    BY k + 1 \in 1 .. n, g[k] \in S DEF StepsStay
  <2>3. h \in [0 .. k + 1 -> S]
    BY <2>2
  <2>4. h[0] = base
    BY <2>1
  <2>5. ASSUME NEW i \in 1 .. k + 1 PROVE h[i] = step[i][h[i - 1]]
    <3>1. CASE i = k + 1
      <4>1. i - 1 = k /\ k \in 0 .. k + 1 /\ k # k + 1
        BY <3>1
      <4>2. h[i - 1] = g[k] /\ h[i] = step[k + 1][g[k]]
        BY <3>1, <4>1
      <4> QED
        BY <3>1, <4>2
    <3>2. CASE i # k + 1
      <4>1. i \in 1 .. k /\ i - 1 \in 0 .. k + 1 /\ i - 1 # k + 1
        BY <3>2
      <4> QED
        BY <2>1, <3>2, <4>1
    <3> QED
      BY <3>1, <3>2
  <2>6. k + 1 \in 0 .. n
    OBVIOUS
  <2>7. Defined(k + 1, h)
    BY <2>4, <2>5
  <2> HIDE DEF h, Defined
  <2> QED
    BY <2>3, <2>6, <2>7
<1>3. 0 .. n \subseteq T
  <2> HIDE DEF T
  <2> QED
    BY <1>1, <1>2, IntervalInduction
<1>4. PICK g \in [0 .. n -> S] : Defined(n, g)
  BY <1>3
<1> QED
  BY <1>4 DEF Iterates

-----------------------------------------------------------------------------
(* The subsets of S of at most n elements.                                  *)
Small(S, n) == {s \in SUBSET S : Cardinality(s) <= n}

(* Subsets of a finite set are finite, and have a number of elements.       *)
LEMMA SubsetsAreFinite ==
    ASSUME NEW S, IsFiniteSet(S)
    PROVE  \A s \in SUBSET S : IsFiniteSet(s) /\ Cardinality(s) \in Nat
BY FS_Subset, FS_CardinalityType

(* Removing an element of a small set leaves a smaller one.                 *)
LEMMA SmallerSet ==
    ASSUME NEW S, IsFiniteSet(S), NEW n \in Nat, NEW s \in Small(S, n + 1), NEW x \in s
    PROVE  s \ {x} \in Small(S, n)
<1>1. s \in SUBSET S /\ Cardinality(s) <= n + 1
  BY DEF Small
<1>2. IsFiniteSet(s) /\ Cardinality(s) \in Nat
  BY <1>1, SubsetsAreFinite
<1>3. Cardinality(s \ {x}) = Cardinality(s) - 1
  BY <1>2, FS_RemoveElement
<1> QED
  BY <1>1, <1>2, <1>3 DEF Small

(* Only the empty set has no element.                                       *)
LEMMA SmallestSets ==
    ASSUME NEW S, IsFiniteSet(S), NEW s \in Small(S, 0)
    PROVE  s = {}
<1>1. s \in SUBSET S /\ Cardinality(s) <= 0
  BY DEF Small
<1>2. IsFiniteSet(s) /\ Cardinality(s) = 0
  BY <1>1, SubsetsAreFinite
<1> QED
  BY <1>2, FS_EmptySet

(* Induction on the subsets of a finite set, an element at a time.          *)
LEMMA SubsetInduction ==
    ASSUME NEW S, IsFiniteSet(S), NEW B, {} \in B,
           \A s \in SUBSET S : s # {} /\ (\A x \in s : s \ {x} \in B) => s \in B
    PROVE  SUBSET S \subseteq B
<1> DEFINE T == {n \in Nat : \A s \in Small(S, n) : s \in B}
<1>1. 0 \in T
  BY SmallestSets
<1>2. ASSUME NEW n \in Nat, n \in T PROVE n + 1 \in T
  <2> SUFFICES ASSUME NEW s \in Small(S, n + 1) PROVE s \in B
    OBVIOUS
  <2>1. s \in SUBSET S
    BY DEF Small
  <2>2. \A x \in s : s \ {x} \in B
    BY <1>2, SmallerSet
  <2> QED
    BY <2>1, <2>2
<1>3. Nat \subseteq T
  BY <1>1, <1>2, NumberInduction
<1> SUFFICES ASSUME NEW s \in SUBSET S PROVE s \in B
  OBVIOUS
<1>4. Cardinality(s) \in Nat
  BY SubsetsAreFinite
<1>5. s \in Small(S, Cardinality(s))
  BY <1>4 DEF Small
<1> QED
  BY <1>3, <1>4, <1>5

-----------------------------------------------------------------------------
(* The library defines a sum by recursion over subsets, taking away an      *)
(* element that CHOOSE picks.  That such a function exists is shown for     *)
(* subsets of one more element at a time.                                   *)
Picked(s) == CHOOSE x \in s : TRUE

(* CHOOSE picks an element of the set.                                      *)
LEMMA PickedIsIn == ASSUME NEW s, s # {} PROVE Picked(s) \in s
BY DEF Picked

AddsUp(g, f, D) ==
    g = [s \in D |-> IF s = {} THEN 0 ELSE f[Picked(s)] + g[s \ {Picked(s)}]]

Adder(f, S) == CHOOSE g : AddsUp(g, f, SUBSET S)

(* What the library's definition says.                                      *)
LEMMA SumDefinition == ASSUME NEW f, NEW S PROVE SumFunctionOnSet(f, S) = Adder(f, S)[S]
BY DEF SumFunctionOnSet, FoldFunctionOnSet, MapThenFoldSet, AddsUp, Adder, Picked

(* There is a function that adds up the subsets of a finite set.            *)
LEMMA AdderAddsUp ==
    ASSUME NEW f, NEW S, IsFiniteSet(S)
    PROVE  AddsUp(Adder(f, S), f, SUBSET S)
<1> DEFINE T == {n \in Nat : \E g : AddsUp(g, f, Small(S, n))}
<1>1. 0 \in T
  <2>1. AddsUp([s \in Small(S, 0) |-> 0], f, Small(S, 0))
    BY SmallestSets DEF AddsUp
  <2> QED
    BY <2>1
<1>2. ASSUME NEW n \in Nat, n \in T PROVE n + 1 \in T
  <2>1. PICK g : AddsUp(g, f, Small(S, n))
    BY <1>2
  <2> DEFINE h == [s \in Small(S, n + 1) |->
                     IF s = {} THEN 0 ELSE f[Picked(s)] + g[s \ {Picked(s)}]]
  <2>2. \A s \in Small(S, n + 1) : s # {} => s \ {Picked(s)} \in Small(S, n)
    BY SmallerSet, PickedIsIn
  <2>3. \A s \in Small(S, n) : s \in Small(S, n + 1)
    <3> SUFFICES ASSUME NEW s \in Small(S, n) PROVE s \in Small(S, n + 1)
      OBVIOUS
    <3>1. s \in SUBSET S /\ Cardinality(s) <= n
      BY DEF Small
    <3>2. Cardinality(s) \in Nat
      BY <3>1, SubsetsAreFinite
    <3> QED
      BY <3>1, <3>2 DEF Small
  <2>4. \A s \in Small(S, n) : h[s] = g[s]
    BY <2>1, <2>3 DEF AddsUp
  <2>5. \A s \in Small(S, n + 1) :
           h[s] = IF s = {} THEN 0 ELSE f[Picked(s)] + h[s \ {Picked(s)}]
    BY <2>2, <2>4
  <2>6. h = [s \in Small(S, n + 1) |-> h[s]]
    OBVIOUS
  <2> HIDE DEF h
  <2>7. AddsUp(h, f, Small(S, n + 1))
    BY <2>5, <2>6 DEF AddsUp
  <2> QED
    BY <2>7
<1>3. Cardinality(S) \in T
  <2>1. Nat \subseteq T
    BY <1>1, <1>2, NumberInduction
  <2> QED
    BY <2>1, FS_CardinalityType
<1>4. Small(S, Cardinality(S)) = SUBSET S
  BY FS_Subset DEF Small
<1> QED
  BY <1>3, <1>4 DEF Adder

(* One adder serves all subsets of its set.                                 *)
LEMMA SumOfSubset ==
    ASSUME NEW f, NEW S, IsFiniteSet(S), NEW T \in SUBSET S
    PROVE  SumFunctionOnSet(f, T) = Adder(f, S)[T]
<1> DEFINE B == {s \in SUBSET T : Adder(f, T)[s] = Adder(f, S)[s]}
<1>1. AddsUp(Adder(f, S), f, SUBSET S)
  BY AdderAddsUp
<1>2. IsFiniteSet(T)
  BY SubsetsAreFinite
<1>3. AddsUp(Adder(f, T), f, SUBSET T)
  BY <1>2, AdderAddsUp
<1>4. {} \in B
  BY <1>1, <1>3 DEF AddsUp
<1>5. ASSUME NEW s \in SUBSET T, s # {}, \A x \in s : s \ {x} \in B PROVE s \in B
  <2>1. Picked(s) \in s
    BY <1>5, PickedIsIn
  <2>2. Adder(f, T)[s \ {Picked(s)}] = Adder(f, S)[s \ {Picked(s)}]
    BY <1>5, <2>1
  <2>3. Adder(f, T)[s] = f[Picked(s)] + Adder(f, T)[s \ {Picked(s)}]
    BY <1>3, <1>5 DEF AddsUp
  <2>4. Adder(f, S)[s] = f[Picked(s)] + Adder(f, S)[s \ {Picked(s)}]
    BY <1>1, <1>5 DEF AddsUp
  <2> QED
    BY <2>2, <2>3, <2>4
<1> HIDE DEF B
<1>6. SUBSET T \subseteq B
  BY <1>2, <1>4, <1>5, SubsetInduction
<1>7. Adder(f, T)[T] = Adder(f, S)[T]
  BY <1>6 DEF B
<1> QED
  BY <1>7, SumDefinition

(* The recursion equation of a sum.                                         *)
LEMMA SumUnfolds ==
    ASSUME NEW f, NEW S, IsFiniteSet(S)
    PROVE  SumFunctionOnSet(f, S) =
              IF S = {} THEN 0 ELSE f[Picked(S)] + SumFunctionOnSet(f, S \ {Picked(S)})
<1>1. AddsUp(Adder(f, S), f, SUBSET S)
  BY AdderAddsUp
<1>2. S \in SUBSET S /\ S \ {Picked(S)} \in SUBSET S
  OBVIOUS
<1>3. SumFunctionOnSet(f, S) = Adder(f, S)[S]
  BY <1>2, SumOfSubset
<1>4. SumFunctionOnSet(f, S \ {Picked(S)}) = Adder(f, S)[S \ {Picked(S)}]
  BY <1>2, SumOfSubset
<1> QED
  BY <1>1, <1>2, <1>3, <1>4 DEF AddsUp

(* The sum of nothing.                                                      *)
LEMMA SumOfNothing == ASSUME NEW f PROVE SumFunctionOnSet(f, {}) = 0
BY SumUnfolds, FS_EmptySet

(* A sum of integers is an integer.                                         *)
LEMMA SumIsInteger ==
    ASSUME NEW S, IsFiniteSet(S), NEW f, \A x \in S : f[x] \in Int
    PROVE  SumFunctionOnSet(f, S) \in Int
<1> DEFINE B == {s \in SUBSET S : SumFunctionOnSet(f, s) \in Int}
<1>1. {} \in B
  BY SumOfNothing
<1>2. ASSUME NEW s \in SUBSET S, s # {}, \A x \in s : s \ {x} \in B PROVE s \in B
  <2>1. Picked(s) \in s /\ IsFiniteSet(s)
    BY <1>2, PickedIsIn, SubsetsAreFinite
  <2>2. SumFunctionOnSet(f, s) = f[Picked(s)] + SumFunctionOnSet(f, s \ {Picked(s)})
    BY <1>2, <2>1, SumUnfolds
  <2>3. SumFunctionOnSet(f, s \ {Picked(s)}) \in Int /\ f[Picked(s)] \in Int
    BY <1>2, <2>1
  <2> QED
    BY <2>2, <2>3
<1> HIDE DEF B
<1>3. SUBSET S \subseteq B
  BY <1>1, <1>2, SubsetInduction
<1> QED
  BY <1>3 DEF B

(* Any element may be taken out of a sum.                                   *)
LEMMA SumRemove ==
    ASSUME NEW S, IsFiniteSet(S), NEW f, \A x \in S : f[x] \in Int, NEW e \in S
    PROVE  SumFunctionOnSet(f, S) = f[e] + SumFunctionOnSet(f, S \ {e})
<1> DEFINE Sum(s) == SumFunctionOnSet(f, s)
           B == {s \in SUBSET S : \A x \in s : Sum(s) = f[x] + Sum(s \ {x})}
<1>1. {} \in B
  OBVIOUS
<1>2. ASSUME NEW s \in SUBSET S, s # {}, \A x \in s : s \ {x} \in B PROVE s \in B
  <2> SUFFICES ASSUME NEW x \in s PROVE Sum(s) = f[x] + Sum(s \ {x})
    OBVIOUS
  <2> DEFINE c == Picked(s)
  <2>1. c \in s /\ IsFiniteSet(s)
    BY <1>2, PickedIsIn, SubsetsAreFinite
  <2>2. Sum(s) = f[c] + Sum(s \ {c})
    BY <1>2, <2>1, SumUnfolds
  <2> HIDE DEF c
  <2>3. CASE x = c
    BY <2>2, <2>3
  <2>4. CASE x # c
    <3> DEFINE t == (s \ {c}) \ {x}
    <3>1. Sum(s \ {c}) = f[x] + Sum(t)
      BY <1>2, <2>1, <2>4
    <3>2. Sum(s \ {x}) = f[c] + Sum((s \ {x}) \ {c})
      BY <1>2, <2>1, <2>4
    <3>3. t = (s \ {x}) \ {c} /\ t \in SUBSET S
      OBVIOUS
    <3> HIDE DEF t
    <3>4. IsFiniteSet(t) /\ \A y \in t : f[y] \in Int
      BY <3>3, SubsetsAreFinite
    <3>5. Sum(t) \in Int
      BY <3>4, SumIsInteger
    <3>6. f[x] \in Int /\ f[c] \in Int
      BY <2>1
    <3> HIDE DEF Sum
    <3> QED
      BY <2>2, <3>1, <3>2, <3>3, <3>5, <3>6
  <2> QED
    BY <2>3, <2>4
<1> HIDE DEF B
<1>3. SUBSET S \subseteq B
  BY <1>1, <1>2, SubsetInduction
<1> QED
  BY <1>3 DEF B

(* A new element adds its value.                                            *)
LEMMA SumAdd ==
    ASSUME NEW S, IsFiniteSet(S), NEW e, e \notin S, NEW f, \A x \in S \cup {e} : f[x] \in Int
    PROVE  SumFunctionOnSet(f, S \cup {e}) = f[e] + SumFunctionOnSet(f, S)
<1>1. IsFiniteSet(S \cup {e})
  BY FS_AddElement
<1>2. (S \cup {e}) \ {e} = S
  OBVIOUS
<1> QED
  BY <1>1, <1>2, SumRemove

(* A sum depends on the values of its elements only.                        *)
LEMMA SumCongruent ==
    ASSUME NEW S, IsFiniteSet(S), NEW f, NEW g, \A x \in S : f[x] = g[x]
    PROVE  SumFunctionOnSet(f, S) = SumFunctionOnSet(g, S)
<1> DEFINE B == {s \in SUBSET S : SumFunctionOnSet(f, s) = SumFunctionOnSet(g, s)}
<1>1. {} \in B
  BY SumOfNothing
<1>2. ASSUME NEW s \in SUBSET S, s # {}, \A x \in s : s \ {x} \in B PROVE s \in B
  <2>1. Picked(s) \in s /\ IsFiniteSet(s)
    BY <1>2, PickedIsIn, SubsetsAreFinite
  <2>2. SumFunctionOnSet(f, s) = f[Picked(s)] + SumFunctionOnSet(f, s \ {Picked(s)})
    BY <1>2, <2>1, SumUnfolds
  <2>3. SumFunctionOnSet(g, s) = g[Picked(s)] + SumFunctionOnSet(g, s \ {Picked(s)})
    BY <1>2, <2>1, SumUnfolds
  <2>4. SumFunctionOnSet(f, s \ {Picked(s)}) = SumFunctionOnSet(g, s \ {Picked(s)})
    BY <1>2, <2>1
  <2> QED
    BY <2>1, <2>2, <2>3, <2>4
<1> HIDE DEF B
<1>3. SUBSET S \subseteq B
  BY <1>1, <1>2, SubsetInduction
<1> QED
  BY <1>3 DEF B

(* A sum of natural numbers is one, and not less than any part of it.       *)
LEMMA SumIsNatural ==
    ASSUME NEW S, IsFiniteSet(S), NEW f, \A x \in S : f[x] \in Nat
    PROVE  /\ SumFunctionOnSet(f, S) \in Nat
           /\ \A x \in S : f[x] <= SumFunctionOnSet(f, S)
<1> DEFINE B == {s \in SUBSET S : SumFunctionOnSet(f, s) \in Nat}
<1>1. {} \in B
  BY SumOfNothing
<1>2. ASSUME NEW s \in SUBSET S, s # {}, \A x \in s : s \ {x} \in B PROVE s \in B
  <2>1. Picked(s) \in s /\ IsFiniteSet(s)
    BY <1>2, PickedIsIn, SubsetsAreFinite
  <2>2. SumFunctionOnSet(f, s) = f[Picked(s)] + SumFunctionOnSet(f, s \ {Picked(s)})
    BY <1>2, <2>1, SumUnfolds
  <2>3. SumFunctionOnSet(f, s \ {Picked(s)}) \in Nat /\ f[Picked(s)] \in Nat
    BY <1>2, <2>1
  <2> QED
    BY <2>2, <2>3
<1> HIDE DEF B
<1>3. SUBSET S \subseteq B
  BY <1>1, <1>2, SubsetInduction
<1>4. ASSUME NEW x \in S PROVE f[x] <= SumFunctionOnSet(f, S)
  <2>1. SumFunctionOnSet(f, S) = f[x] + SumFunctionOnSet(f, S \ {x})
    BY SumRemove
  <2>2. SumFunctionOnSet(f, S \ {x}) \in Nat
    BY <1>3 DEF B
  <2> QED
    BY <2>1, <2>2
<1> QED
  BY <1>3, <1>4 DEF B

(* Summands that are at most b sum up to at most b for each of them.        *)
LEMMA SumIsBounded ==
    ASSUME NEW S, IsFiniteSet(S), NEW f, NEW b \in Nat, \A x \in S : f[x] \in Nat /\ f[x] <= b
    PROVE  SumFunctionOnSet(f, S) <= b * Cardinality(S)
<1> DEFINE Sum(s) == SumFunctionOnSet(f, s)
           B == {s \in SUBSET S : Sum(s) <= b * Cardinality(s)}
<1>1. {} \in B
  <2>1. Cardinality({}) = 0 /\ Sum({}) = 0
    BY SumOfNothing, FS_EmptySet
  <2> QED
    BY <2>1
<1>2. ASSUME NEW s \in SUBSET S, s # {}, \A x \in s : s \ {x} \in B PROVE s \in B
  <2> DEFINE c == Picked(s)
             t == s \ {c}
  <2>1. c \in s /\ IsFiniteSet(s)
    BY <1>2, PickedIsIn, SubsetsAreFinite
  <2>2. Sum(s) = f[c] + Sum(t)
    BY <1>2, <2>1, SumUnfolds
  <2>3. Sum(t) <= b * Cardinality(t)
    BY <1>2, <2>1
  <2>4. Cardinality(t) = Cardinality(s) - 1 /\ Cardinality(s) \in Nat \ {0}
    BY <1>2, <2>1, FS_RemoveElement, FS_CardinalityType, FS_EmptySet
  <2>5. f[c] \in Nat /\ f[c] <= b
    BY <2>1
  <2>6. Sum(t) \in Nat
    <3>1. IsFiniteSet(t) /\ \A x \in t : f[x] \in Nat
      BY SubsetsAreFinite
    <3> QED
      BY <3>1, SumIsNatural
  <2> HIDE DEF c, t, Sum
  <2>7. \A k \in Nat : b * (k + 1) = b * k + b /\ b * k \in Nat
    OBVIOUS
  <2>8. PICK k \in Nat : Cardinality(t) = k /\ Cardinality(s) = k + 1
    BY <2>4
  <2>9. Sum(s) <= b * Cardinality(s)
    BY <2>2, <2>3, <2>5, <2>6, <2>7, <2>8
  <2> QED
    BY <2>9
<1> HIDE DEF B
<1>3. SUBSET S \subseteq B
  BY <1>1, <1>2, SubsetInduction
<1> QED
  BY <1>3 DEF B

(* A summand that is zero may be left out, and so may any number of them.   *)
LEMMA SumOfSupport ==
    ASSUME NEW S, IsFiniteSet(S), NEW f, \A x \in S : f[x] \in Int,
           NEW T \in SUBSET S, \A x \in S \ T : f[x] = 0
    PROVE  SumFunctionOnSet(f, S) = SumFunctionOnSet(f, T)
<1> DEFINE Sum(s) == SumFunctionOnSet(f, s)
           B == {s \in SUBSET (S \ T) : Sum(T \cup s) = Sum(T)}
<1>1. {} \in B
  <2>1. T \cup {} = T
    OBVIOUS
  <2> QED
    BY <2>1
<1>2. ASSUME NEW s \in SUBSET (S \ T), s # {}, \A x \in s : s \ {x} \in B PROVE s \in B
  <2> DEFINE c == Picked(s)
             t == T \cup s
  <2>1. c \in s /\ c \in t /\ c \in S \ T
    BY <1>2, PickedIsIn
  <2>2. IsFiniteSet(t) /\ (\A x \in t : f[x] \in Int) /\ t \ {c} = T \cup (s \ {c})
    BY <2>1, SubsetsAreFinite
  <2>3. Sum(t) = f[c] + Sum(t \ {c})
    BY <2>1, <2>2, SumRemove
  <2>4. Sum(t \ {c}) = Sum(T)
    BY <1>2, <2>1, <2>2
  <2>5. Sum(T) \in Int /\ f[c] = 0
    <3>1. IsFiniteSet(T) /\ \A x \in T : f[x] \in Int
      BY SubsetsAreFinite
    <3> QED
      BY <2>1, <3>1, SumIsInteger
  <2> HIDE DEF c, t, Sum
  <2>6. Sum(t) = Sum(T)
    BY <2>3, <2>4, <2>5
  <2> QED
    BY <2>6 DEF t
<1> HIDE DEF B
<1>3. IsFiniteSet(S \ T)
  BY SubsetsAreFinite
<1>4. SUBSET (S \ T) \subseteq B
  BY <1>1, <1>2, <1>3, SubsetInduction
<1>5. T \cup (S \ T) = S /\ S \ T \in B
  BY <1>4
<1> QED
  BY <1>5 DEF B

(* Part of a sum of natural numbers is at most the whole.                   *)
LEMMA SumOfPart ==
    ASSUME NEW S, IsFiniteSet(S), NEW f, \A x \in S : f[x] \in Nat, NEW T \in SUBSET S
    PROVE  SumFunctionOnSet(f, T) <= SumFunctionOnSet(f, S)
<1> DEFINE Sum(s) == SumFunctionOnSet(f, s)
           B == {s \in SUBSET (S \ T) : Sum(T) <= Sum(T \cup s)}
<1>1. {} \in B
  <2>1. T \cup {} = T
    OBVIOUS
  <2>2. Sum(T) \in Nat
    <3>1. IsFiniteSet(T) /\ \A x \in T : f[x] \in Nat
      BY SubsetsAreFinite
    <3> QED
      BY <3>1, SumIsNatural
  <2> QED
    BY <2>1, <2>2
<1>2. ASSUME NEW s \in SUBSET (S \ T), s # {}, \A x \in s : s \ {x} \in B PROVE s \in B
  <2> DEFINE c == Picked(s)
             t == T \cup s
  <2>1. c \in s /\ c \in t /\ f[c] \in Nat
    BY <1>2, PickedIsIn
  <2>2. IsFiniteSet(t) /\ (\A x \in t : f[x] \in Int) /\ t \ {c} = T \cup (s \ {c})
    BY <2>1, SubsetsAreFinite
  <2>3. Sum(t) = f[c] + Sum(t \ {c})
    BY <2>1, <2>2, SumRemove
  <2>4. Sum(T) <= Sum(t \ {c})
    BY <1>2, <2>1, <2>2
  <2>5. Sum(T) \in Int /\ Sum(t \ {c}) \in Int
    <3>1. /\ IsFiniteSet(T) /\ \A x \in T : f[x] \in Int
          /\ IsFiniteSet(t \ {c}) /\ \A x \in t \ {c} : f[x] \in Int
      BY <2>2, SubsetsAreFinite
    <3> QED
      BY <3>1, SumIsInteger
  <2> HIDE DEF c, t, Sum
  <2>6. Sum(T) <= Sum(t)
    BY <2>1, <2>3, <2>4, <2>5
  <2> QED
    BY <2>6 DEF t
<1> HIDE DEF B
<1>3. IsFiniteSet(S \ T)
  BY SubsetsAreFinite
<1>4. SUBSET (S \ T) \subseteq B
  BY <1>1, <1>2, <1>3, SubsetInduction
<1>5. T \cup (S \ T) = S /\ S \ T \in B
  BY <1>4
<1> QED
  BY <1>5 DEF B
=============================================================================

----------------------------- MODULE SumLemmas ------------------------------
(***************************************************************************)
(* What the models need of MapThenSumSet, the sum of a function over a     *)
(* finite set: it is a number, it may be taken in any order, and it does   *)
(* not depend on how the summands are indexed.  The library defines it by  *)
(* recursion over subsets, with an element that CHOOSE picks.              *)
(***************************************************************************)
EXTENDS Integers, FiniteSetsExt, FiniteSetTheorems, WellFoundedInduction, TLAPS

(* Induction over 0 .. n, the fact given as the set of its instances. *)
LEMMA InductionUpTo ==
    ASSUME NEW n \in Nat, NEW S,
           0 \in S, \A i \in 0 .. n - 1 : i \in S => i + 1 \in S
    PROVE  \A i \in 0 .. n : i \in S
<1> DEFINE R == OpToRel(<, Nat)
           T == {k \in 0 .. n : k \notin S}
<1> SUFFICES ASSUME T # {} PROVE FALSE
  OBVIOUS
<1>1. IsWellFoundedOn(R, Nat)
  BY NatLessThanWellFounded
<1>2. \A x, y \in Nat : x < y => <<x, y>> \in R
  BY DEF OpToRel
<1>3. T \subseteq Nat
  OBVIOUS
<1>4. \A k \in T : k - 1 \in T /\ k - 1 < k
  <2> TAKE k \in T
  <2>1. k # 0 /\ k \in 0 .. n /\ k \notin S
    OBVIOUS
  <2>2. k - 1 \in 0 .. n - 1 /\ k - 1 \in 0 .. n /\ (k - 1) + 1 = k
    BY <2>1
  <2>3. k - 1 \notin S
    BY <2>1, <2>2
  <2> QED
    BY <2>2, <2>3
<1> HIDE DEF R, T
<1>5. PICK x \in T : \A y \in T : ~ (<<y, x>> \in R)
  BY <1>1, <1>3, WFMin
<1>6. x - 1 \in T /\ x - 1 < x
  BY <1>4
<1> QED
  BY <1>2, <1>3, <1>5, <1>6

-----------------------------------------------------------------------------
SumOver(e, A) == MapThenSumSet(LAMBDA a : e[a], A)

Picked(s) == CHOOSE x \in s : TRUE

(* g adds up e over the subsets of A, by the recursion of the library. *)
SumsUp(g, e, A) ==
    g = [s \in SUBSET A |-> IF s = {} THEN 0 ELSE e[Picked(s)] + g[s \ {Picked(s)}]]

SumOf(e, A) == CHOOSE g : SumsUp(g, e, A)

LEMMA SumUnfolds ==
    ASSUME NEW A, NEW e
    PROVE  SumOver(e, A) = SumOf(e, A)[A]
  BY DEF SumOver, MapThenSumSet, MapThenFoldSet, SumOf, SumsUp, Picked

(* Taking one element away from a finite set. *)
LEMMA OneLess ==
    ASSUME NEW A, IsFiniteSet(A), NEW s \in SUBSET A, NEW x \in s
    PROVE  /\ IsFiniteSet(s) /\ s \ {x} \in SUBSET A
           /\ Cardinality(s) \in Nat \ {0}
           /\ Cardinality(s \ {x}) = Cardinality(s) - 1
<1>1. IsFiniteSet(s)
  BY FS_Subset
<1>2. Cardinality(s) \in Nat /\ Cardinality(s \ {x}) = Cardinality(s) - 1
  BY <1>1, FS_CardinalityType, FS_RemoveElement
<1>3. Cardinality(s \ {x}) \in Nat
  BY <1>1, FS_CardinalityType, FS_RemoveElement
<1> QED
  BY <1>1, <1>2, <1>3

LEMMA PickedIsIn ==
    ASSUME NEW s, s # {}
    PROVE  Picked(s) \in s
  BY DEF Picked

(* A fact that passes from the smaller subsets of A to the larger ones     *)
(* holds for all of them.                                                  *)
LEMMA SubsetInduction ==
    ASSUME NEW A, IsFiniteSet(A), NEW S,
           {} \in S,
           \A s \in SUBSET A : s # {} /\ (\A x \in s : s \ {x} \in S) => s \in S
    PROVE  \A s \in SUBSET A : s \in S
<1> DEFINE n == Cardinality(A)
           D == {k \in Nat : \A s \in SUBSET A : Cardinality(s) = k => s \in S}
<1>1. n \in Nat
  BY FS_CardinalityType
<1>2. \A s \in SUBSET A : IsFiniteSet(s) /\ Cardinality(s) \in 0 .. n
  BY <1>1, FS_Subset, FS_CardinalityType
<1>3. 0 \in D
  <2>1. \A s \in SUBSET A : Cardinality(s) = 0 => s = {}
    BY <1>2, FS_EmptySet
  <2> QED
    BY <2>1
<1>4. ASSUME NEW i \in 0 .. n - 1, i \in D PROVE i + 1 \in D
  <2> SUFFICES ASSUME NEW s \in SUBSET A, Cardinality(s) = i + 1 PROVE s \in S
    BY <1>1
  <2>1. s # {}
    <3>1. i + 1 # 0
      BY <1>1
    <3> QED
      BY <3>1, FS_EmptySet
  <2>2. ASSUME NEW x \in s PROVE s \ {x} \in S
    <3>1. s \ {x} \in SUBSET A /\ Cardinality(s \ {x}) = i
      BY <1>1, OneLess
    <3> QED
      BY <1>4, <3>1
  <2> QED
    BY <2>1, <2>2
<1> HIDE DEF D
<1>5. \A i \in 0 .. n - 1 : i \in D => i + 1 \in D
  BY <1>4
<1>6. \A i \in 0 .. n : i \in D
  BY <1>1, <1>3, <1>5, InductionUpTo
<1> QED
  BY <1>2, <1>6 DEF D

(* The recursion has a solution, with integer values. *)
LEMMA SumExists ==
    ASSUME NEW A, IsFiniteSet(A), NEW e, \A a \in A : e[a] \in Int
    PROVE  \E g \in [SUBSET A -> Int] : SumsUp(g, e, A)
<1> DEFINE n == Cardinality(A)
           D(k) == {s \in SUBSET A : Cardinality(s) <= k}
           Step(g, s) == IF s = {} THEN 0 ELSE e[Picked(s)] + g[s \ {Picked(s)}]
           S == {k \in Nat : \E g \in [D(k) -> Int] : \A s \in D(k) : g[s] = Step(g, s)}
<1>1. n \in Nat
  BY FS_CardinalityType
<1>2. \A s \in SUBSET A : IsFiniteSet(s) /\ Cardinality(s) \in 0 .. n
  BY <1>1, FS_Subset, FS_CardinalityType
<1>3. 0 \in S
  <2> DEFINE g0 == [s \in D(0) |-> 0]
  <2>1. \A s \in D(0) : s = {}
    BY <1>2, FS_EmptySet
  <2>2. g0 \in [D(0) -> Int] /\ \A s \in D(0) : g0[s] = Step(g0, s)
    BY <2>1
  <2> QED
    BY <2>2
<1>4. ASSUME NEW i \in 0 .. n - 1, i \in S PROVE i + 1 \in S
  <2>0. i \in Nat
    BY <1>1
  <2>1. PICK g \in [D(i) -> Int] : \A s \in D(i) : g[s] = Step(g, s)
    BY <1>4
  <2> DEFINE h == [s \in D(i + 1) |-> Step(g, s)]
  <2>2. ASSUME NEW s \in D(i + 1), s # {}
        PROVE  Picked(s) \in A /\ s \ {Picked(s)} \in D(i) /\ s \ {Picked(s)} \in D(i + 1)
    <3>1. Picked(s) \in s
      BY <2>2, PickedIsIn
    <3>2. s \ {Picked(s)} \in SUBSET A /\ Cardinality(s \ {Picked(s)}) = Cardinality(s) - 1
      BY <3>1, OneLess
    <3>3. Cardinality(s) \in Nat /\ Cardinality(s) <= i + 1
      BY <1>2
    <3> QED
      BY <2>0, <3>1, <3>2, <3>3
  <2>3. ASSUME NEW s \in D(i + 1) PROVE Step(g, s) \in Int
    <3> CASE s = {}
      OBVIOUS
    <3> CASE s # {}
      <4>1. e[Picked(s)] \in Int /\ g[s \ {Picked(s)}] \in Int
        BY <2>2
      <4> QED
        BY <4>1
    <3> QED
      OBVIOUS
  <2>4. h \in [D(i + 1) -> Int]
    BY <2>3
  <2>5. \A s \in D(i) : s \in D(i + 1) /\ h[s] = g[s]
    <3> TAKE s \in D(i)
    <3>1. s \in D(i + 1)
      BY <1>2, <2>0
    <3> QED
      BY <2>1, <3>1
  <2>6. ASSUME NEW s \in D(i + 1) PROVE h[s] = Step(h, s)
    <3> CASE s = {}
      OBVIOUS
    <3> CASE s # {}
      <4>1. h[s \ {Picked(s)}] = g[s \ {Picked(s)}]
        BY <2>2, <2>5
      <4> QED
        BY <4>1
    <3> QED
      OBVIOUS
  <2>7. i + 1 \in Nat
    BY <2>0
  <2> HIDE DEF D, Step, h
  <2> QED
    BY <2>4, <2>6, <2>7
<1>5. PICK g \in [D(n) -> Int] : \A s \in D(n) : g[s] = Step(g, s)
  <2> HIDE DEF S
  <2>1. \A i \in 0 .. n - 1 : i \in S => i + 1 \in S
    BY <1>4
  <2>2. n \in S
    BY <1>1, <1>3, <2>1, InductionUpTo
  <2> QED
    BY <2>2 DEF S
<1>6. D(n) = SUBSET A
  BY <1>1, <1>2
<1>7. g = [s \in SUBSET A |-> Step(g, s)]
  BY <1>5, <1>6
<1> QED
  BY <1>5, <1>6, <1>7 DEF SumsUp

(* Two solutions agree on the sets for which both are solutions. *)
LEMMA SumUnique ==
    ASSUME NEW A, IsFiniteSet(A), NEW B \in SUBSET A, NEW e, NEW g, NEW h,
           SumsUp(g, e, A), SumsUp(h, e, B)
    PROVE  \A s \in SUBSET B : g[s] = h[s]
<1> DEFINE S == {s \in SUBSET B : g[s] = h[s]}
<1>1. IsFiniteSet(B)
  BY FS_Subset
<1>2. {} \in S
  BY DEF SumsUp
<1>3. ASSUME NEW s \in SUBSET B, s # {}, \A x \in s : s \ {x} \in S PROVE s \in S
  <2>1. Picked(s) \in s
    BY <1>3, PickedIsIn
  <2>2. g[s \ {Picked(s)}] = h[s \ {Picked(s)}]
    BY <1>3, <2>1
  <2>3. /\ g[s] = e[Picked(s)] + g[s \ {Picked(s)}]
        /\ h[s] = e[Picked(s)] + h[s \ {Picked(s)}]
    BY <1>3 DEF SumsUp
  <2> QED
    BY <2>2, <2>3
<1> HIDE DEF S
<1>4. \A s \in SUBSET B : s \in S
  BY <1>1, <1>2, <1>3, SubsetInduction
<1> QED
  BY <1>4 DEF S

(* The sum over a subset is a value of the one function. *)
LEMMA SumIsValue ==
    ASSUME NEW A, IsFiniteSet(A), NEW e, \A a \in A : e[a] \in Int,
           NEW g, SumsUp(g, e, A), NEW B \in SUBSET A
    PROVE  SumOver(e, B) = g[B]
<1>1. IsFiniteSet(B) /\ \A a \in B : e[a] \in Int
  BY FS_Subset
<1>2. SumsUp(SumOf(e, B), e, B)
  BY <1>1, SumExists DEF SumOf
<1>3. SumOf(e, B)[B] = g[B]
  BY <1>2, SumUnique
<1> QED
  BY <1>3, SumUnfolds

(* An empty sum is zero. *)
LEMMA SumEmpty ==
    ASSUME NEW e
    PROVE  SumOver(e, {}) = 0
<1>1. IsFiniteSet({})
  BY FS_EmptySet
<1>2. PICK g : SumsUp(g, e, {})
  BY <1>1, SumExists
<1>3. g[{}] = 0
  BY <1>2 DEF SumsUp
<1> QED
  BY <1>1, <1>2, <1>3, SumIsValue

(* The summands may be taken in any order. *)
LEMMA SumRemove ==
    ASSUME NEW A, IsFiniteSet(A), NEW e, \A a \in A : e[a] \in Int, NEW x \in A
    PROVE  /\ SumOver(e, A)
                = e[x] + SumOver(e, A \ {x})
           /\ SumOver(e, A) \in Int
           /\ SumOver(e, A \ {x}) \in Int
<1>1. PICK g \in [SUBSET A -> Int] : SumsUp(g, e, A)
  BY SumExists
<1> DEFINE S == {s \in SUBSET A : \A y \in s : g[s] = e[y] + g[s \ {y}]}
<1>2. {} \in S
  OBVIOUS
<1>3. ASSUME NEW s \in SUBSET A, s # {}, \A y \in s : s \ {y} \in S PROVE s \in S
  <2> DEFINE c == Picked(s)
  <2>1. c \in s
    BY <1>3, PickedIsIn
  <2> HIDE DEF c
  <2>2. g[s] = e[c] + g[s \ {c}]
    BY <1>1, <1>3 DEF SumsUp, c
  <2> SUFFICES ASSUME NEW y \in s PROVE g[s] = e[y] + g[s \ {y}]
    OBVIOUS
  <2>3. CASE y = c
    BY <2>2, <2>3
  <2>4. CASE y # c
    <3>1. y \in s \ {c} /\ c \in s \ {y} /\ (s \ {c}) \ {y} = (s \ {y}) \ {c}
      BY <2>1, <2>4
    <3>2. g[s \ {c}] = e[y] + g[(s \ {c}) \ {y}]
      BY <1>3, <2>1, <3>1
    <3>3. g[s \ {y}] = e[c] + g[(s \ {y}) \ {c}]
      BY <1>3, <3>1
    <3>4. e[y] \in Int /\ e[c] \in Int /\ g[(s \ {y}) \ {c}] \in Int
      BY <1>1, <2>1
    <3>5. g[s] = e[c] + (e[y] + g[(s \ {y}) \ {c}])
      BY <2>2, <3>1, <3>2
    <3> QED
      BY <3>3, <3>4, <3>5
  <2> QED
    BY <2>3, <2>4
<1> HIDE DEF S
<1>4. \A s \in SUBSET A : s \in S
  BY <1>2, <1>3, SubsetInduction
<1>5. g[A] = e[x] + g[A \ {x}] /\ g[A] \in Int /\ g[A \ {x}] \in Int
  BY <1>1, <1>4 DEF S
<1>6. \A B \in SUBSET A : SumOver(e, B) = g[B]
  BY <1>1, SumIsValue
<1> QED
  BY <1>5, <1>6

(* A sum of natural numbers is one. *)
LEMMA SumOfNats ==
    ASSUME NEW A, IsFiniteSet(A), NEW e, \A a \in A : e[a] \in Nat
    PROVE  SumOver(e, A) \in Nat
<1>0. \A a \in A : e[a] \in Int
  OBVIOUS
<1>1. PICK g \in [SUBSET A -> Int] : SumsUp(g, e, A)
  BY <1>0, SumExists
<1> DEFINE S == {s \in SUBSET A : g[s] \in Nat}
<1>2. {} \in S
  BY <1>1 DEF SumsUp
<1>3. ASSUME NEW s \in SUBSET A, s # {}, \A y \in s : s \ {y} \in S PROVE s \in S
  <2>1. Picked(s) \in s
    BY <1>3, PickedIsIn
  <2>2. g[s] = e[Picked(s)] + g[s \ {Picked(s)}]
    BY <1>1, <1>3 DEF SumsUp
  <2>3. e[Picked(s)] \in Nat /\ g[s \ {Picked(s)}] \in Nat
    BY <1>3, <2>1
  <2> QED
    BY <2>2, <2>3
<1> HIDE DEF S
<1>4. \A s \in SUBSET A : s \in S
  BY <1>2, <1>3, SubsetInduction
<1>5. SumOver(e, A) = g[A]
  BY <1>0, <1>1, SumIsValue
<1> QED
  BY <1>4, <1>5 DEF S

(* The summands may be numbered differently. *)
LEMMA SumShift ==
    ASSUME NEW A \in SUBSET Int, IsFiniteSet(A), NEW k \in Int, NEW e, NEW f,
           \A i \in A : e[i] \in Int /\ f[i + k] = e[i]
    PROVE  SumOver(f, {i + k : i \in A}) = SumOver(e, A)
<1> DEFINE Up(s) == {i + k : i \in s}
           S == {s \in SUBSET A : IsFiniteSet(Up(s)) /\ SumOver(f, Up(s)) = SumOver(e, s)}
<1>1. {} \in S
  <2>1. Up({}) = {}
    OBVIOUS
  <2>2. IsFiniteSet({}) /\ SumOver(f, {}) = SumOver(e, {})
    BY FS_EmptySet, SumEmpty
  <2> QED
    BY <2>1, <2>2
<1>2. ASSUME NEW s \in SUBSET A, s # {}, \A x \in s : s \ {x} \in S PROVE s \in S
  <2>1. PICK x \in s : TRUE
    BY <1>2
  <2>2. IsFiniteSet(Up(s \ {x})) /\ SumOver(f, Up(s \ {x})) = SumOver(e, s \ {x})
    BY <1>2
  <2>3. /\ Up(s) = Up(s \ {x}) \cup {x + k} /\ Up(s) \ {x + k} = Up(s \ {x})
        /\ x + k \in Up(s)
    <3>1. \A i \in s : i \in Int
      OBVIOUS
    <3>2. \A i \in s : i + k = x + k => i = x
      BY <3>1
    <3> QED
      BY <3>2
  <2>4. IsFiniteSet(s) /\ \A i \in s : e[i] \in Int
    BY FS_Subset
  <2>5. \A j \in Up(s) : f[j] \in Int
    OBVIOUS
  <2>6. f[x + k] = e[x]
    OBVIOUS
  <2> HIDE DEF Up
  <2>7. IsFiniteSet(Up(s))
    <3>1. IsFiniteSet(Up(s \ {x}) \cup {x + k})
      BY <2>2, FS_AddElement
    <3> QED
      BY <2>3, <3>1
  <2>8. SumOver(e, s) = e[x] + SumOver(e, s \ {x})
    BY <2>4, SumRemove
  <2>9. SumOver(f, Up(s)) = f[x + k] + SumOver(f, Up(s) \ {x + k})
    BY <2>3, <2>5, <2>7, SumRemove
  <2> QED
    BY <2>2, <2>3, <2>6, <2>7, <2>8, <2>9
<1> HIDE DEF S
<1>3. \A s \in SUBSET A : s \in S
  BY <1>1, <1>2, SubsetInduction
<1> QED
  BY <1>3 DEF S

(* Equal summands have equal sums. *)
LEMMA SumSame ==
    ASSUME NEW A, IsFiniteSet(A), NEW e, NEW f, \A i \in A : e[i] \in Int /\ f[i] = e[i]
    PROVE  SumOver(f, A) = SumOver(e, A)
<1> DEFINE S == {s \in SUBSET A : SumOver(f, s) = SumOver(e, s)}
<1>1. {} \in S
  BY SumEmpty
<1>2. ASSUME NEW s \in SUBSET A, s # {}, \A x \in s : s \ {x} \in S PROVE s \in S
  <2>1. PICK x \in s : TRUE
    BY <1>2
  <2>2. IsFiniteSet(s) /\ \A i \in s : e[i] \in Int /\ f[i] \in Int /\ f[i] = e[i]
    BY FS_Subset
  <2>3. SumOver(e, s) = e[x] + SumOver(e, s \ {x})
    BY <2>2, SumRemove
  <2>4. SumOver(f, s) = f[x] + SumOver(f, s \ {x})
    BY <2>2, SumRemove
  <2> QED
    BY <1>2, <2>2, <2>3, <2>4
<1> HIDE DEF S
<1>3. \A s \in SUBSET A : s \in S
  BY <1>1, <1>2, SubsetInduction
<1> QED
  BY <1>3 DEF S
=============================================================================

------------------------------ MODULE SetLemmas ------------------------------
(***************************************************************************)
(* Sums, greatest elements and images of finite sets, for the proofs about *)
(* bytes and ranks.  SumFunctionOnSet, Max and Min are the community       *)
(* modules'; nothing is assumed of them here.                              *)
(*                                                                         *)
(* Induction is stated over a set B instead of a predicate and proved from *)
(* the well-foundedness of strict inclusion and of <: a minimal            *)
(* counterexample exists (WFMin), and a smaller one contradicts it.        *)
(***************************************************************************)
EXTENDS Integers, FiniteSets, FiniteSetsExt, Functions, FiniteSetTheorems,
        WellFoundedInduction, TLAPS

\* What holds of the empty set, and of a set with one more element, holds of a
\* finite set.
LEMMA SetInduction ==
    ASSUME NEW S, IsFiniteSet(S), NEW B, {} \in B,
           \A A \in SUBSET S : \A x \in S \ A : A \in B => A \cup {x} \in B
    PROVE  S \in B
<1> SUFFICES ASSUME S \notin B PROVE FALSE
  OBVIOUS
<1> DEFINE R == StrictSubsetOrdering(S)
           T == {A \in SUBSET S : A \notin B}
<1>1. T \subseteq FiniteSubsetsOf(S) /\ T # {}
  BY FS_FiniteSubsetsOfFinite
<1>2. IsWellFoundedOn(R, FiniteSubsetsOf(S))
  BY FS_StrictSubsetOrderingWellFounded
<1>3. PICK A \in T : \A C \in T : ~(<<C, A>> \in R)
  <2> HIDE DEF R, T
  <2> QED BY <1>1, <1>2, WFMin
<1>4. PICK x \in A : TRUE
  BY <1>3
<1>5. A \ {x} \in SUBSET S /\ A \ {x} # A /\ <<A \ {x}, A>> \in R
  BY <1>3, <1>4 DEF StrictSubsetOrdering
<1>6. A \ {x} \in B
  BY <1>3, <1>5
<1>7. (A \ {x}) \cup {x} \in B
  BY <1>3, <1>4, <1>6
<1> QED
  BY <1>3, <1>4, <1>7

\* Induction over the natural numbers.
LEMMA NatSetInduction ==
    ASSUME NEW B, 0 \in B, \A k \in Nat : k \in B => k + 1 \in B
    PROVE  \A k \in Nat : k \in B
<1> SUFFICES ASSUME NEW j \in Nat, j \notin B PROVE FALSE
  OBVIOUS
<1> DEFINE R == OpToRel(<, Nat)
           T == {k \in Nat : k \notin B}
<1>1. T \subseteq Nat /\ T # {}
  OBVIOUS
<1>2. IsWellFoundedOn(R, Nat)
  BY NatLessThanWellFounded
<1>3. PICK k \in T : \A i \in T : ~(<<i, k>> \in R)
  <2> HIDE DEF R, T
  <2> QED BY <1>1, <1>2, WFMin
<1>4. k # 0 /\ k \in Nat
  BY <1>3
<1>5. k - 1 \in Nat /\ k - 1 < k /\ k - 1 + 1 = k
  BY <1>4
<1>6. <<k - 1, k>> \in R
  BY <1>4, <1>5 DEF OpToRel
<1>7. k - 1 \in B
  BY <1>3, <1>5, <1>6
<1> QED
  BY <1>3, <1>5, <1>7

-----------------------------------------------------------------------------
\* The element that FoldFunctionOnSet takes next, and the recursion it stands for.
Pick(s) == CHOOSE x \in s : TRUE

Unfolds(iter, f, S) ==
    iter = [s \in SUBSET S |-> IF s = {} THEN 0 ELSE f[Pick(s)] + iter[s \ {Pick(s)}]]

\* SumFunctionOnSet is a solution of that recursion ...
LEMMA SumIter ==
    ASSUME NEW f, NEW S
    PROVE  SumFunctionOnSet(f, S) = (CHOOSE iter : Unfolds(iter, f, S))[S]
BY DEF SumFunctionOnSet, FoldFunctionOnSet, MapThenFoldSet, Unfolds, Pick

\* ... which has one, by induction on the size of the subsets.
LEMMA IterExists ==
    ASSUME NEW f, NEW S, IsFiniteSet(S)
    PROVE  \E iter : Unfolds(iter, f, S)
<1> DEFINE Small(k) == {s \in SUBSET S : Cardinality(s) <= k}
           Good(g, k) == g = [s \in Small(k) |->
                                IF s = {} THEN 0 ELSE f[Pick(s)] + g[s \ {Pick(s)}]]
           B == {k \in Nat : \E g : Good(g, k)}
<1>1. \A s \in SUBSET S : IsFiniteSet(s) /\ Cardinality(s) \in Nat
  BY FS_Subset, FS_CardinalityType
<1>2. \A s \in SUBSET S : s # {} =>
         /\ Pick(s) \in s /\ s \ {Pick(s)} \in SUBSET S
         /\ Cardinality(s \ {Pick(s)}) = Cardinality(s) - 1
  BY <1>1, FS_RemoveElement DEF Pick
<1>3. 0 \in B
  <2> DEFINE g == [s \in Small(0) |-> 0]
  <2>1. \A s \in Small(0) : s = {}
    BY <1>1, FS_EmptySet
  <2>2. Good(g, 0)
    BY <2>1
  <2> QED
    BY <2>2
<1>4. ASSUME NEW k \in Nat, k \in B PROVE k + 1 \in B
  <2>1. PICK g : Good(g, k)
    BY <1>4
  <2> DEFINE h == [s \in Small(k + 1) |->
                     IF s = {} THEN 0 ELSE f[Pick(s)] + g[s \ {Pick(s)}]]
  <2>2. \A s \in Small(k + 1) : s # {} =>
           s \ {Pick(s)} \in Small(k) /\ s \ {Pick(s)} \in Small(k + 1)
    BY <1>1, <1>2
  <2>3. \A s \in Small(k) : s \in Small(k + 1)
    BY <1>1
  <2>4. \A s \in Small(k) : h[s] = g[s]
    BY <2>1, <2>3
  <2>5. Good(h, k + 1)
    BY <2>2, <2>4
  <2>6. \E g2 : Good(g2, k + 1)
    <3> HIDE DEF h, Good
    <3> QED
      BY <2>5
  <2>7. k + 1 \in Nat
    OBVIOUS
  <2> HIDE DEF Good
  <2> QED
    BY <2>6, <2>7
<1>5. \A k \in Nat : k \in B
  <2> HIDE DEF B
  <2> QED
    BY <1>3, <1>4, NatSetInduction
<1>6. PICK g : Good(g, Cardinality(S))
  BY <1>1, <1>5
<1>7. Small(Cardinality(S)) = SUBSET S
  BY <1>1, FS_Subset
<1> QED
  BY <1>6, <1>7 DEF Unfolds

\* The sum as the value of a solution.
LEMMA SumFacts ==
    ASSUME NEW f, NEW S, IsFiniteSet(S)
    PROVE  \E iter : Unfolds(iter, f, S) /\ SumFunctionOnSet(f, S) = iter[S]
BY IterExists, SumIter

\* Two solutions agree on the subsets they share, and an element may be taken
\* apart in any order.
LEMMA IterSplits ==
    ASSUME NEW f, NEW S, IsFiniteSet(S), \A x \in S : f[x] \in Int,
           NEW iter, Unfolds(iter, f, S)
    PROVE  \A s \in SUBSET S :
              /\ iter[s] \in Int
              /\ \A x \in s : iter[s] = f[x] + iter[s \ {x}]
<1> DEFINE B == {k \in Nat : \A s \in SUBSET S : Cardinality(s) <= k =>
                     /\ iter[s] \in Int
                     /\ \A x \in s : iter[s] = f[x] + iter[s \ {x}]}
<1>1. \A s \in SUBSET S : IsFiniteSet(s) /\ Cardinality(s) \in Nat
  BY FS_Subset, FS_CardinalityType
<1>2. \A s \in SUBSET S : \A x \in s :
         s \ {x} \in SUBSET S /\ Cardinality(s \ {x}) = Cardinality(s) - 1
  BY <1>1, FS_RemoveElement
<1>3. iter[{}] = 0 /\ \A s \in SUBSET S : s # {} =>
         Pick(s) \in s /\ iter[s] = f[Pick(s)] + iter[s \ {Pick(s)}]
  BY DEF Unfolds, Pick
<1>4. 0 \in B
  <2>1. \A s \in SUBSET S : Cardinality(s) <= 0 => s = {}
    BY <1>1, FS_EmptySet
  <2>2. ASSUME NEW s \in SUBSET S, Cardinality(s) <= 0
        PROVE  iter[s] \in Int /\ \A x \in s : iter[s] = f[x] + iter[s \ {x}]
    <3>1. s = {} /\ iter[s] = 0
      BY <1>3, <2>1, <2>2
    <3> QED
      BY <3>1
  <2> QED
    BY <2>2
<1>5. ASSUME NEW k \in Nat, k \in B PROVE k + 1 \in B
  <2>1. ASSUME NEW s \in SUBSET S, Cardinality(s) <= k + 1, s # {}
        PROVE  iter[s] \in Int /\ \A x \in s : iter[s] = f[x] + iter[s \ {x}]
    <3> DEFINE c == Pick(s)
    <3>1. c \in s /\ iter[s] = f[c] + iter[s \ {c}] /\ f[c] \in Int
      BY <1>3, <2>1
    <3> HIDE DEF c
    <3>2. \A x \in s : s \ {x} \in SUBSET S /\ Cardinality(s \ {x}) <= k
      BY <1>1, <1>2, <2>1
    <3>3. \A x \in s : /\ iter[s \ {x}] \in Int
                       /\ \A y \in s \ {x} : iter[s \ {x}] = f[y] + iter[(s \ {x}) \ {y}]
      BY <1>5, <3>2
    <3>4. ASSUME NEW x \in s, x # c PROVE iter[s] = f[x] + iter[s \ {x}]
      <4>1. (s \ {x}) \ {c} = (s \ {c}) \ {x}
        OBVIOUS
      <4>2. (s \ {c}) \ {x} \in SUBSET S /\ Cardinality((s \ {c}) \ {x}) <= k
        <5>1. s \ {c} \in SUBSET S /\ Cardinality(s \ {c}) <= k /\ x \in s \ {c}
          BY <3>1, <3>2, <3>4
        <5>2. (s \ {c}) \ {x} \in SUBSET S /\ Cardinality(s \ {c}) \in Nat
              /\ Cardinality((s \ {c}) \ {x}) = Cardinality(s \ {c}) - 1
          BY <1>1, <1>2, <5>1
        <5> QED
          BY <5>1, <5>2
      <4>3. iter[(s \ {c}) \ {x}] \in Int /\ f[x] \in Int
        BY <1>5, <4>2
      <4>4. iter[s \ {c}] = f[x] + iter[(s \ {c}) \ {x}]
        BY <3>1, <3>3, <3>4
      <4>5. iter[s \ {x}] = f[c] + iter[(s \ {c}) \ {x}]
        BY <3>1, <3>3, <3>4, <4>1
      <4> QED
        BY <3>1, <4>3, <4>4, <4>5
    <3>5. \A x \in s : iter[s] = f[x] + iter[s \ {x}]
      BY <3>1, <3>4
    <3> QED
      BY <3>1, <3>3, <3>5
  <2>2. iter[{}] \in Int
    BY <1>3
  <2> QED
    BY <2>1, <2>2
<1>6. \A k \in Nat : k \in B
  <2> HIDE DEF B
  <2> QED
    BY <1>4, <1>5, NatSetInduction
<1> QED
  BY <1>1, <1>6

\* iter takes any one element apart, on every subset of T.
Splits(iter, f, T) ==
    \A s \in SUBSET T : \A x \in s : iter[s] = f[x] + iter[s \ {x}]

\* The solutions for a set and for a part of it agree.
LEMMA IterAgree ==
    ASSUME NEW f, NEW T, IsFiniteSet(T), NEW iter, NEW jter, iter[{}] = jter[{}],
           Splits(iter, f, T), Splits(jter, f, T)
    PROVE  iter[T] = jter[T]
<1> DEFINE B == {A \in SUBSET T : iter[A] = jter[A]}
<1>4. {} \in B
  OBVIOUS
<1>5. ASSUME NEW A \in SUBSET T, NEW x \in T \ A, A \in B PROVE A \cup {x} \in B
  <2>1. A \cup {x} \in SUBSET T /\ (A \cup {x}) \ {x} = A
    OBVIOUS
  <2>2. iter[A \cup {x}] = f[x] + iter[A]
    BY <2>1 DEF Splits
  <2>3. jter[A \cup {x}] = f[x] + jter[A]
    BY <2>1 DEF Splits
  <2> QED
    BY <1>5, <2>1, <2>2, <2>3
<1>6. T \in B
  <2> HIDE DEF B
  <2> QED
    BY <1>4, <1>5, SetInduction
<1> QED
  BY <1>6

-----------------------------------------------------------------------------
\* The sum over no element.
LEMMA SumEmpty ==
    ASSUME NEW f
    PROVE  SumFunctionOnSet(f, {}) = 0
<1>1. PICK iter : Unfolds(iter, f, {}) /\ SumFunctionOnSet(f, {}) = iter[{}]
  BY SumFacts, FS_EmptySet
<1> QED
  BY <1>1 DEF Unfolds

\* A sum of integers is one, and any element may be taken apart.
LEMMA SumApart ==
    ASSUME NEW f, NEW S, IsFiniteSet(S), \A x \in S : f[x] \in Int
    PROVE  /\ SumFunctionOnSet(f, S) \in Int
           /\ \A x \in S : SumFunctionOnSet(f, S) = f[x] + SumFunctionOnSet(f, S \ {x})
<1>1. PICK iter : Unfolds(iter, f, S) /\ SumFunctionOnSet(f, S) = iter[S]
  BY SumFacts
<1>2. Unfolds(iter, f, S)
  BY <1>1
<1>3. \A s \in SUBSET S :
         /\ iter[s] \in Int
         /\ \A x \in s : iter[s] = f[x] + iter[s \ {x}]
  BY <1>2, IterSplits
<1>4. ASSUME NEW x \in S PROVE SumFunctionOnSet(f, S \ {x}) = iter[S \ {x}]
  <2> DEFINE T == S \ {x}
  <2>1. IsFiniteSet(T) /\ T \subseteq S
    BY FS_RemoveElement
  <2>2. \A y \in T : f[y] \in Int
    BY <2>1
  <2>3. iter[{}] = 0
    BY <1>2 DEF Unfolds
  <2>4. Splits(iter, f, T)
    BY <1>3, <2>1 DEF Splits
  <2> HIDE DEF T
  <2>5. PICK jter : Unfolds(jter, f, T) /\ SumFunctionOnSet(f, T) = jter[T]
    BY <2>1, SumFacts
  <2>6. Unfolds(jter, f, T)
    BY <2>5
  <2>7. \A s \in SUBSET T :
           /\ jter[s] \in Int
           /\ \A y \in s : jter[s] = f[y] + jter[s \ {y}]
    BY <2>1, <2>2, <2>6, IterSplits
  <2>8. jter[{}] = 0
    BY <2>6 DEF Unfolds
  <2>9. Splits(jter, f, T)
    BY <2>7 DEF Splits
  <2>10. iter[T] = jter[T]
    <3>1. iter[{}] = jter[{}]
      BY <2>3, <2>8
    <3>2. IsFiniteSet(T)
      BY <2>1
    <3> QED
      BY <2>4, <2>9, <3>1, <3>2, IterAgree
  <2>11. SumFunctionOnSet(f, T) = iter[T]
    BY <2>5, <2>10
  <2> QED
    BY <2>11 DEF T
<1>5. S \in SUBSET S
  OBVIOUS
<1> QED
  BY <1>1, <1>3, <1>4, <1>5

\* One more term.
LEMMA SumAdd ==
    ASSUME NEW f, NEW S, IsFiniteSet(S), NEW x, x \notin S,
           \A y \in S \cup {x} : f[y] \in Int
    PROVE  SumFunctionOnSet(f, S \cup {x}) = f[x] + SumFunctionOnSet(f, S)
<1>1. IsFiniteSet(S \cup {x})
  BY FS_AddElement
<1>2. (S \cup {x}) \ {x} = S
  OBVIOUS
<1> QED
  BY <1>1, <1>2, SumApart

\* Summing over the image of an injective map.
LEMMA SumImage ==
    ASSUME NEW S, IsFiniteSet(S), NEW f, \A x \in S : f[x] \in Int,
           NEW g, \A x, y \in S : g[x] = g[y] => x = y,
           NEW h, \A x \in S : h[g[x]] = f[x]
    PROVE  SumFunctionOnSet(h, {g[x] : x \in S}) = SumFunctionOnSet(f, S)
<1> DEFINE Im(A) == {g[x] : x \in A}
           B == {A \in SUBSET S : /\ IsFiniteSet(Im(A))
                                  /\ SumFunctionOnSet(h, Im(A)) = SumFunctionOnSet(f, A)}
<1>1. {} \in B
  <2>1. Im({}) = {}
    OBVIOUS
  <2> QED
    BY <2>1, SumEmpty, FS_EmptySet
<1>2. ASSUME NEW A \in SUBSET S, NEW x \in S \ A, A \in B PROVE A \cup {x} \in B
  <2>1. Im(A \cup {x}) = Im(A) \cup {g[x]} /\ g[x] \notin Im(A)
    OBVIOUS
  <2>2. IsFiniteSet(A) /\ IsFiniteSet(Im(A)) /\ A \cup {x} \in SUBSET S
    BY <1>2, FS_Subset
  <2>3. \A y \in Im(A) \cup {g[x]} : h[y] \in Int
    OBVIOUS
  <2>4. SumFunctionOnSet(f, A \cup {x}) = f[x] + SumFunctionOnSet(f, A)
    BY <2>2, SumAdd
  <2>5. SumFunctionOnSet(h, Im(A) \cup {g[x]}) = h[g[x]] + SumFunctionOnSet(h, Im(A))
    <3> HIDE DEF Im
    <3> QED
      BY <2>1, <2>2, <2>3, SumAdd
  <2>6. IsFiniteSet(Im(A) \cup {g[x]})
    BY <2>2, FS_AddElement
  <2> QED
    BY <1>2, <2>1, <2>2, <2>4, <2>5, <2>6
<1>3. S \in B
  <2> HIDE DEF B
  <2> QED
    BY <1>1, <1>2, SetInduction
<1> QED
  BY <1>3

\* Summing over two sets that have nothing in common.
LEMMA SumUnion ==
    ASSUME NEW f, NEW S, IsFiniteSet(S), NEW T, IsFiniteSet(T), S \cap T = {},
           \A x \in S \cup T : f[x] \in Int
    PROVE  SumFunctionOnSet(f, S \cup T)
              = SumFunctionOnSet(f, S) + SumFunctionOnSet(f, T)
<1> DEFINE B == {A \in SUBSET S : SumFunctionOnSet(f, A \cup T)
                     = SumFunctionOnSet(f, A) + SumFunctionOnSet(f, T)}
<1>0. SumFunctionOnSet(f, T) \in Int
  BY SumApart
<1>1. {} \in B
  <2>1. {} \cup T = T
    OBVIOUS
  <2> QED
    BY <1>0, <2>1, SumEmpty
<1>2. ASSUME NEW A \in SUBSET S, NEW x \in S \ A, A \in B PROVE A \cup {x} \in B
  <2>1. IsFiniteSet(A) /\ IsFiniteSet(A \cup T)
    BY FS_Subset, FS_Union
  <2>2. (A \cup {x}) \cup T = (A \cup T) \cup {x} /\ x \notin A \cup T /\ x \notin A
    OBVIOUS
  <2>3. SumFunctionOnSet(f, (A \cup T) \cup {x}) = f[x] + SumFunctionOnSet(f, A \cup T)
    BY <2>1, <2>2, SumAdd
  <2>4. SumFunctionOnSet(f, A \cup {x}) = f[x] + SumFunctionOnSet(f, A)
    BY <2>1, <2>2, SumAdd
  <2>5. SumFunctionOnSet(f, A) \in Int /\ f[x] \in Int
    BY <2>1, SumApart
  <2>6. SumFunctionOnSet(f, (A \cup {x}) \cup T)
           = SumFunctionOnSet(f, A \cup {x}) + SumFunctionOnSet(f, T)
    <3>1. SumFunctionOnSet(f, A \cup T) = SumFunctionOnSet(f, A) + SumFunctionOnSet(f, T)
      BY <1>2
    <3>2. SumFunctionOnSet(f, (A \cup {x}) \cup T) = f[x] + SumFunctionOnSet(f, A \cup T)
      BY <2>2, <2>3
    <3> QED
      BY <1>0, <2>4, <2>5, <3>1, <3>2
  <2> QED
    BY <2>6
<1>3. S \in B
  <2> HIDE DEF B
  <2> QED
    BY <1>1, <1>2, SetInduction
<1> QED
  BY <1>3

\* The sum of zeros.
LEMMA SumZero ==
    ASSUME NEW S, IsFiniteSet(S), NEW f, \A x \in S : f[x] = 0
    PROVE  SumFunctionOnSet(f, S) = 0
<1> DEFINE B == {A \in SUBSET S : SumFunctionOnSet(f, A) = 0}
<1>1. {} \in B
  BY SumEmpty
<1>2. ASSUME NEW A \in SUBSET S, NEW x \in S \ A, A \in B PROVE A \cup {x} \in B
  <2>1. IsFiniteSet(A)
    BY FS_Subset
  <2>2. SumFunctionOnSet(f, A \cup {x}) = f[x] + SumFunctionOnSet(f, A)
    BY <2>1, SumAdd
  <2>3. SumFunctionOnSet(f, A \cup {x}) = 0
    BY <1>2, <2>2
  <2> QED
    BY <2>3
<1>3. S \in B
  <2> HIDE DEF B
  <2> QED
    BY <1>1, <1>2, SetInduction
<1> QED
  BY <1>3

\* A sum of sums.
LEMMA SumPlus ==
    ASSUME NEW S, IsFiniteSet(S), NEW f, NEW g, NEW h,
           \A x \in S : f[x] \in Int /\ g[x] \in Int /\ h[x] = f[x] + g[x]
    PROVE  SumFunctionOnSet(h, S) = SumFunctionOnSet(f, S) + SumFunctionOnSet(g, S)
<1> DEFINE B == {A \in SUBSET S : SumFunctionOnSet(h, A)
                     = SumFunctionOnSet(f, A) + SumFunctionOnSet(g, A)}
<1>1. {} \in B
  BY SumEmpty
<1>2. ASSUME NEW A \in SUBSET S, NEW x \in S \ A, A \in B PROVE A \cup {x} \in B
  <2>1. IsFiniteSet(A)
    BY FS_Subset
  <2>2. \A y \in A \cup {x} : f[y] \in Int /\ g[y] \in Int /\ h[y] \in Int
    OBVIOUS
  <2>3. SumFunctionOnSet(f, A \cup {x}) = f[x] + SumFunctionOnSet(f, A)
    BY <2>1, <2>2, SumAdd
  <2>4. SumFunctionOnSet(g, A \cup {x}) = g[x] + SumFunctionOnSet(g, A)
    BY <2>1, <2>2, SumAdd
  <2>5. SumFunctionOnSet(h, A \cup {x}) = h[x] + SumFunctionOnSet(h, A)
    BY <2>1, <2>2, SumAdd
  <2>6. SumFunctionOnSet(f, A) \in Int /\ SumFunctionOnSet(g, A) \in Int
    BY <2>1, <2>2, SumApart
  <2>7. h[x] = f[x] + g[x] /\ f[x] \in Int /\ g[x] \in Int
    OBVIOUS
  <2>8. SumFunctionOnSet(h, A) = SumFunctionOnSet(f, A) + SumFunctionOnSet(g, A)
    BY <1>2
  <2>9. SumFunctionOnSet(h, A \cup {x})
           = SumFunctionOnSet(f, A \cup {x}) + SumFunctionOnSet(g, A \cup {x})
    BY <2>3, <2>4, <2>5, <2>6, <2>7, <2>8
  <2> QED
    BY <2>9
<1>3. S \in B
  <2> HIDE DEF B
  <2> QED
    BY <1>1, <1>2, SetInduction
<1> QED
  BY <1>3

\* A sum whose terms are no larger is no larger.
LEMMA SumMono ==
    ASSUME NEW S, IsFiniteSet(S), NEW f, NEW g,
           \A x \in S : f[x] \in Int /\ g[x] \in Int /\ f[x] <= g[x]
    PROVE  SumFunctionOnSet(f, S) <= SumFunctionOnSet(g, S)
<1> DEFINE B == {A \in SUBSET S : SumFunctionOnSet(f, A) <= SumFunctionOnSet(g, A)}
<1>1. {} \in B
  BY SumEmpty
<1>2. ASSUME NEW A \in SUBSET S, NEW x \in S \ A, A \in B PROVE A \cup {x} \in B
  <2>1. IsFiniteSet(A)
    BY FS_Subset
  <2>2. /\ SumFunctionOnSet(f, A) \in Int /\ SumFunctionOnSet(g, A) \in Int
        /\ SumFunctionOnSet(f, A) <= SumFunctionOnSet(g, A)
    BY <1>2, <2>1, SumApart
  <2>3. SumFunctionOnSet(f, A \cup {x}) = f[x] + SumFunctionOnSet(f, A)
    BY <2>1, SumAdd
  <2>4. SumFunctionOnSet(g, A \cup {x}) = g[x] + SumFunctionOnSet(g, A)
    BY <2>1, SumAdd
  <2>5. SumFunctionOnSet(f, A \cup {x}) <= SumFunctionOnSet(g, A \cup {x})
    BY <2>2, <2>3, <2>4
  <2> QED
    BY <2>5
<1>3. S \in B
  <2> HIDE DEF B
  <2> QED
    BY <1>1, <1>2, SetInduction
<1> QED
  BY <1>3

\* Sums of functions that agree.
LEMMA SumSame ==
    ASSUME NEW S, IsFiniteSet(S), NEW f, NEW g,
           \A x \in S : f[x] \in Int /\ g[x] = f[x]
    PROVE  SumFunctionOnSet(f, S) = SumFunctionOnSet(g, S)
<1>1. \A x \in S : f[x] \in Int /\ g[x] \in Int /\ f[x] <= g[x]
  OBVIOUS
<1>2. \A x \in S : g[x] \in Int /\ f[x] \in Int /\ g[x] <= f[x]
  OBVIOUS
<1>3. SumFunctionOnSet(f, S) <= SumFunctionOnSet(g, S)
  BY <1>1, SumMono
<1>4. SumFunctionOnSet(g, S) <= SumFunctionOnSet(f, S)
  BY <1>2, SumMono
<1>5. SumFunctionOnSet(f, S) \in Int /\ SumFunctionOnSet(g, S) \in Int
  BY <1>1, SumApart
<1> QED
  BY <1>3, <1>4, <1>5

\* A function that is changed in one place.
LEMMA SumUpdate ==
    ASSUME NEW S, IsFiniteSet(S), NEW x \in S, NEW f, NEW g,
           \A y \in S : f[y] \in Int /\ g[y] \in Int,
           \A y \in S : y # x => g[y] = f[y]
    PROVE  SumFunctionOnSet(g, S) = SumFunctionOnSet(f, S) - f[x] + g[x]
<1> DEFINE T == S \ {x}
<1>1. IsFiniteSet(T) /\ \A y \in T : f[y] \in Int /\ g[y] = f[y]
  BY FS_RemoveElement
<1>2. SumFunctionOnSet(f, T) = SumFunctionOnSet(g, T)
  <2> HIDE DEF T
  <2> QED
    BY <1>1, SumSame
<1>3. SumFunctionOnSet(f, S) = f[x] + SumFunctionOnSet(f, T)
  BY SumApart
<1>4. SumFunctionOnSet(g, S) = g[x] + SumFunctionOnSet(g, T)
  BY SumApart
<1>5. SumFunctionOnSet(g, T) \in Int
  <2>1. \A y \in T : g[y] \in Int
    OBVIOUS
  <2> HIDE DEF T
  <2> QED
    BY <1>1, <2>1, SumApart
<1> QED
  BY <1>2, <1>3, <1>4, <1>5

\* The same for EXCEPT.
LEMMA SumExcept ==
    ASSUME NEW S, IsFiniteSet(S), NEW x \in S, NEW f \in [S -> Int], NEW v \in Int
    PROVE  SumFunctionOnSet([f EXCEPT ![x] = v], S) = SumFunctionOnSet(f, S) - f[x] + v
<1> DEFINE g == [f EXCEPT ![x] = v]
<1>1. \A y \in S : f[y] \in Int /\ g[y] \in Int
  OBVIOUS
<1>2. \A y \in S : y # x => g[y] = f[y]
  OBVIOUS
<1>3. g[x] = v
  OBVIOUS
<1> HIDE DEF g
<1>4. SumFunctionOnSet(g, S) = SumFunctionOnSet(f, S) - f[x] + g[x]
  BY <1>1, <1>2, SumUpdate
<1>5. SumFunctionOnSet(g, S) = SumFunctionOnSet(f, S) - f[x] + v
  BY <1>3, <1>4
<1> QED
  BY <1>5 DEF g

\* Sums of naturals: of any set, and of a part of one.
LEMMA SumNat ==
    ASSUME NEW S, IsFiniteSet(S), NEW f, \A x \in S : f[x] \in Nat
    PROVE  /\ SumFunctionOnSet(f, S) \in Nat
           /\ \A T \in SUBSET S : SumFunctionOnSet(f, T) <= SumFunctionOnSet(f, S)
<1> DEFINE B == {A \in SUBSET S : SumFunctionOnSet(f, A) \in Nat}
<1>1. {} \in B
  BY SumEmpty
<1>2. ASSUME NEW A \in SUBSET S, NEW x \in S \ A, A \in B PROVE A \cup {x} \in B
  <2>1. IsFiniteSet(A)
    BY FS_Subset
  <2>2. SumFunctionOnSet(f, A \cup {x}) = f[x] + SumFunctionOnSet(f, A)
    BY <2>1, SumAdd
  <2>3. SumFunctionOnSet(f, A) \in Nat /\ f[x] \in Nat
    BY <1>2
  <2>4. SumFunctionOnSet(f, A \cup {x}) \in Nat
    BY <2>2, <2>3
  <2> QED
    BY <2>4
<1>3. ASSUME NEW T \in SUBSET S PROVE SumFunctionOnSet(f, T) \in Nat
  <2>1. IsFiniteSet(T)
    BY FS_Subset
  <2>2. \A A \in SUBSET T : \A x \in T \ A : A \in B => A \cup {x} \in B
    BY <1>2
  <2>3. T \in B
    <3> HIDE DEF B
    <3> QED
      BY <1>1, <2>1, <2>2, SetInduction
  <2> QED
    BY <2>3
<1>4. ASSUME NEW T \in SUBSET S PROVE SumFunctionOnSet(f, T) <= SumFunctionOnSet(f, S)
  <2>1. IsFiniteSet(T) /\ IsFiniteSet(S \ T) /\ T \cap (S \ T) = {} /\ T \cup (S \ T) = S
    BY FS_Subset, FS_Difference
  <2>2. SumFunctionOnSet(f, T \cup (S \ T))
           = SumFunctionOnSet(f, T) + SumFunctionOnSet(f, S \ T)
    BY <2>1, SumUnion
  <2>3. SumFunctionOnSet(f, T) \in Nat /\ SumFunctionOnSet(f, S \ T) \in Nat
    BY <1>3
  <2>4. SumFunctionOnSet(f, S) = SumFunctionOnSet(f, T) + SumFunctionOnSet(f, S \ T)
    BY <2>1, <2>2
  <2> QED
    BY <2>3, <2>4
<1>5. SumFunctionOnSet(f, S) \in Nat
  BY <1>3
<1> QED
  BY <1>4, <1>5
-----------------------------------------------------------------------------
\* A finite set whose elements have ranks has one of the greatest rank.
LEMMA GreatestRank ==
    ASSUME NEW S, IsFiniteSet(S), S # {}, NEW r, \A x \in S : r[x] \in Int
    PROVE  \E m \in S : \A x \in S : r[x] <= r[m]
<1> DEFINE B == {A \in SUBSET S : A = {} \/ \E m \in A : \A x \in A : r[x] <= r[m]}
<1>1. {} \in B
  OBVIOUS
<1>2. ASSUME NEW A \in SUBSET S, NEW x \in S \ A, A \in B PROVE A \cup {x} \in B
  <2>1. CASE A = {}
    BY <2>1
  <2>2. CASE A # {}
    <3>1. PICK m \in A : \A y \in A : r[y] <= r[m]
      BY <1>2, <2>2
    <3>2. CASE r[m] <= r[x]
      <4>1. \A y \in A \cup {x} : r[y] <= r[x]
        BY <3>1, <3>2
      <4> QED
        BY <4>1
    <3>3. CASE ~(r[m] <= r[x])
      <4>1. \A y \in A \cup {x} : r[y] <= r[m]
        BY <3>1, <3>3
      <4> QED
        BY <4>1
    <3> QED
      BY <3>2, <3>3
  <2> QED
    BY <2>1, <2>2
<1>3. S \in B
  <2> HIDE DEF B
  <2> QED
    BY <1>1, <1>2, SetInduction
<1> QED
  BY <1>3

\* Max is the greatest element.
LEMMA MaxFacts ==
    ASSUME NEW S \in SUBSET Int, IsFiniteSet(S), S # {}
    PROVE  Max(S) \in S /\ \A x \in S : x <= Max(S)
<1> DEFINE r == [x \in S |-> x]
<1>1. \A x \in S : r[x] \in Int /\ r[x] = x
  OBVIOUS
<1>2. \E m \in S : \A x \in S : r[x] <= r[m]
  <2> HIDE DEF r
  <2> QED
    BY <1>1, GreatestRank
<1>3. \E m \in S : \A x \in S : m >= x
  BY <1>1, <1>2
<1>4. Max(S) \in S /\ \A x \in S : Max(S) >= x
  BY <1>3 DEF Max
<1> QED
  BY <1>4

\* Min of two is the smaller one.
LEMMA MinOfTwo ==
    ASSUME NEW a \in Int, NEW b \in Int
    PROVE  Min({a, b}) = IF a <= b THEN a ELSE b
<1>1. CASE a <= b
  <2>1. a \in {a, b} /\ \A y \in {a, b} : a <= y
    BY <1>1
  <2>2. \A x \in {a, b} : (\A y \in {a, b} : x <= y) => x = a
    BY <1>1
  <2> QED
    BY <1>1, <2>1, <2>2 DEF Min
<1>2. CASE ~(a <= b)
  <2>1. b \in {a, b} /\ \A y \in {a, b} : b <= y
    BY <1>2
  <2>2. \A x \in {a, b} : (\A y \in {a, b} : x <= y) => x = b
    BY <1>2
  <2> QED
    BY <1>2, <2>1, <2>2 DEF Min
<1> QED
  BY <1>1, <1>2

\* The image of a finite set is finite.
LEMMA FiniteImage ==
    ASSUME NEW S, IsFiniteSet(S), NEW g
    PROVE  IsFiniteSet({g[x] : x \in S})
<1> DEFINE Im(A) == {g[x] : x \in A}
           B == {A \in SUBSET S : IsFiniteSet(Im(A))}
<1>1. {} \in B
  <2>1. Im({}) = {}
    OBVIOUS
  <2> QED
    BY <2>1, FS_EmptySet
<1>2. ASSUME NEW A \in SUBSET S, NEW x \in S \ A, A \in B PROVE A \cup {x} \in B
  <2>1. Im(A \cup {x}) = Im(A) \cup {g[x]}
    OBVIOUS
  <2>2. IsFiniteSet(Im(A) \cup {g[x]})
    BY <1>2, FS_AddElement
  <2> QED
    BY <2>1, <2>2
<1>3. S \in B
  <2> HIDE DEF B
  <2> QED
    BY <1>1, <1>2, SetInduction
<1> QED
  BY <1>3

\* The image of an injective map has as many elements.
LEMMA ImageCard ==
    ASSUME NEW S, IsFiniteSet(S), NEW g, \A x, y \in S : g[x] = g[y] => x = y
    PROVE  /\ IsFiniteSet({g[x] : x \in S})
           /\ Cardinality({g[x] : x \in S}) = Cardinality(S)
<1> DEFINE T == {g[x] : x \in S}
           f == [x \in S |-> g[x]]
<1>1. f \in Bijection(S, T)
  <2>1. f \in [S -> T] /\ \A y \in T : \E x \in S : f[x] = y
    OBVIOUS
  <2>2. \A x, y \in S : f[x] = f[y] => x = y
    OBVIOUS
  <2>3. DOMAIN f = S
    OBVIOUS
  <2> HIDE DEF f, T
  <2> QED
    BY <2>1, <2>2, <2>3 DEF Bijection, Injection, Surjection, IsInjective
<1>2. ExistsBijection(S, T)
  <2> HIDE DEF f, T
  <2> QED
    BY <1>1 DEF ExistsBijection
<1> HIDE DEF T
<1>3. IsFiniteSet(T) /\ Cardinality(T) = Cardinality(S)
  BY <1>2, FS_Bijection
<1> QED
  BY <1>3 DEF T
=============================================================================

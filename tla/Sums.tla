---------------------------------- MODULE Sums ----------------------------------
(***************************************************************************)
(* What SumFunctionOnSet of the module Functions adds up to, for functions to *)
(* the natural numbers and finite sets of indices.                            *)
(*                                                                         *)
(* The induction theorems of the library have an operator as a parameter.      *)
(* NatInduct is the same principle for a set of numbers: it is the least         *)
(* number that is not in the set (WFMin of WellFoundedInduction) that proves it.   *)
(***************************************************************************)
EXTENDS Integers, FiniteSets, FiniteSetsExt, FiniteSetTheorems, WellFoundedInduction, TLAPS

First(s) == CHOOSE x \in s : TRUE

\* h adds up the values of g over each of these sets, of which every subset is one.
AddsUp(h, g, Sets) ==
  h = [s \in Sets |-> IF s = {} THEN 0 ELSE g[First(s)] + h[s \ {First(s)}]]

-------------------------------------------------------------------------------
LEMMA NatInduct ==
  ASSUME NEW T, 0 \in T, \A n \in Nat : n \in T => n + 1 \in T
  PROVE  Nat \subseteq T
<1> SUFFICES ASSUME Nat \ T # {} PROVE FALSE
  OBVIOUS
<1> DEFINE Less == OpToRel(<, Nat)
<1>1. IsWellFoundedOn(Less, Nat)
  BY NatLessThanWellFounded
<1>2. \A m, n \in Nat : m < n => <<m, n>> \in Less
  BY DEF OpToRel
<1> HIDE DEF Less
<1>3. PICK n \in Nat \ T : \A m \in Nat \ T : ~ (<<m, n>> \in Less)
  BY <1>1, WFMin
<1>4. n # 0 /\ n - 1 \in Nat /\ (n - 1) + 1 = n
  BY <1>3
<1>5. n - 1 \notin T
  BY <1>3, <1>4
<1>6. <<n - 1, n>> \in Less
  BY <1>2, <1>4
<1> QED
  BY <1>3, <1>4, <1>5, <1>6

LEMMA FirstIs ==
  ASSUME NEW s, s # {}, IsFiniteSet(s)
  PROVE  /\ First(s) \in s /\ IsFiniteSet(s \ {First(s)})
         /\ Cardinality(s) \in Nat
         /\ Cardinality(s \ {First(s)}) = Cardinality(s) - 1
<1>1. First(s) \in s
  BY DEF First
<1> QED
  BY <1>1, FS_RemoveElement, FS_CardinalityType

LEMMA EmptyHasNone == IsFiniteSet({}) /\ Cardinality({}) = 0
BY FS_EmptySet

\* There is such a function: it is built for sets of one element more at a time.
LEMMA AddsUpExists ==
  ASSUME NEW g, NEW S, IsFiniteSet(S)
  PROVE  \E h : AddsUp(h, g, SUBSET S)
<1> DEFINE Upto(n) == {s \in SUBSET S : Cardinality(s) <= n}
           T == {n \in Nat : \E h : AddsUp(h, g, Upto(n))}
<1>1. \A s \in SUBSET S : IsFiniteSet(s) /\ Cardinality(s) \in Nat
                          /\ Cardinality(s) <= Cardinality(S)
  BY FS_Subset, FS_CardinalityType
<1>2. 0 \in T
  <2>1. \A s \in Upto(0) : s = {}
    BY <1>1, FS_EmptySet
  <2>2. AddsUp([s \in Upto(0) |-> 0], g, Upto(0))
    BY <2>1 DEF AddsUp
  <2> QED
    BY <2>2
<1>3. ASSUME NEW n \in Nat, n \in T
      PROVE  n + 1 \in T
  <2>1. PICK h : AddsUp(h, g, Upto(n))
    BY <1>3
  <2> DEFINE k == [s \in Upto(n + 1) |->
                     IF s = {} THEN 0 ELSE g[First(s)] + h[s \ {First(s)}]]
  <2>2. ASSUME NEW s \in Upto(n + 1), s # {}
        PROVE  s \ {First(s)} \in Upto(n)
    BY <2>2, <1>1, FirstIs
  <2>3. ASSUME NEW s \in Upto(n)
        PROVE  s \in Upto(n + 1) /\ k[s] = h[s]
    <3>1. s \in Upto(n + 1)
      BY <1>1
    <3>2. h[s] = IF s = {} THEN 0 ELSE g[First(s)] + h[s \ {First(s)}]
      BY <2>1 DEF AddsUp
    <3> QED
      BY <3>1, <3>2
  <2>4. \A s \in Upto(n + 1) : s # {} => h[s \ {First(s)}] = k[s \ {First(s)}]
    BY <2>2, <2>3
  <2>5. k = [s \in Upto(n + 1) |-> IF s = {} THEN 0 ELSE g[First(s)] + k[s \ {First(s)}]]
    BY <2>4
  <2> HIDE DEF k
  <2>6. AddsUp(k, g, Upto(n + 1))
    BY <2>5 DEF AddsUp
  <2>7. \E f : AddsUp(f, g, Upto(n + 1))
    BY <2>6
  <2> HIDE DEF Upto
  <2> QED
    BY <2>7
<1> HIDE DEF T
<1>4. Nat \subseteq T
  BY <1>2, <1>3, NatInduct
<1>5. Cardinality(S) \in T
  BY <1>4, <1>1
<1>6. Upto(Cardinality(S)) = SUBSET S
  BY <1>1
<1> QED
  BY <1>5, <1>6 DEF T

\* And it is the only one.
LEMMA AddsUpUnique ==
  ASSUME NEW g, NEW S, IsFiniteSet(S), NEW U, U \subseteq S
  PROVE  \A h, k : AddsUp(h, g, SUBSET S) /\ AddsUp(k, g, SUBSET U) => h[U] = k[U]
<1> SUFFICES ASSUME NEW h, NEW k, AddsUp(h, g, SUBSET S), AddsUp(k, g, SUBSET U)
             PROVE  h[U] = k[U]
  OBVIOUS
<1> DEFINE T == {n \in Nat : \A s \in SUBSET U : Cardinality(s) = n => h[s] = k[s]}
<1>1. \A s \in SUBSET U : IsFiniteSet(s) /\ Cardinality(s) \in Nat
  BY FS_Subset, FS_CardinalityType
<1>2. \A s \in SUBSET U :
        /\ h[s] = IF s = {} THEN 0 ELSE g[First(s)] + h[s \ {First(s)}]
        /\ k[s] = IF s = {} THEN 0 ELSE g[First(s)] + k[s \ {First(s)}]
  BY DEF AddsUp
<1>3. 0 \in T
  BY <1>1, <1>2, FS_EmptySet
<1>4. ASSUME NEW n \in Nat, n \in T
      PROVE  n + 1 \in T
  <2>1. ASSUME NEW s \in SUBSET U, Cardinality(s) = n + 1
        PROVE  h[s] = k[s]
    <3>1. s # {}
      BY <2>1, EmptyHasNone
    <3>2. Cardinality(s \ {First(s)}) = n
      BY <2>1, <3>1, <1>1, FirstIs
    <3>3. h[s \ {First(s)}] = k[s \ {First(s)}]
      BY <3>2, <1>4
    <3> QED
      BY <3>1, <3>3, <1>2
  <2> QED
    BY <2>1
<1> HIDE DEF T
<1>5. Cardinality(U) \in T
  BY <1>1, <1>3, <1>4, NatInduct
<1> QED
  BY <1>5, <1>1 DEF T

LEMMA SumIs ==
  ASSUME NEW g, NEW S, IsFiniteSet(S)
  PROVE  \E h : AddsUp(h, g, SUBSET S) /\ SumFunctionOnSet(g, S) = h[S]
<1>1. \E h : AddsUp(h, g, SUBSET S)
  BY AddsUpExists
<1> QED
  BY <1>1 DEF AddsUp, First, SumFunctionOnSet, FoldFunctionOnSet, MapThenFoldSet

-------------------------------------------------------------------------------
LEMMA SumEmpty == ASSUME NEW g PROVE SumFunctionOnSet(g, {}) = 0
<1>1. PICK h : AddsUp(h, g, SUBSET {}) /\ SumFunctionOnSet(g, {}) = h[{}]
  BY EmptyHasNone, SumIs
<1> QED
  BY <1>1 DEF AddsUp

\* The function that adds up over a set has the sums over its subsets too.
LEMMA SumWithin ==
  ASSUME NEW g, NEW S, IsFiniteSet(S), NEW U, U \subseteq S,
         NEW h, AddsUp(h, g, SUBSET S)
  PROVE  SumFunctionOnSet(g, U) = h[U]
<1>1. PICK k : AddsUp(k, g, SUBSET U) /\ SumFunctionOnSet(g, U) = k[U]
  BY SumIs, FS_Subset
<1>2. \A d, e : AddsUp(d, g, SUBSET S) /\ AddsUp(e, g, SUBSET U) => d[U] = e[U]
  BY AddsUpUnique
<1>3. h[U] = k[U]
  BY <1>1, <1>2
<1> QED
  BY <1>1, <1>3

LEMMA SumFirst ==
  ASSUME NEW g, NEW S, IsFiniteSet(S), S # {}
  PROVE  SumFunctionOnSet(g, S) = g[First(S)] + SumFunctionOnSet(g, S \ {First(S)})
<1>1. PICK h : AddsUp(h, g, SUBSET S)
  BY AddsUpExists
<1>2. SumFunctionOnSet(g, S) = h[S]
  BY <1>1, SumWithin
<1>3. SumFunctionOnSet(g, S \ {First(S)}) = h[S \ {First(S)}]
  BY <1>1, SumWithin
<1>4. h[S] = g[First(S)] + h[S \ {First(S)}]
  BY <1>1 DEF AddsUp
<1> QED
  BY <1>2, <1>3, <1>4

LEMMA SumNat ==
  ASSUME NEW D, NEW g \in [D -> Nat], NEW S, S \subseteq D, IsFiniteSet(S)
  PROVE  SumFunctionOnSet(g, S) \in Nat
<1> DEFINE T == {n \in Nat : \A s \in SUBSET S :
                   Cardinality(s) = n => SumFunctionOnSet(g, s) \in Nat}
<1>1. \A s \in SUBSET S : IsFiniteSet(s) /\ Cardinality(s) \in Nat
  BY FS_Subset, FS_CardinalityType
<1>2. 0 \in T
  BY <1>1, SumEmpty, FS_EmptySet
<1>3. ASSUME NEW n \in Nat, n \in T
      PROVE  n + 1 \in T
  <2>1. ASSUME NEW s \in SUBSET S, Cardinality(s) = n + 1
        PROVE  SumFunctionOnSet(g, s) \in Nat
    <3>1. s # {} /\ IsFiniteSet(s)
      BY <2>1, <1>1, EmptyHasNone
    <3>2. First(s) \in s /\ Cardinality(s \ {First(s)}) = n
      <4>1. First(s) \in s /\ Cardinality(s \ {First(s)}) = Cardinality(s) - 1
        BY <3>1, FirstIs
      <4> QED
        BY <4>1, <2>1
    <3>3. SumFunctionOnSet(g, s \ {First(s)}) \in Nat
      BY <3>2, <1>3
    <3>4. g[First(s)] \in Nat
      BY <3>2
    <3> QED
      BY <3>1, <3>3, <3>4, SumFirst
  <2> QED
    BY <2>1
<1> HIDE DEF T
<1>4. Cardinality(S) \in T
  BY <1>1, <1>2, <1>3, NatInduct
<1> QED
  BY <1>4, <1>1 DEF T

\* It does not matter which element is taken out first.
LEMMA SumWithout ==
  ASSUME NEW D, NEW g \in [D -> Nat], NEW S, S \subseteq D, IsFiniteSet(S), NEW x \in S
  PROVE  SumFunctionOnSet(g, S) = g[x] + SumFunctionOnSet(g, S \ {x})
<1> DEFINE Holds(s) == \A y \in s :
             SumFunctionOnSet(g, s) = g[y] + SumFunctionOnSet(g, s \ {y})
           T == {n \in Nat : \A s \in SUBSET S : Cardinality(s) = n => Holds(s)}
<1>1. \A s \in SUBSET S : IsFiniteSet(s) /\ Cardinality(s) \in Nat
                          /\ SumFunctionOnSet(g, s) \in Nat
  BY FS_Subset, FS_CardinalityType, SumNat
<1>2. 0 \in T
  <2>1. \A s \in SUBSET S : Cardinality(s) = 0 => s = {}
    BY <1>1, FS_EmptySet
  <2> QED
    BY <2>1
<1>3. ASSUME NEW n \in Nat, n \in T
      PROVE  n + 1 \in T
  <2>1. ASSUME NEW s \in SUBSET S, Cardinality(s) = n + 1, NEW y \in s
        PROVE  SumFunctionOnSet(g, s) = g[y] + SumFunctionOnSet(g, s \ {y})
    <3> DEFINE c == First(s)
    <3>1. s # {} /\ IsFiniteSet(s)
      BY <1>1
    <3>2. c \in s /\ Cardinality(s \ {c}) = n
      <4>1. c \in s /\ Cardinality(s \ {c}) = Cardinality(s) - 1
        BY <3>1, FirstIs
      <4> HIDE DEF c
      <4> QED
        BY <4>1, <2>1
    <3>3. SumFunctionOnSet(g, s) = g[c] + SumFunctionOnSet(g, s \ {c})
      BY <3>1, SumFirst
    <3>4. Cardinality(s \ {y}) = n
      <4>1. Cardinality(s \ {y}) = Cardinality(s) - 1
        BY <2>1, <3>1, FS_RemoveElement
      <4> QED
        BY <4>1, <2>1
    <3> HIDE DEF c
    <3>5. CASE y = c
      BY <3>3, <3>5
    <3>6. CASE y # c
      <4>1. Holds(s \ {c}) /\ Holds(s \ {y})
        BY <3>2, <3>4, <1>3
      <4>2. SumFunctionOnSet(g, s \ {c}) = g[y] + SumFunctionOnSet(g, (s \ {c}) \ {y})
        BY <4>1, <3>6
      <4>3. SumFunctionOnSet(g, s \ {y}) = g[c] + SumFunctionOnSet(g, (s \ {y}) \ {c})
        BY <4>1, <3>2, <3>6
      <4>4. (s \ {c}) \ {y} = (s \ {y}) \ {c}
        OBVIOUS
      <4>5. /\ g[c] \in Nat /\ g[y] \in Nat
            /\ SumFunctionOnSet(g, (s \ {c}) \ {y}) \in Nat
        BY <1>1, <3>2
      <4> QED
        BY <3>3, <4>2, <4>3, <4>4, <4>5
    <3> QED
      BY <3>5, <3>6
  <2>2. \A s \in SUBSET S : Cardinality(s) = n + 1 => Holds(s)
    BY <2>1
  <2> HIDE DEF Holds
  <2> QED
    BY <2>2
<1> HIDE DEF T
<1>4. Cardinality(S) \in T
  BY <1>1, <1>2, <1>3, NatInduct
<1>5. Holds(S)
  BY <1>4, <1>1 DEF T
<1> QED
  BY <1>5

LEMMA SumMonotone ==
  ASSUME NEW D, NEW g \in [D -> Nat], NEW h \in [D -> Nat], NEW S, S \subseteq D,
         IsFiniteSet(S), \A x \in S : g[x] <= h[x]
  PROVE  SumFunctionOnSet(g, S) <= SumFunctionOnSet(h, S)
<1> DEFINE T == {n \in Nat : \A s \in SUBSET S :
                   Cardinality(s) = n => SumFunctionOnSet(g, s) <= SumFunctionOnSet(h, s)}
<1>1. \A s \in SUBSET S : /\ IsFiniteSet(s) /\ Cardinality(s) \in Nat
                          /\ SumFunctionOnSet(g, s) \in Nat /\ SumFunctionOnSet(h, s) \in Nat
  BY FS_Subset, FS_CardinalityType, SumNat
<1>2. 0 \in T
  BY <1>1, SumEmpty, FS_EmptySet
<1>3. ASSUME NEW n \in Nat, n \in T
      PROVE  n + 1 \in T
  <2>1. ASSUME NEW s \in SUBSET S, Cardinality(s) = n + 1
        PROVE  SumFunctionOnSet(g, s) <= SumFunctionOnSet(h, s)
    <3> DEFINE c == First(s)
    <3>1. s # {} /\ IsFiniteSet(s)
      BY <2>1, <1>1, EmptyHasNone
    <3>2. c \in s /\ Cardinality(s \ {c}) = n
      <4>1. c \in s /\ Cardinality(s \ {c}) = Cardinality(s) - 1
        BY <3>1, FirstIs
      <4> HIDE DEF c
      <4> QED
        BY <4>1, <2>1
    <3>3. /\ SumFunctionOnSet(g, s) = g[c] + SumFunctionOnSet(g, s \ {c})
          /\ SumFunctionOnSet(h, s) = h[c] + SumFunctionOnSet(h, s \ {c})
      BY <3>1, SumFirst
    <3> HIDE DEF c
    <3>4. SumFunctionOnSet(g, s \ {c}) <= SumFunctionOnSet(h, s \ {c})
      BY <3>2, <1>3
    <3>5. g[c] \in Nat /\ h[c] \in Nat /\ g[c] <= h[c]
      BY <3>2
    <3>6. SumFunctionOnSet(g, s \ {c}) \in Nat /\ SumFunctionOnSet(h, s \ {c}) \in Nat
      BY <1>1
    <3> QED
      BY <3>3, <3>4, <3>5, <3>6
  <2> QED
    BY <2>1
<1> HIDE DEF T
<1>4. Cardinality(S) \in T
  BY <1>1, <1>2, <1>3, NatInduct
<1> QED
  BY <1>4, <1>1 DEF T

-------------------------------------------------------------------------------
(* Sums over intervals *)

LEMMA SumLast ==
  ASSUME NEW D, NEW g \in [D -> Nat], NEW a \in Int, NEW b \in Int, a <= b,
         a .. b \subseteq D
  PROVE  SumFunctionOnSet(g, a .. b) = SumFunctionOnSet(g, a .. b - 1) + g[b]
<1>1. b \in a .. b /\ (a .. b) \ {b} = a .. b - 1
  OBVIOUS
<1>2. IsFiniteSet(a .. b) /\ IsFiniteSet(a .. b - 1) /\ a .. b - 1 \subseteq D
  BY FS_Interval
<1>3. SumFunctionOnSet(g, a .. b) = g[b] + SumFunctionOnSet(g, a .. b - 1)
  BY <1>1, <1>2, SumWithout
<1>4. g[b] \in Nat /\ SumFunctionOnSet(g, a .. b - 1) \in Nat
  BY <1>1, <1>2, SumNat
<1> QED
  BY <1>3, <1>4

\* One interval after the other
LEMMA SumSplit ==
  ASSUME NEW D, NEW g \in [D -> Nat], NEW a \in Int, NEW b \in Int, NEW c \in Int,
         a <= b, b <= c, a .. c - 1 \subseteq D
  PROVE  SumFunctionOnSet(g, a .. c - 1)
           = SumFunctionOnSet(g, a .. b - 1) + SumFunctionOnSet(g, b .. c - 1)
<1> DEFINE T == {n \in Nat : b + n <= c =>
                   SumFunctionOnSet(g, a .. b + n - 1)
                     = SumFunctionOnSet(g, a .. b - 1) + SumFunctionOnSet(g, b .. b + n - 1)}
<1>1. \A i, j \in Int : a <= i /\ j <= c - 1 =>
        SumFunctionOnSet(g, i .. j) \in Nat
  <2> TAKE i, j \in Int
  <2> HAVE a <= i /\ j <= c - 1
  <2>1. i .. j \subseteq D /\ IsFiniteSet(i .. j)
    BY FS_Interval
  <2> QED
    BY <2>1, SumNat
<1>2. 0 \in T
  <2>1. b .. b + 0 - 1 = {} /\ b + 0 - 1 = b - 1
    OBVIOUS
  <2>2. SumFunctionOnSet(g, a .. b - 1) \in Nat
    BY <1>1
  <2> QED
    BY <2>1, <2>2, SumEmpty
<1>3. ASSUME NEW n \in Nat, n \in T
      PROVE  n + 1 \in T
  <2> SUFFICES ASSUME b + (n + 1) <= c
               PROVE  SumFunctionOnSet(g, a .. b + (n + 1) - 1)
                        = SumFunctionOnSet(g, a .. b - 1)
                            + SumFunctionOnSet(g, b .. b + (n + 1) - 1)
    OBVIOUS
  <2>1. b + n \in Int /\ a <= b + n /\ b <= b + n /\ b + (n + 1) - 1 = b + n
        /\ a .. b + n \subseteq D /\ b .. b + n \subseteq D
    OBVIOUS
  <2>2. /\ SumFunctionOnSet(g, a .. b + n) = SumFunctionOnSet(g, a .. b + n - 1) + g[b + n]
        /\ SumFunctionOnSet(g, b .. b + n) = SumFunctionOnSet(g, b .. b + n - 1) + g[b + n]
    BY <2>1, SumLast
  <2>3. SumFunctionOnSet(g, a .. b + n - 1)
          = SumFunctionOnSet(g, a .. b - 1) + SumFunctionOnSet(g, b .. b + n - 1)
    BY <1>3
  <2>4. /\ SumFunctionOnSet(g, a .. b - 1) \in Nat
        /\ SumFunctionOnSet(g, b .. b + n - 1) \in Nat
    BY <1>1
  <2>5. b + n \in D /\ g[b + n] \in Nat
    BY <2>1
  <2> QED
    BY <2>1, <2>2, <2>3, <2>4, <2>5
<1> HIDE DEF T
<1>4. c - b \in T
  BY <1>2, <1>3, NatInduct
<1>5. b + (c - b) = c
  OBVIOUS
<1> QED
  BY <1>4, <1>5 DEF T
=================================================================================

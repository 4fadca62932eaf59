---------------------------- MODULE LRUMapProofs ----------------------------
(***************************************************************************)
(* The LRU map for all keys, values, weights and limits: its running total *)
(* is the sum of the list's weights, and what it holds are the keys used   *)
(* most recently.                                                          *)
(*                                                                         *)
(* The lemmas on sums rest on a principle of induction over the subsets of *)
(* a finite set, which follows from the well-foundedness of the naturals.  *)
(***************************************************************************)
EXTENDS MCLRUMap, FiniteSetTheorems, SequenceTheorems, TLAPS

-----------------------------------------------------------------------------
(* Every nonempty set of numbers has a least one.                          *)
LEMMA LeastNumber ==
  ASSUME NEW S \in SUBSET Nat, S # {}
  PROVE  \E n \in S : \A m \in S : n <= m
<1> DEFINE R == OpToRel(<, Nat)
<1>1. \A x, y \in Nat : <<x, y>> \in R <=> x < y
  BY DEF OpToRel
<1>2. IsWellFoundedOn(R, Nat)
  BY NatLessThanWellFounded
<1> HIDE DEF R
<1>3. PICK x \in S : \A y \in S : ~ (<<y, x>> \in R)
  BY <1>2, WFMin
<1>4. \A y \in S : ~ (y < x)
  BY <1>1, <1>3
<1> QED
  BY <1>4

(* Induction over the subsets of a finite set.                             *)
LEMMA SubsetInduction ==
  ASSUME NEW U, IsFiniteSet(U), NEW C,
         \A s \in SUBSET U : (\A t \in SUBSET s : t # s => t \in C) => s \in C
  PROVE  \A s \in SUBSET U : s \in C
<1> DEFINE Bad == {s \in SUBSET U : s \notin C}
           Sizes == {Cardinality(s) : s \in Bad}
<1>1. SUFFICES ASSUME Bad # {} PROVE FALSE
  OBVIOUS
<1>2. \A s \in SUBSET U : IsFiniteSet(s) /\ Cardinality(s) \in Nat
  BY FS_Subset, FS_CardinalityType
<1>3. Sizes \in SUBSET Nat /\ Sizes # {}
  BY <1>1, <1>2
<1>4. PICK n \in Sizes : \A m \in Sizes : n <= m
  BY <1>3, LeastNumber
<1>5. PICK s \in Bad : n = Cardinality(s)
  BY <1>4
<1>6. ASSUME NEW t \in SUBSET s, t # s PROVE t \in C
  <2>1. Cardinality(t) < Cardinality(s)
    BY <1>2, <1>5, <1>6, FS_Subset
  <2>2. Cardinality(t) \in Nat /\ n \in Nat /\ ~ (n <= Cardinality(t))
    BY <1>2, <1>3, <1>5, <2>1
  <2>3. Cardinality(t) \notin Sizes
    BY <1>4, <2>2
  <2> QED
    BY <1>5, <2>3
<1> QED
  BY <1>5, <1>6

-----------------------------------------------------------------------------
(* Sums, whose elements SumFunctionOnSet takes in an order of its own      *)

Pick(s) == CHOOSE x \in s : TRUE

(* g tells the sums of all subsets of S.                                   *)
TellsSums(g, fun, S) ==
    g = [s \in SUBSET S |-> IF s = {} THEN 0 ELSE fun[Pick(s)] + g[s \ {Pick(s)}]]

LEMMA SumIsTold ==
  ASSUME NEW fun, NEW S, \E g : TellsSums(g, fun, S)
  PROVE  \E g : TellsSums(g, fun, S) /\ SumFunctionOnSet(fun, S) = g[S]
BY DEF SumFunctionOnSet, FoldFunctionOnSet, MapThenFoldSet, TellsSums, Pick

LEMMA PickIn == ASSUME NEW s, s # {} PROVE Pick(s) \in s
  BY DEF Pick

LEMMA TellAlike ==
  ASSUME NEW fun, NEW S, NEW T, IsFiniteSet(S), S \subseteq T,
         NEW g, TellsSums(g, fun, S), NEW h, TellsSums(h, fun, T)
  PROVE  \A s \in SUBSET S : g[s] = h[s]
<1> DEFINE C == {s \in SUBSET S : g[s] = h[s]}
<1>1. ASSUME NEW s \in SUBSET S, \A t \in SUBSET s : t # s => t \in C
      PROVE  s \in C
  <2>1. CASE s = {}
    <3>1. g[s] = 0
      BY <2>1 DEF TellsSums
    <3>2. h[s] = 0
      BY <2>1 DEF TellsSums
    <3> QED
      BY <3>1, <3>2
  <2>2. CASE s # {}
    <3>1. s \ {Pick(s)} \in SUBSET s /\ s \ {Pick(s)} # s
      BY <2>2, PickIn
    <3>2. g[s \ {Pick(s)}] = h[s \ {Pick(s)}]
      BY <1>1, <3>1
    <3>3. g[s] = fun[Pick(s)] + g[s \ {Pick(s)}]
      BY <2>2 DEF TellsSums
    <3>4. h[s] = fun[Pick(s)] + h[s \ {Pick(s)}]
      BY <2>2 DEF TellsSums
    <3> QED
      BY <3>2, <3>3, <3>4
  <2> QED
    BY <2>1, <2>2
<1> HIDE DEF C
<1>2. \A s \in SUBSET S : s \in C
  BY <1>1, SubsetInduction
<1> QED
  BY <1>2 DEF C

LEMMA SumsAreTold ==
  ASSUME NEW fun, NEW U, IsFiniteSet(U)
  PROVE  \A S \in SUBSET U : \E g : TellsSums(g, fun, S)
<1> DEFINE C == {S \in SUBSET U : \E g : TellsSums(g, fun, S)}
           Sum(s) == SumFunctionOnSet(fun, s)
<1>1. ASSUME NEW S \in SUBSET U, \A t \in SUBSET S : t # S => t \in C
      PROVE  S \in C
  <2> DEFINE Value(s) == IF s = {} THEN 0 ELSE fun[Pick(s)] + Sum(s \ {Pick(s)})
             g == [s \in SUBSET S |-> Value(s)]
  <2>1. ASSUME NEW s \in SUBSET S PROVE g[s] =
          IF s = {} THEN 0 ELSE fun[Pick(s)] + g[s \ {Pick(s)}]
    <3>1. CASE s = {}
      BY <3>1
    <3>2. CASE s # {}
      <4> DEFINE t == s \ {Pick(s)}
      <4>1. t \in SUBSET S /\ t # S /\ t \in SUBSET s
        BY <3>2, PickIn
      <4>2. PICK h : TellsSums(h, fun, t) /\ Sum(t) = h[t]
        BY <1>1, <4>1, SumIsTold
      <4>3. g[t] = Value(t)
        BY <4>1
      <4>4. Value(t) = h[t]
        <5>1. CASE t = {}
          <6>1. h[t] = 0
            BY <4>2, <5>1 DEF TellsSums
          <6> QED
            BY <5>1, <6>1
        <5>2. CASE t # {}
          <6> DEFINE r == t \ {Pick(t)}
          <6>1. r \in SUBSET t /\ r \in SUBSET S /\ r # S
            BY <4>1, <5>2, PickIn
          <6>2. PICK k : TellsSums(k, fun, r) /\ Sum(r) = k[r]
            BY <1>1, <6>1, SumIsTold
          <6>3. IsFiniteSet(r)
            BY <6>1, FS_Subset
          <6>4. k[r] = h[r]
            BY <4>2, <6>1, <6>2, <6>3, TellAlike
          <6>5. h[t] = fun[Pick(t)] + h[r]
            BY <4>2, <5>2 DEF TellsSums
          <6> QED
            BY <5>2, <6>2, <6>4, <6>5
        <5> QED
          BY <5>1, <5>2
      <4>5. g[s] = fun[Pick(s)] + Sum(t)
        BY <3>2
      <4> QED
        BY <3>2, <4>2, <4>3, <4>4, <4>5
    <3> QED
      BY <3>1, <3>2
  <2> HIDE DEF Value
  <2>2. g = [s \in SUBSET S |-> IF s = {} THEN 0 ELSE fun[Pick(s)] + g[s \ {Pick(s)}]]
    BY <2>1
  <2>3. TellsSums(g, fun, S)
    BY <2>2 DEF TellsSums
  <2> QED
    BY <2>3
<1> HIDE DEF C
<1>2. \A s \in SUBSET U : s \in C
  BY <1>1, SubsetInduction
<1> QED
  BY <1>2 DEF C

(* The sum over a set is what it picks and the sum over the rest.          *)
LEMMA SumByPick ==
  ASSUME NEW fun, NEW S, IsFiniteSet(S)
  PROVE  SumFunctionOnSet(fun, S) =
           IF S = {} THEN 0
           ELSE fun[Pick(S)] + SumFunctionOnSet(fun, S \ {Pick(S)})
<1>1. PICK g : TellsSums(g, fun, S) /\ SumFunctionOnSet(fun, S) = g[S]
  BY SumsAreTold, SumIsTold
<1>2. CASE S = {}
  BY <1>1, <1>2 DEF TellsSums
<1>3. CASE S # {}
  <2> DEFINE t == S \ {Pick(S)}
  <2>1. t \in SUBSET S /\ IsFiniteSet(t)
    BY FS_Subset
  <2>2. PICK h : TellsSums(h, fun, t) /\ SumFunctionOnSet(fun, t) = h[t]
    BY <2>1, SumsAreTold, SumIsTold
  <2>3. h[t] = g[t]
    <3> HIDE DEF t
    <3>1. t \subseteq S
      BY <2>1
    <3>2. \A s \in SUBSET t : h[s] = g[s]
      BY <1>1, <2>1, <2>2, <3>1, TellAlike
    <3> QED
      BY <3>2
  <2>4. g[S] = fun[Pick(S)] + g[t]
    BY <1>1, <1>3 DEF TellsSums
  <2>5. SumFunctionOnSet(fun, S) = fun[Pick(S)] + SumFunctionOnSet(fun, t)
    <3>1. g[t] = SumFunctionOnSet(fun, t)
      BY <2>2, <2>3
    <3> QED
      BY <1>1, <2>4, <3>1
  <2> QED
    BY <1>3, <2>5
<1> QED
  BY <1>2, <1>3

LEMMA SumType ==
  ASSUME NEW fun, NEW U, IsFiniteSet(U), \A x \in U : fun[x] \in Nat
  PROVE  \A S \in SUBSET U : SumFunctionOnSet(fun, S) \in Nat
<1> DEFINE C == {S \in SUBSET U : SumFunctionOnSet(fun, S) \in Nat}
<1>1. ASSUME NEW S \in SUBSET U, \A t \in SUBSET S : t # S => t \in C
      PROVE  S \in C
  <2>1. IsFiniteSet(S)
    BY FS_Subset
  <2>2. CASE S = {}
    <3>1. SumFunctionOnSet(fun, S) = 0
      BY <2>1, <2>2, SumByPick
    <3> QED
      BY <3>1
  <2>3. CASE S # {}
    <3>1. Pick(S) \in U /\ S \ {Pick(S)} \in SUBSET S /\ S \ {Pick(S)} # S
      BY <2>3, PickIn
    <3>2. SumFunctionOnSet(fun, S \ {Pick(S)}) \in Nat
      BY <1>1, <3>1
    <3>3. SumFunctionOnSet(fun, S) = fun[Pick(S)] + SumFunctionOnSet(fun, S \ {Pick(S)})
      BY <2>1, <2>3, SumByPick
    <3> QED
      BY <3>1, <3>2, <3>3
  <2> QED
    BY <2>2, <2>3
<1> HIDE DEF C
<1>2. \A S \in SUBSET U : S \in C
  BY <1>1, SubsetInduction
<1> QED
  BY <1>2 DEF C

(* Any element may be taken first.                                         *)
LEMMA SumWithout ==
  ASSUME NEW fun, NEW U, IsFiniteSet(U), \A x \in U : fun[x] \in Nat
  PROVE  \A S \in SUBSET U : \A x \in S :
           SumFunctionOnSet(fun, S) = fun[x] + SumFunctionOnSet(fun, S \ {x})
<1> DEFINE Sum(S) == SumFunctionOnSet(fun, S)
           C == {S \in SUBSET U : \A x \in S : Sum(S) = fun[x] + Sum(S \ {x})}
<1>1. ASSUME NEW S \in SUBSET U, \A t \in SUBSET S : t # S => t \in C, NEW x \in S
      PROVE  Sum(S) = fun[x] + Sum(S \ {x})
  <2> DEFINE y == Pick(S)
  <2>1. IsFiniteSet(S) /\ IsFiniteSet(S \ {x}) /\ S # {}
    BY FS_Subset
  <2>2. y \in S /\ Sum(S) = fun[y] + Sum(S \ {y})
    BY <2>1, PickIn, SumByPick
  <2>3. CASE x = y
    BY <2>2, <2>3
  <2>4. CASE x # y
    <3>1. S \ {y} \in C /\ x \in S \ {y} /\ S \ {x} \in C /\ y \in S \ {x}
      BY <1>1, <2>2, <2>4
    <3>2. Sum(S \ {y}) = fun[x] + Sum((S \ {y}) \ {x})
      BY <3>1
    <3>3. Sum(S \ {x}) = fun[y] + Sum((S \ {x}) \ {y})
      BY <3>1
    <3>4. (S \ {y}) \ {x} = (S \ {x}) \ {y}
      OBVIOUS
    <3>5. fun[x] \in Nat /\ fun[y] \in Nat /\ Sum((S \ {x}) \ {y}) \in Nat
      BY <2>2, SumType
    <3> HIDE DEF y, Sum
    <3> QED
      BY <2>2, <3>2, <3>3, <3>4, <3>5
  <2> QED
    BY <2>3, <2>4
<1> HIDE DEF Sum
<1>2. \A S \in SUBSET U : (\A t \in SUBSET S : t # S => t \in C) => S \in C
  BY <1>1
<1> HIDE DEF C
<1>3. \A S \in SUBSET U : S \in C
  BY <1>2, SubsetInduction
<1> QED
  BY <1>3 DEF C, Sum

LEMMA SumLessOne ==
  ASSUME NEW fun, NEW U, IsFiniteSet(U), \A x \in U : fun[x] \in Nat, NEW y \in U
  PROVE  SumFunctionOnSet(fun, U) = fun[y] + SumFunctionOnSet(fun, U \ {y})
<1>1. U \in SUBSET U
  OBVIOUS
<1> QED
  BY <1>1, SumWithout

(* The sums of two disjoint sets add up.                                   *)
LEMMA SumOfUnion ==
  ASSUME NEW fun, NEW S, NEW T, IsFiniteSet(S), IsFiniteSet(T), S \cap T = {},
         \A x \in S \cup T : fun[x] \in Nat
  PROVE  SumFunctionOnSet(fun, S \cup T)
           = SumFunctionOnSet(fun, S) + SumFunctionOnSet(fun, T)
<1> DEFINE Sum(s) == SumFunctionOnSet(fun, s)
           C == {s \in SUBSET S : Sum(s \cup T) = Sum(s) + Sum(T)}
<1>1. IsFiniteSet(S \cup T)
  BY FS_Union
<1>2. ASSUME NEW s \in SUBSET S, \A t \in SUBSET s : t # s => t \in C
      PROVE  Sum(s \cup T) = Sum(s) + Sum(T)
  <2>1. CASE s = {}
    <3>1. Sum(s) = 0
      BY <2>1, FS_EmptySet, SumByPick
    <3>2. s \cup T = T
      BY <2>1
    <3>3. Sum(s \cup T) = Sum(T)
      BY <3>2
    <3>4. Sum(T) \in Nat
      BY SumType
    <3> HIDE DEF Sum
    <3> QED
      BY <3>1, <3>3, <3>4
  <2>2. CASE s # {}
    <3>1. PICK x \in s : TRUE
      BY <2>2
    <3>2. s \ {x} \in C /\ s \cup T \in SUBSET (S \cup T) /\ s \in SUBSET (S \cup T)
      BY <1>2, <3>1
    <3>3. Sum(s) = fun[x] + Sum(s \ {x})
      BY <1>1, <3>1, <3>2, SumWithout
    <3>4. Sum(s \cup T) = fun[x] + Sum((s \cup T) \ {x})
      BY <1>1, <3>1, <3>2, SumWithout
    <3>5. Sum((s \cup T) \ {x}) = Sum((s \ {x}) \cup T)
      <4>1. (s \cup T) \ {x} = (s \ {x}) \cup T
        BY <3>1
      <4> QED
        BY <4>1
    <3>6. fun[x] \in Nat /\ Sum(s \ {x}) \in Nat /\ Sum(T) \in Nat
      BY <1>1, <3>1, <3>2, SumType
    <3>7. Sum((s \ {x}) \cup T) = Sum(s \ {x}) + Sum(T)
      BY <3>2
    <3> HIDE DEF Sum
    <3> QED
      BY <3>3, <3>4, <3>5, <3>6, <3>7
  <2> QED
    BY <2>1, <2>2
<1> HIDE DEF Sum
<1>3. \A s \in SUBSET S : (\A t \in SUBSET s : t # s => t \in C) => s \in C
  BY <1>2
<1> HIDE DEF C
<1>4. S \in C
  BY <1>3, SubsetInduction
<1> QED
  BY <1>4 DEF C, Sum

(* Sums of the same values, each found at another place, are the same.     *)
LEMMA SumMoved ==
  ASSUME NEW fun, NEW gun, NEW S, NEW T, NEW p, IsFiniteSet(S), IsFiniteSet(T),
         \A x \in S : p[x] \in T /\ fun[x] = gun[p[x]],
         \A x, y \in S : p[x] = p[y] => x = y,
         \A y \in T : gun[y] \in Nat /\ \E x \in S : p[x] = y
  PROVE  SumFunctionOnSet(fun, S) = SumFunctionOnSet(gun, T)
<1> DEFINE F(s) == SumFunctionOnSet(fun, s)
           G(s) == SumFunctionOnSet(gun, s)
           Image(s) == {p[x] : x \in s}
           C == {s \in SUBSET S : F(s) = G(Image(s))}
<1>1. ASSUME NEW s \in SUBSET S, \A t \in SUBSET s : t # s => t \in C
      PROVE  F(s) = G(Image(s))
  <2>1. CASE s = {}
    <3>1. F(s) = 0 /\ Image(s) = {} /\ G({}) = 0
      BY <2>1, FS_EmptySet, SumByPick
    <3> HIDE DEF F, G, Image
    <3> QED
      BY <3>1
  <2>2. CASE s # {}
    <3>1. PICK x \in s : TRUE
      BY <2>2
    <3>2. s \ {x} \in C
      BY <1>1, <3>1
    <3>3. F(s) = fun[x] + F(s \ {x})
      BY <3>1, SumWithout
    <3>4. p[x] \in Image(s) /\ Image(s) \in SUBSET T
      BY <3>1
    <3>5. G(Image(s)) = gun[p[x]] + G(Image(s) \ {p[x]})
      BY <3>4, SumWithout
    <3>6. Image(s) \ {p[x]} = Image(s \ {x})
      BY <3>1
    <3>7. fun[x] = gun[p[x]]
      BY <3>1
    <3>8. F(s \ {x}) = G(Image(s \ {x}))
      BY <3>2
    <3> HIDE DEF F, G, Image
    <3> QED
      BY <3>3, <3>5, <3>6, <3>7, <3>8
  <2> QED
    BY <2>1, <2>2
<1> HIDE DEF F, G
<1>2. \A s \in SUBSET S : (\A t \in SUBSET s : t # s => t \in C) => s \in C
  BY <1>1
<1>3. Image(S) = T
  OBVIOUS
<1> HIDE DEF C, Image
<1>4. S \in C
  BY <1>2, SubsetInduction
<1> QED
  BY <1>3, <1>4 DEF C, F, G

-----------------------------------------------------------------------------
(* The weights of lists                                                    *)

Weighing(l) == [n \in DOMAIN l |-> l[n].weight]
WeightTo(l, n) == SumFunctionOnSet(Weighing(l), 1..n)

LEMMA WeightsAreNat ==
  ASSUME NEW l \in Seq(Entry)
  PROVE  /\ Len(l) \in Nat /\ DOMAIN l = 1..Len(l) /\ IsFiniteSet(1..Len(l))
         /\ \A n \in 1..Len(l) : l[n] \in Entry /\ Weighing(l)[n] = l[n].weight
         /\ \A n \in 1..Len(l) : Weighing(l)[n] \in Nat
<1>1. Len(l) \in Nat /\ DOMAIN l = 1..Len(l)
  OBVIOUS
<1>2. \A n \in 1..Len(l) : l[n] \in Entry
  BY <1>1, ElementOfSeq
<1>3. \A n \in 1..Len(l) : l[n].weight \in Nat
  BY <1>2, LRUAssumption DEF Entry
<1>4. IsFiniteSet(1..Len(l))
  BY <1>1, FS_Interval
<1> QED
  BY <1>1, <1>2, <1>3, <1>4 DEF Weighing

(* The weight of a list is that of its first entries and the others'.      *)
LEMMA WeightSplits ==
  ASSUME NEW l \in Seq(Entry), NEW n \in 0..Len(l)
  PROVE  /\ WeightTo(l, n) \in Nat /\ SumFunctionOnSet(Weighing(l), n + 1..Len(l)) \in Nat
         /\ WeightTo(l, Len(l))
              = WeightTo(l, n) + SumFunctionOnSet(Weighing(l), n + 1..Len(l))
<1> DEFINE S == 1..n
           T == n + 1..Len(l)
<1>1. n \in Nat /\ Len(l) \in Nat /\ n <= Len(l)
  BY WeightsAreNat
<1>2. S \cup T = 1..Len(l) /\ S \cap T = {} /\ S \in SUBSET (1..Len(l)) /\ T \in SUBSET (1..Len(l))
  BY <1>1
<1> HIDE DEF S, T
<1>3. IsFiniteSet(S) /\ IsFiniteSet(T)
  BY <1>2, WeightsAreNat, FS_Subset
<1>4. \A x \in S \cup T : Weighing(l)[x] \in Nat
  BY <1>2, WeightsAreNat
<1>5. SumFunctionOnSet(Weighing(l), S \cup T)
        = SumFunctionOnSet(Weighing(l), S) + SumFunctionOnSet(Weighing(l), T)
  BY <1>2, <1>3, <1>4, SumOfUnion
<1>6. /\ SumFunctionOnSet(Weighing(l), S) \in Nat
      /\ SumFunctionOnSet(Weighing(l), T) \in Nat
  BY <1>2, WeightsAreNat, SumType
<1> QED
  BY <1>2, <1>5, <1>6 DEF WeightTo, S, T

LEMMA NoWeight == ASSUME NEW l PROVE WeightTo(l, 0) = 0
<1>1. 1..0 = {}
  OBVIOUS
<1> QED
  BY <1>1, FS_EmptySet, SumByPick DEF WeightTo

(* A list that starts with the same entries weighs the same up to there.   *)
LEMMA WeightOfFirst ==
  ASSUME NEW l \in Seq(Entry), NEW m \in Seq(Entry), NEW n \in 0..Len(l), n <= Len(m),
         \A j \in 1..n : m[j] = l[j]
  PROVE  WeightTo(m, n) = WeightTo(l, n)
<1> DEFINE S == 1..n
           p == [x \in S |-> x]
<1>1. n \in Nat /\ Len(l) \in Nat /\ Len(m) \in Nat
  BY WeightsAreNat
<1>2. IsFiniteSet(S)
  BY <1>1, FS_Interval
<1>3. \A x \in S : x \in 1..Len(l) /\ x \in 1..Len(m) /\ m[x] = l[x]
  BY <1>1
<1>4. \A x, y \in S : p[x] = p[y] => x = y
  OBVIOUS
<1>5. \A x \in S : p[x] = x
  OBVIOUS
<1> HIDE DEF p, S
<1>6. \A x \in S : Weighing(l)[x] \in Nat /\ Weighing(m)[x] = Weighing(l)[x]
  BY <1>3, WeightsAreNat
<1>7. \A x \in S : p[x] \in S /\ Weighing(m)[x] = Weighing(l)[p[x]]
  BY <1>5, <1>6
<1>8. \A y \in S : Weighing(l)[y] \in Nat /\ \E x \in S : p[x] = y
  BY <1>5, <1>6
<1>9. SumFunctionOnSet(Weighing(m), S) = SumFunctionOnSet(Weighing(l), S)
  BY <1>2, <1>4, <1>7, <1>8, SumMoved
<1> QED
  BY <1>9 DEF WeightTo, S

(* The weight of a list with an entry put before the first n.              *)
LEMMA WeightWithFront ==
  ASSUME NEW l \in Seq(Entry), NEW m \in Seq(Entry), NEW n \in 0..Len(l), Len(m) = n + 1,
         \A j \in 2..n + 1 : m[j] = l[j - 1]
  PROVE  WeightTo(m, n + 1) = m[1].weight + WeightTo(l, n)
<1> DEFINE S == 2..n + 1
           T == 1..n
           p == [x \in S |-> x - 1]
<1>1. n \in Nat /\ Len(l) \in Nat
  BY WeightsAreNat
<1>2. IsFiniteSet(S) /\ IsFiniteSet(T)
  <2>1. n + 1 \in Int
    BY <1>1
  <2> QED
    BY <1>1, <2>1, FS_Interval
<1>3. \A x \in S : x \in 1..Len(m) /\ x - 1 \in T /\ m[x] = l[x - 1]
  BY <1>1
<1>4. \A x \in T : x \in 1..Len(l)
  BY <1>1
<1>5. \A x, y \in S : p[x] = p[y] => x = y
  BY <1>1
<1>6. \A x \in S : p[x] = x - 1
  OBVIOUS
<1>7. \A y \in T : \E x \in S : p[x] = y
  <2> TAKE y \in T
  <2>1. y + 1 \in S /\ p[y + 1] = y
    BY <1>1
  <2> QED
    BY <2>1
<1>8. 1..n + 1 = S \cup {1} /\ 1 \notin S
  BY <1>1
<1> HIDE DEF p, S, T
<1>9. \A y \in T : Weighing(l)[y] \in Nat
  BY <1>4, WeightsAreNat
<1>10. ASSUME NEW x \in S PROVE p[x] \in T /\ Weighing(m)[x] = Weighing(l)[p[x]]
  <2>1. x - 1 \in 1..Len(l) /\ x \in 1..Len(m)
    BY <1>3, <1>4
  <2>2. Weighing(m)[x] = m[x].weight /\ Weighing(l)[x - 1] = l[x - 1].weight
    BY <2>1, WeightsAreNat
  <2> QED
    BY <1>3, <1>6, <2>2
<1>11. SumFunctionOnSet(Weighing(m), S) = SumFunctionOnSet(Weighing(l), T)
  BY <1>2, <1>5, <1>7, <1>9, <1>10, SumMoved
<1>12. 1..Len(m) = S \cup {1}
  BY <1>8
<1>13. (S \cup {1}) \ {1} = S
  BY <1>8
<1>14. SumFunctionOnSet(Weighing(m), S \cup {1})
         = Weighing(m)[1] + SumFunctionOnSet(Weighing(m), (S \cup {1}) \ {1})
  <2>1. IsFiniteSet(S \cup {1}) /\ \A x \in S \cup {1} : Weighing(m)[x] \in Nat
    BY <1>12, WeightsAreNat
  <2> DEFINE one == 1
  <2>2. one \in S \cup {1}
    OBVIOUS
  <2> HIDE DEF one
  <2>3. SumFunctionOnSet(Weighing(m), S \cup {1}) =
          Weighing(m)[one] + SumFunctionOnSet(Weighing(m), (S \cup {1}) \ {one})
    BY <2>1, <2>2, SumLessOne
  <2> QED
    BY <2>3 DEF one
<1>15. Weighing(m)[1] = m[1].weight
  BY <1>12, WeightsAreNat
<1>16. WeightTo(m, n + 1) = SumFunctionOnSet(Weighing(m), S \cup {1})
  BY <1>8 DEF WeightTo
<1>17. WeightTo(l, n) = SumFunctionOnSet(Weighing(l), T)
  BY DEF WeightTo, T
<1> QED
  BY <1>11, <1>13, <1>14, <1>15, <1>16, <1>17

-----------------------------------------------------------------------------
(* What each operation does to list and hash map                           *)

KeysOf(l, n) == {l[j].key : j \in 1..n}

(* MapMatchesList, of any list and any map.                                *)
Matches(l, m) ==
    /\ DOMAIN m = KeysOf(l, Len(l))
    /\ \A i \in 1..Len(l) : m[l[i].key] = l[i]
    /\ \A i, j \in 1..Len(l) : l[i].key = l[j].key => i = j

LEMMA ListsMatch == MapMatchesList <=> Matches(mLRU, mMap)
<1>1. ASSUME MapMatchesList PROVE Matches(mLRU, mMap)
  <2>1. DOMAIN mMap \subseteq KeysOf(mLRU, Len(mLRU))
    BY <1>1 DEF MapMatchesList, KeysOf
  <2>2. KeysOf(mLRU, Len(mLRU)) \subseteq DOMAIN mMap
    BY <1>1 DEF MapMatchesList, KeysOf
  <2>3. DOMAIN mMap = KeysOf(mLRU, Len(mLRU))
    BY <2>1, <2>2
  <2> QED
    BY <1>1, <2>3 DEF MapMatchesList, Matches
<1>2. ASSUME Matches(mLRU, mMap) PROVE MapMatchesList
  <2>1. \A i \in 1..Len(mLRU) : mLRU[i].key \in DOMAIN mMap
    BY <1>2 DEF Matches, KeysOf
  <2>2. \A k \in DOMAIN mMap : \E i \in 1..Len(mLRU) : mLRU[i].key = k
    BY <1>2 DEF Matches, KeysOf
  <2> QED
    BY <1>2, <2>1, <2>2 DEF MapMatchesList, Matches
<1> QED
  BY <1>1, <1>2

LRUInv == TypeOK /\ MapMatchesList /\ WeightBounded

LEMMA ListFacts ==
  ASSUME TypeOK
  PROVE  /\ Len(mLRU) \in Nat
         /\ \A i \in 1..Len(mLRU) : /\ mLRU[i] \in Entry /\ mLRU[i].key \in Keys
                                    /\ mLRU[i].weight \in Nat
<1>1. mLRU \in Seq(Entry)
  BY DEF TypeOK
<1>2. Len(mLRU) \in Nat /\ \A i \in 1..Len(mLRU) : mLRU[i] \in Entry
  BY <1>1, WeightsAreNat
<1>3. \A e \in Entry : e.key \in Keys /\ e.weight \in Nat
  BY LRUAssumption DEF Entry
<1> QED
  BY <1>2, <1>3

(* The first n entries weigh what KeepsFirst says they do.                 *)
LEMMA KeptWeight ==
  ASSUME LRUInv, NEW n \in 0..Len(mLRU)
  PROVE  /\ WeightTo(mLRU, n) \in Nat
         /\ mWeight - WeightOf(n + 1, Len(mLRU)) = WeightTo(mLRU, n)
         /\ WeightTo(mLRU, n) <= mWeight
<1>1. mLRU \in Seq(Entry)
  BY DEF LRUInv, TypeOK
<1>2. mWeight = WeightTo(mLRU, Len(mLRU))
  BY DEF LRUInv, WeightBounded, WeightOf, WeightTo, Weighing
<1>3. WeightOf(n + 1, Len(mLRU)) = SumFunctionOnSet(Weighing(mLRU), n + 1..Len(mLRU))
  BY DEF WeightOf, Weighing
<1>4. /\ WeightTo(mLRU, n) \in Nat /\ WeightOf(n + 1, Len(mLRU)) \in Nat
      /\ mWeight = WeightTo(mLRU, n) + WeightOf(n + 1, Len(mLRU))
  BY <1>1, <1>2, <1>3, WeightSplits
<1> HIDE DEF LRUInv
<1> QED
  BY <1>4

(* The hash map holds the keys of the entries that makeRoom leaves.        *)
LEMMA KeptMap ==
  ASSUME TypeOK, MapMatchesList, NEW n \in 0..Len(mLRU)
  PROVE  /\ DOMAIN MapOfFirst(n) = KeysOf(mLRU, n)
         /\ \A j \in 1..n : MapOfFirst(n)[mLRU[j].key] = mLRU[j] /\ mMap[mLRU[j].key] = mLRU[j]
<1> DEFINE L == Len(mLRU)
           gone == {mLRU[j].key : j \in n + 1..L}
<1>1. L \in Nat
  BY ListFacts
<1>2. /\ DOMAIN mMap = KeysOf(mLRU, L)
      /\ \A i \in 1..L : mMap[mLRU[i].key] = mLRU[i]
      /\ \A i, j \in 1..L : mLRU[i].key = mLRU[j].key => i = j
  BY ListsMatch DEF Matches
<1>3. MapOfFirst(n) = [k \in DOMAIN mMap \ gone |-> mMap[k]]
  BY DEF MapOfFirst
<1>4. \A i \in 1..L : i \in 1..n <=> i \notin n + 1..L
  BY <1>1
<1>5. 1..n \subseteq 1..L /\ n + 1..L \subseteq 1..L
  BY <1>1
<1> HIDE DEF L
<1>6. ASSUME NEW j \in 1..n PROVE mLRU[j].key \notin gone /\ mLRU[j].key \in DOMAIN mMap
  <2>1. \A i \in n + 1..L : mLRU[i].key # mLRU[j].key
    BY <1>2, <1>4, <1>5
  <2> QED
    BY <1>2, <1>5, <2>1 DEF KeysOf
<1>7. ASSUME NEW k \in DOMAIN mMap \ gone PROVE k \in KeysOf(mLRU, n)
  <2>1. PICK i \in 1..L : k = mLRU[i].key
    BY <1>2 DEF KeysOf
  <2>2. i \notin n + 1..L
    BY <2>1
  <2> QED
    BY <1>4, <2>1, <2>2 DEF KeysOf
<1> HIDE DEF gone
<1>8. DOMAIN mMap \ gone = KeysOf(mLRU, n)
  BY <1>6, <1>7 DEF KeysOf
<1>9. DOMAIN MapOfFirst(n) = DOMAIN mMap \ gone
  BY <1>3
<1>10. \A j \in 1..n : MapOfFirst(n)[mLRU[j].key] = mMap[mLRU[j].key]
  BY <1>3, <1>6
<1> QED
  BY <1>2, <1>5, <1>8, <1>9, <1>10

(* Where the entry at j was before the one at i went to the front.         *)
From(i, j) == IF j = 1 THEN i ELSE IF j <= i THEN j - 1 ELSE j

LEMMA FromFacts ==
  ASSUME NEW L \in Nat, NEW i \in 1..L
  PROVE  /\ \A j \in 1..L : From(i, j) \in 1..L
         /\ \A j, n \in 1..L : From(i, j) = From(i, n) => j = n
         /\ \A n \in 1..L : \E j \in 1..L : From(i, j) = n
<1>1. \A j \in 1..L : From(i, j) \in 1..L
  BY DEF From
<1>2. \A j, n \in 1..L : From(i, j) = From(i, n) => j = n
  BY DEF From
<1>3. ASSUME NEW n \in 1..L PROVE \E j \in 1..L : From(i, j) = n
  <2>1. CASE n = i
    <3>1. 1 \in 1..L /\ From(i, 1) = n
      BY <2>1 DEF From
    <3> QED
      BY <3>1
  <2>2. CASE n < i
    <3>1. n + 1 \in 1..L /\ From(i, n + 1) = n
      BY <2>2 DEF From
    <3> QED
      BY <3>1
  <2>3. CASE n > i
    <3>1. From(i, n) = n
      BY <2>3 DEF From
    <3> QED
      BY <3>1
  <2> QED
    BY <2>1, <2>2, <2>3
<1> QED
  BY <1>1, <1>2, <1>3

(* Splicing an entry to the front only moves entries.                      *)
LEMMA MarkNewMoves ==
  ASSUME TypeOK, NEW k, MarkNew(k)
  PROVE  /\ \E i \in 1..Len(mLRU) :
               /\ mLRU[i] = mMap[k]
               /\ \A j \in 1..Len(mLRU) : mLRU'[j] = mLRU[From(i, j)]
         /\ mLRU' \in Seq(Entry) /\ Len(mLRU') = Len(mLRU)
         /\ mMap' = mMap /\ mWeight' = mWeight /\ mMaxWeight' = mMaxWeight
<1> DEFINE L == Len(mLRU)
<1>1. L \in Nat /\ \A n \in 1..L : mLRU[n] \in Entry
  BY ListFacts
<1>2. PICK i \in 1..L :
        /\ mLRU[i] = mMap[k]
        /\ mLRU' = [j \in 1..L |-> IF j = 1 THEN mLRU[i]
                                   ELSE IF j <= i THEN mLRU[j - 1] ELSE mLRU[j]]
  BY DEF MarkNew
<1>3. mMap' = mMap /\ mWeight' = mWeight /\ mMaxWeight' = mMaxWeight
  BY DEF MarkNew
<1>4. \A j \in 1..L : mLRU'[j] = mLRU[From(i, j)]
  BY <1>1, <1>2 DEF From
<1>5. \A j \in 1..L : (IF j = 1 THEN mLRU[i]
                       ELSE IF j <= i THEN mLRU[j - 1] ELSE mLRU[j]) \in Entry
  BY <1>1
<1>6. mLRU' \in Seq(Entry) /\ Len(mLRU') = L
  BY <1>1, <1>2, <1>5
<1> QED
  BY <1>2, <1>3, <1>4, <1>6

LEMMA MarkNewKeeps ==
  ASSUME LRUInv, NEW k, MarkNew(k)
  PROVE  LRUInv'
<1> DEFINE L == Len(mLRU)
<1>1. TypeOK /\ Matches(mLRU, mMap) /\ WeightBounded
  BY ListsMatch DEF LRUInv
<1>2. L \in Nat /\ mLRU \in Seq(Entry)
  BY <1>1, ListFacts DEF TypeOK
<1>3. PICK i \in 1..L : \A j \in 1..L : mLRU'[j] = mLRU[From(i, j)]
  BY <1>1, MarkNewMoves
<1>4. /\ mLRU' \in Seq(Entry) /\ Len(mLRU') = L
      /\ mMap' = mMap /\ mWeight' = mWeight /\ mMaxWeight' = mMaxWeight
  BY <1>1, MarkNewMoves
<1>5. TypeOK'
  BY <1>1, <1>4 DEF TypeOK
<1> HIDE DEF L
<1>6. /\ \A j \in 1..L : From(i, j) \in 1..L
      /\ \A j, n \in 1..L : From(i, j) = From(i, n) => j = n
      /\ \A n \in 1..L : \E j \in 1..L : From(i, j) = n
  BY <1>2, FromFacts
<1>7. /\ DOMAIN mMap = KeysOf(mLRU, L)
      /\ \A n \in 1..L : mMap[mLRU[n].key] = mLRU[n]
      /\ \A j, n \in 1..L : mLRU[j].key = mLRU[n].key => j = n
  BY <1>1 DEF Matches, L
<1>8. KeysOf(mLRU', L) = KeysOf(mLRU, L)
  <2>1. KeysOf(mLRU', L) \subseteq KeysOf(mLRU, L)
    BY <1>3, <1>6 DEF KeysOf
  <2>2. ASSUME NEW x \in KeysOf(mLRU, L) PROVE x \in KeysOf(mLRU', L)
    <3>1. PICK n \in 1..L : x = mLRU[n].key
      BY DEF KeysOf
    <3>2. PICK j \in 1..L : From(i, j) = n
      BY <1>6
    <3> QED
      BY <1>3, <3>1, <3>2 DEF KeysOf
  <2> QED
    BY <2>1, <2>2
<1>9. \A j \in 1..L : mMap[mLRU'[j].key] = mLRU'[j]
  BY <1>3, <1>6, <1>7
<1>10. ASSUME NEW j \in 1..L, NEW n \in 1..L, mLRU'[j].key = mLRU'[n].key PROVE j = n
  <2>1. mLRU[From(i, j)].key = mLRU[From(i, n)].key
    BY <1>3, <1>10
  <2>2. From(i, j) = From(i, n)
    BY <1>6, <1>7, <2>1
  <2> QED
    BY <1>6, <2>2
<1>11. Matches(mLRU, mMap)'
  BY <1>4, <1>7, <1>8, <1>9, <1>10 DEF Matches
<1>12. WeightTo(mLRU', L) = WeightTo(mLRU, L)
  <2> DEFINE p == [j \in 1..L |-> From(i, j)]
             A == Weighing(mLRU')
             B == Weighing(mLRU)
  <2>1. \A j \in 1..L : A[j] = mLRU'[j].weight /\ B[j] = mLRU[j].weight /\ B[j] \in Nat
    BY <1>2, <1>4, WeightsAreNat DEF L
  <2>2. \A j \in 1..L : p[j] = From(i, j)
    OBVIOUS
  <2> HIDE DEF p, A, B
  <2>3. \A j \in 1..L : p[j] \in 1..L /\ A[j] = B[p[j]]
    BY <1>3, <1>6, <2>1, <2>2
  <2>4. \A j, n \in 1..L : p[j] = p[n] => j = n
    BY <1>6, <2>2
  <2>5. \A n \in 1..L : B[n] \in Nat /\ \E j \in 1..L : p[j] = n
    BY <1>6, <2>1, <2>2
  <2>6. IsFiniteSet(1..L)
    BY <1>2, FS_Interval
  <2> DEFINE S == 1..L
  <2>7. /\ \A j \in S : p[j] \in S /\ A[j] = B[p[j]]
        /\ \A j, n \in S : p[j] = p[n] => j = n
        /\ \A n \in S : B[n] \in Nat /\ \E j \in S : p[j] = n
        /\ IsFiniteSet(S)
    BY <2>3, <2>4, <2>5, <2>6
  <2> HIDE DEF S
  <2>8. SumFunctionOnSet(A, S) = SumFunctionOnSet(B, S)
    BY <2>7, SumMoved
  <2> QED
    BY <2>8 DEF WeightTo, A, B, S
<1>13. WeightBounded'
  BY <1>1, <1>4, <1>12 DEF WeightBounded, WeightOf, WeightTo, Weighing, L
<1>14. MapMatchesList'
  BY <1>11, ListsMatch, PTL
<1> QED
  BY <1>5, <1>13, <1>14 DEF LRUInv

(* What makeRoom leaves, behind the entry that is added.                   *)
LEMMA InsertKeepsFirst ==
  ASSUME TypeOK, MapMatchesList, NEW k \in Keys, NEW v \in Values, NEW w \in Weights,
         Insert(k, v, w)
  PROVE  \E n \in 0..Len(mLRU) :
           /\ KeepsFirst(n, mMaxWeight - w)
           /\ mLRU' \in Seq(Entry) /\ Len(mLRU') = n + 1
           /\ mLRU'[1] = [key |-> k, value |-> v, weight |-> w]
           /\ \A j \in 2..n + 1 : mLRU'[j] = mLRU[j - 1]
           /\ DOMAIN mMap' = KeysOf(mLRU, n) \cup {k}
           /\ \A x \in DOMAIN mMap' : mMap'[x] = IF x = k THEN mLRU'[1] ELSE mMap[x]
           /\ mWeight' = mWeight - WeightOf(n + 1, Len(mLRU)) + w
           /\ mMaxWeight' = mMaxWeight
<1> DEFINE L == Len(mLRU)
           e == [key |-> k, value |-> v, weight |-> w]
<1>1. L \in Nat /\ mLRU \in Seq(Entry) /\ e \in Entry
  BY ListFacts DEF TypeOK, Entry
<1>2. PICK n \in 0..L :
        /\ KeepsFirst(n, mMaxWeight - w)
        /\ mLRU' = <<e>> \o SubSeq(mLRU, 1, n)
        /\ mMap' = [x \in DOMAIN MapOfFirst(n) \cup {k} |-> IF x = k THEN e ELSE mMap[x]]
        /\ mWeight' = mWeight - WeightOf(n + 1, L) + w
        /\ mMaxWeight' = mMaxWeight
  BY DEF Insert
<1> HIDE DEF e
<1>3. /\ mLRU' \in Seq(Entry) /\ Len(mLRU') = n + 1 /\ mLRU'[1] = e
      /\ \A j \in 2..n + 1 : mLRU'[j] = mLRU[j - 1]
  <2> DEFINE s == SubSeq(mLRU, 1, n)
  <2>1. s \in Seq(Entry) /\ Len(s) = n /\ \A j \in 1..n : s[j] = mLRU[j]
    BY <1>1, <1>2
  <2>2. mLRU' = <<e>> \o s
    BY <1>2
  <2> HIDE DEF s
  <2>3. <<e>> \in Seq(Entry) /\ Len(<<e>>) = 1 /\ <<e>>[1] = e
    BY <1>1
  <2>4. mLRU' \in Seq(Entry) /\ Len(mLRU') = n + 1 /\ mLRU'[1] = e
    BY <2>1, <2>2, <2>3
  <2>5. \A j \in 2..n + 1 : mLRU'[j] = s[j - 1]
    BY <2>1, <2>2, <2>3
  <2>6. \A j \in 2..n + 1 : s[j - 1] = mLRU[j - 1]
    BY <1>1, <2>1
  <2> QED
    BY <2>4, <2>5, <2>6
<1>4. DOMAIN MapOfFirst(n) = KeysOf(mLRU, n)
  BY <1>2, KeptMap
<1>5. /\ DOMAIN mMap' = KeysOf(mLRU, n) \cup {k}
      /\ \A x \in DOMAIN mMap' : mMap'[x] = IF x = k THEN mLRU'[1] ELSE mMap[x]
  BY <1>2, <1>3, <1>4
<1> QED
  BY <1>2, <1>3, <1>5 DEF e

LEMMA InsertKeeps ==
  ASSUME LRUInv, NEW k \in Keys, NEW v \in Values, NEW w \in Weights,
         k \notin DOMAIN mMap, w <= mMaxWeight, Insert(k, v, w)
  PROVE  LRUInv'
<1>1. TypeOK /\ MapMatchesList /\ Matches(mLRU, mMap) /\ WeightBounded
  BY ListsMatch DEF LRUInv
<1> DEFINE L == Len(mLRU)
<1>2. L \in Nat /\ mLRU \in Seq(Entry) /\ mWeight \in Nat /\ mMaxWeight \in Nat /\ w \in Nat
  BY <1>1, ListFacts, LRUAssumption DEF TypeOK
<1>3. PICK n \in 0..L :
        /\ KeepsFirst(n, mMaxWeight - w)
        /\ mLRU' \in Seq(Entry) /\ Len(mLRU') = n + 1
        /\ mLRU'[1] = [key |-> k, value |-> v, weight |-> w]
        /\ \A j \in 2..n + 1 : mLRU'[j] = mLRU[j - 1]
        /\ DOMAIN mMap' = KeysOf(mLRU, n) \cup {k}
        /\ \A x \in DOMAIN mMap' : mMap'[x] = IF x = k THEN mLRU'[1] ELSE mMap[x]
        /\ mWeight' = mWeight - WeightOf(n + 1, L) + w
        /\ mMaxWeight' = mMaxWeight
  BY <1>1, InsertKeepsFirst
<1>4. /\ DOMAIN mMap = KeysOf(mLRU, L)
      /\ \A j \in 1..L : mMap[mLRU[j].key] = mLRU[j]
      /\ \A i, j \in 1..L : mLRU[i].key = mLRU[j].key => i = j
  BY <1>1 DEF Matches
<1>5. mLRU'[1].key = k /\ mLRU'[1].weight = w
  BY <1>3
<1>6. /\ WeightTo(mLRU, n) \in Nat
      /\ mWeight - WeightOf(n + 1, L) = WeightTo(mLRU, n)
  BY KeptWeight
<1> HIDE DEF L
<1>7. \A j \in 1..n : j \in 1..L /\ mLRU[j].key # k
  <2>1. \A j \in 1..n : j \in 1..L
    BY <1>2
  <2> QED
    BY <1>4, <2>1 DEF KeysOf
<1>8. \A j \in 2..n + 1 : j - 1 \in 1..n /\ mLRU'[j] = mLRU[j - 1]
  BY <1>3
<1>9. \A j \in 1..n + 1 : j = 1 \/ j \in 2..n + 1
  BY <1>2
<1>10. KeysOf(mLRU', n + 1) = KeysOf(mLRU, n) \cup {k}
  <2>1. ASSUME NEW j \in 1..n PROVE mLRU[j].key \in KeysOf(mLRU', n + 1)
    <3>1. j + 1 \in 2..n + 1 /\ j + 1 \in 1..n + 1 /\ j + 1 - 1 = j
      BY <1>2
    <3>2. mLRU'[j + 1] = mLRU[j]
      BY <1>8, <3>1
    <3> QED
      BY <3>1, <3>2 DEF KeysOf
  <2>2. k \in KeysOf(mLRU', n + 1)
    <3>1. 1 \in 1..n + 1
      BY <1>2
    <3> QED
      BY <1>5, <3>1 DEF KeysOf
  <2>3. ASSUME NEW j \in 1..n + 1 PROVE mLRU'[j].key \in KeysOf(mLRU, n) \cup {k}
    BY <1>5, <1>8, <1>9 DEF KeysOf
  <2>4. KeysOf(mLRU', n + 1) \subseteq KeysOf(mLRU, n) \cup {k}
    BY <2>3 DEF KeysOf
  <2>5. KeysOf(mLRU, n) \subseteq KeysOf(mLRU', n + 1)
    BY <2>1 DEF KeysOf
  <2> QED
    BY <2>2, <2>4, <2>5
<1>11. ASSUME NEW j \in 1..n + 1 PROVE mMap'[mLRU'[j].key] = mLRU'[j]
  <2>1. mLRU'[j].key \in DOMAIN mMap'
    BY <1>3, <1>10 DEF KeysOf
  <2>2. CASE j = 1
    BY <1>3, <1>5, <2>1, <2>2
  <2>3. CASE j \in 2..n + 1
    <3>1. j - 1 \in 1..L /\ mLRU'[j] = mLRU[j - 1] /\ mLRU'[j].key # k
      BY <1>7, <1>8, <2>3
    <3>2. mMap'[mLRU'[j].key] = mMap[mLRU'[j].key]
      BY <1>3, <2>1, <3>1
    <3>3. mMap[mLRU[j - 1].key] = mLRU[j - 1]
      BY <1>4, <3>1
    <3> QED
      BY <3>1, <3>2, <3>3
  <2> QED
    BY <1>9, <2>2, <2>3
<1>12. ASSUME NEW i \in 1..n + 1, NEW j \in 1..n + 1, mLRU'[i].key = mLRU'[j].key
       PROVE  i = j
  <2>1. CASE i \in 2..n + 1 /\ j \in 2..n + 1
    <3>1. i - 1 \in 1..L /\ j - 1 \in 1..L /\ mLRU[i - 1].key = mLRU[j - 1].key
      BY <1>7, <1>8, <1>12, <2>1
    <3>2. i - 1 = j - 1
      BY <1>4, <3>1
    <3> QED
      BY <3>2
  <2>2. \A m \in 2..n + 1 : mLRU'[m].key # k
    BY <1>7, <1>8
  <2> QED
    BY <1>5, <1>9, <1>12, <2>1, <2>2
<1>13. Matches(mLRU, mMap)'
  BY <1>3, <1>10, <1>11, <1>12 DEF Matches
<1>14. MapMatchesList'
  BY <1>13, ListsMatch, PTL
<1>15. WeightTo(mLRU', n + 1) = w + WeightTo(mLRU, n)
  BY <1>2, <1>3, <1>5, WeightWithFront DEF L
<1>16. mWeight' = WeightTo(mLRU', Len(mLRU')) /\ mWeight' \in Nat /\ mWeight' <= mMaxWeight'
  <2>1. mWeight' = WeightTo(mLRU, n) + w
    BY <1>3, <1>6
  <2>2. CASE n = 0
    <3>1. WeightTo(mLRU, n) = 0
      BY <2>2, NoWeight
    <3> QED
      BY <1>2, <1>3, <1>15, <2>1, <3>1
  <2>3. CASE n # 0
    <3>1. mWeight - WeightOf(n + 1, Len(mLRU)) <= mMaxWeight - w
      BY <1>3, <2>3 DEF KeepsFirst
    <3>2. WeightTo(mLRU, n) <= mMaxWeight - w
      BY <1>6, <3>1 DEF L
    <3> QED
      BY <1>2, <1>3, <1>6, <1>15, <2>1, <3>2
  <2> QED
    BY <2>2, <2>3
<1>17. WeightBounded'
  BY <1>16 DEF WeightBounded, WeightOf, WeightTo, Weighing
<1>18. TypeOK'
  <2>1. \A x \in DOMAIN mMap' : x \in Keys /\ mMap'[x] \in Entry
    <3>1. \A j \in 1..n + 1 : mLRU'[j] \in Entry
      BY <1>3, WeightsAreNat
    <3>2. \A x \in DOMAIN mMap' : \E j \in 1..n + 1 : x = mLRU'[j].key
      BY <1>3, <1>10 DEF KeysOf
    <3>3. \A y \in Entry : y.key \in Keys
      BY DEF Entry
    <3> QED
      BY <1>11, <3>1, <3>2, <3>3
  <2> QED
    BY <1>1, <1>3, <1>16, <2>1 DEF TypeOK
<1> QED
  BY <1>14, <1>17, <1>18 DEF LRUInv

LEMMA SetMaxWeightKeepsFirst ==
  ASSUME TypeOK, MapMatchesList, NEW w \in Weights, SetMaxWeight(w)
  PROVE  \E n \in 0..Len(mLRU) :
           /\ KeepsFirst(n, w)
           /\ mLRU' \in Seq(Entry) /\ Len(mLRU') = n
           /\ \A j \in 1..n : mLRU'[j] = mLRU[j]
           /\ DOMAIN mMap' = KeysOf(mLRU, n)
           /\ \A j \in 1..n : mMap'[mLRU[j].key] = mLRU[j]
           /\ mWeight' = mWeight - WeightOf(n + 1, Len(mLRU))
           /\ mMaxWeight' = w
<1> DEFINE L == Len(mLRU)
<1>1. L \in Nat /\ mLRU \in Seq(Entry)
  BY ListFacts DEF TypeOK
<1>2. PICK n \in 0..L :
        /\ KeepsFirst(n, w)
        /\ mLRU' = SubSeq(mLRU, 1, n)
        /\ mMap' = MapOfFirst(n)
        /\ mWeight' = mWeight - WeightOf(n + 1, L)
        /\ mMaxWeight' = w
  BY DEF SetMaxWeight
<1>3. mLRU' \in Seq(Entry) /\ Len(mLRU') = n /\ \A j \in 1..n : mLRU'[j] = mLRU[j]
  BY <1>1, <1>2
<1>4. /\ DOMAIN mMap' = KeysOf(mLRU, n)
      /\ \A j \in 1..n : mMap'[mLRU[j].key] = mLRU[j]
  BY <1>2, KeptMap
<1> QED
  BY <1>2, <1>3, <1>4

LEMMA SetMaxWeightKeeps ==
  ASSUME LRUInv, NEW w \in Weights, SetMaxWeight(w)
  PROVE  LRUInv'
<1>1. TypeOK /\ MapMatchesList /\ Matches(mLRU, mMap) /\ WeightBounded
  BY ListsMatch DEF LRUInv
<1> DEFINE L == Len(mLRU)
<1>2. L \in Nat /\ mLRU \in Seq(Entry) /\ w \in Nat
  BY <1>1, ListFacts, LRUAssumption DEF TypeOK
<1>3. PICK n \in 0..L :
        /\ KeepsFirst(n, w)
        /\ mLRU' \in Seq(Entry) /\ Len(mLRU') = n
        /\ \A j \in 1..n : mLRU'[j] = mLRU[j]
        /\ DOMAIN mMap' = KeysOf(mLRU, n)
        /\ \A j \in 1..n : mMap'[mLRU[j].key] = mLRU[j]
        /\ mWeight' = mWeight - WeightOf(n + 1, L)
        /\ mMaxWeight' = w
  BY <1>1, SetMaxWeightKeepsFirst
<1>4. \A i, j \in 1..L : mLRU[i].key = mLRU[j].key => i = j
  BY <1>1 DEF Matches
<1>5. /\ WeightTo(mLRU, n) \in Nat
      /\ mWeight - WeightOf(n + 1, L) = WeightTo(mLRU, n)
  BY KeptWeight
<1>6. \A j \in 1..n : j \in 1..L
  BY <1>2
<1>7. n <= Len(mLRU')
  BY <1>2, <1>3
<1> HIDE DEF L
<1>8. KeysOf(mLRU', n) = KeysOf(mLRU, n)
  BY <1>3 DEF KeysOf
<1>9. Matches(mLRU, mMap)'
  BY <1>3, <1>4, <1>6, <1>8 DEF Matches
<1>10. MapMatchesList'
  BY <1>9, ListsMatch, PTL
<1>11. WeightTo(mLRU', n) = WeightTo(mLRU, n)
  BY <1>2, <1>3, <1>7, WeightOfFirst DEF L
<1>12. mWeight' = WeightTo(mLRU', Len(mLRU')) /\ mWeight' \in Nat /\ mWeight' <= mMaxWeight'
  <2>1. mWeight' = WeightTo(mLRU, n)
    BY <1>3, <1>5
  <2>2. CASE n = 0
    <3>1. WeightTo(mLRU, n) = 0
      BY <2>2, NoWeight
    <3> QED
      BY <1>2, <1>3, <1>11, <2>1, <3>1
  <2>3. CASE n # 0
    <3>1. mWeight - WeightOf(n + 1, Len(mLRU)) <= w
      BY <1>3, <2>3 DEF KeepsFirst
    <3>2. WeightTo(mLRU, n) <= w
      BY <1>5, <3>1 DEF L
    <3> QED
      BY <1>2, <1>3, <1>5, <1>11, <2>1, <3>2
  <2> QED
    BY <2>2, <2>3
<1>13. WeightBounded'
  BY <1>12 DEF WeightBounded, WeightOf, WeightTo, Weighing
<1>14. TypeOK'
  <2>1. \A x \in DOMAIN mMap' : x \in Keys /\ mMap'[x] \in Entry
    <3>1. \A j \in 1..n : mLRU[j] \in Entry
      BY <1>3, WeightsAreNat
    <3>2. \A x \in DOMAIN mMap' : \E j \in 1..n : x = mLRU[j].key
      BY <1>3 DEF KeysOf
    <3>3. \A y \in Entry : y.key \in Keys
      BY DEF Entry
    <3> QED
      BY <1>3, <3>1, <3>2, <3>3
  <2> QED
    BY <1>2, <1>3, <1>12, <2>1 DEF TypeOK
<1> QED
  BY <1>10, <1>13, <1>14 DEF LRUInv

LEMMA FindKeeps ==
  ASSUME LRUInv, NEW k, Find(k)
  PROVE  LRUInv'
<1>1. CASE MarkNew(k)
  BY <1>1, MarkNewKeeps
<1>2. CASE UNCHANGED lruVars
  BY <1>2 DEF lruVars, LRUInv, TypeOK, MapMatchesList, WeightBounded, WeightOf
<1> QED
  BY <1>1, <1>2 DEF Find

LEMMA AddKeeps ==
  ASSUME LRUInv, NEW k \in Keys, NEW v \in Values, NEW w \in Weights, Add(k, v, w)
  PROVE  LRUInv'
<1>1. CASE k \in DOMAIN mMap
  BY <1>1, MarkNewKeeps DEF Add
<1>2. CASE k \notin DOMAIN mMap /\ w > mMaxWeight
  BY <1>2 DEF Add, lruVars, LRUInv, TypeOK, MapMatchesList, WeightBounded, WeightOf
<1>3. CASE k \notin DOMAIN mMap /\ ~ (w > mMaxWeight)
  <2>1. w <= mMaxWeight
    BY <1>3, LRUAssumption DEF LRUInv, TypeOK
  <2> QED
    BY <1>3, <2>1, InsertKeeps DEF Add
<1> QED
  BY <1>1, <1>2, <1>3

LEMMA EmptyMap ==
  ASSUME mLRU = <<>>, mMap = <<>>, mWeight = 0, mMaxWeight \in Nat
  PROVE  LRUInv
<1>1. mLRU \in Seq(Entry) /\ Len(mLRU) = 0 /\ DOMAIN mMap = {}
  OBVIOUS
<1>2. WeightOf(1, Len(mLRU)) = 0
  BY <1>1, NoWeight DEF WeightOf, WeightTo, Weighing
<1> QED
  BY <1>1, <1>2 DEF LRUInv, TypeOK, MapMatchesList, WeightBounded

-----------------------------------------------------------------------------
(* List, hash map and running total                                        *)

LEMMA LRUInvariant == Spec => []LRUInv
<1>1. Init => LRUInv
  BY EmptyMap, LRUAssumption DEF Init
<1>2. LRUInv /\ [Next]_lruVars => LRUInv'
  <2> SUFFICES ASSUME LRUInv, [Next]_lruVars PROVE LRUInv'
    OBVIOUS
  <2>1. ASSUME NEW k \in Keys, Find(k) PROVE LRUInv'
    BY <2>1, FindKeeps
  <2>2. ASSUME NEW k \in Keys, NEW v \in Values, NEW w \in Weights, Add(k, v, w) PROVE LRUInv'
    BY <2>2, AddKeeps
  <2>3. ASSUME NEW w \in Weights, SetMaxWeight(w) PROVE LRUInv'
    BY <2>3, SetMaxWeightKeeps
  <2>4. CASE UNCHANGED lruVars
    BY <2>4 DEF lruVars, LRUInv, TypeOK, MapMatchesList, WeightBounded, WeightOf
  <2> QED
    BY <2>1, <2>2, <2>3, <2>4 DEF Next
<1> QED
  BY <1>1, <1>2, PTL DEF Spec

(* No key of the hash map leads to a node that has been popped, and none   *)
(* that is listed is missing from it (src/LRUMap.h).                       *)
THEOREM MapAlwaysMatchesList == Spec => []MapMatchesList
<1>1. LRUInv => MapMatchesList
  BY DEF LRUInv
<1> QED
  BY <1>1, LRUInvariant, PTL

(* mWeight is the sum of what the list holds, and within the limit, however*)
(* often entries come and go and the limit moves.                          *)
THEOREM WeightAlwaysBounded == Spec => []WeightBounded
<1>1. LRUInv => WeightBounded
  BY DEF LRUInv
<1> QED
  BY <1>1, LRUInvariant, PTL

-----------------------------------------------------------------------------
(* What is held and what is evicted                                        *)

(* The history variable watches and never interferes.                      *)
LEMMA HistoryWatches == MCSpec => Spec
<1>1. MCInit => Init
  BY DEF MCInit
<1>2. [MCNext]_mcVars => [Next]_lruVars
  <2> SUFFICES ASSUME [MCNext]_mcVars PROVE [Next]_lruVars
    OBVIOUS
  <2>1. CASE \E k \in Keys : FindPresent(k) \/ FindAbsent(k)
    BY <2>1 DEF FindPresent, FindAbsent, Next
  <2>2. CASE \E k \in Keys, v \in Values, w \in Weights : AddFitting(k, v, w) \/ AddRefused(k, v, w)
    BY <2>2 DEF AddFitting, AddRefused, Next
  <2>3. CASE \E w \in Weights : SetMaxWeight(w) /\ UNCHANGED since
    BY <2>3 DEF Next
  <2>4. CASE UNCHANGED mcVars
    BY <2>4 DEF mcVars, lruVars
  <2> QED
    BY <2>1, <2>2, <2>3, <2>4 DEF MCNext
<1> QED
  BY <1>1, <1>2, PTL DEF MCSpec, Spec

HistoryInv == since \in [Keys -> SUBSET Keys] /\ HoldsMostRecentlyUsed

(* HoldsMostRecentlyUsed in terms of KeysOf.                               *)
LEMMA HistoryFacts ==
  ASSUME TypeOK, MapMatchesList
  PROVE  HoldsMostRecentlyUsed <=>
           /\ \A i \in 1..Len(mLRU) : since[mLRU[i].key] = KeysOf(mLRU, i - 1)
           /\ \A k \in Keys \ DOMAIN mMap : KeysOf(mLRU, Len(mLRU)) \subseteq since[k]
BY ListsMatch DEF HoldsMostRecentlyUsed, KeysOf, Matches

(* A key that is used goes to the front.                                   *)
LEMMA UseKeeps ==
  ASSUME LRUInv, LRUInv', HistoryInv, NEW k \in Keys, k \in DOMAIN mMap, MarkNew(k), Use(k)
  PROVE  HistoryInv'
<1> DEFINE L == Len(mLRU)
<1>1. /\ TypeOK /\ MapMatchesList /\ Matches(mLRU, mMap)
      /\ TypeOK' /\ MapMatchesList'
  BY ListsMatch DEF LRUInv
<1>2. L \in Nat /\ \A i \in 1..L : mLRU[i].key \in Keys
  BY <1>1, ListFacts
<1>3. PICK i \in 1..L : mLRU[i] = mMap[k] /\ \A j \in 1..L : mLRU'[j] = mLRU[From(i, j)]
  BY <1>1, MarkNewMoves
<1>4. Len(mLRU') = L /\ mMap' = mMap
  BY <1>1, MarkNewMoves
<1>5. /\ DOMAIN mMap = KeysOf(mLRU, L)
      /\ \A j \in 1..L : mMap[mLRU[j].key] = mLRU[j]
      /\ \A j, n \in 1..L : mLRU[j].key = mLRU[n].key => j = n
  BY <1>1 DEF Matches
<1>6. /\ since \in [Keys -> SUBSET Keys]
      /\ \A j \in 1..L : since[mLRU[j].key] = KeysOf(mLRU, j - 1)
      /\ \A x \in Keys \ DOMAIN mMap : KeysOf(mLRU, L) \subseteq since[x]
  BY <1>1, HistoryFacts DEF HistoryInv
<1>7. since' \in [Keys -> SUBSET Keys]
  BY <1>6 DEF Use
<1>8. \A x \in Keys : since'[x] = IF x = k THEN {} ELSE since[x] \cup {k}
  BY DEF Use
<1> HIDE DEF L
<1>9. mLRU[i].key = k
  <2>1. PICK n \in 1..L : k = mLRU[n].key
    BY <1>5 DEF KeysOf
  <2> QED
    BY <1>3, <1>5, <2>1
<1>10. ASSUME NEW j \in 1..L PROVE From(i, j) \in 1..L /\ mLRU'[j] = mLRU[From(i, j)]
  BY <1>2, <1>3, FromFacts
<1>11. ASSUME NEW j \in 1..L PROVE since'[mLRU'[j].key] = KeysOf(mLRU', j - 1)
  <2>1. CASE j = 1
    <3>1. mLRU'[j].key = k /\ since'[k] = {}
      BY <1>3, <1>8, <1>9, <2>1 DEF From
    <3>2. KeysOf(mLRU', j - 1) = {}
      BY <2>1 DEF KeysOf
    <3> QED
      BY <3>1, <3>2
  <2>2. CASE j # 1
    <3> DEFINE n == From(i, j)
    <3>1. n \in 1..L /\ mLRU'[j] = mLRU[n]
      BY <1>10
    <3>2. n # i
      BY <1>2, <2>2 DEF From
    <3>3. mLRU[n].key # k
      BY <1>5, <1>9, <3>1, <3>2
    <3>4. since'[mLRU'[j].key] = KeysOf(mLRU, n - 1) \cup {k}
      BY <1>2, <1>6, <1>8, <3>1, <3>3
    <3>5. \A m \in 1..j - 1 : m \in 1..L /\ (m = 1 \/ From(i, m) \in 1..n - 1 \/ From(i, m) = i)
      BY <1>2, <2>2 DEF From
    <3>6. ASSUME NEW m \in 1..n - 1
          PROVE  m \in 1..L /\ (m = i \/ \E q \in 1..j - 1 : From(i, q) = m)
      <4>1. m \in 1..L
        BY <1>2, <3>1
      <4>2. CASE m < i
        <5>1. m + 1 \in 1..j - 1 /\ From(i, m + 1) = m
          BY <1>2, <2>2, <4>2 DEF From
        <5> QED
          BY <4>1, <5>1
      <4>3. CASE m > i
        <5>1. m \in 1..j - 1 /\ From(i, m) = m
          BY <1>2, <2>2, <4>3 DEF From
        <5> QED
          BY <4>1, <5>1
      <4> QED
        BY <4>1, <4>2, <4>3
    <3>7. 1 \in 1..j - 1 /\ From(i, 1) = i
      BY <1>2, <2>2 DEF From
    <3> HIDE DEF n
    <3>8. ASSUME NEW m \in 1..j - 1 PROVE mLRU'[m].key \in KeysOf(mLRU, n - 1) \cup {k}
      <4>1. m \in 1..L /\ (From(i, m) = i \/ From(i, m) \in 1..n - 1)
        BY <3>5, <3>7
      <4>2. mLRU'[m] = mLRU[From(i, m)]
        BY <1>10, <4>1
      <4> QED
        BY <1>9, <4>1, <4>2 DEF KeysOf
    <3>9. k \in KeysOf(mLRU', j - 1)
      <4>1. 1 \in 1..L
        BY <3>5, <3>7
      <4>2. mLRU'[1] = mLRU[i]
        BY <1>10, <3>7, <4>1
      <4> QED
        BY <1>9, <3>7, <4>2 DEF KeysOf
    <3>10. ASSUME NEW m \in 1..n - 1 PROVE mLRU[m].key \in KeysOf(mLRU', j - 1)
      <4>1. CASE m = i
        BY <1>9, <3>9, <4>1
      <4>2. CASE \E q \in 1..j - 1 : From(i, q) = m
        <5>1. PICK q \in 1..j - 1 : From(i, q) = m
          BY <4>2
        <5>2. mLRU'[q] = mLRU[m]
          BY <1>10, <3>5, <5>1
        <5> QED
          BY <5>2 DEF KeysOf
      <4> QED
        BY <3>6, <4>1, <4>2
    <3>11. KeysOf(mLRU', j - 1) \subseteq KeysOf(mLRU, n - 1) \cup {k}
      BY <3>8 DEF KeysOf
    <3>12. KeysOf(mLRU, n - 1) \subseteq KeysOf(mLRU', j - 1)
      BY <3>10 DEF KeysOf
    <3> QED
      BY <3>4, <3>9, <3>11, <3>12
  <2> QED
    BY <2>1, <2>2
<1>12. ASSUME NEW x \in Keys \ DOMAIN mMap' PROVE DOMAIN mMap' \subseteq since'[x]
  BY <1>4, <1>5, <1>6, <1>8, <1>12
<1>13. HoldsMostRecentlyUsed'
  BY <1>4, <1>11, <1>12 DEF HoldsMostRecentlyUsed, KeysOf
<1> QED
  BY <1>7, <1>13 DEF HistoryInv

(* A popped key was used before every key that is left.                    *)
LEMMA PoppedIsOlder ==
  ASSUME LRUInv, HistoryInv, NEW n \in 0..Len(mLRU), NEW x \in Keys, x \notin KeysOf(mLRU, n)
  PROVE  KeysOf(mLRU, n) \subseteq since[x]
<1> DEFINE L == Len(mLRU)
<1>1. L \in Nat
  BY ListFacts DEF LRUInv
<1>2. /\ DOMAIN mMap = KeysOf(mLRU, L)
      /\ \A i \in 1..L : since[mLRU[i].key] = KeysOf(mLRU, i - 1)
      /\ \A k \in Keys \ DOMAIN mMap : KeysOf(mLRU, L) \subseteq since[k]
  BY HistoryFacts, ListsMatch DEF LRUInv, HistoryInv, Matches
<1>3. KeysOf(mLRU, n) \subseteq KeysOf(mLRU, L)
  BY <1>1 DEF KeysOf
<1>4. CASE x \notin DOMAIN mMap
  BY <1>2, <1>3, <1>4
<1>5. CASE x \in DOMAIN mMap
  <2>1. PICK i \in 1..L : x = mLRU[i].key
    BY <1>2, <1>5 DEF KeysOf
  <2>2. i \notin 1..n
    BY <2>1 DEF KeysOf
  <2>3. 1..n \subseteq 1..i - 1
    BY <1>1, <2>2
  <2>4. KeysOf(mLRU, n) \subseteq KeysOf(mLRU, i - 1)
    BY <2>3 DEF KeysOf
  <2> QED
    BY <1>2, <2>1, <2>4
<1> QED
  BY <1>4, <1>5

LEMMA InsertKeepsHistory ==
  ASSUME LRUInv, HistoryInv, NEW k \in Keys, NEW v \in Values, NEW w \in Weights,
         k \notin DOMAIN mMap, Insert(k, v, w), Use(k)
  PROVE  HistoryInv'
<1> DEFINE L == Len(mLRU)
<1>1. TypeOK /\ MapMatchesList /\ Matches(mLRU, mMap)
  BY ListsMatch DEF LRUInv
<1>2. L \in Nat /\ \A i \in 1..L : mLRU[i].key \in Keys
  BY <1>1, ListFacts
<1>3. PICK n \in 0..L :
        /\ Len(mLRU') = n + 1 /\ mLRU'[1] = [key |-> k, value |-> v, weight |-> w]
        /\ \A j \in 2..n + 1 : mLRU'[j] = mLRU[j - 1]
        /\ DOMAIN mMap' = KeysOf(mLRU, n) \cup {k}
  BY <1>1, InsertKeepsFirst
<1>4. /\ DOMAIN mMap = KeysOf(mLRU, L)
      /\ since \in [Keys -> SUBSET Keys]
      /\ \A j \in 1..L : since[mLRU[j].key] = KeysOf(mLRU, j - 1)
  BY <1>1, HistoryFacts DEF HistoryInv, Matches
<1>5. ASSUME NEW x \in Keys, x \notin KeysOf(mLRU, n) PROVE KeysOf(mLRU, n) \subseteq since[x]
  BY <1>5, PoppedIsOlder
<1>6. since' \in [Keys -> SUBSET Keys]
  BY <1>4 DEF Use
<1>7. \A x \in Keys : since'[x] = IF x = k THEN {} ELSE since[x] \cup {k}
  BY DEF Use
<1> HIDE DEF L
<1>8. mLRU'[1].key = k /\ \A j \in 1..L : mLRU[j].key # k
  BY <1>3, <1>4 DEF KeysOf
<1>9. ASSUME NEW j \in 1..n + 1 PROVE since'[mLRU'[j].key] = KeysOf(mLRU', j - 1)
  <2>1. CASE j = 1
    <3>1. KeysOf(mLRU', j - 1) = {}
      BY <2>1 DEF KeysOf
    <3> QED
      BY <1>7, <1>8, <2>1, <3>1
  <2>2. CASE j # 1
    <3>1. j - 1 \in 1..L /\ mLRU'[j] = mLRU[j - 1]
      BY <1>2, <1>3, <2>2
    <3>2. since'[mLRU'[j].key] = KeysOf(mLRU, j - 1 - 1) \cup {k}
      <4> DEFINE x == mLRU[j - 1].key
      <4>1. x \in Keys /\ x # k /\ since[x] = KeysOf(mLRU, j - 1 - 1)
        BY <1>2, <1>4, <1>8, <3>1 DEF L
      <4>2. mLRU'[j].key = x
        BY <3>1
      <4> HIDE DEF x
      <4> QED
        BY <1>7, <4>1, <4>2
    <3>3. ASSUME NEW m \in 1..j - 1 PROVE mLRU'[m].key \in KeysOf(mLRU, j - 1 - 1) \cup {k}
      <4>1. CASE m = 1
        BY <1>8, <4>1
      <4>2. CASE m # 1
        <5>1. m \in 2..n + 1 /\ m - 1 \in 1..j - 1 - 1
          BY <1>2, <4>2
        <5>2. mLRU'[m] = mLRU[m - 1]
          BY <1>3, <5>1
        <5> QED
          BY <5>1, <5>2 DEF KeysOf
      <4> QED
        BY <4>1, <4>2
    <3>4. ASSUME NEW m \in 1..j - 1 - 1 PROVE mLRU[m].key \in KeysOf(mLRU', j - 1)
      <4>1. m + 1 \in 2..n + 1 /\ m + 1 \in 1..j - 1 /\ m + 1 - 1 = m
        BY <1>2
      <4>2. mLRU'[m + 1] = mLRU[m]
        BY <1>3, <4>1
      <4> QED
        BY <4>1, <4>2 DEF KeysOf
    <3>5. k \in KeysOf(mLRU', j - 1)
      <4>1. 1 \in 1..j - 1
        BY <2>2
      <4> QED
        BY <1>8, <4>1 DEF KeysOf
    <3>6. KeysOf(mLRU', j - 1) \subseteq KeysOf(mLRU, j - 1 - 1) \cup {k}
      BY <3>3 DEF KeysOf
    <3>7. KeysOf(mLRU, j - 1 - 1) \subseteq KeysOf(mLRU', j - 1)
      BY <3>4 DEF KeysOf
    <3> QED
      BY <3>2, <3>5, <3>6, <3>7
  <2> QED
    BY <2>1, <2>2
<1>10. ASSUME NEW x \in Keys \ DOMAIN mMap' PROVE DOMAIN mMap' \subseteq since'[x]
  <2>1. x # k /\ x \notin KeysOf(mLRU, n)
    BY <1>3
  <2>2. KeysOf(mLRU, n) \subseteq since[x]
    BY <1>5, <2>1
  <2> QED
    BY <1>3, <1>7, <2>1, <2>2
<1>11. HoldsMostRecentlyUsed'
  BY <1>3, <1>9, <1>10 DEF HoldsMostRecentlyUsed, KeysOf
<1> QED
  BY <1>6, <1>11 DEF HistoryInv

LEMMA SetMaxWeightKeepsHistory ==
  ASSUME LRUInv, HistoryInv, NEW w \in Weights, SetMaxWeight(w), UNCHANGED since
  PROVE  HistoryInv'
<1> DEFINE L == Len(mLRU)
<1>1. TypeOK /\ MapMatchesList
  BY DEF LRUInv
<1>2. L \in Nat
  BY <1>1, ListFacts
<1>3. PICK n \in 0..L :
        /\ Len(mLRU') = n /\ \A j \in 1..n : mLRU'[j] = mLRU[j]
        /\ DOMAIN mMap' = KeysOf(mLRU, n)
  BY <1>1, SetMaxWeightKeepsFirst
<1>4. since \in [Keys -> SUBSET Keys] /\ \A j \in 1..L : since[mLRU[j].key] = KeysOf(mLRU, j - 1)
  BY <1>1, HistoryFacts DEF HistoryInv
<1>5. ASSUME NEW x \in Keys, x \notin KeysOf(mLRU, n) PROVE KeysOf(mLRU, n) \subseteq since[x]
  BY <1>5, PoppedIsOlder
<1> HIDE DEF L
<1>6. ASSUME NEW j \in 1..n PROVE since[mLRU'[j].key] = KeysOf(mLRU', j - 1)
  <2>1. j \in 1..L /\ \A m \in 1..j - 1 : mLRU'[m] = mLRU[m]
    BY <1>2, <1>3
  <2>2. KeysOf(mLRU', j - 1) = KeysOf(mLRU, j - 1)
    BY <2>1 DEF KeysOf
  <2> QED
    BY <1>3, <1>4, <2>1, <2>2
<1>7. HoldsMostRecentlyUsed'
  BY <1>3, <1>5, <1>6 DEF HoldsMostRecentlyUsed, KeysOf
<1> QED
  BY <1>4, <1>7 DEF HistoryInv

(* The map is an LRU map: through any sequence of lookups, additions and   *)
(* changes of the limit it holds the keys used most recently, in order.    *)
THEOREM AlwaysHoldsMostRecentlyUsed == MCSpec => []HoldsMostRecentlyUsed
<1>1. LRUInv /\ MCInit => HistoryInv
  <2> SUFFICES ASSUME LRUInv, MCInit PROVE HistoryInv
    OBVIOUS
  <2>1. Len(mLRU) = 0 /\ DOMAIN mMap = {} /\ since = [k \in Keys |-> Keys]
    BY DEF MCInit, Init
  <2> QED
    BY <2>1 DEF HistoryInv, HoldsMostRecentlyUsed
<1>2. LRUInv /\ LRUInv' /\ HistoryInv /\ [MCNext]_mcVars => HistoryInv'
  <2> SUFFICES ASSUME LRUInv, LRUInv', HistoryInv, [MCNext]_mcVars PROVE HistoryInv'
    OBVIOUS
  <2>1. CASE UNCHANGED <<mLRU, mMap, since>>
    BY <2>1 DEF HistoryInv, HoldsMostRecentlyUsed
  <2>2. ASSUME NEW k \in Keys, FindPresent(k) PROVE HistoryInv'
    BY <2>2, UseKeeps DEF FindPresent, Find
  <2>3. ASSUME NEW k \in Keys, FindAbsent(k) PROVE HistoryInv'
    BY <2>1, <2>3 DEF FindAbsent, Find, lruVars
  <2>4. ASSUME NEW k \in Keys, NEW v \in Values, NEW w \in Weights, AddFitting(k, v, w)
        PROVE  HistoryInv'
    <3>1. CASE k \in DOMAIN mMap
      BY <2>4, <3>1, UseKeeps DEF AddFitting, Add
    <3>2. CASE k \notin DOMAIN mMap
      <4>1. w <= mMaxWeight /\ w \in Nat /\ mMaxWeight \in Nat
        BY <2>4, <3>2, LRUAssumption DEF AddFitting, LRUInv, TypeOK
      <4>2. ~ (w > mMaxWeight)
        BY <4>1
      <4>3. Insert(k, v, w) /\ Use(k)
        BY <2>4, <3>2, <4>2 DEF AddFitting, Add
      <4> QED
        BY <3>2, <4>3, InsertKeepsHistory
    <3> QED
      BY <3>1, <3>2
  <2>5. ASSUME NEW k \in Keys, NEW v \in Values, NEW w \in Weights, AddRefused(k, v, w)
        PROVE  HistoryInv'
    BY <2>1, <2>5 DEF AddRefused, Add, lruVars
  <2>6. ASSUME NEW w \in Weights, SetMaxWeight(w), UNCHANGED since PROVE HistoryInv'
    BY <2>6, SetMaxWeightKeepsHistory
  <2> QED
    BY <2>1, <2>2, <2>3, <2>4, <2>5, <2>6 DEF MCNext, mcVars
<1>3. HistoryInv => HoldsMostRecentlyUsed
  BY DEF HistoryInv
<1> QED
  BY <1>1, <1>2, <1>3, LRUInvariant, HistoryWatches, PTL DEF MCSpec

(* Every eviction makes room: with what is evicted, and all that was used  *)
(* more recently, the limit would be exceeded.                             *)
THEOREM AlwaysEvictsOnlyForRoom == MCSpec => EvictsOnlyForRoom
<1> DEFINE Evicts == \A i \in 1..Len(mLRU) :
             mLRU[i].key \notin DOMAIN mMap' =>
               WeightOf(1, i)
                   + (IF mMaxWeight' = mMaxWeight THEN mLRU'[1].weight ELSE 0)
                 > mMaxWeight'
<1>1. LRUInv /\ LRUInv' /\ [MCNext]_mcVars => Evicts \/ UNCHANGED mcVars
  <2> SUFFICES ASSUME LRUInv, LRUInv', MCNext PROVE Evicts
    OBVIOUS
  <2> DEFINE L == Len(mLRU)
  <2>1. /\ TypeOK /\ MapMatchesList /\ Matches(mLRU, mMap)
        /\ L \in Nat /\ mWeight \in Nat /\ mMaxWeight \in Nat /\ mWeight <= mMaxWeight
    BY ListsMatch, ListFacts DEF LRUInv, TypeOK, WeightBounded
  <2>2. CASE DOMAIN mMap \subseteq DOMAIN mMap'
    BY <2>1, <2>2 DEF Matches, KeysOf
  <2>3. ASSUME NEW i \in 1..L
        PROVE  /\ WeightOf(1, i) \in Nat /\ WeightOf(1, i) <= mWeight
               /\ mWeight - WeightOf(i + 1, L) = WeightOf(1, i)
    <3>1. i \in 0..L
      BY <2>1
    <3> QED
      BY <3>1, KeptWeight DEF WeightTo, WeightOf, Weighing
  <2>4. ASSUME NEW k, MarkNew(k) PROVE Evicts
    <3>1. mMap' = mMap
      BY <2>1, <2>4, MarkNewMoves
    <3> QED
      BY <2>2, <3>1
  <2>5. ASSUME NEW k, Find(k) PROVE Evicts
    <3>1. CASE MarkNew(k)
      BY <2>4, <3>1
    <3>2. CASE UNCHANGED lruVars
      BY <2>2, <3>2 DEF lruVars
    <3> QED
      BY <2>5, <3>1, <3>2 DEF Find
  <2>6. ASSUME NEW k \in Keys, NEW v \in Values, NEW w \in Weights, Insert(k, v, w)
        PROVE  Evicts
    <3>1. PICK n \in 0..L :
            /\ KeepsFirst(n, mMaxWeight - w)
            /\ mLRU'[1] = [key |-> k, value |-> v, weight |-> w]
            /\ DOMAIN mMap' = KeysOf(mLRU, n) \cup {k}
            /\ mMaxWeight' = mMaxWeight
      BY <2>1, <2>6, InsertKeepsFirst
    <3>2. w \in Nat /\ mLRU'[1].weight = w
      BY <3>1, LRUAssumption
    <3>3. ASSUME NEW i \in 1..L, mLRU[i].key \notin DOMAIN mMap'
          PROVE  WeightOf(1, i) + w > mMaxWeight
      <4>1. i \notin 1..n
        BY <3>1, <3>3 DEF KeysOf
      <4>2. i \in n + 1..L
        BY <2>1, <4>1
      <4>3. mWeight - WeightOf(i + 1, L) > mMaxWeight - w
        BY <3>1, <4>2 DEF KeepsFirst
      <4>4. WeightOf(1, i) > mMaxWeight - w
        BY <2>3, <4>3
      <4> QED
        BY <2>1, <2>3, <3>2, <4>4
    <3> QED
      BY <3>1, <3>2, <3>3
  <2>7. ASSUME NEW w \in Weights, SetMaxWeight(w) PROVE Evicts
    <3>1. PICK n \in 0..L :
            KeepsFirst(n, w) /\ DOMAIN mMap' = KeysOf(mLRU, n) /\ mMaxWeight' = w
      BY <2>1, <2>7, SetMaxWeightKeepsFirst
    <3>2. w \in Nat
      BY LRUAssumption
    <3>3. ASSUME NEW i \in 1..L, mLRU[i].key \notin DOMAIN mMap'
          PROVE  WeightOf(1, i) > w
      <4>1. i \notin 1..n
        BY <3>1, <3>3 DEF KeysOf
      <4>2. i \in n + 1..L
        BY <2>1, <4>1
      <4>3. mWeight - WeightOf(i + 1, L) > w
        BY <3>1, <4>2 DEF KeepsFirst
      <4> QED
        BY <2>3, <4>3
    <3>4. CASE mMaxWeight' = mMaxWeight
      <4>1. ASSUME NEW i \in 1..L PROVE mLRU[i].key \in DOMAIN mMap'
        BY <2>1, <2>3, <3>1, <3>2, <3>3, <3>4
      <4> QED
        BY <4>1
    <3>5. CASE mMaxWeight' # mMaxWeight
      <4>1. ASSUME NEW i \in 1..L, mLRU[i].key \notin DOMAIN mMap'
            PROVE  WeightOf(1, i) + 0 > mMaxWeight'
        BY <2>3, <3>1, <3>2, <3>3, <4>1
      <4> QED
        BY <3>5, <4>1
    <3> QED
      BY <3>4, <3>5
  <2>8. ASSUME NEW k \in Keys, NEW v \in Values, NEW w \in Weights, Add(k, v, w) PROVE Evicts
    <3>1. CASE MarkNew(k)
      BY <2>4, <3>1
    <3>2. CASE UNCHANGED lruVars
      BY <2>2, <3>2 DEF lruVars
    <3>3. CASE Insert(k, v, w)
      BY <2>6, <3>3
    <3> QED
      BY <2>8, <3>1, <3>2, <3>3 DEF Add
  <2> HIDE DEF Evicts
  <2> QED
    BY <2>5, <2>7, <2>8 DEF MCNext, FindPresent, FindAbsent, AddFitting, AddRefused
<1>2. LRUInv /\ LRUInv' /\ [MCNext]_mcVars => [Evicts]_mcVars
  BY <1>1
<1> HIDE DEF Evicts
<1>3. MCSpec => [][Evicts]_mcVars
  BY <1>2, LRUInvariant, HistoryWatches, PTL DEF MCSpec
<1> QED
  BY <1>3 DEF Evicts, EvictsOnlyForRoom
=============================================================================

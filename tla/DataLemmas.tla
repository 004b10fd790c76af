------------------------------ MODULE DataLemmas ------------------------------
(***************************************************************************)
(* What the proofs need to know about data.  An induction theorem whose    *)
(* parameter is an operator cannot be instantiated by the provers in use,  *)
(* but one about a set can: what fails for some number fails for a least.  *)
(* The second part is about sorting and filtering: a finite set with a     *)
(* strict total order has its items in that order, none of them twice.     *)
(***************************************************************************)
EXTENDS Selection, SequencesExt, FiniteSetTheorems, WellFoundedInduction, TLAPS

----------------------------------------------------------------------------
(* Induction *)

Below == {ss \in Nat \X Nat : ss[1] < ss[2]}

(* A set of natural numbers has a least member. *)
LEMMA LeastMember ==
  ASSUME NEW T \in SUBSET Nat, T # {}
  PROVE  \E x \in T : \A y \in T : x <= y
<1>1. Below = OpToRel(<, Nat)
  BY Zenon DEF Below, OpToRel
<1>2. IsWellFoundedOn(Below, Nat)
  BY <1>1, NatLessThanWellFounded, Zenon
<1>3. \E x \in T : \A y \in T : ~ (<<y, x>> \in Below)
  BY <1>2, WFMin, Zenon
<1>4. ASSUME NEW x \in T, NEW y \in T, ~ (<<y, x>> \in Below)
      PROVE  x <= y
  <2>1. x \in Nat /\ y \in Nat
    OBVIOUS
  <2>2. ~ (y < x)
    BY <1>4, <2>1 DEF Below
  <2> QED BY <2>1, <2>2
<1> QED BY <1>3, <1>4

(* A finite set of natural numbers has a bound. *)
LEMMA FiniteSetIsBounded ==
  ASSUME NEW S \in SUBSET Nat, IsFiniteSet(S)
  PROVE  \E b \in Nat : \A v \in S : v <= b
<1> DEFINE Bounded(T) == \E b \in Nat : \A v \in T : v <= b
           Bad == {Cardinality(T) : T \in {T \in SUBSET S : ~Bounded(T)}}
<1>1. \A T \in SUBSET S : IsFiniteSet(T) /\ Cardinality(T) \in Nat
  BY FS_Subset, FS_CardinalityType
<1>2. SUFFICES ASSUME Bad # {}
               PROVE  FALSE
  <2>1. S \in SUBSET S
    OBVIOUS
  <2>2. Bad = {} => Bounded(S)
    BY <2>1
  <2> QED BY <2>2
<1>3. Bad \in SUBSET Nat
  BY <1>1
<1>4. PICK n \in Bad : \A m \in Bad : n <= m
  BY <1>2, <1>3, LeastMember
<1>5. PICK T \in SUBSET S : ~Bounded(T) /\ n = Cardinality(T)
  BY <1>4
<1>6. PICK x \in T : TRUE
  <2>1. 0 \in Nat /\ \A v \in {} : v <= 0
    OBVIOUS
  <2> QED BY <1>5, <2>1
<1>7. /\ T \ {x} \in SUBSET S
      /\ Cardinality(T \ {x}) = n - 1
      /\ n \in Nat
  BY <1>1, <1>5, <1>6, FS_RemoveElement
<1>8. Bounded(T \ {x})
  <2>1. n - 1 \notin Bad
    BY <1>3, <1>4, <1>7
  <2> QED BY <1>7, <2>1
<1>9. PICK b \in Nat : \A v \in T \ {x} : v <= b
  BY <1>8
<1>10. x \in Nat
  BY <1>6
<1>11. \A v \in T : v \in Nat /\ v <= b + x
  BY <1>9, <1>10
<1>12. b + x \in Nat
  BY <1>9, <1>10
<1> QED BY <1>5, <1>11, <1>12

(* A finite set of natural numbers that is not empty has a largest member. *)
LEMMA LargestMember ==
  ASSUME NEW S \in SUBSET Nat, IsFiniteSet(S), S # {}
  PROVE  \E v \in S : \A w \in S : w <= v
<1> DEFINE T == {n \in Nat : \A v \in S : v <= n}
<1>1. PICK n \in T : \A m \in T : n <= m
  <2>1. T # {}
    BY FiniteSetIsBounded
  <2> QED BY <2>1, LeastMember
<1>2. n \in Nat /\ \A v \in S : v <= n
  BY <1>1
<1>3. CASE n \in S
  BY <1>2, <1>3
<1>4. CASE n \notin S
  <2>1. \A v \in S : v \in Nat /\ v < n
    BY <1>2, <1>4
  <2>2. PICK v \in S : v \in Nat
    OBVIOUS
  <2>3. n - 1 \in T
    <3>1. n - 1 \in Nat
      BY <2>1, <2>2, <1>2
    <3> QED BY <3>1, <2>1, <1>2
  <2> QED BY <2>3, <1>1, <1>2
<1> QED BY <1>3, <1>4

----------------------------------------------------------------------------
(* Sorting and filtering *)

(* ahead[i] is what comes before i in a strict total order of D. *)
Orders(ahead, D) ==
  /\ IsFiniteSet(D)
  /\ ahead \in [D -> SUBSET D]
  /\ \A i \in D : i \notin ahead[i]
  /\ \A i, j \in D : i \in ahead[j] => ahead[i] \subseteq ahead[j]
  /\ \A i, j \in D : i # j => i \in ahead[j] \/ j \in ahead[i]

(* Its place in the order tells an item from every other, and some item is *)
(* at every place.                                                         *)
LEMMA PlacesAreTaken ==
  ASSUME NEW D, NEW ahead, Orders(ahead, D)
  PROVE  /\ Cardinality(D) \in Nat
         /\ \A i \in D : Cardinality(ahead[i]) \in 0..(Cardinality(D) - 1)
         /\ \A i, j \in D : i \in ahead[j] => Cardinality(ahead[i]) < Cardinality(ahead[j])
         /\ \A k \in 1..Cardinality(D) : \E i \in D : Cardinality(ahead[i]) = k - 1
<1> DEFINE n == Cardinality(D)
           place == [i \in D |-> Cardinality(ahead[i])]
<1>1. n \in Nat
  BY FS_CardinalityType DEF Orders
<1>2. \A T \in SUBSET D : IsFiniteSet(T) /\ Cardinality(T) \in Nat
  BY FS_Subset, FS_CardinalityType DEF Orders
<1>3. ASSUME NEW T \in SUBSET D, NEW U \in SUBSET T, NEW x \in T, x \notin U
      PROVE  Cardinality(U) < Cardinality(T)
  <2>1. IsFiniteSet(T) /\ Cardinality(T) \in Nat /\ Cardinality(U) \in Nat
    BY <1>2
  <2>2. Cardinality(U) <= Cardinality(T) /\ (Cardinality(T) = Cardinality(U) => T = U)
    BY <2>1, FS_Subset
  <2>3. T # U
    BY <1>3
  <2> QED BY <2>1, <2>2, <2>3
<1>4. \A i \in D : Cardinality(ahead[i]) \in 0..(n - 1)
  <2> TAKE i \in D
  <2>1. ahead[i] \in SUBSET D /\ i \notin ahead[i] /\ D \in SUBSET D
    BY DEF Orders
  <2>2. Cardinality(ahead[i]) < n /\ Cardinality(ahead[i]) \in Nat
    BY <2>1, <1>2, <1>3
  <2> QED BY <1>1, <2>2
<1>5. \A i, j \in D : i \in ahead[j] => Cardinality(ahead[i]) < Cardinality(ahead[j])
  <2> SUFFICES ASSUME NEW i \in D, NEW j \in D, i \in ahead[j]
               PROVE  Cardinality(ahead[i]) < Cardinality(ahead[j])
    OBVIOUS
  <2>1. ahead[j] \in SUBSET D /\ ahead[i] \in SUBSET ahead[j] /\ i \notin ahead[i]
    BY DEF Orders
  <2> QED BY <2>1, <1>3
<1>6. place \in Injection(D, 0..(n - 1))
  <2>1. place \in [D -> 0..(n - 1)]
    BY <1>4
  <2>2. \A i, j \in D : place[i] = place[j] => i = j
    <3> SUFFICES ASSUME NEW i \in D, NEW j \in D, place[i] = place[j], i # j PROVE FALSE
      OBVIOUS
    <3>1. place[i] \in Nat /\ place[j] \in Nat
      BY <1>4, <1>1
    <3>2. place[i] < place[j] \/ place[j] < place[i]
      BY <1>5 DEF Orders
    <3> QED BY <3>1, <3>2
  <2> QED BY <2>1, <2>2 DEF Injection, IsInjective
<1>7. place \in Surjection(D, 0..(n - 1))
  <2>1. IsFiniteSet(0..(n - 1)) /\ Cardinality(0..(n - 1)) = n
    BY <1>1, FS_Interval
  <2> QED BY <1>6, <2>1, FS_Injection
<1>8. \A k \in 1..n : \E i \in D : Cardinality(ahead[i]) = k - 1
  <2> TAKE k \in 1..n
  <2>1. k - 1 \in 0..(n - 1)
    BY <1>1
  <2>2. PICK i \in D : place[i] = k - 1
    BY <1>7, <2>1 DEF Surjection
  <2> QED BY <2>2
<1> QED BY <1>1, <1>4, <1>5, <1>8

(* InOrder lists the items of D in their order. *)
LEMMA InOrderFacts ==
  ASSUME NEW D, NEW ahead, Orders(ahead, D)
  PROVE  /\ InOrder(ahead) \in [1..Cardinality(D) -> D]
         /\ InOrder(ahead) \in Seq(D)
         /\ DOMAIN InOrder(ahead) = 1..Cardinality(D)
         /\ Len(InOrder(ahead)) = Cardinality(D)
         /\ Cardinality(D) \in Nat
         /\ \A k \in 1..Cardinality(D) : Cardinality(ahead[InOrder(ahead)[k]]) = k - 1
<1> DEFINE n == Cardinality(D)
           at(k) == CHOOSE i \in D : Cardinality(ahead[i]) = k - 1
<1>1. n \in Nat /\ \A k \in 1..n : \E i \in D : Cardinality(ahead[i]) = k - 1
  BY PlacesAreTaken
<1>2. \A k \in 1..n : at(k) \in D /\ Cardinality(ahead[at(k)]) = k - 1
  <2> TAKE k \in 1..n
  <2>1. \E i \in D : Cardinality(ahead[i]) = k - 1
    BY <1>1
  <2> QED BY <2>1
<1>3. DOMAIN ahead = D
  BY DEF Orders
<1>4. InOrder(ahead) = [k \in 1..n |-> at(k)]
  BY <1>3 DEF InOrder
<1> HIDE DEF at
<1>5. InOrder(ahead) \in [1..n -> D]
  BY <1>2, <1>4
<1>6. InOrder(ahead) \in Seq(D) /\ Len(InOrder(ahead)) = n
  BY <1>1, <1>5
<1> QED BY <1>1, <1>2, <1>4, <1>5, <1>6

(* The members of a finite set of integers, in ascending order. *)
LEMMA Ascending ==
  ASSUME NEW S \in SUBSET Int, IsFiniteSet(S)
  PROVE  Orders([i \in S |-> {j \in S : j < i}], S)
<1> DEFINE ahead == [i \in S |-> {j \in S : j < i}]
<1>1. ahead \in [S -> SUBSET S]
  OBVIOUS
<1>2. \A i, j \in S : i \in Int /\ j \in Int /\ (i \in ahead[j] <=> i < j)
  OBVIOUS
<1> HIDE DEF ahead
<1>3. \A i \in S : i \notin ahead[i]
  BY <1>2
<1>4. \A i, j \in S : i # j => i \in ahead[j] \/ j \in ahead[i]
  BY <1>2
<1>5. ASSUME NEW i \in S, NEW j \in S, i \in ahead[j], NEW k \in ahead[i] PROVE k \in ahead[j]
  <2>1. k \in S
    BY <1>1
  <2> QED BY <1>2, <1>5, <2>1
<1>6. Orders(ahead, S)
  BY <1>1, <1>3, <1>4, <1>5 DEF Orders
<1> QED BY <1>6 DEF ahead

(* What is picked of a list are the items at the positions named: no more  *)
(* of them than positions, every one of them an item of the list, and each *)
(* position's item among them.                                             *)
LEMMA PickedFacts ==
  ASSUME NEW T, NEW s \in Seq(T), NEW at \in SUBSET DOMAIN s
  PROVE  /\ Picked(s, at) \in Seq({s[i] : i \in at})
         /\ Picked(s, at) \in Seq(T)
         /\ Len(Picked(s, at)) = Cardinality(at)
         /\ Cardinality(at) \in 0..Len(s)
         /\ \A k \in DOMAIN Picked(s, at) : \E i \in at : Picked(s, at)[k] = s[i]
<1> DEFINE ahead == [i \in at |-> {j \in at : j < i}]
           order == InOrder(ahead)
<1>1. /\ DOMAIN s = 1..Len(s) /\ Len(s) \in Nat /\ at \in SUBSET Int
      /\ \A i \in DOMAIN s : s[i] \in T
  OBVIOUS
<1>2. IsFiniteSet(at) /\ Cardinality(at) \in 0..Len(s)
  <2>1. IsFiniteSet(1..Len(s)) /\ Cardinality(1..Len(s)) = Len(s)
    <3>1. \A n \in Nat : IsFiniteSet(1..n) /\ Cardinality(1..n) = n
      <4> TAKE n \in Nat
      <4>1. IsFiniteSet(1..n) /\ Cardinality(1..n) = IF 1 > n THEN 0 ELSE n - 1 + 1
        BY FS_Interval
      <4> QED BY <4>1
    <3> QED BY <1>1, <3>1
  <2>2. IsFiniteSet(at) /\ Cardinality(at) <= Len(s)
    <3>1. at \in SUBSET (1..Len(s))
      BY <1>1
    <3>2. IsFiniteSet(at) /\ Cardinality(at) <= Cardinality(1..Len(s))
      BY <2>1, <3>1, FS_Subset
    <3> QED BY <2>1, <3>2
  <2>3. Cardinality(at) \in Nat
    BY <2>2, FS_CardinalityType
  <2> QED BY <1>1, <2>2, <2>3
<1>3. Orders(ahead, at)
  BY <1>1, <1>2, Ascending
<1>4. /\ order \in [1..Cardinality(at) -> at]
      /\ DOMAIN order = 1..Cardinality(at)
  BY <1>3, InOrderFacts
<1>5. Picked(s, at) = [k \in DOMAIN order |-> s[order[k]]]
  BY DEF Picked
<1> HIDE DEF order
<1>6. Picked(s, at) \in [1..Cardinality(at) -> {s[i] : i \in at}]
  BY <1>4, <1>5
<1>7. Picked(s, at) \in [1..Cardinality(at) -> T]
  BY <1>1, <1>6
<1>8. Picked(s, at) \in Seq({s[i] : i \in at}) /\ Len(Picked(s, at)) = Cardinality(at)
  BY <1>2, <1>6
<1>9. Picked(s, at) \in Seq(T)
  BY <1>2, <1>7
<1> QED BY <1>2, <1>6, <1>8, <1>9
===============================================================================

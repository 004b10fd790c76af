------------------------------ MODULE Selection ------------------------------
(***************************************************************************)
(* Sorting and filtering of lists, for modules with proofs about what they *)
(* select: the provers cannot look into SelectSeq and SortSeq.             *)
(***************************************************************************)
EXTENDS Integers, Sequences, FiniteSets

(* The items of DOMAIN ahead, each after those that are ahead of it.       *)
InOrder(ahead) ==
  [k \in 1..Cardinality(DOMAIN ahead) |->
     CHOOSE i \in DOMAIN ahead : Cardinality(ahead[i]) = k - 1]

(* The items of s at the positions in at, in the order of s.               *)
Picked(s, at) ==
  LET order == InOrder([i \in at |-> {j \in at : j < i}])
  IN [k \in DOMAIN order |-> s[order[k]]]
==============================================================================

------------------------------ MODULE BagCount ------------------------------
(***************************************************************************)
(* How many elements a bag has, each as often as it is in it.  It equals   *)
(* BagCardinality, whose recursion over the subsets of the bag's domain    *)
(* leaves nothing to prove with.  The modules of the dashboard keep what   *)
(* is under way in bags and bound them by it.                              *)
(***************************************************************************)
EXTENDS Naturals, FiniteSets, Bags

(* The first, second, ... occurrence of each element.                      *)
Occurrences(B) == UNION {{x} \X (1..B[x]) : x \in DOMAIN B}

BagSize(B) == Cardinality(Occurrences(B))
=============================================================================

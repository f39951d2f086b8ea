----------------------------- MODULE Ordinals ------------------------------
(***************************************************************************)
(* The numbers of a set in their order.                                    *)
(***************************************************************************)
EXTENDS Integers, FiniteSets

(* How many numbers of the set are smaller than n.                         *)
OrdinalIn(n, S) == Cardinality({m \in S : m < n})

(* The i-th smallest number of a set.                                      *)
Nth(S, i) == CHOOSE n \in S : OrdinalIn(n, S) = i - 1

=============================================================================

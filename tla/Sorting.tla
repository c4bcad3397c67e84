------------------------------- MODULE Sorting -------------------------------
(***************************************************************************)
(* Sorting, as the components of the kernel use it: the members of a set   *)
(* in the order that a relation, a set of pairs, puts them in.             *)
(***************************************************************************)
EXTENDS Naturals, FiniteSets

\* The members of S in a sequence: as many are before the n-th as it follows.
Arranged(S, R) ==
  [n \in 1..Cardinality(S) |-> CHOOSE x \in S : Cardinality({y \in S : <<y, x>> \in R}) = n - 1]

=============================================================================

-------------------------------- MODULE Lists --------------------------------
(***************************************************************************)
(* Lists that the shell and the programs make by sorting or filtering.     *)
(* An element is found by the number of those before it, which the proofs  *)
(* count; the folds of the library would have to be followed step by step. *)
(***************************************************************************)
EXTENDS Integers, Sequences, FiniteSets

\* How many members of a set come before one of them.
Preceding(S, rank, x) == Cardinality({y \in S : rank[y] < rank[x]})

\* The members of a finite set by their ranks, no two of which are the same.
Sorted(S, rank) ==
  [k \in 1 .. Cardinality(S) |-> CHOOSE x \in S : Preceding(S, rank, x) = k - 1]

\* The members of a list that are in a set, in the order of the list.
Only(list, S) ==
  LET places == {i \in DOMAIN list : list[i] \in S}
      order == Sorted(places, [i \in places |-> i])
  IN [k \in DOMAIN order |-> list[order[k]]]
=============================================================================

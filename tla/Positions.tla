----------------------------- MODULE Positions -----------------------------
(***************************************************************************)
(* Sets of positions of a sequence, in ascending order.  (SetToSortSeq of  *)
(* the community modules would do as well, but rests on a sort that only   *)
(* TLC knows: nothing could be proved of it.)                              *)
(***************************************************************************)
EXTENDS Integers, FiniteSets

\* The k-th member of S is the one with k members up to it.
Ascending(S) ==
  [k \in 1..Cardinality(S) |-> CHOOSE i \in S : Cardinality({j \in S : j <= i}) = k]

\* The members of q at the positions in S.
At(q, S) == LET at == Ascending(S) IN [k \in 1..Cardinality(S) |-> q[at[k]]]
=============================================================================

----------------------------- MODULE MCRowSets -----------------------------
(***************************************************************************)
(* A small instance of module RowSets: two Rows, one of them used by two   *)
(* expectations and the other one used by two and twice by one of them.    *)
(***************************************************************************)
EXTENDS RowSets, TLC

CONSTANTS q1, q2, q3, A, B

MCNumRows   == A :> 3 @@ B :> 2
MCSetsOf    == q1 :> <<A, B>> @@ q2 :> <<A>> @@ q3 :> <<B, B>>
MCRawRows   == {<<A, 1>>, <<A, 2>>, <<B, 1>>, <<B, 2>>}
MCRowErrors == {<<B, 2>>}
=============================================================================

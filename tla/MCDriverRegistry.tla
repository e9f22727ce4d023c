-------------------------- MODULE MCDriverRegistry --------------------------
(***************************************************************************)
(* Small instances of module DriverRegistry.                               *)
(***************************************************************************)
EXTENDS DriverRegistry, TLC

CONSTANTS db0, db1, db2, name   \* "sqlmock_db_0", ... and another name

MCGeneratedDSN == (0 :> db0) @@ (1 :> db1) @@ (2 :> db2)
MockSymmetry == Permutations(Mocks)
=============================================================================

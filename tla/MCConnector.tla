----------------------------- MODULE MCConnector -----------------------------
(***************************************************************************)
(* The connector for TLC.  The threads of the pool are interchangeable.    *)
(***************************************************************************)
EXTENDS Connector, TLC

PoolSymmetry == Permutations(Pool)
=============================================================================

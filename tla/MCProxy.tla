------------------------------- MODULE MCProxy -------------------------------
(***************************************************************************)
(* The proxy connection for TLC.  The threads of the pool are              *)
(* interchangeable.                                                        *)
(***************************************************************************)
EXTENDS Proxy, TLC

PoolSymmetry == Permutations(Pool)
=============================================================================

----------------------------- MODULE MCReceiver -----------------------------
(***************************************************************************)
(* The receiver connection for TLC.  The threads of the pool are           *)
(* interchangeable.                                                        *)
(***************************************************************************)
EXTENDS Receiver, TLC

PoolSymmetry == Permutations(Pool)

\* What can go wrong even when the timers fire as they should.
TimelyInit == Init /\ timely
TimelySpec == TimelyInit /\ [][Next]_vars
=============================================================================

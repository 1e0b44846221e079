---------------------------- MODULE MCDaemonLock ----------------------------
(***************************************************************************)
(* Four processes, all of which may start together: a start meets a        *)
(* serving daemon, one that stops, one that dies, what a starter before it *)
(* left behind, and other starters.                                        *)
(***************************************************************************)
EXTENDS DaemonLock, TLC

Symmetry == Permutations(Proc)
=============================================================================

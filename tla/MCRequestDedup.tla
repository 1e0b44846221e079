--------------------------- MODULE MCRequestDedup ---------------------------
(***************************************************************************)
(* Two ids, three calls in flight, and three executions of each id: one    *)
(* before and one after each of the daemon's deaths or a purge.            *)
(***************************************************************************)
EXTENDS RequestDedup, TLC

Symmetry == Permutations(Id) \cup Permutations(Slot)
=============================================================================

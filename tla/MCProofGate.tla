---------------------------- MODULE MCProofGate ----------------------------
(***************************************************************************)
(* Two callers' proofs that take either path, one relay proof too few for  *)
(* all of them, and enough time for a proof signed ahead of the daemon's   *)
(* clock to be accepted at the first and offered at the last moment.       *)
(***************************************************************************)
EXTENDS ProofGate, TLC

Symmetry == Permutations(Caller) \cup Permutations(Relay)
=============================================================================

--------------------------- MODULE MCVaultWorker ---------------------------
(***************************************************************************)
(* Two handlers, three signed requests and generations 0..3: enough for a  *)
(* first write, a replacement, a tombstone, and a stale handler that read  *)
(* before each of them.                                                    *)
(***************************************************************************)
EXTENDS VaultWorker, TLC

Symmetry == Permutations(Handler) \cup Permutations(Nonce)
=============================================================================

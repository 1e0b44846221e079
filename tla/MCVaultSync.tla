---------------------------- MODULE MCVaultSync ----------------------------
(***************************************************************************)
(* One client call and a flush in flight, two snapshots and one fault:     *)
(* enough for a first write, its replacement by a rotation and a           *)
(* tombstone, with an older answer still under way at each of them, and    *)
(* for a late continuation that brings the session back after each.  The   *)
(* search is exhaustive; a session that is deleted and has nothing queued  *)
(* stops.                                                                  *)
(***************************************************************************)
EXTENDS VaultSync
=============================================================================

--------------------------- MODULE VaultRegister ---------------------------
(***************************************************************************)
(* What the hosted vault promises its clients (worker/src/vault.ts, the    *)
(* contract in the header comment): each session owns one head, which is   *)
(* replaced by an atomic compare-and-set.  A replacement names the head it *)
(* replaces, moves the generation strictly forward, never replaces a       *)
(* tombstone, and takes effect at most once per signed request.            *)
(***************************************************************************)
EXTENDS Naturals

CONSTANTS Session,   \* session identifiers, the object keys of the vault
          Nonce,     \* one per signed request
          Body,      \* opaque ciphertext
          MaxGen     \* bound on generations

NoHead == [generation |-> 0, deleted |-> FALSE, body |-> "none"]

\* The signed vault head.  Its hash is collision free, so the head itself
\* stands for its hash, for the service etag and for the stored body.
Head == [generation : 0..MaxGen, deleted : BOOLEAN, body : Body]

VARIABLES heads,     \* the stored head of each session
          applied    \* nonces of the writes that took effect

vars == <<heads, applied>>

Init == /\ heads = [s \in Session |-> NoHead]
        /\ applied = {}

\* When a write may replace the head `stored`: `expected` is the head the client
\* named (NoHead for If-None-Match: *).
Accepts(stored, expected, new) ==
    /\ stored = expected
    /\ ~expected.deleted
    /\ new.generation > expected.generation
    /\ expected = NoHead => ~new.deleted

\* One atomic write.
Put(s, n, expected, new) ==
    /\ n \notin applied
    /\ Accepts(heads[s], expected, new)
    /\ heads' = [heads EXCEPT ![s] = new]
    /\ applied' = applied \cup {n}

\* A write that names another head than the stored one is refused.
Next == \E s \in Session, n \in Nonce, new \in Head : Put(s, n, heads[s], new)

Spec == Init /\ [][Next]_vars
=============================================================================

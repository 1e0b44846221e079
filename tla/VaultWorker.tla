---------------------------- MODULE VaultWorker ----------------------------
(***************************************************************************)
(* The hosted vault endpoint (worker/src/vault.ts).  Any number of worker  *)
(* isolates run handleVaultPut concurrently; each handler awaits the       *)
(* backend three times (createNonce, get, putIf), and other handlers, or   *)
(* the death of the isolate, may come between any two of the awaits.       *)
(***************************************************************************)
EXTENDS Naturals

CONSTANTS Handler,   \* concurrent invocations of handleVaultPut
          Session, Nonce, Body,
          MaxGen     \* bound on generations

ASSUME MaxGenAssumption == MaxGen \in Nat
ASSUME BodyAssumption == "none" \notin Body

NoHead == [generation |-> 0, deleted |-> FALSE, body |-> "none"]

Head == [generation : 0..MaxGen, deleted : BOOLEAN, body : Body]

\* A request as the handler sees it after parsing.  `star` is the header
\* If-None-Match: *; `tag` the header If-Match (NoHead: absent or matching
\* nothing).  A request that fails a synchronous check of verifyProof (fields,
\* window, header binding, key, signature) is answered 401 and leaves no trace.
Request == [session : Session, nonce : Nonce, star : BOOLEAN,
            tag : Head \cup {NoHead}, head : Head]

\* An idle handler holds no request.
NoRequest == [session |-> "none"]

VARIABLES pc,        \* where each handler is
          req,       \* the request a handler works on
          seen,      \* what backend.get returned to it
          nonces,    \* the backend's nonce markers
          heads,     \* the backend's head objects; NoHead when absent
          applied    \* history: nonces of the writes that took effect

vars == <<pc, req, seen, nonces, heads, applied>>

TypeOK ==
    /\ pc \in [Handler -> {"idle", "nonce", "get", "put"}]
    /\ req \in [Handler -> Request \cup {NoRequest}]
    /\ seen \in [Handler -> Head \cup {NoHead}]
    /\ nonces \subseteq Nonce
    /\ heads \in [Session -> Head \cup {NoHead}]
    /\ applied \subseteq Nonce
    /\ \A h \in Handler : pc[h] = "idle" => req[h] = NoRequest /\ seen[h] = NoHead

Init ==
    /\ pc = [h \in Handler |-> "idle"]
    /\ req = [h \in Handler |-> NoRequest]
    /\ seen = [h \in Handler |-> NoHead]
    /\ nonces = {}
    /\ heads = [s \in Session |-> NoHead]
    /\ applied = {}

\* Mutant: a handler starts its next request with what it read for the last.
RespondKeepsRead(h) ==
    /\ pc' = [pc EXCEPT ![h] = "idle"]
    /\ req' = [req EXCEPT ![h] = NoRequest]
    /\ UNCHANGED seen

\* A handler answers, whatever the status, and forgets its request.
Respond(h) ==
    /\ pc' = [pc EXCEPT ![h] = "idle"]
    /\ req' = [req EXCEPT ![h] = NoRequest]
    /\ seen' = [seen EXCEPT ![h] = NoHead]

\* handleVaultPut up to the first await, with the synchronous part of
\* verifyProof, which has accepted the request.  When it carries
\* If-None-Match: *, If-Match is dropped.
ReceivePut(h) ==
    /\ pc[h] = "idle"
    /\ \E r \in Request :
        /\ r.star => r.tag = NoHead
        /\ req' = [req EXCEPT ![h] = r]
    /\ pc' = [pc EXCEPT ![h] = "nonce"]
    /\ UNCHANGED <<seen, nonces, heads, applied>>

\* Mutant: the answer of createNonce is not looked at.
CreateNonceReplayed(h) ==
    /\ pc[h] = "nonce"
    /\ nonces' = nonces \cup {req[h].nonce}
    /\ pc' = [pc EXCEPT ![h] = "get"]
    /\ UNCHANGED <<req, seen, heads, applied>>

\* createNonce, an atomic create-if-absent, then the synchronous verifyHead: a
\* nonce that exists, or a head that verifyHead refuses, ends the request.
CreateNonce(h) ==
    /\ pc[h] = "nonce"
    /\ nonces' = nonces \cup {req[h].nonce}
    /\ \/ /\ req[h].nonce \notin nonces
          /\ pc' = [pc EXCEPT ![h] = "get"]
          /\ UNCHANGED <<req, seen>>
       \/ Respond(h)
    /\ UNCHANGED <<heads, applied>>

\* Mutant: a tombstone may be replaced.
AcceptableOverTombstone(r, existing) ==
    IF existing # NoHead
    THEN r.head.generation > existing.generation /\ ~r.star /\ r.tag = existing
    ELSE r.star /\ ~r.head.deleted /\ r.head.generation >= 1

\* The checks of handleVaultPut against the head it read.
Acceptable(r, existing) ==
    IF existing # NoHead
    THEN /\ ~existing.deleted
         /\ r.head.generation > existing.generation
         /\ ~r.star
         /\ r.tag = existing
    ELSE /\ r.star
         /\ ~r.head.deleted
         /\ r.head.generation >= 1

\* backend.get and the checks that follow it in the same turn.
GetExisting(h) ==
    /\ pc[h] = "get"
    /\ LET existing == heads[req[h].session]
       IN  IF Acceptable(req[h], existing)
           THEN /\ pc' = [pc EXCEPT ![h] = "put"]
                /\ seen' = [seen EXCEPT ![h] = existing]
                /\ UNCHANGED req
           ELSE Respond(h)
    /\ UNCHANGED <<nonces, heads, applied>>

\* Mutant: last write wins.
TagMatchesAny(h) == TRUE

\* backend.putIf: the native tag of R2 is a digest of the stored content, so
\* comparing tags compares heads; an absent tag requires an absent object.
TagMatches(h) == heads[req[h].session] = seen[h]

PutIf(h) ==
    /\ pc[h] = "put"
    /\ \/ /\ TagMatches(h)
          /\ heads' = [heads EXCEPT ![req[h].session] = req[h].head]
          /\ applied' = applied \cup {req[h].nonce}
          /\ Respond(h)
       \/ /\ ~TagMatches(h)
          /\ Respond(h)
          /\ UNCHANGED <<heads, applied>>
    /\ UNCHANGED nonces

\* handleVaultGet (and handleHealth): a valid proof spends its nonce, which the
\* readers share with the writers, and the read changes nothing.
HandleGet(n) ==
    /\ nonces' = nonces \cup {n}
    /\ UNCHANGED <<pc, req, seen, heads, applied>>

\* The isolate dies, or a backend call throws: the request is dropped (500).
\* (A putIf that takes effect and loses its answer is PutIf.)
Abort(h) ==
    /\ pc[h] # "idle"
    /\ Respond(h)
    /\ UNCHANGED <<nonces, heads, applied>>

Next == \/ \E h \in Handler : \/ ReceivePut(h) \/ CreateNonce(h) \/ GetExisting(h)
                              \/ PutIf(h) \/ Abort(h)
        \/ \E n \in Nonce : HandleGet(n)

Spec == Init /\ [][Next]_vars

-----------------------------------------------------------------------------
\* The non-atomic get / putIf pair behaves as one atomic compare-and-set on the
\* head the client named, and each signed request takes effect at most once,
\* however the handlers interleave, retry or die.
Register == INSTANCE VaultRegister WITH heads <- heads, applied <- applied

AtomicRegister == Register!Spec

\* "Tombstones are permanent": once a deleted head is stored, no later PUT of
\* any handler, including one that read the head before the tombstone was
\* written, changes it.
TombstonePermanent ==
    [][\A s \in Session : heads[s].deleted => heads'[s] = heads[s]]_vars

\* "Generations strictly advance": a write never rolls a session back, even
\* when the handler's read is older than another handler's write.
GenerationAdvances ==
    [][\A s \in Session : heads'[s] # heads[s] =>
            heads'[s].generation > heads[s].generation]_vars

\* "A first write may not be a tombstone or skip generation 1": the first head of
\* a session has generation 1.
FirstWriteIsOne ==
    [][\A s \in Session : heads[s] = NoHead /\ heads'[s] # NoHead =>
            heads'[s].generation = 1]_vars

\* No nonce is in the hands of two handlers that are past createNonce, and none
\* of them still holds a nonce whose write already took effect.
NonceExclusive ==
    \A h \in Handler : pc[h] \in {"get", "put"} =>
        /\ req[h].nonce \in nonces \ applied
        /\ \A k \in Handler \ {h} : pc[k] \in {"get", "put"} =>
                req[k].nonce # req[h].nonce
=============================================================================

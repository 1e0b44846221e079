----------------------------- MODULE VaultSync -----------------------------
(***************************************************************************)
(* The daemon's client of the hosted vault, for one session: vaultSync,    *)
(* revoke and deleteSession with the tombstone outbox, and flushOutbox     *)
(* (engine.ts), over the HTTPS transport (vault.ts).  A request is a start *)
(* that reads the row, an atomic step of the vault, and a continuation     *)
(* that writes what it learnt onto the row of that moment; other calls,    *)
(* the timer's next flush, a timeout or a crash may come in between.  The  *)
(* vault is the register that VaultWorker is shown to implement.           *)
(***************************************************************************)
EXTENDS Naturals

CONSTANTS Call,        \* vaultSync calls of clients that may be in flight
          Flusher,     \* flushOutbox passes that may overlap
          Capture,     \* snapshots ever taken; a key is named after its first
          None,        \* no capture, no key
          MaxGen,      \* bound on generations
          MaxFaults,   \* bound on timeouts, worker errors, crashes, lost deletes
          ProofBinds   \* the vault compares the signed and the sent preconditions

ASSUME ConstantsAssumption == /\ MaxGen \in Nat /\ MaxFaults \in Nat
                              /\ ProofBinds \in BOOLEAN
                              /\ None \notin Capture
                              /\ "none" \notin Capture /\ "tomb" \notin Capture
                              /\ Call \cap Flusher = {}

VARIABLES st,        \* the session's state; WORKING: live, but not at rest
          gen,       \* the session's generation
          snap,      \* the row of snapshots
          capturing, \* the generation a capture in flight will store, or 0
          keyOf,     \* history: the key each capture was encrypted with
          meta,      \* meta row enckey:<session>
          keys,      \* the encryption keys in the keychain
          left,      \* history: keys that stay though the session has let them go
          late,      \* the session was revoked while a step or a detach was in flight
          sync,      \* the row of vault_sync
          tomb,      \* the queued vault_tombstone of the outbox
          call,      \* requests in flight
          head,      \* the head the vault stores
          faults,    \* faults so far
          spoiled    \* history: a race that the tombstone may not survive

local == <<st, gen, snap, capturing, keyOf, meta, keys, left, late>>
vars == <<local, sync, tomb, call, head, faults, spoiled>>

Live == {"NEEDS_LOGIN", "DETACHED", "WORKING"}
Ended == st \in {"REVOKED", "DELETED"}
Requests == Call \cup Flusher

Vault == INSTANCE VaultRegister
         WITH Session <- {"session"}, Nonce <- {}, Body <- Capture \cup {"tomb"},
              heads <- [s \in {"session"} |-> head], applied <- {}

NoHead == Vault!NoHead
HeadOrNone == Vault!Head \cup {NoHead}

NoSnapshot == [generation |-> 0, body |-> None]
NoSync == [known |-> FALSE, etag |-> NoHead, generation |-> 0, pending |-> FALSE]
NoTomb == [generation |-> 0, due |-> FALSE]
Idle == [kind |-> "none", at |-> "client", generation |-> 0, expected |-> NoHead,
         head |-> NoHead, ok |-> FALSE]

\* A request: its kind, where it is, the generation read before it, the head it
\* names and the one it carries or was answered.  A flush reads no generation.
Requested == [kind : {"none", "upload", "restore", "flush"},
              at : {"client", "sent", "answered", "abandoned"},
              generation : 0..MaxGen, expected : HeadOrNone, head : HeadOrNone,
              ok : BOOLEAN]

TypeOK ==
    /\ st \in Live \cup {"REVOKED", "DELETED"}
    /\ gen \in 0..MaxGen
    /\ snap \in [generation : 0..MaxGen, body : Capture \cup {None}]
    /\ capturing \in 0..MaxGen
    /\ keyOf \in [Capture -> Capture \cup {None}]
    /\ meta \in Capture \cup {None}
    /\ keys \subseteq Capture
    /\ left \subseteq Capture
    /\ late \in BOOLEAN
    /\ sync \in [known : BOOLEAN, etag : HeadOrNone, generation : 0..MaxGen,
                 pending : BOOLEAN]
    /\ tomb \in [generation : 0..MaxGen, due : BOOLEAN]
    /\ call \in [Requests -> Requested]
    /\ head \in HeadOrNone
    /\ faults \in 0..MaxFaults
    /\ spoiled \in BOOLEAN

Init ==
    /\ st = "NEEDS_LOGIN" /\ gen = 0 /\ snap = NoSnapshot /\ capturing = 0
    /\ keyOf = [c \in Capture |-> None] /\ meta = None /\ keys = {} /\ left = {}
    /\ late = FALSE
    /\ sync = NoSync /\ tomb = NoTomb
    /\ call = [c \in Requests |-> Idle]
    /\ head = NoHead /\ faults = 0 /\ spoiled = FALSE

-----------------------------------------------------------------------------
(* The session, as far as the vault client can tell (see Engine). *)

Unused == {c \in Capture : keyOf[c] = None}

\* attach, detach, a handoff, expiry, a changed policy.
Move(to) ==
    /\ <<st, to>> \in {<<"NEEDS_LOGIN", "WORKING">>, <<"DETACHED", "WORKING">>,
                       <<"WORKING", "DETACHED">>, <<"WORKING", "NEEDS_LOGIN">>,
                       <<"DETACHED", "NEEDS_LOGIN">>}
    /\ to = "DETACHED" => snap # NoSnapshot
    /\ st' = to
    /\ UNCHANGED <<gen, snap, capturing, keyOf, meta, keys, left, late,
                   sync, tomb, call, head, faults, spoiled>>

\* The result of a step, and the end of a detach, are committed without a look at
\* the state: after revoke or deleteSession they bring the session back.
Revive(to) ==
    /\ Ended /\ late
    /\ st' = to
    /\ UNCHANGED <<gen, snap, capturing, keyOf, meta, keys, left, late,
                   sync, tomb, call, head, faults, spoiled>>

\* runCheckpoint or runHandoffVerify up to adapter.capture.
StartCapture ==
    /\ st = "WORKING" /\ capturing = 0 /\ gen < MaxGen
    /\ capturing' = gen + 1
    /\ UNCHANGED <<st, gen, snap, keyOf, meta, keys, left, late,
                   sync, tomb, call, head, faults, spoiled>>

\* The name of the next capture, and of a key made for it.
Fresh == CHOOSE c \in Capture : keyOf[c] = None

\* After the capture: encKeyFor finds the session's key or makes the first one.
\* The first capture is a handoff's, and verifyCapture stores it only if the
\* session still waits for it; runCheckpoint stores without looking again.
FinishCapture ==
    /\ capturing # 0
    /\ capturing' = 0
    /\ \/ /\ Unused # {}
          /\ meta # None => meta \in keys
          /\ meta' = IF meta = None THEN Fresh ELSE meta
          /\ keys' = keys \cup {meta'}
          /\ \/ /\ meta # None \/ st = "WORKING"
                /\ keyOf' = [keyOf EXCEPT ![Fresh] = meta']
                /\ snap' = [generation |-> capturing, body |-> Fresh]
                /\ gen' = capturing
             \/ meta = None /\ UNCHANGED <<keyOf, snap, gen>>
       \/ UNCHANGED <<gen, snap, keyOf, meta, keys>>   \* snapshot.failed
    /\ spoiled' = (spoiled \/ gen' < gen)   \* begun before a rotation, or two
    /\ UNCHANGED <<st, left, late, sync, tomb, call, head, faults>>

\* keychain.delete, which reports nothing when it fails; or it is not reached.
DeleteKey(k, others) ==
    \/ keys' = others \ {k} /\ UNCHANGED <<left, faults>>
    \/ /\ k \in others /\ faults < MaxFaults
       /\ faults' = faults + 1
       /\ keys' = others /\ left' = left \cup {k}

\* A daemon that dies takes its requests and its capture with it.
Abandoned(r) == IF r.at = "sent" THEN [r EXCEPT !.at = "abandoned"]
                ELSE IF r.at = "answered" THEN Idle ELSE r
UploadOfLive(r) == r.kind = "upload" /\ ~r.head.deleted

Dies ==
    /\ faults < MaxFaults
    /\ faults' = faults + 1
    /\ call' = [c \in Requests |-> Abandoned(call[c])]
    /\ capturing' = 0
    /\ late' = FALSE
    /\ spoiled' = (spoiled \/ \E c \in Requests : UploadOfLive(call[c]))

\* vaultRotate stores the snapshot under a new key and commits; it retires the old
\* key after that, which fails silently, or is not reached because the pin throws,
\* or because the daemon dies.
VaultRotate ==
    /\ st = "DETACHED" /\ gen < MaxGen
    /\ snap # NoSnapshot /\ snap.generation = gen /\ keyOf[snap.body] \in keys
    /\ Unused # {}
    /\ keyOf' = [keyOf EXCEPT ![Fresh] = Fresh]
    /\ meta' = Fresh
    /\ snap' = [generation |-> gen + 1, body |-> Fresh]
    /\ gen' = gen + 1
    /\ \/ /\ DeleteKey(keyOf[snap.body], keys \cup {Fresh})
          /\ UNCHANGED <<capturing, late, call, spoiled>>
       \/ /\ keys' = keys \cup {Fresh} /\ left' = left \cup {keyOf[snap.body]}
          /\ Dies
    /\ UNCHANGED <<st, sync, tomb, head>>

\* Mutant: the tombstone carries the generation from before the revocation.
RevokeOldGeneration ==
    /\ st \in Live /\ gen < MaxGen
    /\ st' = "REVOKED" /\ gen' = gen + 1
    /\ late' = (late \/ st = "WORKING")
    /\ tomb' = [generation |-> gen, due |-> TRUE]
    /\ sync' = [sync EXCEPT !.known = TRUE, !.pending = TRUE,
                            !.generation = IF sync.known THEN @ ELSE gen + 1]
    /\ UNCHANGED <<snap, capturing, keyOf, meta, keys, left, call, head,
                   faults, spoiled>>

\* revoke with enqueueTombstone: the tombstone joins the outbox, and the sync
\* row, which is made if there was none, says that a deletion is pending.
Revoke ==
    /\ st \in Live /\ gen < MaxGen
    /\ st' = "REVOKED" /\ gen' = gen + 1
    /\ late' = (late \/ st = "WORKING")
    /\ tomb' = [generation |-> gen + 1, due |-> TRUE]
    /\ sync' = [sync EXCEPT !.known = TRUE, !.pending = TRUE,
                            !.generation = IF sync.known THEN @ ELSE gen + 1]
    /\ UNCHANGED <<snap, capturing, keyOf, meta, keys, left, call, head,
                   faults, spoiled>>

\* deleteSession erases the snapshot and the key that enckey:<session> names.
DeleteSession ==
    /\ st = "REVOKED"
    /\ st' = "DELETED"
    /\ snap' = NoSnapshot
    /\ IF meta = None THEN UNCHANGED <<keys, left, faults>> ELSE DeleteKey(meta, keys)
    /\ UNCHANGED <<gen, capturing, keyOf, meta, late, sync, tomb, call, head, spoiled>>

-----------------------------------------------------------------------------
(* Requests to the vault. *)

Send(c, kind, g, expected, new) ==
    call' = [call EXCEPT ![c] = [kind |-> kind, at |-> "sent", generation |-> g,
                                 expected |-> expected, head |-> new, ok |-> FALSE]]

Tombstone(g) == [generation |-> g, deleted |-> TRUE, body |-> "tomb"]

\* vaultUpload answers "unchanged" without a request.
AlreadySynced == sync.known /\ sync.generation = gen /\ ~sync.pending

\* vaultUpload up to the PUT.  A row without an etag sends If-None-Match: *.
StartUpload(c) ==
    /\ call[c] = Idle
    /\ \/ /\ st = "REVOKED"
          /\ Send(c, "upload", gen, sync.etag, Tombstone(gen))
       \/ /\ st \in Live
          /\ snap # NoSnapshot /\ snap.generation = gen
          /\ ~AlreadySynced
          /\ Send(c, "upload", gen, sync.etag,
                  [generation |-> gen, deleted |-> FALSE, body |-> snap.body])
    /\ UNCHANGED <<local, sync, tomb, head, faults, spoiled>>

\* vaultRestore up to the GET.
StartRestore(c) ==
    /\ call[c] = Idle
    /\ st \in {"DETACHED", "NEEDS_LOGIN"}
    /\ Send(c, "restore", gen, NoHead, NoHead)
    /\ UNCHANGED <<local, sync, tomb, head, faults, spoiled>>

\* Mutant: tombstones of deleted sessions are passed over.
StartFlushRevokedOnly(c) ==
    /\ call[c] = Idle
    /\ tomb.due /\ st = "REVOKED"
    /\ Send(c, "flush", 0, sync.etag, Tombstone(tomb.generation))
    /\ UNCHANGED <<local, sync, tomb, head, faults, spoiled>>

\* flushOutbox up to the PUT.  The timer starts a pass every two seconds, whether
\* or not the last one has ended.
StartFlush(c) ==
    /\ call[c] = Idle
    /\ tomb.due
    /\ Send(c, "flush", 0, sync.etag, Tombstone(tomb.generation))
    /\ UNCHANGED <<local, sync, tomb, head, faults, spoiled>>

\* deviceRequestProof signs null for both preconditions, whichever was sent.
PreconditionSigned == FALSE

\* The vault serves a request that has reached it: a GET reads the head, a PUT
\* replaces it if the register allows; or the worker answers an error.
Serve(c) ==
    /\ call[c].at \in {"sent", "abandoned"}
    /\ LET r == call[c]
           put == r.kind # "restore"
           answer == IF put THEN r.head ELSE head
           allowed == IF put THEN /\ ProofBinds => PreconditionSigned
                                  /\ Vault!Accepts(head, r.expected, r.head)
                             ELSE head # NoHead
       IN \E ok \in BOOLEAN :
            /\ ok => allowed
            /\ ~ok /\ allowed => faults < MaxFaults
            /\ faults' = IF ok = allowed THEN faults ELSE faults + 1
            /\ head' = IF put /\ ok THEN r.head ELSE head
            /\ call' = [call EXCEPT ![c] =
                          IF r.at = "abandoned" THEN Idle
                          ELSE [r EXCEPT !.at = "answered", !.head = answer, !.ok = ok]]
    /\ UNCHANGED <<local, sync, tomb, spoiled>>

\* An abandoned request never reaches the vault.
Drop(c) ==
    /\ call[c].at = "abandoned"
    /\ call' = [call EXCEPT ![c] = Idle]
    /\ UNCHANGED <<local, sync, tomb, head, faults, spoiled>>

\* A flush that fails leaves its row for a later pass.
BackOff == tomb' = [tomb EXCEPT !.due = FALSE]

\* The transport gives up after 15 s, or the connection breaks: nothing is
\* recorded, and the request may still be on its way.
Timeout(c) ==
    /\ call[c].at \in {"sent", "answered"}
    /\ faults < MaxFaults
    /\ faults' = faults + 1
    /\ call' = [call EXCEPT ![c] = Abandoned(@)]
    /\ IF call[c].kind = "flush" THEN BackOff ELSE UNCHANGED tomb
    /\ spoiled' = (spoiled \/ UploadOfLive(call[c]))
    /\ UNCHANGED <<local, sync, head>>

\* The daemon dies; recoverDaemon brings a session at work to rest.
Crash ==
    /\ Dies
    /\ st' \in IF st # "WORKING" THEN {st}
               ELSE {"NEEDS_LOGIN"} \cup (IF snap = NoSnapshot THEN {} ELSE {"DETACHED"})
    /\ UNCHANGED <<gen, snap, keyOf, meta, keys, left, sync, tomb, head>>

Synced(etag, g) == [known |-> TRUE, etag |-> etag, generation |-> g, pending |-> FALSE]

\* Mutant: the row takes the generation of the session as it is now.
FinishUploadFreshGeneration(c) ==
    /\ call[c].kind = "upload" /\ call[c].at = "answered"
    /\ call' = [call EXCEPT ![c] = Idle]
    /\ IF call[c].ok
       THEN /\ sync' = Synced(call[c].head, gen)
            /\ tomb' = NoTomb
            /\ spoiled' = (spoiled \/ call[c].head # head \/ (tomb # NoTomb /\ UploadOfLive(call[c])))
       ELSE UNCHANGED <<sync, tomb, spoiled>>
    /\ UNCHANGED <<local, head, faults>>

\* The rest of vaultUpload: on 200 the row says what was sent, and every queued
\* tombstone of the session is deleted with it.
FinishUpload(c) ==
    /\ call[c].kind = "upload" /\ call[c].at = "answered"
    /\ call' = [call EXCEPT ![c] = Idle]
    /\ IF call[c].ok
       THEN /\ sync' = Synced(call[c].head, call[c].generation)
            /\ tomb' = NoTomb
            /\ spoiled' = (spoiled \/ call[c].head # head \/ (tomb # NoTomb /\ UploadOfLive(call[c])))
       ELSE UNCHANGED <<sync, tomb, spoiled>>
    /\ UNCHANGED <<local, head, faults>>

\* Mutant: the key is looked up before the GET, so its erasure goes unnoticed.
RestorableEarlyKey(r) ==
    /\ r.ok /\ ~r.head.deleted
    /\ r.head.generation >= r.generation

\* What vaultRestore accepts after the GET: a live head that is not older than
\* the generation read before it, under a key that is still in the keychain.
Restorable(r) ==
    /\ r.ok /\ ~r.head.deleted
    /\ r.head.generation >= r.generation
    /\ keyOf[r.head.body] \in keys

\* The rest of vaultRestore writes the head it was given onto the session as it
\* is now, its generation included; or an integrity check throws.
FinishRestore(c) ==
    /\ call[c].kind = "restore" /\ call[c].at = "answered"
    /\ call' = [call EXCEPT ![c] = Idle]
    /\ LET h == call[c].head
       IN \/ /\ Restorable(call[c])
             /\ snap' = [generation |-> h.generation, body |-> h.body]
             /\ gen' = h.generation
             /\ meta' = keyOf[h.body]
             /\ left' = left \cup ((keys \cap {meta}) \ {meta'})
             /\ st' = IF st = "NEEDS_LOGIN" THEN "DETACHED" ELSE st
             /\ sync' = Synced(h, h.generation)
             /\ spoiled' = (spoiled \/ h # head \/ gen > h.generation)
          \/ UNCHANGED <<snap, gen, meta, left, st, sync, spoiled>>
    /\ UNCHANGED <<capturing, keyOf, keys, late, tomb, head, faults>>

\* The rest of flushOutbox.  On 200 the row leaves the outbox; the statement that
\* should update vault_sync binds two of its three parameters, so it violates
\* NOT NULL and is caught with the transport's errors.
FinishFlush(c) ==
    /\ call[c].kind = "flush" /\ call[c].at = "answered"
    /\ call' = [call EXCEPT ![c] = Idle]
    /\ IF call[c].ok THEN tomb' = NoTomb ELSE BackOff
    /\ UNCHANGED <<local, sync, head, faults, spoiled>>

Finish(c) == FinishUpload(c) \/ FinishRestore(c) \/ FinishFlush(c)

\* The backoff of a queued tombstone has passed.
RetryDue ==
    /\ tomb # NoTomb /\ ~tomb.due
    /\ tomb' = [tomb EXCEPT !.due = TRUE]
    /\ UNCHANGED <<local, sync, call, head, faults, spoiled>>

Next ==
    \/ \E to \in Live : Move(to)
    \/ \E to \in {"WORKING", "DETACHED"} : Revive(to)
    \/ StartCapture \/ FinishCapture \/ VaultRotate \/ Revoke \/ DeleteSession
    \/ \E c \in Call : StartUpload(c) \/ StartRestore(c)
    \/ \E c \in Flusher : StartFlush(c)
    \/ \E c \in Requests : \/ Serve(c) \/ Drop(c) \/ Timeout(c)
                           \/ Finish(c)
    \/ Crash \/ RetryDue

Spec == Init /\ [][Next]_vars

FairSpec ==
    /\ Spec
    /\ \A c \in Requests : WF_vars(Serve(c)) /\ WF_vars(Finish(c))
    /\ \A c \in Flusher : WF_vars(StartFlush(c))
    /\ WF_vars(RetryDue)

-----------------------------------------------------------------------------
\* What vaultSync reports as synced is in the vault: unless a deletion is
\* pending, the generation of the sync row, by which vaultUpload answers
\* "unchanged", is the generation of the stored head or an older one, however
\* captures, rotations, restores and lost answers fall around the requests.
SyncedIsStored == sync.known /\ ~sync.pending => sync.generation <= head.generation

\* Of a deleted session, whatever restore, capture or rotation was in flight,
\* nothing is stored again and no copy, in the vault or on its way there, can be
\* decrypted any more, but under a key in left: one whose deletion failed silently
\* or was not reached (keychain.delete, vaultRotate), or which a restore under
\* such a key took the name from.
ErasedStaysErased ==
    st = "DELETED" =>
        /\ \A c \in Capture : keyOf[c] \in keys => keyOf[c] \in left
        /\ snap = NoSnapshot \/ keyOf[snap.body] \in left

\* The same without the exception, which is not true of the code (README, 6).
ErasedAlways ==
    st = "DELETED" => snap = NoSnapshot /\ \A c \in Capture : keyOf[c] \notin keys

HeadIsLive == head # NoHead /\ ~head.deleted

\* A revoked session whose copy in the vault is still alive has a tombstone in
\* the outbox that the vault will take, unless one of the races that spoil it
\* came about.
TombstoneFits ==
    Ended /\ HeadIsLive /\ ~spoiled /\ (\A c \in Requests : call[c].kind # "upload")
      => /\ tomb.generation > head.generation
         /\ sync.etag = head

\* A revoked session's copy in the vault is deleted in the end, or a race spoilt
\* the tombstone.
DeletionReachesVault == Ended /\ HeadIsLive ~> (head.deleted \/ spoiled)

\* tests/vectors-vault.test.ts: "vault first write and generation-advancing
\* replace succeed".  A write of the daemon that names the stored head and
\* advances its generation is answered 200 unless a fault intervenes.
AdvancingWriteSucceeds ==
    [][\A c \in Requests :
        /\ call[c].kind \in {"upload", "flush"} /\ call[c].at = "sent"
        /\ call'[c].at = "answered" /\ faults' = faults
        /\ Vault!Accepts(head, call[c].expected, call[c].head)
        => call'[c].ok]_vars

=============================================================================

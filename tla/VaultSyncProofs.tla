-------------------------- MODULE VaultSyncProofs --------------------------
(***************************************************************************)
(* Proofs about VaultSync for any number of calls, flushes, captures,      *)
(* generations and faults, and whether or not the vault binds the          *)
(* preconditions.  Three arguments: what an answer says was once the head  *)
(* of the vault, whose generation only grows, so a row written from a late *)
(* answer is behind the vault and never ahead of it; and but for the keys  *)
(* in left, the keychain holds only the one that enckey:<session> names,   *)
(* so deleting it makes every copy unreadable but those under the former,  *)
(* and no continuation brings one back;                                    *)
(* and until a race spoils it, the generation never goes back, so a queued *)
(* tombstone is ahead of whatever the vault holds or is about to take.     *)
(***************************************************************************)
EXTENDS VaultSync, TLAPS

\* A snapshot that is there, and a live head, is one of the captures.
Named(h) == h = NoHead \/ h.deleted \/ h.body \in Capture
BodiesNamed ==
    /\ snap = NoSnapshot \/ snap.body \in Capture
    /\ Named(head)
    /\ \A c \in Requests : Named(call[c].head)

\* What a request carries and what its answer means.
AnswersTrue ==
    \A c \in Requests :
        /\ call[c].kind = "upload" => call[c].generation = call[c].head.generation
        /\ call[c].at = "answered" /\ call[c].ok =>
              /\ call[c].head.generation <= head.generation
              /\ call[c].kind = "restore" => call[c].head # NoHead

\* A key that outlives its name is in left, and the snapshot is under the named key.
KeysNamed ==
    /\ \A k \in keys : k \in left \/ k = meta
    /\ meta = None => snap = NoSnapshot /\ \A c \in Capture : keyOf[c] = None
    /\ snap # NoSnapshot => keyOf[snap.body] = meta
    /\ st = "DELETED" /\ capturing # 0 => \A k \in keys : k \in left

IndInv == TypeOK /\ BodiesNamed /\ AnswersTrue /\ SyncedIsStored /\ KeysNamed /\ ErasedStaysErased

\* Nothing has been captured, sent or stored.
LEMMA InitInd == Init => IndInv
<1> SUFFICES ASSUME Init PROVE IndInv
  OBVIOUS
<1>1. NoHead \in HeadOrNone /\ NoHead.generation = 0
  BY DEF HeadOrNone, NoHead, Vault!NoHead
<1>2. 0 \in 0..MaxGen /\ 0 \in 0..MaxFaults
  BY ConstantsAssumption
<1>3. Idle \in Requested
  BY <1>1, <1>2 DEF Idle, Requested
<1>4. /\ NoSnapshot \in [generation : 0..MaxGen, body : Capture \cup {None}]
      /\ NoSync \in [known : BOOLEAN, etag : HeadOrNone, generation : 0..MaxGen, pending : BOOLEAN]
      /\ NoTomb \in [generation : 0..MaxGen, due : BOOLEAN]
  BY <1>1, <1>2 DEF NoSnapshot, NoSync, NoTomb
<1>5. TypeOK
  BY <1>1, <1>2, <1>3, <1>4 DEF Init, TypeOK, Live
<1>6. BodiesNamed
  BY DEF Init, BodiesNamed, Named, Idle
<1>7. AnswersTrue /\ SyncedIsStored
  BY DEF Init, AnswersTrue, SyncedIsStored, Idle, NoSync
<1>8. KeysNamed /\ ErasedStaysErased
  BY DEF Init, KeysNamed, ErasedStaysErased
<1> QED BY <1>5, <1>6, <1>7, <1>8 DEF IndInv

\* A capture not yet used exists if any does, and it is one of the captures.
LEMMA FreshIsUnused == Unused # {} => Fresh \in Capture /\ keyOf[Fresh] = None
  BY DEF Unused, Fresh

\* The moves of the session leave the vault, its requests and the keys alone.
LEMMA MoveInd == ASSUME IndInv, NEW to \in Live, Move(to) PROVE IndInv'
  BY ConstantsAssumption
  DEF Move, IndInv, TypeOK, BodiesNamed, Named, AnswersTrue, SyncedIsStored, KeysNamed,
      ErasedStaysErased, Live

\* So does a late continuation that takes an ended session back to a live state.
LEMMA ReviveInd == ASSUME IndInv, NEW to \in Live, Revive(to) PROVE IndInv'
  BY ConstantsAssumption
  DEF Revive, IndInv, TypeOK, BodiesNamed, Named, AnswersTrue, SyncedIsStored, KeysNamed,
      ErasedStaysErased, Live

\* A capture that starts reads the generation and changes nothing else.
LEMMA StartCaptureInd == ASSUME IndInv, StartCapture PROVE IndInv'
  BY ConstantsAssumption
  DEF StartCapture, IndInv, TypeOK, BodiesNamed, Named, AnswersTrue, SyncedIsStored, KeysNamed,
      ErasedStaysErased, Live

\* A capture that ends stores under the one key there is, or makes the first; of a
\* deleted session it stores nothing.
LEMMA FinishCaptureInd == ASSUME IndInv, FinishCapture PROVE IndInv'
<1>1. Unused # {} => Fresh \in Capture /\ keyOf[Fresh] = None
  BY FreshIsUnused
<1>0. spoiled' \in BOOLEAN
  BY DEF FinishCapture, IndInv, TypeOK
<1>2. TypeOK' /\ BodiesNamed'
  BY <1>0, <1>1, ConstantsAssumption
  DEF FinishCapture, IndInv, TypeOK, BodiesNamed, Named, Live, NoSnapshot
<1>3. AnswersTrue' /\ SyncedIsStored'
  BY DEF FinishCapture, IndInv, AnswersTrue, SyncedIsStored
<1>4. KeysNamed'
  BY <1>1, ConstantsAssumption DEF FinishCapture, IndInv, TypeOK, KeysNamed
<1>5. ErasedStaysErased'
  BY <1>1, ConstantsAssumption DEF FinishCapture, IndInv, TypeOK, KeysNamed, ErasedStaysErased
<1> QED BY <1>2, <1>3, <1>4, <1>5 DEF IndInv

\* Deleting a key removes it, or is remembered as left.
LEMMA DeleteKeyKeys ==
    ASSUME NEW k, NEW others, DeleteKey(k, others)
    PROVE \/ keys' = others \ {k} /\ left' = left /\ faults' = faults
          \/ /\ keys' = others /\ k \in others /\ left' = left \cup {k}
             /\ faults' = faults + 1 /\ faults < MaxFaults
  BY DEF DeleteKey

\* A request that was given up is forgotten, or is still under way; it has no
\* answer either way.
LEMMA AbandonedTyped ==
    ASSUME IndInv, NEW c \in Requests
    PROVE /\ Idle \in Requested /\ Named(Idle.head) /\ Idle.kind = "none" /\ Idle.at = "client"
          /\ Abandoned(call[c]) \in Requested /\ Named(Abandoned(call[c]).head)
          /\ Abandoned(call[c]).at # "answered"
          /\ Abandoned(call[c]).kind = "upload" =>
                Abandoned(call[c]).generation = Abandoned(call[c]).head.generation
<1>1. Idle \in Requested /\ Named(Idle.head) /\ Idle.kind = "none" /\ Idle.at = "client"
  BY ConstantsAssumption DEF Idle, Requested, Named, HeadOrNone
<1>2. call[c] \in Requested /\ Named(call[c].head)
      /\ (call[c].kind = "upload" => call[c].generation = call[c].head.generation)
  BY DEF IndInv, TypeOK, BodiesNamed, AnswersTrue
<1>3. CASE call[c].at = "sent"
  <2> DEFINE q == [call[c] EXCEPT !.at = "abandoned"]
  <2>1. Abandoned(call[c]) = q
    BY <1>3 DEF Abandoned
  <2>2. /\ q \in Requested /\ q.head = call[c].head /\ q.at = "abandoned"
        /\ q.kind = call[c].kind /\ q.generation = call[c].generation
    BY <1>2 DEF Requested
  <2> HIDE DEF q
  <2> QED BY <1>1, <1>2, <2>1, <2>2
<1>4. CASE call[c].at = "answered"
  <2>1. Abandoned(call[c]) = Idle
    BY <1>4 DEF Abandoned
  <2> QED BY <1>1, <2>1
<1>5. CASE call[c].at \notin {"sent", "answered"}
  <2>1. Abandoned(call[c]) = call[c]
    BY <1>5 DEF Abandoned
  <2> QED BY <1>1, <1>2, <1>5, <2>1
<1> QED BY <1>1, <1>3, <1>4, <1>5

\* After a death every request is forgotten or abandoned.
LEMMA DiesCalls ==
    ASSUME IndInv, Dies, head' = head
    PROVE  /\ call' \in [Requests -> Requested] /\ AnswersTrue'
           /\ \A c \in Requests : Named(call'[c].head)
<1>1. call' = [c \in Requests |-> Abandoned(call[c])]
  BY DEF Dies
<1>2. \A c \in Requests : /\ call'[c] \in Requested /\ Named(call'[c].head)
                          /\ call'[c].at # "answered"
                          /\ call'[c].kind = "upload" =>
                                call'[c].generation = call'[c].head.generation
  BY <1>1, AbandonedTyped
<1> QED BY <1>1, <1>2 DEF AnswersTrue

\* A rotation retires the key that enckey:<session> named, or leaves it behind.
LEMMA VaultRotateInd == ASSUME IndInv, VaultRotate PROVE IndInv'
<1>1. Fresh \in Capture /\ keyOf[Fresh] = None
  BY FreshIsUnused DEF VaultRotate
<1>2. \/ keys' = (keys \cup {Fresh}) \ {keyOf[snap.body]} /\ left' = left
      \/ /\ keys' = keys \cup {Fresh} /\ left' = left \cup {keyOf[snap.body]}
  BY DeleteKeyKeys DEF VaultRotate
<1>3. /\ keyOf[snap.body] \in keys /\ keyOf[snap.body] \in Capture
      /\ snap # NoSnapshot /\ snap.body \in Capture /\ keyOf[snap.body] = meta
  BY DEF VaultRotate, IndInv, TypeOK, BodiesNamed, KeysNamed
<1>a. spoiled' \in BOOLEAN /\ late' \in BOOLEAN
  BY DEF VaultRotate, Dies, IndInv, TypeOK
<1>4. faults' \in 0..MaxFaults /\ capturing' \in 0..MaxGen
  <2>1. CASE DeleteKey(keyOf[snap.body], keys \cup {Fresh})
             /\ UNCHANGED <<capturing, late, call, spoiled>>
    <3>1. faults' = faults \/ (faults' = faults + 1 /\ faults < MaxFaults)
      BY <2>1, DeleteKeyKeys
    <3> QED BY <2>1, <3>1, ConstantsAssumption DEF IndInv, TypeOK
  <2>2. CASE Dies
    BY <2>2, ConstantsAssumption DEF Dies, IndInv, TypeOK
  <2> QED BY <2>1, <2>2 DEF VaultRotate
<1>5. /\ call' \in [Requests -> Requested] /\ AnswersTrue'
      /\ \A c \in Requests : Named(call'[c].head)
  <2>1. CASE call' = call
    BY <2>1 DEF VaultRotate, IndInv, TypeOK, AnswersTrue, BodiesNamed
  <2>2. CASE Dies
    BY <2>2, DiesCalls DEF VaultRotate
  <2> QED BY <2>1, <2>2 DEF VaultRotate
<1>6. TypeOK'
  BY <1>a, <1>1, <1>2, <1>3, <1>4, <1>5, ConstantsAssumption
  DEF VaultRotate, IndInv, TypeOK, Live
<1>7. BodiesNamed'
  BY <1>1, <1>5 DEF VaultRotate, IndInv, BodiesNamed, Named
<1>8. SyncedIsStored'
  BY DEF VaultRotate, IndInv, SyncedIsStored
<1>9. KeysNamed' /\ ErasedStaysErased'
  BY <1>1, <1>2, <1>3, ConstantsAssumption
  DEF VaultRotate, IndInv, TypeOK, KeysNamed, ErasedStaysErased, NoSnapshot
<1> QED BY <1>5, <1>6, <1>7, <1>8, <1>9 DEF IndInv

\* A revocation only queues; the sync row then says that a deletion is pending.
LEMMA RevokeInd == ASSUME IndInv, Revoke PROVE IndInv'
<1> DEFINE g == IF sync.known THEN sync.generation ELSE gen + 1
<1>0. g \in 0..MaxGen /\ gen + 1 \in 0..MaxGen
  BY ConstantsAssumption DEF Revoke, IndInv, TypeOK
<1>a. sync' = [sync EXCEPT !.known = TRUE, !.pending = TRUE, !.generation = g]
  BY DEF Revoke
<1>b. sync' \in [known : BOOLEAN, etag : HeadOrNone, generation : 0..MaxGen, pending : BOOLEAN]
  <2> HIDE DEF g
  <2> QED BY <1>0, <1>a DEF IndInv, TypeOK
<1>1. TypeOK' /\ BodiesNamed'
  BY <1>0, <1>b, ConstantsAssumption DEF Revoke, IndInv, TypeOK, BodiesNamed, Named, Live
<1>2. AnswersTrue' /\ SyncedIsStored'
  BY DEF Revoke, IndInv, TypeOK, AnswersTrue, SyncedIsStored
<1>3. KeysNamed' /\ ErasedStaysErased'
  BY DEF Revoke, IndInv, KeysNamed, ErasedStaysErased
<1> QED BY <1>1, <1>2, <1>3 DEF IndInv

\* A deletion leaves no key, or one that is remembered as left.
LEMMA DeleteSessionInd == ASSUME IndInv, DeleteSession PROVE IndInv'
<1>1. \/ meta = None /\ UNCHANGED <<keys, left, faults>>
      \/ keys' = keys \ {meta} /\ left' = left /\ faults' = faults
      \/ /\ keys' = keys /\ meta \in keys /\ left' = left \cup {meta}
         /\ faults' = faults + 1 /\ faults < MaxFaults
  BY DeleteKeyKeys DEF DeleteSession
<1>2. TypeOK' /\ BodiesNamed'
  BY <1>1, ConstantsAssumption
  DEF DeleteSession, IndInv, TypeOK, BodiesNamed, Named, Live, NoSnapshot
<1>3. AnswersTrue' /\ SyncedIsStored'
  BY DEF DeleteSession, IndInv, AnswersTrue, SyncedIsStored
<1>4. KeysNamed' /\ ErasedStaysErased'
  BY <1>1, ConstantsAssumption
  DEF DeleteSession, IndInv, TypeOK, KeysNamed, ErasedStaysErased
<1> QED BY <1>2, <1>3, <1>4 DEF IndInv

\* A request that is sent carries what the row said, and has no answer yet.
LEMMA SendInd ==
    ASSUME IndInv, NEW c \in Requests, NEW kind \in {"upload", "restore", "flush"},
           NEW g \in 0..MaxGen,
           NEW expected \in HeadOrNone, NEW new \in HeadOrNone,
           Named(new), kind = "upload" => new.generation = g,
           Send(c, kind, g, expected, new),
           UNCHANGED <<local, sync, tomb, head, faults, spoiled>>
    PROVE IndInv'
<1> DEFINE r == [kind |-> kind, at |-> "sent", generation |-> g,
                 expected |-> expected, head |-> new, ok |-> FALSE]
<1>1. call' = [call EXCEPT ![c] = r]
  BY DEF Send
<1>2. r \in Requested /\ r.at = "sent" /\ r.head = new /\ r.generation = g /\ r.kind = kind
  BY DEF IndInv, TypeOK, Requested
<1> HIDE DEF r
<1>3. TypeOK'
  BY <1>1, <1>2 DEF IndInv, TypeOK, local
<1>4. BodiesNamed'
  BY <1>1, <1>2 DEF IndInv, TypeOK, BodiesNamed, Named, local
<1>5. AnswersTrue' /\ SyncedIsStored'
  BY <1>1, <1>2 DEF IndInv, TypeOK, AnswersTrue, SyncedIsStored
<1>6. KeysNamed' /\ ErasedStaysErased'
  BY DEF IndInv, KeysNamed, ErasedStaysErased, local
<1> QED BY <1>3, <1>4, <1>5, <1>6 DEF IndInv

\* Tombstones and heads of snapshots are heads.
LEMMA HeadsTyped ==
    /\ \A g \in 0..MaxGen : /\ Tombstone(g) \in HeadOrNone /\ Named(Tombstone(g))
                            /\ Tombstone(g).generation = g
    /\ \A g \in 0..MaxGen, b \in Capture :
          LET h == [generation |-> g, deleted |-> FALSE, body |-> b]
          IN  h \in HeadOrNone /\ Named(h) /\ h.generation = g
    /\ NoHead \in HeadOrNone /\ Named(NoHead)
  BY DEF Tombstone, HeadOrNone, Named, Vault!Head

\* An upload sends a tombstone or the snapshot of the current generation.
LEMMA StartUploadInd == ASSUME IndInv, NEW c \in Call, StartUpload(c) PROVE IndInv'
<1>1. c \in Requests /\ gen \in 0..MaxGen /\ sync.etag \in HeadOrNone
  BY DEF Requests, IndInv, TypeOK
<1>2. CASE Send(c, "upload", gen, sync.etag, Tombstone(gen))
  BY <1>1, <1>2, HeadsTyped, SendInd DEF StartUpload
<1>3. CASE /\ snap # NoSnapshot
           /\ Send(c, "upload", gen, sync.etag, [generation |-> gen, deleted |-> FALSE, body |-> snap.body])
  <2>1. snap.body \in Capture
    BY <1>3 DEF IndInv, BodiesNamed
  <2> DEFINE h == [generation |-> gen, deleted |-> FALSE, body |-> snap.body]
  <2>2. h \in HeadOrNone /\ Named(h) /\ h.generation = gen
    BY <1>1, <2>1, HeadsTyped
  <2>3. Send(c, "upload", gen, sync.etag, h)
    BY <1>3
  <2> HIDE DEF h
  <2> QED BY <1>1, <2>2, <2>3, SendInd DEF StartUpload
<1> QED BY <1>2, <1>3 DEF StartUpload

\* A restore sends nothing.
LEMMA StartRestoreInd == ASSUME IndInv, NEW c \in Call, StartRestore(c) PROVE IndInv'
<1>1. c \in Requests /\ gen \in 0..MaxGen
  BY DEF Requests, IndInv, TypeOK
<1> QED BY <1>1, HeadsTyped, SendInd DEF StartRestore

\* A flush sends the queued tombstone.
LEMMA StartFlushInd == ASSUME IndInv, NEW c \in Flusher, StartFlush(c) PROVE IndInv'
<1>1. /\ c \in Requests /\ tomb.generation \in 0..MaxGen /\ sync.etag \in HeadOrNone
      /\ 0 \in 0..MaxGen
  BY ConstantsAssumption DEF Requests, IndInv, TypeOK
<1> QED BY <1>1, HeadsTyped, SendInd DEF StartFlush

\* The vault's generation only grows, and an answer repeats what the vault holds
\* at that moment.
LEMMA ServeInd == ASSUME IndInv, NEW c \in Requests, Serve(c) PROVE IndInv'
<1> DEFINE r == call[c]
           put == r.kind # "restore"
           answer == IF put THEN r.head ELSE head
           allowed == IF put THEN /\ ProofBinds => PreconditionSigned
                                  /\ Vault!Accepts(head, r.expected, r.head)
                             ELSE head # NoHead
<1>1. PICK ok \in BOOLEAN :
            /\ ok => allowed
            /\ ~ok /\ allowed => faults < MaxFaults
            /\ faults' = IF ok = allowed THEN faults ELSE faults + 1
            /\ head' = IF put /\ ok THEN r.head ELSE head
            /\ call' = [call EXCEPT ![c] =
                          IF r.at = "abandoned" THEN Idle
                          ELSE [r EXCEPT !.at = "answered", !.head = answer, !.ok = ok]]
  BY DEF Serve
<1>2. r \in Requested /\ head \in HeadOrNone /\ r.head \in HeadOrNone
  BY DEF IndInv, TypeOK, Requested
<1>3. /\ \A h \in HeadOrNone : h.generation \in Nat /\ h.generation \in 0..MaxGen
      /\ NoHead \in HeadOrNone
  BY ConstantsAssumption DEF HeadOrNone, NoHead, Vault!Head, Vault!NoHead
<1>4. head' \in HeadOrNone /\ head.generation <= head'.generation
  <2>1. CASE put /\ ok
    BY <1>1, <1>2, <1>3, <2>1 DEF Vault!Accepts
  <2>2. CASE ~(put /\ ok)
    BY <1>1, <1>2, <1>3, <2>2
  <2> QED BY <2>1, <2>2
<1>5. Named(head') /\ Named(answer) /\ answer \in HeadOrNone
  BY <1>1, <1>2 DEF IndInv, BodiesNamed, Named
<1>6. faults' \in 0..MaxFaults
  <2>1. allowed \in BOOLEAN
    BY DEF Vault!Accepts, PreconditionSigned
  <2>2. ok = allowed => faults' = faults
    BY <1>1
  <2>3. ok # allowed => faults' = faults + 1 /\ faults < MaxFaults
    BY <1>1, <2>1
  <2>4. faults' = faults \/ (faults' = faults + 1 /\ faults < MaxFaults)
    BY <2>2, <2>3
  <2> QED BY <2>4, ConstantsAssumption DEF IndInv, TypeOK
<1>7. Idle \in Requested /\ Named(Idle.head) /\ Idle.at = "client" /\ Idle.kind = "none"
  BY <1>3, ConstantsAssumption DEF Idle, Requested, Named
<1> DEFINE q == [r EXCEPT !.at = "answered", !.head = answer, !.ok = ok]
           n == IF r.at = "abandoned" THEN Idle ELSE q
<1>8. /\ q \in Requested /\ q.head = answer /\ q.kind = r.kind /\ q.ok = ok
      /\ q.generation = r.generation
  <2> HIDE DEF answer
  <2> QED BY <1>2, <1>5 DEF Requested
<1>9. call' = [call EXCEPT ![c] = n]
  BY <1>1
<1>10. n \in Requested /\ Named(n.head)
  <2> HIDE DEF q, answer
  <2> QED BY <1>5, <1>7, <1>8
<1>11. n.kind = "upload" => n.generation = n.head.generation
  <2>1. r.kind = "upload" => r.generation = r.head.generation /\ answer = r.head
    BY DEF IndInv, AnswersTrue
  <2> HIDE DEF q, answer, r
  <2> QED BY <1>7, <1>8, <2>1
<1>12. n.at = "answered" /\ n.ok => /\ n.head.generation <= head'.generation
                                    /\ n.kind = "restore" => n.head # NoHead
  <2>1. ok => answer = head'
    BY <1>1
  <2>2. ok /\ r.kind = "restore" => head # NoHead /\ answer = head
    BY <1>1
  <2> HIDE DEF q, answer, r
  <2> QED BY <1>3, <1>4, <1>5, <1>7, <1>8, <2>1, <2>2
<1> HIDE DEF n, q, r, put, answer, allowed
<1>13. TypeOK'
  BY <1>4, <1>6, <1>9, <1>10 DEF IndInv, TypeOK, Serve, local
<1>14. BodiesNamed'
  BY <1>5, <1>9, <1>10 DEF IndInv, TypeOK, BodiesNamed, Named, Serve, local
<1>15. AnswersTrue'
  <2> SUFFICES ASSUME NEW d \in Requests
               PROVE /\ call'[d].kind = "upload" => call'[d].generation = call'[d].head.generation
                     /\ call'[d].at = "answered" /\ call'[d].ok =>
                           /\ call'[d].head.generation <= head'.generation
                           /\ call'[d].kind = "restore" => call'[d].head # NoHead
    BY DEF AnswersTrue
  <2>1. CASE d = c
    <3>1. call'[d] = n
      BY <1>9, <2>1 DEF IndInv, TypeOK
    <3> QED BY <1>11, <1>12, <3>1
  <2>2. CASE d # c
    <3>1. call'[d] = call[d] /\ call[d].head.generation \in Nat
      BY <1>3, <1>9, <2>2 DEF IndInv, TypeOK, Requested
    <3> QED BY <1>2, <1>3, <1>4, <3>1 DEF IndInv, AnswersTrue
  <2> QED BY <2>1, <2>2
<1>16. SyncedIsStored'
  BY <1>2, <1>3, <1>4 DEF IndInv, TypeOK, SyncedIsStored, Serve
<1>17. KeysNamed' /\ ErasedStaysErased'
  BY DEF IndInv, KeysNamed, ErasedStaysErased, Serve, local
<1> QED BY <1>13, <1>14, <1>15, <1>16, <1>17 DEF IndInv

\* A request is dropped by the network.
LEMMA DropInd == ASSUME IndInv, NEW c \in Requests, Drop(c) PROVE IndInv'
<1>1. Idle \in Requested /\ Named(Idle.head) /\ Idle.kind = "none" /\ Idle.at = "client"
  BY AbandonedTyped
<1>2. TypeOK' /\ BodiesNamed'
  BY <1>1 DEF Drop, IndInv, TypeOK, BodiesNamed, Named, local
<1>3. AnswersTrue' /\ SyncedIsStored'
  BY <1>1 DEF Drop, IndInv, TypeOK, AnswersTrue, SyncedIsStored
<1>4. KeysNamed' /\ ErasedStaysErased'
  BY DEF Drop, IndInv, KeysNamed, ErasedStaysErased, local
<1> QED BY <1>2, <1>3, <1>4 DEF IndInv

\* The transport gives a request up.
LEMMA TimeoutInd == ASSUME IndInv, NEW c \in Requests, Timeout(c) PROVE IndInv'
<1>1. call' = [call EXCEPT ![c] = Abandoned(call[c])]
  BY DEF Timeout
<1>2. tomb' \in [generation : 0..MaxGen, due : BOOLEAN]
  BY DEF Timeout, BackOff, IndInv, TypeOK
<1>3. faults' \in 0..MaxFaults /\ spoiled' \in BOOLEAN
  BY ConstantsAssumption DEF Timeout, IndInv, TypeOK
<1>4. TypeOK' /\ BodiesNamed'
  BY <1>1, <1>2, <1>3, AbandonedTyped DEF Timeout, IndInv, TypeOK, BodiesNamed, Named, local
<1>5. AnswersTrue' /\ SyncedIsStored'
  BY <1>1, AbandonedTyped DEF Timeout, IndInv, TypeOK, AnswersTrue, SyncedIsStored
<1>6. KeysNamed' /\ ErasedStaysErased'
  BY DEF Timeout, IndInv, KeysNamed, ErasedStaysErased, local
<1> QED BY <1>4, <1>5, <1>6 DEF IndInv

\* The daemon dies; the keychain and the rows stay as they are.
LEMMA CrashInd == ASSUME IndInv, Crash PROVE IndInv'
<1>0. Dies /\ head' = head
  BY DEF Crash
<1>1. /\ call' \in [Requests -> Requested] /\ AnswersTrue'
      /\ \A c \in Requests : Named(call'[c].head)
  BY <1>0, DiesCalls
<1>a. spoiled' \in BOOLEAN /\ late' \in BOOLEAN
  BY <1>0 DEF Dies
<1>2. faults' \in 0..MaxFaults /\ capturing' \in 0..MaxGen /\ capturing' = 0
  BY <1>0, ConstantsAssumption DEF Dies, IndInv, TypeOK
<1>3. /\ st' \in Live \cup {"REVOKED", "DELETED"}
      /\ st' = "DELETED" => st = "DELETED"
  BY DEF Crash, IndInv, TypeOK, Live
<1>4. TypeOK'
  BY <1>a, <1>1, <1>2, <1>3 DEF Crash, IndInv, TypeOK
<1>5. BodiesNamed'
  BY <1>1 DEF Crash, IndInv, BodiesNamed, Named
<1>6. SyncedIsStored'
  BY DEF Crash, IndInv, SyncedIsStored
<1>7. KeysNamed' /\ ErasedStaysErased'
  BY <1>2, <1>3 DEF Crash, IndInv, KeysNamed, ErasedStaysErased
<1> QED BY <1>1, <1>4, <1>5, <1>6, <1>7 DEF IndInv

\* A request that ends is forgotten; the others keep their meaning.
LEMMA ForgetInd ==
    ASSUME IndInv, NEW c \in Requests, call' = [call EXCEPT ![c] = Idle], head' = head
    PROVE /\ call' \in [Requests -> Requested]
          /\ \A d \in Requests : Named(call'[d].head)
          /\ AnswersTrue'
<1>1. Idle \in Requested /\ Named(Idle.head) /\ Idle.kind = "none" /\ Idle.at = "client"
  BY AbandonedTyped
<1>2. \A d \in Requests : call'[d] = call[d] \/ call'[d] = Idle
  BY DEF IndInv, TypeOK
<1>3. call' \in [Requests -> Requested]
  BY <1>1 DEF IndInv, TypeOK
<1>4. \A d \in Requests : Named(call'[d].head)
  BY <1>1, <1>2 DEF IndInv, BodiesNamed
<1>5. AnswersTrue'
  BY <1>1, <1>2 DEF IndInv, AnswersTrue
<1> QED BY <1>3, <1>4, <1>5

\* The row written after an upload is behind the vault, however late.
LEMMA FinishUploadInd == ASSUME IndInv, NEW c \in Requests, FinishUpload(c) PROVE IndInv'
<1>1. /\ call' \in [Requests -> Requested] /\ AnswersTrue'
      /\ \A d \in Requests : Named(call'[d].head)
  BY ForgetInd DEF FinishUpload
<1>2. call[c] \in Requested /\ NoTomb \in [generation : 0..MaxGen, due : BOOLEAN]
  BY ConstantsAssumption DEF IndInv, TypeOK, NoTomb
<1>3. /\ sync' \in [known : BOOLEAN, etag : HeadOrNone, generation : 0..MaxGen, pending : BOOLEAN]
      /\ tomb' \in [generation : 0..MaxGen, due : BOOLEAN]
      /\ spoiled' \in BOOLEAN
  <2>1. CASE call[c].ok
    <3>1. /\ sync' = Synced(call[c].head, call[c].generation) /\ tomb' = NoTomb
          /\ spoiled' \in BOOLEAN
      BY <2>1 DEF FinishUpload
    <3>2. call[c].head \in HeadOrNone /\ call[c].generation \in 0..MaxGen
      BY <1>2 DEF Requested
    <3> QED BY <1>2, <3>1, <3>2 DEF Synced
  <2>2. CASE ~call[c].ok
    BY <2>2 DEF FinishUpload, IndInv, TypeOK
  <2> QED BY <2>1, <2>2
<1>4. TypeOK'
  BY <1>1, <1>3 DEF FinishUpload, IndInv, TypeOK, local
<1>5. BodiesNamed'
  BY <1>1 DEF FinishUpload, IndInv, BodiesNamed, Named, local
<1>6. SyncedIsStored'
  <2>1. CASE call[c].ok
    <3>1. sync'.generation = call[c].generation /\ head' = head
      BY <2>1 DEF FinishUpload, Synced
    <3>2. call[c].generation <= head.generation
      BY <2>1 DEF FinishUpload, IndInv, AnswersTrue
    <3> QED BY <3>1, <3>2 DEF SyncedIsStored
  <2>2. CASE ~call[c].ok
    BY <2>2 DEF FinishUpload, IndInv, SyncedIsStored
  <2> QED BY <2>1, <2>2
<1>7. KeysNamed' /\ ErasedStaysErased'
  BY DEF FinishUpload, IndInv, KeysNamed, ErasedStaysErased, local
<1> QED BY <1>1, <1>4, <1>5, <1>6, <1>7 DEF IndInv

\* A restore writes a live head under a key that is still there: of a deleted
\* session, whose keys are gone, it writes nothing.
LEMMA FinishRestoreInd == ASSUME IndInv, NEW c \in Requests, FinishRestore(c) PROVE IndInv'
<1> DEFINE h == call[c].head
<1>1. /\ call' \in [Requests -> Requested] /\ AnswersTrue'
      /\ \A d \in Requests : Named(call'[d].head)
  BY ForgetInd DEF FinishRestore
<1>2. CASE UNCHANGED <<snap, gen, meta, left, st, sync, spoiled>>
  <2>1. TypeOK' /\ BodiesNamed'
    BY <1>1, <1>2 DEF FinishRestore, IndInv, TypeOK, BodiesNamed, Named
  <2>2. SyncedIsStored' /\ KeysNamed' /\ ErasedStaysErased'
    BY <1>2 DEF FinishRestore, IndInv, SyncedIsStored, KeysNamed, ErasedStaysErased
  <2> QED BY <1>1, <2>1, <2>2 DEF IndInv
<1>3. CASE /\ Restorable(call[c])
           /\ snap' = [generation |-> h.generation, body |-> h.body]
           /\ gen' = h.generation
           /\ meta' = keyOf[h.body]
           /\ left' = left \cup ((keys \cap {meta}) \ {meta'})
           /\ st' = IF st = "NEEDS_LOGIN" THEN "DETACHED" ELSE st
           /\ sync' = Synced(h, h.generation)
           /\ spoiled' = (spoiled \/ h # head \/ gen > h.generation)
  <2>1. /\ h \in HeadOrNone /\ h.generation \in 0..MaxGen /\ h.body \in Capture
        /\ h.generation <= head.generation /\ keyOf[h.body] \in keys
    <3>1. call[c].ok /\ ~h.deleted /\ keyOf[h.body] \in keys
      BY <1>3 DEF Restorable
    <3>2. h # NoHead /\ h.generation <= head.generation
      BY <3>1 DEF FinishRestore, IndInv, AnswersTrue
    <3>3. h.body \in Capture
      BY <3>1, <3>2 DEF IndInv, BodiesNamed, Named
    <3>4. h \in HeadOrNone
      BY DEF IndInv, TypeOK, Requested
    <3>5. h.generation \in 0..MaxGen
      BY <3>2, <3>4 DEF HeadOrNone, NoHead, Vault!Head
    <3> QED BY <3>1, <3>2, <3>3, <3>4, <3>5
  <2>2. keyOf[h.body] \in Capture /\ keyOf[h.body] # None
    BY <2>1, ConstantsAssumption DEF IndInv, TypeOK
  <2>3. st = "DELETED" => keyOf[h.body] \in left
    BY <2>1 DEF IndInv, ErasedStaysErased
  <2> HIDE DEF h
  <2>4. /\ sync' \in [known : BOOLEAN, etag : HeadOrNone, generation : 0..MaxGen, pending : BOOLEAN]
        /\ sync'.generation = h.generation
    BY <1>3, <2>1 DEF Synced
  <2>5. TypeOK' /\ BodiesNamed'
    BY <1>1, <1>3, <2>1, <2>2, <2>4
    DEF FinishRestore, IndInv, TypeOK, BodiesNamed, Named, Live
  <2>6. SyncedIsStored'
    BY <2>1, <2>4 DEF FinishRestore, SyncedIsStored
  <2>7. KeysNamed' /\ ErasedStaysErased'
    BY <1>3, <2>1, <2>2, <2>3 DEF FinishRestore, IndInv, KeysNamed, ErasedStaysErased
  <2> QED BY <1>1, <2>5, <2>6, <2>7 DEF IndInv
<1> QED BY <1>2, <1>3 DEF FinishRestore

\* A flush that ends touches the outbox only.
LEMMA FinishFlushInd == ASSUME IndInv, NEW c \in Requests, FinishFlush(c) PROVE IndInv'
<1>1. /\ call' \in [Requests -> Requested] /\ AnswersTrue'
      /\ \A d \in Requests : Named(call'[d].head)
  BY ForgetInd DEF FinishFlush
<1>2. tomb' \in [generation : 0..MaxGen, due : BOOLEAN]
  <2>1. CASE call[c].ok
    <3>1. NoTomb \in [generation : 0..MaxGen, due : BOOLEAN]
      BY ConstantsAssumption DEF NoTomb
    <3> QED BY <2>1, <3>1 DEF FinishFlush
  <2>2. CASE ~call[c].ok
    <3>1. tomb' = [tomb EXCEPT !.due = FALSE]
      BY <2>2 DEF FinishFlush, BackOff
    <3> QED BY <3>1 DEF IndInv, TypeOK
  <2> QED BY <2>1, <2>2
<1>3. TypeOK' /\ BodiesNamed'
  BY <1>1, <1>2 DEF FinishFlush, IndInv, TypeOK, BodiesNamed, Named, local
<1>4. SyncedIsStored' /\ KeysNamed' /\ ErasedStaysErased'
  BY DEF FinishFlush, IndInv, SyncedIsStored, KeysNamed, ErasedStaysErased, local
<1> QED BY <1>1, <1>3, <1>4 DEF IndInv

\* A backoff that passes touches the outbox only.
LEMMA RetryDueInd == ASSUME IndInv, RetryDue PROVE IndInv'
<1>1. tomb' \in [generation : 0..MaxGen, due : BOOLEAN]
  BY DEF RetryDue, IndInv, TypeOK
<1> QED
  BY <1>1 DEF RetryDue, IndInv, TypeOK, BodiesNamed, Named, AnswersTrue, SyncedIsStored,
              KeysNamed, ErasedStaysErased, local

\* Every step of the client, of the vault and of the network keeps the invariant.
LEMMA StepInd == IndInv /\ [Next]_vars => IndInv'
<1> SUFFICES ASSUME IndInv, [Next]_vars PROVE IndInv'
  OBVIOUS
<1>1. CASE UNCHANGED vars
  BY <1>1 DEF vars, local, IndInv, TypeOK, BodiesNamed, Named, AnswersTrue, SyncedIsStored,
              KeysNamed, ErasedStaysErased
<1>2. CASE Next
  BY <1>2, MoveInd, ReviveInd, StartCaptureInd, FinishCaptureInd, VaultRotateInd, RevokeInd,
     DeleteSessionInd, StartUploadInd, StartRestoreInd, StartFlushInd, ServeInd, DropInd,
     TimeoutInd, FinishUploadInd, FinishRestoreInd, FinishFlushInd, CrashInd, RetryDueInd
  DEF Next, Finish, Live
<1> QED BY <1>1, <1>2

\* The inductive invariant holds in every reachable state.
LEMMA AlwaysInd == Spec => []IndInv
  BY InitInd, StepInd, PTL DEF Spec

\* The rows, the keys and the requests in flight keep their types (vaultSync,
\* flushOutbox, revoke, deleteSession).
THEOREM TypeCorrect == Spec => []TypeOK
<1>1. IndInv => TypeOK
  BY DEF IndInv
<1> QED BY <1>1, AlwaysInd, PTL

\* What vaultUpload and vaultRestore record as synced is in the vault, for any
\* number of requests in flight and however late or left their answers are.
THEOREM SyncedRowsAreStored == Spec => []SyncedIsStored
<1>1. IndInv => SyncedIsStored
  BY DEF IndInv
<1> QED BY <1>1, AlwaysInd, PTL

\* After deleteSession no copy of the login can be decrypted and none is stored
\* again, whatever captures, restores and rotations were in flight, but under a key
\* whose deletion failed silently or was not reached, or which a restore under such
\* a key took the name from (deleteSession, vaultRotate, vaultRestore).
THEOREM ErasedLoginsStay == Spec => []ErasedStaysErased
<1>1. IndInv => ErasedStaysErased
  BY DEF IndInv
<1> QED BY <1>1, AlwaysInd, PTL

-----------------------------------------------------------------------------
(* The tombstone.  While no race has spoilt it, the generation does not go   *)
(* back, so the tombstone that a revocation queues is ahead of the stored    *)
(* head and of every upload still under way; and the row names the stored    *)
(* head as soon as the upload that wrote it has been answered.               *)

\* What a request in flight may be: a PUT is an upload or carries a tombstone; one
\* that was accepted with a tombstone ended the session's copy; an upload of a live
\* snapshot was not given up, and is behind the session and the queued tombstone.
Fits(r, h, g, t, ended, spoilt) ==
    /\ r.at # "client" /\ r.kind # "restore" => r.kind = "upload" \/ r.head.deleted
    /\ r.at = "answered" /\ r.ok /\ r.kind # "restore" /\ r.head.deleted => h.deleted
    /\ UploadOfLive(r) /\ ~spoilt => /\ r.at # "abandoned"
                                     /\ r.head.generation <= g
                                     /\ ended /\ ~h.deleted => r.head.generation < t
RequestsFit ==
    \A c \in Requests : Fits(call[c], head, gen, tomb.generation, Ended, spoiled)

\* The stored head is behind the session and the queued tombstone.
HeadFits == ~spoiled /\ ~head.deleted => /\ head.generation <= gen
                                         /\ Ended => head.generation < tomb.generation

\* The upload that wrote the stored head, and has its answer.
Wrote(r) == r.kind = "upload" /\ r.at = "answered" /\ r.ok /\ r.head = head
RowFits == ~spoiled /\ HeadIsLive =>
              sync.etag = head \/ \E c \in Requests : Wrote(call[c])

FitInv == RequestsFit /\ HeadFits /\ RowFits

\* Numbers the argument compares, and flags it tests.
LEMMA HeadNumbers == \A h \in HeadOrNone : h.generation \in Nat /\ h.deleted \in BOOLEAN
<1> SUFFICES ASSUME NEW h \in HeadOrNone PROVE h.generation \in Nat /\ h.deleted \in BOOLEAN
  OBVIOUS
<1>1. CASE h = NoHead
  BY <1>1 DEF NoHead, Vault!NoHead
<1>2. CASE h \in Vault!Head
  BY <1>2, ConstantsAssumption DEF Vault!Head
<1> QED BY <1>1, <1>2 DEF HeadOrNone

\* The same of the variables.
LEMMA Numbers ==
    ASSUME IndInv
    PROVE  /\ gen \in Nat /\ tomb.generation \in Nat /\ spoiled \in BOOLEAN
           /\ head \in HeadOrNone /\ head.generation \in Nat /\ head.deleted \in BOOLEAN
           /\ call \in [Requests -> Requested]
           /\ \A c \in Requests : /\ call[c].head.generation \in Nat
                                  /\ call[c].head.deleted \in BOOLEAN
<1>2. /\ call \in [Requests -> Requested] /\ head \in HeadOrNone
      /\ \A c \in Requests : call[c].head \in HeadOrNone
  BY DEF IndInv, TypeOK, Requested
<1>3. gen \in Nat /\ tomb.generation \in Nat /\ spoiled \in BOOLEAN
  BY ConstantsAssumption DEF IndInv, TypeOK
<1> QED BY <1>2, <1>3, HeadNumbers

\* Nothing in flight is a request that fits.
LEMMA IdleFits ==
    ASSUME NEW h, NEW g, NEW t, NEW ended, NEW spoilt
    PROVE  Fits(Idle, h, g, t, ended, spoilt)
  BY DEF Fits, Idle, UploadOfLive

\* What a step has to show of the requests and of the head.
LEMMA FitStep ==
    ASSUME IndInv, IndInv', FitInv,
           head.deleted => head'.deleted, spoiled => spoiled',
           ~spoiled' => gen <= gen',
           ~spoiled' /\ Ended' /\ ~head'.deleted => Ended /\ tomb'.generation = tomb.generation,
           \A c \in Requests :
              \/ call'[c] = call[c] \/ call'[c] = Idle
              \/ Fits(call'[c], head', gen', tomb'.generation, Ended', spoiled')
    PROVE  /\ RequestsFit'
           /\ head' = head => HeadFits'
<1>0. gen' \in Nat /\ tomb'.generation \in Nat /\ spoiled' \in BOOLEAN
  BY ConstantsAssumption DEF IndInv, TypeOK
<1>1. /\ gen \in Nat /\ tomb.generation \in Nat /\ spoiled \in BOOLEAN
      /\ head.generation \in Nat /\ \A c \in Requests : call[c].head.generation \in Nat
  BY Numbers
<1>2. Ended \in BOOLEAN /\ Ended' \in BOOLEAN
  BY DEF Ended
<1>3. ASSUME NEW c \in Requests, call'[c] = call[c]
      PROVE  Fits(call'[c], head', gen', tomb'.generation, Ended', spoiled')
  <2>1. Fits(call[c], head, gen, tomb.generation, Ended, spoiled)
    BY DEF FitInv, RequestsFit
  <2> QED BY <1>0, <1>1, <1>2, <1>3, <2>1 DEF Fits
<1>4. RequestsFit'
  BY <1>3, IdleFits DEF RequestsFit
<1>5. head' = head => HeadFits'
  BY <1>0, <1>1 DEF FitInv, HeadFits
<1> QED BY <1>4, <1>5

\* What it has to show of the row.
LEMMA RowStep ==
    ASSUME FitInv, head' = head, spoiled => spoiled',
           ~spoiled' /\ HeadIsLive => /\ sync'.etag = sync.etag
                                     /\ \A c \in Requests : Wrote(call[c]) => call'[c] = call[c]
    PROVE  RowFits'
  BY DEF FitInv, RowFits, Wrote, HeadIsLive

\* The session's own steps: the generation moves forward, or the race is recorded.
LEMMA LocalFit ==
    ASSUME IndInv, IndInv', FitInv,
           \/ \E to \in Live : Move(to) \/ Revive(to)
           \/ StartCapture \/ FinishCapture \/ (VaultRotate /\ ~Dies)
           \/ DeleteSession \/ RetryDue
    PROVE  FitInv'
<1>1. gen \in Nat /\ gen' \in Nat
  BY ConstantsAssumption DEF IndInv, TypeOK
<1>2. head' = head /\ call' = call /\ sync' = sync
  BY DEF Move, Revive, StartCapture, FinishCapture, VaultRotate, DeleteSession, RetryDue, local
<1>3. spoiled => spoiled'
  BY DEF Move, Revive, StartCapture, FinishCapture, VaultRotate, DeleteSession, RetryDue, local
<1>4. Ended' => Ended
  BY DEF Move, Revive, StartCapture, FinishCapture, VaultRotate, DeleteSession, RetryDue, local,
         Ended, Live
<1>5. ~spoiled' => gen <= gen'
  <2>1. CASE FinishCapture
    <3>1. spoiled' = (spoiled \/ gen' < gen)
      BY <2>1 DEF FinishCapture
    <3>2. ~spoiled' => ~(gen' < gen)
      BY <3>1
    <3> QED BY <1>1, <3>2
  <2>2. CASE ~FinishCapture
    <3>1. gen' = gen \/ gen' = gen + 1
      BY <2>2 DEF Move, Revive, StartCapture, VaultRotate, DeleteSession, RetryDue, local
    <3> QED BY <1>1, <3>1
  <2> QED BY <2>1, <2>2
<1>6. tomb'.generation = tomb.generation
  BY DEF Move, Revive, StartCapture, FinishCapture, VaultRotate, DeleteSession, RetryDue, IndInv, TypeOK
<1>7. RequestsFit' /\ HeadFits'
  BY <1>2, <1>3, <1>4, <1>5, <1>6, FitStep
<1>8. RowFits'
  BY <1>2, <1>3, RowStep
<1> QED BY <1>7, <1>8 DEF FitInv

\* A revocation queues a tombstone ahead of everything.
LEMMA RevokeFit == ASSUME IndInv, IndInv', FitInv, Revoke PROVE FitInv'
<1>1. /\ gen \in Nat /\ head.generation \in Nat /\ spoiled \in BOOLEAN
      /\ \A c \in Requests : call[c].head.generation \in Nat
  BY Numbers
<1>2. /\ gen' = gen + 1 /\ tomb'.generation = gen + 1 /\ spoiled' = spoiled
      /\ head' = head /\ call' = call
  BY DEF Revoke
<1>3. sync'.etag = sync.etag
  BY DEF Revoke, IndInv, TypeOK
<1>4. ASSUME NEW c \in Requests
      PROVE  Fits(call'[c], head', gen', tomb'.generation, Ended', spoiled')
  <2>1. Fits(call[c], head, gen, tomb.generation, Ended, spoiled)
    BY DEF FitInv, RequestsFit
  <2> QED BY <1>1, <1>2, <2>1 DEF Fits
<1>5. RequestsFit' /\ HeadFits'
  BY <1>1, <1>2, <1>4 DEF RequestsFit, FitInv, HeadFits
<1>6. RowFits'
  BY <1>2, <1>3, RowStep
<1> QED BY <1>5, <1>6 DEF FitInv

\* A request that is sent carries a tombstone, or the snapshot of a live session.
LEMMA StartFit ==
    ASSUME IndInv, IndInv', FitInv, NEW c \in Requests,
           StartUpload(c) \/ StartRestore(c) \/ StartFlush(c)
    PROVE  FitInv'
<1>1. /\ gen \in Nat /\ call \in [Requests -> Requested]
  BY Numbers
<1>2. /\ head' = head /\ sync' = sync /\ tomb' = tomb /\ spoiled' = spoiled /\ gen' = gen
      /\ st' = st /\ call[c].at = "client"
  BY DEF StartUpload, StartRestore, StartFlush, local, Idle
<1> DEFINE live == [generation |-> gen, deleted |-> FALSE, body |-> snap.body]
           sent(kind, g, expected, new) == [kind |-> kind, at |-> "sent", generation |-> g,
                                            expected |-> expected, head |-> new, ok |-> FALSE]
<1>3. \/ call' = [call EXCEPT ![c] = sent("upload", gen, sync.etag, Tombstone(gen))]
      \/ st \in Live /\ call' = [call EXCEPT ![c] = sent("upload", gen, sync.etag, live)]
      \/ call' = [call EXCEPT ![c] = sent("restore", gen, NoHead, NoHead)]
      \/ call' = [call EXCEPT ![c] = sent("flush", 0, sync.etag, Tombstone(tomb.generation))]
  BY DEF StartUpload, StartRestore, StartFlush, Send
<1>4. /\ \A g : Tombstone(g).deleted
      /\ live.generation = gen
  BY DEF Tombstone
<1> HIDE DEF live
<1>5. st \in Live => ~Ended
  BY DEF Live, Ended
<1>6. Fits(call'[c], head', gen', tomb'.generation, Ended', spoiled')
  BY <1>1, <1>2, <1>3, <1>4, <1>5 DEF Fits, UploadOfLive, Ended
<1>7. \A d \in Requests \ {c} : call'[d] = call[d]
  BY <1>1, <1>3
<1>8. RequestsFit' /\ HeadFits'
  BY <1>1, <1>2, <1>6, <1>7, FitStep DEF Ended
<1>9. RowFits'
  BY <1>2, <1>7, RowStep DEF Wrote
<1> QED BY <1>8, <1>9 DEF FitInv

\* The vault: a tombstone is never replaced, and who wrote a live head is answered.
LEMMA ServeFit == ASSUME IndInv, IndInv', FitInv, NEW c \in Requests, Serve(c) PROVE FitInv'
<1> DEFINE r == call[c]
           put == r.kind # "restore"
           answer == IF put THEN r.head ELSE head
           q(ok) == [r EXCEPT !.at = "answered", !.head = answer, !.ok = ok]
<1>1. PICK ok \in BOOLEAN :
            /\ ok /\ put => Vault!Accepts(head, r.expected, r.head)
            /\ head' = IF put /\ ok THEN r.head ELSE head
            /\ call' = [call EXCEPT ![c] = IF r.at = "abandoned" THEN Idle ELSE q(ok)]
  BY DEF Serve
<1>2. /\ sync' = sync /\ tomb' = tomb /\ spoiled' = spoiled /\ gen' = gen /\ st' = st
      /\ r.at \in {"sent", "abandoned"}
  BY DEF Serve, local
<1>3. /\ gen \in Nat /\ call \in [Requests -> Requested] /\ r \in Requested
      /\ head.deleted \in BOOLEAN /\ r.head.generation \in Nat /\ tomb.generation \in Nat
      /\ r.head.deleted \in BOOLEAN /\ spoiled \in BOOLEAN /\ head.generation \in Nat
  BY Numbers
<1>4. Fits(r, head, gen, tomb.generation, Ended, spoiled)
  BY DEF FitInv, RequestsFit
<1>5. head.deleted => head'.deleted
  BY <1>1 DEF Vault!Accepts
<1>6. q(ok).kind = r.kind /\ q(ok).at = "answered" /\ q(ok).ok = ok /\ q(ok).head = answer
  BY <1>3 DEF Requested
<1>7. \A d \in Requests \ {c} : call'[d] = call[d]
  BY <1>1, <1>3
<1>8. call'[c] = IF r.at = "abandoned" THEN Idle ELSE q(ok)
  BY <1>1, <1>3
<1> HIDE DEF q
<1>9. Fits(q(ok), head', gen', tomb'.generation, Ended', spoiled')
  BY <1>1, <1>2, <1>3, <1>4, <1>5, <1>6 DEF Fits, UploadOfLive, Ended
<1>10. RequestsFit' /\ (head' = head => HeadFits')
  BY <1>2, <1>3, <1>5, <1>7, <1>8, <1>9, FitStep DEF Ended
<1>11. CASE put /\ ok
  <2>1. head' = r.head
    BY <1>1, <1>11
  <2>2. CASE r.head.deleted
    BY <1>10, <2>1, <2>2 DEF FitInv, HeadFits, RowFits, HeadIsLive
  <2>3. CASE ~r.head.deleted
    <3>1. UploadOfLive(r)
      BY <1>2, <1>4, <1>11, <2>3 DEF Fits, UploadOfLive
    <3>2. ~head.deleted
      BY <1>5, <2>1, <2>3
    <3>3. HeadFits'
      BY <1>2, <1>3, <1>4, <2>1, <3>1, <3>2 DEF HeadFits, Fits, Ended
    <3>4. ~spoiled => call'[c] = q(ok)
      BY <1>4, <1>8, <3>1 DEF Fits
    <3>5. ~spoiled => Wrote(call[c])'
      BY <1>6, <1>11, <2>1, <3>1, <3>4 DEF Wrote, UploadOfLive
    <3>6. RowFits'
      BY <1>2, <3>5 DEF RowFits
    <3> QED BY <1>10, <3>3, <3>6 DEF FitInv
  <2> QED BY <1>3, <2>2, <2>3
<1>12. CASE ~(put /\ ok)
  <2>1. head' = head
    BY <1>1, <1>12
  <2>2. ~Wrote(call[c])
    BY <1>2 DEF Wrote
  <2>3. RowFits'
    BY <1>2, <1>7, <2>1, <2>2, RowStep
  <2> QED BY <1>10, <2>1, <2>3 DEF FitInv
<1> QED BY <1>11, <1>12

\* Giving up an upload of a live snapshot spoils the tombstone; giving up anything
\* else, or losing it on the way, does not.
LEMMA AbandonedFits ==
    ASSUME IndInv, NEW c \in Requests, NEW h, NEW g, NEW t, NEW ended,
           Fits(call[c], h, g, t, ended, spoiled)
    PROVE  /\ Fits(Abandoned(call[c]), h, g, t, ended, TRUE)
           /\ ~UploadOfLive(call[c]) => Fits(Abandoned(call[c]), h, g, t, ended, spoiled)
<1>1. call[c] \in Requested
  BY Numbers
<1> DEFINE q == [call[c] EXCEPT !.at = "abandoned"]
<1>2. q.at = "abandoned" /\ q.kind = call[c].kind /\ q.head = call[c].head
  BY <1>1 DEF Requested
<1>3. \/ call[c].at = "sent" /\ Abandoned(call[c]) = q
      \/ Abandoned(call[c]) = Idle
      \/ Abandoned(call[c]) = call[c] /\ call[c].at # "sent"
  BY DEF Abandoned
<1> HIDE DEF q
<1> QED BY <1>2, <1>3, IdleFits DEF Fits, UploadOfLive

\* A request that the network drops was given up before: nothing is left with it.
LEMMA DropFit == ASSUME IndInv, IndInv', FitInv, NEW c \in Requests, Drop(c) PROVE FitInv'
<1>1. gen \in Nat /\ call \in [Requests -> Requested]
  BY Numbers
<1>2. /\ head' = head /\ sync' = sync /\ tomb' = tomb /\ spoiled' = spoiled /\ gen' = gen
      /\ st' = st /\ call[c].at = "abandoned"
  BY DEF Drop, local
<1>3. call'[c] = Idle /\ \A d \in Requests \ {c} : call'[d] = call[d]
  BY <1>1 DEF Drop
<1>4. RequestsFit' /\ HeadFits'
  BY <1>1, <1>2, <1>3, FitStep DEF Ended
<1>5. RowFits'
  BY <1>2, <1>3, RowStep DEF Wrote
<1> QED BY <1>4, <1>5 DEF FitInv

\* Who wrote a live head uploads a live snapshot.
LEMMA WroteLive ==
    ASSUME NEW c \in Requests, HeadIsLive, Wrote(call[c])
    PROVE  UploadOfLive(call[c])
  BY DEF HeadIsLive, Wrote, UploadOfLive

\* A timeout of an upload is the race the tombstone may not survive; the timeout of
\* a flush leaves the tombstone queued.
LEMMA TimeoutFit == ASSUME IndInv, IndInv', FitInv, NEW c \in Requests, Timeout(c) PROVE FitInv'
<1>1. gen \in Nat /\ call \in [Requests -> Requested] /\ spoiled \in BOOLEAN
  BY Numbers
<1>2. /\ head' = head /\ sync' = sync /\ gen' = gen /\ st' = st
      /\ spoiled' = (spoiled \/ UploadOfLive(call[c]))
  BY DEF Timeout, local
<1>3. tomb'.generation = tomb.generation
  BY DEF Timeout, BackOff, IndInv, TypeOK
<1>4. call'[c] = Abandoned(call[c]) /\ \A d \in Requests \ {c} : call'[d] = call[d]
  BY <1>1 DEF Timeout
<1>5. Fits(call[c], head, gen, tomb.generation, Ended, spoiled)
  BY DEF FitInv, RequestsFit
<1>6. Fits(Abandoned(call[c]), head, gen, tomb.generation, Ended, spoiled')
  <2>1. CASE UploadOfLive(call[c])
    <3>1. spoiled' = TRUE
      BY <1>2, <2>1
    <3> QED BY <1>5, <3>1, AbandonedFits
  <2>2. CASE ~UploadOfLive(call[c])
    <3>1. spoiled' = spoiled
      BY <1>1, <1>2, <2>2
    <3> QED BY <1>5, <2>2, <3>1, AbandonedFits
  <2> QED BY <2>1, <2>2
<1>7. Fits(call'[c], head', gen', tomb'.generation, Ended', spoiled')
  BY <1>2, <1>3, <1>4, <1>6 DEF Ended
<1>8. spoiled => spoiled'
  BY <1>2
<1>9. RequestsFit' /\ HeadFits'
  BY <1>1, <1>2, <1>3, <1>4, <1>7, <1>8, FitStep DEF Ended
<1>10. ~spoiled' /\ HeadIsLive => ~Wrote(call[c])
  BY <1>2, WroteLive
<1>11. RowFits'
  BY <1>2, <1>4, <1>8, <1>10, RowStep
<1> QED BY <1>9, <1>11 DEF FitInv

\* A death gives up everything at once, also that of a rotation.
LEMMA DiesFit ==
    ASSUME IndInv, IndInv', FitInv, Dies, Crash \/ VaultRotate
    PROVE  FitInv'
<1>1. gen \in Nat /\ call \in [Requests -> Requested] /\ spoiled \in BOOLEAN
  BY Numbers
<1>2. /\ head' = head /\ sync' = sync /\ (gen' = gen \/ gen' = gen + 1) /\ tomb' = tomb
  BY DEF Crash, VaultRotate
<1>a. spoiled' = (spoiled \/ \E c \in Requests : UploadOfLive(call[c]))
  BY DEF Dies
<1>3. Ended' = Ended
  BY DEF Crash, VaultRotate, Ended
<1>4. \A c \in Requests : call'[c] = Abandoned(call[c])
  BY DEF Dies
<1>5. ASSUME NEW c \in Requests
      PROVE  Fits(call'[c], head', gen', tomb'.generation, Ended', spoiled')
  <2>1. Fits(call[c], head, gen, tomb.generation, Ended, spoiled)
    BY DEF FitInv, RequestsFit
  <2>2. Fits(Abandoned(call[c]), head, gen, tomb.generation, Ended, spoiled')
    <3>1. CASE spoiled' = TRUE
      BY <2>1, <3>1, AbandonedFits
    <3>2. CASE spoiled' # TRUE
      <4>1. spoiled' = spoiled /\ ~UploadOfLive(call[c])
        BY <1>1, <1>a, <3>2
      <4> QED BY <2>1, <4>1, AbandonedFits
    <3> QED BY <3>1, <3>2
  <2>3. /\ Abandoned(call[c]).head.generation \in Nat /\ tomb'.generation = tomb.generation
        /\ head' = head
    <3>1. Abandoned(call[c]) \in Requested
      BY AbandonedTyped
    <3> QED BY <1>2, <3>1, HeadNumbers DEF Requested
  <2> QED BY <1>1, <1>2, <1>3, <1>4, <2>2, <2>3 DEF Fits
<1>6. spoiled => spoiled'
  BY <1>a
<1>7. RequestsFit' /\ HeadFits'
  BY <1>1, <1>2, <1>3, <1>5, <1>6, FitStep
<1>8. ~spoiled' /\ HeadIsLive => \A c \in Requests : ~Wrote(call[c])
  BY <1>a, WroteLive
<1>9. RowFits'
  BY <1>2, <1>6, <1>8, RowStep
<1> QED BY <1>7, <1>9 DEF FitInv

\* An upload that was accepted and is still the head fixes the row; it deletes a
\* queued tombstone only when the vault holds one, or else the race is recorded.
LEMMA FinishUploadFit ==
    ASSUME IndInv, IndInv', FitInv, NEW c \in Requests, FinishUpload(c)
    PROVE  FitInv'
<1>1. gen \in Nat /\ call \in [Requests -> Requested] /\ spoiled \in BOOLEAN
  BY Numbers
<1>2. head' = head /\ gen' = gen /\ st' = st /\ call[c].kind = "upload"
  BY DEF FinishUpload, local
<1>3. call'[c] = Idle /\ \A d \in Requests \ {c} : call'[d] = call[d]
  BY <1>1 DEF FinishUpload
<1>4. CASE call[c].ok
  <2>1. /\ sync'.etag = call[c].head /\ tomb' = NoTomb
        /\ spoiled' = (spoiled \/ call[c].head # head \/ (tomb # NoTomb /\ UploadOfLive(call[c])))
    BY <1>4 DEF FinishUpload, Synced
  <2>2. /\ spoiled => spoiled'
        /\ ~spoiled' => call[c].head = head /\ (tomb = NoTomb \/ ~UploadOfLive(call[c]))
    BY <2>1
  <2>3. ~spoiled' /\ ~head'.deleted => tomb' = tomb
    BY <1>2, <2>1, <2>2 DEF UploadOfLive
  <2>4. RequestsFit' /\ HeadFits'
    BY <1>1, <1>2, <1>3, <2>2, <2>3, FitStep DEF Ended
  <2>5. RowFits'
    BY <1>2, <2>1, <2>2 DEF RowFits
  <2> QED BY <2>4, <2>5 DEF FitInv
<1>5. CASE ~call[c].ok
  <2>1. sync' = sync /\ tomb' = tomb /\ spoiled' = spoiled
    BY <1>5 DEF FinishUpload
  <2>2. RequestsFit' /\ HeadFits'
    BY <1>1, <1>2, <1>3, <2>1, FitStep DEF Ended
  <2>3. RowFits'
    BY <1>2, <1>3, <1>5, <2>1, RowStep DEF Wrote
  <2> QED BY <2>2, <2>3 DEF FitInv
<1> QED BY <1>4, <1>5

\* A restore of the head that is still stored fixes the row too, and takes the
\* generation forward.
LEMMA FinishRestoreFit ==
    ASSUME IndInv, IndInv', FitInv, NEW c \in Requests, FinishRestore(c)
    PROVE  FitInv'
<1>1. /\ gen \in Nat /\ call \in [Requests -> Requested] /\ spoiled \in BOOLEAN
      /\ call[c].head.generation \in Nat
  BY Numbers
<1>2. head' = head /\ tomb' = tomb /\ call[c].kind = "restore" /\ (Ended' => Ended)
  BY DEF FinishRestore, Ended
<1>3. call'[c] = Idle /\ \A d \in Requests \ {c} : call'[d] = call[d]
  BY <1>1 DEF FinishRestore
<1>4. CASE UNCHANGED <<snap, gen, meta, left, st, sync, spoiled>>
  <2>1. RequestsFit' /\ HeadFits'
    BY <1>1, <1>2, <1>3, <1>4, FitStep
  <2>2. RowFits'
    BY <1>2, <1>3, <1>4, RowStep DEF Wrote
  <2> QED BY <2>1, <2>2 DEF FitInv
<1>5. CASE ~UNCHANGED <<snap, gen, meta, left, st, sync, spoiled>>
  <2>1. /\ gen' = call[c].head.generation /\ sync'.etag = call[c].head
        /\ spoiled' = (spoiled \/ call[c].head # head \/ gen > call[c].head.generation)
    BY <1>5 DEF FinishRestore, Synced
  <2>2. /\ spoiled => spoiled'
        /\ ~spoiled' => call[c].head = head /\ ~(gen > call[c].head.generation)
    BY <2>1
  <2>3. ~spoiled' => gen <= gen'
    BY <1>1, <2>1, <2>2
  <2>4. RequestsFit' /\ HeadFits'
    BY <1>2, <1>3, <2>2, <2>3, FitStep
  <2>5. RowFits'
    BY <1>2, <2>1, <2>2 DEF RowFits
  <2> QED BY <2>4, <2>5 DEF FitInv
<1> QED BY <1>4, <1>5

\* A flush takes its row from the outbox only when the vault holds a tombstone.
LEMMA FinishFlushFit ==
    ASSUME IndInv, IndInv', FitInv, NEW c \in Requests, FinishFlush(c)
    PROVE  FitInv'
<1>1. gen \in Nat /\ call \in [Requests -> Requested]
  BY Numbers
<1>2. /\ head' = head /\ sync' = sync /\ gen' = gen /\ st' = st /\ spoiled' = spoiled
      /\ call[c].kind = "flush" /\ call[c].at = "answered"
  BY DEF FinishFlush, local
<1>3. call'[c] = Idle /\ \A d \in Requests \ {c} : call'[d] = call[d]
  BY <1>1 DEF FinishFlush
<1>4. Fits(call[c], head, gen, tomb.generation, Ended, spoiled)
  BY DEF FitInv, RequestsFit
<1>5. ~head.deleted => tomb'.generation = tomb.generation
  <2>1. CASE call[c].ok
    BY <1>2, <1>4, <2>1 DEF Fits
  <2>2. CASE ~call[c].ok
    BY <2>2 DEF FinishFlush, BackOff, IndInv, TypeOK
  <2> QED BY <2>1, <2>2
<1>6. RequestsFit' /\ HeadFits'
  BY <1>1, <1>2, <1>3, <1>5, FitStep DEF Ended
<1>7. RowFits'
  BY <1>2, <1>3, RowStep DEF Wrote
<1> QED BY <1>6, <1>7 DEF FitInv

\* Nothing is stored and nothing is in flight.
LEMMA InitFit == Init => FitInv
<1> SUFFICES ASSUME Init PROVE FitInv
  OBVIOUS
<1>1. RequestsFit
  BY IdleFits DEF Init, RequestsFit
<1>2. NoHead.generation = 0 /\ ~Ended /\ ~HeadIsLive /\ head = NoHead /\ gen = 0
  BY DEF Init, NoHead, Vault!NoHead, Ended, HeadIsLive
<1>3. HeadFits /\ RowFits
  BY <1>2 DEF HeadFits, RowFits
<1> QED BY <1>1, <1>3 DEF FitInv

\* Every step keeps requests, head and row as the tombstone needs them.
LEMMA StepFit == IndInv /\ FitInv /\ [Next]_vars => FitInv'
<1> SUFFICES ASSUME IndInv, FitInv, [Next]_vars PROVE FitInv'
  OBVIOUS
<1>1. IndInv'
  BY StepInd
<1>2. CASE UNCHANGED vars
  BY <1>2 DEF vars, local, FitInv, RequestsFit, Fits, UploadOfLive, HeadFits, RowFits, Wrote,
              HeadIsLive, Ended
<1>3. CASE Next
  <2>1. CASE \/ \E to \in Live : Move(to) \/ Revive(to)
             \/ StartCapture \/ FinishCapture \/ (VaultRotate /\ ~Dies)
             \/ DeleteSession \/ RetryDue
    BY <1>1, <2>1, LocalFit
  <2>2. CASE Revoke
    BY <1>1, <2>2, RevokeFit
  <2>3. CASE \E c \in Requests : StartUpload(c) \/ StartRestore(c) \/ StartFlush(c)
    BY <1>1, <2>3, StartFit
  <2>4. CASE \E c \in Requests : Serve(c) \/ Drop(c) \/ Timeout(c)
    BY <1>1, <2>4, ServeFit, DropFit, TimeoutFit
  <2>5. CASE \E c \in Requests : FinishUpload(c) \/ FinishRestore(c) \/ FinishFlush(c)
    BY <1>1, <2>5, FinishUploadFit, FinishRestoreFit, FinishFlushFit
  <2>6. CASE Crash \/ (VaultRotate /\ Dies)
    BY <1>1, <2>6, DiesFit DEF Crash
  <2> QED BY <1>3, <2>1, <2>2, <2>3, <2>4, <2>5, <2>6 DEF Next, Finish, Live, Requests
<1> QED BY <1>2, <1>3

\* Both invariants hold in every reachable state.
LEMMA AlwaysFit == Spec => [](IndInv /\ FitInv)
  BY InitInd, InitFit, StepInd, StepFit, PTL DEF Spec

\* A revoked or deleted session whose copy in the vault is alive has a tombstone in
\* the outbox that the vault will take (revoke, enqueueTombstone, flushOutbox), for
\* any number of requests, captures and faults, unless a race named in spoiled came.
THEOREM TombstonesFit == Spec => []TombstoneFits
<1>1. IndInv /\ FitInv => TombstoneFits
  BY DEF FitInv, HeadFits, RowFits, Wrote, HeadIsLive, TombstoneFits
<1> QED BY <1>1, AlwaysFit, PTL
=============================================================================

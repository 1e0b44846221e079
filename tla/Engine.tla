------------------------------- MODULE Engine -------------------------------
(***************************************************************************)
(* The session engine of src/engine.ts for one session.  The daemon is one *)
(* Node process: a handler runs without interruption up to its next await, *)
(* so each action below is one such turn.  What a handler does after an    *)
(* await is a task: the values it read before are kept in the task record, *)
(* and any other handler, timer, or the death of the process may come in   *)
(* between.  A call that a guard refuses answers an error; apart from the  *)
(* timers it may have run first (Timers) it changes nothing.               *)
(***************************************************************************)
EXTENDS Reducer

CONSTANTS Slot,       \* bound: asynchronous continuations in flight
          MaxFence, MaxGen, MaxPolicy,
          MaxCrash,   \* bound: times the daemon dies or is stopped
          Answers,    \* what a probe or a response may be observed to be
          Deadlines   \* the deadlines the clock may pass

ASSUME AnswersAssumption == Answers \subseteq Observation
ASSUME DeadlinesAssumption ==
    Deadlines \subseteq {"lease", "retry", "wait", "card", "snapshot", "consent",
                         "probes", "handoffs", "calm"}

VARIABLES db,         \* durable state and the in-memory context map
          task,       \* the continuations in flight
          openTask,   \* handoffOpenTasks: the slot of the pending open, or "done"
          mode,       \* whether the daemon serves requests
          crashes,    \* bound counter
          effects     \* history: times the adapter was asked to perform each operation

vars == <<db, task, openTask, mode, crashes, effects>>

TaskKind == {"idle", "attachOpen", "attachProbe", "step", "dispatch", "capture",
             "detach", "recoverOpen", "recoverProbe", "human", "handoffWait",
             "handoffProbe", "verify"}

\* fence, policy and gen are what the handler read before it yielded; `next` is
\* what its tail does: detach after a checkpoint, or the final event of a
\* verification; `waits` is the slot whose end the task awaits.
Task == [kind : TaskKind, fence : Nat, policy : Nat, gen : Nat,
         op : Op \cup {"none"}, card : 0..MaxCards,
         next : {"none", "detach", "attach.verified", "handoff.completed"},
         waits : Slot \cup {"none"}]

Idle == [kind |-> "idle", fence |-> 0, policy |-> 0, gen |-> 0, op |-> "none",
         card |-> 0, next |-> "none", waits |-> "none"]

TypeOK ==
    /\ db \in DB
    /\ task \in [Slot -> Task]
    /\ openTask \in Slot \cup {"none", "done"}
    /\ mode \in {"serving", "stopping", "closed", "down"}
    /\ crashes \in Nat
    /\ effects \in [Op -> Nat]

Init ==
    /\ db = EmptyDB
    /\ task = [t \in Slot |-> Idle]
    /\ openTask = "none"
    /\ mode = "serving"
    /\ crashes = 0
    /\ effects = [o \in Op |-> 0]

\* One turn that leaves the engine in state d; one that also starts, continues
\* or ends the task in slot t.
Turn(d) == db' = d /\ UNCHANGED <<task, openTask, mode, crashes, effects>>
Become(t, d, k) == /\ db' = d
                   /\ task' = [task EXCEPT ![t] = k]
                   /\ UNCHANGED <<openTask, mode, crashes, effects>>
End(t, d) == Become(t, d, Idle)

\* gateOk: requests are served.  Free(t): there is room for one more task.
Serving == mode = "serving"
Free(t) == task[t].kind = "idle"
Runs(t, kind) == mode # "down" /\ task[t].kind = kind

-----------------------------------------------------------------------------
(* Sites and the session's life. *)

\* putSite with the next policy revision: every session of the site that is not
\* terminal goes back to login, and its card is cancelled.
PutSite ==
    /\ Serving
    /\ db.policy < MaxPolicy
    /\ LET n == [db EXCEPT !.policy = @ + 1, !.consentDue = FALSE]
       IN Turn(IF n.state \in TerminalStates \cup {"NONE"} THEN n
               ELSE IF n.state = "UNCERTAIN" THEN CommitEvent(n, "policy.changed", "UNCERTAIN")
               ELSE CancelCard(CommitEvent(n, "policy.changed", "NEEDS_LOGIN")))

CreateSession ==
    /\ Serving
    /\ db.state = "NONE"
    /\ ~db.consentDue
    /\ LET created == CommitEvent(db, "session.created", "NEEDS_LOGIN")
       IN  IF CanCard(created)
           THEN CardRoom(created) /\ Turn(AddCard(CommitEvent(created, "handoff.created", "HANDOFF_WAIT")))
           ELSE Turn(created)

Revoke ==
    /\ Serving
    /\ LET k == Tick(db)
       IN /\ k.state \in LiveStates
          /\ k.generation < MaxGen
          /\ Turn(CancelCard(CommitEvent([k EXCEPT !.generation = @ + 1],
                                         "session.revoked", "REVOKED")))

\* deleteSession erases the cipher and the session's encryption key.
DeleteSession ==
    /\ Serving
    /\ LET k == Tick(db)
       IN /\ k.state = "REVOKED"
          /\ Turn([CommitEvent(k, "session.deleted", "DELETED") EXCEPT
                    !.snap = NoSnapshot,
                    !.key = IF @ = "present" THEN "erased" ELSE @])

\* vaultRotate: a new key and generation for the stored snapshot, in one turn.
VaultRotate ==
    /\ Serving
    /\ LET k == Tick(db)
       IN /\ k.state = "DETACHED"
          /\ Eligible(k)
          /\ RestoreError(k) = "OK"
          /\ k.generation < MaxGen
          /\ LET g == k.generation + 1
                 stored == [k EXCEPT !.snap.generation = g, !.generation = g]
             IN Turn(CommitEvent(CommitEvent(stored, "snapshot.committed", "DETACHED"),
                                 "key.rotated", "DETACHED"))

-----------------------------------------------------------------------------
(* The runner: attach, renew, step, checkpoint, detach. *)

\* attach, and the part of finishAttach before its first await.  `tampered`:
\* the stored cipher does not authenticate.
Attach(t) ==
    /\ Serving /\ Free(t)
    /\ db.fence + 2 <= MaxFence
    /\ \E tampered \in BOOLEAN :
       LET k == Tick(db)
           leased == [k EXCEPT !.fence = @ + 1, !.verification = "attach",
                               !.lease = [fence |-> k.fence + 1, due |-> FALSE]]
           d == CommitEvent(leased, "lease.acquired", "ATTACHING")
           error == IF tampered THEN "INTEGRITY_FAILED" ELSE RestoreError(d)
       IN /\ k.state = "DETACHED"
          /\ k.lease = NoLease \/ k.lease.due
          /\ Eligible(k)
          /\ ~k.budget.wait
          /\ IF error = "OK"
             THEN Become(t, d, [Idle EXCEPT !.kind = "attachOpen", !.fence = d.fence,
                                            !.policy = d.policy])
             ELSE Turn(FailVerification(d, d.fence, error))

\* openContext resolved: the context is entered in the map, whoever owns the
\* session by now.
ContextOpened(t) ==
    \/ /\ Runs(t, "attachOpen")
       /\ Become(t, [db EXCEPT !.ctx = "attach"], [task[t] EXCEPT !.kind = "attachProbe"])
    \/ /\ Runs(t, "recoverOpen")
       /\ Become(t, [db EXCEPT !.ctx = "recovery"], [task[t] EXCEPT !.kind = "recoverProbe"])

\* The adapter threw in openContext, restore or probe.
VerificationThrows(t) ==
    /\ \E kind \in {"attachOpen", "attachProbe", "recoverOpen", "recoverProbe", "handoffProbe"} :
            Runs(t, kind)
    /\ End(t, FailVerification(db, task[t].fence, "INTERNAL"))

\* The transaction at the end of finishAttach.
FinishAttach(t) ==
    /\ Runs(t, "attachProbe")
    /\ \E obs \in Answers :
       LET d == Review(db, obs)
           reset == IF d.budget.calm
                    THEN [d EXCEPT !.budget.attempts = 0, !.budget.fallback = FALSE,
                                   !.budget.manual = FALSE]
                    ELSE d
           failed == [d EXCEPT !.ctx = "none"]
           seen == [obs EXCEPT !.class = IF @ = "verified" THEN "review" ELSE @]
       IN  IF db.state # "ATTACHING" \/ db.fence # task[t].fence THEN End(t, db)
           ELSE IF obs.class = "verified" /\ db.policy = task[t].policy
           THEN End(t, [CommitEvent(reset, "attach.verified", "ACTIVE") EXCEPT
                          !.verification = "none"])
           ELSE Bounded(db, obs) /\ End(t, CommitBlockDetected(failed, seen, FALSE))

\* renew, step, checkpoint and detach all check the lease before the timers run
\* and commit lease.expired themselves.
ExpireOnUse ==
    /\ Serving
    /\ LeaseDue(db)
    /\ Turn(CommitEvent(db, "lease.expired", "DETACHED"))

\* A runner call gets past the fence, the timers and the state gate: it presents
\* the current lease in one of the states allowed to it.
Holds(states) == /\ Serving
                 /\ Tick(db) = db
                 /\ db.state \in states
                 /\ db.lease # NoLease

Renew ==
    /\ Holds({"ATTACHING", "ACTIVE"})
    /\ Turn(CommitEvent([db EXCEPT !.lease.due = FALSE], "lease.renewed", db.state))

\* Mutant: a repeat of an operation whose outcome is unknown counts as new.
NewOperationRetried(o) == db.ops[o] \in {"none", "UNKNOWN"}

\* opRow finds no row for the operation id.
NewOperation(o) == db.ops[o] = "none"

\* step up to its first await: a repeated operation id is answered from its row,
\* a new one takes the slot, or is denied by validateAction.
Step(t, o) ==
    /\ Holds({"ACTIVE"}) /\ Free(t)
    /\ NewOperation(o)
    /\ db.activeOp = "none"
    /\ \/ Turn([CommitEvent(db, "action.denied", "ACTIVE") EXCEPT !.ops[o] = "DENIED"])
       \/ Become(t, [CommitEvent(db, "action.intent", "ACTIVE") EXCEPT
                        !.ops[o] = "PREPARED", !.activeOp = o, !.dispatched = FALSE],
                 [Idle EXCEPT !.kind = "step", !.op = o, !.fence = db.fence,
                              !.policy = db.policy])

\* The recheck that precedes dispatch.
StillHeld(k) == /\ db.state = "ACTIVE"
                /\ db.fence = k.fence
                /\ db.activeOp = k.op
                /\ db.policy = k.policy
                /\ db.lease # NoLease
                /\ ~db.lease.due

StepDispatch(t) ==
    /\ Runs(t, "step")
    /\ LET k == task[t]
           o == k.op
       IN \/ /\ ~StillHeld(k)
             /\ End(t, [CommitEvent(db, "action.denied", db.state) EXCEPT
                          !.ops[o] = "DENIED", !.activeOp = "none", !.dispatched = FALSE])
          \/ /\ StillHeld(k)
             /\ db' = [db EXCEPT !.ops[o] = "DISPATCHED", !.dispatched = TRUE]
             /\ IF db.ctx = "none"     \* INTERNAL: nothing to dispatch in
                THEN task' = [task EXCEPT ![t] = Idle] /\ UNCHANGED effects
                ELSE /\ task' = [task EXCEPT ![t].kind = "dispatch"]
                     /\ effects' = [effects EXCEPT ![o] = @ + 1]
             /\ UNCHANGED <<openTask, mode, crashes>>

\* Mutant: the slot is not released.
FinishKeepsSlot(d, o, result) == [d EXCEPT !.ops[o] = result]

\* finish: the operation's row gets its result and the slot is released.
Finish(d, o, result) ==
    [d EXCEPT !.ops[o] = result, !.activeOp = "none", !.dispatched = FALSE]

\* The transaction after dispatch: the adapter's answer, its exception or the
\* 16 s deadline ("unknown").
StepFinish(t) ==
    /\ Runs(t, "dispatch")
    /\ LET o == task[t].op
       IN \/ End(t, Finish(CommitEvent(db, "action.denied", "ACTIVE"), o, "DENIED"))
          \/ LET lost == CommitEvent(db, "action.unknown", "UNCERTAIN")
             IN End(t, Finish([lost EXCEPT !.unresolved = @ \cup {o}], o, "UNKNOWN"))
          \/ \E obs \in Answers :
             LET d == Review(db, obs)
             IN IF obs.class = "verified"
                THEN End(t, Finish(CommitEvent(d, "action.finished", "ACTIVE"), o, "SUCCEEDED"))
                ELSE /\ Bounded(db, obs)
                     /\ End(t, Finish(CommitBlockDetected(CommitEvent(d, "action.finished", d.state),
                                                          obs, FALSE), o, "BLOCKED"))

\* runCheckpoint up to its await: the intent is durable, the next generation and
\* the policy are read.
BeginCapture(t, next) ==
    /\ db.generation < MaxGen
    /\ Become(t, CommitEvent(db, "snapshot.intent", db.state),
              [Idle EXCEPT !.kind = "capture", !.gen = db.generation + 1,
                           !.policy = db.policy, !.next = next])

Checkpoint(t) ==
    /\ Holds({"ACTIVE"}) /\ Free(t)
    /\ db.activeOp = "none"
    /\ db.ctx # "none"
    /\ BeginCapture(t, "none")

\* Mutant: the session's generation is not moved with its snapshot's.
StoreKeepsGeneration(d, k) ==
    [d EXCEPT !.snap = [generation |-> k.gen, policy |-> k.policy]]

\* A captured snapshot is stored under the generation read at its start.
\* encKeyFor creates a key for a session that never had one and refuses one whose
\* key was erased.
Store(d, k) == [d EXCEPT !.snap = [generation |-> k.gen, policy |-> k.policy],
                         !.generation = k.gen,
                         !.snapDue = d.consentDue /\ k.policy = d.policy]
WithKey(d) == [d EXCEPT !.key = "present"]

\* Mutant: a new key is made when the session's was erased.
FinishCheckpointAnyKey(t) ==
    /\ Runs(t, "capture")
    /\ Become(t, CommitEvent(Store(WithKey(db), task[t]), "snapshot.committed", db.state), Idle)

\* The rest of runCheckpoint, which ends in snapshot.committed or snapshot.failed.
FinishCheckpoint(t) ==
    /\ Runs(t, "capture")
    /\ LET k == task[t]
           rest == IF k.next = "detach" THEN [Idle EXCEPT !.kind = "detach"] ELSE Idle
       IN \/ /\ db.key # "erased"
             /\ Become(t, CommitEvent(Store(WithKey(db), k), "snapshot.committed", db.state), rest)
          \/ Become(t, CommitEvent(db, "snapshot.failed", db.state), rest)

\* detach, with or without a checkpoint first.
Detach(t) ==
    /\ Holds({"ATTACHING", "ACTIVE"})
    /\ \/ Turn(CommitEvent(db, "session.detached", "DETACHED"))
       \/ /\ Free(t)
          /\ db.ctx # "none"
          /\ BeginCapture(t, "detach")

\* What detach does once its checkpoint has ended, whichever way.
FinishDetach(t) ==
    /\ Runs(t, "detach")
    /\ End(t, CommitEvent(db, "session.detached", "DETACHED"))

-----------------------------------------------------------------------------
(* Recovery. *)

\* Mutant: the acknowledged operations stay on the list.
RecoverAcknowledgeKeeps ==
    /\ Serving
    /\ LET k == Tick(db)
       IN /\ k.state = "UNCERTAIN"
          /\ Turn(CommitEvent(k, "unknown.acknowledged", "NEEDS_LOGIN"))

\* recover(acknowledge_unknown)
RecoverAcknowledge ==
    /\ Serving
    /\ LET k == Tick(db)
       IN /\ k.state = "UNCERTAIN"
          /\ Turn(CommitEvent([k EXCEPT !.unresolved = {}], "unknown.acknowledged",
                              IF Eligible(k) THEN "DETACHED" ELSE "NEEDS_LOGIN"))

\* recover(reauth): a new card, whatever the session was waiting for.
RecoverReauth ==
    /\ Serving
    /\ LET k == Tick(db)
       IN /\ k.state \in {"DETACHED", "NEEDS_LOGIN", "EXPIRED", "COOLDOWN", "RECOVERABLE"}
          /\ CanCard(k) /\ CardRoom(k)
          /\ Turn(AddCard(CommitEvent(k, "handoff.created", "HANDOFF_WAIT")))

\* recover(retry | fallback) and the part of finishRecovery before its first
\* await.
RecoverProbe(t, intent) ==
    /\ Serving /\ Free(t)
    /\ LET k == Tick(db)
           r == IF k.state = "COOLDOWN" /\ k.block.retry # "pending"
                THEN CommitEvent(k, "cooldown.elapsed", "RECOVERABLE") ELSE k
           spent == [r EXCEPT !.budget.probes = @ + 1, !.verification = "recovery",
                              !.budget.fallback = @ \/ intent = "fallback",
                              !.block.fallback = @ \/ intent = "fallback"]
           d == CommitEvent(spent, "recovery.started", "VERIFYING")
           error == RestoreError(d)
       IN /\ r.state = "RECOVERABLE"
          /\ \/ intent = "retry" /\ r.block.class = "retry"
             \/ /\ intent = "fallback" /\ r.block.class \in {"retry", "review"}
                /\ ~r.block.fallback /\ ~r.budget.fallback
          /\ ~r.exhausted
          /\ ~r.budget.wait
          /\ r.budget.probes < PROBE_MAX
          /\ ~r.budget.manual
          /\ IF error = "OK"
             THEN Become(t, d, [Idle EXCEPT !.kind = "recoverOpen", !.fence = d.fence])
             ELSE Turn(FailVerification(d, d.fence, error))

\* A verified probe commits snapshot.intent and starts verifyCapture, which reads
\* the generation and the policy before it yields.
BeginVerifyCapture(t, final) ==
    /\ db.generation < MaxGen
    /\ Become(t, CommitEvent(db, "snapshot.intent", "VERIFYING"),
              [Idle EXCEPT !.kind = "verify", !.fence = task[t].fence, !.next = final,
                           !.gen = db.generation + 1, !.policy = db.policy])

\* The rest of finishRecovery.  The failed probe deletes the map's context entry
\* even when another verification owns the session.
FinishRecovery(t) ==
    /\ Runs(t, "recoverProbe")
    /\ \E obs \in Answers :
       LET current == db.state = "VERIFYING" /\ db.fence = task[t].fence
           blocked == CommitBlockDetected(Review(db, obs), obs, TRUE)
       IN  IF obs.class = "verified"
           THEN IF current /\ db.verification = "recovery"
                THEN BeginVerifyCapture(t, "attach.verified")
                ELSE End(t, db)
           ELSE /\ current => Bounded(db, obs)
                /\ End(t, [(IF current THEN blocked ELSE db) EXCEPT !.ctx = "none"])

\* verifyCapture after capture: snapshot.committed and the final event to
\* DETACHED, unless the verification was superseded.
VerifyCaptured(t) ==
    /\ Runs(t, "verify")
    /\ db.key # "erased"
    /\ LET k == task[t]
           d == WithKey(db)
           stored == CommitEvent(Store(d, k), "snapshot.committed", "VERIFYING")
           final == [CommitEvent(stored, k.next, "DETACHED") EXCEPT
                       !.block = NoBlock, !.budget.attempts = 0, !.budget.fallback = FALSE]
       IN  IF db.state # "VERIFYING" \/ db.fence # k.fence THEN End(t, d)
           ELSE IF k.next = "handoff.completed" /\ db.handoffId # 0
           THEN End(t, SaveCard(final, db.handoffId, "COMPLETED"))
           ELSE End(t, final)

\* capture, validation, encryption or the commit of verifyCapture threw.
VerifyCaptureThrows(t) ==
    /\ Runs(t, "verify")
    /\ LET failed == CommitEvent(db, "snapshot.failed", "VERIFYING")
           c == db.handoffId
       IN  IF db.state # "VERIFYING" THEN End(t, db)
           ELSE IF db.verification = "handoff" /\ c # 0
           THEN End(t, CommitEvent([failed EXCEPT !.cards[c].state = "EXPIRED"],
                                   "handoff.expired", "NEEDS_LOGIN"))
           ELSE End(t, CommitEvent(failed, "recovery.exhausted", "RECOVERABLE"))

-----------------------------------------------------------------------------
(* Human handoff. *)

\* A card the owner may act on: it belongs to the site's current policy.
Presentable(d, c) == /\ d.cards[c].state \in LiveCard
                     /\ ~d.cards[c].due
                     /\ d.cards[c].policy = d.policy
                     /\ d.state = "HANDOFF_WAIT"
                     /\ ~d.budget.wait

\* openHandoff of a card that is not OPEN yet, and the start of openHumanContext.
OpenHandoff(t, c) ==
    /\ Serving /\ Free(t)
    /\ LET k == Tick(db)
           opened == SaveCard(CommitEvent(k, "handoff.opened", "HANDOFF_WAIT"), c, "OPEN")
       IN /\ Presentable(k, c)
          /\ k.cards[c].state # "OPEN"
          /\ db' = [opened EXCEPT !.handoffId = c]
    /\ task' = [task EXCEPT ![t] = [Idle EXCEPT !.kind = "human"]]
    /\ openTask' = t
    /\ UNCHANGED <<mode, crashes, effects>>

\* openHumanContext ends; its context is entered in the map unless openContext
\* threw.  Whoever awaits it goes on.
HumanOpened(t) ==
    /\ Runs(t, "human")
    /\ \E ok \in BOOLEAN : db' = [db EXCEPT !.ctx = IF ok THEN "human" ELSE @]
    /\ task' = [u \in Slot |-> IF u = t THEN Idle
                               ELSE [task[u] EXCEPT !.waits = IF @ = t THEN "none" ELSE @]]
    /\ openTask' = IF openTask = t THEN "done" ELSE openTask
    /\ UNCHANGED <<mode, crashes, effects>>

\* resolveHandoff(cancel) accepts any card of the session.
CancelHandoff(c) ==
    /\ Serving
    /\ LET k == Tick(db)
       IN /\ k.cards[c].state # "none"
          /\ \/ k.state = "HANDOFF_WAIT"
             \/ k.state = "VERIFYING" /\ k.verification = "handoff"
          /\ Turn(SaveCard(CommitEvent(k, "handoff.cancelled", "NEEDS_LOGIN"), c, "CANCELLED"))

\* Mutant: a verification that finds no context returns quietly.
AfterBeginQuiet(d, k) == d

\* finishHandoffVerify once the human context is (or is not) there.
BeginProbe(d, k) ==
    IF d.ctx = "none" THEN Idle ELSE [k EXCEPT !.kind = "handoffProbe", !.policy = d.policy]
AfterBegin(d, k) ==
    IF d.ctx = "none" THEN FailVerification(d, k.fence, "INTERNAL") ELSE d

\* resolveHandoff(ready) and the start of finishHandoffVerify, which first awaits
\* the pending open.
ReadyHandoff(t, c) ==
    /\ Serving /\ Free(t)
    /\ LET k == Tick(db)
           d == [SaveCard(CommitEvent([k EXCEPT !.verification = "handoff"],
                                      "handoff.verifying", "VERIFYING"), c, "VERIFYING") EXCEPT
                   !.cards[c].attempts = @ + 1]
           new == [Idle EXCEPT !.kind = "handoffWait", !.fence = k.fence, !.card = c,
                               !.waits = IF openTask \in Slot THEN openTask ELSE "none"]
       IN /\ Presentable(k, c)
          /\ k.cards[c].state = "OPEN"
          /\ k.fresh = c
          /\ k.cards[c].attempts < VERIFY_MAX
          /\ IF openTask = "none"
             THEN db' = AfterBegin(d, new) /\ task' = [task EXCEPT ![t] = BeginProbe(d, new)]
             ELSE db' = d /\ task' = [task EXCEPT ![t] = new]
    /\ openTask' = "none"
    /\ UNCHANGED <<mode, crashes, effects>>

AwaitedOpen(t) ==
    /\ Runs(t, "handoffWait")
    /\ task[t].waits = "none"
    /\ Become(t, AfterBegin(db, task[t]), BeginProbe(db, task[t]))

\* The rest of finishHandoffVerify.  It checks that a handoff is being verified,
\* not that it is its own; a second failed verification expires the card.
FinishHandoffVerify(t) ==
    /\ Runs(t, "handoffProbe")
    /\ \E obs \in Answers :
       LET k == task[t]
           current == db.state = "VERIFYING" /\ db.verification = "handoff"
           class == IF obs.class = "verified" THEN "review" ELSE obs.class
           waiting == [CommitEvent(db, "block.detected", "HANDOFF_WAIT") EXCEPT
                         !.block = [class |-> class, retry |-> "none", fallback |-> FALSE]]
           outcome ==
             IF class = "closed" \/ db.cards[k.card].attempts >= VERIFY_MAX
             THEN SaveCard(CommitEvent(waiting, "handoff.expired", "NEEDS_LOGIN"), k.card, "EXPIRED")
             ELSE SaveCard(waiting, k.card, "PENDING")
       IN  IF obs.class = "verified" /\ db.policy = k.policy
           THEN IF current THEN BeginVerifyCapture(t, "handoff.completed") ELSE End(t, db)
           ELSE End(t, [(IF current THEN outcome ELSE db) EXCEPT !.ctx = "none"])

-----------------------------------------------------------------------------
(* Timers, the clock, and the daemon's life. *)

\* The periodic timer, a getSession, or a call refused after its timers ran.
Timers == /\ Serving
          /\ Tick(db) # db
          /\ Turn(Tick(db))

\* The clock passes one deadline.  A block's retry_at_ms never lies after
\* next_allowed_ms, and a snapshot never outlives the consent it was taken under.
Passes(deadline) ==
    \/ /\ deadline = "lease" /\ db.lease # NoLease /\ ~db.lease.due
       /\ Turn([db EXCEPT !.lease.due = TRUE])
    \/ /\ deadline = "retry" /\ db.block.retry = "pending"
       /\ Turn([db EXCEPT !.block.retry = "due"])
    \/ /\ deadline = "wait" /\ db.budget.wait /\ db.block.retry # "pending"
       /\ Turn([db EXCEPT !.budget.wait = FALSE])
    \/ /\ deadline = "card"
       /\ \E c \in 1..db.nCards : ~db.cards[c].due /\ Turn([db EXCEPT !.cards[c].due = TRUE])
    \/ /\ deadline = "snapshot" /\ db.snap # NoSnapshot /\ ~db.snapDue
       /\ Turn([db EXCEPT !.snapDue = TRUE])
    \/ /\ deadline = "consent" /\ ~db.consentDue
       /\ Turn([db EXCEPT !.consentDue = TRUE, !.snapDue = @ \/ db.snap.policy = db.policy])
    \/ /\ deadline = "probes" /\ db.budget.probes > 0
       /\ Turn([db EXCEPT !.budget.probes = @ - 1])
    \/ /\ deadline = "handoffs" /\ db.budget.handoffs > 0
       /\ Turn([db EXCEPT !.budget.handoffs = @ - 1])
    \/ /\ deadline = "calm" /\ ~db.budget.calm
       /\ Turn([db EXCEPT !.budget.calm = TRUE])

TimePasses == \E deadline \in Deadlines : Passes(deadline)

\* SIGTERM: stop() clears the timers, shutdown() refuses new calls ...
Shutdown ==
    /\ Serving
    /\ crashes < MaxCrash
    /\ mode' = "stopping"
    /\ UNCHANGED <<db, task, openTask, crashes, effects>>

\* ... and, after at most 5 s of waiting for the tasks, starts a checkpoint of an
\* idle ACTIVE session without awaiting it and takes every context down.
FinishShutdown(t) ==
    /\ mode = "stopping"
    /\ mode' = "closed"
    /\ LET capture == db.state = "ACTIVE" /\ db.activeOp = "none" /\ db.ctx # "none"
           d == IF capture THEN CommitEvent(db, "snapshot.intent", db.state) ELSE db
       IN /\ capture => Free(t) /\ db.generation < MaxGen
          /\ task' = IF capture
                     THEN [task EXCEPT ![t] = [Idle EXCEPT !.kind = "capture", !.policy = db.policy,
                                                           !.gen = db.generation + 1]]
                     ELSE task
          /\ db' = IF d.state \in ContextStates
                   THEN CommitEvent(d, "lease.expired",
                                    IF Eligible(d) THEN "DETACHED" ELSE "NEEDS_LOGIN")
                   ELSE d
    /\ UNCHANGED <<openTask, crashes, effects>>

\* The process dies, or exits after a shutdown: what is in memory is gone.
Crash ==
    /\ mode # "down"
    /\ crashes < MaxCrash
    /\ crashes' = crashes + 1
    /\ mode' = "down"
    /\ db' = [db EXCEPT !.ctx = "none"]
    /\ task' = [t \in Slot |-> Idle]
    /\ openTask' = "none"
    /\ UNCHANGED effects

\* recoverDaemon, for the session.
Recovered(d) ==
    LET lost == {o \in Op : d.ops[o] = "DISPATCHED"}
        failed == IF d.intentTip /\ d.state \notin {"QUARANTINED", "DELETED"}
                  THEN CommitEvent(d, "snapshot.failed", d.state) ELSE d
        c == failed.handoffId
        reopened == IF d.state = "HANDOFF_WAIT" /\ c # 0 /\ failed.cards[c].state = "OPEN"
                    THEN [failed EXCEPT !.cards[c].state = "PENDING"] ELSE failed
        closed == IF d.state = "VERIFYING" /\ d.verification = "handoff" /\ c # 0
                  THEN [reopened EXCEPT !.cards[c].state = "CANCELLED", !.handoffId = 0]
                  ELSE reopened
    IN  IF lost # {} /\ d.state \in ContextStates
        THEN CommitEvent([d EXCEPT !.ops = [o \in Op |-> IF o \in lost THEN "UNKNOWN" ELSE @[o]],
                                   !.unresolved = @ \cup lost, !.activeOp = "none",
                                   !.dispatched = FALSE],
                         "action.unknown", "UNCERTAIN")
        ELSE IF d.state \in ContextStates
        THEN CommitEvent(closed, "daemon.recovered",
                         IF Eligible(closed) THEN "DETACHED" ELSE "NEEDS_LOGIN")
        ELSE IF d.state \in LiveStates THEN CommitEvent(closed, "daemon.recovered", d.state)
        ELSE closed

Restart ==
    /\ mode = "down"
    /\ mode' = "serving"
    /\ db' = Recovered(db)
    /\ UNCHANGED <<task, openTask, crashes, effects>>

-----------------------------------------------------------------------------
\* What the owner, the runner and the clock do.
Requests ==
    \/ PutSite \/ CreateSession \/ Revoke \/ DeleteSession \/ VaultRotate
    \/ ExpireOnUse \/ Renew \/ RecoverAcknowledge \/ RecoverReauth
    \/ \E c \in 1..db.nCards : CancelHandoff(c)
    \/ \E t \in Slot :
        \/ Attach(t) \/ Checkpoint(t) \/ Detach(t)
        \/ \E o \in Op : Step(t, o)
        \/ \E intent \in {"retry", "fallback"} : RecoverProbe(t, intent)
        \/ \E c \in 1..db.nCards : OpenHandoff(t, c) \/ ReadyHandoff(t, c)

\* The continuation in slot t.
Continue(t) ==
    \/ ContextOpened(t) \/ VerificationThrows(t) \/ FinishAttach(t)
    \/ StepDispatch(t) \/ StepFinish(t) \/ FinishCheckpoint(t) \/ FinishDetach(t)
    \/ FinishRecovery(t) \/ VerifyCaptured(t) \/ VerifyCaptureThrows(t)
    \/ HumanOpened(t) \/ AwaitedOpen(t) \/ FinishHandoffVerify(t)

Next ==
    \/ Requests
    \/ \E t \in Slot : Continue(t)
    \/ Timers \/ TimePasses
    \/ Shutdown \/ (\E t \in Slot : FinishShutdown(t)) \/ Crash \/ Restart

Spec == Init /\ [][Next]_vars

\* The clock moves on and setInterval runs tick every second.  Nothing is assumed
\* of the adapter: apart from dispatch, which has its deadline, no await of the
\* engine is timed, so a browser that hangs may leave a continuation pending.
FairSpec == /\ Spec
            /\ WF_vars(Timers)
            /\ \A deadline \in Deadlines : WF_vars(Passes(deadline))

-----------------------------------------------------------------------------
(* Properties. *)

\* One active runner: a session holds a lease only in the states a runner works
\* in, and that lease carries the session's current fence, so a runner that
\* presents an older fence is refused, however late the continuations of earlier
\* attaches, steps and verifications arrive.
LeaseFenced ==
    db.lease # NoLease => /\ db.state \in {"ATTACHING", "ACTIVE"}
                          /\ db.lease.fence = db.fence

\* The fence never moves back, and no lease is granted, taken away or replaced
\* without moving it forward: a fence is never shared by two leases.
FenceAdvances ==
    [][/\ db'.fence >= db.fence
       /\ db'.lease.fence # db.lease.fence => db'.fence > db.fence]_vars

\* The adapter is asked to perform an operation at most once, across retries with
\* the same operation id, lost leases, crashes and restarts.
AtMostOneEffect == \A o \in Op : effects[o] <= 1

\* A result that a step has recorded is never overwritten: a repeat of the
\* operation is always answered with the outcome that was first reported.
ResultsAreFinal ==
    [][\A o \in Op : db.ops[o] \in {"SUCCEEDED", "BLOCKED", "DENIED"} =>
            db'.ops[o] = db.ops[o]]_vars

\* deleteSession is final for the stored login: once the key of a session is
\* erased, no capture or verification that was in flight can store a snapshot
\* again, and no other key replaces it.
ErasedForGood ==
    [][db.key = "erased" => db'.key = "erased" /\ db'.snap = NoSnapshot]_vars

\* A revocation outdates every snapshot stored before it: no stored snapshot is
\* ever ahead of the session's generation.
SnapshotNotAhead == db.snap.generation <= db.generation

AwaitsOwner == \/ db.state = "HANDOFF_WAIT"
               \/ db.state = "VERIFYING" /\ db.verification = "handoff"

\* A session that waits for its owner, or verifies what the owner did, names the
\* card whose expiry ends the wait; otherwise no timer would.
WaitHasCard == AwaitsOwner => db.handoffId # 0

\* A verification never loses its driver: while a session is VERIFYING some
\* continuation is still going to end it, although superseded verifications of
\* the same fence come and go and may act in its place.  No timer would end it.
VerifyingIsDriven ==
    db.state = "VERIFYING" /\ mode # "down" =>
        \E t \in Slot : task[t].kind \in {"recoverOpen", "recoverProbe", "handoffWait",
                                         "handoffProbe", "verify"}

\* Timers alone end every wait: a session does not stay in COOLDOWN, nor waiting
\* for its owner (including the verification of what the owner did), for ever,
\* even if the browser never answers and nobody calls the daemon again.
CooldownEnds == db.state = "COOLDOWN" ~> db.state # "COOLDOWN"
HandoffEnds == AwaitsOwner ~> ~AwaitsOwner

\* The interlock names what it protects: a session is UNCERTAIN only while it
\* lists an operation for its owner to look into.
UncertainNamesOperation == db.state = "UNCERTAIN" => db.unresolved # {}

\* With no continuation in flight, UNCERTAIN is left only when the owner
\* acknowledges every listed operation, or revokes the session: no timer, policy
\* change, shutdown, crash or restart lifts the interlock.
UncertainInterlock ==
    [][/\ db.state = "UNCERTAIN"
       /\ \A t \in Slot : task[t].kind = "idle"
       => \/ db'.state \in {"UNCERTAIN", "REVOKED"}
          \/ db'.unresolved = {}]_vars

\* With no continuation in flight a terminal session stays terminal: no request,
\* timer, crash or restart brings it back.
QuietTerminalStays ==
    [][/\ db.state \in TerminalStates
       /\ \A t \in Slot : task[t].kind = "idle"
       => db'.state \in TerminalStates]_vars

-----------------------------------------------------------------------------
(* What comments and tests of the repository say, and the code does not do. *)

\* engine.ts declares REVOKED, DELETED and QUARANTINED TERMINAL.
TerminalStays ==
    [][db.state \in TerminalStates => db'.state \in TerminalStates]_vars

\* recoverDaemon: "DISPATCHED operation without durable result -> UNCERTAIN": when
\* nobody is left to report the outcome of an operation that was dispatched, the
\* session says so, unless it has ended.
UnprovenIsUncertain ==
    \A o \in Op :
        /\ mode = "serving"
        /\ db.ops[o] = "DISPATCHED"
        /\ \A t \in Slot : task[t].op # o
        => db.state \in {"UNCERTAIN"} \cup TerminalStates

\* recoverDaemon: "Startup debris resolution", and BUSY is a retryable error: an
\* ACTIVE session is busy only with an operation some step still works on.
SlotIsOwned ==
    db.state = "ACTIVE" /\ db.activeOp # "none" /\ mode = "serving" =>
        \E t \in Slot : task[t].op = db.activeOp

\* worker/src/vault.ts: "Generations strictly advance; gaps are skipped
\* checkpoints, never rollback": a session never takes a generation back.
GenerationAdvances ==
    [][db'.generation >= db.generation]_vars
=============================================================================

------------------------------ MODULE Reducer ------------------------------
(***************************************************************************)
(* The transactional core of src/engine.ts for one session: what one       *)
(* synchronous turn of the daemon reads and writes.  Every handler of the  *)
(* engine is a composition of the operators below, each of which takes the *)
(* engine's state d (a record of DB) and returns the state it leaves.      *)
(*                                                                         *)
(* Time is abstracted to deadlines: a deadline is a flag that is FALSE     *)
(* while now < deadline and becomes TRUE once the clock has passed it.     *)
(***************************************************************************)
EXTENDS Naturals

CONSTANTS Op,         \* operation ids a runner may submit
          MaxCards    \* bound: handoff cards ever created

ASSUME MaxCardsAssumption == MaxCards \in Nat
ASSUME OpAssumption == "none" \notin Op

\* Mutant: LIVE also names REVOKED.
LiveStatesAndRevoked ==
    {"NEEDS_LOGIN", "DETACHED", "ATTACHING", "ACTIVE", "COOLDOWN", "RECOVERABLE",
     "HANDOFF_WAIT", "VERIFYING", "UNCERTAIN", "EXPIRED", "REVOKED"}

LiveStates == {"NEEDS_LOGIN", "DETACHED", "ATTACHING", "ACTIVE", "COOLDOWN",
               "RECOVERABLE", "HANDOFF_WAIT", "VERIFYING", "UNCERTAIN", "EXPIRED"}
TerminalStates == {"REVOKED", "DELETED", "QUARANTINED"}
ContextStates == {"ATTACHING", "ACTIVE", "VERIFYING"}

PROBE_MAX == 2
HANDOFF_MAX == 2
VERIFY_MAX == 2      \* verifications per card, attempts per incident

(* What the classifier tells apart, grouped by how the engine routes it:
   "retry"  CF_CHALLENGE, RATE_LIMIT, NETWORK_ERROR without a TLS failure
   "login"  LOGIN_WALL, ACCOUNT_MISMATCH
   "review" ACCESS_DENIED, UNKNOWN
   "closed" SCOPE_DENIED, NETWORK_ERROR with a TLS failure              *)
BlockClass == {"retry", "login", "review", "closed"}

\* A probe or a response as the engine sees it.  `wait` is its Retry-After:
\* usable, above max_server_wait_ms, or over 128 bytes.
Observation == [class : BlockClass \cup {"verified"},
                wait : {"usable", "tooLong", "oversized"}]

\* session_id is unique; a lease is named by the fence it was issued under.
Lease == [fence : Nat, due : BOOLEAN]
NoLease == [fence |-> 0, due |-> FALSE]

\* retry: the block's retry_at_ms is null, in the future, or has passed.
Block == [class : BlockClass \cup {"none"}, retry : {"none", "pending", "due"},
          fallback : BOOLEAN]
NoBlock == [class |-> "none", retry |-> "none", fallback |-> FALSE]

Card == [state : {"none", "PENDING", "OPEN", "VERIFYING", "COMPLETED",
                  "CANCELLED", "EXPIRED"},
         due : BOOLEAN, policy : Nat, attempts : 0..VERIFY_MAX]
NoCard == [state |-> "none", due |-> FALSE, policy |-> 0, attempts |-> 0]
LiveCard == {"PENDING", "OPEN", "VERIFYING"}

\* The stored snapshot and what its header binds; generation 0: no row.
Snapshot == [generation : Nat, policy : Nat]
NoSnapshot == [generation |-> 0, policy |-> 0]

\* The per-origin budget: starts inside their windows, and the deadlines
\* next_allowed_ms (wait) and last_block_ms + BLOCK_FREE_RESET_MS (calm).
Budget == [probes : 0..PROBE_MAX, handoffs : 0..HANDOFF_MAX, wait : BOOLEAN,
           attempts : 0..VERIFY_MAX, fallback : BOOLEAN, manual : BOOLEAN,
           calm : BOOLEAN]

OpState == {"none", "PREPARED", "DISPATCHED", "UNKNOWN", "SUCCEEDED",
            "BLOCKED", "DENIED"}

\* The session row, its control record, and the tables beside it.  `fresh` is
\* the card whose session_revision equals the session's revision; `exhausted`
\* says that recovery.exhausted is the last incident of the receipts;
\* `intentTip` that snapshot.intent is the last receipt; `ctx` is the entry of
\* the in-memory map of browser contexts.
DB == [state : LiveStates \cup TerminalStates \cup {"NONE"},
       generation : Nat, fence : Nat, lease : Lease, block : Block,
       handoffId : 0..MaxCards, snapDue : BOOLEAN, eligible : BOOLEAN,
       verification : {"none", "attach", "recovery", "handoff"},
       activeOp : Op \cup {"none"}, dispatched : BOOLEAN, unresolved : SUBSET Op,
       fresh : 0..MaxCards, exhausted : BOOLEAN, intentTip : BOOLEAN,
       ctx : {"none", "attach", "recovery", "human"},
       cards : [1..MaxCards -> Card], nCards : 0..MaxCards,
       ops : [Op -> OpState], snap : Snapshot,
       key : {"none", "present", "erased"}, budget : Budget,
       policy : Nat, consentDue : BOOLEAN]

EmptyBudget == [probes |-> 0, handoffs |-> 0, wait |-> FALSE, attempts |-> 0,
                fallback |-> FALSE, manual |-> FALSE, calm |-> TRUE]

\* The site is enrolled with policy revision 1 and has no session yet.
EmptyDB ==
    [state |-> "NONE", generation |-> 0, fence |-> 0, lease |-> NoLease,
     block |-> NoBlock, handoffId |-> 0, snapDue |-> FALSE, eligible |-> FALSE,
     verification |-> "none", activeOp |-> "none", dispatched |-> FALSE,
     unresolved |-> {}, fresh |-> 0, exhausted |-> FALSE, intentTip |-> FALSE,
     ctx |-> "none", cards |-> [c \in 1..MaxCards |-> NoCard], nCards |-> 0,
     ops |-> [o \in Op |-> "none"], snap |-> NoSnapshot, key |-> "none",
     budget |-> EmptyBudget, policy |-> 1, consentDue |-> FALSE]

-----------------------------------------------------------------------------
\* eligibleSnapshot
Eligible(d) == /\ d.eligible
               /\ d.snap # NoSnapshot
               /\ d.snap.generation = d.generation
               /\ ~d.snapDue

\* emit: the receipt moves the session to `to`, and every card's revision is now
\* behind the session's.
Emit(d, event, to) ==
    [d EXCEPT
        !.state = to,
        !.exhausted = /\ @ \/ event = "recovery.exhausted"
                      /\ event \notin {"block.detected", "cooldown.elapsed", "session.created",
                                       "policy.changed", "session.revoked", "session.deleted",
                                       "unknown.acknowledged"},
        !.intentTip = event = "snapshot.intent",
        !.fresh = 0]

ApplyEventEffects(d, event) ==
    [d EXCEPT
        !.block = IF event \in {"attach.verified", "handoff.completed", "policy.changed",
                                "session.expired", "session.revoked", "session.deleted"}
                  THEN NoBlock ELSE @,
        !.handoffId = IF event \in {"handoff.completed", "handoff.cancelled", "handoff.expired"}
                      THEN 0 ELSE @,
        !.eligible = /\ @ \/ event = "snapshot.committed"
                     /\ event \notin {"policy.changed", "session.expired", "handoff.cancelled",
                                      "handoff.expired", "action.unknown"}
                     /\ ~(event = "block.detected" /\ d.block.class = "login")]

\* Mutants: a lease that survives, and one that is dropped without a new fence.
LeaveContextKeepsLease(d) == [d EXCEPT !.verification = "none", !.ctx = "none"]
LeaveContextKeepsFence(d) ==
    [d EXCEPT !.lease = NoLease, !.verification = "none", !.ctx = "none"]

\* leaveContext: the lease is dropped, which moves the fence, and the browser
\* context is destroyed.
LeaveContext(d) ==
    [d EXCEPT !.fence = IF d.lease # NoLease THEN @ + 1 ELSE @,
              !.lease = NoLease, !.verification = "none", !.ctx = "none"]

CommitEvent(d, event, to) ==
    LET e == ApplyEventEffects(Emit(d, event, to), event)
    IN  IF d.state \in ContextStates /\ to \notin ContextStates THEN LeaveContext(e) ELSE e

\* A card is saved in `state` with the session's current revision.
SaveCard(d, c, state) == [d EXCEPT !.cards[c].state = state, !.fresh = c]

\* The session's card for the purpose of cancelling it: the current one, or the
\* newest when the session names none; cancelled only while it is live.
CancelCard(d) ==
    LET c == IF d.handoffId # 0 THEN d.handoffId ELSE d.nCards
    IN  IF c # 0 /\ d.cards[c].state \in LiveCard
        THEN [SaveCard(d, c, "CANCELLED") EXCEPT !.handoffId = 0]
        ELSE [d EXCEPT !.handoffId = 0]

\* The handoff budget has a start left; the bound leaves a card to create.
CanCard(d) == d.budget.handoffs < HANDOFF_MAX
CardRoom(d) == d.nCards < MaxCards

\* Mutant: the session never learns of its card.
AddCardUnnamed(d) ==
    LET c == d.nCards + 1
    IN [d EXCEPT !.nCards = c, !.fresh = c, !.budget.handoffs = @ + 1,
                 !.cards[c] = [NoCard EXCEPT !.state = "PENDING", !.policy = d.policy]]

\* newCard, once the event that creates it has been committed: it becomes the
\* session's card and spends a start of the budget.
AddCard(d) ==
    LET c == d.nCards + 1
    IN [d EXCEPT !.nCards = c, !.handoffId = c, !.fresh = c,
                 !.cards[c] = [NoCard EXCEPT !.state = "PENDING", !.policy = d.policy],
                 !.budget.handoffs = @ + 1]

\* Mutant: the block is stored without its retry time.
BaseBlockUnscheduled(d, class, retry) ==
    [class |-> class, retry |-> "none", fallback |-> d.budget.fallback]

\* baseBlock of commitBlockDetected.
BaseBlock(d, class, retry) ==
    [class |-> class, retry |-> retry, fallback |-> d.budget.fallback]

\* The block is recorded, and the origin is no longer free of blocks.
Stamp(d, class, retry) ==
    [d EXCEPT !.budget.calm = FALSE, !.block = BaseBlock(d, class, retry)]

\* The attempt a block counts as: a failed recovery probe schedules the next one,
\* an initial incident is attempt 1.
NextAttempt(d, probe) == IF probe THEN d.budget.attempts + 1
                         ELSE IF d.budget.attempts = 0 THEN 1 ELSE d.budget.attempts

\* computeDelay and its bookkeeping: the next allowed contact moves out, unless
\* the server asks for more than max_server_wait_ms, which needs a review.
Schedule(d, obs, probe) ==
    LET tooLong == obs.wait = "tooLong"
        attempt == NextAttempt(d, probe)
    IN  [Stamp(d, obs.class, IF tooLong THEN "none" ELSE "pending") EXCEPT
            !.budget.attempts = IF attempt > VERIFY_MAX THEN VERIFY_MAX ELSE attempt,
            !.budget.wait = @ \/ ~tooLong,
            !.budget.manual = @ \/ tooLong]

\* commitBlockDetected.  `probe` is true for a failed recovery probe.
CommitBlockDetected(d, obs, probe) ==
    LET exhausted == \/ obs.wait = "tooLong"
                     \/ probe /\ NextAttempt(d, probe) > VERIFY_MAX
        cooling == CommitEvent(Schedule(d, obs, probe), "block.detected", "COOLDOWN")
        stamped == Stamp(d, obs.class, "none")
    IN  CASE obs.class = "retry" /\ exhausted ->
               CommitEvent(cooling, "recovery.exhausted", "RECOVERABLE")
          [] obs.class = "retry" /\ ~exhausted -> cooling
          [] obs.class = "login" /\ CanCard(d) ->
               AddCard(CommitEvent(stamped, "block.detected", "HANDOFF_WAIT"))
          [] obs.class = "login" /\ ~CanCard(d) ->
               CommitEvent(stamped, "block.detected", "NEEDS_LOGIN")
          [] OTHER -> CommitEvent(stamped, "block.detected", "RECOVERABLE")

\* An observation the engine can take within the bound on cards.
Bounded(d, obs) == obs.class = "login" /\ CanCard(d) => CardRoom(d)

\* An oversized Retry-After asks for manual review before anything else.
Review(d, obs) == [d EXCEPT !.budget.manual = @ \/ obs.wait = "oversized"]

\* failVerification: `code` is the error of the verification task, `fence` the
\* fence it started under.
FailVerification(d, fence, code) ==
    IF d.state \notin ContextStates \/ d.fence # fence THEN d
    ELSE CASE code = "INTEGRITY_FAILED" -> CommitEvent(d, "session.quarantined", "QUARANTINED")
           [] code = "SNAPSHOT_EXPIRED" -> CommitEvent(d, "session.expired", "EXPIRED")
           [] OTHER -> CommitEvent(d, "recovery.exhausted", "RECOVERABLE")

\* The error of the synchronous prologue of finishAttach and finishRecovery
\* (snapshotRow, keychain, decryptSnapshot), "OK" if there is none.
RestoreError(d) ==
    CASE d.snap = NoSnapshot -> "INTEGRITY_FAILED"
      [] d.snap # NoSnapshot /\ d.key # "present" -> "KEY_UNAVAILABLE"
      [] d.snap # NoSnapshot /\ d.key = "present"
           /\ (d.snap.generation # d.generation \/ d.snap.policy # d.policy) -> "INTEGRITY_FAILED"
      [] OTHER -> IF d.snapDue THEN "SNAPSHOT_EXPIRED" ELSE "OK"

\* Mutants: the slot is emptied before it is read, or the operation not recorded.
LoseOperationLate(d) ==
    LET cleared == [d EXCEPT !.activeOp = "none", !.dispatched = FALSE]
    IN  [cleared EXCEPT !.unresolved = @ \cup {cleared.activeOp}]
LoseOperationSilently(d) ==
    [d EXCEPT !.ops[d.activeOp] = "UNKNOWN", !.activeOp = "none", !.dispatched = FALSE]

\* A dispatched operation whose outcome nobody will report.
LoseOperation(d) ==
    [d EXCEPT !.ops[d.activeOp] = "UNKNOWN", !.unresolved = @ \cup {d.activeOp},
              !.activeOp = "none", !.dispatched = FALSE]

LeaseDue(d) == d.state \in {"ATTACHING", "ACTIVE"} /\ d.lease # NoLease /\ d.lease.due

\* tick, for one session: the first timer that has run out commits its event.
Tick(d) ==
    LET handoff == \/ d.state = "HANDOFF_WAIT"
                   \/ d.state = "VERIFYING" /\ d.verification = "handoff"
        expired == d.consentDue \/ (d.eligible /\ d.snapDue)
    IN  IF LeaseDue(d) THEN
            IF d.dispatched /\ d.activeOp # "none"
            THEN CommitEvent(LoseOperation(d), "action.unknown", "UNCERTAIN")
            ELSE CommitEvent(d, "lease.expired", "DETACHED")
        ELSE IF d.state = "COOLDOWN" /\ d.block.retry = "due" THEN
            CommitEvent(d, "cooldown.elapsed", "RECOVERABLE")
        ELSE IF handoff /\ d.handoffId # 0 /\ d.cards[d.handoffId].due THEN
            SaveCard(CommitEvent(d, "handoff.expired", "NEEDS_LOGIN"), d.handoffId, "EXPIRED")
        ELSE IF d.state \in LiveStates /\ expired THEN
            CommitEvent(d, "session.expired",
                        IF d.state = "UNCERTAIN" THEN "UNCERTAIN" ELSE "EXPIRED")
        ELSE d
=============================================================================

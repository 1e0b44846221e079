---------------------------- MODULE OriginBudget ----------------------------
(***************************************************************************)
(* The budget that all sessions of one origin share (origin_budgets): the  *)
(* starts of recovery probes and of handoff cards inside their windows,    *)
(* the time before which the origin may not be visited again, the count of *)
(* attempts, the one fallback and the manual review.  Several sites, with  *)
(* a session each, may have the same origin.  Engine has one session, and  *)
(* deadlines in place of times; here the clock is explicit and the         *)
(* sessions are reduced to what they do with the budget.                   *)
(***************************************************************************)
EXTENDS Blocks, FiniteSets, Integers

CONSTANTS Site,            \* the sites of the origin, with one session each
          Answers,         \* the observations the origin may give rise to
          ProbeWindow, HandoffWindow, BlockFreeReset,
          PROBE_MAX, HANDOFF_MAX,
          MaxTime,         \* bound on the clock
          MaxActing        \* bound on actions at the browser

ASSUME BudgetAssumption ==
    /\ Answers \subseteq Observation
    /\ ProbeWindow \in Nat /\ HandoffWindow \in Nat /\ BlockFreeReset \in Nat
    /\ PROBE_MAX \in Nat /\ HANDOFF_MAX \in Nat /\ MaxTime \in Nat
    /\ MaxActing \in Nat

\* No time the daemon computes leaves the safe integers.
ASSUME ClockAssumption ==
    /\ MaxTime + MaxServerWait <= MaxSafe
    /\ MaxTime + MaxRetryDelay <= MaxSafe

VARIABLES now,     \* the clock
          sess,    \* the session of each site
          acting,  \* the sites whose session has an action at the browser
          budget,  \* the row of origin_budgets; its lists of starts are sets
          probes,  \* history: the recovery probes started in the window up to now
          cards,   \* history: the cards made in the window up to now
          asked,   \* history: when the last of the waits asked for with a retryable
                   \* block of an attach, an action or a recovery ends
          review,  \* history: such a wait was unusable, or a header of theirs was
                   \* oversized, and it was not yet reviewed
          dropped, \* history: when the last of the waits ends that the daemon passed
                   \* over; Never, if it passed over one that calls for a review
          tries    \* history: recovery probes of each session in one incident

vars == <<now, sess, acting, budget, probes, cards, asked, review, dropped, tries>>

\* RECOVERING and CONFIRMING: VERIFYING for recovery and for a handoff; NEEDS_LOGIN
\* also stands for EXPIRED, DELETED for a session not there.
States == {"DELETED", "NEEDS_LOGIN", "HANDOFF_WAIT", "CONFIRMING", "DETACHED",
           "ATTACHING", "ACTIVE", "COOLDOWN", "RECOVERABLE", "RECOVERING"}
\* The states in which the origin is about to be probed.
Probing == {"ATTACHING", "CONFIRMING", "RECOVERING"}

Classes == {"SCOPE_DENIED", "NETWORK_ERROR", "CF_CHALLENGE", "RATE_LIMIT",
            "ACCOUNT_MISMATCH", "LOGIN_WALL", "ACCESS_DENIED", "UNKNOWN"}
NoBlock == [class |-> "none", network |-> "ok", retryAt |-> 0, fallback |-> FALSE]
\* The block is kept while recover may read it: in COOLDOWN and in RECOVERABLE,
\* unless recovery.exhausted is the last incident of the session.
Resting(state) == [st |-> state, block |-> NoBlock]
EmptyBudget == [probes |-> {}, handoffs |-> {}, lastBlock |-> 0, blocked |-> FALSE,
                nextAllowed |-> 0, attempts |-> 0, fallback |-> FALSE, manual |-> FALSE]

\* A start: when, and which of those of that time.  saveBudget keeps the list in
\* order, and nothing but the number of starts in a window is ever asked of it.
Start == (0..MaxTime) \X Nat

TypeOK ==
    /\ now \in 0..MaxTime
    /\ sess \in [Site -> [st : States,
                          block : [class : Classes \cup {"none"}, network : Network,
                                   retryAt : Nat, fallback : BOOLEAN]]]
    /\ acting \subseteq Site
    /\ budget.probes \subseteq Start /\ budget.handoffs \subseteq Start
    /\ budget.lastBlock \in 0..MaxTime /\ budget.nextAllowed \in Nat
    /\ budget.attempts \in 0..2
    /\ {budget.blocked, budget.fallback, budget.manual, review} \subseteq BOOLEAN
    /\ probes \subseteq Start /\ cards \subseteq Start
    /\ asked \in Nat /\ dropped \in Nat
    /\ tries \in [Site -> Int]

Init ==
    /\ now = 0
    /\ sess = [s \in Site |-> Resting("DELETED")]
    /\ acting = {} /\ budget = EmptyBudget
    /\ probes = {} /\ cards = {} /\ asked = 0 /\ review = FALSE
    /\ dropped = 0
    /\ tries = [s \in Site |-> 0]

-----------------------------------------------------------------------------
\* The starts that still count: a window is closed at both ends.
Inside(starts, window) == {x \in starts : x[1] + window >= now}

\* A start at this moment, not one of those there are.
NewStart(starts) ==
    CHOOSE x \in {now} \X (0..Cardinality(starts)) : x \notin starts

\* saveBudget drops the starts that have left their windows.
SaveBudget(b) ==
    budget' = [b EXCEPT !.probes = Inside(@, ProbeWindow),
                        !.handoffs = Inside(@, HandoffWindow)]

\* Mutant: a start at the edge of the window no longer counts.
CanCardOpenWindow(b) ==
    Cardinality({x \in b.handoffs : x[1] + HandoffWindow > now}) < HANDOFF_MAX

CanCard(b) == Cardinality(Inside(b.handoffs, HandoffWindow)) < HANDOFF_MAX
AddCard(b) == [b EXCEPT !.handoffs = @ \cup {NewStart(@)}]
CountCard(b) == cards' = cards \cup {NewStart(b.handoffs)}

\* The session leaves its incident, if it was in one.
To(s, state) ==
    /\ sess' = [sess EXCEPT ![s] = Resting(state)]
    /\ tries' = [tries EXCEPT ![s] = 0]

-----------------------------------------------------------------------------
(* The wait a header asks for, said without the code of delay.ts. *)

AskedUntil(h) == CASE h.kind = "seconds" -> now + h.n * Second
                   [] h.kind = "date" -> h.n
                   [] OTHER -> 0
Unusable(h) == h.kind \in {"seconds", "date"} /\ AskedUntil(h) > now + MaxServerWait

\* The wait of an answer that is no retryable block is passed over; of an answer
\* to a handoff's verification, or to a recovery probe that verified the login,
\* an oversized header is passed over too.
Never == MaxSafe + 1
Passed(h) == IF Unusable(h) THEN Never ELSE Larger(dropped, AskedUntil(h))
PassedWhole(h) == IF h.kind = "oversized" THEN Never ELSE Passed(h)

\* What the origin asked for with an answer that is committed as a block.
Heed(o) ==
    LET retryable == IsRetryableBlock(Effective(o), o.network)
    IN  /\ asked' = IF retryable /\ ~Unusable(o.retryAfter)
                    THEN Larger(asked, AskedUntil(o.retryAfter)) ELSE asked
        /\ review' = (\/ review
                      \/ o.retryAfter.kind = "oversized"
                      \/ retryable /\ Unusable(o.retryAfter))
        /\ dropped' = IF retryable THEN dropped ELSE Passed(o.retryAfter)

\* An oversized header asks for a manual review, whatever the answer's class.
Review(b, o) == [b EXCEPT !.manual = @ \/ o.retryAfter.kind = "oversized"]

\* Mutant: the delay of a later block replaces that of an earlier one.
ScheduledLast(b, delay, attempt) ==
    [b EXCEPT !.attempts = Smaller(2, attempt),
              !.nextAllowed = IF delay.exhausted THEN @ ELSE delay.retryAt,
              !.manual = @ \/ delay.exhausted]

\* The budget after a block that may be retried.
Scheduled(b, delay, attempt) ==
    [b EXCEPT !.attempts = Smaller(2, attempt),
              !.nextAllowed = IF delay.exhausted THEN @ ELSE Larger(@, delay.retryAt),
              !.manual = @ \/ delay.exhausted]

\* Mutant: the third attempt does not end the recovery.
ExhaustedNever(delay, recovering, attempt) == delay.exhausted
Exhausted(delay, recovering, attempt) == delay.exhausted \/ (recovering /\ attempt > 2)

\* commitBlockDetected, for the answer `o` to an action or to the probe of an
\* attach or of a recovery.
CommitBlockDetected(s, b0, o, recovering) ==
    LET class == Effective(o)
        b == [b0 EXCEPT !.lastBlock = now, !.blocked = TRUE]
        attempt == IF recovering THEN b.attempts + 1 ELSE Larger(1, b.attempts)
        delay == ComputeDelay(class, o.network, attempt, o.retryAfter, now)
        block(retryAt) == [class |-> class, network |-> o.network, retryAt |-> retryAt,
                           fallback |-> b.fallback]
        Move(new) == sess' = [sess EXCEPT ![s] = new]
    IN  /\ Heed(o)
        /\ \/ /\ IsRetryableBlock(class, o.network)
              /\ SaveBudget(Scheduled(b, delay, attempt))
              /\ Move(IF Exhausted(delay, recovering, attempt) THEN Resting("RECOVERABLE")
                      ELSE [st |-> "COOLDOWN", block |-> block(delay.retryAt)])
              /\ UNCHANGED cards
           \/ /\ class \in {"LOGIN_WALL", "ACCOUNT_MISMATCH"}
              /\ IF CanCard(b)
                 THEN /\ SaveBudget(AddCard(b)) /\ CountCard(b)
                      /\ Move(Resting("HANDOFF_WAIT"))
                 ELSE /\ SaveBudget(b) /\ UNCHANGED cards
                      /\ Move(Resting("NEEDS_LOGIN"))
           \/ /\ ~IsRetryableBlock(class, o.network)
              /\ class \notin {"LOGIN_WALL", "ACCOUNT_MISMATCH"}
              /\ SaveBudget(b)
              /\ Move([st |-> "RECOVERABLE", block |-> block(0)])
              /\ UNCHANGED cards
        /\ tries' = [tries EXCEPT ![s] =
                       IF recovering /\ sess'[s].st \in {"COOLDOWN", "RECOVERABLE"} THEN @ ELSE 0]

-----------------------------------------------------------------------------
(* Cards. *)

\* createSession.  The budget outlives the session that was there before.
CreateSession(s) ==
    /\ sess[s].st = "DELETED" /\ s \notin acting
    /\ IF CanCard(budget)
       THEN /\ SaveBudget(AddCard(budget)) /\ CountCard(budget)
            /\ To(s, "HANDOFF_WAIT")
       ELSE /\ To(s, "NEEDS_LOGIN")
            /\ UNCHANGED <<budget, cards>>
    /\ UNCHANGED <<now, acting, probes, asked, review, dropped>>

\* recover(reauth)
Reauth(s) ==
    /\ sess[s].st \in {"DETACHED", "NEEDS_LOGIN", "COOLDOWN", "RECOVERABLE"}
    /\ CanCard(budget)
    /\ SaveBudget(AddCard(budget)) /\ CountCard(budget)
    /\ To(s, "HANDOFF_WAIT")
    /\ UNCHANGED <<now, acting, probes, asked, review, dropped>>

\* resolveHandoff(ready), for a card that openHandoff has opened.
Ready(s) ==
    /\ sess[s].st = "HANDOFF_WAIT"
    /\ now >= budget.nextAllowed
    /\ To(s, "CONFIRMING")
    /\ UNCHANGED <<now, acting, budget, probes, cards, asked, review, dropped>>

\* Mutant: a login that was verified ends the manual review.
RenewedWithReview(b) == [b EXCEPT !.attempts = 0, !.fallback = FALSE, !.manual = FALSE]

\* History: the count of attempts starts at 0, and not at 1 as it does with a
\* block, for a session in the middle of an incident.
Afresh == [t \in Site |-> IF sess[t].st \in {"COOLDOWN", "RECOVERABLE", "RECOVERING"}
                          THEN -1 ELSE 0]

\* The tail of verifyCapture: attempts and fallback start afresh.
Renewed(b) == [b EXCEPT !.attempts = 0, !.fallback = FALSE]
Verified(s) ==
    /\ SaveBudget(Renewed(budget))
    /\ sess' = [sess EXCEPT ![s] = Resting("DETACHED")]
    /\ tries' = [Afresh EXCEPT ![s] = 0]

\* The classes after which a card may be tried once more.
CardSurvives(o) ==
    \/ IsRetryableBlock(Effective(o), o.network)
    \/ Effective(o) \in {"LOGIN_WALL", "ACCOUNT_MISMATCH", "ACCESS_DENIED", "UNKNOWN"}

\* finishHandoffVerify.  Whatever the answer, its header is passed over and the
\* budget stays, but for a verified login.  The card of one that is not verified
\* waits for another try, or has had its last; a capture may fail, and so may the
\* adapter.
FinishHandoff(s) ==
    /\ sess[s].st = "CONFIRMING"
    /\ \/ \E o \in Answers :
             /\ dropped' = PassedWhole(o.retryAfter)
             /\ \/ ProbeVerified(o) /\ Verified(s)
                \/ To(s, "NEEDS_LOGIN") /\ UNCHANGED budget
                \/ /\ ~ProbeVerified(o) /\ CardSurvives(o)
                   /\ To(s, "HANDOFF_WAIT") /\ UNCHANGED budget
       \/ To(s, "RECOVERABLE") /\ UNCHANGED <<budget, dropped>>
    /\ UNCHANGED <<now, acting, probes, cards, asked, review>>

-----------------------------------------------------------------------------
(* The runner. *)

Attach(s) ==
    /\ sess[s].st = "DETACHED"
    /\ now >= budget.nextAllowed
    /\ To(s, "ATTACHING")
    /\ UNCHANGED <<now, acting, budget, probes, cards, asked, review, dropped>>

Calm(b) == ~b.blocked \/ now - b.lastBlock >= BlockFreeReset

\* finishAttach: a verified attach after a calm time starts everything afresh.
FinishAttach(s) ==
    /\ sess[s].st = "ATTACHING"
    /\ \/ \E o \in Answers :
          LET b == Review(budget, o)
          IN \/ /\ ProbeVerified(o)
                /\ sess' = [sess EXCEPT ![s] = Resting("ACTIVE")]
                /\ SaveBudget(IF Calm(b) THEN [Renewed(b) EXCEPT !.manual = FALSE] ELSE b)
                /\ review' = (~Calm(b) /\ (review \/ o.retryAfter.kind = "oversized"))
                /\ dropped' = IF Calm(b) THEN 0 ELSE Passed(o.retryAfter)
                /\ tries' = IF Calm(b) THEN Afresh ELSE tries
                /\ UNCHANGED <<cards, asked>>
             \/ /\ ~ProbeVerified(o)
                /\ CommitBlockDetected(s, b, o, FALSE)
       \/ To(s, "RECOVERABLE") /\ UNCHANGED <<budget, cards, asked, review, dropped>>
    /\ UNCHANGED <<now, acting, probes>>

\* step, up to the dispatch of its action.
StartStep(s) ==
    /\ sess[s].st = "ACTIVE" /\ s \notin acting /\ Cardinality(acting) < MaxActing
    /\ acting' = acting \cup {s}
    /\ UNCHANGED <<now, sess, budget, probes, cards, asked, review, dropped, tries>>

\* The rest of step: the answer is committed on the session as it is by now,
\* whatever state it has come to while the action was at the browser.
FinishStep(s) ==
    /\ s \in acting
    /\ acting' = acting \ {s}
    /\ \E o \in Answers :
         \/ /\ Classify(o) = "NONE"
            /\ To(s, "ACTIVE")
            /\ SaveBudget(Review(budget, o))
            /\ review' = (review \/ o.retryAfter.kind = "oversized")
            /\ dropped' = Passed(o.retryAfter)
            /\ UNCHANGED <<cards, asked>>
         \/ /\ Classify(o) # "NONE"
            /\ CommitBlockDetected(s, Review(budget, o), o, FALSE)
    /\ UNCHANGED <<now, probes>>

-----------------------------------------------------------------------------
(* Recovery. *)

\* tick: the session's own cooldown has passed.
CooldownElapsed(s) ==
    /\ sess[s].st = "COOLDOWN"
    /\ now >= sess[s].block.retryAt
    /\ sess' = [sess EXCEPT ![s] = [st |-> "RECOVERABLE",
                                     block |-> [@.block EXCEPT !.retryAt = 0]]]
    /\ UNCHANGED <<now, acting, budget, probes, cards, asked, review, dropped, tries>>

\* Mutant: the starts are counted in a window open at its end.
MayProbeOpenWindow(b) ==
    /\ now >= b.nextAllowed
    /\ Cardinality({x \in b.probes : x[1] + ProbeWindow > now}) < PROBE_MAX
    /\ ~b.manual

\* What recover asks of the budget.
MayProbe(b) ==
    /\ now >= b.nextAllowed
    /\ Cardinality(Inside(b.probes, ProbeWindow)) < PROBE_MAX
    /\ ~b.manual

\* recover(retry | fallback)
Recover(s, intent) ==
    LET k == sess[s].block
        fallback == intent = "fallback"
    IN  /\ sess[s].st = "RECOVERABLE" /\ k # NoBlock
        /\ IF fallback
           THEN IsFallbackEligible(k.class, k.network) /\ ~k.fallback /\ ~budget.fallback
           ELSE IsRetryableBlock(k.class, k.network)
        /\ MayProbe(budget)
        /\ SaveBudget([budget EXCEPT !.probes = @ \cup {NewStart(@)},
                                     !.fallback = @ \/ fallback])
        /\ sess' = [sess EXCEPT ![s] = Resting("RECOVERING")]
        /\ probes' = probes \cup {NewStart(budget.probes)}
        /\ tries' = [tries EXCEPT ![s] = @ + 1]
        /\ UNCHANGED <<now, acting, cards, asked, review, dropped>>

\* finishRecovery.  A verified probe is followed by a capture; if that fails, or
\* the adapter does, the incident ends with recovery.exhausted.
FinishRecovery(s) ==
    /\ sess[s].st = "RECOVERING"
    /\ \/ \E o \in Answers :
             \/ /\ ProbeVerified(o)
                /\ dropped' = PassedWhole(o.retryAfter)
                /\ Verified(s) \/ (To(s, "RECOVERABLE") /\ UNCHANGED budget)
                /\ UNCHANGED <<cards, asked, review>>
             \/ /\ ~ProbeVerified(o)
                /\ CommitBlockDetected(s, Review(budget, o), o, TRUE)
       \/ To(s, "RECOVERABLE") /\ UNCHANGED <<budget, cards, asked, review, dropped>>
    /\ UNCHANGED <<now, acting, probes>>

-----------------------------------------------------------------------------
\* detach, a lost lease, an acknowledged operation.
Detach(s) ==
    /\ sess[s].st \in {"ATTACHING", "ACTIVE"}
    /\ To(s, "DETACHED")
    /\ UNCHANGED <<now, acting, budget, probes, cards, asked, review, dropped>>

\* A card cancelled or expired, a changed policy, an expired snapshot or consent.
Lapse(s) ==
    /\ sess[s].st \notin {"DELETED", "NEEDS_LOGIN"}
    /\ To(s, "NEEDS_LOGIN")
    /\ UNCHANGED <<now, acting, budget, probes, cards, asked, review, dropped>>

\* revoke and deleteSession: the budget stays.
Delete(s) ==
    /\ sess[s].st # "DELETED"
    /\ To(s, "DELETED")
    /\ UNCHANGED <<now, acting, budget, probes, cards, asked, review, dropped>>

Tick ==
    /\ now < MaxTime
    /\ now' = now + 1
    /\ probes' = {x \in probes : now' - x[1] <= ProbeWindow}
    /\ cards' = {x \in cards : now' - x[1] <= HandoffWindow}
    /\ dropped' = IF dropped <= now' THEN 0 ELSE dropped
    /\ UNCHANGED <<sess, acting, budget, asked, review, tries>>

Next ==
    \/ \E s \in Site :
        \/ CreateSession(s) \/ Reauth(s) \/ Ready(s) \/ FinishHandoff(s)
        \/ Attach(s) \/ FinishAttach(s) \/ StartStep(s) \/ FinishStep(s)
        \/ CooldownElapsed(s) \/ FinishRecovery(s)
        \/ \E intent \in {"retry", "fallback"} : Recover(s, intent)
        \/ Detach(s) \/ Lapse(s) \/ Delete(s)
    \/ Tick

Spec == Init /\ [][Next]_vars

-----------------------------------------------------------------------------
\* However many sessions share an origin, and however often they are deleted and
\* made again, no window, its two ends included, sees more recovery probes than
\* PROBE_MAX.
ProbesBounded == Cardinality(probes) <= PROBE_MAX

\* Nor does it see more handoff cards than HANDOFF_MAX, whichever of createSession,
\* recover and a login wall makes them.
CardsBounded == Cardinality(cards) <= HANDOFF_MAX

\* A Retry-After that came with a retryable block, met by an attach, an action or
\* a recovery probe, binds every session of the origin: none starts an attach, a
\* handoff's verification or a recovery probe before the time asked for.  Nothing
\* is said of a header that came with any other class, or in the verification of
\* a handoff: commitBlockDetected and finishHandoffVerify pass those over.
AskedIsHonoured ==
    [][\A s \in Site : sess'[s].st \in Probing /\ sess'[s].st # sess[s].st => now >= asked]_vars

\* Once such a block has asked for a wait that cannot be honoured, or an attach,
\* an action or a failed recovery probe has met an oversized header, no session
\* starts a recovery probe until an attach was verified after a calm time.
\* Nothing is said of handoffs and of recovery probes that verified the login:
\* finishHandoffVerify and finishRecovery pass their headers over.
ReviewHolds ==
    [][\A s \in Site : sess'[s].st = "RECOVERING" /\ sess[s].st # "RECOVERING" => ~review]_vars

\* The same of every header: src/README.md:32, "`Retry-After` honored but never past
\* `max_server_wait_ms`".  Neither is true of the code (README, section 6).
EveryWaitIsHonoured ==
    [][\A s \in Site : sess'[s].st \in Probing /\ sess'[s].st # sess[s].st
           => now >= asked /\ (now >= dropped \/ dropped = Never)]_vars
EveryReviewHolds ==
    [][\A s \in Site : sess'[s].st = "RECOVERING" /\ sess[s].st # "RECOVERING"
           => ~review /\ dropped # Never]_vars

\* An incident ends after two retries and one fallback, whatever blocks the probes
\* meet and in whichever order; a login verified for another session of the
\* origin allows three retries more and a fallback more, and no further ones.
IncidentBounded == \A s \in Site : tries[s] <= 3
=============================================================================

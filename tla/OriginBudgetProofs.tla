------------------------- MODULE OriginBudgetProofs -------------------------
(***************************************************************************)
(* Proofs about OriginBudget for any number of sites, any answers, clock   *)
(* and windows: what the origin asked for is never beyond what the row     *)
(* forbids, a wait that cannot be honoured leaves the row in review, the   *)
(* row has counted every probe and card still inside its window, and what  *)
(* a session has tried in its incident was paid for out of the row.        *)
(***************************************************************************)
EXTENDS OriginBudget, FiniteSetTheorems, TLAPS

\* The fields of the row; the lists of starts are left open.
Row(b) == b \in [probes : {b.probes}, handoffs : {b.handoffs}, lastBlock : 0..MaxTime,
                 blocked : BOOLEAN, nextAllowed : Nat, attempts : 0..2,
                 fallback : BOOLEAN, manual : BOOLEAN]

\* The row forbids whatever the origin asked to wait for, and holds its review.
Covers(b, until, rev) == Row(b) /\ until <= b.nextAllowed /\ (rev => b.manual)

\* Of a session only its shape is needed.
Shaped(f) == f = [t \in Site |-> [st |-> f[t].st, block |-> f[t].block]]

IndInv ==
    /\ now \in 0..MaxTime
    /\ Shaped(sess)
    /\ asked \in Nat /\ review \in BOOLEAN
    /\ Covers(budget, asked, review)

\* An empty row covers an origin that has asked for nothing.
LEMMA InitInd == Init => IndInv
<1> SUFFICES ASSUME Init PROVE IndInv
  OBVIOUS
<1>1. Row(EmptyBudget)
  BY BudgetAssumption DEF Row, EmptyBudget
<1>2. Shaped(sess)
  BY DEF Init, Shaped, Resting
<1>3. Covers(budget, asked, review)
  BY <1>1 DEF Init, Covers, EmptyBudget
<1>4. now \in 0..MaxTime /\ asked \in Nat
  BY BudgetAssumption DEF Init
<1>5. review \in BOOLEAN
  BY DEF Init
<1> QED BY <1>2, <1>3, <1>4, <1>5 DEF IndInv

\* What a header asks for, and the delay made of it: as long as the clock is far
\* from the limit of the integers, only a wait that cannot be used is refused.
LEMMA DelayHonours ==
    ASSUME now \in 0..MaxTime, NEW class, NEW network, NEW attempt \in 1..3, NEW h \in RetryAfter
    PROVE LET delay == ComputeDelay(class, network, attempt, h, now)
          IN  /\ delay.exhausted \in BOOLEAN /\ delay.retryAt \in Nat
              /\ AskedUntil(h) \in Nat
              /\ delay.exhausted <=> Unusable(h)
              /\ ~Unusable(h) => AskedUntil(h) <= delay.retryAt
<1> DEFINE server == ParseRetryAfter(h, now)
           raw == BaseDelay(class, network) * Doubled[attempt]
           backoff == Smaller(raw, MaxRetryDelay)
           asks == h.n * Second
<1>1. h.n \in Nat /\ asks \in Nat /\ h.kind \in {"absent", "oversized", "seconds", "date", "malformed"}
  BY DelayAssumption DEF RetryAfter
<1>2. raw \in Nat
  <2>1. BaseDelay(class, network) \in Nat
    BY DelayAssumption DEF BaseDelay
  <2>2. Doubled[attempt] \in Nat
    BY DEF Doubled
  <2> QED BY <2>1, <2>2
<1>3. backoff \in Nat /\ backoff <= MaxRetryDelay
  <2> HIDE DEF raw
  <2> QED BY <1>2, DelayAssumption DEF Smaller
<1> HIDE DEF backoff
<1>4. now \in Nat /\ MaxServerWait \in Nat /\ MaxSafe \in Nat /\ now <= MaxTime /\ MaxRetryDelay \in Nat
  BY DelayAssumption, BudgetAssumption
<1>5. /\ server.delay \in Nat
      /\ (server.kind = "overflow" \/ server.delay > MaxServerWait) <=> Unusable(h)
      /\ ~Unusable(h) => AskedUntil(h) <= now + server.delay
  <2>1. CASE h.kind = "seconds"
    <3>1. AskedUntil(h) = now + asks
      BY <2>1 DEF AskedUntil
    <3>2. server = IF asks > MaxSafe THEN [kind |-> "overflow", delay |-> 0]
                   ELSE [kind |-> "ok", delay |-> asks]
      BY <1>1, <1>4, <2>1 DEF ParseRetryAfter
    <3>3. Unusable(h) <=> asks > MaxServerWait
      BY <1>1, <1>4, <2>1, <3>1 DEF Unusable
    <3> HIDE DEF asks, server
    <3> QED BY <1>1, <1>4, <3>1, <3>2, <3>3, ClockAssumption, BudgetAssumption
  <2>2. CASE h.kind = "date"
    <3>1. AskedUntil(h) = h.n
      BY <2>2 DEF AskedUntil
    <3>2. server = [kind |-> "ok", delay |-> IF h.n > now THEN h.n - now ELSE 0]
      BY <2>2 DEF ParseRetryAfter
    <3> HIDE DEF server
    <3> QED BY <1>1, <1>4, <2>2, <3>1, <3>2 DEF Unusable
  <2>3. CASE h.kind \notin {"seconds", "date"}
    <3>1. AskedUntil(h) = 0 /\ ~Unusable(h)
      BY <2>3 DEF AskedUntil, Unusable
    <3>2. server = [kind |-> "none", delay |-> 0]
      BY <2>3 DEF ParseRetryAfter
    <3> HIDE DEF server
    <3> QED BY <1>4, <3>1, <3>2
  <2> QED BY <2>1, <2>2, <2>3
<1> DEFINE delay == ComputeDelay(class, network, attempt, h, now)
           at == now + Larger(backoff, server.delay)
<1>6. delay = IF server.kind = "overflow" \/ server.delay > MaxServerWait \/ at > MaxSafe
              THEN [exhausted |-> TRUE, retryAt |-> 0]
              ELSE [exhausted |-> FALSE, retryAt |-> at]
  BY DEF ComputeDelay, backoff
<1> HIDE DEF server, delay
<1>7. at \in Nat /\ now + server.delay <= at
  BY <1>3, <1>4, <1>5 DEF Larger
<1>8. server.delay <= MaxServerWait => at <= MaxSafe
  BY <1>3, <1>4, <1>5, ClockAssumption, BudgetAssumption DEF Larger
<1> HIDE DEF at
<1>a. AskedUntil(h) \in Nat
  BY <1>1, <1>4 DEF AskedUntil
<1>9. CASE Unusable(h)
  <2>1. delay = [exhausted |-> TRUE, retryAt |-> 0]
    BY <1>5, <1>6, <1>9
  <2> QED BY <1>a, <1>9, <2>1 DEF delay
<1>10. CASE ~Unusable(h)
  <2>1. ~(server.kind = "overflow" \/ server.delay > MaxServerWait)
    BY <1>5, <1>10
  <2>2. at <= MaxSafe
    BY <1>4, <1>5, <1>8, <2>1
  <2>3. delay = [exhausted |-> FALSE, retryAt |-> at]
    BY <1>4, <1>6, <1>7, <2>1, <2>2
  <2>4. AskedUntil(h) <= at
    BY <1>a, <1>4, <1>5, <1>7, <1>10
  <2> QED BY <1>a, <1>7, <1>10, <2>3, <2>4 DEF delay
<1> QED BY <1>9, <1>10

\* Dropping old starts changes nothing else of the row.
LEMMA SavedCovers ==
    ASSUME NEW b, NEW until, NEW rev, Covers(b, until, rev), SaveBudget(b)
    PROVE Covers(budget', until, rev)
<1>1. /\ budget'.lastBlock = b.lastBlock /\ budget'.nextAllowed = b.nextAllowed
      /\ budget'.attempts = b.attempts
  BY DEF SaveBudget, Covers, Row
<1>2. Row(budget')
  BY DEF SaveBudget, Covers, Row
<1>3. rev => budget'.manual
  BY DEF SaveBudget, Covers, Row
<1> QED BY <1>1, <1>2, <1>3 DEF Covers

\* The record of a session that rests.
LEMMA RestingShape == \A state : Resting(state) = [st |-> state, block |-> NoBlock]
  BY DEF Resting

\* One session moves and the others stay.
LEMMA MovedShape ==
    ASSUME Shaped(sess), NEW s \in Site, NEW state, NEW block,
           sess' = [sess EXCEPT ![s] = [st |-> state, block |-> block]]
    PROVE Shaped(sess)' /\ sess'[s].st = state /\ \A t \in Site \ {s} : sess'[t] = sess[t]
  BY DEF Shaped

\* The row after a retryable block covers what came with it.
LEMMA ScheduledCovers ==
    ASSUME NEW b, NEW delay, NEW attempt \in 1..3, NEW until \in Nat, NEW more \in Nat,
           NEW rev \in BOOLEAN, Covers(b, until, rev),
           delay.exhausted \in BOOLEAN, delay.retryAt \in Nat,
           ~delay.exhausted => more <= delay.retryAt
    PROVE Covers(Scheduled(b, delay, attempt),
                 IF delay.exhausted THEN until ELSE Larger(until, more),
                 rev \/ delay.exhausted)
<1> DEFINE n == Scheduled(b, delay, attempt)
<1>1. /\ n.attempts = Smaller(2, attempt)
      /\ n.nextAllowed = (IF delay.exhausted THEN b.nextAllowed ELSE Larger(b.nextAllowed, delay.retryAt))
      /\ n.lastBlock = b.lastBlock
  BY DEF Scheduled, Covers, Row
<1>2. n.manual = (b.manual \/ delay.exhausted)
  BY DEF Scheduled, Covers, Row
<1>3. Row(n)
  <2>1. Smaller(2, attempt) \in 0..2
    BY DEF Smaller
  <2>2. (IF delay.exhausted THEN b.nextAllowed ELSE Larger(b.nextAllowed, delay.retryAt)) \in Nat
    BY DEF Covers, Row, Larger
  <2>3. (b.manual \/ delay.exhausted) \in BOOLEAN
    OBVIOUS
  <2> QED BY <2>1, <2>2, <2>3 DEF Scheduled, Covers, Row
<1>4. (IF delay.exhausted THEN until ELSE Larger(until, more)) <= n.nextAllowed
  <2>1. b.nextAllowed \in Nat /\ until <= b.nextAllowed
    BY DEF Covers, Row
  <2> QED BY <1>1, <2>1 DEF Larger
<1>5. rev \/ delay.exhausted => n.manual
  <2>1. rev => b.manual
    BY DEF Covers
  <2> QED BY <1>2, <2>1
<1> QED BY <1>3, <1>4, <1>5 DEF Covers

\* Marking a block or making a card leaves what the row covers.
LEMMA MarkedCovers ==
    ASSUME NEW b, NEW until, NEW rev, Covers(b, until, rev), now \in 0..MaxTime
    PROVE /\ Covers([b EXCEPT !.lastBlock = now, !.blocked = TRUE], until, rev)
          /\ Covers(AddCard(b), until, rev)
<1> DEFINE m == [b EXCEPT !.lastBlock = now, !.blocked = TRUE]
           a == AddCard(b)
<1>1. m.nextAllowed = b.nextAllowed /\ a.nextAllowed = b.nextAllowed
  BY DEF Covers, Row, AddCard
<1>2. Row(m)
  BY DEF Covers, Row
<1>3. Row(a)
  BY DEF Covers, Row, AddCard
<1>4. rev => m.manual /\ a.manual
  BY DEF Covers, Row, AddCard
<1> QED BY <1>1, <1>2, <1>3, <1>4 DEF Covers

\* An oversized header puts the row in review before its class is looked at.
LEMMA ReviewCovers ==
    ASSUME Covers(budget, asked, review), NEW o
    PROVE Covers(Review(budget, o), asked, review \/ o.retryAfter.kind = "oversized")
<1> DEFINE m == Review(budget, o)
<1>1. m.nextAllowed = budget.nextAllowed
  BY DEF Covers, Row, Review
<1>2. m.manual = (budget.manual \/ o.retryAfter.kind = "oversized")
  BY DEF Covers, Row, Review
<1>3. Row(m)
  <2>1. (budget.manual \/ o.retryAfter.kind = "oversized") \in BOOLEAN
    OBVIOUS
  <2> QED BY <2>1 DEF Covers, Row, Review
<1> QED BY <1>1, <1>2, <1>3 DEF Covers

\* What an action does to its session and to the origin.
Leaves(s) ==
    /\ Shaped(sess)'
    /\ \A t \in Site \ {s} : sess'[t] = sess[t]
    /\ asked' \in Nat /\ review' \in BOOLEAN
    /\ Covers(budget, asked, review)'

\* A block of any class: the row covers what it asked for, and nothing is probed.
LEMMA CommitLeaves ==
    ASSUME IndInv, NEW s \in Site, NEW o \in Answers, NEW recovering \in BOOLEAN,
           CommitBlockDetected(s, Review(budget, o), o, recovering)
    PROVE Leaves(s) /\ sess'[s].st \notin Probing
<1> DEFINE class == Effective(o)
           h == o.retryAfter
           rev == review \/ h.kind = "oversized"
           b == [Review(budget, o) EXCEPT !.lastBlock = now, !.blocked = TRUE]
           attempt == IF recovering THEN b.attempts + 1 ELSE Larger(1, b.attempts)
           delay == ComputeDelay(class, o.network, attempt, h, now)
           retryable == IsRetryableBlock(class, o.network)
<1>1. now \in 0..MaxTime /\ Shaped(sess) /\ asked \in Nat /\ review \in BOOLEAN
  BY DEF IndInv
<1>2. Covers(b, asked, rev)
  <2>1. Covers(Review(budget, o), asked, rev)
    BY ReviewCovers DEF IndInv
  <2> HIDE DEF rev
  <2> QED BY <1>1, <2>1, MarkedCovers
<1>3. h \in RetryAfter
  BY BudgetAssumption DEF Observation
<1>4. attempt \in 1..3
  <2> HIDE DEF b
  <2> QED BY <1>2 DEF Covers, Row, Larger
<1>5. /\ delay.exhausted \in BOOLEAN /\ delay.retryAt \in Nat /\ AskedUntil(h) \in Nat
      /\ delay.exhausted <=> Unusable(h)
      /\ ~Unusable(h) => AskedUntil(h) <= delay.retryAt
  <2> HIDE DEF attempt, h, class
  <2> QED BY <1>1, <1>3, <1>4, DelayHonours
<1>6. /\ asked' = IF retryable /\ ~Unusable(h) THEN Larger(asked, AskedUntil(h)) ELSE asked
      /\ review' = (rev \/ (retryable /\ Unusable(h)))
  BY DEF CommitBlockDetected, Heed
<1>7. asked' \in Nat /\ review' \in BOOLEAN
  <2>1. asked' \in Nat
    BY <1>1, <1>5, <1>6 DEF Larger
  <2>2. review' \in BOOLEAN
    BY <1>6
  <2> QED BY <2>1, <2>2
<1>8. ASSUME retryable, SaveBudget(Scheduled(b, delay, attempt))
      PROVE Covers(budget, asked, review)'
  <2>1. Covers(Scheduled(b, delay, attempt),
               IF delay.exhausted THEN asked ELSE Larger(asked, AskedUntil(h)),
               rev \/ delay.exhausted)
    <3> HIDE DEF b, delay, attempt, h, rev
    <3>1. rev \in BOOLEAN
      BY DEF rev
    <3> QED BY <1>1, <1>2, <1>4, <1>5, <3>1, ScheduledCovers
  <2> HIDE DEF b, delay, attempt, h, rev, retryable
  <2>2. asked' = IF delay.exhausted THEN asked ELSE Larger(asked, AskedUntil(h))
    BY <1>5, <1>6, <1>8
  <2>3. review' => rev \/ delay.exhausted
    BY <1>5, <1>6, <1>8
  <2>4. Covers(budget', asked', rev \/ delay.exhausted)
    BY <1>8, <2>1, <2>2, SavedCovers
  <2> QED BY <2>3, <2>4 DEF Covers
<1>9. ASSUME ~retryable, SaveBudget(b) \/ SaveBudget(AddCard(b))
      PROVE Covers(budget, asked, review)'
  <2> HIDE DEF b, rev, h, retryable
  <2>1. asked' = asked /\ (review' => rev)
    BY <1>6, <1>9
  <2>2. Covers(AddCard(b), asked, rev)
    BY <1>1, <1>2, MarkedCovers
  <2>3. Covers(budget', asked, rev)
    BY <1>2, <1>9, <2>2, SavedCovers
  <2> QED BY <2>1, <2>3 DEF Covers
<1>10. /\ \/ retryable /\ SaveBudget(Scheduled(b, delay, attempt))
          \/ ~retryable /\ (SaveBudget(b) \/ SaveBudget(AddCard(b)))
       /\ \E state \in {"RECOVERABLE", "COOLDOWN", "HANDOFF_WAIT", "NEEDS_LOGIN"} : \E block :
             sess' = [sess EXCEPT ![s] = [st |-> state, block |-> block]]
  BY DEF CommitBlockDetected, IsRetryableBlock, Resting
<1>11. Shaped(sess)' /\ sess'[s].st \notin Probing /\ \A t \in Site \ {s} : sess'[t] = sess[t]
  <2>1. PICK state \in {"RECOVERABLE", "COOLDOWN", "HANDOFF_WAIT", "NEEDS_LOGIN"} : \E block :
           sess' = [sess EXCEPT ![s] = [st |-> state, block |-> block]]
    BY <1>10
  <2> QED BY <1>1, <2>1, MovedShape DEF Probing
<1>12. Covers(budget, asked, review)'
  <2> HIDE DEF b, delay, attempt, h, rev, retryable
  <2> QED BY <1>8, <1>9, <1>10
<1> QED BY <1>7, <1>11, <1>12 DEF Leaves

\* What a step of a session may do: besides, what it starts is allowed.
Allowed(s) ==
    /\ sess'[s].st \in Probing /\ sess'[s].st # sess[s].st => now >= asked
    /\ sess'[s].st = "RECOVERING" /\ sess[s].st # "RECOVERING" => ~review
Stepped(s) == now' = now /\ Leaves(s) /\ Allowed(s)

\* A session that rests, with the row and what was asked for left alone.
LEMMA QuietStep ==
    ASSUME IndInv, NEW s \in Site, NEW state, state \notin Probing, To(s, state),
           UNCHANGED <<now, budget, asked, review>>
    PROVE Stepped(s)
<1>1. sess' = [sess EXCEPT ![s] = [st |-> state, block |-> NoBlock]]
  BY DEF To, Resting
<1>2. Shaped(sess)' /\ sess'[s].st = state /\ \A t \in Site \ {s} : sess'[t] = sess[t]
  BY <1>1, MovedShape DEF IndInv
<1>3. asked' \in Nat /\ review' \in BOOLEAN /\ Covers(budget, asked, review)'
  BY DEF IndInv
<1> QED BY <1>2, <1>3 DEF Stepped, Leaves, Allowed, Probing

\* A session that rests, with a row that covers as much.
LEMMA SavedStep ==
    ASSUME IndInv, NEW s \in Site, NEW state, state \notin Probing,
           sess' = [sess EXCEPT ![s] = Resting(state)],
           NEW b, Covers(b, asked, review), SaveBudget(b), UNCHANGED <<now, asked, review>>
    PROVE Stepped(s)
<1>1. sess' = [sess EXCEPT ![s] = [st |-> state, block |-> NoBlock]]
  BY DEF Resting
<1>2. Shaped(sess)' /\ sess'[s].st = state /\ \A t \in Site \ {s} : sess'[t] = sess[t]
  BY <1>1, MovedShape DEF IndInv
<1>3. asked' \in Nat /\ review' \in BOOLEAN
  BY DEF IndInv
<1>4. Covers(budget, asked, review)'
  BY SavedCovers
<1> QED BY <1>2, <1>3, <1>4 DEF Stepped, Leaves, Allowed, Probing

\* Cards.
LEMMA CardSteps ==
    ASSUME IndInv, NEW s \in Site, CreateSession(s) \/ Reauth(s)
    PROVE Stepped(s)
<1>1. Covers(AddCard(budget), asked, review)
  BY MarkedCovers DEF IndInv
<1>2. CASE CreateSession(s) /\ CanCard(budget)
  BY <1>1, <1>2, SavedStep DEF CreateSession, To, Probing
<1>3. CASE CreateSession(s) /\ ~CanCard(budget)
  BY <1>3, QuietStep DEF CreateSession, Probing
<1>4. CASE Reauth(s)
  BY <1>1, <1>4, SavedStep DEF Reauth, To, Probing
<1> QED BY <1>2, <1>3, <1>4

\* A start of a probe that looks at the row first.
LEMMA GuardedStep ==
    ASSUME IndInv, NEW s \in Site, NEW state, To(s, state), state # "RECOVERING",
           now >= budget.nextAllowed, UNCHANGED <<now, budget, asked, review>>
    PROVE Stepped(s)
<1>1. sess' = [sess EXCEPT ![s] = [st |-> state, block |-> NoBlock]]
  BY DEF To, Resting
<1>2. Shaped(sess)' /\ sess'[s].st = state /\ \A t \in Site \ {s} : sess'[t] = sess[t]
  BY <1>1, MovedShape DEF IndInv
<1>3. asked' \in Nat /\ review' \in BOOLEAN /\ Covers(budget, asked, review)'
  BY DEF IndInv
<1>4. now >= asked
  BY DEF IndInv, Covers, Row
<1> QED BY <1>2, <1>3, <1>4 DEF Stepped, Leaves, Allowed

\* resolveHandoff(ready) and attach look at the next allowed time.
LEMMA AttachSteps ==
    ASSUME IndInv, NEW s \in Site, Ready(s) \/ Attach(s)
    PROVE Stepped(s)
  BY GuardedStep DEF Ready, Attach

\* A login that was verified starts attempts and fallback afresh, nothing else.
LEMMA RenewedCovers ==
    ASSUME NEW b, NEW until, NEW rev, Covers(b, until, rev)
    PROVE /\ Covers(Renewed(b), until, rev)
          /\ Covers([Renewed(b) EXCEPT !.manual = FALSE], until, FALSE)
<1> DEFINE m == Renewed(b)
           n == [Renewed(b) EXCEPT !.manual = FALSE]
<1>1. m.nextAllowed = b.nextAllowed /\ n.nextAllowed = b.nextAllowed
  BY DEF Covers, Row, Renewed
<1>2. m.manual = b.manual
  BY DEF Covers, Row, Renewed
<1>3. Row(m)
  <2>1. 0 \in 0..2
    OBVIOUS
  <2> QED BY <2>1 DEF Covers, Row, Renewed
<1>4. Row(n)
  <2> HIDE DEF m
  <2>1. n = [m EXCEPT !.manual = FALSE]
    BY DEF m
  <2> QED BY <1>3, <2>1 DEF Row
<1> QED BY <1>1, <1>2, <1>3, <1>4 DEF Covers

\* The tail of verifyCapture brings the session to rest.
LEMMA VerifiedStep ==
    ASSUME IndInv, NEW s \in Site, Verified(s), UNCHANGED <<now, asked, review>>
    PROVE Stepped(s)
<1>1. Covers(Renewed(budget), asked, review)
  BY RenewedCovers DEF IndInv
<1> QED BY <1>1, SavedStep DEF Verified, Probing

\* A handoff's verification, whatever comes of it.
LEMMA FinishHandoffStep ==
    ASSUME IndInv, NEW s \in Site, FinishHandoff(s)
    PROVE Stepped(s)
<1>1. CASE Verified(s)
  BY <1>1, VerifiedStep DEF FinishHandoff
<1>2. ASSUME NEW state \in {"HANDOFF_WAIT", "NEEDS_LOGIN", "RECOVERABLE"}, To(s, state),
             UNCHANGED budget
      PROVE  Stepped(s)
  BY <1>2, QuietStep DEF FinishHandoff, Probing
<1> QED BY <1>1, <1>2 DEF FinishHandoff

\* A block leaves the session where nothing is probed.
LEMMA BlockedStep ==
    ASSUME IndInv, NEW s \in Site, NEW o \in Answers, NEW recovering \in BOOLEAN,
           CommitBlockDetected(s, Review(budget, o), o, recovering), UNCHANGED now
    PROVE Stepped(s)
<1>1. Leaves(s) /\ sess'[s].st \notin Probing
  BY CommitLeaves
<1> QED BY <1>1 DEF Stepped, Allowed, Probing

\* A verified attach ends the review only after a calm time, and with it the row's.
LEMMA FinishAttachStep ==
    ASSUME IndInv, NEW s \in Site, FinishAttach(s)
    PROVE Stepped(s)
<1>1. CASE \E o \in Answers :
             LET b == Review(budget, o)
             IN /\ sess' = [sess EXCEPT ![s] = Resting("ACTIVE")]
                /\ SaveBudget(IF Calm(b) THEN [Renewed(b) EXCEPT !.manual = FALSE] ELSE b)
                /\ review' = (~Calm(b) /\ (review \/ o.retryAfter.kind = "oversized"))
                /\ UNCHANGED asked
  <2>1. PICK o \in Answers :
             LET b == Review(budget, o)
             IN /\ sess' = [sess EXCEPT ![s] = Resting("ACTIVE")]
                /\ SaveBudget(IF Calm(b) THEN [Renewed(b) EXCEPT !.manual = FALSE] ELSE b)
                /\ review' = (~Calm(b) /\ (review \/ o.retryAfter.kind = "oversized"))
                /\ UNCHANGED asked
    BY <1>1
  <2> DEFINE b == Review(budget, o)
             rev == review \/ o.retryAfter.kind = "oversized"
             n == IF Calm(b) THEN [Renewed(b) EXCEPT !.manual = FALSE] ELSE b
  <2>2. Covers(b, asked, rev)
    BY ReviewCovers DEF IndInv
  <2>3. SaveBudget(n) /\ review' = (~Calm(b) /\ rev) /\ asked' = asked
    BY <2>1
  <2>4. Covers(n, asked, ~Calm(b) /\ rev)
    <3> HIDE DEF b, rev
    <3>1. CASE Calm(b)
      <4>1. Covers([Renewed(b) EXCEPT !.manual = FALSE], asked, FALSE)
        BY <2>2, RenewedCovers
      <4> QED BY <3>1, <4>1 DEF Covers
    <3>2. CASE ~Calm(b)
      BY <2>2, <3>2 DEF Covers
    <3> QED BY <3>1, <3>2
  <2>5. Covers(budget', asked, ~Calm(b) /\ rev)
    <3> HIDE DEF n
    <3> QED BY <2>3, <2>4, SavedCovers
  <2>6. Covers(budget, asked, review)'
    <3> HIDE DEF b, rev, n
    <3> QED BY <2>3, <2>5 DEF Covers
  <2>7. asked' \in Nat /\ review' \in BOOLEAN
    <3>1. asked' \in Nat
      BY <2>3 DEF IndInv
    <3>2. review' \in BOOLEAN
      BY <2>3
    <3> QED BY <3>1, <3>2
  <2>8. sess' = [sess EXCEPT ![s] = [st |-> "ACTIVE", block |-> NoBlock]]
    BY <2>1 DEF Resting
  <2>9. Shaped(sess)' /\ sess'[s].st = "ACTIVE" /\ \A t \in Site \ {s} : sess'[t] = sess[t]
    BY <2>8, MovedShape DEF IndInv
  <2> QED BY <2>6, <2>7, <2>9 DEF FinishAttach, Stepped, Leaves, Allowed, Probing
<1>2. CASE \E o \in Answers : CommitBlockDetected(s, Review(budget, o), o, FALSE)
  BY <1>2, BlockedStep DEF FinishAttach
<1>3. CASE To(s, "RECOVERABLE") /\ UNCHANGED <<budget, asked, review>>
  BY <1>3, QuietStep DEF FinishAttach, Probing
<1> QED BY <1>1, <1>2, <1>3 DEF FinishAttach

\* An action at the browser starts without touching the row.
LEMMA StartStepStep ==
    ASSUME IndInv, NEW s \in Site, StartStep(s)
    PROVE Stepped(s)
  BY DEF StartStep, IndInv, Stepped, Leaves, Allowed

\* An action's answer, on whatever state the session has come to.
LEMMA FinishStepStep ==
    ASSUME IndInv, NEW s \in Site, FinishStep(s)
    PROVE Stepped(s)
<1>1. PICK o \in Answers :
         \/ /\ To(s, "ACTIVE")
            /\ SaveBudget(Review(budget, o))
            /\ review' = (review \/ o.retryAfter.kind = "oversized")
            /\ UNCHANGED <<cards, asked>>
         \/ CommitBlockDetected(s, Review(budget, o), o, FALSE)
  BY DEF FinishStep
<1>2. CASE CommitBlockDetected(s, Review(budget, o), o, FALSE)
  BY <1>2, BlockedStep DEF FinishStep
<1>3. CASE /\ To(s, "ACTIVE")
           /\ SaveBudget(Review(budget, o))
           /\ review' = (review \/ o.retryAfter.kind = "oversized")
           /\ UNCHANGED <<cards, asked>>
  <2>1. Covers(Review(budget, o), asked, review \/ o.retryAfter.kind = "oversized")
    BY ReviewCovers DEF IndInv
  <2>2. Covers(budget', asked, review \/ o.retryAfter.kind = "oversized")
    BY <1>3, <2>1, SavedCovers
  <2>3. Covers(budget, asked, review)'
    BY <1>3, <2>2
  <2>4. asked' \in Nat /\ review' \in BOOLEAN
    BY <1>3 DEF IndInv
  <2>5. sess' = [sess EXCEPT ![s] = [st |-> "ACTIVE", block |-> NoBlock]]
    BY <1>3 DEF To, Resting
  <2>6. Shaped(sess)' /\ sess'[s].st = "ACTIVE" /\ \A t \in Site \ {s} : sess'[t] = sess[t]
    BY <2>5, MovedShape DEF IndInv
  <2> QED BY <2>3, <2>4, <2>6 DEF FinishStep, Stepped, Leaves, Allowed, Probing
<1> QED BY <1>1, <1>2, <1>3

\* A cooldown that has passed only names the next state.
LEMMA CooldownElapsedStep ==
    ASSUME IndInv, NEW s \in Site, CooldownElapsed(s)
    PROVE Stepped(s)
<1>1. /\ Shaped(sess) /\ asked' \in Nat /\ review' \in BOOLEAN
      /\ Covers(budget, asked, review)' /\ now' = now
  BY DEF CooldownElapsed, IndInv
<1>2. \E block : sess' = [sess EXCEPT ![s] = [st |-> "RECOVERABLE", block |-> block]]
  BY DEF CooldownElapsed
<1>3. Shaped(sess)' /\ sess'[s].st = "RECOVERABLE" /\ \A t \in Site \ {s} : sess'[t] = sess[t]
  BY <1>1, <1>2, MovedShape
<1> QED BY <1>1, <1>3 DEF Stepped, Leaves, Allowed, Probing

\* recover looks at the next allowed time and at the review.
LEMMA RecoverStep ==
    ASSUME IndInv, NEW s \in Site, NEW intent, Recover(s, intent)
    PROVE Stepped(s)
<1> DEFINE fallback == intent = "fallback"
           b == [budget EXCEPT !.probes = @ \cup {NewStart(@)}, !.fallback = @ \/ fallback]
<1>1. /\ SaveBudget(b) /\ UNCHANGED <<now, asked, review>>
      /\ now >= budget.nextAllowed /\ ~budget.manual
      /\ sess' = [sess EXCEPT ![s] = [st |-> "RECOVERING", block |-> NoBlock]]
  BY DEF Recover, MayProbe, Resting
<1>2. Covers(b, asked, review)
  <2>1. b.nextAllowed = budget.nextAllowed
    BY DEF IndInv, Covers, Row
  <2>2. b.manual = budget.manual
    BY DEF IndInv, Covers, Row
  <2>3. Row(b)
    <3>1. (budget.fallback \/ fallback) \in BOOLEAN
      OBVIOUS
    <3> QED BY <3>1 DEF IndInv, Covers, Row
  <2> HIDE DEF b
  <2> QED BY <2>1, <2>2, <2>3 DEF IndInv, Covers
<1> HIDE DEF b
<1>3. Covers(budget', asked, review)
  BY <1>1, <1>2, SavedCovers
<1>4. Covers(budget, asked, review)' /\ asked' \in Nat /\ review' \in BOOLEAN
  BY <1>1, <1>3 DEF IndInv
<1>5. Shaped(sess)' /\ sess'[s].st = "RECOVERING" /\ \A t \in Site \ {s} : sess'[t] = sess[t]
  BY <1>1, MovedShape DEF IndInv
<1>6. now >= asked
  BY <1>1 DEF IndInv, Covers, Row
<1>7. ~review
  BY <1>1 DEF IndInv, Covers
<1> QED BY <1>1, <1>4, <1>5, <1>6, <1>7 DEF Stepped, Leaves, Allowed

\* A recovery's probe, whatever comes of it.
LEMMA FinishRecoveryStep ==
    ASSUME IndInv, NEW s \in Site, FinishRecovery(s)
    PROVE Stepped(s)
<1>1. CASE Verified(s) /\ UNCHANGED <<cards, asked, review>>
  BY <1>1, VerifiedStep DEF FinishRecovery
<1>2. ASSUME NEW o \in Answers, CommitBlockDetected(s, Review(budget, o), o, TRUE)
      PROVE  Stepped(s)
  BY <1>2, BlockedStep DEF FinishRecovery
<1>3. CASE To(s, "RECOVERABLE") /\ UNCHANGED <<budget, asked, review>>
  BY <1>3, QuietStep DEF FinishRecovery, Probing
<1> QED BY <1>1, <1>2, <1>3 DEF FinishRecovery

\* The ways out leave the row alone.
LEMMA LeavingSteps ==
    ASSUME IndInv, NEW s \in Site, Detach(s) \/ Lapse(s) \/ Delete(s)
    PROVE Stepped(s)
  BY QuietStep DEF Detach, Lapse, Delete, Probing

\* Every step is a session's, the clock's, or none.
LEMMA StepCases ==
    ASSUME IndInv, [Next]_vars
    PROVE \/ \E s \in Site : Stepped(s)
          \/ Tick
          \/ UNCHANGED vars
<1>1. CASE Tick
  BY <1>1
<1>2. ASSUME NEW s \in Site,
             \/ CreateSession(s) \/ Reauth(s) \/ Ready(s) \/ FinishHandoff(s)
             \/ Attach(s) \/ FinishAttach(s) \/ StartStep(s) \/ FinishStep(s)
             \/ CooldownElapsed(s) \/ FinishRecovery(s)
             \/ \E intent \in {"retry", "fallback"} : Recover(s, intent)
             \/ Detach(s) \/ Lapse(s) \/ Delete(s)
      PROVE Stepped(s)
  BY <1>2, CardSteps, AttachSteps, FinishHandoffStep, FinishAttachStep, StartStepStep,
     FinishStepStep, CooldownElapsedStep, FinishRecoveryStep, RecoverStep, LeavingSteps
<1> QED BY <1>1, <1>2 DEF Next

\* The invariant is kept.
LEMMA StepInd == IndInv /\ [Next]_vars => IndInv'
<1> SUFFICES ASSUME IndInv, [Next]_vars PROVE IndInv'
  OBVIOUS
<1>1. CASE \E s \in Site : Stepped(s)
  BY <1>1 DEF Stepped, Leaves, IndInv
<1>2. CASE Tick
  BY <1>2, BudgetAssumption DEF Tick, IndInv
<1>3. CASE UNCHANGED vars
  BY <1>3 DEF vars, IndInv
<1> QED BY <1>1, <1>2, <1>3, StepCases

\* What starts in a step was allowed.
LEMMA StepAllowed ==
    ASSUME IndInv, [Next]_vars, NEW s \in Site
    PROVE Allowed(s)
<1>1. CASE \E t \in Site : Stepped(t)
  <2>1. PICK t \in Site : Stepped(t)
    BY <1>1
  <2>2. CASE t = s
    BY <2>1, <2>2 DEF Stepped
  <2>3. CASE t # s
    <3>1. sess'[s] = sess[s]
      BY <2>1, <2>3 DEF Stepped, Leaves
    <3> QED BY <3>1 DEF Allowed
  <2> QED BY <2>2, <2>3
<1>2. CASE Tick
  BY <1>2 DEF Tick, Allowed
<1>3. CASE UNCHANGED vars
  BY <1>3 DEF vars, Allowed
<1> QED BY <1>1, <1>2, <1>3, StepCases

\* In every reachable state the row of the origin covers what the origin asked
\* for, whichever of its sessions the answer was for.
THEOREM RowCovers == Spec => []IndInv
<1> QED BY InitInd, StepInd, PTL DEF Spec

\* A Retry-After that came with a retryable block binds every session of the
\* origin, for any number of sites, answers, windows and delays: attach,
\* resolveHandoff(ready) and recover all wait for it.
THEOREM WaitsAreHonoured == Spec => AskedIsHonoured
<1>1. IndInv /\ [Next]_vars =>
        [\A s \in Site : sess'[s].st \in Probing /\ sess'[s].st # sess[s].st => now >= asked]_vars
  BY StepAllowed DEF Allowed
<1> QED BY <1>1, RowCovers, PTL DEF Spec, AskedIsHonoured

\* After a wait that cannot be honoured no session of the origin starts a
\* recovery probe before an attach was verified after a calm time.
THEOREM ReviewsHold == Spec => ReviewHolds
<1>1. IndInv /\ [Next]_vars =>
        [\A s \in Site : sess'[s].st = "RECOVERING" /\ sess[s].st # "RECOVERING" => ~review]_vars
  BY StepAllowed DEF Allowed
<1> QED BY <1>1, RowCovers, PTL DEF Spec, ReviewHolds

-----------------------------------------------------------------------------
(* What the updates of the row leave alone. *)

Fields(b) ==
    b = [probes |-> b.probes, handoffs |-> b.handoffs, lastBlock |-> b.lastBlock,
         blocked |-> b.blocked, nextAllowed |-> b.nextAllowed, attempts |-> b.attempts,
         fallback |-> b.fallback, manual |-> b.manual]
Starts(m, b) == Fields(m) /\ m.probes = b.probes /\ m.handoffs = b.handoffs
Like(m, b) == Starts(m, b) /\ m.attempts = b.attempts /\ m.fallback = b.fallback

\* A row has its fields.
LEMMA RowFields == IndInv => Fields(budget)
  BY DEF IndInv, Covers, Row, Fields

\* Setting manual leaves the rest alone.
LEMMA SetManual ==
    ASSUME NEW b, Fields(b), NEW v, NEW n, n = [b EXCEPT !.manual = v]
    PROVE  Like(n, b)
  BY DEF Fields, Starts, Like

\* So does setting the mark of a block.
LEMMA SetBlock ==
    ASSUME NEW b, Fields(b), NEW v, NEW w, NEW n, n = [b EXCEPT !.lastBlock = v, !.blocked = w]
    PROVE  Like(n, b)
  BY DEF Fields, Starts, Like

\* The review and the mark of a block.
LEMMA MarkedLike ==
    ASSUME NEW b, Fields(b), NEW o
    PROVE  /\ Like(Review(b, o), b)
           /\ Like([b EXCEPT !.lastBlock = now, !.blocked = TRUE], b)
<1> DEFINE v == b.manual \/ o.retryAfter.kind = "oversized"
           w == TRUE
<1>1. Review(b, o) = [b EXCEPT !.manual = v]
  BY DEF Review
<1> HIDE DEF v, w
<1>2. Like([b EXCEPT !.manual = v], b) /\ Like([b EXCEPT !.lastBlock = now, !.blocked = w], b)
  BY SetManual, SetBlock
<1> QED BY <1>1, <1>2 DEF w

\* The row that commitBlockDetected starts from.
LEMMA BlockedLike ==
    ASSUME IndInv, NEW o
    PROVE  Like([Review(budget, o) EXCEPT !.lastBlock = now, !.blocked = TRUE], budget)
<1> DEFINE r == Review(budget, o)
<1>1. Like(r, budget)
  BY RowFields, MarkedLike
<1> HIDE DEF r
<1>2. Like([r EXCEPT !.lastBlock = now, !.blocked = TRUE], r)
  BY <1>1, MarkedLike DEF Like, Starts
<1> QED BY <1>1, <1>2 DEF Like, Starts, r

\* A new card.
LEMMA CardFields ==
    ASSUME NEW b, Fields(b)
    PROVE  /\ Fields(AddCard(b)) /\ AddCard(b).probes = b.probes
           /\ AddCard(b).handoffs = b.handoffs \cup {NewStart(b.handoffs)}
           /\ AddCard(b).attempts = b.attempts /\ AddCard(b).fallback = b.fallback
  BY DEF Fields, AddCard

\* A row that is scheduled for a retry.
LEMMA ScheduledFields ==
    ASSUME NEW b, Fields(b), NEW delay, NEW attempt
    PROVE  /\ Starts(Scheduled(b, delay, attempt), b)
           /\ Scheduled(b, delay, attempt).attempts = Smaller(2, attempt)
           /\ Scheduled(b, delay, attempt).fallback = b.fallback
<1> DEFINE v == Smaller(2, attempt)
           w == IF delay.exhausted THEN b.nextAllowed ELSE Larger(b.nextAllowed, delay.retryAt)
           x == b.manual \/ delay.exhausted
           n == Scheduled(b, delay, attempt)
<1>1. n = [b EXCEPT !.attempts = v, !.nextAllowed = w, !.manual = x]
  BY DEF Scheduled
<1> HIDE DEF v, w, x, n
<1>2. Starts(n, b) /\ n.attempts = v /\ n.fallback = b.fallback
  BY <1>1 DEF Fields, Starts
<1> QED BY <1>2 DEF n, v

\* A row that starts afresh.
LEMMA RenewedFields ==
    ASSUME NEW b, Fields(b)
    PROVE  /\ Starts(Renewed(b), b) /\ Renewed(b).attempts = 0 /\ Renewed(b).fallback = FALSE
           /\ Like([Renewed(b) EXCEPT !.manual = FALSE], Renewed(b))
<1> DEFINE r == Renewed(b)
           w == FALSE
<1>1. r = [b EXCEPT !.attempts = 0, !.fallback = w]
  BY DEF Renewed
<1> HIDE DEF w, r
<1>2. Starts(r, b) /\ r.attempts = 0 /\ r.fallback = w
  BY <1>1 DEF Fields, Starts
<1>3. Like([r EXCEPT !.manual = w], r)
  BY <1>2, SetManual DEF Starts
<1> QED BY <1>2, <1>3 DEF r, w

\* saveBudget.
LEMMA SavedFields ==
    ASSUME NEW b, Fields(b), SaveBudget(b)
    PROVE  /\ budget'.probes = Inside(b.probes, ProbeWindow)
           /\ budget'.handoffs = Inside(b.handoffs, HandoffWindow)
           /\ budget'.attempts = b.attempts /\ budget'.fallback = b.fallback
  BY DEF Fields, SaveBudget

-----------------------------------------------------------------------------
(* The windows.  The row keeps every start that is still inside its window,  *)
(* so what has been counted there is what has been started.                  *)

\* A list of the row, and what was really started.
Counted(starts, started, window, max) ==
    /\ starts \subseteq Start /\ IsFiniteSet(starts)
    /\ started = Inside(starts, window)
    /\ Cardinality(started) <= max
WindowInv == /\ Counted(budget.probes, probes, ProbeWindow, PROBE_MAX)
             /\ Counted(budget.handoffs, cards, HandoffWindow, HANDOFF_MAX)

\* A start that is added is a new one, so that the number of starts is counted.
LEMMA NewStartIsNew ==
    ASSUME NEW starts, IsFiniteSet(starts), now \in 0..MaxTime
    PROVE  NewStart(starts) \in Start /\ NewStart(starts)[1] = now /\ NewStart(starts) \notin starts
<1> DEFINE n == Cardinality(starts)
           T == {now} \X (0..n)
<1>1. n \in Nat
  BY FS_CardinalityType
<1> HIDE DEF n
<1>2. IsFiniteSet(0..n) /\ Cardinality(0..n) = n + 1
  BY <1>1, FS_Interval
<1>3. IsFiniteSet({now}) /\ Cardinality({now}) = 1
  BY FS_Singleton
<1>4. IsFiniteSet(T) /\ Cardinality(T) = n + 1
  <2>1. IsFiniteSet(T) /\ Cardinality(T) = Cardinality({now}) * Cardinality(0..n)
    BY <1>2, <1>3, FS_Product
  <2> QED BY <1>1, <1>2, <1>3, <2>1
<1>5. ~(T \subseteq starts)
  <2> SUFFICES ASSUME T \subseteq starts PROVE FALSE
    OBVIOUS
  <2> HIDE DEF T
  <2>1. Cardinality(T) <= n
    BY FS_Subset DEF n
  <2> QED BY <1>1, <1>4, <2>1
<1>6. \E x \in T : x \notin starts
  BY <1>5
<1>7. NewStart(starts) = CHOOSE x \in T : x \notin starts
  BY DEF NewStart, n
<1>8. NewStart(starts) \in T /\ NewStart(starts) \notin starts
  <2> HIDE DEF T
  <2> QED BY <1>6, <1>7
<1> QED BY <1>1, <1>8, BudgetAssumption DEF Start

\* The starts inside a window, after others have been dropped and one was added.
LEMMA InsideOnce ==
    ASSUME NEW starts, NEW window
    PROVE  /\ Inside(Inside(starts, window), window) = Inside(starts, window)
           /\ Inside(starts, window) \subseteq starts
  BY DEF Inside

\* Dropping what has left the window changes no count.
LEMMA CountedKept ==
    ASSUME NEW starts, NEW started, NEW window, NEW max, Counted(starts, started, window, max)
    PROVE  Counted(Inside(starts, window), started, window, max)
<1>1. Inside(starts, window) \in SUBSET starts
  BY InsideOnce
<1>2. IsFiniteSet(Inside(starts, window))
  BY <1>1, FS_Subset DEF Counted
<1> QED BY <1>1, <1>2, InsideOnce DEF Counted

\* A start where there was room for one.
LEMMA CountedMore ==
    ASSUME NEW starts, NEW started, NEW window \in Nat, NEW max \in Nat, now \in 0..MaxTime,
           Counted(starts, started, window, max), Cardinality(Inside(starts, window)) < max
    PROVE  /\ Counted(Inside(starts \cup {NewStart(starts)}, window),
                      started \cup {NewStart(starts)}, window, max)
           /\ Cardinality(started \cup {NewStart(starts)}) = Cardinality(started) + 1
<1> DEFINE x == NewStart(starts)
           more == starts \cup {x}
<1>1. x \in Start /\ x[1] = now /\ x \notin starts
  BY NewStartIsNew DEF Counted
<1> HIDE DEF x
<1>2. IsFiniteSet(more) /\ more \subseteq Start
  BY <1>1, FS_AddElement DEF Counted
<1>3. Inside(more, window) = started \cup {x}
  BY <1>1, BudgetAssumption DEF Counted, Inside
<1>4. started \in SUBSET starts /\ Inside(more, window) \in SUBSET more
  BY InsideOnce DEF Counted
<1> HIDE DEF more
<1>5. IsFiniteSet(started) /\ IsFiniteSet(Inside(more, window))
  BY <1>2, <1>4, FS_Subset DEF Counted
<1>6. Cardinality(started \cup {x}) = Cardinality(started) + 1
  <2>1. x \notin started
    BY <1>1, <1>4
  <2> QED BY <1>5, <2>1, FS_AddElement
<1>7. Cardinality(started) \in Nat /\ Cardinality(started) < max
  BY <1>5, FS_CardinalityType DEF Counted
<1>8. Counted(Inside(more, window), started \cup {x}, window, max)
  <2>1. Inside(Inside(more, window), window) = started \cup {x}
    BY <1>3, InsideOnce
  <2>2. Cardinality(started \cup {x}) <= max
    BY <1>6, <1>7
  <2> QED BY <1>2, <1>4, <1>5, <2>1, <2>2 DEF Counted
<1> QED BY <1>6, <1>8 DEF more, x

\* What a step does to the lists: it saves them, adds a card, or adds a probe.
Saved == /\ budget'.probes = Inside(budget.probes, ProbeWindow)
         /\ budget'.handoffs = Inside(budget.handoffs, HandoffWindow)
         /\ UNCHANGED <<now, probes, cards>>
Carded == /\ CanCard(budget) /\ CountCard(budget)
          /\ budget'.probes = Inside(budget.probes, ProbeWindow)
          /\ budget'.handoffs = Inside(budget.handoffs \cup {NewStart(budget.handoffs)}, HandoffWindow)
          /\ UNCHANGED <<now, probes>>
Probed == /\ MayProbe(budget)
          /\ budget'.probes = Inside(budget.probes \cup {NewStart(budget.probes)}, ProbeWindow)
          /\ budget'.handoffs = Inside(budget.handoffs, HandoffWindow)
          /\ probes' = probes \cup {NewStart(budget.probes)}
          /\ UNCHANGED <<now, cards>>
ListsLeft == UNCHANGED <<now, budget, probes, cards>>
Listed == Saved \/ Carded \/ Probed \/ ListsLeft \/ Tick

\* A row with the same starts is saved, with or without a new card.
LEMMA SaveListed ==
    ASSUME IndInv, NEW b, Starts(b, budget), UNCHANGED <<now, probes>>,
           \/ SaveBudget(b) /\ UNCHANGED cards
           \/ CanCard(b) /\ SaveBudget(AddCard(b)) /\ CountCard(b)
    PROVE  Listed
<1>1. Fields(b) /\ b.probes = budget.probes /\ b.handoffs = budget.handoffs
  BY DEF Starts
<1>2. CASE SaveBudget(b) /\ UNCHANGED cards
  BY <1>1, <1>2, SavedFields DEF Saved, Listed
<1>3. CASE CanCard(b) /\ SaveBudget(AddCard(b)) /\ CountCard(b)
  <2> DEFINE a == AddCard(b)
  <2>1. /\ Fields(a) /\ a.probes = b.probes
        /\ a.handoffs = b.handoffs \cup {NewStart(b.handoffs)}
    BY <1>1, CardFields
  <2>2. SaveBudget(a)
    BY <1>3
  <2> HIDE DEF a
  <2>3. budget'.probes = Inside(a.probes, ProbeWindow)
        /\ budget'.handoffs = Inside(a.handoffs, HandoffWindow)
    BY <2>1, <2>2, SavedFields
  <2>4. CanCard(budget) /\ CountCard(budget)
    BY <1>1, <1>3 DEF CanCard, CountCard
  <2> QED BY <1>1, <2>1, <2>3, <2>4 DEF Carded, Listed
<1> QED BY <1>2, <1>3

\* commitBlockDetected, whatever the class of the block.
LEMMA CommitListed ==
    ASSUME IndInv, NEW s \in Site, NEW o, NEW recovering,
           CommitBlockDetected(s, Review(budget, o), o, recovering), UNCHANGED <<now, probes>>
    PROVE  Listed
<1> DEFINE b == [Review(budget, o) EXCEPT !.lastBlock = now, !.blocked = TRUE]
           attempt == IF recovering THEN b.attempts + 1 ELSE Larger(1, b.attempts)
           delay == ComputeDelay(Effective(o), o.network, attempt, o.retryAfter, now)
           n == Scheduled(b, delay, attempt)
<1>1. Like(b, budget)
  BY BlockedLike
<1>2. \/ SaveBudget(n) /\ UNCHANGED cards
      \/ SaveBudget(b) /\ UNCHANGED cards
      \/ CanCard(b) /\ SaveBudget(AddCard(b)) /\ CountCard(b)
  BY DEF CommitBlockDetected
<1>3. Starts(n, b)
  <2> HIDE DEF b, delay, attempt
  <2> QED BY <1>1, ScheduledFields DEF Like, Starts
<1> HIDE DEF b, n
<1>4. Starts(b, budget) /\ Starts(n, budget)
  BY <1>1, <1>3 DEF Like, Starts
<1> QED BY <1>2, <1>4, SaveListed

\* Every step is one of these.
LEMMA StepListed == IndInv /\ Next => Listed
<1> SUFFICES ASSUME IndInv, Next PROVE Listed
  OBVIOUS
<1>0. Fields(budget) /\ Starts(budget, budget)
  BY RowFields DEF Starts
<1>1. ASSUME NEW s \in Site, CreateSession(s) \/ Reauth(s) PROVE Listed
  BY <1>0, <1>1, SaveListed DEF CreateSession, Reauth, Listed, ListsLeft
<1>2. ASSUME NEW s \in Site,
             Ready(s) \/ Attach(s) \/ StartStep(s) \/ CooldownElapsed(s)
                \/ Detach(s) \/ Lapse(s) \/ Delete(s)
      PROVE  Listed
  BY <1>2 DEF Ready, Attach, StartStep, CooldownElapsed, Detach, Lapse, Delete, Listed, ListsLeft
<1>3. ASSUME NEW s \in Site, Verified(s), UNCHANGED <<now, probes, cards>> PROVE Listed
  <2>1. Starts(Renewed(budget), budget)
    BY <1>0, RenewedFields
  <2> QED BY <1>3, <2>1, SaveListed DEF Verified
<1>4. ASSUME NEW s \in Site, FinishHandoff(s) PROVE Listed
  <2>1. UNCHANGED <<now, probes, cards>> /\ (Verified(s) \/ UNCHANGED budget)
    BY <1>4 DEF FinishHandoff
  <2>2. CASE Verified(s)
    BY <1>3, <2>1, <2>2
  <2>3. CASE UNCHANGED budget
    BY <2>1, <2>3 DEF Listed, ListsLeft
  <2> QED BY <2>1, <2>2, <2>3
<1>5. ASSUME NEW s \in Site, FinishAttach(s) PROVE Listed
  <2>1. UNCHANGED <<now, probes>>
    BY <1>5 DEF FinishAttach
  <2>2. CASE UNCHANGED <<budget, cards>>
    BY <2>1, <2>2 DEF Listed, ListsLeft
  <2>3. ASSUME NEW o \in Answers, CommitBlockDetected(s, Review(budget, o), o, FALSE)
        PROVE  Listed
    BY <2>1, <2>3, CommitListed
  <2>4. ASSUME NEW o \in Answers, UNCHANGED cards,
               LET b == Review(budget, o)
               IN  SaveBudget(IF Calm(b) THEN [Renewed(b) EXCEPT !.manual = FALSE] ELSE b)
        PROVE  Listed
    <3> DEFINE b == Review(budget, o)
               n == [Renewed(b) EXCEPT !.manual = FALSE]
    <3>1. Like(b, budget)
      BY <1>0, MarkedLike
    <3>2. SaveBudget(n) \/ SaveBudget(b)
      BY <2>4
    <3>3. Starts(Renewed(b), b) /\ Like(n, Renewed(b))
      <4> HIDE DEF b
      <4> QED BY <3>1, RenewedFields DEF Like, Starts
    <3> HIDE DEF b, n
    <3>4. Starts(b, budget) /\ Starts(n, budget)
      BY <3>1, <3>3 DEF Like, Starts
    <3> QED BY <2>1, <2>4, <3>2, <3>4, SaveListed
  <2> QED BY <1>5, <2>2, <2>3, <2>4 DEF FinishAttach
<1>6. ASSUME NEW s \in Site, FinishStep(s) PROVE Listed
  <2>1. UNCHANGED <<now, probes>>
    BY <1>6 DEF FinishStep
  <2>2. PICK o \in Answers : \/ SaveBudget(Review(budget, o)) /\ UNCHANGED cards
                             \/ CommitBlockDetected(s, Review(budget, o), o, FALSE)
    BY <1>6 DEF FinishStep
  <2>3. CASE CommitBlockDetected(s, Review(budget, o), o, FALSE)
    BY <2>1, <2>3, CommitListed
  <2>4. CASE SaveBudget(Review(budget, o)) /\ UNCHANGED cards
    <3>1. Starts(Review(budget, o), budget)
      BY <1>0, MarkedLike DEF Like
    <3> QED BY <2>1, <2>4, <3>1, SaveListed
  <2> QED BY <2>2, <2>3, <2>4
<1>7. ASSUME NEW s \in Site, FinishRecovery(s) PROVE Listed
  <2>1. UNCHANGED <<now, probes>>
    BY <1>7 DEF FinishRecovery
  <2>2. CASE Verified(s) /\ UNCHANGED <<cards, asked, review>>
    BY <1>3, <2>1, <2>2
  <2>3. ASSUME NEW o \in Answers, CommitBlockDetected(s, Review(budget, o), o, TRUE)
        PROVE  Listed
    BY <2>1, <2>3, CommitListed
  <2>4. CASE UNCHANGED <<budget, cards>>
    BY <2>1, <2>4 DEF Listed, ListsLeft
  <2> QED BY <1>7, <2>2, <2>3, <2>4 DEF FinishRecovery
<1>8. ASSUME NEW s \in Site, NEW intent, Recover(s, intent) PROVE Listed
  <2> DEFINE v == budget.probes \cup {NewStart(budget.probes)}
             w == budget.fallback \/ intent = "fallback"
             n == [budget EXCEPT !.probes = v, !.fallback = w]
  <2>0. n = [budget EXCEPT !.probes = v, !.fallback = w]
    OBVIOUS
  <2>1. SaveBudget(n) /\ MayProbe(budget) /\ probes' = probes \cup {NewStart(budget.probes)}
        /\ UNCHANGED <<now, cards>>
    BY <1>8 DEF Recover
  <2>2. Fields(n) /\ n.probes = v /\ n.handoffs = budget.handoffs
    <3> HIDE DEF v, w, n
    <3> QED BY <1>0, <2>0 DEF Fields
  <2> HIDE DEF n
  <2>3. /\ budget'.probes = Inside(n.probes, ProbeWindow)
        /\ budget'.handoffs = Inside(n.handoffs, HandoffWindow)
    BY <2>1, <2>2, SavedFields
  <2> QED BY <2>1, <2>2, <2>3 DEF Probed, Listed
<1> QED BY <1>1, <1>2, <1>4, <1>5, <1>6, <1>7, <1>8 DEF Next, Listed

\* The counts at another time, and what is still inside a window then.
CountedAt(t, starts, started, window, max) ==
    /\ starts \subseteq Start /\ IsFiniteSet(starts)
    /\ started = {x \in starts : x[1] + window >= t}
    /\ Cardinality(started) <= max
StillInside(t, started, window) == {x \in started : t - x[1] <= window}

\* What leaves the window leaves it in the row's count as well.
LEMMA CountedLater ==
    ASSUME NEW starts, NEW started, NEW window \in Nat, NEW max \in Nat, now \in 0..MaxTime,
           Counted(starts, started, window, max), NEW t, t = now + 1
    PROVE  CountedAt(t, starts, StillInside(t, started, window), window, max)
<1> DEFINE later == StillInside(t, started, window)
<1>1. \A x \in starts : x[1] \in Nat
  BY BudgetAssumption DEF Counted, Start
<1>2. now \in Nat
  BY BudgetAssumption
<1>3. later = {x \in starts : x[1] + window >= t}
  BY <1>1, <1>2 DEF Counted, Inside, StillInside
<1>4. started \in SUBSET starts /\ later \in SUBSET started
  BY DEF Counted, Inside, StillInside
<1> HIDE DEF later
<1>5. IsFiniteSet(started)
  BY <1>4, FS_Subset DEF Counted
<1>6. Cardinality(later) <= Cardinality(started) /\ IsFiniteSet(later)
  BY <1>4, <1>5, FS_Subset
<1>7. Cardinality(later) \in Nat /\ Cardinality(started) \in Nat
  BY <1>5, <1>6, FS_CardinalityType
<1>8. Cardinality(later) <= max
  BY <1>6, <1>7 DEF Counted
<1>9. CountedAt(t, starts, later, window, max)
  BY <1>3, <1>8 DEF Counted, CountedAt
<1> QED BY <1>9 DEF later

\* The clock.
LEMMA TickWindow ==
    ASSUME IndInv, WindowInv, Tick PROVE WindowInv'
<1>1. /\ now \in 0..MaxTime /\ now' = now + 1 /\ budget' = budget
      /\ probes' = StillInside(now', probes, ProbeWindow)
      /\ cards' = StillInside(now', cards, HandoffWindow)
  BY DEF Tick, IndInv, StillInside
<1>2. CountedAt(now', budget.probes, probes', ProbeWindow, PROBE_MAX)
  BY <1>1, CountedLater, BudgetAssumption DEF WindowInv
<1>3. CountedAt(now', budget.handoffs, cards', HandoffWindow, HANDOFF_MAX)
  BY <1>1, CountedLater, BudgetAssumption DEF WindowInv
<1> QED BY <1>1, <1>2, <1>3 DEF WindowInv, Counted, CountedAt, Inside

\* Every step keeps the counts.
LEMMA StepWindow == IndInv /\ WindowInv /\ [Next]_vars => WindowInv'
<1> SUFFICES ASSUME IndInv, WindowInv, [Next]_vars PROVE WindowInv'
  OBVIOUS
<1>0. /\ now \in 0..MaxTime /\ ProbeWindow \in Nat /\ HandoffWindow \in Nat
      /\ PROBE_MAX \in Nat /\ HANDOFF_MAX \in Nat
  BY BudgetAssumption DEF IndInv
<1>1. /\ Counted(budget.probes, probes, ProbeWindow, PROBE_MAX)
      /\ Counted(budget.handoffs, cards, HandoffWindow, HANDOFF_MAX)
      /\ Counted(Inside(budget.probes, ProbeWindow), probes, ProbeWindow, PROBE_MAX)
      /\ Counted(Inside(budget.handoffs, HandoffWindow), cards, HandoffWindow, HANDOFF_MAX)
  BY CountedKept DEF WindowInv
<1>2. ASSUME now' = now,
             Counted(budget'.probes, probes', ProbeWindow, PROBE_MAX),
             Counted(budget'.handoffs, cards', HandoffWindow, HANDOFF_MAX)
      PROVE  WindowInv'
  BY <1>2 DEF WindowInv, Counted, Inside
<1>3. CASE Saved
  BY <1>1, <1>2, <1>3 DEF Saved
<1>4. CASE Carded
  <2>1. Counted(budget'.handoffs, cards', HandoffWindow, HANDOFF_MAX)
    BY <1>0, <1>1, <1>4, CountedMore DEF Carded, CanCard, CountCard
  <2> QED BY <1>1, <1>2, <1>4, <2>1 DEF Carded
<1>5. CASE Probed
  <2>1. Counted(budget'.probes, probes', ProbeWindow, PROBE_MAX)
    BY <1>0, <1>1, <1>5, CountedMore DEF Probed, MayProbe
  <2> QED BY <1>1, <1>2, <1>5, <2>1 DEF Probed
<1>6. CASE ListsLeft
  BY <1>1, <1>2, <1>6 DEF ListsLeft
<1>7. CASE Tick
  BY <1>7, TickWindow
<1>8. CASE UNCHANGED vars
  BY <1>1, <1>2, <1>8 DEF vars
<1> QED BY <1>3, <1>4, <1>5, <1>6, <1>7, <1>8, StepListed DEF Listed

\* The counts are right in every reachable state.
LEMMA AlwaysWindow == Spec => [](IndInv /\ WindowInv)
<1>1. Init => WindowInv
  <2>1. IsFiniteSet({}) /\ Cardinality({}) = 0
    BY FS_EmptySet
  <2> QED BY <2>1, BudgetAssumption DEF Init, WindowInv, Counted, Inside, EmptyBudget
<1> QED BY <1>1, InitInd, StepInd, StepWindow, PTL DEF Spec

\* No window of ProbeWindow, both ends included, sees more than PROBE_MAX recovery
\* probes of the sessions of an origin, for any number of sites (recover).
THEOREM ProbesAreBounded == Spec => []ProbesBounded
<1>1. WindowInv => ProbesBounded
  BY DEF WindowInv, Counted, ProbesBounded
<1> QED BY <1>1, AlwaysWindow, PTL

\* No window of HandoffWindow sees more than HANDOFF_MAX cards, whichever of
\* createSession, recover and commitBlockDetected makes them.
THEOREM CardsAreBounded == Spec => []CardsBounded
<1>1. WindowInv => CardsBounded
  BY DEF WindowInv, Counted, CardsBounded
<1> QED BY <1>1, AlwaysWindow, PTL

-----------------------------------------------------------------------------
(* Incidents.  A retryable block costs an attempt, a fallback the row's one  *)
(* fallback: what a session has tried is paid for out of the two.            *)

Pay(b) == b.attempts + (IF b.fallback THEN 1 ELSE 0)
Retryable(k) == IsRetryableBlock(k.class, k.network)
BlockShape(k) == k = [class |-> k.class, network |-> k.network, retryAt |-> k.retryAt,
                      fallback |-> k.fallback]

\* A session that may retry has tried less than was paid for; one that may only fall
\* back, or is probing, no more than that.
Afford(r, n, p) ==
    /\ n \in Int /\ n <= 3
    /\ r.st \in {"COOLDOWN", "RECOVERABLE"} /\ Retryable(r.block) => n < p
    /\ r.st = "RECOVERABLE" /\ r.block # NoBlock => n <= p
    /\ r.st = "COOLDOWN" => Retryable(r.block) /\ BlockShape(r.block)
    /\ r.st = "RECOVERING" => n <= p
IncidentInv == /\ tries \in [Site -> Int]
               /\ \A s \in Site : Afford(sess[s], tries[s], Pay(budget))

\* What the row can pay for.
LEMMA PayBounds == IndInv => /\ budget.attempts \in 0..2 /\ budget.fallback \in BOOLEAN
                             /\ Pay(budget) \in 0..3
<1> SUFFICES ASSUME IndInv PROVE /\ budget.attempts \in 0..2 /\ budget.fallback \in BOOLEAN
                                 /\ Pay(budget) \in 0..3
  OBVIOUS
<1>1. budget.attempts \in 0..2
  BY DEF IndInv, Covers, Row
<1>2. budget.fallback \in BOOLEAN
  BY DEF IndInv, Covers, Row
<1>3. Pay(budget) \in 0..3
  BY <1>1 DEF Pay
<1> QED BY <1>1, <1>2, <1>3

\* Rows with the same attempts and fallback pay the same.
LEMMA PaySame ==
    ASSUME NEW b, NEW c, b.attempts = c.attempts, b.fallback = c.fallback
    PROVE  Pay(b) = Pay(c)
  BY DEF Pay

\* A session that is not in an incident can afford anything.
LEMMA RestAffords ==
    ASSUME NEW state, state \notin {"COOLDOWN", "RECOVERING"}, NEW n \in Int, n <= 3, NEW p
    PROVE  Afford(Resting(state), n, p)
<1>1. ~Retryable(NoBlock)
  BY DEF Retryable, NoBlock, IsRetryableBlock
<1>2. Resting(state).st = state /\ Resting(state).block = NoBlock
  BY DEF Resting
<1> QED BY <1>1, <1>2 DEF Afford

\* What a step has to show: the session itself, and that the row pays as much for
\* the others, or that they start afresh.
LEMMA IncidentStep ==
    ASSUME IndInv, IndInv', IncidentInv, NEW s \in Site,
           \A t \in Site \ {s} : sess'[t] = sess[t],
           tries' \in [Site -> Int],
           \/ Pay(budget') >= Pay(budget) /\ \A t \in Site \ {s} : tries'[t] = tries[t]
           \/ Pay(budget') = 0 /\ \A t \in Site \ {s} : tries'[t] = Afresh[t],
           Afford(sess'[s], tries'[s], Pay(budget'))
    PROVE  IncidentInv'
<1>1. Pay(budget) \in 0..3 /\ Pay(budget') \in 0..3
  <2>1. Pay(budget) \in 0..3
    BY PayBounds
  <2>2. budget'.attempts \in 0..2
    BY DEF IndInv, Covers, Row
  <2>3. Pay(budget') \in 0..3
    BY <2>2 DEF Pay
  <2> QED BY <2>1, <2>3
<1>2. ASSUME NEW t \in Site \ {s} PROVE Afford(sess'[t], tries'[t], Pay(budget'))
  <2>1. Afford(sess[t], tries[t], Pay(budget)) /\ sess'[t] = sess[t]
    BY DEF IncidentInv
  <2>2. CASE Pay(budget') >= Pay(budget) /\ tries'[t] = tries[t]
    BY <1>1, <2>1, <2>2 DEF Afford
  <2>3. CASE Pay(budget') = 0 /\ tries'[t] = Afresh[t]
    <3>1. Afresh[t] = IF sess[t].st \in {"COOLDOWN", "RECOVERABLE", "RECOVERING"} THEN -1 ELSE 0
      BY DEF Afresh
    <3> QED BY <2>1, <2>3, <3>1 DEF Afford
  <2> QED BY <2>2, <2>3
<1>3. \A t \in Site : Afford(sess'[t], tries'[t], Pay(budget'))
  BY <1>2
<1> QED BY <1>3 DEF IncidentInv, Pay

\* A session that comes to rest, with a row that pays the same.
LEMMA RestIncident ==
    ASSUME IndInv, IndInv', IncidentInv, NEW s \in Site, NEW state,
           state \notin {"COOLDOWN", "RECOVERING"}, To(s, state),
           budget'.attempts = budget.attempts, budget'.fallback = budget.fallback
    PROVE  IncidentInv'
<1>1. sess' = [sess EXCEPT ![s] = Resting(state)] /\ tries' = [tries EXCEPT ![s] = 0]
  BY DEF To
<1>2. sess'[s] = Resting(state) /\ \A t \in Site \ {s} : sess'[t] = sess[t]
  BY <1>1 DEF IndInv, Shaped
<1>3. /\ tries' \in [Site -> Int] /\ tries'[s] = 0
      /\ \A t \in Site \ {s} : tries'[t] = tries[t]
  BY <1>1 DEF IncidentInv
<1>4. Pay(budget') = Pay(budget) /\ Pay(budget) \in 0..3
  BY PaySame, PayBounds
<1>5. Afford(sess'[s], tries'[s], Pay(budget'))
  BY <1>2, <1>3, RestAffords
<1>6. Pay(budget') >= Pay(budget)
  BY <1>4
<1> QED BY <1>2, <1>3, <1>5, <1>6, IncidentStep

\* The row that commitBlockDetected leaves pays for what came before, and for the
\* retry of the block if that may be retried.
LEMMA CommitIncident ==
    ASSUME IndInv, IndInv', IncidentInv, NEW s \in Site, NEW o \in Answers,
           NEW recovering \in BOOLEAN, recovering => sess[s].st = "RECOVERING",
           CommitBlockDetected(s, Review(budget, o), o, recovering)
    PROVE  IncidentInv'
<1> DEFINE class == Effective(o)
           b == [Review(budget, o) EXCEPT !.lastBlock = now, !.blocked = TRUE]
           attempt == IF recovering THEN b.attempts + 1 ELSE Larger(1, b.attempts)
           delay == ComputeDelay(class, o.network, attempt, o.retryAfter, now)
           n == Scheduled(b, delay, attempt)
           block(at) == [class |-> class, network |-> o.network, retryAt |-> at,
                         fallback |-> b.fallback]
           cool == [st |-> "COOLDOWN", block |-> block(delay.retryAt)]
           stop == [st |-> "RECOVERABLE", block |-> block(0)]
           retryable == IsRetryableBlock(class, o.network)
<1>1. Like(b, budget)
  BY BlockedLike
<1>2. /\ b.attempts = budget.attempts /\ b.fallback = budget.fallback /\ Fields(b)
      /\ b.attempts \in 0..2
  <2> HIDE DEF b
  <2> QED BY <1>1, PayBounds DEF Like, Starts
<1>3. /\ Fields(n) /\ n.attempts = Smaller(2, attempt) /\ n.fallback = b.fallback
  <2> HIDE DEF b, delay, attempt
  <2> QED BY <1>2, ScheduledFields DEF Starts
<1>4. /\ Fields(AddCard(b)) /\ AddCard(b).attempts = b.attempts
      /\ AddCard(b).fallback = b.fallback
  <2> HIDE DEF b
  <2> QED BY <1>2, CardFields
<1>5. \/ /\ retryable /\ SaveBudget(n) /\ Exhausted(delay, recovering, attempt)
         /\ sess' = [sess EXCEPT ![s] = Resting("RECOVERABLE")]
      \/ /\ retryable /\ SaveBudget(n) /\ ~Exhausted(delay, recovering, attempt)
         /\ sess' = [sess EXCEPT ![s] = cool]
      \/ /\ SaveBudget(b) \/ SaveBudget(AddCard(b))
         /\ \/ sess' = [sess EXCEPT ![s] = Resting("HANDOFF_WAIT")]
            \/ sess' = [sess EXCEPT ![s] = Resting("NEEDS_LOGIN")]
      \/ /\ ~retryable /\ SaveBudget(b)
         /\ sess' = [sess EXCEPT ![s] = stop]
  BY DEF CommitBlockDetected
<1>6. tries' = [tries EXCEPT ![s] =
                  IF recovering /\ sess'[s].st \in {"COOLDOWN", "RECOVERABLE"} THEN @ ELSE 0]
  BY DEF CommitBlockDetected
<1>7. /\ tries' \in [Site -> Int] /\ \A t \in Site \ {s} : tries'[t] = tries[t]
      /\ tries'[s] = IF recovering /\ sess'[s].st \in {"COOLDOWN", "RECOVERABLE"}
                     THEN tries[s] ELSE 0
  BY <1>6 DEF IncidentInv
<1>8. Afford(sess[s], tries[s], Pay(budget)) /\ Pay(budget) \in 0..3
  BY PayBounds DEF IncidentInv
<1>9. tries[s] \in Int /\ tries[s] <= 3 /\ (recovering => tries[s] <= Pay(budget))
  BY <1>8 DEF Afford
<1>10. tries'[s] \in Int /\ tries'[s] <= 3 /\ (tries'[s] <= Pay(budget) \/ tries'[s] = 0)
  BY <1>7, <1>9
<1>11. attempt \in 1..3 /\ attempt >= b.attempts
       /\ (recovering => attempt = b.attempts + 1)
  <2> HIDE DEF b
  <2> QED BY <1>2 DEF Larger
<1>12. Pay(n) >= Pay(budget) /\ Pay(n) \in 0..3
       /\ (~Exhausted(delay, recovering, attempt) => tries'[s] < Pay(n))
  <2> HIDE DEF b, attempt, delay, n
  <2>1. n.attempts \in 1..2 /\ n.attempts >= budget.attempts /\ n.fallback = budget.fallback
    BY <1>2, <1>3, <1>11 DEF Smaller
  <2>2. Pay(n) >= Pay(budget) /\ Pay(n) \in 0..3 /\ Pay(n) > 0
    BY <1>2, <2>1 DEF Pay
  <2>3. ASSUME ~Exhausted(delay, recovering, attempt), recovering PROVE tries'[s] < Pay(n)
    <3>1. ~(attempt > 2)
      BY <2>3 DEF Exhausted
    <3>2. n.attempts = budget.attempts + 1
      BY <1>2, <1>3, <1>11, <2>3, <3>1 DEF Smaller
    <3>3. Pay(n) = Pay(budget) + 1
      BY <1>2, <2>1, <3>2 DEF Pay
    <3> QED BY <1>7, <1>8, <1>9, <1>10, <2>2, <2>3, <3>3
  <2>4. ASSUME ~recovering PROVE tries'[s] < Pay(n)
    BY <1>7, <2>2, <2>4
  <2> QED BY <2>2, <2>3, <2>4
<1>13. /\ SaveBudget(n) => Pay(budget') = Pay(n)
       /\ SaveBudget(b) \/ SaveBudget(AddCard(b)) => Pay(budget') = Pay(budget)
  <2> HIDE DEF b, n
  <2>1. SaveBudget(n) => budget'.attempts = n.attempts /\ budget'.fallback = n.fallback
    BY <1>3, SavedFields
  <2>2. SaveBudget(b) \/ SaveBudget(AddCard(b)) =>
           budget'.attempts = budget.attempts /\ budget'.fallback = budget.fallback
    BY <1>2, <1>4, SavedFields
  <2> QED BY <2>1, <2>2, PaySame
<1>14. /\ cool.st = "COOLDOWN" /\ cool.block.class = class /\ cool.block.network = o.network
       /\ BlockShape(cool.block)
       /\ stop.st = "RECOVERABLE" /\ stop.block.class = class /\ stop.block.network = o.network
  BY DEF BlockShape
<1> HIDE DEF n, b, attempt, delay, cool, stop, class
<1>15. ASSUME NEW new, sess' = [sess EXCEPT ![s] = new], Afford(new, tries'[s], Pay(budget')),
              Pay(budget') >= Pay(budget)
       PROVE  IncidentInv'
  <2>1. sess'[s] = new /\ \A t \in Site \ {s} : sess'[t] = sess[t]
    BY <1>15 DEF IndInv, Shaped
  <2> QED BY <1>7, <1>15, <2>1, IncidentStep
<1>16. CASE /\ retryable /\ SaveBudget(n) /\ Exhausted(delay, recovering, attempt)
            /\ sess' = [sess EXCEPT ![s] = Resting("RECOVERABLE")]
  BY <1>10, <1>12, <1>13, <1>15, <1>16, RestAffords
<1>17. CASE /\ retryable /\ SaveBudget(n) /\ ~Exhausted(delay, recovering, attempt)
            /\ sess' = [sess EXCEPT ![s] = cool]
  <2>1. Afford(cool, tries'[s], Pay(budget'))
    BY <1>10, <1>12, <1>13, <1>14, <1>17 DEF Afford, Retryable
  <2> QED BY <1>12, <1>13, <1>15, <1>17, <2>1
<1>18. CASE /\ SaveBudget(b) \/ SaveBudget(AddCard(b))
            /\ \/ sess' = [sess EXCEPT ![s] = Resting("HANDOFF_WAIT")]
               \/ sess' = [sess EXCEPT ![s] = Resting("NEEDS_LOGIN")]
  <2>1. Pay(budget') >= Pay(budget)
    BY <1>8, <1>13, <1>18
  <2> QED BY <1>10, <1>15, <1>18, <2>1, RestAffords
<1>19. CASE /\ ~retryable /\ SaveBudget(b)
            /\ sess' = [sess EXCEPT ![s] = stop]
  <2>1. Pay(budget') = Pay(budget) /\ Pay(budget') >= Pay(budget)
    BY <1>8, <1>13, <1>19
  <2>2. Afford(stop, tries'[s], Pay(budget'))
    BY <1>8, <1>10, <1>14, <1>19, <2>1 DEF Afford, Retryable
  <2> QED BY <1>15, <1>19, <2>1, <2>2
<1> QED BY <1>5, <1>16, <1>17, <1>18, <1>19

\* A login that was verified starts the row and every session afresh.
LEMMA VerifiedIncident ==
    ASSUME IndInv, IndInv', IncidentInv, NEW s \in Site, Verified(s)
    PROVE  IncidentInv'
<1>1. /\ sess' = [sess EXCEPT ![s] = Resting("DETACHED")] /\ SaveBudget(Renewed(budget))
      /\ tries' = [Afresh EXCEPT ![s] = 0]
  BY DEF Verified
<1>2. sess'[s] = Resting("DETACHED") /\ \A t \in Site \ {s} : sess'[t] = sess[t]
  BY <1>1 DEF IndInv, Shaped
<1>3. Afresh \in [Site -> Int]
  BY DEF Afresh
<1>4. /\ tries' \in [Site -> Int] /\ tries'[s] = 0
      /\ \A t \in Site \ {s} : tries'[t] = Afresh[t]
  BY <1>1, <1>3
<1>5. Pay(budget') = 0
  <2> DEFINE r == Renewed(budget)
  <2>1. Fields(r) /\ r.attempts = 0 /\ r.fallback = FALSE
    BY RowFields, RenewedFields DEF Starts
  <2> HIDE DEF r
  <2>2. budget'.attempts = 0 /\ budget'.fallback = FALSE
    BY <1>1, <2>1, SavedFields DEF r
  <2> QED BY <2>2 DEF Pay
<1>6. Afford(sess'[s], tries'[s], Pay(budget'))
  BY <1>2, <1>4, RestAffords
<1> QED BY <1>2, <1>4, <1>5, <1>6, IncidentStep

\* recover: a retry was paid for by the block it answers, a fallback pays for itself.
LEMMA RecoverIncident ==
    ASSUME IndInv, IndInv', IncidentInv, NEW s \in Site, NEW intent, Recover(s, intent)
    PROVE  IncidentInv'
<1> DEFINE v == budget.probes \cup {NewStart(budget.probes)}
           w == budget.fallback \/ intent = "fallback"
           n == [budget EXCEPT !.probes = v, !.fallback = w]
<1>0. n = [budget EXCEPT !.probes = v, !.fallback = w]
  OBVIOUS
<1>1. /\ SaveBudget(n) /\ sess[s].st = "RECOVERABLE" /\ sess[s].block # NoBlock
      /\ sess' = [sess EXCEPT ![s] = Resting("RECOVERING")]
      /\ tries' = [tries EXCEPT ![s] = @ + 1]
      /\ IF intent = "fallback" THEN ~budget.fallback ELSE Retryable(sess[s].block)
  BY DEF Recover, Retryable
<1>2. Fields(n) /\ n.attempts = budget.attempts /\ n.fallback = w
  <2> HIDE DEF v, w, n
  <2> QED BY <1>0, RowFields DEF Fields
<1> HIDE DEF n
<1>3. budget'.attempts = budget.attempts /\ budget'.fallback = w
  BY <1>1, <1>2, SavedFields
<1>4. /\ tries[s] \in Int /\ tries[s] <= Pay(budget)
      /\ Retryable(sess[s].block) => tries[s] < Pay(budget)
  BY <1>1 DEF IncidentInv, Afford
<1>5. /\ Pay(budget) \in 0..3 /\ Pay(budget') \in 0..3 /\ Pay(budget') >= Pay(budget)
      /\ tries[s] + 1 <= Pay(budget')
  <2>1. budget.attempts \in 0..2 /\ Pay(budget) \in 0..3
    BY PayBounds
  <2>2. CASE intent = "fallback"
    <3>1. ~budget.fallback /\ budget'.fallback
      BY <1>1, <1>3, <2>2
    <3>2. Pay(budget) = budget.attempts /\ Pay(budget') = budget.attempts + 1
      BY <1>3, <2>1, <3>1 DEF Pay
    <3> QED BY <1>4, <2>1, <3>2
  <2>3. CASE intent # "fallback"
    <3>1. Pay(budget') = Pay(budget)
      BY <1>3, <2>3 DEF Pay
    <3> QED BY <1>1, <1>4, <2>1, <2>3, <3>1
  <2> QED BY <2>2, <2>3
<1>6. sess'[s] = Resting("RECOVERING") /\ \A t \in Site \ {s} : sess'[t] = sess[t]
  BY <1>1 DEF IndInv, Shaped
<1>7. /\ tries' \in [Site -> Int] /\ tries'[s] = tries[s] + 1
      /\ \A t \in Site \ {s} : tries'[t] = tries[t]
  BY <1>1, <1>4 DEF IncidentInv
<1>8. Afford(sess'[s], tries'[s], Pay(budget'))
  BY <1>4, <1>5, <1>6, <1>7 DEF Afford, Resting
<1> QED BY <1>5, <1>6, <1>7, <1>8, IncidentStep

\* tick: a cooldown that has passed leaves the block, and with it the retry.
LEMMA CooldownIncident ==
    ASSUME IndInv, IndInv', IncidentInv, NEW s \in Site, CooldownElapsed(s)
    PROVE  IncidentInv'
<1> DEFINE k == sess[s].block
           new == [st |-> "RECOVERABLE", block |-> [k EXCEPT !.retryAt = 0]]
<1>1. /\ sess[s].st = "COOLDOWN" /\ sess' = [sess EXCEPT ![s] = new]
      /\ budget' = budget /\ tries' = tries
  BY DEF CooldownElapsed
<1>2. Afford(sess[s], tries[s], Pay(budget)) /\ tries \in [Site -> Int]
  BY DEF IncidentInv
<1>3. /\ Retryable(k) /\ BlockShape(k) /\ tries[s] < Pay(budget)
      /\ tries[s] \in Int /\ tries[s] <= 3
  BY <1>1, <1>2 DEF Afford
<1>4. new.st = "RECOVERABLE" /\ new.block.class = k.class /\ new.block.network = k.network
  BY <1>3 DEF BlockShape
<1> HIDE DEF new, k
<1>5. sess'[s] = new /\ \A t \in Site \ {s} : sess'[t] = sess[t]
  BY <1>1 DEF IndInv, Shaped
<1>6. Pay(budget') = Pay(budget) /\ Pay(budget) \in 0..3
  BY <1>1, PayBounds
<1>7. Afford(sess'[s], tries'[s], Pay(budget'))
  BY <1>1, <1>3, <1>4, <1>5, <1>6 DEF Afford
<1>8. Pay(budget') >= Pay(budget)
  BY <1>6
<1> QED BY <1>1, <1>2, <1>5, <1>7, <1>8, IncidentStep

\* finishAttach of a probe that was verified: in a calm time everything starts afresh.
LEMMA AttachIncident ==
    ASSUME IndInv, IndInv', IncidentInv, NEW s \in Site, NEW b, Like(b, budget),
           sess[s].st = "ATTACHING", sess' = [sess EXCEPT ![s] = Resting("ACTIVE")],
           SaveBudget(IF Calm(b) THEN [Renewed(b) EXCEPT !.manual = FALSE] ELSE b),
           tries' = IF Calm(b) THEN Afresh ELSE tries
    PROVE  IncidentInv'
<1>1. sess'[s] = Resting("ACTIVE") /\ \A t \in Site \ {s} : sess'[t] = sess[t]
  BY DEF IndInv, Shaped
<1>2. Fields(b) /\ b.attempts = budget.attempts /\ b.fallback = budget.fallback
  BY DEF Like, Starts
<1>3. CASE Calm(b)
  <2> DEFINE n == [Renewed(b) EXCEPT !.manual = FALSE]
  <2>1. Like(n, Renewed(b)) /\ Renewed(b).attempts = 0 /\ Renewed(b).fallback = FALSE
    BY <1>2, RenewedFields
  <2>2. SaveBudget(n)
    BY <1>3
  <2> HIDE DEF n
  <2>3. Fields(n) /\ n.attempts = 0 /\ n.fallback = FALSE
    BY <2>1 DEF Like, Starts
  <2>4. budget'.attempts = 0 /\ budget'.fallback = FALSE
    BY <2>2, <2>3, SavedFields
  <2>5. Pay(budget') = 0
    BY <2>4 DEF Pay
  <2>6. tries' = Afresh /\ Afresh \in [Site -> Int] /\ Afresh[s] = 0
    BY <1>3 DEF Afresh
  <2>7. Afford(sess'[s], tries'[s], Pay(budget'))
    BY <1>1, <2>6, RestAffords
  <2> QED BY <1>1, <2>5, <2>6, <2>7, IncidentStep
<1>4. CASE ~Calm(b)
  <2>1. SaveBudget(b) /\ tries' = tries
    BY <1>4
  <2>2. Pay(budget') = Pay(budget)
    BY <1>2, <2>1, SavedFields, PaySame
  <2>3. Pay(budget') >= Pay(budget)
    BY <2>2, PayBounds
  <2>4. tries \in [Site -> Int] /\ tries[s] \in Int /\ tries[s] <= 3
    BY DEF IncidentInv, Afford
  <2>5. Afford(sess'[s], tries'[s], Pay(budget'))
    BY <1>1, <2>1, <2>4, RestAffords
  <2> QED BY <1>1, <2>1, <2>3, <2>4, <2>5, IncidentStep
<1> QED BY <1>3, <1>4

\* Every step keeps the sessions within what the row pays for.
LEMMA StepIncident == IndInv /\ IncidentInv /\ [Next]_vars => IncidentInv'
<1> SUFFICES ASSUME IndInv, IncidentInv, [Next]_vars PROVE IncidentInv'
  OBVIOUS
<1>0. IndInv' /\ Fields(budget)
  BY StepInd, RowFields
<1>1. ASSUME UNCHANGED <<sess, tries, budget>> PROVE IncidentInv'
  BY <1>1 DEF IncidentInv, Afford, Pay
<1>2. ASSUME NEW s \in Site, NEW state, state \notin {"COOLDOWN", "RECOVERING"}, To(s, state),
             UNCHANGED budget
      PROVE  IncidentInv'
  BY <1>0, <1>2, RestIncident
<1>3. ASSUME NEW s \in Site, To(s, "HANDOFF_WAIT"), SaveBudget(AddCard(budget))
      PROVE  IncidentInv'
  <2> DEFINE b == AddCard(budget)
  <2>1. Fields(b) /\ b.attempts = budget.attempts /\ b.fallback = budget.fallback
    BY <1>0, CardFields
  <2> HIDE DEF b
  <2>2. budget'.attempts = budget.attempts /\ budget'.fallback = budget.fallback
    BY <1>3, <2>1, SavedFields DEF b
  <2> QED BY <1>0, <1>3, <2>2, RestIncident
<1>4. ASSUME NEW s \in Site, CreateSession(s) \/ Reauth(s) PROVE IncidentInv'
  BY <1>2, <1>3, <1>4 DEF CreateSession, Reauth
<1>5. ASSUME NEW s \in Site, Ready(s) \/ Attach(s) \/ Detach(s) \/ Lapse(s) \/ Delete(s)
      PROVE  IncidentInv'
  BY <1>2, <1>5 DEF Ready, Attach, Detach, Lapse, Delete
<1>6. ASSUME NEW s \in Site, StartStep(s) PROVE IncidentInv'
  BY <1>1, <1>6 DEF StartStep
<1>7. ASSUME NEW s \in Site, FinishHandoff(s) PROVE IncidentInv'
  <2>1. CASE Verified(s)
    BY <1>0, <2>1, VerifiedIncident
  <2>2. ASSUME NEW state \in {"HANDOFF_WAIT", "NEEDS_LOGIN", "RECOVERABLE"}, To(s, state),
               UNCHANGED budget
        PROVE  IncidentInv'
    BY <1>2, <2>2
  <2> QED BY <1>7, <2>1, <2>2 DEF FinishHandoff
<1>8. ASSUME NEW s \in Site, FinishAttach(s) PROVE IncidentInv'
  <2>1. CASE To(s, "RECOVERABLE") /\ UNCHANGED budget
    BY <1>2, <2>1
  <2>2. ASSUME NEW o \in Answers, CommitBlockDetected(s, Review(budget, o), o, FALSE)
        PROVE  IncidentInv'
    BY <1>0, <2>2, CommitIncident
  <2>3. ASSUME NEW o \in Answers, sess' = [sess EXCEPT ![s] = Resting("ACTIVE")],
               LET b == Review(budget, o)
               IN  /\ SaveBudget(IF Calm(b) THEN [Renewed(b) EXCEPT !.manual = FALSE] ELSE b)
                   /\ tries' = IF Calm(b) THEN Afresh ELSE tries
        PROVE  IncidentInv'
    <3> DEFINE b == Review(budget, o)
    <3>1. Like(b, budget)
      BY <1>0, MarkedLike
    <3>2. /\ SaveBudget(IF Calm(b) THEN [Renewed(b) EXCEPT !.manual = FALSE] ELSE b)
          /\ tries' = IF Calm(b) THEN Afresh ELSE tries
      BY <2>3
    <3>3. sess[s].st = "ATTACHING"
      BY <1>8 DEF FinishAttach
    <3> HIDE DEF b
    <3> QED BY <1>0, <2>3, <3>1, <3>2, <3>3, AttachIncident
  <2> QED BY <1>8, <2>1, <2>2, <2>3 DEF FinishAttach
<1>9. ASSUME NEW s \in Site, FinishStep(s) PROVE IncidentInv'
  <2>1. PICK o \in Answers : \/ To(s, "ACTIVE") /\ SaveBudget(Review(budget, o))
                             \/ CommitBlockDetected(s, Review(budget, o), o, FALSE)
    BY <1>9 DEF FinishStep
  <2>2. CASE CommitBlockDetected(s, Review(budget, o), o, FALSE)
    BY <1>0, <2>2, CommitIncident
  <2>3. CASE To(s, "ACTIVE") /\ SaveBudget(Review(budget, o))
    <3> DEFINE b == Review(budget, o)
    <3>1. Like(b, budget)
      BY <1>0, MarkedLike
    <3> HIDE DEF b
    <3>2. budget'.attempts = budget.attempts /\ budget'.fallback = budget.fallback
      BY <2>3, <3>1, SavedFields DEF b, Like, Starts
    <3> QED BY <1>0, <2>3, <3>2, RestIncident
  <2> QED BY <2>1, <2>2, <2>3
<1>10. ASSUME NEW s \in Site, FinishRecovery(s) PROVE IncidentInv'
  <2>1. CASE Verified(s)
    BY <1>0, <2>1, VerifiedIncident
  <2>2. ASSUME NEW o \in Answers, CommitBlockDetected(s, Review(budget, o), o, TRUE)
        PROVE  IncidentInv'
    <3>1. sess[s].st = "RECOVERING"
      BY <1>10 DEF FinishRecovery
    <3> QED BY <1>0, <2>2, <3>1, CommitIncident
  <2>3. CASE To(s, "RECOVERABLE") /\ UNCHANGED budget
    BY <1>2, <2>3
  <2> QED BY <1>10, <2>1, <2>2, <2>3 DEF FinishRecovery
<1>11. ASSUME NEW s \in Site, CooldownElapsed(s) PROVE IncidentInv'
  BY <1>0, <1>11, CooldownIncident
<1>12. ASSUME NEW s \in Site, NEW intent, Recover(s, intent) PROVE IncidentInv'
  BY <1>0, <1>12, RecoverIncident
<1>13. CASE Tick
  BY <1>1, <1>13 DEF Tick
<1>14. CASE UNCHANGED vars
  BY <1>1, <1>14 DEF vars
<1> QED BY <1>4, <1>5, <1>6, <1>7, <1>8, <1>9, <1>10, <1>11, <1>12, <1>13, <1>14 DEF Next

\* No session ever makes more than three recovery probes in one incident, whatever
\* the other sessions of the origin do to the row they share (commitBlockDetected,
\* recover, verifyCapture, finishAttach).
THEOREM IncidentsAreBounded == Spec => []IncidentBounded
<1>1. Init => IncidentInv
  <2> SUFFICES ASSUME Init PROVE IncidentInv
    OBVIOUS
  <2>1. \A s \in Site : sess[s] = Resting("DELETED") /\ tries[s] = 0
    BY DEF Init
  <2>2. tries \in [Site -> Int]
    BY DEF Init
  <2> QED BY <2>1, <2>2, RestAffords DEF IncidentInv
<1>2. IncidentInv => IncidentBounded
  BY DEF IncidentInv, Afford, IncidentBounded
<1> QED BY <1>1, <1>2, InitInd, StepInd, StepIncident, PTL DEF Spec
=============================================================================

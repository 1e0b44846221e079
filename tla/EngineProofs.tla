---------------------------- MODULE EngineProofs ----------------------------
(***************************************************************************)
(* Proofs about Engine, for every set of operations and of continuations   *)
(* and every bound: the type invariant, and every safety property of the   *)
(* engine that holds.                                                      *)
(*                                                                         *)
(* The argument is about the states one turn of the engine passes through. *)
(* Good is what every such state satisfies; Reaches(d, e) says that a turn *)
(* may go on from d to e.  Each operator of Reducer is shown to reach its  *)
(* result from its argument, and each action is a chain of them.  This     *)
(* gives the types, one active runner (LeaseFenced) and fences that only   *)
(* move forward (FenceAdvances).                                           *)
(*                                                                         *)
(* The second part does the same with Sound and Leads for operations,      *)
(* snapshots, waits and verifications, and adds what the continuations own *)
(* (Owned), what the adapter has been asked for (Once) and who will end a  *)
(* verification (Driven).  The third is about sessions that only their     *)
(* owner moves: UNCERTAIN ones and those that have ended.                  *)
(***************************************************************************)
EXTENDS Engine, TLAPS

States == LiveStates \cup TerminalStates \cup {"NONE"}

Fenced(d) == d.lease # NoLease => /\ d.state \in {"ATTACHING", "ACTIVE"}
                                  /\ d.lease.fence = d.fence
Good(d) == d \in DB /\ Fenced(d)

Moves(d, e) == /\ e.fence >= d.fence
               /\ e.lease.fence # d.lease.fence => e.fence > d.fence
Reaches(d, e) == Good(e) /\ Moves(d, e)

\* The session's state, lease and fence are left alone.
Same(d, e) == e.state = d.state /\ e.lease = d.lease /\ e.fence = d.fence

\* What no event touches: the operations, the cards, the snapshot and its key, the
\* budget and the policy.
Frame(d, e) ==
    /\ e.ops = d.ops /\ e.activeOp = d.activeOp /\ e.dispatched = d.dispatched
    /\ e.unresolved = d.unresolved
    /\ e.cards = d.cards /\ e.nCards = d.nCards
    /\ e.generation = d.generation /\ e.snap = d.snap /\ e.key = d.key
    /\ e.budget = d.budget /\ e.policy = d.policy

-----------------------------------------------------------------------------
(* How turns compose. *)

\* What membership of DB says of the fields this argument is about.
LEMMA Fields ==
    ASSUME NEW d \in DB
    PROVE  /\ d.state \in States
           /\ d.fence \in Nat
           /\ d.lease \in Lease
           /\ d.lease.fence \in Nat
  <1>1. d.state \in States /\ d.fence \in Nat /\ d.lease \in Lease
    BY DEF DB, States
  <1> QED
    BY <1>1 DEF Lease

\* Turns compose.
LEMMA Trans ==
    ASSUME NEW d, NEW e, NEW f, Good(d), Reaches(d, e), Reaches(e, f)
    PROVE  Reaches(d, f)
  <1>1. d \in DB /\ e \in DB /\ f \in DB
    BY DEF Good, Reaches
  <1> QED
    BY <1>1, Fields DEF Reaches, Moves

\* A change that leaves state, lease and fence alone is a turn.
LEMMA SameReaches ==
    ASSUME NEW d, NEW e \in DB, Good(d), Same(d, e)
    PROVE  Reaches(d, e)
  <1>1. d \in DB
    BY DEF Good
  <1> QED
    BY <1>1, Fields DEF Reaches, Good, Moves, Same, Fenced

\* So is no change at all.
LEMMA SelfReaches ==
    ASSUME NEW d, Good(d)
    PROVE  Reaches(d, d)
  BY SameReaches DEF Good, Same

-----------------------------------------------------------------------------
(* The operators of Reducer. *)

\* No card is a card number.
LEMMA ZeroCard == 0 \in 0..MaxCards
  BY MaxCardsAssumption

\* emit moves the session to the event's state and touches nothing in Frame.
LEMMA EmitOK ==
    ASSUME NEW d \in DB, NEW event, NEW to \in States
    PROVE  /\ Emit(d, event, to) \in DB
           /\ Emit(d, event, to).state = to
           /\ Emit(d, event, to).lease = d.lease
           /\ Emit(d, event, to).fence = d.fence
           /\ Frame(d, Emit(d, event, to))
  <1> DEFINE x == /\ d.exhausted \/ event = "recovery.exhausted"
                  /\ event \notin {"block.detected", "cooldown.elapsed", "session.created",
                                   "policy.changed", "session.revoked", "session.deleted",
                                   "unknown.acknowledged"}
             y == event = "snapshot.intent"
             e == [d EXCEPT !.state = to, !.exhausted = x, !.intentTip = y, !.fresh = 0]
  <1>1. Emit(d, event, to) = e
    BY DEF Emit
  <1>2. x \in BOOLEAN /\ y \in BOOLEAN
    OBVIOUS
  <1> HIDE DEF x, y
  <1>3. e \in DB
    BY <1>2, ZeroCard DEF DB, States
  <1>4. e.state = to /\ e.lease = d.lease /\ e.fence = d.fence /\ Frame(d, e)
    BY DEF DB, Frame
  <1> QED
    BY <1>1, <1>3, <1>4

\* applyEventEffects touches neither state, lease nor fence.
LEMMA EffectsOK ==
    ASSUME NEW d \in DB, NEW event
    PROVE  /\ ApplyEventEffects(d, event) \in DB
           /\ Same(d, ApplyEventEffects(d, event))
           /\ Frame(d, ApplyEventEffects(d, event))
  <1> DEFINE p == IF event \in {"attach.verified", "handoff.completed", "policy.changed",
                                "session.expired", "session.revoked", "session.deleted"}
                  THEN NoBlock ELSE d.block
             q == IF event \in {"handoff.completed", "handoff.cancelled", "handoff.expired"}
                  THEN 0 ELSE d.handoffId
             r == /\ d.eligible \/ event = "snapshot.committed"
                  /\ event \notin {"policy.changed", "session.expired", "handoff.cancelled",
                                   "handoff.expired", "action.unknown"}
                  /\ ~(event = "block.detected" /\ d.block.class = "login")
             e == [d EXCEPT !.block = p, !.handoffId = q, !.eligible = r]
  <1>1. ApplyEventEffects(d, event) = e
    BY DEF ApplyEventEffects
  <1>2. NoBlock \in Block
    BY DEF NoBlock, Block
  <1>3. p \in Block /\ q \in 0..MaxCards
    BY <1>2, MaxCardsAssumption DEF DB
  <1>4. r \in BOOLEAN
    OBVIOUS
  <1> HIDE DEF p, q, r
  <1>5. e \in DB
    BY <1>3, <1>4 DEF DB
  <1>6. Same(d, e) /\ Frame(d, e)
    BY DEF DB, Same, Frame
  <1> QED
    BY <1>1, <1>5, <1>6

\* leaveContext drops the lease and, if there was one, moves the fence.
LEMMA LeaveOK ==
    ASSUME NEW d \in DB
    PROVE  /\ LeaveContext(d) \in DB
           /\ LeaveContext(d).state = d.state
           /\ LeaveContext(d).lease = NoLease
           /\ LeaveContext(d).fence = IF d.lease # NoLease THEN d.fence + 1 ELSE d.fence
           /\ Frame(d, LeaveContext(d))
  <1> DEFINE f == IF d.lease # NoLease THEN d.fence + 1 ELSE d.fence
             e == [d EXCEPT !.fence = f, !.lease = NoLease, !.verification = "none",
                            !.ctx = "none"]
  <1>1. NoLease \in Lease
    BY DEF NoLease, Lease
  <1>2. f \in Nat
    BY Fields
  <1>3. LeaveContext(d) = e
    BY DEF LeaveContext
  <1> SUFFICES /\ e \in DB /\ e.state = d.state /\ e.lease = NoLease /\ e.fence = f
               /\ Frame(d, e)
    BY <1>3
  <1> HIDE DEF f
  <1>4. e \in DB
    BY <1>1, <1>2 DEF DB
  <1> QED
    BY <1>4 DEF DB, Frame

\* commitEvent leaves operations, cards, snapshot, key, budget and policy alone.
LEMMA CommitFrame ==
    ASSUME NEW d \in DB, NEW event, NEW to \in States
    PROVE  Frame(d, CommitEvent(d, event, to))
  <1> DEFINE a == Emit(d, event, to)
             b == ApplyEventEffects(a, event)
  <1>1. a \in DB /\ Frame(d, a)
    BY EmitOK
  <1>2. b \in DB /\ Frame(a, b)
    BY <1>1, EffectsOK
  <1>3. Frame(b, LeaveContext(b))
    BY <1>2, LeaveOK
  <1>4. CommitEvent(d, event, to) \in {b, LeaveContext(b)}
    BY DEF CommitEvent
  <1> HIDE DEF a, b
  <1> QED
    BY <1>1, <1>2, <1>3, <1>4 DEF Frame

\* A committed event keeps the lease only where a runner works.  An event that
\* verifies must find the session without a lease.
LEMMA CommitOK ==
    ASSUME NEW d, Good(d), NEW event, NEW to \in States,
           to = "VERIFYING" => d.lease = NoLease
    PROVE  /\ Reaches(d, CommitEvent(d, event, to))
           /\ CommitEvent(d, event, to).state = to
           /\ to \notin ContextStates => CommitEvent(d, event, to).lease = NoLease
           /\ d.lease = NoLease => /\ CommitEvent(d, event, to).lease = NoLease
                                   /\ CommitEvent(d, event, to).fence = d.fence
           /\ to \in {"ATTACHING", "ACTIVE"} => /\ CommitEvent(d, event, to).lease = d.lease
                                               /\ CommitEvent(d, event, to).fence = d.fence
  <1> DEFINE a == Emit(d, event, to)
             b == ApplyEventEffects(a, event)
             c == LeaveContext(b)
  <1>1. d \in DB /\ Fenced(d)
    BY DEF Good
  <1>2. a \in DB /\ a.state = to /\ a.lease = d.lease /\ a.fence = d.fence
    BY <1>1, EmitOK
  <1>3. b \in DB /\ b.state = to /\ b.lease = d.lease /\ b.fence = d.fence
    BY <1>2, EffectsOK DEF Same
  <1>4. /\ c \in DB /\ c.state = to /\ c.lease = NoLease
        /\ c.fence = IF d.lease # NoLease THEN d.fence + 1 ELSE d.fence
    BY <1>3, LeaveOK
  <1>5. CommitEvent(d, event, to)
          = IF d.state \in ContextStates /\ to \notin ContextStates THEN c ELSE b
    BY DEF CommitEvent
  <1> HIDE DEF a, b, c
  <1>6. NoLease.fence = 0
    BY DEF NoLease
  <1>7. d.fence \in Nat /\ d.lease.fence \in Nat
    BY <1>1, Fields
  <1>8. CASE d.state \in ContextStates /\ to \notin ContextStates
    <2>1. CommitEvent(d, event, to) = c
      BY <1>5, <1>8
    <2>2. Moves(d, c)
      BY <1>1, <1>4, <1>6, <1>7 DEF Moves, Fenced
    <2> QED
      BY <2>1, <2>2, <1>4, <1>7, <1>8 DEF Reaches, Good, Fenced, ContextStates
  <1>9. CASE ~(d.state \in ContextStates /\ to \notin ContextStates)
    <2>1. CommitEvent(d, event, to) = b
      BY <1>5, <1>9
    <2>2. Moves(d, b)
      BY <1>3, <1>7 DEF Moves
    <2> QED
      BY <2>1, <2>2, <1>1, <1>3, <1>9 DEF Reaches, Good, Fenced, ContextStates
  <1> QED
    BY <1>8, <1>9

CardStates == {"none", "PENDING", "OPEN", "VERIFYING", "COMPLETED", "CANCELLED", "EXPIRED"}

\* saveCard only writes the card.
LEMMA SaveCardOK ==
    ASSUME NEW d \in DB, NEW c \in 1..MaxCards, NEW state \in CardStates
    PROVE  SaveCard(d, c, state) \in DB /\ Same(d, SaveCard(d, c, state))
  <1> DEFINE cs == [d.cards EXCEPT ![c].state = state]
             e == [d EXCEPT !.cards = cs, !.fresh = c]
  <1>1. SaveCard(d, c, state) = e
    BY DEF SaveCard
  <1>2. d.cards \in [1..MaxCards -> Card]
    BY DEF DB
  <1>3. cs \in [1..MaxCards -> Card]
    BY <1>2 DEF Card, CardStates
  <1>4. c \in 0..MaxCards
    BY MaxCardsAssumption
  <1> HIDE DEF cs
  <1>5. e \in DB
    BY <1>3, <1>4 DEF DB
  <1>6. Same(d, e)
    BY DEF DB, Same
  <1> QED
    BY <1>1, <1>5, <1>6

\* Naming another card, or none, leaves the lease alone.
LEMMA NamedOK ==
    ASSUME NEW d \in DB, NEW c \in 0..MaxCards
    PROVE  [d EXCEPT !.handoffId = c] \in DB /\ Same(d, [d EXCEPT !.handoffId = c])
  <1>1. [d EXCEPT !.handoffId = c] \in DB
    BY DEF DB
  <1> QED
    BY <1>1 DEF DB, Same

\* Cancelling the session's card leaves the lease alone.
LEMMA CancelCardOK ==
    ASSUME NEW d \in DB
    PROVE  CancelCard(d) \in DB /\ Same(d, CancelCard(d))
  <1> DEFINE c == IF d.handoffId # 0 THEN d.handoffId ELSE d.nCards
             s == SaveCard(d, c, "CANCELLED")
  <1>1. c \in 0..MaxCards
    BY DEF DB
  <1>2. CASE c # 0 /\ d.cards[c].state \in LiveCard
    <2>1. c \in 1..MaxCards
      BY <1>1, <1>2, MaxCardsAssumption
    <2>2. s \in DB /\ Same(d, s)
      BY <2>1, SaveCardOK DEF CardStates
    <2>3. [s EXCEPT !.handoffId = 0] \in DB /\ Same(s, [s EXCEPT !.handoffId = 0])
      BY <2>2, ZeroCard, NamedOK
    <2>4. CancelCard(d) = [s EXCEPT !.handoffId = 0]
      BY <1>2 DEF CancelCard
    <2> QED
      BY <2>2, <2>3, <2>4 DEF Same
  <1>3. CASE ~(c # 0 /\ d.cards[c].state \in LiveCard)
    <2>1. CancelCard(d) = [d EXCEPT !.handoffId = 0]
      BY <1>3 DEF CancelCard
    <2> QED
      BY <2>1, ZeroCard, NamedOK
  <1> QED
    BY <1>2, <1>3

\* newCard, within the budget and the bound, leaves the lease alone.
LEMMA AddCardOK ==
    ASSUME NEW d \in DB, CanCard(d), CardRoom(d)
    PROVE  AddCard(d) \in DB /\ Same(d, AddCard(d))
  <1> DEFINE c == d.nCards + 1
             new == [NoCard EXCEPT !.state = "PENDING", !.policy = d.policy]
             cs == [d.cards EXCEPT ![c] = new]
             bu == [d.budget EXCEPT !.handoffs = @ + 1]
             e == [d EXCEPT !.nCards = c, !.handoffId = c, !.fresh = c, !.cards = cs,
                            !.budget = bu]
  <1>1. AddCard(d) = e
    BY DEF AddCard
  <1>2. /\ d.nCards \in 0..MaxCards /\ d.policy \in Nat
        /\ d.cards \in [1..MaxCards -> Card] /\ d.budget \in Budget
    BY DEF DB
  <1>3. c \in 0..MaxCards /\ c \in 1..MaxCards
    BY <1>2, MaxCardsAssumption DEF CardRoom
  <1>4. new \in Card
    <2>1. NoCard \in Card
      BY DEF NoCard, Card, VERIFY_MAX
    <2> QED
      BY <1>2, <2>1 DEF Card
  <1> HIDE DEF new
  <1>5. cs \in [1..MaxCards -> Card]
    BY <1>2, <1>4
  <1>6. bu \in Budget
    <2>1. d.budget.handoffs + 1 \in 0..HANDOFF_MAX
      BY <1>2 DEF Budget, CanCard, HANDOFF_MAX
    <2> QED
      BY <1>2, <2>1 DEF Budget
  <1> HIDE DEF c, cs, bu
  <1>7. e \in DB
    BY <1>3, <1>5, <1>6 DEF DB
  <1>8. Same(d, e)
    BY DEF DB, Same
  <1> QED
    BY <1>1, <1>7, <1>8

\* Asking for a manual review only writes the budget.
LEMMA ReviewOK ==
    ASSUME NEW d \in DB, NEW obs
    PROVE  Review(d, obs) \in DB /\ Same(d, Review(d, obs))
  <1> DEFINE m == d.budget.manual \/ obs.wait = "oversized"
             bu == [d.budget EXCEPT !.manual = m]
             e == [d EXCEPT !.budget = bu]
  <1>1. Review(d, obs) = e
    BY DEF Review
  <1>2. d.budget \in Budget
    BY DEF DB
  <1>3. m \in BOOLEAN
    OBVIOUS
  <1> HIDE DEF m
  <1>4. bu \in Budget
    BY <1>2, <1>3 DEF Budget
  <1> HIDE DEF bu
  <1>5. e \in DB
    BY <1>4 DEF DB
  <1>6. Same(d, e)
    BY DEF DB, Same
  <1> QED
    BY <1>1, <1>5, <1>6

\* Marking the dispatched operation UNKNOWN leaves the lease alone.
LEMMA LoseOperationOK ==
    ASSUME NEW d \in DB, d.activeOp # "none"
    PROVE  LoseOperation(d) \in DB /\ Same(d, LoseOperation(d))
  <1> DEFINE os == [d.ops EXCEPT ![d.activeOp] = "UNKNOWN"]
             un == d.unresolved \cup {d.activeOp}
             e == [d EXCEPT !.ops = os, !.unresolved = un, !.activeOp = "none",
                            !.dispatched = FALSE]
  <1>1. LoseOperation(d) = e
    BY DEF LoseOperation
  <1>2. d.activeOp \in Op /\ d.unresolved \in SUBSET Op /\ d.ops \in [Op -> OpState]
    BY DEF DB
  <1>3. os \in [Op -> OpState]
    BY <1>2 DEF OpState
  <1>4. un \in SUBSET Op
    BY <1>2
  <1> HIDE DEF os, un
  <1>5. e \in DB
    BY <1>3, <1>4 DEF DB
  <1>6. Same(d, e)
    BY DEF DB, Same
  <1> QED
    BY <1>1, <1>5, <1>6

\* failVerification is a turn, whatever fence and error it is called with.
LEMMA FailVerificationOK ==
    ASSUME NEW d, Good(d), NEW fence, NEW code
    PROVE  Reaches(d, FailVerification(d, fence, code))
  <1>1. /\ Reaches(d, CommitEvent(d, "session.quarantined", "QUARANTINED"))
        /\ Reaches(d, CommitEvent(d, "session.expired", "EXPIRED"))
        /\ Reaches(d, CommitEvent(d, "recovery.exhausted", "RECOVERABLE"))
    BY CommitOK DEF States, LiveStates, TerminalStates
  <1>2. Reaches(d, d)
    BY SelfReaches
  <1> QED
    BY <1>1, <1>2 DEF FailVerification

\* tick is a turn: an expired lease is dropped under a new fence.
LEMMA TickOK ==
    ASSUME NEW d, Good(d)
    PROVE  Reaches(d, Tick(d))
  <1> USE DEF States, LiveStates, TerminalStates
  <1>1. d \in DB
    BY DEF Good
  <1>2. ASSUME d.activeOp # "none"
        PROVE  Reaches(d, CommitEvent(LoseOperation(d), "action.unknown", "UNCERTAIN"))
    <2>1. Reaches(d, LoseOperation(d))
      BY <1>1, <1>2, LoseOperationOK, SameReaches
    <2>2. Reaches(LoseOperation(d), CommitEvent(LoseOperation(d), "action.unknown", "UNCERTAIN"))
      BY <2>1, CommitOK DEF Reaches
    <2> QED
      BY <2>1, <2>2, Trans
  <1>3. Reaches(d, CommitEvent(d, "lease.expired", "DETACHED"))
    BY CommitOK
  <1>4. Reaches(d, CommitEvent(d, "cooldown.elapsed", "RECOVERABLE"))
    BY CommitOK
  <1>5. ASSUME d.handoffId # 0
        PROVE  Reaches(d, SaveCard(CommitEvent(d, "handoff.expired", "NEEDS_LOGIN"),
                                   d.handoffId, "EXPIRED"))
    <2>1. d.handoffId \in 1..MaxCards
      <3>1. d.handoffId \in 0..MaxCards
        BY <1>1 DEF DB
      <3> QED
        BY <3>1, <1>5, MaxCardsAssumption
    <2> DEFINE e == CommitEvent(d, "handoff.expired", "NEEDS_LOGIN")
    <2>2. Reaches(d, e)
      BY CommitOK
    <2> HIDE DEF e
    <2>3. Reaches(e, SaveCard(e, d.handoffId, "EXPIRED"))
      BY <2>1, <2>2, SaveCardOK, SameReaches DEF Reaches, Good, CardStates
    <2> QED
      BY <2>2, <2>3, Trans DEF e
  <1>6. \A to \in {"UNCERTAIN", "EXPIRED"} : Reaches(d, CommitEvent(d, "session.expired", to))
    BY CommitOK
  <1>7. Reaches(d, d)
    BY SelfReaches
  <1> QED
    BY <1>2, <1>3, <1>4, <1>5, <1>6, <1>7 DEF Tick

\* Recording a block leaves the lease alone.
LEMMA StampOK ==
    ASSUME NEW d \in DB, NEW class \in BlockClass, NEW retry \in {"none", "pending", "due"}
    PROVE  /\ Stamp(d, class, retry) \in DB
           /\ Same(d, Stamp(d, class, retry))
           /\ Stamp(d, class, retry).nCards = d.nCards
           /\ Stamp(d, class, retry).budget.handoffs = d.budget.handoffs
  <1> DEFINE b == BaseBlock(d, class, retry)
             bu == [d.budget EXCEPT !.calm = FALSE]
             e == [d EXCEPT !.budget = bu, !.block = b]
  <1>1. d.budget \in Budget
    BY DEF DB
  <1>2. bu \in Budget /\ bu.handoffs = d.budget.handoffs
    BY <1>1 DEF Budget
  <1>3. b \in Block
    BY <1>1 DEF BaseBlock, Block, Budget
  <1>4. Stamp(d, class, retry) = e
    BY DEF Stamp
  <1> HIDE DEF b, bu
  <1>5. e \in DB
    BY <1>2, <1>3 DEF DB
  <1>6. Same(d, e) /\ e.budget = bu /\ e.nCards = d.nCards
    BY DEF DB, Same
  <1> QED
    BY <1>2, <1>4, <1>5, <1>6

\* Scheduling a retry keeps the budget within its limits.
LEMMA ScheduleOK ==
    ASSUME NEW d \in DB, NEW obs, obs.class \in BlockClass, NEW probe \in BOOLEAN
    PROVE  Schedule(d, obs, probe) \in DB /\ Same(d, Schedule(d, obs, probe))
  <1> DEFINE tooLong == obs.wait = "tooLong"
             attempt == NextAttempt(d, probe)
             s == Stamp(d, obs.class, IF tooLong THEN "none" ELSE "pending")
             at == IF attempt > VERIFY_MAX THEN VERIFY_MAX ELSE attempt
             wa == s.budget.wait \/ ~tooLong
             ma == s.budget.manual \/ tooLong
             bu == [s.budget EXCEPT !.attempts = at, !.wait = wa, !.manual = ma]
             e == [s EXCEPT !.budget = bu]
  <1>1. s \in DB /\ Same(d, s)
    BY StampOK
  <1>2. s.budget \in Budget /\ d.budget \in Budget
    BY <1>1 DEF DB
  <1>3. at \in 0..VERIFY_MAX
    BY <1>2 DEF Budget, VERIFY_MAX, NextAttempt
  <1>4. wa \in BOOLEAN /\ ma \in BOOLEAN
    OBVIOUS
  <1>5. Schedule(d, obs, probe) = e
    BY DEF Schedule
  <1> HIDE DEF s, at, wa, ma
  <1>6. bu \in Budget
    BY <1>2, <1>3, <1>4 DEF Budget
  <1> HIDE DEF bu
  <1>7. e \in DB /\ Same(s, e)
    <2>1. e \in DB
      BY <1>1, <1>6 DEF DB
    <2> QED
      BY <1>1, <2>1 DEF DB, Same
  <1> QED
    BY <1>1, <1>5, <1>7 DEF Same

\* commitBlockDetected is a turn, on each of its five routes.
LEMMA CommitBlockDetectedOK ==
    ASSUME NEW d, Good(d), NEW obs, obs.class \in BlockClass, NEW probe \in BOOLEAN,
           Bounded(d, obs)
    PROVE  Reaches(d, CommitBlockDetected(d, obs, probe))
  <1> USE DEF States, LiveStates, TerminalStates
  <1> DEFINE sc == Schedule(d, obs, probe)
             st == Stamp(d, obs.class, "none")
             cool == CommitEvent(sc, "block.detected", "COOLDOWN")
             card == CommitEvent(st, "block.detected", "HANDOFF_WAIT")
  <1>1. d \in DB
    BY DEF Good
  <1>2. Reaches(d, sc)
    BY <1>1, ScheduleOK, SameReaches
  <1>3. /\ Reaches(d, st)
        /\ st.nCards = d.nCards /\ st.budget.handoffs = d.budget.handoffs
    BY <1>1, StampOK, SameReaches
  <1>4. Reaches(d, cool)
    <2> HIDE DEF sc
    <2> QED
      BY <1>2, CommitOK, Trans DEF Reaches
  <1>5. Reaches(d, CommitEvent(cool, "recovery.exhausted", "RECOVERABLE"))
    <2> HIDE DEF cool
    <2> QED
      BY <1>4, CommitOK, Trans DEF Reaches
  <1>6. \A to \in {"NEEDS_LOGIN", "RECOVERABLE"} :
            Reaches(d, CommitEvent(st, "block.detected", to))
    <2> HIDE DEF st
    <2> QED
      BY <1>3, CommitOK, Trans DEF Reaches
  <1>7. ASSUME obs.class = "login", CanCard(d)
        PROVE  Reaches(d, AddCard(card))
    <2> HIDE DEF st
    <2>1. Reaches(d, card)
      BY <1>3, CommitOK, Trans DEF Reaches
    <2>2. Frame(st, card)
      BY <1>3, CommitFrame DEF Reaches, Good
    <2>3. CanCard(card) /\ CardRoom(card)
      BY <1>3, <1>7, <2>2 DEF CanCard, CardRoom, Bounded, Frame
    <2> HIDE DEF card
    <2>4. Reaches(card, AddCard(card))
      BY <2>1, <2>3, AddCardOK, SameReaches DEF Reaches, Good
    <2> QED
      BY <2>1, <2>4, Trans
  <1> HIDE DEF st, sc
  <1> QED
    BY <1>4, <1>5, <1>6, <1>7 DEF CommitBlockDetected, BlockClass, st, sc

-----------------------------------------------------------------------------
(* The updates handlers make besides committing events. *)

\* commitEvent continues a turn.
LEMMA CommitNext ==
    ASSUME NEW d, Good(d), NEW e, Reaches(d, e), NEW event, NEW to \in States,
           to = "VERIFYING" => e.lease = NoLease
    PROVE  Reaches(d, CommitEvent(e, event, to))
  <1>1. Good(e)
    BY DEF Reaches
  <1>2. Reaches(e, CommitEvent(e, event, to))
    BY <1>1, CommitOK
  <1> QED
    BY <1>2, Trans

\* An event that leaves the session where it is.
LEMMA StayOK ==
    ASSUME NEW d, Good(d), NEW event
    PROVE  Reaches(d, CommitEvent(d, event, d.state))
  <1>1. d.state \in States
    BY Fields DEF Good
  <1>2. d.state = "VERIFYING" => d.lease = NoLease
    BY DEF Good, Fenced
  <1> QED
    BY <1>1, <1>2, CommitOK

\* putSite's new policy revision leaves the lease alone.
LEMMA SiteOK ==
    ASSUME NEW d, Good(d)
    PROVE  Reaches(d, [d EXCEPT !.policy = @ + 1, !.consentDue = FALSE])
  <1> DEFINE p == d.policy + 1
             e == [d EXCEPT !.policy = p, !.consentDue = FALSE]
  <1>1. d \in DB
    BY DEF Good
  <1>2. p \in Nat
    BY <1>1 DEF DB
  <1> HIDE DEF p
  <1>3. e \in DB
    BY <1>1, <1>2 DEF DB
  <1>4. Same(d, e)
    BY <1>1 DEF DB, Same
  <1> QED
    BY <1>3, <1>4, SameReaches DEF p

\* Storing a snapshot leaves the lease alone.
LEMMA GenerationOK ==
    ASSUME NEW d, Good(d), NEW sn \in Snapshot, NEW g \in Nat
    PROVE  Reaches(d, [d EXCEPT !.snap = sn, !.generation = g])
  <1> DEFINE e == [d EXCEPT !.snap = sn, !.generation = g]
  <1>1. d \in DB
    BY DEF Good
  <1>2. e \in DB
    BY <1>1 DEF DB
  <1>3. Same(d, e)
    BY <1>1 DEF DB, Same
  <1> QED
    BY <1>2, <1>3, SameReaches

\* Revocation's new generation leaves the lease alone.
LEMMA NextGenerationOK ==
    ASSUME NEW d, Good(d)
    PROVE  Reaches(d, [d EXCEPT !.generation = @ + 1])
  <1> DEFINE g == d.generation + 1
             e == [d EXCEPT !.generation = g]
  <1>1. d \in DB
    BY DEF Good
  <1>2. g \in Nat
    BY <1>1 DEF DB
  <1> HIDE DEF g
  <1>3. e \in DB
    BY <1>1, <1>2 DEF DB
  <1>4. Same(d, e)
    BY <1>1 DEF DB, Same
  <1> QED
    BY <1>3, <1>4, SameReaches DEF g

Contexts == {"none", "attach", "recovery", "human"}

\* The map of contexts is no part of the lease.
LEMMA ContextOK ==
    ASSUME NEW d, Good(d), NEW x \in Contexts
    PROVE  Reaches(d, [d EXCEPT !.ctx = x])
  <1> DEFINE e == [d EXCEPT !.ctx = x]
  <1>1. d \in DB
    BY DEF Good
  <1>2. e \in DB
    BY <1>1 DEF DB, Contexts
  <1>3. Same(d, e)
    BY <1>1 DEF DB, Same
  <1> QED
    BY <1>2, <1>3, SameReaches

\* Nor is the kind of verification,
LEMMA VerificationOK ==
    ASSUME NEW d, Good(d), NEW v \in {"none", "attach", "recovery", "handoff"}
    PROVE  Reaches(d, [d EXCEPT !.verification = v])
  <1> DEFINE e == [d EXCEPT !.verification = v]
  <1>1. d \in DB
    BY DEF Good
  <1>2. e \in DB
    BY <1>1 DEF DB
  <1>3. Same(d, e)
    BY <1>1 DEF DB, Same
  <1> QED
    BY <1>2, <1>3, SameReaches

\* nor the budget,
LEMMA BudgetOK ==
    ASSUME NEW d, Good(d), NEW bu \in Budget
    PROVE  Reaches(d, [d EXCEPT !.budget = bu])
  <1> DEFINE e == [d EXCEPT !.budget = bu]
  <1>1. d \in DB
    BY DEF Good
  <1>2. e \in DB
    BY <1>1 DEF DB
  <1>3. Same(d, e)
    BY <1>1 DEF DB, Same
  <1> QED
    BY <1>2, <1>3, SameReaches

\* nor the block,
LEMMA BlockOK ==
    ASSUME NEW d, Good(d), NEW b \in Block
    PROVE  Reaches(d, [d EXCEPT !.block = b])
  <1> DEFINE e == [d EXCEPT !.block = b]
  <1>1. d \in DB
    BY DEF Good
  <1>2. e \in DB
    BY <1>1 DEF DB
  <1>3. Same(d, e)
    BY <1>1 DEF DB, Same
  <1> QED
    BY <1>2, <1>3, SameReaches

\* nor the cards,
LEMMA CardsOK ==
    ASSUME NEW d, Good(d), NEW cs \in [1..MaxCards -> Card]
    PROVE  Reaches(d, [d EXCEPT !.cards = cs])
  <1> DEFINE e == [d EXCEPT !.cards = cs]
  <1>1. d \in DB
    BY DEF Good
  <1>2. e \in DB
    BY <1>1 DEF DB
  <1>3. Same(d, e)
    BY <1>1 DEF DB, Same
  <1> QED
    BY <1>2, <1>3, SameReaches

\* The clock passes the lease's deadline, or a renewal moves it out.
LEMMA LeaseDueOK ==
    ASSUME NEW d, Good(d), d.lease # NoLease, NEW x \in BOOLEAN
    PROVE  Reaches(d, [d EXCEPT !.lease.due = x])
  <1> DEFINE l == [d.lease EXCEPT !.due = x]
             e == [d EXCEPT !.lease = l]
  <1>1. d \in DB
    BY DEF Good
  <1>2. d.lease \in Lease /\ d.fence \in Nat
    BY <1>1, Fields
  <1>3. l \in Lease /\ l.fence = d.lease.fence
    BY <1>2 DEF Lease
  <1> HIDE DEF l
  <1>4. e \in DB
    BY <1>1, <1>3 DEF DB
  <1>5. e.state = d.state /\ e.fence = d.fence /\ e.lease = l
    BY <1>1 DEF DB
  <1>6. Reaches(d, e)
    <2> HIDE DEF e
    <2> QED
      BY <1>2, <1>3, <1>4, <1>5 DEF Reaches, Good, Fenced, Moves
  <1> QED
    BY <1>6 DEF l

\* attach issues a lease under the next fence to a session that has none.
LEMMA LeaseOK ==
    ASSUME NEW d, Good(d), d.state = "DETACHED"
    PROVE  LET e == [d EXCEPT !.fence = @ + 1, !.verification = "attach",
                              !.lease = [fence |-> d.fence + 1, due |-> FALSE]]
           IN  /\ Reaches(d, CommitEvent(e, "lease.acquired", "ATTACHING"))
               /\ CommitEvent(e, "lease.acquired", "ATTACHING").fence \in Nat
  <1> DEFINE f == d.fence + 1
             l == [fence |-> f, due |-> FALSE]
             e == [d EXCEPT !.fence = f, !.verification = "attach", !.lease = l]
             a == Emit(e, "lease.acquired", "ATTACHING")
             b == ApplyEventEffects(a, "lease.acquired")
  <1>1. d \in DB /\ d.lease = NoLease /\ d.fence \in Nat
    BY Fields DEF Good, Fenced
  <1>2. f \in Nat /\ f > d.fence
    BY <1>1
  <1>3. l \in Lease /\ l.fence = f
    BY <1>2 DEF Lease
  <1> HIDE DEF f, l
  <1>4. e \in DB
    BY <1>1, <1>2, <1>3 DEF DB
  <1>5. e.state = "DETACHED" /\ e.fence = f /\ e.lease = l
    BY <1>1 DEF DB
  <1> HIDE DEF e
  <1>6. a \in DB /\ a.state = "ATTACHING" /\ a.fence = f /\ a.lease = l
    BY <1>4, <1>5, EmitOK DEF States, LiveStates
  <1> HIDE DEF a
  <1>7. b \in DB /\ b.state = "ATTACHING" /\ b.fence = f /\ b.lease = l
    BY <1>6, EffectsOK DEF Same
  <1>8. CommitEvent(e, "lease.acquired", "ATTACHING") = b
    BY <1>5 DEF CommitEvent, ContextStates, a
  <1> HIDE DEF b
  <1>9. Reaches(d, b)
    BY <1>1, <1>2, <1>3, <1>7 DEF Reaches, Good, Fenced, Moves, NoLease
  <1> QED
    BY <1>2, <1>7, <1>8, <1>9 DEF e, f, l

\* nor an operation's row,
LEMMA OpsOK ==
    ASSUME NEW d, Good(d), NEW o \in Op, NEW r \in OpState
    PROVE  Reaches(d, [d EXCEPT !.ops[o] = r])
  <1> DEFINE os == [d.ops EXCEPT ![o] = r]
             e == [d EXCEPT !.ops = os]
  <1>1. d \in DB /\ d.ops \in [Op -> OpState]
    BY DEF Good, DB
  <1>2. os \in [Op -> OpState]
    BY <1>1
  <1> HIDE DEF os
  <1>3. e \in DB
    BY <1>1, <1>2 DEF DB
  <1>4. Same(d, e)
    BY <1>1 DEF DB, Same
  <1> QED
    BY <1>3, <1>4, SameReaches DEF os

\* nor the slot of the active operation,
LEMMA SlotOK ==
    ASSUME NEW d, Good(d), NEW o \in Op, NEW r \in OpState, NEW a \in Op \cup {"none"}
    PROVE  Reaches(d, [d EXCEPT !.ops[o] = r, !.activeOp = a, !.dispatched = FALSE])
  <1> DEFINE os == [d.ops EXCEPT ![o] = r]
             e == [d EXCEPT !.ops = os, !.activeOp = a, !.dispatched = FALSE]
  <1>1. d \in DB /\ d.ops \in [Op -> OpState]
    BY DEF Good, DB
  <1>2. os \in [Op -> OpState]
    BY <1>1
  <1> HIDE DEF os
  <1>3. e \in DB
    BY <1>1, <1>2 DEF DB
  <1>4. Same(d, e)
    BY <1>1 DEF DB, Same
  <1> QED
    BY <1>3, <1>4, SameReaches DEF os

\* nor the mark that it was dispatched,
LEMMA DispatchedOK ==
    ASSUME NEW d, Good(d), NEW o \in Op
    PROVE  Reaches(d, [d EXCEPT !.ops[o] = "DISPATCHED", !.dispatched = TRUE])
  <1> DEFINE os == [d.ops EXCEPT ![o] = "DISPATCHED"]
             e == [d EXCEPT !.ops = os, !.dispatched = TRUE]
  <1>1. d \in DB /\ d.ops \in [Op -> OpState]
    BY DEF Good, DB
  <1>2. os \in [Op -> OpState]
    BY <1>1 DEF OpState
  <1> HIDE DEF os
  <1>3. e \in DB
    BY <1>1, <1>2 DEF DB
  <1>4. Same(d, e)
    BY <1>1 DEF DB, Same
  <1> QED
    BY <1>3, <1>4, SameReaches DEF os

\* nor the list of unresolved operations.
LEMMA UnresolvedOK ==
    ASSUME NEW d, Good(d), NEW un \in SUBSET Op
    PROVE  Reaches(d, [d EXCEPT !.unresolved = un])
  <1> DEFINE e == [d EXCEPT !.unresolved = un]
  <1>1. d \in DB
    BY DEF Good
  <1>2. e \in DB
    BY <1>1 DEF DB
  <1>3. Same(d, e)
    BY <1>1 DEF DB, Same
  <1> QED
    BY <1>2, <1>3, SameReaches

\* Storing what a continuation captured leaves the lease alone.
LEMMA StoreOK ==
    ASSUME NEW d, Good(d), NEW k \in Task
    PROVE  Reaches(d, Store(d, k))
  <1> DEFINE sn == [generation |-> k.gen, policy |-> k.policy]
             x == d.consentDue /\ k.policy = d.policy
             g == k.gen
             e == [d EXCEPT !.snap = sn, !.generation = g, !.snapDue = x]
  <1>1. d \in DB
    BY DEF Good
  <1>2. g \in Nat /\ sn \in Snapshot
    BY DEF Task, Snapshot
  <1>3. x \in BOOLEAN
    OBVIOUS
  <1>4. Store(d, k) = e
    BY DEF Store
  <1> HIDE DEF sn, x, g
  <1>5. e \in DB
    BY <1>1, <1>2, <1>3 DEF DB
  <1>6. Same(d, e)
    BY <1>1 DEF DB, Same
  <1> QED
    BY <1>4, <1>5, <1>6, SameReaches

\* encKeyFor leaves the lease alone.
LEMMA WithKeyOK ==
    ASSUME NEW d, Good(d)
    PROVE  Reaches(d, WithKey(d))
  <1>1. d \in DB
    BY DEF Good
  <1>2. WithKey(d) \in DB
    BY <1>1 DEF DB, WithKey
  <1>3. Same(d, WithKey(d))
    BY <1>1 DEF DB, Same, WithKey
  <1> QED
    BY <1>2, <1>3, SameReaches

-----------------------------------------------------------------------------
(* The actions. *)

\* A continuation of step names its operation, one of a handoff its card.
Named(k) == /\ k.kind \in {"step", "dispatch"} => k.op \in Op
            /\ k.kind \in {"handoffWait", "handoffProbe"} => k.card \in 1..MaxCards
TasksNamed == \A t \in Slot : Named(task[t])

\* The inductive invariant, and what one step of the specification is shown to do.
Inv == TypeOK /\ TasksNamed /\ LeaseFenced
Stepped == TypeOK' /\ TasksNamed' /\ Reaches(db, db')

\* The invariant says of db what Good says of any state of a turn.
LEMMA InvGood == Inv => Good(db)
  BY DEF Inv, TypeOK, LeaseFenced, Good, Fenced

\* A free slot names nothing.
LEMMA IdleNamed == Named(Idle)
  BY DEF Idle, Named

\* A free slot is a task record.
LEMMA IdleTask == Idle \in Task
  BY ZeroCard DEF Idle, Task, TaskKind

\* An action that only writes db preserves the invariant if it is a turn.
LEMMA TurnOK ==
    ASSUME Inv, NEW e, Reaches(db, e), Turn(e)
    PROVE  Stepped
  BY DEF Inv, Turn, TypeOK, TasksNamed, Stepped, Reaches, Good

\* So does one that also writes the record of a continuation.
LEMMA BecomeOK ==
    ASSUME Inv, NEW t \in Slot, NEW e, Reaches(db, e), NEW k \in Task, Named(k),
           Become(t, e, k)
    PROVE  Stepped
  <1>1. task \in [Slot -> Task] /\ task' = [task EXCEPT ![t] = k]
    BY DEF Inv, TypeOK, Become
  <1>2. TasksNamed'
    BY <1>1 DEF Inv, TasksNamed
  <1>3. TypeOK'
    BY <1>1 DEF Inv, Become, TypeOK, Reaches, Good
  <1> QED
    BY <1>2, <1>3 DEF Become, Stepped

\* So does one that ends a continuation.
LEMMA EndOK ==
    ASSUME Inv, NEW t \in Slot, NEW e, Reaches(db, e), End(t, e)
    PROVE  Stepped
  BY BecomeOK, IdleTask, IdleNamed DEF End

\* putSite, createSession, revoke, deleteSession, vaultRotate.
LEMMA SessionActions ==
    ASSUME Inv, PutSite \/ CreateSession \/ Revoke \/ DeleteSession \/ VaultRotate
    PROVE  Stepped
  <1> USE DEF States, LiveStates, TerminalStates
  <1> DEFINE k == Tick(db)
  <1>1. Good(db) /\ Reaches(db, db)
    BY InvGood, SelfReaches
  <1>2. Reaches(db, k) /\ Good(k)
    BY <1>1, TickOK DEF Reaches
  <1>3. CASE PutSite
    <2> DEFINE n == [db EXCEPT !.policy = @ + 1, !.consentDue = FALSE]
               e == CommitEvent(n, "policy.changed", "NEEDS_LOGIN")
    <2>1. Reaches(db, n)
      BY <1>1, SiteOK
    <2>2. Reaches(db, CommitEvent(n, "policy.changed", "UNCERTAIN"))
      <3> HIDE DEF n
      <3> QED
        BY <1>1, <2>1, CommitNext
    <2>3. Reaches(db, e)
      <3> HIDE DEF n
      <3> QED
        BY <1>1, <2>1, CommitNext
    <2>4. Reaches(db, CancelCard(e))
      <3> HIDE DEF e
      <3> QED
        BY <1>1, <2>3, CancelCardOK, SameReaches, Trans DEF Reaches, Good
    <2> HIDE DEF n, e
    <2> QED
      BY <1>3, <2>1, <2>2, <2>4, TurnOK DEF PutSite, n, e
  <1>4. CASE CreateSession
    <2> DEFINE c == CommitEvent(db, "session.created", "NEEDS_LOGIN")
               h == CommitEvent(c, "handoff.created", "HANDOFF_WAIT")
    <2>1. Reaches(db, c) /\ Good(c)
      BY <1>1, CommitOK DEF Reaches
    <2>2. ASSUME CanCard(c), CardRoom(c) PROVE Reaches(db, AddCard(h))
      <3> HIDE DEF c
      <3>1. Reaches(db, h) /\ Frame(c, h)
        BY <1>1, <2>1, CommitNext, CommitFrame DEF Good
      <3>2. CanCard(h) /\ CardRoom(h)
        BY <2>2, <3>1 DEF Frame, CanCard, CardRoom
      <3> HIDE DEF h
      <3> QED
        BY <1>1, <3>1, <3>2, AddCardOK, SameReaches, Trans DEF Reaches, Good
    <2> HIDE DEF c, h
    <2> QED
      BY <1>4, <2>1, <2>2, TurnOK DEF CreateSession, c, h
  <1>5. CASE Revoke
    <2> DEFINE n == [k EXCEPT !.generation = @ + 1]
               e == CommitEvent(n, "session.revoked", "REVOKED")
    <2> HIDE DEF k
    <2>1. Reaches(db, n)
      BY <1>1, <1>2, NextGenerationOK, Trans
    <2> HIDE DEF n
    <2>2. Reaches(db, e)
      BY <1>1, <2>1, CommitNext
    <2> HIDE DEF e
    <2>3. Reaches(db, CancelCard(e))
      BY <1>1, <2>2, CancelCardOK, SameReaches, Trans DEF Reaches, Good
    <2> QED
      BY <1>5, <2>3, TurnOK DEF Revoke, k, n, e
  <1>6. CASE DeleteSession
    <2> DEFINE c == CommitEvent(k, "session.deleted", "DELETED")
               y == IF c.key = "present" THEN "erased" ELSE c.key
               e == [c EXCEPT !.snap = NoSnapshot, !.key = y]
    <2> HIDE DEF k
    <2>1. Reaches(db, c)
      BY <1>1, <1>2, CommitNext
    <2> HIDE DEF c
    <2>2. c \in DB /\ Good(c)
      BY <2>1 DEF Reaches, Good
    <2>3. y \in {"none", "present", "erased"}
      BY <2>2 DEF DB
    <2>4. NoSnapshot \in Snapshot
      BY DEF NoSnapshot, Snapshot
    <2>5. Reaches(db, e)
      <3> HIDE DEF y
      <3>1. e \in DB
        BY <2>2, <2>3, <2>4 DEF DB
      <3>2. Same(c, e)
        BY <2>2 DEF DB, Same
      <3> QED
        BY <1>1, <2>1, <2>2, <3>1, <3>2, SameReaches, Trans
    <2> QED
      BY <1>6, <2>5, TurnOK DEF DeleteSession, k, c
  <1>7. CASE VaultRotate
    <2> DEFINE g == k.generation + 1
               sn == [k.snap EXCEPT !.generation = g]
               st == [k EXCEPT !.snap = sn, !.generation = g]
               e == CommitEvent(st, "snapshot.committed", "DETACHED")
    <2> HIDE DEF k
    <2>1. k \in DB /\ k.generation \in Nat /\ k.snap \in Snapshot
      BY <1>2 DEF Good, DB
    <2>2. g \in Nat
      BY <2>1
    <2>3. sn \in Snapshot
      BY <2>1, <2>2 DEF Snapshot
    <2> HIDE DEF g, sn
    <2>4. Reaches(db, st)
      BY <1>1, <1>2, <2>2, <2>3, GenerationOK, Trans
    <2> HIDE DEF st
    <2>5. Reaches(db, e)
      BY <1>1, <2>4, CommitNext
    <2> HIDE DEF e
    <2>6. Reaches(db, CommitEvent(e, "key.rotated", "DETACHED"))
      BY <1>1, <2>5, CommitNext
    <2> QED
      BY <1>7, <2>6, TurnOK DEF VaultRotate, k, g, sn, st, e
  <1> QED
    BY <1>3, <1>4, <1>5, <1>6, <1>7

\* What the type invariant says of the values a handler reads.
LEMMA Reads ==
    ASSUME Inv
    PROVE  /\ db \in DB
           /\ db.state \in States
           /\ db.fence \in Nat /\ db.policy \in Nat
           /\ db.generation \in Nat /\ db.generation + 1 \in Nat
           /\ db.handoffId \in 0..MaxCards /\ db.nCards \in 0..MaxCards
           /\ db.unresolved \in SUBSET Op /\ db.budget \in Budget
           /\ \A t \in Slot : /\ task[t] \in Task
                               /\ task[t].fence \in Nat /\ task[t].policy \in Nat
                               /\ task[t].op \in Op \cup {"none"}
                               /\ task[t].card \in 0..MaxCards
  <1>1. db \in DB /\ \A t \in Slot : task[t] \in Task
    BY DEF Inv, TypeOK
  <1>2. \A t \in Slot : /\ task[t].fence \in Nat /\ task[t].policy \in Nat
                        /\ task[t].op \in Op \cup {"none"} /\ task[t].card \in 0..MaxCards
    BY <1>1 DEF Task
  <1>3. /\ db.state \in States /\ db.fence \in Nat /\ db.policy \in Nat
        /\ db.generation \in Nat /\ db.handoffId \in 0..MaxCards /\ db.nCards \in 0..MaxCards
        /\ db.unresolved \in SUBSET Op /\ db.budget \in Budget
    BY <1>1 DEF DB, States
  <1> QED
    BY <1>1, <1>2, <1>3

\* The first half of a checkpoint.
LEMMA BeginCaptureOK ==
    ASSUME Inv, NEW t \in Slot, NEW next \in {"none", "detach"}, BeginCapture(t, next)
    PROVE  Stepped
  <1> DEFINE i == [Idle EXCEPT !.kind = "capture", !.gen = db.generation + 1,
                               !.policy = db.policy, !.next = next]
  <1>1. Reaches(db, CommitEvent(db, "snapshot.intent", db.state))
    BY InvGood, StayOK
  <1>2. i \in Task
    BY Reads, IdleTask DEF Task, TaskKind
  <1>3. Named(i)
    BY DEF Idle, Named
  <1> HIDE DEF i
  <1> QED
    BY <1>1, <1>2, <1>3, BecomeOK DEF BeginCapture, i

\* attach and the continuations of finishAttach.
LEMMA AttachActions ==
    ASSUME Inv, NEW t \in Slot,
           Attach(t) \/ ContextOpened(t) \/ VerificationThrows(t) \/ FinishAttach(t)
    PROVE  Stepped
  <1> USE DEF States, LiveStates, TerminalStates
  <1>1. Good(db) /\ Reaches(db, db)
    BY InvGood, SelfReaches
  <1>2. CASE Attach(t)
    <2>1. PICK tampered \in BOOLEAN :
            LET k == Tick(db)
                leased == [k EXCEPT !.fence = @ + 1, !.verification = "attach",
                                    !.lease = [fence |-> k.fence + 1, due |-> FALSE]]
                d == CommitEvent(leased, "lease.acquired", "ATTACHING")
                error == IF tampered THEN "INTEGRITY_FAILED" ELSE RestoreError(d)
            IN /\ k.state = "DETACHED"
               /\ IF error = "OK"
                  THEN Become(t, d, [Idle EXCEPT !.kind = "attachOpen", !.fence = d.fence,
                                                 !.policy = d.policy])
                  ELSE Turn(FailVerification(d, d.fence, error))
      BY <1>2 DEF Attach
    <2> DEFINE k == Tick(db)
               leased == [k EXCEPT !.fence = @ + 1, !.verification = "attach",
                                   !.lease = [fence |-> k.fence + 1, due |-> FALSE]]
               d == CommitEvent(leased, "lease.acquired", "ATTACHING")
               error == IF tampered THEN "INTEGRITY_FAILED" ELSE RestoreError(d)
               i == [Idle EXCEPT !.kind = "attachOpen", !.fence = d.fence, !.policy = d.policy]
    <2>2. Reaches(db, k) /\ Good(k)
      BY <1>1, TickOK DEF Reaches
    <2>3. Reaches(k, d)
      <3> HIDE DEF k
      <3> QED
        BY <2>1, <2>2, LeaseOK DEF k
    <2>4. IF error = "OK" THEN Become(t, d, i) ELSE Turn(FailVerification(d, d.fence, error))
      BY <2>1
    <2> HIDE DEF d, k, error
    <2>5. Reaches(db, d) /\ Good(d)
      BY <1>1, <2>2, <2>3, Trans DEF Reaches
    <2>6. d.fence \in Nat /\ d.policy \in Nat
      BY <2>5 DEF Good, DB
    <2>7. i \in Task /\ Named(i)
      <3>1. i \in Task
        BY <2>6, IdleTask DEF Task, TaskKind
      <3> QED
        BY <3>1 DEF Idle, Named
    <2>8. Reaches(db, FailVerification(d, d.fence, error))
      BY <1>1, <2>5, FailVerificationOK, Trans
    <2> HIDE DEF i
    <2> QED
      BY <2>4, <2>5, <2>7, <2>8, BecomeOK, TurnOK
  <1>3. CASE ContextOpened(t)
    <2>1. /\ Reaches(db, [db EXCEPT !.ctx = "attach"])
          /\ Reaches(db, [db EXCEPT !.ctx = "recovery"])
      BY <1>1, ContextOK DEF Contexts
    <2>2. /\ [task[t] EXCEPT !.kind = "attachProbe"] \in Task
          /\ [task[t] EXCEPT !.kind = "recoverProbe"] \in Task
      BY Reads DEF Task, TaskKind
    <2>3. /\ Named([task[t] EXCEPT !.kind = "attachProbe"])
          /\ Named([task[t] EXCEPT !.kind = "recoverProbe"])
      BY Reads DEF Named, Task
    <2> QED
      BY <1>3, <2>1, <2>2, <2>3, BecomeOK DEF ContextOpened
  <1>4. CASE VerificationThrows(t)
    <2>1. Reaches(db, FailVerification(db, task[t].fence, "INTERNAL"))
      BY <1>1, FailVerificationOK
    <2> QED
      BY <1>4, <2>1, EndOK DEF VerificationThrows
  <1>5. CASE FinishAttach(t)
    <2> DEFINE Rv(o) == Review(db, o)
               reset(d) == [d EXCEPT !.budget.attempts = 0, !.budget.fallback = FALSE,
                                     !.budget.manual = FALSE]
               failed(d) == [d EXCEPT !.ctx = "none"]
               seen(o) == [o EXCEPT !.class = IF @ = "verified" THEN "review" ELSE @]
    <2>1. PICK obs \in Answers :
            IF db.state # "ATTACHING" \/ db.fence # task[t].fence THEN End(t, db)
            ELSE IF obs.class = "verified" /\ db.policy = task[t].policy
            THEN End(t, [CommitEvent(IF Rv(obs).budget.calm THEN reset(Rv(obs)) ELSE Rv(obs),
                                     "attach.verified", "ACTIVE") EXCEPT !.verification = "none"])
            ELSE /\ Bounded(db, obs)
                 /\ End(t, CommitBlockDetected(failed(Rv(obs)), seen(obs), FALSE))
      BY <1>5 DEF FinishAttach
    <2> DEFINE r == Rv(obs)
               u == [r.budget EXCEPT !.attempts = 0, !.fallback = FALSE, !.manual = FALSE]
    <2>2. Reaches(db, r) /\ Good(r) /\ r \in DB
      BY <1>1, Reads, ReviewOK, SameReaches DEF Reaches, Good
    <2>3. r.nCards = db.nCards /\ r.budget.handoffs = db.budget.handoffs
      BY Reads DEF Review, DB, Budget
    <2>4. obs \in Observation
      BY AnswersAssumption
    <2>5. seen(obs).class \in BlockClass
      BY <2>4 DEF Observation, BlockClass
    <2>6. Reaches(db, reset(r))
      <3> HIDE DEF r
      <3>1. r.budget \in Budget
        BY <2>2 DEF DB
      <3>2. 0 \in 0..VERIFY_MAX
        BY DEF VERIFY_MAX
      <3>3. u \in Budget
        BY <3>1, <3>2 DEF Budget
      <3>4. reset(r) = [r EXCEPT !.budget = u]
        OBVIOUS
      <3> HIDE DEF u
      <3>5. Reaches(r, [r EXCEPT !.budget = u])
        BY <2>2, <3>3, BudgetOK
      <3> QED
        BY <1>1, <2>2, <3>4, <3>5, Trans
    <2>7. ASSUME NEW x, Reaches(db, x)
          PROVE  Reaches(db, [CommitEvent(x, "attach.verified", "ACTIVE") EXCEPT
                                !.verification = "none"])
      <3> DEFINE c == CommitEvent(x, "attach.verified", "ACTIVE")
      <3>1. Reaches(db, c)
        BY <1>1, <2>7, CommitNext
      <3> HIDE DEF c
      <3>2. Reaches(c, [c EXCEPT !.verification = "none"])
        BY <3>1, VerificationOK DEF Reaches
      <3> QED
        BY <1>1, <3>1, <3>2, Trans DEF c
    <2>8. ASSUME Bounded(db, obs)
          PROVE  Reaches(db, CommitBlockDetected(failed(r), seen(obs), FALSE))
      <3> HIDE DEF r
      <3> DEFINE f == failed(r)
      <3>1. Reaches(r, f)
        BY <2>2, ContextOK DEF Contexts
      <3>2. f.nCards = r.nCards /\ f.budget = r.budget
        BY <2>2 DEF DB
      <3> HIDE DEF f
      <3>3. Bounded(f, seen(obs))
        BY <2>3, <2>4, <2>8, <3>2 DEF Bounded, CanCard, CardRoom, Observation
      <3> HIDE DEF seen
      <3>4. Reaches(f, CommitBlockDetected(f, seen(obs), FALSE))
        BY <2>5, <3>1, <3>3, CommitBlockDetectedOK DEF Reaches
      <3> QED
        BY <1>1, <2>2, <3>1, <3>4, Trans DEF f, Reaches
    <2>9. CASE db.state # "ATTACHING" \/ db.fence # task[t].fence
      BY <1>1, <2>1, <2>9, EndOK
    <2>10. CASE /\ ~(db.state # "ATTACHING" \/ db.fence # task[t].fence)
                /\ obs.class = "verified" /\ db.policy = task[t].policy
      <3> DEFINE x == IF Rv(obs).budget.calm THEN reset(Rv(obs)) ELSE Rv(obs)
      <3>1. Reaches(db, x)
        BY <2>2, <2>6
      <3>2. End(t, [CommitEvent(x, "attach.verified", "ACTIVE") EXCEPT !.verification = "none"])
        BY <2>1, <2>10
      <3> HIDE DEF x
      <3> QED
        BY <2>7, <3>1, <3>2, EndOK
    <2>11. CASE /\ ~(db.state # "ATTACHING" \/ db.fence # task[t].fence)
                /\ ~(obs.class = "verified" /\ db.policy = task[t].policy)
      <3>1. /\ Bounded(db, obs)
            /\ End(t, CommitBlockDetected(failed(r), seen(obs), FALSE))
        BY <2>1, <2>11
      <3> HIDE DEF r, failed, seen
      <3> QED
        BY <2>8, <3>1, EndOK
    <2> QED
      BY <2>9, <2>10, <2>11
  <1> QED
    BY <1>2, <1>3, <1>4, <1>5

\* The expiry of a lease on use, and renew.
LEMMA LeaseActions ==
    ASSUME Inv, ExpireOnUse \/ Renew
    PROVE  Stepped
  <1> USE DEF States, LiveStates, TerminalStates
  <1>1. Good(db) /\ Reaches(db, db)
    BY InvGood, SelfReaches
  <1>2. Reaches(db, CommitEvent(db, "lease.expired", "DETACHED"))
    BY <1>1, CommitNext
  <1>3. CASE ExpireOnUse
    BY <1>2, <1>3, TurnOK DEF ExpireOnUse
  <1>4. CASE Renew
    <2> DEFINE e == [db EXCEPT !.lease.due = FALSE]
    <2>1. Reaches(db, e)
      BY <1>1, <1>4, LeaseDueOK DEF Renew, Holds
    <2>2. e.state = db.state
      BY Reads DEF DB
    <2>3. Turn(CommitEvent(e, "lease.renewed", e.state))
      BY <1>4, <2>2 DEF Renew
    <2> HIDE DEF e
    <2>4. Reaches(db, CommitEvent(e, "lease.renewed", e.state))
      BY <1>1, <2>1, StayOK, Trans DEF Reaches
    <2> QED
      BY <2>3, <2>4, TurnOK
  <1> QED
    BY <1>3, <1>4

\* checkpoint and detach, and their continuations.
LEMMA RunnerActions ==
    ASSUME Inv, NEW t \in Slot,
           Checkpoint(t) \/ FinishCheckpoint(t) \/ Detach(t) \/ FinishDetach(t)
    PROVE  Stepped
  <1> USE DEF States, LiveStates, TerminalStates
  <1>1. Good(db) /\ Reaches(db, db)
    BY InvGood, SelfReaches
  <1>2. /\ Reaches(db, CommitEvent(db, "session.detached", "DETACHED"))
        /\ Reaches(db, CommitEvent(db, "snapshot.failed", db.state))
    BY <1>1, CommitNext, StayOK
  <1>3. CASE Checkpoint(t)
    BY <1>3, BeginCaptureOK DEF Checkpoint
  <1>4. CASE FinishCheckpoint(t)
    <2> DEFINE w == WithKey(db)
               s == Store(w, task[t])
               i == [Idle EXCEPT !.kind = "detach"]
    <2>1. i \in Task /\ Named(i)
      BY IdleTask DEF Task, TaskKind, Idle, Named
    <2>2. Reaches(db, w) /\ Good(w) /\ w.state = db.state
      BY <1>1, Reads, WithKeyOK DEF Reaches, WithKey, DB
    <2>3. Reaches(w, s) /\ Good(s) /\ s.state = w.state
      <3>1. Reaches(w, s)
        <4> HIDE DEF w
        <4> QED
          BY <2>2, Reads, StoreOK
      <3>2. s.state = w.state
        <4> HIDE DEF w
        <4>1. w \in DB
          BY <2>2 DEF Good
        <4> QED
          BY <4>1 DEF Store, DB
      <3> QED
        BY <3>1, <3>2 DEF Reaches
    <2> HIDE DEF w, i
    <2>4. Reaches(w, CommitEvent(s, "snapshot.committed", s.state))
      <3> HIDE DEF s
      <3> QED
        BY <2>2, <2>3, StayOK, Trans
    <2>5. Reaches(db, CommitEvent(s, "snapshot.committed", db.state))
      <3> HIDE DEF s
      <3> QED
        BY <1>1, <2>2, <2>3, <2>4, Trans
    <2>6. \/ Become(t, CommitEvent(s, "snapshot.committed", db.state), i)
          \/ Become(t, CommitEvent(s, "snapshot.committed", db.state), Idle)
          \/ Become(t, CommitEvent(db, "snapshot.failed", db.state), i)
          \/ Become(t, CommitEvent(db, "snapshot.failed", db.state), Idle)
      BY <1>4 DEF FinishCheckpoint, w, i
    <2> HIDE DEF s
    <2> QED
      BY <1>2, <2>1, <2>5, <2>6, BecomeOK, IdleTask, IdleNamed
  <1>5. CASE Detach(t)
    BY <1>2, <1>5, BeginCaptureOK, TurnOK DEF Detach
  <1>6. CASE FinishDetach(t)
    BY <1>2, <1>6, EndOK DEF FinishDetach
  <1> QED
    BY <1>3, <1>4, <1>5, <1>6

\* step up to its first await.
LEMMA StepActions ==
    ASSUME Inv, NEW t \in Slot, NEW o \in Op, Step(t, o)
    PROVE  Stepped
  <1> USE DEF States, LiveStates, TerminalStates
  <1> DEFINE n == CommitEvent(db, "action.denied", "ACTIVE")
             a == CommitEvent(db, "action.intent", "ACTIVE")
             e == [n EXCEPT !.ops[o] = "DENIED"]
             f == [a EXCEPT !.ops[o] = "PREPARED", !.activeOp = o, !.dispatched = FALSE]
             i == [Idle EXCEPT !.kind = "step", !.op = o, !.fence = db.fence,
                               !.policy = db.policy]
  <1>1. Good(db) /\ Reaches(db, db)
    BY InvGood, SelfReaches
  <1>2. Reaches(db, n) /\ Reaches(db, a)
    BY <1>1, CommitNext
  <1>3. Turn(e) \/ Become(t, f, i)
    BY DEF Step
  <1> HIDE DEF n, a
  <1>4. Reaches(n, e) /\ Reaches(a, f)
    BY <1>2, OpsOK, SlotOK DEF Reaches, OpState
  <1>5. i \in Task /\ Named(i)
    <2>1. i \in Task
      BY Reads, IdleTask DEF Task, TaskKind
    <2> QED
      BY <2>1 DEF Named, Idle
  <1> HIDE DEF e, f, i
  <1>6. Reaches(db, e) /\ Reaches(db, f)
    BY <1>1, <1>2, <1>4, Trans
  <1> QED
    BY <1>3, <1>5, <1>6, TurnOK, BecomeOK

\* step's recheck before dispatch.
LEMMA DispatchActions ==
    ASSUME Inv, NEW t \in Slot, StepDispatch(t)
    PROVE  Stepped
  <1> DEFINE o == task[t].op
             n == CommitEvent(db, "action.denied", db.state)
             e == [n EXCEPT !.ops[o] = "DENIED", !.activeOp = "none", !.dispatched = FALSE]
             f == [db EXCEPT !.ops[o] = "DISPATCHED", !.dispatched = TRUE]
             i == [task[t] EXCEPT !.kind = "dispatch"]
  <1>1. Good(db) /\ Reaches(db, db)
    BY InvGood, SelfReaches
  <1>2. o \in Op
    BY DEF StepDispatch, Runs, Inv, TasksNamed, Named
  <1>3. Reaches(db, n)
    BY <1>1, StayOK
  <1>4. Reaches(n, e) /\ Reaches(db, f)
    <2> HIDE DEF n, o
    <2> QED
      BY <1>1, <1>2, <1>3, SlotOK, DispatchedOK DEF Reaches, OpState
  <1>5. i \in Task /\ Named(i)
    <2>1. i \in Task
      BY Reads DEF Task, TaskKind
    <2>2. i.op = o /\ i.kind = "dispatch"
      BY Reads DEF Task
    <2> QED
      BY <1>2, <2>1, <2>2 DEF Named
  <1>6. \/ End(t, e)
        \/ /\ db' = f
           /\ \/ task' = [task EXCEPT ![t] = Idle] /\ UNCHANGED effects
              \/ task' = [task EXCEPT ![t] = i] /\ effects' = [effects EXCEPT ![o] = @ + 1]
           /\ UNCHANGED <<openTask, mode, crashes>>
    BY DEF StepDispatch
  <1>7. CASE End(t, e)
    <2> HIDE DEF e
    <2> QED
      BY <1>1, <1>3, <1>4, <1>7, Trans, EndOK
  <1>8. ASSUME NEW k \in {Idle, i}, db' = f, task' = [task EXCEPT ![t] = k],
               effects' \in [Op -> Nat], UNCHANGED <<openTask, mode, crashes>>
        PROVE  Stepped
    <2> HIDE DEF f, i
    <2>1. task \in [Slot -> Task] /\ k \in Task /\ Named(k)
      BY <1>5, IdleTask, IdleNamed DEF Inv, TypeOK
    <2>2. TasksNamed'
      BY <1>8, <2>1 DEF Inv, TasksNamed
    <2>3. TypeOK'
      BY <1>4, <1>8, <2>1 DEF Inv, TypeOK, Reaches, Good
    <2> QED
      BY <1>4, <1>8, <2>2, <2>3 DEF Stepped
  <1>9. effects \in [Op -> Nat] /\ [effects EXCEPT ![o] = @ + 1] \in [Op -> Nat]
    <2>1. effects \in [Op -> Nat]
      BY DEF Inv, TypeOK
    <2> QED
      BY <1>2, <2>1
  <1> HIDE DEF f, i, e, o
  <1> QED
    BY <1>6, <1>7, <1>8, <1>9

\* finish after an event, for each result.
LEMMA FinishOK ==
    ASSUME NEW d, Good(d), NEW e, Reaches(d, e), NEW o \in Op, NEW r \in OpState
    PROVE  Reaches(d, Finish(e, o, r))
  <1>1. Reaches(e, Finish(e, o, r))
    BY SlotOK DEF Reaches, Finish
  <1> HIDE DEF Finish
  <1> QED
    BY <1>1, Trans

\* step's last transaction, however late.
LEMMA StepFinishActions ==
    ASSUME Inv, NEW t \in Slot, StepFinish(t)
    PROVE  Stepped
  <1> USE DEF States, LiveStates, TerminalStates
  <1> DEFINE o == task[t].op
             denied == CommitEvent(db, "action.denied", "ACTIVE")
             lost == CommitEvent(db, "action.unknown", "UNCERTAIN")
             un == [lost EXCEPT !.unresolved = @ \cup {o}]
             r(obs) == Review(db, obs)
             done(obs) == CommitEvent(r(obs), "action.finished", "ACTIVE")
             seen(obs) == CommitEvent(r(obs), "action.finished", r(obs).state)
             blocked(obs) == CommitBlockDetected(seen(obs), obs, FALSE)
  <1>1. Good(db) /\ Reaches(db, db)
    BY InvGood, SelfReaches
  <1>2. o \in Op
    BY DEF StepFinish, Runs, Inv, TasksNamed, Named
  <1>3. \/ End(t, Finish(denied, o, "DENIED"))
        \/ End(t, Finish(un, o, "UNKNOWN"))
        \/ \E obs \in Answers :
              \/ End(t, Finish(done(obs), o, "SUCCEEDED"))
              \/ /\ obs.class # "verified" /\ Bounded(db, obs)
                 /\ End(t, Finish(blocked(obs), o, "BLOCKED"))
    BY DEF StepFinish
  <1>4. Reaches(db, denied) /\ Reaches(db, lost)
    BY <1>1, CommitNext
  <1> HIDE DEF denied, lost, o
  <1>5. Reaches(db, un)
    <2>1. lost.unresolved \cup {o} \in SUBSET Op
      BY <1>2, <1>4 DEF Reaches, Good, DB
    <2>2. Reaches(lost, un)
      BY <1>4, <2>1, UnresolvedOK DEF Reaches
    <2> QED
      BY <1>1, <1>4, <2>2, Trans
  <1>6. ASSUME NEW obs \in Answers
        PROVE  /\ Reaches(db, r(obs)) /\ Good(r(obs))
               /\ r(obs).nCards = db.nCards /\ r(obs).budget.handoffs = db.budget.handoffs
    <2>1. Reaches(db, r(obs)) /\ Good(r(obs))
      BY <1>1, Reads, ReviewOK, SameReaches DEF Reaches
    <2> QED
      BY <2>1, Reads DEF Review, DB, Budget
  <1>7. ASSUME NEW obs \in Answers
        PROVE  Reaches(db, done(obs))
    <2> HIDE DEF r
    <2> QED
      BY <1>1, <1>6, CommitNext
  <1>8. ASSUME NEW obs \in Answers, obs.class # "verified", Bounded(db, obs)
        PROVE  Reaches(db, blocked(obs))
    <2> HIDE DEF r
    <2>1. Reaches(db, r(obs)) /\ Good(r(obs)) /\ r(obs).state \in States
      BY <1>6, Fields DEF Good
    <2>2. Reaches(db, seen(obs)) /\ Good(seen(obs)) /\ Frame(r(obs), seen(obs))
      <3>1. Reaches(r(obs), seen(obs))
        BY <2>1, StayOK
      <3>2. Frame(r(obs), seen(obs))
        BY <2>1, CommitFrame DEF Good
      <3> HIDE DEF seen
      <3> QED
        BY <1>1, <2>1, <3>1, <3>2, Trans DEF Reaches
    <2> HIDE DEF seen
    <2>3. Bounded(seen(obs), obs)
      BY <1>6, <1>8, <2>2 DEF Bounded, CanCard, CardRoom, Frame
    <2>4. obs.class \in BlockClass
      BY <1>8, AnswersAssumption DEF Observation
    <2>5. Reaches(seen(obs), blocked(obs))
      BY <2>2, <2>3, <2>4, CommitBlockDetectedOK
    <2> HIDE DEF blocked
    <2> QED
      BY <1>1, <2>2, <2>5, Trans
  <1> HIDE DEF un, done, blocked
  <1>9. /\ Reaches(db, Finish(denied, o, "DENIED"))
        /\ Reaches(db, Finish(un, o, "UNKNOWN"))
        /\ \A obs \in Answers : Reaches(db, Finish(done(obs), o, "SUCCEEDED"))
        /\ \A obs \in Answers : obs.class # "verified" /\ Bounded(db, obs) =>
                                  Reaches(db, Finish(blocked(obs), o, "BLOCKED"))
    BY <1>1, <1>2, <1>4, <1>5, <1>7, <1>8, FinishOK DEF OpState
  <1> QED
    BY <1>3, <1>9, EndOK

\* The probe a recovery spends, and what it records of the fallback.
LEMMA SpentOK ==
    ASSUME NEW d, Good(d), d.budget.probes < PROBE_MAX, NEW x \in BOOLEAN
    PROVE  Reaches(d, [d EXCEPT !.budget.probes = @ + 1, !.verification = "recovery",
                                !.budget.fallback = @ \/ x, !.block.fallback = @ \/ x])
  <1> DEFINE p == d.budget.probes + 1
             y == d.budget.fallback \/ x
             z == d.block.fallback \/ x
             bu == [d.budget EXCEPT !.probes = p, !.fallback = y]
             b == [d.block EXCEPT !.fallback = z]
             e == [d EXCEPT !.budget = bu, !.verification = "recovery", !.block = b]
             f == [d EXCEPT !.budget.probes = @ + 1, !.verification = "recovery",
                            !.budget.fallback = @ \/ x, !.block.fallback = @ \/ x]
  <1>1. d \in DB /\ d.budget \in Budget /\ d.block \in Block
    BY DEF Good, DB
  <1>2. y \in BOOLEAN /\ z \in BOOLEAN
    OBVIOUS
  <1>3. p \in 0..PROBE_MAX
    <2>1. d.budget.probes \in 0..PROBE_MAX
      BY <1>1 DEF Budget
    <2> QED
      BY <2>1 DEF PROBE_MAX
  <1>4. f = e
    BY <1>1 DEF DB, Budget, Block
  <1> HIDE DEF p, y, z, f
  <1>5. bu \in Budget /\ b \in Block
    BY <1>1, <1>2, <1>3 DEF Budget, Block
  <1> HIDE DEF bu, b
  <1>6. e \in DB
    BY <1>1, <1>5 DEF DB
  <1>7. Same(d, e)
    BY <1>1 DEF DB, Same
  <1>8. Reaches(d, f)
    BY <1>4, <1>6, <1>7, SameReaches
  <1> QED
    BY <1>8 DEF f

\* recover(acknowledge_unknown) and recover(reauth).
LEMMA RecoverActions ==
    ASSUME Inv, RecoverAcknowledge \/ RecoverReauth
    PROVE  Stepped
  <1> USE DEF States, LiveStates, TerminalStates
  <1> DEFINE k == Tick(db)
  <1>1. Good(db) /\ Reaches(db, db)
    BY InvGood, SelfReaches
  <1>2. Reaches(db, k) /\ Good(k)
    BY <1>1, TickOK DEF Reaches
  <1> HIDE DEF k
  <1>3. CASE RecoverAcknowledge
    <2> DEFINE n == [k EXCEPT !.unresolved = {}]
               to == IF Eligible(k) THEN "DETACHED" ELSE "NEEDS_LOGIN"
    <2>1. Reaches(db, n)
      BY <1>1, <1>2, UnresolvedOK, Trans
    <2>2. to \in States /\ to # "VERIFYING"
      OBVIOUS
    <2>3. Turn(CommitEvent(n, "unknown.acknowledged", to))
      BY <1>3 DEF RecoverAcknowledge, k
    <2> HIDE DEF n, to
    <2> QED
      BY <1>1, <2>1, <2>2, <2>3, CommitNext, TurnOK
  <1>4. CASE RecoverReauth
    <2> DEFINE h == CommitEvent(k, "handoff.created", "HANDOFF_WAIT")
    <2>1. CanCard(k) /\ CardRoom(k) /\ Turn(AddCard(h))
      BY <1>4 DEF RecoverReauth, k
    <2>2. Reaches(db, h) /\ Frame(k, h)
      BY <1>1, <1>2, CommitNext, CommitFrame DEF Good
    <2>3. CanCard(h) /\ CardRoom(h)
      BY <2>1, <2>2 DEF Frame, CanCard, CardRoom
    <2> HIDE DEF h
    <2>4. Reaches(db, AddCard(h))
      BY <1>1, <2>2, <2>3, AddCardOK, SameReaches, Trans DEF Reaches, Good
    <2> QED
      BY <2>1, <2>4, TurnOK
  <1> QED
    BY <1>3, <1>4

\* recover(retry) and recover(fallback).
LEMMA RecoverProbeActions ==
    ASSUME Inv, NEW t \in Slot, NEW intent, RecoverProbe(t, intent)
    PROVE  Stepped
  <1> USE DEF States, LiveStates, TerminalStates
  <1> DEFINE k == Tick(db)
             c == CommitEvent(k, "cooldown.elapsed", "RECOVERABLE")
             r == IF k.state = "COOLDOWN" /\ k.block.retry # "pending" THEN c ELSE k
             x == intent = "fallback"
             s == [r EXCEPT !.budget.probes = @ + 1, !.verification = "recovery",
                            !.budget.fallback = @ \/ x, !.block.fallback = @ \/ x]
             d == CommitEvent(s, "recovery.started", "VERIFYING")
             error == RestoreError(d)
             i == [Idle EXCEPT !.kind = "recoverOpen", !.fence = d.fence]
  <1>1. Good(db) /\ Reaches(db, db)
    BY InvGood, SelfReaches
  <1>2. Reaches(db, k)
    BY <1>1, TickOK
  <1>3. /\ r.state = "RECOVERABLE" /\ r.budget.probes < PROBE_MAX
        /\ IF error = "OK" THEN Become(t, d, i) ELSE Turn(FailVerification(d, d.fence, error))
    BY DEF RecoverProbe
  <1>4. Reaches(db, r) /\ Good(r)
    <2> HIDE DEF k
    <2>1. Reaches(db, c)
      BY <1>1, <1>2, CommitNext
    <2> QED
      BY <1>2, <2>1 DEF Reaches
  <1> HIDE DEF k, c, r
  <1>5. x \in BOOLEAN
    OBVIOUS
  <1> HIDE DEF x
  <1>6. Reaches(r, s)
    BY <1>3, <1>4, <1>5, SpentOK
  <1>7. r.lease = NoLease /\ s.lease = r.lease
    <2>1. r \in DB /\ r.lease = NoLease
      BY <1>3, <1>4 DEF Good, Fenced
    <2> QED
      BY <2>1 DEF DB
  <1> HIDE DEF s
  <1>8. Reaches(db, s)
    BY <1>1, <1>4, <1>6, Trans
  <1>9. Reaches(db, d)
    BY <1>1, <1>7, <1>8, CommitNext
  <1> HIDE DEF d, error
  <1>10. d.fence \in Nat
    BY <1>9 DEF Reaches, Good, DB
  <1>11. i \in Task /\ Named(i)
    <2>1. i \in Task
      BY <1>10, IdleTask DEF Task, TaskKind
    <2> QED
      BY <2>1 DEF Named, Idle
  <1>12. Reaches(db, FailVerification(d, d.fence, error))
    BY <1>1, <1>9, FailVerificationOK, Trans DEF Reaches
  <1> HIDE DEF i
  <1> QED
    BY <1>3, <1>9, <1>11, <1>12, BecomeOK, TurnOK

\* The first half of verifyCapture.
LEMMA BeginVerifyCaptureOK ==
    ASSUME Inv, NEW t \in Slot, NEW final \in {"attach.verified", "handoff.completed"},
           db.state = "VERIFYING", BeginVerifyCapture(t, final)
    PROVE  Stepped
  <1> DEFINE i == [Idle EXCEPT !.kind = "verify", !.fence = task[t].fence, !.next = final,
                               !.gen = db.generation + 1, !.policy = db.policy]
  <1>1. Reaches(db, CommitEvent(db, "snapshot.intent", "VERIFYING"))
    <2>1. Reaches(db, CommitEvent(db, "snapshot.intent", db.state))
      BY InvGood, StayOK
    <2> QED
      BY <2>1
  <1>2. i \in Task
    BY Reads, IdleTask DEF Task, TaskKind
  <1>3. Named(i)
    BY DEF Idle, Named
  <1> HIDE DEF i
  <1> QED
    BY <1>1, <1>2, <1>3, BecomeOK DEF BeginVerifyCapture, i

\* finishRecovery after its probe.
LEMMA FinishRecoveryActions ==
    ASSUME Inv, NEW t \in Slot, FinishRecovery(t)
    PROVE  Stepped
  <1> DEFINE current == db.state = "VERIFYING" /\ db.fence = task[t].fence
             r(obs) == Review(db, obs)
             blocked(obs) == CommitBlockDetected(r(obs), obs, TRUE)
             bare(d) == [d EXCEPT !.ctx = "none"]
  <1>1. Good(db) /\ Reaches(db, db)
    BY InvGood, SelfReaches
  <1>2. PICK obs \in Answers :
          IF obs.class = "verified"
          THEN IF current /\ db.verification = "recovery"
               THEN BeginVerifyCapture(t, "attach.verified")
               ELSE End(t, db)
          ELSE /\ current => Bounded(db, obs)
               /\ End(t, bare(IF current THEN blocked(obs) ELSE db))
    BY DEF FinishRecovery
  <1>3. CASE obs.class = "verified"
    BY <1>1, <1>2, <1>3, BeginVerifyCaptureOK, EndOK
  <1>4. CASE obs.class # "verified"
    <2>1. Reaches(db, r(obs)) /\ Good(r(obs))
      BY <1>1, Reads, ReviewOK, SameReaches DEF Reaches
    <2>2. r(obs).nCards = db.nCards /\ r(obs).budget.handoffs = db.budget.handoffs
      BY Reads DEF Review, DB, Budget
    <2>3. obs.class \in BlockClass
      BY <1>4, AnswersAssumption DEF Observation
    <2> HIDE DEF r
    <2>4. ASSUME current PROVE Reaches(db, blocked(obs))
      <3>1. Bounded(r(obs), obs)
        BY <1>2, <1>4, <2>2, <2>4 DEF Bounded, CanCard, CardRoom
      <3>2. Reaches(r(obs), blocked(obs))
        BY <2>1, <2>3, <3>1, CommitBlockDetectedOK
      <3> HIDE DEF blocked
      <3> QED
        BY <1>1, <2>1, <3>2, Trans
    <2> HIDE DEF blocked
    <2>5. ASSUME NEW d, Reaches(db, d) PROVE Reaches(db, bare(d))
      <3>1. Reaches(d, bare(d))
        BY <2>5, ContextOK DEF Reaches, Contexts
      <3> HIDE DEF bare
      <3> QED
        BY <1>1, <2>5, <3>1, Trans
    <2>6. End(t, bare(IF current THEN blocked(obs) ELSE db))
      BY <1>2, <1>4
    <2> HIDE DEF bare
    <2>7. CASE current
      BY <2>4, <2>5, <2>6, <2>7, EndOK
    <2>8. CASE ~current
      BY <1>1, <2>5, <2>6, <2>8, EndOK
    <2> QED
      BY <2>7, <2>8
  <1> QED
    BY <1>3, <1>4

\* saveCard continues a turn.
LEMMA SaveNext ==
    ASSUME NEW d, Good(d), NEW e, Reaches(d, e), NEW c \in 1..MaxCards, NEW state \in CardStates
    PROVE  Reaches(d, SaveCard(e, c, state))
  <1>1. Reaches(e, SaveCard(e, c, state))
    BY SaveCardOK, SameReaches DEF Reaches, Good
  <1> HIDE DEF SaveCard
  <1> QED
    BY <1>1, Trans

\* verifyCapture's commit.
LEMMA VerifyCapturedActions ==
    ASSUME Inv, NEW t \in Slot, VerifyCaptured(t)
    PROVE  Stepped
  <1> USE DEF States, LiveStates, TerminalStates
  <1> DEFINE k == task[t]
             w == WithKey(db)
             s == Store(w, k)
             stored == CommitEvent(s, "snapshot.committed", "VERIFYING")
             c == CommitEvent(stored, k.next, "DETACHED")
             final == [c EXCEPT !.block = NoBlock, !.budget.attempts = 0,
                                !.budget.fallback = FALSE]
  <1>1. Good(db) /\ Reaches(db, db)
    BY InvGood, SelfReaches
  <1>2. \/ End(t, w)
        \/ /\ db.state = "VERIFYING" /\ db.handoffId # 0
           /\ End(t, SaveCard(final, db.handoffId, "COMPLETED"))
        \/ db.state = "VERIFYING" /\ End(t, final)
    BY DEF VerifyCaptured
  <1>3. Reaches(db, w) /\ Good(w) /\ w.state = db.state
    BY <1>1, Reads, WithKeyOK DEF Reaches, WithKey, DB
  <1>4. CASE End(t, w)
    <2> HIDE DEF w
    <2> QED
      BY <1>3, <1>4, EndOK
  <1>5. ASSUME db.state = "VERIFYING" PROVE Reaches(db, final)
    <2> HIDE DEF w
    <2>1. Reaches(w, s)
      BY <1>3, Reads, StoreOK
    <2>2. s.lease = w.lease /\ w.lease = NoLease
      BY <1>3, <1>5 DEF Store, Good, Fenced, DB
    <2> HIDE DEF s
    <2>3. Reaches(db, s)
      BY <1>1, <1>3, <2>1, Trans
    <2>4. Reaches(db, stored)
      BY <1>1, <2>2, <2>3, CommitNext
    <2> HIDE DEF stored
    <2>5. Reaches(db, c) /\ Good(c)
      BY <1>1, <2>4, CommitNext DEF Reaches
    <2> HIDE DEF c
    <2> DEFINE bu == [c.budget EXCEPT !.attempts = 0, !.fallback = FALSE]
               e == [c EXCEPT !.block = NoBlock, !.budget = bu]
    <2>6. c \in DB /\ c.budget \in Budget /\ NoBlock \in Block
      BY <2>5 DEF Good, DB, NoBlock, Block
    <2>7. 0 \in 0..VERIFY_MAX
      BY DEF VERIFY_MAX
    <2>8. bu \in Budget
      BY <2>6, <2>7 DEF Budget
    <2>9. final = e
      BY <2>6 DEF DB
    <2> HIDE DEF bu
    <2>10. e \in DB
      BY <2>6, <2>8 DEF DB
    <2>11. Same(c, e)
      BY <2>6 DEF DB, Same
    <2> HIDE DEF e, final
    <2>12. Reaches(c, final)
      BY <2>5, <2>9, <2>10, <2>11, SameReaches
    <2> QED
      BY <1>1, <2>5, <2>12, Trans
  <1> HIDE DEF final, w
  <1>6. ASSUME db.state = "VERIFYING", db.handoffId # 0
        PROVE  Reaches(db, SaveCard(final, db.handoffId, "COMPLETED"))
    <2>1. db.handoffId \in 1..MaxCards
      BY <1>6, Reads, MaxCardsAssumption
    <2> QED
      BY <1>1, <1>5, <1>6, <2>1, SaveNext DEF CardStates
  <1> QED
    BY <1>2, <1>4, <1>5, <1>6, EndOK

\* verifyCapture's error path.
LEMMA VerifyCaptureThrowsActions ==
    ASSUME Inv, NEW t \in Slot, VerifyCaptureThrows(t)
    PROVE  Stepped
  <1> USE DEF States, LiveStates, TerminalStates
  <1> DEFINE f == CommitEvent(db, "snapshot.failed", "VERIFYING")
             c == db.handoffId
             cs == [f.cards EXCEPT ![c].state = "EXPIRED"]
             e == [f EXCEPT !.cards = cs]
  <1>1. Good(db) /\ Reaches(db, db)
    BY InvGood, SelfReaches
  <1>2. \/ End(t, db)
        \/ /\ db.state = "VERIFYING" /\ c # 0
           /\ End(t, CommitEvent([f EXCEPT !.cards[c].state = "EXPIRED"],
                                 "handoff.expired", "NEEDS_LOGIN"))
        \/ /\ db.state = "VERIFYING"
           /\ End(t, CommitEvent(f, "recovery.exhausted", "RECOVERABLE"))
    BY DEF VerifyCaptureThrows
  <1>3. CASE End(t, db)
    BY <1>1, <1>3, EndOK
  <1>4. CASE db.state = "VERIFYING"
    <2>1. Reaches(db, f)
      BY <1>1, <1>4, CommitNext DEF Good, Fenced
    <2> HIDE DEF f
    <2>2. Reaches(db, CommitEvent(f, "recovery.exhausted", "RECOVERABLE"))
      BY <1>1, <2>1, CommitNext
    <2>3. ASSUME c # 0
          PROVE  Reaches(db, CommitEvent(e, "handoff.expired", "NEEDS_LOGIN"))
      <3>1. c \in 1..MaxCards /\ f.cards \in [1..MaxCards -> Card]
        BY <2>1, <2>3, Reads, MaxCardsAssumption DEF Reaches, Good, DB
      <3> HIDE DEF c
      <3>2. cs \in [1..MaxCards -> Card]
        BY <3>1 DEF Card
      <3> HIDE DEF cs
      <3>3. Reaches(f, e)
        BY <2>1, <3>2, CardsOK DEF Reaches
      <3> HIDE DEF e
      <3>4. Reaches(db, e)
        BY <1>1, <2>1, <3>3, Trans
      <3> QED
        BY <1>1, <3>4, CommitNext
    <2>4. e = [f EXCEPT !.cards[c].state = "EXPIRED"]
      OBVIOUS
    <2> HIDE DEF e, c
    <2> QED
      BY <1>1, <1>2, <2>2, <2>3, <2>4, EndOK
  <1> HIDE DEF f, c
  <1> QED
    BY <1>2, <1>3, <1>4

\* Writing one slot with a record that names what it needs.
LEMMA SlotTask ==
    ASSUME Inv, NEW t \in Slot, NEW k \in Task, Named(k), task' = [task EXCEPT ![t] = k]
    PROVE  task' \in [Slot -> Task] /\ TasksNamed'
  <1>1. task \in [Slot -> Task]
    BY DEF Inv, TypeOK
  <1> QED
    BY <1>1 DEF Inv, TasksNamed

\* resolveHandoff(cancel).
LEMMA CancelActions ==
    ASSUME Inv, NEW c \in 1..db.nCards, CancelHandoff(c)
    PROVE  Stepped
  <1> USE DEF States, LiveStates, TerminalStates, CardStates
  <1> DEFINE k == Tick(db)
             x == CommitEvent(k, "handoff.cancelled", "NEEDS_LOGIN")
  <1>1. Good(db)
    BY InvGood
  <1>2. c \in 1..MaxCards
    BY Reads, MaxCardsAssumption
  <1>3. Reaches(db, k)
    BY <1>1, TickOK
  <1>4. Turn(SaveCard(x, c, "CANCELLED"))
    BY DEF CancelHandoff
  <1> HIDE DEF k
  <1>5. Reaches(db, x)
    BY <1>1, <1>3, CommitNext
  <1> HIDE DEF x
  <1>6. Reaches(db, SaveCard(x, c, "CANCELLED"))
    BY <1>1, <1>2, <1>5, SaveNext
  <1> QED
    BY <1>4, <1>6, TurnOK

\* openHandoff.
LEMMA OpenActions ==
    ASSUME Inv, NEW t \in Slot, NEW c \in 1..db.nCards, OpenHandoff(t, c)
    PROVE  Stepped
  <1> USE DEF States, LiveStates, TerminalStates, CardStates
  <1> DEFINE k == Tick(db)
             h == CommitEvent(k, "handoff.opened", "HANDOFF_WAIT")
             o == SaveCard(h, c, "OPEN")
             e == [o EXCEPT !.handoffId = c]
             i == [Idle EXCEPT !.kind = "human"]
  <1>1. Good(db)
    BY InvGood
  <1>2. c \in 1..MaxCards /\ c \in 0..MaxCards
    BY Reads, MaxCardsAssumption
  <1>3. Reaches(db, k)
    BY <1>1, TickOK
  <1>4. /\ db' = e /\ task' = [task EXCEPT ![t] = i] /\ openTask' = t
        /\ UNCHANGED <<mode, crashes, effects>>
    BY DEF OpenHandoff
  <1> HIDE DEF k
  <1>5. Reaches(db, h)
    BY <1>1, <1>3, CommitNext
  <1> HIDE DEF h
  <1>6. Reaches(db, o)
    BY <1>1, <1>2, <1>5, SaveNext
  <1> HIDE DEF o
  <1>7. Reaches(o, e)
    BY <1>2, <1>6, NamedOK, SameReaches DEF Reaches, Good
  <1> HIDE DEF e
  <1>8. Reaches(db, e)
    BY <1>1, <1>6, <1>7, Trans
  <1>9. i \in Task /\ Named(i)
    BY IdleTask DEF Task, TaskKind, Named, Idle
  <1> HIDE DEF i
  <1>10. task' \in [Slot -> Task] /\ TasksNamed'
    BY <1>4, <1>9, SlotTask
  <1> QED
    BY <1>4, <1>8, <1>10 DEF Inv, TypeOK, Stepped, Reaches, Good

\* The end of openHumanContext.
LEMMA HumanOpenedActions ==
    ASSUME Inv, NEW t \in Slot, HumanOpened(t)
    PROVE  Stepped
  <1>1. Good(db) /\ db.ctx \in Contexts
    BY InvGood, Reads DEF DB, Contexts
  <1>2. PICK ok \in BOOLEAN : db' = [db EXCEPT !.ctx = IF ok THEN "human" ELSE @]
    BY DEF HumanOpened
  <1> DEFINE x == IF ok THEN "human" ELSE db.ctx
             w(u) == IF task[u].waits = t THEN "none" ELSE task[u].waits
             j(u) == [task[u] EXCEPT !.waits = w(u)]
  <1>3. db' = [db EXCEPT !.ctx = x] /\ x \in Contexts
    BY <1>1, <1>2 DEF Contexts
  <1>4. Reaches(db, db')
    <2> HIDE DEF x
    <2> QED
      BY <1>1, <1>3, ContextOK
  <1>5. task' = [u \in Slot |-> IF u = t THEN Idle ELSE j(u)]
    BY DEF HumanOpened
  <1>6. ASSUME NEW u \in Slot PROVE j(u) \in Task /\ Named(j(u))
    <2>1. w(u) \in Slot \cup {"none"}
      BY Reads DEF Task
    <2> HIDE DEF w
    <2>2. j(u) \in Task
      BY <2>1, Reads DEF Task
    <2>3. j(u).kind = task[u].kind /\ j(u).op = task[u].op /\ j(u).card = task[u].card
      BY Reads DEF Task
    <2> HIDE DEF j
    <2> QED
      BY <2>2, <2>3 DEF Named, Inv, TasksNamed
  <1> HIDE DEF j
  <1>7. task' \in [Slot -> Task] /\ TasksNamed'
    BY <1>5, <1>6, IdleTask, IdleNamed DEF TasksNamed
  <1> QED
    BY <1>4, <1>7 DEF HumanOpened, Inv, TypeOK, Stepped, Reaches, Good

\* finishHandoffVerify, once nobody opens the human context any more.
LEMMA BeginOK ==
    ASSUME Inv, NEW d, Reaches(db, d), NEW k \in Task, k.card \in 1..MaxCards
    PROVE  /\ Reaches(db, AfterBegin(d, k))
           /\ BeginProbe(d, k) \in Task
           /\ Named(BeginProbe(d, k))
  <1> DEFINE i == [k EXCEPT !.kind = "handoffProbe", !.policy = d.policy]
  <1>1. Good(db) /\ Good(d) /\ d.policy \in Nat
    BY InvGood DEF Reaches, Good, DB
  <1>2. Reaches(db, AfterBegin(d, k))
    <2>1. Reaches(db, FailVerification(d, k.fence, "INTERNAL"))
      BY <1>1, FailVerificationOK, Trans
    <2> QED
      BY <2>1 DEF AfterBegin
  <1>3. i \in Task /\ i.kind = "handoffProbe" /\ i.card = k.card
    BY <1>1 DEF Task, TaskKind
  <1>4. BeginProbe(d, k) \in {Idle, i}
    BY DEF BeginProbe
  <1> HIDE DEF i
  <1>5. Named(i)
    BY <1>3 DEF Named
  <1> QED
    BY <1>2, <1>3, <1>4, <1>5, IdleTask, IdleNamed

\* resolveHandoff(ready).
LEMMA ReadyActions ==
    ASSUME Inv, NEW t \in Slot, NEW c \in 1..db.nCards, ReadyHandoff(t, c)
    PROVE  Stepped
  <1> USE DEF States, LiveStates, TerminalStates, CardStates
  <1> DEFINE k == Tick(db)
             v == [k EXCEPT !.verification = "handoff"]
             h == CommitEvent(v, "handoff.verifying", "VERIFYING")
             s == SaveCard(h, c, "VERIFYING")
             d == [s EXCEPT !.cards[c].attempts = @ + 1]
             new == [Idle EXCEPT !.kind = "handoffWait", !.fence = k.fence, !.card = c,
                                 !.waits = IF openTask \in Slot THEN openTask ELSE "none"]
  <1>1. Good(db) /\ Reaches(db, db)
    BY InvGood, SelfReaches
  <1>2. c \in 1..MaxCards
    BY Reads, MaxCardsAssumption
  <1>3. Reaches(db, k) /\ Good(k)
    BY <1>1, TickOK DEF Reaches
  <1>4. /\ k.state = "HANDOFF_WAIT" /\ k.cards[c].attempts < VERIFY_MAX
        /\ \/ db' = AfterBegin(d, new) /\ task' = [task EXCEPT ![t] = BeginProbe(d, new)]
           \/ db' = d /\ task' = [task EXCEPT ![t] = new]
        /\ openTask' = "none"
        /\ UNCHANGED <<mode, crashes, effects>>
    BY DEF ReadyHandoff, Presentable
  <1> HIDE DEF k
  <1>5. k \in DB /\ k.fence \in Nat /\ k.lease = NoLease
    BY <1>3, <1>4 DEF Good, Fenced, DB
  <1>6. Reaches(k, v) /\ v.lease = NoLease /\ v.cards = k.cards
    BY <1>3, <1>5, VerificationOK DEF DB
  <1> HIDE DEF v
  <1>7. Reaches(db, h) /\ h.cards = k.cards
    <2>1. Reaches(db, v) /\ v \in DB
      BY <1>1, <1>3, <1>6, Trans DEF Reaches, Good
    <2> QED
      BY <1>1, <1>6, <2>1, CommitNext, CommitFrame DEF Frame
  <1> HIDE DEF h
  <1>8. Reaches(db, s)
    BY <1>1, <1>2, <1>7, SaveNext
  <1>9. s.cards[c].attempts \in 0..VERIFY_MAX /\ s.cards[c].attempts < VERIFY_MAX
    <2>1. h \in DB /\ h.cards \in [1..MaxCards -> Card]
      BY <1>7 DEF Reaches, Good, DB
    <2>2. h.cards[c] \in Card /\ h.cards[c].attempts \in 0..VERIFY_MAX
      BY <1>2, <2>1 DEF Card
    <2>3. s.cards[c].attempts = h.cards[c].attempts
      BY <1>2, <2>1, <2>2 DEF SaveCard, DB, Card
    <2> QED
      BY <1>4, <1>7, <2>2, <2>3
  <1> HIDE DEF s
  <1>10. Reaches(s, d)
    <2> DEFINE a == s.cards[c].attempts + 1
               cs == [s.cards EXCEPT ![c].attempts = a]
    <2>1. s.cards \in [1..MaxCards -> Card]
      BY <1>8 DEF Reaches, Good, DB
    <2>2. a \in 0..VERIFY_MAX
      BY <1>9 DEF VERIFY_MAX
    <2>3. d = [s EXCEPT !.cards = cs]
      OBVIOUS
    <2> HIDE DEF a, d
    <2>4. cs \in [1..MaxCards -> Card]
      BY <1>2, <2>1, <2>2 DEF Card
    <2> HIDE DEF cs
    <2> QED
      BY <1>8, <2>3, <2>4, CardsOK DEF Reaches
  <1> HIDE DEF d
  <1>11. Reaches(db, d)
    BY <1>1, <1>8, <1>10, Trans
  <1>12. new \in Task /\ new.kind = "handoffWait" /\ new.card = c
    <2> DEFINE w == IF openTask \in Slot THEN openTask ELSE "none"
    <2>1. w \in Slot \cup {"none"} /\ c \in 0..MaxCards /\ "handoffWait" \in TaskKind
      BY <1>2 DEF TaskKind
    <2> HIDE DEF w
    <2>2. [Idle EXCEPT !.kind = "handoffWait", !.fence = k.fence, !.card = c, !.waits = w] \in Task
      BY <1>5, <2>1, IdleTask DEF Task
    <2> QED
      BY <2>2 DEF w, Idle
  <1> HIDE DEF new
  <1>13. Named(new)
    BY <1>2, <1>12 DEF Named
  <1>14. /\ Reaches(db, AfterBegin(d, new)) /\ BeginProbe(d, new) \in Task
         /\ Named(BeginProbe(d, new))
    BY <1>2, <1>11, <1>12, BeginOK
  <1>15. Reaches(db, db') /\ task' \in [Slot -> Task] /\ TasksNamed'
    BY <1>4, <1>11, <1>12, <1>13, <1>14, SlotTask
  <1> QED
    BY <1>4, <1>15 DEF Inv, TypeOK, Stepped, Reaches, Good

\* finishHandoffVerify once the pending open has ended.
LEMMA AwaitedActions ==
    ASSUME Inv, NEW t \in Slot, AwaitedOpen(t)
    PROVE  Stepped
  <1>1. Reaches(db, db)
    BY InvGood, SelfReaches
  <1>2. task[t] \in Task /\ task[t].card \in 1..MaxCards
    BY Reads DEF AwaitedOpen, Runs, Inv, TasksNamed, Named
  <1> QED
    BY <1>1, <1>2, BeginOK, BecomeOK DEF AwaitedOpen

\* finishHandoffVerify after its probe.
LEMMA HandoffVerifyActions ==
    ASSUME Inv, NEW t \in Slot, FinishHandoffVerify(t)
    PROVE  Stepped
  <1> USE DEF States, LiveStates, TerminalStates, CardStates
  <1> DEFINE k == task[t]
             current == db.state = "VERIFYING" /\ db.verification = "handoff"
             class(obs) == IF obs.class = "verified" THEN "review" ELSE obs.class
             b(obs) == [class |-> class(obs), retry |-> "none", fallback |-> FALSE]
             d == CommitEvent(db, "block.detected", "HANDOFF_WAIT")
             waiting(obs) == [d EXCEPT !.block = b(obs)]
             x(obs) == CommitEvent(waiting(obs), "handoff.expired", "NEEDS_LOGIN")
             outcome(obs) ==
                 IF class(obs) = "closed" \/ db.cards[k.card].attempts >= VERIFY_MAX
                 THEN SaveCard(x(obs), k.card, "EXPIRED")
                 ELSE SaveCard(waiting(obs), k.card, "PENDING")
             bare(e) == [e EXCEPT !.ctx = "none"]
  <1>1. Good(db) /\ Reaches(db, db)
    BY InvGood, SelfReaches
  <1>2. PICK obs \in Answers :
          \/ current /\ BeginVerifyCapture(t, "handoff.completed")
          \/ End(t, db)
          \/ End(t, bare(IF current THEN outcome(obs) ELSE db))
    BY DEF FinishHandoffVerify
  <1>3. k.card \in 1..MaxCards
    BY DEF FinishHandoffVerify, Runs, Inv, TasksNamed, Named
  <1>4. b(obs) \in Block
    <2>1. class(obs) \in BlockClass
      BY AnswersAssumption DEF Observation, BlockClass
    <2> HIDE DEF class
    <2> QED
      BY <2>1 DEF Block
  <1>5. Reaches(db, d)
    BY <1>1, CommitNext
  <1> HIDE DEF b, d
  <1>6. Reaches(db, waiting(obs))
    <2>1. Reaches(d, waiting(obs))
      BY <1>4, <1>5, BlockOK DEF Reaches
    <2> HIDE DEF waiting
    <2> QED
      BY <1>1, <1>5, <2>1, Trans
  <1> HIDE DEF waiting
  <1>7. Reaches(db, x(obs))
    BY <1>1, <1>6, CommitNext
  <1> HIDE DEF x, class
  <1>8. Reaches(db, outcome(obs))
    <2>1. /\ Reaches(db, SaveCard(x(obs), k.card, "EXPIRED"))
          /\ Reaches(db, SaveCard(waiting(obs), k.card, "PENDING"))
      BY <1>1, <1>3, <1>6, <1>7, SaveNext
    <2> QED
      BY <2>1
  <1> HIDE DEF outcome
  <1>9. ASSUME NEW e, Reaches(db, e) PROVE Reaches(db, bare(e))
    <2>1. Reaches(e, bare(e))
      BY <1>9, ContextOK DEF Reaches, Contexts
    <2> HIDE DEF bare
    <2> QED
      BY <1>1, <1>9, <2>1, Trans
  <1> HIDE DEF bare
  <1>10. Reaches(db, bare(IF current THEN outcome(obs) ELSE db))
    BY <1>1, <1>8, <1>9
  <1> QED
    BY <1>1, <1>2, <1>10, BeginVerifyCaptureOK, EndOK

\* The clock.
LEMMA PassesActions ==
    ASSUME Inv, NEW deadline, Passes(deadline)
    PROVE  Stepped
  <1>1. Good(db) /\ db \in DB
    BY InvGood DEF Good
  <1>2. ASSUME db.lease # NoLease PROVE Reaches(db, [db EXCEPT !.lease.due = TRUE])
    BY <1>1, <1>2, LeaseDueOK
  <1>3. Reaches(db, [db EXCEPT !.block.retry = "due"])
    <2> DEFINE b == [db.block EXCEPT !.retry = "due"]
    <2>1. b \in Block
      BY <1>1 DEF DB, Block
    <2> HIDE DEF b
    <2>2. Reaches(db, [db EXCEPT !.block = b])
      BY <1>1, <2>1, BlockOK
    <2> QED
      BY <2>2 DEF b
  <1>4. ASSUME NEW bu \in Budget PROVE Reaches(db, [db EXCEPT !.budget = bu])
    BY <1>1, BudgetOK
  <1>5. ASSUME NEW c \in 1..db.nCards
        PROVE  Reaches(db, [db EXCEPT !.cards[c].due = TRUE])
    <2> DEFINE cs == [db.cards EXCEPT ![c].due = TRUE]
    <2>1. c \in 1..MaxCards
      BY Reads, MaxCardsAssumption
    <2>2. db.cards \in [1..MaxCards -> Card]
      BY <1>1 DEF DB
    <2>3. cs \in [1..MaxCards -> Card]
      BY <2>1, <2>2 DEF Card
    <2> HIDE DEF cs
    <2>4. Reaches(db, [db EXCEPT !.cards = cs])
      BY <1>1, <2>3, CardsOK
    <2> QED
      BY <2>4 DEF cs
  <1>6. Reaches(db, [db EXCEPT !.snapDue = TRUE])
    <2>1. [db EXCEPT !.snapDue = TRUE] \in DB
      BY <1>1 DEF DB
    <2>2. Same(db, [db EXCEPT !.snapDue = TRUE])
      BY <1>1 DEF DB, Same
    <2> QED
      BY <1>1, <2>1, <2>2, SameReaches
  <1>7. Reaches(db, [db EXCEPT !.consentDue = TRUE, !.snapDue = @ \/ db.snap.policy = db.policy])
    <2> DEFINE x == db.snapDue \/ db.snap.policy = db.policy
               e == [db EXCEPT !.consentDue = TRUE, !.snapDue = x]
    <2>1. x \in BOOLEAN
      OBVIOUS
    <2> HIDE DEF x
    <2>2. e \in DB
      BY <1>1, <2>1 DEF DB
    <2>3. Same(db, e)
      BY <1>1 DEF DB, Same
    <2>4. Reaches(db, e)
      BY <1>1, <2>2, <2>3, SameReaches
    <2> QED
      BY <2>4 DEF x
  <1>8. db.budget \in Budget
    BY <1>1 DEF DB
  <1>9. /\ [db.budget EXCEPT !.wait = FALSE] \in Budget
        /\ [db.budget EXCEPT !.calm = TRUE] \in Budget
    BY <1>8 DEF Budget
  <1>10. ASSUME db.budget.probes > 0
         PROVE  [db.budget EXCEPT !.probes = @ - 1] \in Budget
    <2> DEFINE p == db.budget.probes - 1
    <2>1. p \in 0..PROBE_MAX
      BY <1>8, <1>10 DEF Budget, PROBE_MAX
    <2> HIDE DEF p
    <2>2. [db.budget EXCEPT !.probes = p] \in Budget
      BY <1>8, <2>1 DEF Budget
    <2> QED
      BY <2>2 DEF p
  <1>11. ASSUME db.budget.handoffs > 0
         PROVE  [db.budget EXCEPT !.handoffs = @ - 1] \in Budget
    <2> DEFINE p == db.budget.handoffs - 1
    <2>1. p \in 0..HANDOFF_MAX
      BY <1>8, <1>11 DEF Budget, HANDOFF_MAX
    <2> HIDE DEF p
    <2>2. [db.budget EXCEPT !.handoffs = p] \in Budget
      BY <1>8, <2>1 DEF Budget
    <2> QED
      BY <2>2 DEF p
  <1>12. /\ Reaches(db, [db EXCEPT !.budget.wait = FALSE])
         /\ Reaches(db, [db EXCEPT !.budget.calm = TRUE])
         /\ db.budget.probes > 0 => Reaches(db, [db EXCEPT !.budget.probes = @ - 1])
         /\ db.budget.handoffs > 0 => Reaches(db, [db EXCEPT !.budget.handoffs = @ - 1])
    BY <1>4, <1>9, <1>10, <1>11
  <1> QED
    BY <1>2, <1>3, <1>5, <1>6, <1>7, <1>12, TurnOK DEF Passes

\* The periodic timer.
LEMMA TimersActions ==
    ASSUME Inv, Timers
    PROVE  Stepped
  BY InvGood, TickOK, TurnOK DEF Timers

\* SIGTERM and the death of the process.
LEMMA StopActions ==
    ASSUME Inv, Shutdown \/ Crash
    PROVE  Stepped
  <1> USE DEF States, LiveStates, TerminalStates
  <1>1. Good(db) /\ Reaches(db, db)
    BY InvGood, SelfReaches
  <1>2. CASE Shutdown
    BY <1>1, <1>2 DEF Shutdown, Inv, TypeOK, TasksNamed, Stepped
  <1>3. CASE Crash
    <2>1. Reaches(db, db')
      BY <1>1, <1>3, ContextOK DEF Crash, Contexts
    <2>2. task' \in [Slot -> Task] /\ TasksNamed'
      BY <1>3, IdleTask, IdleNamed DEF Crash, TasksNamed
    <2>3. crashes' \in Nat
      BY <1>3 DEF Crash, Inv, TypeOK
    <2> QED
      BY <1>3, <2>1, <2>2, <2>3 DEF Crash, Inv, TypeOK, Stepped, Reaches, Good
  <1> QED
    BY <1>2, <1>3

\* The end of shutdown().
LEMMA FinishShutdownActions ==
    ASSUME Inv, NEW t \in Slot, FinishShutdown(t)
    PROVE  Stepped
  <1> USE DEF States, LiveStates, TerminalStates
  <1>1. Good(db) /\ Reaches(db, db)
    BY InvGood, SelfReaches
  <1> DEFINE capture == db.state = "ACTIVE" /\ db.activeOp = "none" /\ db.ctx # "none"
             d == IF capture THEN CommitEvent(db, "snapshot.intent", db.state) ELSE db
             to == IF Eligible(d) THEN "DETACHED" ELSE "NEEDS_LOGIN"
             i == [Idle EXCEPT !.kind = "capture", !.policy = db.policy,
                               !.gen = db.generation + 1]
  <1>2. /\ mode' = "closed" /\ UNCHANGED <<openTask, crashes, effects>>
        /\ task' = [task EXCEPT ![t] = i] \/ task' = task
        /\ db' = CommitEvent(d, "lease.expired", to) \/ db' = d
    BY DEF FinishShutdown
  <1>3. Reaches(db, d)
    BY <1>1, StayOK
  <1>4. to \in States /\ to # "VERIFYING"
    OBVIOUS
  <1> HIDE DEF d, to
  <1>5. Reaches(db, CommitEvent(d, "lease.expired", to))
    BY <1>1, <1>3, <1>4, CommitNext
  <1>6. i \in Task /\ Named(i)
    <2>1. i \in Task
      BY Reads, IdleTask DEF Task, TaskKind
    <2> QED
      BY <2>1 DEF Named, Idle
  <1> HIDE DEF i
  <1>7. Reaches(db, db')
    BY <1>2, <1>3, <1>5
  <1>8. task' \in [Slot -> Task] /\ TasksNamed'
    BY <1>2, <1>6, SlotTask DEF Inv, TypeOK, TasksNamed
  <1> QED
    BY <1>2, <1>7, <1>8 DEF Inv, TypeOK, Stepped, Reaches, Good

\* recoverDaemon goes on from any state the engine may be found in.
LEMMA RecoveredOK ==
    ASSUME NEW d, Good(d)
    PROVE  Reaches(d, Recovered(d))
  <1> USE DEF States, LiveStates, TerminalStates
  <1> DEFINE lost == {o \in Op : d.ops[o] = "DISPATCHED"}
             failed == IF d.intentTip /\ d.state \notin {"QUARANTINED", "DELETED"}
                       THEN CommitEvent(d, "snapshot.failed", d.state) ELSE d
             c == failed.handoffId
             pending == [failed.cards EXCEPT ![c].state = "PENDING"]
             reopened == IF d.state = "HANDOFF_WAIT" /\ c # 0 /\ failed.cards[c].state = "OPEN"
                         THEN [failed EXCEPT !.cards = pending] ELSE failed
             cancelled == [reopened.cards EXCEPT ![c].state = "CANCELLED"]
             closed == IF d.state = "VERIFYING" /\ d.verification = "handoff" /\ c # 0
                       THEN [reopened EXCEPT !.cards = cancelled, !.handoffId = 0]
                       ELSE reopened
             os == [o \in Op |-> IF o \in lost THEN "UNKNOWN" ELSE d.ops[o]]
             un == d.unresolved \cup lost
             u == [d EXCEPT !.ops = os, !.unresolved = un, !.activeOp = "none",
                            !.dispatched = FALSE]
             to == IF Eligible(closed) THEN "DETACHED" ELSE "NEEDS_LOGIN"
  <1>1. Recovered(d) \in {CommitEvent(u, "action.unknown", "UNCERTAIN"),
                          CommitEvent(closed, "daemon.recovered", to),
                          CommitEvent(closed, "daemon.recovered", d.state), closed}
    BY DEF Recovered
  <1>2. d \in DB /\ d.state \in States /\ d.ops \in [Op -> OpState] /\ d.unresolved \in SUBSET Op
    BY DEF Good, DB
  <1>3. Reaches(d, failed) /\ failed.state = d.state
    BY SelfReaches, StayOK, <1>2, CommitOK DEF Good, Fenced
  <1> HIDE DEF failed
  <1>4. Good(failed) /\ failed \in DB /\ c \in 0..MaxCards /\ failed.cards \in [1..MaxCards -> Card]
    BY <1>3 DEF Reaches, Good, DB
  <1>5. c # 0 => c \in 1..MaxCards
    BY <1>4, MaxCardsAssumption
  <1> HIDE DEF c
  <1>6. Reaches(failed, reopened) /\ Same(failed, reopened)
    <2>1. CASE d.state = "HANDOFF_WAIT" /\ c # 0 /\ failed.cards[c].state = "OPEN"
      <3>1. pending \in [1..MaxCards -> Card]
        BY <1>4, <1>5, <2>1 DEF Card
      <3> HIDE DEF pending
      <3>2. Reaches(failed, [failed EXCEPT !.cards = pending])
        BY <1>4, <3>1, CardsOK
      <3>3. Same(failed, [failed EXCEPT !.cards = pending])
        BY <1>4 DEF DB, Same
      <3> QED
        BY <2>1, <3>2, <3>3
    <2>2. CASE ~(d.state = "HANDOFF_WAIT" /\ c # 0 /\ failed.cards[c].state = "OPEN")
      BY <1>4, <2>2, SelfReaches DEF Same
    <2> QED
      BY <2>1, <2>2
  <1> HIDE DEF reopened
  <1>7. Reaches(d, reopened) /\ Good(reopened) /\ reopened \in DB
    BY <1>3, <1>6, Trans DEF Reaches, Good
  <1>8. Reaches(reopened, closed) /\ Same(reopened, closed)
    <2>1. CASE d.state = "VERIFYING" /\ d.verification = "handoff" /\ c # 0
      <3> DEFINE e == [reopened EXCEPT !.cards = cancelled, !.handoffId = 0]
      <3>1. reopened.cards \in [1..MaxCards -> Card]
        BY <1>7 DEF DB
      <3>2. cancelled \in [1..MaxCards -> Card]
        BY <1>5, <2>1, <3>1 DEF Card
      <3> HIDE DEF cancelled
      <3>3. e \in DB
        BY <1>7, <3>2, ZeroCard DEF DB
      <3>4. Same(reopened, e)
        BY <1>7 DEF DB, Same
      <3> QED
        BY <1>7, <2>1, <3>3, <3>4, SameReaches
    <2>2. CASE ~(d.state = "VERIFYING" /\ d.verification = "handoff" /\ c # 0)
      BY <1>7, <2>2, SelfReaches DEF Same
    <2> QED
      BY <2>1, <2>2
  <1>9. to \in States /\ to # "VERIFYING"
    OBVIOUS
  <1> HIDE DEF closed, to
  <1>10. Reaches(d, closed) /\ closed.state = d.state
    BY <1>3, <1>6, <1>7, <1>8, Trans DEF Same
  <1>11. /\ Reaches(d, CommitEvent(closed, "daemon.recovered", to))
         /\ Reaches(d, CommitEvent(closed, "daemon.recovered", d.state))
    <2>1. d.state = "VERIFYING" => closed.lease = NoLease
      BY <1>10 DEF Reaches, Good, Fenced
    <2> QED
      BY <1>2, <1>9, <1>10, <2>1, CommitNext
  <1>12. Reaches(d, CommitEvent(u, "action.unknown", "UNCERTAIN"))
    <2>1. os \in [Op -> OpState] /\ un \in SUBSET Op
      BY <1>2 DEF OpState
    <2> HIDE DEF os, un
    <2>2. u \in DB
      BY <1>2, <2>1 DEF DB
    <2>3. Same(d, u)
      BY <1>2 DEF DB, Same
    <2> HIDE DEF u
    <2>4. Reaches(d, u)
      BY <2>2, <2>3, SameReaches
    <2> QED
      BY <2>4, CommitNext
  <1> HIDE DEF u
  <1> QED
    BY <1>1, <1>10, <1>11, <1>12

\* recoverDaemon.
LEMMA RestartActions ==
    ASSUME Inv, Restart
    PROVE  Stepped
  <1>1. Reaches(db, db')
    BY InvGood, RecoveredOK DEF Restart
  <1> QED
    BY <1>1 DEF Restart, Inv, TypeOK, TasksNamed, Stepped, Reaches, Good

-----------------------------------------------------------------------------
(* The theorems. *)

\* Every step of the specification is a turn that keeps the types.
LEMMA NextStepped ==
    ASSUME Inv, Next
    PROVE  Stepped
  <1>1. CASE Requests
    <2>1. CASE PutSite \/ CreateSession \/ Revoke \/ DeleteSession \/ VaultRotate
      BY <2>1, SessionActions
    <2>2. CASE ExpireOnUse \/ Renew
      BY <2>2, LeaseActions
    <2>3. CASE RecoverAcknowledge \/ RecoverReauth
      BY <2>3, RecoverActions
    <2>4. ASSUME NEW c \in 1..db.nCards, CancelHandoff(c) PROVE Stepped
      BY <2>4, CancelActions
    <2>5. ASSUME NEW t \in Slot, Attach(t) \/ Checkpoint(t) \/ Detach(t) PROVE Stepped
      BY <2>5, AttachActions, RunnerActions
    <2>6. ASSUME NEW t \in Slot, NEW o \in Op, Step(t, o) PROVE Stepped
      BY <2>6, StepActions
    <2>7. ASSUME NEW t \in Slot, NEW intent, RecoverProbe(t, intent) PROVE Stepped
      BY <2>7, RecoverProbeActions
    <2>8. ASSUME NEW t \in Slot, NEW c \in 1..db.nCards, OpenHandoff(t, c) \/ ReadyHandoff(t, c)
          PROVE Stepped
      BY <2>8, OpenActions, ReadyActions
    <2> QED
      BY <1>1, <2>1, <2>2, <2>3, <2>4, <2>5, <2>6, <2>7, <2>8 DEF Requests
  <1>2. ASSUME NEW t \in Slot, Continue(t) PROVE Stepped
    <2>1. CASE ContextOpened(t) \/ VerificationThrows(t) \/ FinishAttach(t)
      BY <2>1, AttachActions
    <2>2. CASE FinishCheckpoint(t) \/ FinishDetach(t)
      BY <2>2, RunnerActions
    <2>3. CASE StepDispatch(t) \/ StepFinish(t)
      BY <2>3, DispatchActions, StepFinishActions
    <2>4. CASE FinishRecovery(t) \/ VerifyCaptured(t) \/ VerifyCaptureThrows(t)
      BY <2>4, FinishRecoveryActions, VerifyCapturedActions, VerifyCaptureThrowsActions
    <2>5. CASE HumanOpened(t) \/ AwaitedOpen(t) \/ FinishHandoffVerify(t)
      BY <2>5, HumanOpenedActions, AwaitedActions, HandoffVerifyActions
    <2> QED
      BY <1>2, <2>1, <2>2, <2>3, <2>4, <2>5 DEF Continue
  <1>3. CASE Timers \/ TimePasses
    BY <1>3, TimersActions, PassesActions DEF TimePasses
  <1>4. CASE Shutdown \/ (\E t \in Slot : FinishShutdown(t)) \/ Crash
    BY <1>4, StopActions, FinishShutdownActions
  <1>5. CASE Restart
    BY <1>5, RestartActions
  <1> QED
    BY <1>1, <1>2, <1>3, <1>4, <1>5 DEF Next

\* Invariance, one step at a time: stuttering included.
LEMMA Inductive ==
    ASSUME Inv, [Next]_vars
    PROVE  Inv' /\ Reaches(db, db')
  <1>1. CASE Next
    BY <1>1, NextStepped DEF Stepped, Inv, LeaseFenced, Reaches, Good, Fenced
  <1>2. CASE UNCHANGED vars
    BY <1>2, InvGood, SelfReaches DEF vars, Inv, TypeOK, TasksNamed, LeaseFenced
  <1> QED
    BY <1>1, <1>2

\* The invariant holds of an enrolled site without a session.
LEMMA InitInv == Init => Inv
  <1> SUFFICES ASSUME Init PROVE Inv
    OBVIOUS
  <1>1. /\ NoLease \in Lease /\ NoBlock \in Block /\ NoCard \in Card
        /\ NoSnapshot \in Snapshot /\ EmptyBudget \in Budget
    <2>1. 0 \in 0..VERIFY_MAX /\ 0 \in 0..PROBE_MAX /\ 0 \in 0..HANDOFF_MAX
      BY DEF VERIFY_MAX, PROBE_MAX, HANDOFF_MAX
    <2> QED
      BY <2>1 DEF NoLease, Lease, NoBlock, Block, NoCard, Card, NoSnapshot, Snapshot,
                  EmptyBudget, Budget
  <1> DEFINE cs == [c \in 1..MaxCards |-> NoCard]
             os == [o \in Op |-> "none"]
  <1>2. cs \in [1..MaxCards -> Card] /\ os \in [Op -> OpState]
    BY <1>1 DEF OpState
  <1> HIDE DEF cs, os
  <1>3. EmptyDB \in DB /\ EmptyDB.lease = NoLease
    <2>1. EmptyDB \in DB
      BY <1>1, <1>2, ZeroCard DEF EmptyDB, DB, cs, os
    <2> QED
      BY <2>1 DEF EmptyDB
  <1>4. task \in [Slot -> Task] /\ TasksNamed /\ effects \in [Op -> Nat]
    BY IdleTask, IdleNamed DEF Init, TasksNamed
  <1> QED
    BY <1>3, <1>4 DEF Init, Inv, TypeOK, LeaseFenced

\* The inductive invariant holds always.
LEMMA Invariant == Spec => []Inv
  <1>1. Inv /\ [Next]_vars => Inv'
    BY Inductive
  <1> QED
    BY <1>1, InitInv, PTL DEF Spec

\* The engine's state keeps its types: sessions, leases, blocks, cards, budgets and
\* the records that handlers keep over an await, for any number of operations,
\* cards and continuations.
THEOREM TypeCorrect == Spec => []TypeOK
  <1>1. Inv => TypeOK
    BY DEF Inv
  <1> QED
    BY <1>1, Invariant, PTL

\* One active runner: whatever interleaving of requests, late continuations,
\* timers, crashes and restarts, a lease exists only under the session's current
\* fence and in a state a runner works in.
THEOREM LeaseIsFenced == Spec => []LeaseFenced
  <1>1. Inv => LeaseFenced
    BY DEF Inv
  <1> QED
    BY <1>1, Invariant, PTL

\* Fences only move forward, and a lease is never granted, dropped or replaced
\* under the fence of another.
THEOREM FencesAdvance == Spec => FenceAdvances
  <1>1. Inv /\ [Next]_vars =>
          [/\ db'.fence >= db.fence
           /\ db'.lease.fence # db.lease.fence => db'.fence > db.fence]_vars
    BY Inductive DEF Reaches, Moves
  <1> QED
    BY <1>1, Invariant, PTL DEF Spec, FenceAdvances

-----------------------------------------------------------------------------
(* Operations, snapshots, waits and verifications: what a turn does to them.
   Only the fields matter here, so the operators are described for any record
   that has them.                                                           *)

Shaped(d) ==
    /\ {"state", "generation", "fence", "lease", "block", "handoffId", "snapDue", "eligible",
        "verification", "activeOp", "dispatched", "unresolved", "fresh", "exhausted",
        "intentTip", "ctx", "cards", "nCards", "ops", "snap", "key", "budget", "policy",
        "consentDue"} \subseteq DOMAIN d
    /\ d.nCards \in Nat
    /\ DOMAIN d.ops = Op

\* The operations and their slot; the snapshot, its key and its generation.
OpsKept(d, e) == /\ e.ops = d.ops /\ e.activeOp = d.activeOp
                 /\ e.dispatched = d.dispatched /\ e.unresolved = d.unresolved
StoreKept(d, e) == e.snap = d.snap /\ e.key = d.key /\ e.generation = d.generation

\* The session moves at most in its state and in the card it names.
Apart(d, e) == Shaped(e) /\ OpsKept(d, e) /\ StoreKept(d, e)
Kept(d, e) == /\ Apart(d, e)
              /\ e.state = d.state /\ e.handoffId = d.handoffId
              /\ e.verification = d.verification /\ e.fence = d.fence

Closing == {"handoff.completed", "handoff.cancelled", "handoff.expired"}

\* The engine's state has the fields.
LEMMA DBShaped == ASSUME NEW d \in DB PROVE Shaped(d)
  <1>1. d.nCards \in 0..MaxCards /\ d.ops \in [Op -> OpState]
    BY DEF DB
  <1> QED
    BY <1>1, MaxCardsAssumption DEF DB, Shaped

\* emit only moves the session.
LEMMA EmitKeeps ==
    ASSUME NEW d, Shaped(d), NEW event, NEW to, NEW e, e = Emit(d, event, to)
    PROVE  /\ Apart(d, e) /\ e.state = to /\ e.handoffId = d.handoffId
           /\ e.verification = d.verification /\ e.fence = d.fence
  BY DEF Shaped, Apart, OpsKept, StoreKept, Emit

\* applyEventEffects lets go of the card when the event closes the handoff.
LEMMA EffectsKeep ==
    ASSUME NEW d, Shaped(d), NEW event, NEW e, e = ApplyEventEffects(d, event)
    PROVE  /\ Apart(d, e) /\ e.state = d.state
           /\ e.handoffId = IF event \in Closing THEN 0 ELSE d.handoffId
           /\ e.verification = d.verification /\ e.fence = d.fence
  BY DEF Shaped, Apart, OpsKept, StoreKept, ApplyEventEffects, Closing

\* leaveContext touches neither operations, snapshot nor card.
LEMMA LeaveKeeps ==
    ASSUME NEW d, Shaped(d), NEW e, e = LeaveContext(d)
    PROVE  Apart(d, e) /\ e.state = d.state /\ e.handoffId = d.handoffId
  BY DEF Shaped, Apart, OpsKept, StoreKept, LeaveContext

\* commitEvent: a session that keeps its context keeps its verification and fence.
LEMMA CommitKeeps ==
    ASSUME NEW d, Shaped(d), NEW event, NEW to, NEW e, e = CommitEvent(d, event, to)
    PROVE  /\ Apart(d, e) /\ e.state = to
           /\ e.handoffId = IF event \in Closing THEN 0 ELSE d.handoffId
           /\ to = "VERIFYING" => e.verification = d.verification /\ e.fence = d.fence
  <1> DEFINE a == Emit(d, event, to)
             b == ApplyEventEffects(a, event)
             c == LeaveContext(b)
  <1>1. /\ Apart(d, a) /\ a.state = to /\ a.handoffId = d.handoffId
        /\ a.verification = d.verification /\ a.fence = d.fence
    BY EmitKeeps
  <1>2. e = IF d.state \in ContextStates /\ to \notin ContextStates THEN c ELSE b
    BY DEF CommitEvent
  <1> HIDE DEF a
  <1>3. /\ Apart(a, b) /\ b.state = to
        /\ b.handoffId = IF event \in Closing THEN 0 ELSE d.handoffId
        /\ b.verification = d.verification /\ b.fence = d.fence
    BY <1>1, EffectsKeep DEF Apart
  <1> HIDE DEF b
  <1>4. Apart(b, c) /\ c.state = to /\ c.handoffId = b.handoffId
    BY <1>3, LeaveKeeps DEF Apart
  <1> HIDE DEF c
  <1> QED
    BY <1>1, <1>2, <1>3, <1>4 DEF Apart, OpsKept, StoreKept, ContextStates

\* The state of a card is beside the point.
LEMMA SaveKeeps ==
    ASSUME NEW d, Shaped(d), NEW c, NEW state
    PROVE  Kept(d, SaveCard(d, c, state))
  BY DEF Shaped, Kept, Apart, OpsKept, StoreKept, SaveCard

\* So is the manual review an oversized Retry-After asks for.
LEMMA ReviewKeeps ==
    ASSUME NEW d, Shaped(d), NEW obs
    PROVE  Kept(d, Review(d, obs))
  BY DEF Shaped, Kept, Apart, OpsKept, StoreKept, Review

\* So is the record of a block,
LEMMA StampKeeps ==
    ASSUME NEW d, Shaped(d), NEW class, NEW retry
    PROVE  Kept(d, Stamp(d, class, retry))
  BY DEF Shaped, Kept, Apart, OpsKept, StoreKept, Stamp

\* and the delay computed for it.
LEMMA ScheduleKeeps ==
    ASSUME NEW d, Shaped(d), NEW obs, NEW probe
    PROVE  Kept(d, Schedule(d, obs, probe))
  <1> DEFINE tooLong == obs.wait = "tooLong"
             s == Stamp(d, obs.class, IF tooLong THEN "none" ELSE "pending")
             n == NextAttempt(d, probe)
             at == IF n > VERIFY_MAX THEN VERIFY_MAX ELSE n
             wa == s.budget.wait \/ ~tooLong
             ma == s.budget.manual \/ tooLong
             bu == [s.budget EXCEPT !.attempts = at, !.wait = wa, !.manual = ma]
  <1>1. Schedule(d, obs, probe) = [s EXCEPT !.budget = bu]
    BY DEF Schedule
  <1>2. Kept(d, s)
    BY StampKeeps
  <1> HIDE DEF s, bu
  <1>3. Kept(s, [s EXCEPT !.budget = bu])
    BY <1>2 DEF Shaped, Kept, Apart, OpsKept, StoreKept
  <1> QED
    BY <1>1, <1>2, <1>3 DEF Kept, Apart, OpsKept, StoreKept

\* Cancelling the session's card leaves it without one.
LEMMA CancelKeeps ==
    ASSUME NEW d, Shaped(d), NEW e, e = CancelCard(d)
    PROVE  /\ Apart(d, e) /\ e.state = d.state /\ e.handoffId = 0
           /\ e.verification = d.verification /\ e.fence = d.fence
  BY DEF Shaped, Apart, OpsKept, StoreKept, CancelCard, SaveCard

\* A new card is the session's.
LEMMA AddKeeps ==
    ASSUME NEW d, Shaped(d), NEW e, e = AddCard(d)
    PROVE  /\ Apart(d, e) /\ e.state = d.state /\ e.handoffId # 0
           /\ e.verification = d.verification /\ e.fence = d.fence
  BY DEF Shaped, Apart, OpsKept, StoreKept, AddCard

\* commitBlockDetected ends in one of four states, and waits only for a card.
LEMMA BlockKeeps ==
    ASSUME NEW d, Shaped(d), NEW obs, NEW probe, NEW e, e = CommitBlockDetected(d, obs, probe)
    PROVE  /\ Apart(d, e)
           /\ e.state \in {"COOLDOWN", "RECOVERABLE", "HANDOFF_WAIT", "NEEDS_LOGIN"}
           /\ e.state = "HANDOFF_WAIT" => e.handoffId # 0
  <1> DEFINE sc == Schedule(d, obs, probe)
             st == Stamp(d, obs.class, "none")
             cool == CommitEvent(sc, "block.detected", "COOLDOWN")
             over == CommitEvent(cool, "recovery.exhausted", "RECOVERABLE")
             wait == CommitEvent(st, "block.detected", "HANDOFF_WAIT")
             card == AddCard(wait)
             login == CommitEvent(st, "block.detected", "NEEDS_LOGIN")
             rest == CommitEvent(st, "block.detected", "RECOVERABLE")
  <1>1. e \in {cool, over, card, login, rest}
    BY DEF CommitBlockDetected
  <1>2. Apart(d, sc) /\ Apart(d, st)
    BY ScheduleKeeps, StampKeeps DEF Kept
  <1> HIDE DEF sc, st
  <1>3. /\ Apart(sc, cool) /\ cool.state = "COOLDOWN"
        /\ Apart(st, wait) /\ wait.state = "HANDOFF_WAIT"
        /\ Apart(st, login) /\ login.state = "NEEDS_LOGIN"
        /\ Apart(st, rest) /\ rest.state = "RECOVERABLE"
    BY <1>2, CommitKeeps DEF Apart
  <1> HIDE DEF cool, wait, login, rest
  <1>4. /\ Apart(cool, over) /\ over.state = "RECOVERABLE"
        /\ Apart(wait, card) /\ card.state = "HANDOFF_WAIT" /\ card.handoffId # 0
    BY <1>3, CommitKeeps, AddKeeps DEF Apart
  <1> HIDE DEF over, card
  <1> QED
    BY <1>1, <1>2, <1>3, <1>4 DEF Apart, OpsKept, StoreKept

\* failVerification does nothing, because the session has moved on, or ends the
\* verification.
LEMMA FailKeeps ==
    ASSUME NEW d, Shaped(d), NEW fence, NEW code, NEW e, e = FailVerification(d, fence, code)
    PROVE  /\ Apart(d, e)
           /\ \/ e = d /\ (d.state \notin ContextStates \/ d.fence # fence)
              \/ e.state \in {"QUARANTINED", "EXPIRED", "RECOVERABLE"}
  <1> DEFINE q == CommitEvent(d, "session.quarantined", "QUARANTINED")
             x == CommitEvent(d, "session.expired", "EXPIRED")
             r == CommitEvent(d, "recovery.exhausted", "RECOVERABLE")
  <1>1. /\ Apart(d, q) /\ q.state = "QUARANTINED"
        /\ Apart(d, x) /\ x.state = "EXPIRED"
        /\ Apart(d, r) /\ r.state = "RECOVERABLE"
    BY CommitKeeps
  <1>2. Apart(d, d)
    BY DEF Apart, OpsKept, StoreKept
  <1>3. \/ e = d /\ (d.state \notin ContextStates \/ d.fence # fence)
        \/ e \in {q, x, r}
    BY DEF FailVerification
  <1> HIDE DEF q, x, r
  <1> QED
    BY <1>1, <1>2, <1>3

-----------------------------------------------------------------------------
(* What every state of a turn satisfies, besides Good. *)

\* A session is UNCERTAIN about something, waits for a card, keeps its snapshot
\* behind its generation and none under an erased key, and an operation marked
\* dispatched is DISPATCHED.
Uncertain(d) == d.state = "UNCERTAIN" => d.unresolved # {}
Waits(d) == \/ d.state = "HANDOFF_WAIT"
            \/ d.state = "VERIFYING" /\ d.verification = "handoff"
            => d.handoffId # 0
Stored(d) == /\ d.snap.generation <= d.generation
             /\ d.key = "erased" => d.snap = NoSnapshot
Slotted(d) == d.dispatched /\ d.activeOp # "none" => d.ops[d.activeOp] = "DISPATCHED"
Sound(d) == Shaped(d) /\ Uncertain(d) /\ Waits(d) /\ Stored(d) /\ Slotted(d)

\* A turn that neither starts, dispatches nor reports an operation, nor starts a
\* verification.
Settles(d, e) == \A o \in Op : \/ e.ops[o] = d.ops[o]
                               \/ d.ops[o] = "DISPATCHED" /\ e.ops[o] = "UNKNOWN"
Verifies(d, e) == e.state = "VERIFYING" => /\ d.state = "VERIFYING"
                                           /\ e.verification = d.verification
                                           /\ e.fence = d.fence
Keeps(d, e) == /\ Sound(e) /\ Settles(d, e)
               /\ d.key = "erased" => e.key = "erased"
Leads(d, e) == Keeps(d, e) /\ Verifies(d, e)

\* Such turns compose.
LEMMA KeepsTrans ==
    ASSUME NEW d, NEW e, NEW f, Keeps(d, e), Keeps(e, f)
    PROVE  Keeps(d, f)
  <1>1. Settles(d, f)
    BY DEF Keeps, Settles
  <1> QED
    BY <1>1 DEF Keeps

\* So do turns that also start no verification.
LEMMA LeadsTrans ==
    ASSUME NEW d, NEW e, NEW f, Leads(d, e), Leads(e, f)
    PROVE  Leads(d, f)
  <1>1. Verifies(d, f)
    BY DEF Leads, Keeps, Verifies
  <1> QED
    BY <1>1, KeepsTrans DEF Leads, Keeps

\* A change of other fields is such a turn.
LEMMA KeptLeads ==
    ASSUME NEW d, Sound(d), NEW e, Kept(d, e)
    PROVE  Leads(d, e)
  BY DEF Kept, Apart, OpsKept, StoreKept, Leads, Keeps, Sound, Uncertain, Waits, Stored, Slotted,
         Settles, Verifies

\* In particular no change at all.
LEMMA SelfLeads ==
    ASSUME NEW d, Sound(d)
    PROVE  Leads(d, d)
  BY KeptLeads DEF Kept, Apart, OpsKept, StoreKept, Sound

\* So is a move that leaves the operations and the snapshot alone, to a state that
\* asks for nothing.
LEMMA ApartLeads ==
    ASSUME NEW d, Sound(d), NEW e, Apart(d, e),
           e.state = "UNCERTAIN" => d.unresolved # {},
           e.state = "HANDOFF_WAIT" => e.handoffId # 0,
           e.state = "VERIFYING" => /\ d.state = "VERIFYING" /\ e.handoffId = d.handoffId
                                    /\ e.verification = d.verification /\ e.fence = d.fence
    PROVE  Leads(d, e)
  BY DEF Apart, OpsKept, StoreKept, Leads, Keeps, Sound, Uncertain, Waits, Stored, Slotted, Settles,
         Verifies

\* States that ask for nothing.
Plain == {"NONE", "NEEDS_LOGIN", "DETACHED", "ATTACHING", "ACTIVE", "COOLDOWN", "RECOVERABLE",
          "EXPIRED", "REVOKED", "DELETED", "QUARANTINED"}

\* commitEvent to such a state.
LEMMA CommitPlain ==
    ASSUME NEW d, Sound(d), NEW event, NEW to \in Plain
    PROVE  Leads(d, CommitEvent(d, event, to))
  <1> DEFINE e == CommitEvent(d, event, to)
  <1>1. Apart(d, e) /\ e.state = to
    BY CommitKeeps DEF Sound
  <1> HIDE DEF e
  <1>2. Leads(d, e)
    BY <1>1, ApartLeads DEF Plain
  <1> QED
    BY <1>2 DEF e

\* commitEvent that stays, for an event that does not close a handoff.
LEMMA CommitStay ==
    ASSUME NEW d, Sound(d), NEW event, event \notin Closing
    PROVE  /\ Leads(d, CommitEvent(d, event, d.state))
           /\ CommitEvent(d, event, d.state).state = d.state
  <1> DEFINE e == CommitEvent(d, event, d.state)
  <1>1. /\ Apart(d, e) /\ e.state = d.state /\ e.handoffId = d.handoffId
        /\ d.state = "VERIFYING" => e.verification = d.verification /\ e.fence = d.fence
    BY CommitKeeps DEF Sound
  <1> HIDE DEF e
  <1>2. Leads(d, e)
    BY <1>1, ApartLeads DEF Sound, Waits, Uncertain
  <1> QED
    BY <1>1, <1>2 DEF e

\* A lost operation is listed.
LEMMA LoseLeads ==
    ASSUME NEW d, Sound(d), d.dispatched, d.activeOp # "none"
    PROVE  /\ Leads(d, LoseOperation(d))
           /\ LoseOperation(d).unresolved # {}
           /\ LoseOperation(d).state = d.state
  <1> DEFINE e == LoseOperation(d)
  <1>1. /\ Shaped(e) /\ StoreKept(d, e) /\ e.state = d.state /\ e.handoffId = d.handoffId
        /\ e.verification = d.verification /\ e.fence = d.fence
        /\ e.ops = [d.ops EXCEPT ![d.activeOp] = "UNKNOWN"]
        /\ e.unresolved = d.unresolved \cup {d.activeOp}
        /\ e.activeOp = "none"
    BY DEF Sound, Shaped, StoreKept, LoseOperation
  <1> HIDE DEF e
  <1>2. Settles(d, e)
    BY <1>1 DEF Settles, Sound, Slotted, Shaped
  <1>3. e.unresolved # {}
    BY <1>1
  <1>4. Sound(e)
    BY <1>1, <1>3 DEF Sound, Uncertain, Waits, Stored, Slotted, StoreKept
  <1> QED
    BY <1>1, <1>2, <1>3, <1>4 DEF Leads, Keeps, Verifies, StoreKept, e

\* tick is such a turn.
LEMMA TickLeads ==
    ASSUME NEW d, Sound(d)
    PROVE  Leads(d, Tick(d))
  <1>1. ASSUME d.dispatched, d.activeOp # "none"
        PROVE  Leads(d, CommitEvent(LoseOperation(d), "action.unknown", "UNCERTAIN"))
    <2> DEFINE l == LoseOperation(d)
               e == CommitEvent(l, "action.unknown", "UNCERTAIN")
    <2>1. Leads(d, l) /\ l.unresolved # {} /\ Sound(l)
      BY <1>1, LoseLeads DEF Leads, Keeps
    <2> HIDE DEF l
    <2>2. Apart(l, e) /\ e.state = "UNCERTAIN"
      BY <2>1, CommitKeeps DEF Sound
    <2> HIDE DEF e
    <2>3. Leads(l, e)
      BY <2>1, <2>2, ApartLeads
    <2> QED
      BY <2>1, <2>3, LeadsTrans DEF l, e
  <1>2. /\ Leads(d, CommitEvent(d, "lease.expired", "DETACHED"))
        /\ Leads(d, CommitEvent(d, "cooldown.elapsed", "RECOVERABLE"))
        /\ Leads(d, CommitEvent(d, "session.expired", "EXPIRED"))
    BY CommitPlain DEF Plain
  <1>3. Leads(d, SaveCard(CommitEvent(d, "handoff.expired", "NEEDS_LOGIN"), d.handoffId, "EXPIRED"))
    <2> DEFINE e == CommitEvent(d, "handoff.expired", "NEEDS_LOGIN")
    <2>1. Leads(d, e) /\ Sound(e)
      BY CommitPlain DEF Plain, Leads, Keeps
    <2> HIDE DEF e
    <2>2. Leads(e, SaveCard(e, d.handoffId, "EXPIRED"))
      BY <2>1, SaveKeeps, KeptLeads DEF Sound
    <2> QED
      BY <2>1, <2>2, LeadsTrans DEF e
  <1>4. d.state = "UNCERTAIN" => Leads(d, CommitEvent(d, "session.expired", "UNCERTAIN"))
    BY CommitStay DEF Closing
  <1>5. Leads(d, d)
    BY SelfLeads
  <1> QED
    BY <1>1, <1>2, <1>3, <1>4, <1>5 DEF Tick

-----------------------------------------------------------------------------
(* The continuations: who works on an operation, who drives a verification. *)

Works(k) == k.kind \in {"step", "dispatch"}

\* An operation is worked on by one continuation: it is PREPARED until that one
\* dispatches it, and then DISPATCHED, or UNKNOWN when its lease ran out.
Owned == /\ \A t \in Slot :
              /\ task[t].kind = "step" => db.ops[task[t].op] = "PREPARED"
              /\ task[t].kind = "dispatch" => db.ops[task[t].op] \in {"DISPATCHED", "UNKNOWN"}
         /\ \A t, u \in Slot :
              Works(task[t]) /\ Works(task[u]) /\ task[t].op = task[u].op => t = u

\* An operation that has not been dispatched had no effect, and none had two.
Once == \A o \in Op : /\ effects[o] <= 1
                      /\ db.ops[o] \in {"none", "PREPARED"} => effects[o] = 0

\* A continuation of the verification the session is in, under its fence: no other
\* can end without ending the verification too.
Drives(k, d) ==
    /\ k.fence = d.fence
    /\ \/ d.verification = "recovery" /\ k.kind \in {"recoverOpen", "recoverProbe", "verify"}
       \/ d.verification = "handoff" /\ k.kind \in {"handoffWait", "handoffProbe", "verify"}
Driven == db.state = "VERIFYING" /\ mode # "down" => \E t \in Slot : Drives(task[t], db)

\* The second inductive invariant, and what one step is shown to do.
Inv2 == Inv /\ Sound(db) /\ Owned /\ Once /\ Driven
Final == \A o \in Op : db.ops[o] \in {"SUCCEEDED", "BLOCKED", "DENIED"} =>
                           db'.ops[o] = db.ops[o]
Advanced == /\ Sound(db)' /\ Owned' /\ Once' /\ Driven'
            /\ Final
            /\ db.key = "erased" => db'.key = "erased" /\ db'.snap = NoSnapshot

\* The tables after a turn that neither starts, dispatches nor reports an operation.
LEMMA SettledOK ==
    ASSUME Inv2, NEW e, Keeps(db, e), db' = e, effects' = effects,
           \A t \in Slot :
              Works(task'[t]) => task'[t].kind = task[t].kind /\ task'[t].op = task[t].op
    PROVE  /\ Sound(db)' /\ Owned' /\ Once' /\ Final
           /\ db.key = "erased" => db'.key = "erased" /\ db'.snap = NoSnapshot
  <1>1. Settles(db, db') /\ Sound(db')
    BY DEF Leads, Keeps
  <1>2. \A t \in Slot : Works(task[t]) => task[t].op \in Op
    BY DEF Inv2, Inv, TasksNamed, Named, Works
  <1>3. Owned'
    <2>1. ASSUME NEW t \in Slot, task'[t].kind = "step" PROVE db'.ops[task'[t].op] = "PREPARED"
      <3>1. task'[t].kind = task[t].kind /\ task'[t].op = task[t].op /\ task[t].op \in Op
        BY <1>2, <2>1 DEF Works
      <3> QED
        BY <1>1, <2>1, <3>1 DEF Inv2, Owned, Settles
    <2>2. ASSUME NEW t \in Slot, task'[t].kind = "dispatch"
          PROVE  db'.ops[task'[t].op] \in {"DISPATCHED", "UNKNOWN"}
      <3>1. task'[t].kind = task[t].kind /\ task'[t].op = task[t].op /\ task[t].op \in Op
        BY <1>2, <2>2 DEF Works
      <3> QED
        BY <1>1, <2>2, <3>1 DEF Inv2, Owned, Settles
    <2>3. \A t, u \in Slot :
              Works(task'[t]) /\ Works(task'[u]) /\ task'[t].op = task'[u].op => t = u
      BY DEF Inv2, Owned, Works
    <2> QED
      BY <2>1, <2>2, <2>3 DEF Owned, Works
  <1>4. Once'
    BY <1>1 DEF Inv2, Once, Settles
  <1>5. Final
    BY <1>1 DEF Final, Settles
  <1> QED
    BY <1>1, <1>3, <1>4, <1>5 DEF Leads, Keeps, Sound, Stored

\* An action that leaves the continuations alone.
LEMMA StateAdvances ==
    ASSUME Inv2, NEW e, Leads(db, e), db' = e, task' = task, effects' = effects,
           mode' = mode \/ mode # "down"
    PROVE  Advanced
  <1>1. Driven'
    BY DEF Inv2, Driven, Drives, Leads, Verifies
  <1>2. \A t \in Slot :
          Works(task'[t]) => task'[t].kind = task[t].kind /\ task'[t].op = task[t].op
    OBVIOUS
  <1>3. Keeps(db, e)
    BY DEF Leads
  <1> QED
    BY <1>1, <1>2, <1>3, SettledOK DEF Advanced

\* An action that is one turn.
LEMMA TurnAdvances ==
    ASSUME Inv2, NEW e, Leads(db, e), Turn(e)
    PROVE  Advanced
  BY StateAdvances DEF Turn

\* An action that also writes slot t: a driver may leave only if the verification
\* is over.
LEMMA SlotAdvances ==
    ASSUME Inv2, NEW t \in Slot, NEW e, Leads(db, e), NEW k, ~Works(k),
           e.state = "VERIFYING" /\ Drives(task[t], db) => Drives(k, e),
           db' = e, task' = [task EXCEPT ![t] = k], effects' = effects,
           mode' = mode \/ mode # "down"
    PROVE  Advanced
  <1>1. task \in [Slot -> Task]
    BY DEF Inv2, Inv, TypeOK
  <1>2. task'[t] = k /\ \A u \in Slot \ {t} : task'[u] = task[u]
    BY <1>1
  <1>3. Driven'
    <2> SUFFICES ASSUME db'.state = "VERIFYING", mode' # "down"
                 PROVE  \E u \in Slot : Drives(task'[u], db')
      BY DEF Driven
    <2>1. /\ db.state = "VERIFYING" /\ mode # "down"
          /\ db'.verification = db.verification /\ db'.fence = db.fence
      BY DEF Leads, Keeps, Verifies
    <2>2. PICK u \in Slot : Drives(task[u], db)
      BY <2>1 DEF Inv2, Driven
    <2>3. Drives(task[u], db')
      BY <2>1, <2>2 DEF Drives
    <2> QED
      BY <1>2, <2>2, <2>3
  <1>4. \A u \in Slot :
          Works(task'[u]) => task'[u].kind = task[u].kind /\ task'[u].op = task[u].op
    BY <1>2
  <1>5. Keeps(db, e)
    BY DEF Leads
  <1> QED
    BY <1>3, <1>4, <1>5, SettledOK DEF Advanced

\* An action that goes on with, or ends, the continuation in slot t.
LEMMA BecomeAdvances ==
    ASSUME Inv2, NEW t \in Slot, NEW e, Leads(db, e), NEW k, ~Works(k),
           e.state = "VERIFYING" /\ Drives(task[t], db) => Drives(k, e), Become(t, e, k)
    PROVE  Advanced
  BY SlotAdvances DEF Become

\* A slot that was free, or that held another kind of continuation, drove nothing.
LEMMA FreeAdvances ==
    ASSUME Inv2, NEW t \in Slot, NEW e, Leads(db, e), NEW k, ~Works(k),
           task[t].kind \notin {"recoverOpen", "recoverProbe", "handoffWait", "handoffProbe",
                                "verify"},
           Become(t, e, k)
    PROVE  Advanced
  BY BecomeAdvances DEF Drives

\* A continuation may end unless it drives a verification that goes on.
LEMMA EndAdvances ==
    ASSUME Inv2, NEW t \in Slot, NEW e, Leads(db, e),
           e.state = "VERIFYING" => ~Drives(task[t], db), End(t, e)
    PROVE  Advanced
  BY BecomeAdvances DEF End, Works, Idle

\* The invariant says of db what Sound says of any state of a turn.
LEMMA SoundDB == Inv2 => /\ Sound(db) /\ Shaped(db) /\ Leads(db, db) /\ Leads(db, Tick(db))
                         /\ Sound(Tick(db)) /\ Shaped(Tick(db))
  BY SelfLeads, TickLeads DEF Inv2, Sound, Leads, Keeps

\* putSite, createSession, revoke, deleteSession, vaultRotate.
LEMMA SessionAdvances ==
    ASSUME Inv2, PutSite \/ CreateSession \/ Revoke \/ DeleteSession \/ VaultRotate
    PROVE  Advanced
  <1> DEFINE k == Tick(db)
  <1>1. Sound(db) /\ Shaped(db) /\ Leads(db, db) /\ Leads(db, k) /\ Sound(k) /\ Shaped(k)
    BY SoundDB
  <1>2. k.generation \in Nat /\ k.snap \in Snapshot
    BY InvGood, TickOK DEF Inv2, Reaches, Good, DB
  <1>3. k.snap.generation \in Nat
    BY <1>2 DEF Snapshot
  <1>4. CASE PutSite
    <2> DEFINE n == [db EXCEPT !.policy = @ + 1, !.consentDue = FALSE]
               e == CommitEvent(n, "policy.changed", "NEEDS_LOGIN")
    <2>1. Kept(db, n)
      BY <1>1 DEF Shaped, Kept, Apart, OpsKept, StoreKept
    <2>2. Turn(IF n.state \in TerminalStates \cup {"NONE"} THEN n
               ELSE IF n.state = "UNCERTAIN" THEN CommitEvent(n, "policy.changed", "UNCERTAIN")
               ELSE CancelCard(e))
      BY <1>4 DEF PutSite
    <2> HIDE DEF n
    <2>3. Leads(db, n) /\ Sound(n)
      BY <1>1, <2>1, KeptLeads DEF Leads, Keeps
    <2>4. n.state = "UNCERTAIN" => Leads(n, CommitEvent(n, "policy.changed", "UNCERTAIN"))
      BY <2>3, CommitStay DEF Closing
    <2>5. Leads(n, e) /\ Sound(e) /\ e.state = "NEEDS_LOGIN"
      BY <2>3, CommitPlain, CommitKeeps DEF Plain, Leads, Keeps, Sound
    <2> HIDE DEF e
    <2>6. Leads(e, CancelCard(e))
      BY <2>5, CancelKeeps, ApartLeads DEF Sound
    <2> QED
      BY <2>2, <2>3, <2>4, <2>5, <2>6, LeadsTrans, TurnAdvances
  <1>5. CASE CreateSession
    <2> DEFINE c == CommitEvent(db, "session.created", "NEEDS_LOGIN")
               h == CommitEvent(c, "handoff.created", "HANDOFF_WAIT")
               e == AddCard(h)
    <2>1. Turn(e) \/ Turn(c)
      BY <1>5 DEF CreateSession
    <2>2. Leads(db, c) /\ Sound(c)
      BY <1>1, CommitPlain DEF Plain, Leads, Keeps
    <2> HIDE DEF c
    <2>3. Apart(c, h)
      BY <2>2, CommitKeeps DEF Sound
    <2>4. h.state = "HANDOFF_WAIT"
      BY <2>2, CommitKeeps DEF Sound
    <2> HIDE DEF h
    <2>5. Apart(h, e) /\ e.state = "HANDOFF_WAIT" /\ e.handoffId # 0
      BY <2>3, <2>4, AddKeeps DEF Apart
    <2> HIDE DEF e
    <2>6. Apart(c, e)
      BY <2>3, <2>5 DEF Apart, OpsKept, StoreKept
    <2>7. Leads(c, e)
      BY <2>2, <2>5, <2>6, ApartLeads
    <2> QED
      BY <2>1, <2>2, <2>7, LeadsTrans, TurnAdvances
  <1>6. CASE Revoke
    <2> DEFINE n == [k EXCEPT !.generation = @ + 1]
               e == CommitEvent(n, "session.revoked", "REVOKED")
    <2>1. Turn(CancelCard(e))
      BY <1>6 DEF Revoke
    <2> HIDE DEF k
    <2>2. /\ Shaped(n) /\ OpsKept(k, n) /\ n.snap = k.snap /\ n.key = k.key
          /\ n.generation = k.generation + 1 /\ n.state = k.state
          /\ n.handoffId = k.handoffId /\ n.verification = k.verification /\ n.fence = k.fence
      BY <1>1 DEF Shaped, OpsKept
    <2> HIDE DEF n
    <2>3. Sound(n)
      BY <1>1, <1>2, <1>3, <2>2 DEF Sound, OpsKept, Uncertain, Waits, Stored, Slotted
    <2>4. Leads(k, n)
      BY <2>2, <2>3 DEF Leads, Keeps, OpsKept, Settles, Verifies
    <2>5. Leads(n, e) /\ Sound(e) /\ e.state = "REVOKED"
      BY <2>3, CommitPlain, CommitKeeps DEF Plain, Leads, Keeps, Sound
    <2> HIDE DEF e
    <2>6. Leads(e, CancelCard(e))
      BY <2>5, CancelKeeps, ApartLeads DEF Sound
    <2> QED
      BY <1>1, <2>1, <2>4, <2>5, <2>6, LeadsTrans, TurnAdvances
  <1>7. CASE DeleteSession
    <2> DEFINE c == CommitEvent(k, "session.deleted", "DELETED")
               y == IF c.key = "present" THEN "erased" ELSE c.key
               e == [c EXCEPT !.snap = NoSnapshot, !.key = y]
    <2>1. Turn(e)
      BY <1>7 DEF DeleteSession
    <2> HIDE DEF k
    <2>2. Leads(k, c) /\ Sound(c) /\ Apart(k, c) /\ c.state = "DELETED"
      BY <1>1, CommitPlain, CommitKeeps DEF Plain, Leads, Keeps
    <2> HIDE DEF c
    <2>3. /\ Shaped(e) /\ OpsKept(c, e) /\ e.snap = NoSnapshot /\ e.key = y
          /\ e.generation = c.generation /\ e.state = "DELETED"
      BY <2>2 DEF Sound, Shaped, OpsKept
    <2>4. e.snap.generation <= e.generation
      BY <1>2, <2>2, <2>3 DEF NoSnapshot, Apart, StoreKept
    <2>5. Leads(c, e)
      BY <2>2, <2>3, <2>4 DEF Leads, Keeps, Sound, OpsKept, Uncertain, Waits, Stored, Slotted,
                              Settles, Verifies
    <2> QED
      BY <1>1, <2>1, <2>2, <2>5, LeadsTrans, TurnAdvances
  <1>8. CASE VaultRotate
    <2> DEFINE g == k.generation + 1
               st == [k EXCEPT !.snap.generation = g, !.generation = g]
               e == CommitEvent(st, "snapshot.committed", "DETACHED")
               f == CommitEvent(e, "key.rotated", "DETACHED")
    <2>1. Turn(f) /\ k.state = "DETACHED" /\ k.snap # NoSnapshot
      BY <1>8 DEF VaultRotate, Eligible
    <2> HIDE DEF k
    <2>2. k.key # "erased"
      BY <1>1, <2>1 DEF Sound, Stored
    <2>3. /\ Shaped(st) /\ OpsKept(k, st) /\ st.snap.generation = g /\ st.key = k.key
          /\ st.generation = g /\ st.state = k.state
      BY <1>1, <1>2 DEF Shaped, OpsKept, Snapshot
    <2>4. g <= g
      BY <1>2
    <2> HIDE DEF g, st
    <2>5. Leads(k, st) /\ Sound(st)
      BY <1>1, <2>1, <2>2, <2>3, <2>4 DEF Leads, Keeps, Sound, OpsKept, Uncertain, Waits, Stored,
                                           Slotted, Settles, Verifies
    <2>6. Leads(st, e) /\ Sound(e)
      BY <2>5, CommitPlain DEF Plain, Leads, Keeps
    <2> HIDE DEF e
    <2>7. Leads(e, f)
      BY <2>6, CommitPlain DEF Plain
    <2> HIDE DEF f
    <2> QED
      BY <1>1, <2>1, <2>5, <2>6, <2>7, LeadsTrans, TurnAdvances
  <1> QED
    BY <1>4, <1>5, <1>6, <1>7, <1>8

\* attach, the expiry of a lease on use, and renew.
LEMMA LeaseAdvances ==
    ASSUME Inv2, (\E t \in Slot : Attach(t)) \/ ExpireOnUse \/ Renew
    PROVE  Advanced
  <1> DEFINE k == Tick(db)
  <1>1. Sound(db) /\ Shaped(db) /\ Leads(db, k) /\ Sound(k) /\ Shaped(k)
    BY SoundDB
  <1>2. ASSUME NEW t \in Slot, Attach(t) PROVE Advanced
    <2> DEFINE leased == [k EXCEPT !.fence = @ + 1, !.verification = "attach",
                                   !.lease = [fence |-> k.fence + 1, due |-> FALSE]]
               d == CommitEvent(leased, "lease.acquired", "ATTACHING")
               i == [Idle EXCEPT !.kind = "attachOpen", !.fence = d.fence, !.policy = d.policy]
    <2>1. /\ k.state = "DETACHED" /\ task[t].kind = "idle"
          /\ \/ Become(t, d, i)
             \/ \E code : Turn(FailVerification(d, d.fence, code))
      BY <1>2 DEF Attach, Free
    <2> HIDE DEF k
    <2>2. Apart(k, leased) /\ leased.state = "DETACHED"
      BY <1>1, <2>1 DEF Shaped, Apart, OpsKept, StoreKept
    <2> HIDE DEF leased
    <2>3. Leads(k, leased) /\ Sound(leased)
      BY <1>1, <2>2, ApartLeads DEF Leads, Keeps
    <2>4. Leads(leased, d) /\ Sound(d)
      BY <2>3, CommitPlain DEF Plain, Leads, Keeps
    <2> HIDE DEF d
    <2>5. Leads(db, d)
      BY <1>1, <2>3, <2>4, LeadsTrans
    <2>6. ~Works(i)
      BY DEF Works, Idle
    <2>7. ASSUME NEW code PROVE Leads(d, FailVerification(d, d.fence, code))
      <3> DEFINE e == FailVerification(d, d.fence, code)
      <3>1. Apart(d, e) /\ (e = d \/ e.state \in {"QUARANTINED", "EXPIRED", "RECOVERABLE"})
        BY <2>4, FailKeeps DEF Sound
      <3> HIDE DEF e
      <3>2. Leads(d, e)
        BY <2>4, <3>1, ApartLeads, SelfLeads
      <3> QED
        BY <3>2 DEF e
    <2> HIDE DEF i
    <2> QED
      BY <2>1, <2>5, <2>6, <2>7, LeadsTrans, TurnAdvances, FreeAdvances
  <1>3. CASE ExpireOnUse
    BY <1>1, <1>3, CommitPlain, TurnAdvances DEF ExpireOnUse, Plain
  <1>4. CASE Renew
    <2> DEFINE e == [db EXCEPT !.lease.due = FALSE]
    <2>1. Kept(db, e) /\ Turn(CommitEvent(e, "lease.renewed", e.state))
      BY <1>1, <1>4 DEF Shaped, Kept, Apart, OpsKept, StoreKept, Renew
    <2> HIDE DEF e
    <2>2. Leads(db, e) /\ Sound(e)
      BY <1>1, <2>1, KeptLeads DEF Leads, Keeps
    <2>3. Leads(e, CommitEvent(e, "lease.renewed", e.state))
      BY <2>2, CommitStay DEF Closing
    <2> QED
      BY <2>1, <2>2, <2>3, LeadsTrans, TurnAdvances
  <1> QED
    BY <1>2, <1>3, <1>4

\* failVerification is such a turn, and it ends the verification of its fence.
LEMMA FailLeads ==
    ASSUME NEW d, Sound(d), NEW fence, NEW code, NEW e, e = FailVerification(d, fence, code)
    PROVE  /\ Leads(d, e)
           /\ e.state = "VERIFYING" => d.fence # fence
  <1>1. /\ Apart(d, e)
        /\ \/ e = d /\ (d.state \notin ContextStates \/ d.fence # fence)
           \/ e.state \in {"QUARANTINED", "EXPIRED", "RECOVERABLE"}
    BY FailKeeps DEF Sound
  <1>2. CASE e = d /\ (d.state \notin ContextStates \/ d.fence # fence)
    BY <1>2, SelfLeads DEF ContextStates
  <1>3. CASE e.state \in {"QUARANTINED", "EXPIRED", "RECOVERABLE"}
    BY <1>1, <1>3, ApartLeads
  <1> QED
    BY <1>1, <1>2, <1>3

\* commitBlockDetected is such a turn, and it ends a verification.
LEMMA BlockLeads ==
    ASSUME NEW d, Sound(d), NEW obs, NEW probe
    PROVE  /\ Leads(d, CommitBlockDetected(d, obs, probe))
           /\ CommitBlockDetected(d, obs, probe).state # "VERIFYING"
  <1> DEFINE e == CommitBlockDetected(d, obs, probe)
  <1>1. /\ Apart(d, e)
        /\ e.state \in {"COOLDOWN", "RECOVERABLE", "HANDOFF_WAIT", "NEEDS_LOGIN"}
        /\ e.state = "HANDOFF_WAIT" => e.handoffId # 0
    BY BlockKeeps DEF Sound
  <1> HIDE DEF e
  <1>2. Leads(d, e)
    BY <1>1, ApartLeads
  <1> QED
    BY <1>1, <1>2 DEF e

\* Entering or removing a context.
LEMMA ContextLeads ==
    ASSUME NEW d, Sound(d), NEW c
    PROVE  Leads(d, [d EXCEPT !.ctx = c]) /\ [d EXCEPT !.ctx = c].state = d.state
  <1> DEFINE e == [d EXCEPT !.ctx = c]
  <1>1. Kept(d, e)
    BY DEF Sound, Shaped, Kept, Apart, OpsKept, StoreKept
  <1> HIDE DEF e
  <1>2. Leads(d, e) /\ e.state = d.state
    BY <1>1, KeptLeads DEF Kept
  <1> QED
    BY <1>2 DEF e

\* The continuations of finishAttach, and the exceptions of any verification.
LEMMA AttachedAdvances ==
    ASSUME Inv2, NEW t \in Slot, ContextOpened(t) \/ VerificationThrows(t) \/ FinishAttach(t)
    PROVE  Advanced
  <1>1. Sound(db) /\ Shaped(db) /\ Leads(db, db) /\ task[t] \in Task
    BY SoundDB DEF Inv2, Inv, TypeOK
  <1>2. CASE ContextOpened(t)
    <2> DEFINE a == [task[t] EXCEPT !.kind = "attachProbe"]
               r == [task[t] EXCEPT !.kind = "recoverProbe"]
    <2>1. \/ task[t].kind = "attachOpen" /\ Become(t, [db EXCEPT !.ctx = "attach"], a)
          \/ task[t].kind = "recoverOpen" /\ Become(t, [db EXCEPT !.ctx = "recovery"], r)
      BY <1>2 DEF ContextOpened, Runs
    <2>2. /\ Leads(db, [db EXCEPT !.ctx = "attach"])
          /\ Leads(db, [db EXCEPT !.ctx = "recovery"])
      BY <1>1, ContextLeads
    <2>3. ~Works(a) /\ ~Works(r) /\ r.kind = "recoverProbe" /\ r.fence = task[t].fence
      BY <1>1 DEF Works, Task
    <2> HIDE DEF a, r
    <2> DEFINE e == [db EXCEPT !.ctx = "recovery"]
    <2>4. e.verification = db.verification /\ e.fence = db.fence
      BY <1>1 DEF Shaped
    <2> HIDE DEF e
    <2>5. task[t].kind = "recoverOpen" /\ Drives(task[t], db) => Drives(r, e)
      BY <2>3, <2>4 DEF Drives
    <2>6. CASE task[t].kind = "attachOpen" /\ Become(t, [db EXCEPT !.ctx = "attach"], a)
      BY <2>2, <2>3, <2>6, FreeAdvances
    <2>7. CASE task[t].kind = "recoverOpen" /\ Become(t, [db EXCEPT !.ctx = "recovery"], r)
      <3>1. Leads(db, e) /\ Become(t, e, r)
        BY <2>2, <2>7 DEF e
      <3> QED
        BY <2>3, <2>5, <2>7, <3>1, BecomeAdvances
    <2> QED
      BY <2>1, <2>6, <2>7
  <1>3. CASE VerificationThrows(t)
    <2> DEFINE e == FailVerification(db, task[t].fence, "INTERNAL")
    <2>1. Leads(db, e) /\ (e.state = "VERIFYING" => db.fence # task[t].fence)
      BY <1>1, FailLeads
    <2>2. End(t, e)
      BY <1>3 DEF VerificationThrows
    <2> HIDE DEF e
    <2> QED
      BY <2>1, <2>2, EndAdvances DEF Drives
  <1>4. CASE FinishAttach(t)
    <2> DEFINE Rv(o) == Review(db, o)
               reset(d) == [d EXCEPT !.budget.attempts = 0, !.budget.fallback = FALSE,
                                     !.budget.manual = FALSE]
               failed(d) == [d EXCEPT !.ctx = "none"]
               seen(o) == [o EXCEPT !.class = IF @ = "verified" THEN "review" ELSE @]
               verified(d) == [CommitEvent(d, "attach.verified", "ACTIVE") EXCEPT
                                 !.verification = "none"]
    <2>1. task[t].kind = "attachProbe" /\ ~Works(Idle)
      BY <1>4 DEF FinishAttach, Runs, Works, Idle
    <2>2. PICK obs \in Answers :
            \/ Become(t, db, Idle)
            \/ Become(t, verified(IF Rv(obs).budget.calm THEN reset(Rv(obs)) ELSE Rv(obs)), Idle)
            \/ Become(t, CommitBlockDetected(failed(Rv(obs)), seen(obs), FALSE), Idle)
      BY <1>4 DEF FinishAttach, End
    <2> DEFINE r == Rv(obs)
    <2>3. Leads(db, r) /\ Sound(r)
      BY <1>1, ReviewKeeps, KeptLeads DEF Leads, Keeps
    <2> HIDE DEF r
    <2>4. Leads(db, reset(r)) /\ Sound(reset(r))
      <3>1. Kept(r, reset(r))
        BY <2>3 DEF Sound, Shaped, Kept, Apart, OpsKept, StoreKept
      <3> HIDE DEF reset
      <3> QED
        BY <2>3, <3>1, KeptLeads, LeadsTrans DEF Leads, Keeps
    <2>5. ASSUME NEW x, Leads(db, x), Sound(x) PROVE Leads(db, verified(x))
      <3> DEFINE c == CommitEvent(x, "attach.verified", "ACTIVE")
                 e == [c EXCEPT !.verification = "none"]
      <3>1. Leads(x, c) /\ Sound(c) /\ c.state = "ACTIVE"
        BY <2>5, CommitPlain, CommitKeeps DEF Plain, Leads, Keeps, Sound
      <3> HIDE DEF c
      <3>2. Apart(c, e) /\ e.state = "ACTIVE"
        BY <3>1 DEF Sound, Shaped, Apart, OpsKept, StoreKept
      <3> HIDE DEF e
      <3>3. Leads(c, e)
        BY <3>1, <3>2, ApartLeads
      <3> QED
        BY <2>5, <3>1, <3>3, LeadsTrans DEF c, e
    <2>6. Leads(db, CommitBlockDetected(failed(r), seen(obs), FALSE))
      <3>1. Leads(r, failed(r)) /\ Sound(failed(r))
        BY <2>3, ContextLeads DEF Leads, Keeps
      <3> HIDE DEF failed, seen
      <3> QED
        BY <2>3, <3>1, BlockLeads, LeadsTrans
    <2> DEFINE x == IF r.budget.calm THEN reset(r) ELSE r
    <2>7. Leads(db, x) /\ Sound(x)
      BY <2>3, <2>4
    <2>8. \/ Become(t, db, Idle) \/ Become(t, verified(x), Idle)
          \/ Become(t, CommitBlockDetected(failed(r), seen(obs), FALSE), Idle)
      BY <2>2 DEF r
    <2> HIDE DEF x, reset, failed, seen, verified
    <2> QED
      BY <1>1, <2>1, <2>5, <2>6, <2>7, <2>8, FreeAdvances
  <1> QED
    BY <1>2, <1>3, <1>4

\* Storing a snapshot under the generation that was read, unless the key was erased.
LEMMA StoreLeads ==
    ASSUME NEW d, Sound(d), d.key # "erased", NEW k, k.gen \in Nat
    PROVE  /\ Leads(d, Store(WithKey(d), k))
           /\ Store(WithKey(d), k).state = d.state
           /\ Leads(d, WithKey(d)) /\ WithKey(d).state = d.state
  <1> DEFINE w == WithKey(d)
             e == Store(w, k)
  <1>1. /\ Shaped(w) /\ OpsKept(d, w) /\ w.snap = d.snap /\ w.key = "present"
        /\ w.generation = d.generation /\ w.state = d.state /\ w.handoffId = d.handoffId
        /\ w.verification = d.verification /\ w.fence = d.fence
    BY DEF Sound, Shaped, OpsKept, WithKey
  <1> HIDE DEF w
  <1>2. /\ Shaped(e) /\ OpsKept(w, e) /\ e.snap = [generation |-> k.gen, policy |-> k.policy]
        /\ e.key = "present" /\ e.generation = k.gen /\ e.state = w.state
        /\ e.handoffId = w.handoffId /\ e.verification = w.verification /\ e.fence = w.fence
    BY <1>1 DEF Shaped, OpsKept, Store
  <1> HIDE DEF e
  <1>3. e.snap.generation <= e.generation
    BY <1>2
  <1>4. Leads(d, w)
    BY <1>1 DEF Leads, Keeps, Sound, OpsKept, Uncertain, Waits, Stored, Slotted, Settles, Verifies
  <1>5. Leads(d, e)
    BY <1>1, <1>2, <1>3 DEF Leads, Keeps, Sound, OpsKept, Uncertain, Waits, Stored, Slotted,
                            Settles, Verifies
  <1> QED
    BY <1>1, <1>2, <1>4, <1>5 DEF w, e

\* The first half of a checkpoint.
LEMMA BeginCaptureAdvances ==
    ASSUME Inv2, NEW t \in Slot, NEW next, task[t].kind = "idle", BeginCapture(t, next)
    PROVE  Advanced
  <1> DEFINE i == [Idle EXCEPT !.kind = "capture", !.gen = db.generation + 1,
                               !.policy = db.policy, !.next = next]
  <1>1. Leads(db, CommitEvent(db, "snapshot.intent", db.state))
    BY SoundDB, CommitStay DEF Closing
  <1>2. ~Works(i)
    BY DEF Works, Idle
  <1> HIDE DEF i
  <1> QED
    BY <1>1, <1>2, FreeAdvances DEF BeginCapture, i

\* checkpoint and detach, and their continuations.
LEMMA RunnerAdvances ==
    ASSUME Inv2, NEW t \in Slot,
           Checkpoint(t) \/ FinishCheckpoint(t) \/ Detach(t) \/ FinishDetach(t)
    PROVE  Advanced
  <1>1. Sound(db) /\ Shaped(db) /\ task[t] \in Task
    BY SoundDB DEF Inv2, Inv, TypeOK
  <1>2. /\ Leads(db, CommitEvent(db, "session.detached", "DETACHED"))
        /\ Leads(db, CommitEvent(db, "snapshot.failed", db.state))
    BY <1>1, CommitPlain, CommitStay DEF Plain, Closing
  <1>3. CASE Checkpoint(t)
    BY <1>3, BeginCaptureAdvances DEF Checkpoint, Free
  <1>4. CASE FinishCheckpoint(t)
    <2> DEFINE s == Store(WithKey(db), task[t])
               i == [Idle EXCEPT !.kind = "detach"]
    <2>1. ~Works(i) /\ ~Works(Idle)
      BY DEF Works, Idle
    <2>2. task[t].kind = "capture"
      BY <1>4 DEF FinishCheckpoint, Runs
    <2>3. \E k \in {i, Idle} :
            \/ db.key # "erased" /\ Become(t, CommitEvent(s, "snapshot.committed", db.state), k)
            \/ Become(t, CommitEvent(db, "snapshot.failed", db.state), k)
      BY <1>4 DEF FinishCheckpoint
    <2>4. task[t].gen \in Nat
      BY <1>1 DEF Task
    <2>5. ASSUME db.key # "erased"
          PROVE  Leads(db, CommitEvent(s, "snapshot.committed", db.state))
      <3>1. Leads(db, s) /\ Sound(s) /\ s.state = db.state
        BY <1>1, <2>4, <2>5, StoreLeads DEF Leads, Keeps
      <3> HIDE DEF s
      <3>2. Leads(s, CommitEvent(s, "snapshot.committed", s.state))
        BY <3>1, CommitStay DEF Closing
      <3> QED
        BY <3>1, <3>2, LeadsTrans
    <2> HIDE DEF s, i
    <2> QED
      BY <1>2, <2>1, <2>2, <2>3, <2>5, FreeAdvances
  <1>5. CASE Detach(t)
    BY <1>2, <1>5, BeginCaptureAdvances, TurnAdvances DEF Detach, Free
  <1>6. CASE FinishDetach(t)
    BY <1>2, <1>6, FreeAdvances DEF FinishDetach, End, Runs, Works, Idle
  <1> QED
    BY <1>3, <1>4, <1>5, <1>6

\* One operation's row is written.
Wrote(d, e, o, result) == e.ops = [d.ops EXCEPT ![o] = result]

\* Writing the row of one operation from the continuation that works on it, or for
\* an operation that had no row.
LEMMA RowAdvances ==
    ASSUME Inv2, NEW t \in Slot, NEW o \in Op, NEW result, NEW k,
           Verifies(db, db'), Wrote(db, db', o, result),
           task' = [task EXCEPT ![t] = k], mode' = mode,
           \/ db.ops[o] = "none" /\ task[t].kind = "idle"
           \/ Works(task[t]) /\ task[t].op = o,
           Works(k) => k.op = o,
           k.kind = "step" => result = "PREPARED",
           k.kind = "dispatch" => result = "DISPATCHED"
    PROVE  Owned' /\ Driven' /\ Final
  <1>1. task \in [Slot -> Task] /\ db.ops \in [Op -> OpState]
    BY DEF Inv2, Inv, TypeOK, DB
  <1>2. task'[t] = k /\ \A u \in Slot \ {t} : task'[u] = task[u]
    BY <1>1
  <1>3. db'.ops[o] = result /\ \A p \in Op \ {o} : db'.ops[p] = db.ops[p]
    BY <1>1 DEF Wrote
  <1>4. ASSUME NEW u \in Slot \ {t}, Works(task[u]) PROVE task[u].op \in Op /\ task[u].op # o
    <2>1. task[u].op \in Op
      BY <1>4 DEF Inv2, Inv, TasksNamed, Named, Works
    <2>2. db.ops[task[u].op] \in {"PREPARED", "DISPATCHED", "UNKNOWN"}
      BY <1>4 DEF Inv2, Owned, Works
    <2>3. Works(task[t]) => task[u].op # task[t].op
      BY <1>4 DEF Inv2, Owned
    <2> QED
      BY <2>1, <2>2, <2>3
  <1>5. Owned'
    <2>1. ASSUME NEW u \in Slot, Works(task'[u])
          PROVE  /\ task'[u].kind = "step" => db'.ops[task'[u].op] = "PREPARED"
                 /\ task'[u].kind = "dispatch" =>
                        db'.ops[task'[u].op] \in {"DISPATCHED", "UNKNOWN"}
      <3>1. CASE u = t
        BY <1>2, <1>3, <2>1, <3>1
      <3>2. CASE u # t
        BY <1>2, <1>3, <1>4, <2>1, <3>2 DEF Inv2, Owned
      <3> QED
        BY <3>1, <3>2
    <2>2. ASSUME NEW u \in Slot, NEW v \in Slot, Works(task'[u]), Works(task'[v]),
                 task'[u].op = task'[v].op
          PROVE  u = v
      BY <1>2, <1>4, <2>2 DEF Inv2, Owned
    <2> QED
      BY <2>1, <2>2 DEF Owned, Works
  <1>6. Driven'
    <2> SUFFICES ASSUME db'.state = "VERIFYING", mode' # "down"
                 PROVE  \E u \in Slot : Drives(task'[u], db')
      BY DEF Driven
    <2>1. /\ db.state = "VERIFYING" /\ mode # "down"
          /\ db'.verification = db.verification /\ db'.fence = db.fence
      BY DEF Verifies
    <2>2. PICK u \in Slot : Drives(task[u], db)
      BY <2>1 DEF Inv2, Driven
    <2>3. u # t
      BY <2>2 DEF Drives, Works
    <2> QED
      BY <1>2, <2>1, <2>2, <2>3 DEF Drives
  <1>7. Final
    <2>1. db.ops[o] \notin {"SUCCEEDED", "BLOCKED", "DENIED"}
      BY DEF Inv2, Owned, Works
    <2> QED
      BY <1>3, <2>1 DEF Final
  <1> QED
    BY <1>5, <1>6, <1>7

\* Writing an operation's row and its slot.
Write(d, o, result, a, b) == [d EXCEPT !.ops[o] = result, !.activeOp = a, !.dispatched = b]

\* It is sound if the slot is not left to an operation that is not dispatched.
LEMMA WriteLeads ==
    ASSUME NEW d, Sound(d), NEW o \in Op, NEW result, NEW a, NEW b,
           \/ a = "none" \/ b = FALSE
           \/ a = o /\ result = "DISPATCHED"
    PROVE  /\ Sound(Write(d, o, result, a, b))
           /\ Wrote(d, Write(d, o, result, a, b), o, result)
           /\ Verifies(d, Write(d, o, result, a, b))
           /\ StoreKept(d, Write(d, o, result, a, b))
  <1> DEFINE e == Write(d, o, result, a, b)
  <1>1. /\ Shaped(e) /\ StoreKept(d, e) /\ e.state = d.state /\ e.handoffId = d.handoffId
        /\ e.verification = d.verification /\ e.fence = d.fence
        /\ e.ops = [d.ops EXCEPT ![o] = result] /\ e.unresolved = d.unresolved
        /\ e.activeOp = a /\ e.dispatched = b
    BY DEF Sound, Shaped, StoreKept, Write
  <1>2. DOMAIN d.ops = Op
    BY DEF Sound, Shaped
  <1> HIDE DEF e
  <1>3. Slotted(e)
    BY <1>1, <1>2 DEF Slotted
  <1>4. Sound(e) /\ Verifies(d, e) /\ StoreKept(d, e)
    BY <1>1, <1>3 DEF Sound, StoreKept, Uncertain, Waits, Stored, Verifies
  <1> QED
    BY <1>1, <1>4 DEF e, Wrote

\* step up to its first await.
LEMMA StepAdvances ==
    ASSUME Inv2, NEW t \in Slot, NEW o \in Op, Step(t, o)
    PROVE  Advanced
  <1> DEFINE n == CommitEvent(db, "action.denied", "ACTIVE")
             a == CommitEvent(db, "action.intent", "ACTIVE")
             e == [n EXCEPT !.ops[o] = "DENIED"]
             f == Write(a, o, "PREPARED", o, FALSE)
             i == [Idle EXCEPT !.kind = "step", !.op = o, !.fence = db.fence,
                               !.policy = db.policy]
  <1>1. Sound(db) /\ db.ops[o] = "none" /\ task[t].kind = "idle" /\ db.activeOp = "none"
    BY SoundDB DEF Step, NewOperation, Free
  <1>2. Turn(e) \/ Become(t, f, i)
    BY DEF Step, Write
  <1>3. /\ Leads(db, n) /\ Apart(db, n) /\ Sound(n) /\ n.state = "ACTIVE"
        /\ Leads(db, a) /\ Apart(db, a) /\ Sound(a) /\ a.state = "ACTIVE"
    BY <1>1, CommitPlain, CommitKeeps DEF Plain, Leads, Keeps, Sound
  <1>4. i.kind = "step" /\ i.op = o /\ task \in [Slot -> Task]
    BY DEF Idle, Inv2, Inv, TypeOK
  <1> HIDE DEF n, a, i
  <1>5. effects[o] = 0
    BY <1>1 DEF Inv2, Once, Wrote
  <1>6. CASE Turn(e)
    <2>1. e = Write(n, o, "DENIED", n.activeOp, n.dispatched)
      BY <1>3 DEF Apart, Shaped, Write
    <2>2. n.activeOp = "none"
      BY <1>1, <1>3 DEF Apart, OpsKept
    <2> HIDE DEF e
    <2>3. /\ Sound(e) /\ Wrote(n, e, o, "DENIED") /\ Verifies(n, e)
          /\ StoreKept(n, e)
      BY <1>3, <2>1, <2>2, WriteLeads
    <2>4. /\ db' = e /\ task' = [task EXCEPT ![t] = task[t]] /\ mode' = mode
          /\ effects' = effects
      BY <1>4, <1>6 DEF Turn
    <2>5. Wrote(db, db', o, "DENIED") /\ Verifies(db, db') /\ StoreKept(db, db')
      BY <1>3, <2>3, <2>4 DEF Apart, OpsKept, StoreKept, Leads, Keeps, Verifies, Wrote
    <2>6. Owned' /\ Driven' /\ Final
      BY <1>1, <2>4, <2>5, RowAdvances DEF Works
    <2>7. Once'
      BY <2>4, <2>5, <1>5 DEF Inv2, Once, Wrote
    <2> QED
      BY <2>3, <2>4, <2>5, <2>6, <2>7 DEF Advanced, Sound, Stored, StoreKept
  <1>7. CASE Become(t, f, i)
    <2>1. /\ Sound(f) /\ Wrote(a, f, o, "PREPARED") /\ Verifies(a, f)
          /\ StoreKept(a, f)
      BY <1>3, WriteLeads
    <2> HIDE DEF f
    <2>2. db' = f /\ task' = [task EXCEPT ![t] = i] /\ mode' = mode /\ effects' = effects
      BY <1>7 DEF Become
    <2>3. Wrote(db, db', o, "PREPARED") /\ Verifies(db, db') /\ StoreKept(db, db')
      BY <1>3, <2>1, <2>2 DEF Apart, OpsKept, StoreKept, Leads, Keeps, Verifies, Wrote
    <2>4. Owned' /\ Driven' /\ Final
      BY <1>1, <1>4, <2>2, <2>3, RowAdvances DEF Works
    <2>5. Once'
      BY <2>2, <2>3, <1>5 DEF Inv2, Once, Wrote
    <2> QED
      BY <2>1, <2>2, <2>3, <2>4, <2>5 DEF Advanced, Sound, Stored, StoreKept
  <1> QED
    BY <1>2, <1>6, <1>7

\* step's recheck before dispatch: the one place where an operation has its effect.
LEMMA DispatchAdvances ==
    ASSUME Inv2, NEW t \in Slot, StepDispatch(t)
    PROVE  Advanced
  <1> DEFINE o == task[t].op
             n == CommitEvent(db, "action.denied", db.state)
             e == Write(n, o, "DENIED", "none", FALSE)
             f == [db EXCEPT !.ops[o] = "DISPATCHED", !.dispatched = TRUE]
             i == [task[t] EXCEPT !.kind = "dispatch"]
  <1>1. Sound(db) /\ task \in [Slot -> Task] /\ task[t] \in Task /\ effects \in [Op -> Nat]
    BY SoundDB DEF Inv2, Inv, TypeOK
  <1>2. task[t].kind = "step" /\ o \in Op /\ Works(task[t])
    BY DEF StepDispatch, Runs, Inv2, Inv, TasksNamed, Named, Works
  <1>3. db.ops[o] = "PREPARED" /\ effects[o] = 0
    BY <1>2 DEF Inv2, Owned, Once
  <1>4. \/ Become(t, e, Idle)
        \/ /\ db.activeOp = o /\ db' = f /\ mode' = mode
           /\ \/ task' = [task EXCEPT ![t] = Idle] /\ effects' = effects
              \/ /\ task' = [task EXCEPT ![t].kind = "dispatch"]
                 /\ effects' = [effects EXCEPT ![o] = @ + 1]
    BY DEF StepDispatch, StillHeld, End, Write
  <1>5. i.kind = "dispatch" /\ i.op = o
    BY <1>1 DEF Task
  <1>6. [task EXCEPT ![t].kind = "dispatch"] = [task EXCEPT ![t] = i]
    OBVIOUS
  <1> HIDE DEF i, o
  <1>7. CASE Become(t, e, Idle)
    <2>1. Leads(db, n) /\ Apart(db, n) /\ Sound(n)
      <3>1. Leads(db, n)
        BY <1>1, CommitStay DEF Closing
      <3>2. Apart(db, n)
        BY <1>1, CommitKeeps DEF Sound
      <3> QED
        BY <3>1, <3>2 DEF Leads, Keeps
    <2> HIDE DEF n
    <2>2. /\ Sound(e) /\ Wrote(n, e, o, "DENIED") /\ Verifies(n, e)
          /\ StoreKept(n, e)
      BY <1>2, <2>1, WriteLeads
    <2> HIDE DEF e
    <2>3. db' = e /\ task' = [task EXCEPT ![t] = Idle] /\ mode' = mode /\ effects' = effects
      BY <1>7 DEF Become
    <2>4. Wrote(db, db', o, "DENIED") /\ Verifies(db, db') /\ StoreKept(db, db')
      BY <2>1, <2>2, <2>3 DEF Apart, OpsKept, StoreKept, Leads, Keeps, Verifies, Wrote
    <2>5. Idle.kind = "idle"
      BY DEF Idle
    <2>6. Owned' /\ Driven' /\ Final
      BY <1>2, <2>3, <2>4, <2>5, RowAdvances DEF Works, o
    <2>7. Once'
      BY <1>3, <2>3, <2>4 DEF Inv2, Once, Wrote
    <2> QED
      BY <2>2, <2>3, <2>4, <2>6, <2>7 DEF Advanced, Sound, Stored, StoreKept
  <1>8. ASSUME db.activeOp = o, db' = f, mode' = mode
        PROVE  /\ Sound(db') /\ Wrote(db, db', o, "DISPATCHED")
               /\ Verifies(db, db') /\ StoreKept(db, db')
    <2>1. f = Write(db, o, "DISPATCHED", o, TRUE)
      BY <1>1, <1>8 DEF Sound, Shaped, Write
    <2> HIDE DEF f
    <2> QED
      BY <1>1, <1>2, <1>8, <2>1, WriteLeads
  <1> HIDE DEF f
  <1>9. CASE /\ db.activeOp = o /\ db' = f /\ mode' = mode
             /\ task' = [task EXCEPT ![t] = Idle] /\ effects' = effects
    <2>1. Owned' /\ Driven' /\ Final
      BY <1>2, <1>8, <1>9, RowAdvances DEF Works, Idle, o
    <2>2. DOMAIN db.ops = Op
      BY <1>1 DEF Sound, Shaped
    <2>3. Once'
      BY <1>2, <1>3, <1>8, <1>9, <2>2 DEF Inv2, Once, Wrote
    <2> QED
      BY <1>8, <1>9, <2>1, <2>3 DEF Advanced, Sound, Stored, StoreKept
  <1>10. CASE /\ db.activeOp = o /\ db' = f /\ mode' = mode
              /\ task' = [task EXCEPT ![t] = i] /\ effects' = [effects EXCEPT ![o] = @ + 1]
    <2>1. Owned' /\ Driven' /\ Final
      BY <1>2, <1>5, <1>8, <1>10, RowAdvances DEF Works, o
    <2>2. DOMAIN db.ops = Op
      BY <1>1 DEF Sound, Shaped
    <2>3. Once'
      BY <1>1, <1>2, <1>3, <1>8, <1>10, <2>2 DEF Inv2, Once, Wrote
    <2> QED
      BY <1>8, <1>10, <2>1, <2>3 DEF Advanced, Sound, Stored, StoreKept
  <1> QED
    BY <1>4, <1>6, <1>7, <1>9, <1>10

\* The transaction after dispatch writes the result, whatever else it commits.
LEMMA FinishAdvances ==
    ASSUME Inv2, NEW t \in Slot, task[t].kind = "dispatch",
           NEW d, Sound(d), d.ops = db.ops, Verifies(db, d), StoreKept(db, d),
           NEW result \in {"DENIED", "UNKNOWN", "SUCCEEDED", "BLOCKED"},
           End(t, Finish(d, task[t].op, result))
    PROVE  Advanced
  <1> DEFINE o == task[t].op
             e == Write(d, o, result, "none", FALSE)
  <1>1. o \in Op /\ Works(task[t])
    BY DEF Inv2, Inv, TasksNamed, Named, Works
  <1>2. Finish(d, o, result) = e
    BY DEF Finish, Write
  <1> HIDE DEF o
  <1>3. Sound(e) /\ Wrote(d, e, o, result) /\ Verifies(d, e) /\ StoreKept(d, e)
    BY <1>1, WriteLeads
  <1> HIDE DEF e
  <1>4. db' = e /\ task' = [task EXCEPT ![t] = Idle] /\ mode' = mode /\ effects' = effects
    BY <1>2 DEF End, Become, o
  <1>5. Wrote(db, db', o, result) /\ Verifies(db, db') /\ StoreKept(db, db')
    BY <1>3, <1>4 DEF StoreKept, Verifies, Wrote
  <1>6. Idle.kind = "idle"
    BY DEF Idle
  <1>7. Owned' /\ Driven' /\ Final
    BY <1>1, <1>4, <1>5, <1>6, RowAdvances DEF Works, o
  <1>8. DOMAIN db.ops = Op
    BY SoundDB DEF Shaped
  <1>9. Once'
    BY <1>1, <1>4, <1>5, <1>8 DEF Inv2, Once, Wrote
  <1> QED
    BY <1>3, <1>4, <1>5, <1>7, <1>9 DEF Advanced, Sound, Stored, StoreKept

\* What FinishAdvances asks of the state the result is written to.
Ready(d) == Sound(d) /\ d.ops = db.ops /\ Verifies(db, d) /\ StoreKept(db, d)

\* A turn that leaves operations and snapshot alone gets there.
LEMMA ApartReady ==
    ASSUME NEW d, Leads(db, d), Apart(db, d)
    PROVE  Ready(d)
  BY DEF Leads, Keeps, Apart, OpsKept, Ready

\* The adapter's answer to step, its exception or the deadline.
LEMMA StepFinishAdvances ==
    ASSUME Inv2, NEW t \in Slot, StepFinish(t)
    PROVE  Advanced
  <1> DEFINE o == task[t].op
             denied == CommitEvent(db, "action.denied", "ACTIVE")
             lost == CommitEvent(db, "action.unknown", "UNCERTAIN")
             listed == [lost EXCEPT !.unresolved = @ \cup {o}]
             rv(obs) == Review(db, obs)
             done(obs) == CommitEvent(rv(obs), "action.finished", "ACTIVE")
             stay(obs) == CommitEvent(rv(obs), "action.finished", rv(obs).state)
             blocked(obs) == CommitBlockDetected(stay(obs), obs, FALSE)
  <1>1. Sound(db) /\ task[t].kind = "dispatch"
    BY SoundDB DEF StepFinish, Runs
  <1>2. \/ End(t, Finish(denied, o, "DENIED"))
        \/ End(t, Finish(listed, o, "UNKNOWN"))
        \/ \E obs : End(t, Finish(done(obs), o, "SUCCEEDED"))
        \/ \E obs : End(t, Finish(blocked(obs), o, "BLOCKED"))
    BY DEF StepFinish
  <1>3. Ready(denied)
    <2>1. Leads(db, denied) /\ Apart(db, denied)
      BY <1>1, CommitPlain, CommitKeeps DEF Plain, Sound
    <2> QED
      BY <2>1, ApartReady
  <1>4. Ready(listed)
    <2>1. Apart(db, lost) /\ lost.state = "UNCERTAIN"
      BY <1>1, CommitKeeps DEF Sound
    <2> HIDE DEF lost, o
    <2>2. /\ Shaped(listed) /\ StoreKept(lost, listed) /\ listed.state = "UNCERTAIN"
          /\ listed.ops = lost.ops /\ listed.activeOp = lost.activeOp
          /\ listed.dispatched = lost.dispatched /\ listed.unresolved = lost.unresolved \cup {o}
      BY <2>1 DEF Apart, Shaped, StoreKept
    <2> HIDE DEF listed
    <2>3. listed.unresolved # {}
      BY <2>2
    <2> QED
      BY <1>1, <2>1, <2>2, <2>3 DEF Ready, Sound, Apart, OpsKept, StoreKept, Uncertain, Waits,
                                    Stored, Slotted, Verifies
  <1>5. ASSUME NEW obs PROVE Ready(done(obs)) /\ Ready(blocked(obs))
    <2> DEFINE r == rv(obs)
               s == CommitEvent(r, "action.finished", r.state)
               d == CommitEvent(r, "action.finished", "ACTIVE")
               b == CommitBlockDetected(s, obs, FALSE)
    <2>1. Leads(db, r) /\ Apart(db, r) /\ Sound(r)
      BY <1>1, ReviewKeeps, KeptLeads DEF Kept, Leads, Keeps, Sound
    <2> HIDE DEF r
    <2>2. Leads(r, d)
      BY <2>1, CommitPlain DEF Plain
    <2>3. Leads(r, s)
      BY <2>1, CommitStay DEF Closing
    <2>4. Apart(r, d) /\ Apart(r, s)
      BY <2>1, CommitKeeps DEF Sound
    <2> HIDE DEF s, d
    <2>5. Leads(s, b)
      BY <2>3, BlockLeads DEF Leads, Keeps
    <2>6. Apart(s, b)
      BY <2>4, BlockKeeps DEF Apart
    <2> HIDE DEF b
    <2>7. Apart(db, d) /\ Apart(db, b)
      BY <2>1, <2>4, <2>6 DEF Apart, OpsKept, StoreKept
    <2>8. Ready(d) /\ Ready(b)
      BY <2>1, <2>2, <2>3, <2>5, <2>7, LeadsTrans, ApartReady
    <2> QED
      BY <2>8 DEF d, b, s, r
  <1> HIDE DEF denied, listed, done, blocked
  <1> QED
    BY <1>1, <1>2, <1>3, <1>4, <1>5, FinishAdvances DEF Ready

\* A continuation that starts a verification in a free slot drives it.
LEMMA StartAdvances ==
    ASSUME Inv2, NEW t \in Slot, NEW e, Keeps(db, e), NEW k, ~Works(k), Drives(k, e),
           db' = e, task' = [task EXCEPT ![t] = k], effects' = effects
    PROVE  Advanced
  <1>1. task \in [Slot -> Task]
    BY DEF Inv2, Inv, TypeOK
  <1>2. task'[t] = k /\ \A u \in Slot \ {t} : task'[u] = task[u]
    BY <1>1
  <1>3. Driven'
    BY <1>2 DEF Driven
  <1>4. \A u \in Slot :
          Works(task'[u]) => task'[u].kind = task[u].kind /\ task'[u].op = task[u].op
    BY <1>2
  <1> QED
    BY <1>3, <1>4, SettledOK DEF Advanced

\* recover(acknowledge_unknown) and recover(reauth).
LEMMA RecoverAdvances ==
    ASSUME Inv2, RecoverAcknowledge \/ RecoverReauth
    PROVE  Advanced
  <1> DEFINE k == Tick(db)
  <1>1. Leads(db, k) /\ Sound(k) /\ Shaped(k)
    BY SoundDB
  <1>2. CASE RecoverAcknowledge
    <2> DEFINE n == [k EXCEPT !.unresolved = {}]
               to == IF Eligible(k) THEN "DETACHED" ELSE "NEEDS_LOGIN"
               e == CommitEvent(n, "unknown.acknowledged", to)
    <2>1. Turn(e)
      BY <1>2 DEF RecoverAcknowledge
    <2>2. to \in {"DETACHED", "NEEDS_LOGIN"}
      OBVIOUS
    <2> HIDE DEF k, to
    <2>3. /\ Shaped(n) /\ StoreKept(k, n) /\ n.ops = k.ops /\ n.activeOp = k.activeOp
          /\ n.dispatched = k.dispatched
      BY <1>1 DEF Shaped, StoreKept
    <2> HIDE DEF n
    <2>4. Apart(n, e) /\ e.state = to
      BY <2>3, CommitKeeps
    <2> HIDE DEF e
    <2>5. Leads(k, e)
      BY <1>1, <2>2, <2>3, <2>4 DEF Leads, Keeps, Sound, Apart, OpsKept, StoreKept, Uncertain,
                                    Waits, Stored, Slotted, Settles, Verifies
    <2> QED
      BY <1>1, <2>1, <2>5, LeadsTrans, TurnAdvances
  <1>3. CASE RecoverReauth
    <2> DEFINE h == CommitEvent(k, "handoff.created", "HANDOFF_WAIT")
               e == AddCard(h)
    <2>1. Turn(e)
      BY <1>3 DEF RecoverReauth
    <2> HIDE DEF k
    <2>2. Apart(k, h) /\ h.state = "HANDOFF_WAIT"
      BY <1>1, CommitKeeps
    <2> HIDE DEF h
    <2>3. Apart(h, e) /\ e.state = "HANDOFF_WAIT" /\ e.handoffId # 0
      BY <2>2, AddKeeps DEF Apart
    <2> HIDE DEF e
    <2>4. Apart(k, e)
      BY <2>2, <2>3 DEF Apart, OpsKept, StoreKept
    <2>5. Leads(k, e)
      BY <1>1, <2>3, <2>4, ApartLeads
    <2> QED
      BY <1>1, <2>1, <2>5, LeadsTrans, TurnAdvances
  <1> QED
    BY <1>2, <1>3

\* recover(retry | fallback): the verification it starts has a driver, or is over.
LEMMA RecoverProbeAdvances ==
    ASSUME Inv2, NEW t \in Slot, NEW intent, RecoverProbe(t, intent)
    PROVE  Advanced
  <1> DEFINE k == Tick(db)
             r == IF k.state = "COOLDOWN" /\ k.block.retry # "pending"
                  THEN CommitEvent(k, "cooldown.elapsed", "RECOVERABLE") ELSE k
             spent == [r EXCEPT !.budget.probes = @ + 1, !.verification = "recovery",
                                !.budget.fallback = @ \/ intent = "fallback",
                                !.block.fallback = @ \/ intent = "fallback"]
             d == CommitEvent(spent, "recovery.started", "VERIFYING")
             i == [Idle EXCEPT !.kind = "recoverOpen", !.fence = d.fence]
  <1>1. /\ r.state = "RECOVERABLE" /\ task[t].kind = "idle"
        /\ \/ Become(t, d, i)
           \/ \E code : Turn(FailVerification(d, d.fence, code))
    BY DEF RecoverProbe, Free
  <1>2. Leads(db, k) /\ Sound(k)
    BY SoundDB
  <1> HIDE DEF k
  <1>3. Leads(k, r) /\ Sound(r)
    BY <1>2, CommitPlain, SelfLeads DEF Plain, Leads, Keeps
  <1> HIDE DEF r
  <1>4. Apart(r, spent) /\ spent.verification = "recovery"
    BY <1>3 DEF Sound, Shaped, Apart, OpsKept, StoreKept
  <1> HIDE DEF spent
  <1>5. Apart(spent, d) /\ d.state = "VERIFYING" /\ d.verification = "recovery"
    BY <1>4, CommitKeeps DEF Apart
  <1>6. ~Works(i) /\ i.kind = "recoverOpen" /\ i.fence = d.fence
    BY DEF Works, Idle
  <1> HIDE DEF d, i
  <1>7. Keeps(r, d)
    BY <1>3, <1>4, <1>5 DEF Keeps, Sound, Apart, OpsKept, StoreKept, Uncertain, Waits, Stored,
                            Slotted, Settles
  <1>8. Keeps(db, d) /\ Sound(d)
    BY <1>2, <1>3, <1>7, KeepsTrans DEF Leads, Keeps
  <1>9. ASSUME NEW code PROVE Leads(db, FailVerification(d, d.fence, code))
    <2> DEFINE e == FailVerification(d, d.fence, code)
    <2>1. Leads(d, e) /\ e.state # "VERIFYING"
      BY <1>8, FailLeads
    <2> HIDE DEF e
    <2>2. Leads(db, e)
      BY <1>8, <2>1, KeepsTrans DEF Leads, Verifies
    <2> QED
      BY <2>2 DEF e
  <1>10. Drives(i, d)
    BY <1>5, <1>6 DEF Drives
  <1> QED
    BY <1>1, <1>6, <1>8, <1>9, <1>10, StartAdvances, TurnAdvances DEF Become

\* A verified probe goes on to capture, under the fence of its verification.
LEMMA BeginVerifyAdvances ==
    ASSUME Inv2, NEW t \in Slot, NEW final, db.state = "VERIFYING", BeginVerifyCapture(t, final)
    PROVE  Advanced
  <1> DEFINE e == CommitEvent(db, "snapshot.intent", "VERIFYING")
             i == [Idle EXCEPT !.kind = "verify", !.fence = task[t].fence, !.next = final,
                               !.gen = db.generation + 1, !.policy = db.policy]
  <1>1. Leads(db, e)
    BY SoundDB, CommitStay DEF Closing
  <1>2. e.verification = db.verification /\ e.fence = db.fence
    BY SoundDB, CommitKeeps
  <1>3. ~Works(i) /\ i.kind = "verify" /\ i.fence = task[t].fence
    BY DEF Works, Idle
  <1>4. Become(t, e, i)
    BY DEF BeginVerifyCapture
  <1> HIDE DEF e, i
  <1> QED
    BY <1>1, <1>2, <1>3, <1>4, BecomeAdvances DEF Drives

\* The rest of finishRecovery: a probe that comes too late leaves the verification
\* to its driver.
LEMMA FinishRecoveryAdvances ==
    ASSUME Inv2, NEW t \in Slot, FinishRecovery(t)
    PROVE  Advanced
  <1> DEFINE current == db.state = "VERIFYING" /\ db.fence = task[t].fence
             rv(obs) == Review(db, obs)
             blocked(obs) == CommitBlockDetected(rv(obs), obs, TRUE)
             gone(d) == [d EXCEPT !.ctx = "none"]
  <1>1. Sound(db) /\ Leads(db, db) /\ task[t].kind = "recoverProbe"
    BY SoundDB DEF FinishRecovery, Runs
  <1>2. \/ current /\ BeginVerifyCapture(t, "attach.verified")
        \/ ~(current /\ db.verification = "recovery") /\ End(t, db)
        \/ current /\ \E obs : End(t, gone(blocked(obs)))
        \/ ~current /\ End(t, gone(db))
    BY DEF FinishRecovery
  <1>3. ASSUME NEW obs PROVE Leads(db, gone(blocked(obs))) /\ gone(blocked(obs)).state # "VERIFYING"
    <2> DEFINE r == rv(obs)
               b == CommitBlockDetected(r, obs, TRUE)
    <2>1. Leads(db, r) /\ Sound(r)
      BY <1>1, ReviewKeeps, KeptLeads DEF Leads, Keeps, Sound
    <2> HIDE DEF r
    <2>2. Leads(r, b) /\ Sound(b) /\ b.state # "VERIFYING"
      BY <2>1, BlockLeads DEF Leads, Keeps
    <2> HIDE DEF b
    <2>3. Leads(b, gone(b)) /\ gone(b).state # "VERIFYING"
      BY <2>2, ContextLeads
    <2> HIDE DEF gone
    <2>4. Leads(db, gone(b)) /\ gone(b).state # "VERIFYING"
      BY <2>1, <2>2, <2>3, LeadsTrans
    <2> QED
      BY <2>4 DEF r, b
  <1>4. Leads(db, gone(db)) /\ gone(db).state = db.state
    BY <1>1, ContextLeads
  <1>5. ~(current /\ db.verification = "recovery") =>
            (db.state = "VERIFYING" => ~Drives(task[t], db))
    BY <1>1 DEF Drives
  <1>6. current => db.state = "VERIFYING"
    OBVIOUS
  <1> HIDE DEF gone, blocked, current
  <1> QED
    BY <1>1, <1>2, <1>3, <1>4, <1>5, <1>6, EndAdvances, BeginVerifyAdvances

\* verifyCapture after capture: it ends the verification, or it is of another fence.
LEMMA VerifyCapturedAdvances ==
    ASSUME Inv2, NEW t \in Slot, VerifyCaptured(t)
    PROVE  Advanced
  <1> DEFINE k == task[t]
             d == WithKey(db)
             s == Store(d, k)
             stored == CommitEvent(s, "snapshot.committed", "VERIFYING")
             c == CommitEvent(stored, k.next, "DETACHED")
             final == [c EXCEPT !.block = NoBlock, !.budget.attempts = 0,
                                !.budget.fallback = FALSE]
  <1>1. Sound(db) /\ db.key # "erased"
    BY SoundDB DEF VerifyCaptured
  <1>2. \/ (db.state # "VERIFYING" \/ db.fence # k.fence) /\ End(t, d)
        \/ /\ db.state = "VERIFYING"
           /\ End(t, SaveCard(final, db.handoffId, "COMPLETED")) \/ End(t, final)
    BY DEF VerifyCaptured
  <1>3. k.gen \in Nat
    BY DEF Inv2, Inv, TypeOK, Task
  <1>4. Leads(db, d) /\ d.state = db.state /\ Leads(db, s) /\ Sound(s) /\ s.state = db.state
    BY <1>1, <1>3, StoreLeads DEF Leads, Keeps
  <1> HIDE DEF d, s
  <1>5. CASE (db.state # "VERIFYING" \/ db.fence # k.fence) /\ End(t, d)
    BY <1>4, <1>5, EndAdvances DEF Drives
  <1>6. CASE /\ db.state = "VERIFYING"
             /\ End(t, SaveCard(final, db.handoffId, "COMPLETED")) \/ End(t, final)
    <2>1. Leads(s, stored) /\ Sound(stored)
      BY <1>4, <1>6, CommitStay DEF Closing, Leads, Keeps
    <2> HIDE DEF stored
    <2>2. Leads(stored, c) /\ Sound(c)
      BY <2>1, CommitPlain DEF Plain, Leads, Keeps
    <2>3. c.state = "DETACHED"
      BY <2>1, CommitKeeps DEF Sound
    <2> HIDE DEF c
    <2>4. Kept(c, final)
      BY <2>2 DEF Sound, Shaped, Kept, Apart, OpsKept, StoreKept
    <2> HIDE DEF final
    <2>5. Leads(c, final) /\ Sound(final) /\ final.state = "DETACHED"
      BY <2>2, <2>3, <2>4, KeptLeads DEF Leads, Keeps, Kept
    <2> DEFINE f == SaveCard(final, db.handoffId, "COMPLETED")
    <2>6. Kept(final, f)
      BY <2>5, SaveKeeps DEF Sound
    <2> HIDE DEF f
    <2>7. Leads(final, f) /\ f.state = "DETACHED"
      BY <2>5, <2>6, KeptLeads DEF Kept
    <2>8. Leads(db, final) /\ Leads(db, f)
      BY <1>4, <2>1, <2>2, <2>5, <2>7, LeadsTrans
    <2>9. End(t, f) \/ End(t, final)
      BY <1>6 DEF f
    <2> QED
      BY <2>5, <2>7, <2>8, <2>9, EndAdvances
  <1> QED
    BY <1>2, <1>5, <1>6

\* An exception of verifyCapture ends whatever verification is under way.
LEMMA VerifyThrowsAdvances ==
    ASSUME Inv2, NEW t \in Slot, VerifyCaptureThrows(t)
    PROVE  Advanced
  <1> DEFINE failed == CommitEvent(db, "snapshot.failed", "VERIFYING")
             n == [failed EXCEPT !.cards[db.handoffId].state = "EXPIRED"]
             x == CommitEvent(n, "handoff.expired", "NEEDS_LOGIN")
             r == CommitEvent(failed, "recovery.exhausted", "RECOVERABLE")
  <1>1. Sound(db) /\ Leads(db, db)
    BY SoundDB
  <1>2. \/ db.state # "VERIFYING" /\ End(t, db)
        \/ db.state = "VERIFYING" /\ (End(t, x) \/ End(t, r))
    BY DEF VerifyCaptureThrows
  <1>3. CASE db.state # "VERIFYING" /\ End(t, db)
    BY <1>1, <1>3, EndAdvances
  <1>4. CASE db.state = "VERIFYING" /\ (End(t, x) \/ End(t, r))
    <2>1. Leads(db, failed) /\ Sound(failed)
      <3>1. failed = CommitEvent(db, "snapshot.failed", db.state)
        BY <1>4
      <3> HIDE DEF failed
      <3> QED
        BY <1>1, <3>1, CommitStay DEF Closing, Leads, Keeps
    <2> HIDE DEF failed
    <2>2. Kept(failed, n)
      BY <2>1 DEF Sound, Shaped, Kept, Apart, OpsKept, StoreKept
    <2> HIDE DEF n
    <2>3. Leads(failed, n) /\ Sound(n)
      BY <2>1, <2>2, KeptLeads DEF Leads, Keeps
    <2>4. Leads(n, x) /\ Leads(failed, r)
      BY <2>1, <2>3, CommitPlain DEF Plain
    <2>5. x.state = "NEEDS_LOGIN" /\ r.state = "RECOVERABLE"
      BY <2>1, <2>3, CommitKeeps DEF Sound
    <2> HIDE DEF x, r
    <2> QED
      BY <1>4, <2>1, <2>3, <2>4, <2>5, LeadsTrans, EndAdvances
  <1> QED
    BY <1>2, <1>3, <1>4

\* resolveHandoff(cancel).
LEMMA CancelAdvances ==
    ASSUME Inv2, NEW c, CancelHandoff(c)
    PROVE  Advanced
  <1> DEFINE k == Tick(db)
             e == CommitEvent(k, "handoff.cancelled", "NEEDS_LOGIN")
  <1>1. Leads(db, k) /\ Sound(k) /\ Turn(SaveCard(e, c, "CANCELLED"))
    BY SoundDB DEF CancelHandoff
  <1> HIDE DEF k
  <1>2. Leads(k, e) /\ Sound(e)
    BY <1>1, CommitPlain DEF Plain, Leads, Keeps
  <1> HIDE DEF e
  <1>3. Leads(e, SaveCard(e, c, "CANCELLED"))
    BY <1>2, SaveKeeps, KeptLeads DEF Sound
  <1> QED
    BY <1>1, <1>2, <1>3, LeadsTrans, TurnAdvances

\* openHandoff: the card that is opened is the session's.
LEMMA OpenAdvances ==
    ASSUME Inv2, NEW t \in Slot, NEW c \in 1..db.nCards, OpenHandoff(t, c)
    PROVE  Advanced
  <1> DEFINE k == Tick(db)
             o == CommitEvent(k, "handoff.opened", "HANDOFF_WAIT")
             s == SaveCard(o, c, "OPEN")
             e == [s EXCEPT !.handoffId = c]
             i == [Idle EXCEPT !.kind = "human"]
  <1>1. /\ Leads(db, k) /\ Sound(k) /\ k.state = "HANDOFF_WAIT" /\ task[t].kind = "idle"
        /\ db' = e /\ task' = [task EXCEPT ![t] = i] /\ mode' = mode /\ effects' = effects
    BY SoundDB DEF OpenHandoff, Free, Presentable
  <1>2. c # 0
    BY DEF Inv2, Inv, TypeOK, DB
  <1> HIDE DEF k
  <1>3. Leads(k, o) /\ Sound(o) /\ o.state = "HANDOFF_WAIT"
    <2>1. o = CommitEvent(k, "handoff.opened", k.state)
      BY <1>1
    <2> HIDE DEF o
    <2> QED
      BY <1>1, <2>1, CommitStay DEF Closing, Leads, Keeps
  <1> HIDE DEF o
  <1>4. Kept(o, s)
    BY <1>3, SaveKeeps DEF Sound
  <1> HIDE DEF s
  <1>5. Leads(o, s) /\ Sound(s) /\ s.state = "HANDOFF_WAIT"
    BY <1>3, <1>4, KeptLeads DEF Leads, Keeps, Kept
  <1>6. Apart(s, e) /\ e.state = "HANDOFF_WAIT" /\ e.handoffId = c
    BY <1>5 DEF Sound, Shaped, Apart, OpsKept, StoreKept
  <1> HIDE DEF e
  <1>7. Leads(s, e)
    BY <1>2, <1>5, <1>6, ApartLeads
  <1>8. Leads(db, e)
    BY <1>1, <1>3, <1>5, <1>7, LeadsTrans
  <1>9. ~Works(i)
    BY DEF Works, Idle
  <1> HIDE DEF i
  <1> QED
    BY <1>1, <1>6, <1>8, <1>9, SlotAdvances

\* openHumanContext ends: those that await it go on, as what they are.
LEMMA HumanAdvances ==
    ASSUME Inv2, NEW t \in Slot, HumanOpened(t)
    PROVE  Advanced
  <1>1. /\ task \in [Slot -> Task] /\ task[t].kind = "human" /\ effects' = effects
        /\ mode' = mode
    BY DEF HumanOpened, Runs, Inv2, Inv, TypeOK
  <1>2. PICK x : db' = [db EXCEPT !.ctx = x]
    BY DEF HumanOpened
  <1>3. Leads(db, db')
    BY <1>2, SoundDB, ContextLeads
  <1>4. \A u \in Slot : u # t => /\ task'[u].kind = task[u].kind /\ task'[u].op = task[u].op
                                 /\ task'[u].fence = task[u].fence
    BY <1>1 DEF HumanOpened, Task
  <1>5. task'[t] = Idle
    BY DEF HumanOpened
  <1>6. \A u \in Slot :
          Works(task'[u]) => task'[u].kind = task[u].kind /\ task'[u].op = task[u].op
    BY <1>4, <1>5 DEF Works, Idle
  <1>7. Driven'
    <2> SUFFICES ASSUME db'.state = "VERIFYING", mode' # "down"
                 PROVE  \E u \in Slot : Drives(task'[u], db')
      BY DEF Driven
    <2>1. /\ db.state = "VERIFYING" /\ mode # "down"
          /\ db'.verification = db.verification /\ db'.fence = db.fence
      BY <1>1, <1>3 DEF Leads, Verifies
    <2>2. PICK u \in Slot : Drives(task[u], db)
      BY <2>1 DEF Inv2, Driven
    <2>3. u # t
      BY <1>1, <2>2 DEF Drives
    <2> QED
      BY <1>4, <2>1, <2>2, <2>3 DEF Drives
  <1>8. Keeps(db, db')
    BY <1>3 DEF Leads
  <1> QED
    BY <1>1, <1>6, <1>7, <1>8, SettledOK DEF Advanced

\* finishHandoffVerify once the open has ended: with a context there is a probe,
\* without one the verification of its fence is over.
LEMMA BeginLeads ==
    ASSUME NEW d, Sound(d), NEW k \in Task, k.kind = "handoffWait"
    PROVE  /\ Leads(d, AfterBegin(d, k))
           /\ ~Works(BeginProbe(d, k))
           /\ AfterBegin(d, k).state = "VERIFYING" /\ Drives(k, d) =>
                  Drives(BeginProbe(d, k), AfterBegin(d, k))
  <1> DEFINE f == FailVerification(d, k.fence, "INTERNAL")
             p == [k EXCEPT !.kind = "handoffProbe", !.policy = d.policy]
  <1>1. Leads(d, f) /\ (f.state = "VERIFYING" => d.fence # k.fence)
    BY FailLeads
  <1>2. p.kind = "handoffProbe" /\ p.fence = k.fence
    BY DEF Task
  <1>3. AfterBegin(d, k) = (IF d.ctx = "none" THEN f ELSE d)
    BY DEF AfterBegin
  <1>4. BeginProbe(d, k) = (IF d.ctx = "none" THEN Idle ELSE p)
    BY DEF BeginProbe
  <1> HIDE DEF f, p
  <1>5. Idle.kind = "idle"
    BY DEF Idle
  <1>6. Leads(d, d)
    BY SelfLeads
  <1> QED
    BY <1>1, <1>2, <1>3, <1>4, <1>5, <1>6 DEF Drives, Works

\* resolveHandoff(ready): the verification it starts has a driver, or is over.
LEMMA ReadyAdvances ==
    ASSUME Inv2, NEW t \in Slot, NEW c \in 1..db.nCards, ReadyHandoff(t, c)
    PROVE  Advanced
  <1> DEFINE k == Tick(db)
             n == [k EXCEPT !.verification = "handoff"]
             v == CommitEvent(n, "handoff.verifying", "VERIFYING")
             s == SaveCard(v, c, "VERIFYING")
             d == [s EXCEPT !.cards[c].attempts = @ + 1]
             new == [Idle EXCEPT !.kind = "handoffWait", !.fence = k.fence, !.card = c,
                                 !.waits = IF openTask \in Slot THEN openTask ELSE "none"]
  <1>1. /\ Leads(db, k) /\ Sound(k) /\ k.state = "HANDOFF_WAIT"
        /\ mode' = mode /\ effects' = effects
        /\ \/ db' = AfterBegin(d, new) /\ task' = [task EXCEPT ![t] = BeginProbe(d, new)]
           \/ db' = d /\ task' = [task EXCEPT ![t] = new]
    BY SoundDB DEF ReadyHandoff, Presentable
  <1>2. new \in Task /\ new.kind = "handoffWait" /\ new.fence = k.fence
    <2>1. k.fence \in Nat
      BY InvGood, TickOK DEF Inv2, Reaches, Good, DB
    <2>2. c \in 0..MaxCards
      BY Reads, MaxCardsAssumption DEF Inv2
    <2> HIDE DEF k
    <2>3. new \in Task
      BY <2>1, <2>2, IdleTask DEF Task, TaskKind
    <2> QED
      BY <2>3 DEF Idle
  <1> HIDE DEF k, new
  <1>3. /\ Apart(k, n) /\ n.verification = "handoff" /\ n.fence = k.fence
        /\ n.handoffId = k.handoffId
    BY <1>1 DEF Sound, Shaped, Apart, OpsKept, StoreKept
  <1> HIDE DEF n
  <1>4. /\ Apart(n, v) /\ v.state = "VERIFYING" /\ v.verification = "handoff"
        /\ v.fence = k.fence /\ v.handoffId = k.handoffId
    BY <1>3, CommitKeeps DEF Apart, Closing
  <1> HIDE DEF v
  <1>5. Kept(v, s)
    BY <1>4, SaveKeeps DEF Apart
  <1> HIDE DEF s
  <1>6. Kept(s, d)
    BY <1>5 DEF Kept, Shaped, Apart, OpsKept, StoreKept
  <1> HIDE DEF d
  <1>7. /\ Apart(k, d) /\ d.state = "VERIFYING" /\ d.verification = "handoff"
        /\ d.fence = k.fence /\ d.handoffId # 0
    BY <1>1, <1>3, <1>4, <1>5, <1>6 DEF Kept, Apart, OpsKept, StoreKept, Sound, Waits
  <1>8. Keeps(k, d)
    BY <1>1, <1>7 DEF Keeps, Sound, Apart, OpsKept, StoreKept, Uncertain, Waits, Stored,
                      Slotted, Settles
  <1>9. Keeps(db, d) /\ Sound(d)
    BY <1>1, <1>8, KeepsTrans DEF Leads, Keeps
  <1>10. Drives(new, d)
    BY <1>2, <1>7 DEF Drives
  <1>11. ~Works(new)
    BY <1>2 DEF Works
  <1> DEFINE e == AfterBegin(d, new)
             p == BeginProbe(d, new)
  <1>12. /\ Leads(d, e) /\ ~Works(p) /\ (e.state = "VERIFYING" => Drives(p, e))
    BY <1>2, <1>9, <1>10, BeginLeads
  <1>13. \/ db' = e /\ task' = [task EXCEPT ![t] = p]
         \/ db' = d /\ task' = [task EXCEPT ![t] = new]
    BY <1>1
  <1>14. task[t].kind = "idle"
    BY DEF ReadyHandoff, Free
  <1> HIDE DEF e, p
  <1>15. Keeps(db, e)
    BY <1>9, <1>12, KeepsTrans DEF Leads
  <1>16. CASE db' = d /\ task' = [task EXCEPT ![t] = new]
    BY <1>1, <1>9, <1>10, <1>11, <1>16, StartAdvances
  <1>17. CASE db' = e /\ task' = [task EXCEPT ![t] = p] /\ e.state = "VERIFYING"
    BY <1>1, <1>12, <1>15, <1>17, StartAdvances
  <1>18. CASE db' = e /\ task' = [task EXCEPT ![t] = p] /\ e.state # "VERIFYING"
    <2>1. Leads(db, e)
      BY <1>15, <1>18 DEF Leads, Verifies
    <2> QED
      BY <1>1, <1>12, <1>18, <2>1, SlotAdvances
  <1> QED
    BY <1>13, <1>16, <1>17, <1>18

\* finishHandoffVerify goes on after the open it awaited.
LEMMA AwaitedAdvances ==
    ASSUME Inv2, NEW t \in Slot, AwaitedOpen(t)
    PROVE  Advanced
  <1> DEFINE e == AfterBegin(db, task[t])
             p == BeginProbe(db, task[t])
  <1>1. task[t] \in Task /\ task[t].kind = "handoffWait" /\ Become(t, e, p)
    BY DEF AwaitedOpen, Runs, Inv2, Inv, TypeOK
  <1>2. /\ Leads(db, e) /\ ~Works(p)
        /\ e.state = "VERIFYING" /\ Drives(task[t], db) => Drives(p, e)
    BY <1>1, SoundDB, BeginLeads
  <1> HIDE DEF e, p
  <1> QED
    BY <1>1, <1>2, BecomeAdvances

\* The rest of finishHandoffVerify.
LEMMA HandoffVerifyAdvances ==
    ASSUME Inv2, NEW t \in Slot, FinishHandoffVerify(t)
    PROVE  Advanced
  <1> DEFINE current == db.state = "VERIFYING" /\ db.verification = "handoff"
             k == task[t]
             w == CommitEvent(db, "block.detected", "HANDOFF_WAIT")
             waiting(b) == [w EXCEPT !.block = b]
             expired(b) == SaveCard(CommitEvent(waiting(b), "handoff.expired", "NEEDS_LOGIN"),
                                    k.card, "EXPIRED")
             pending(b) == SaveCard(waiting(b), k.card, "PENDING")
             gone(d) == [d EXCEPT !.ctx = "none"]
  <1>1. Sound(db) /\ Leads(db, db) /\ task[t].kind = "handoffProbe"
    BY SoundDB DEF FinishHandoffVerify, Runs
  <1>2. \/ current /\ BeginVerifyCapture(t, "handoff.completed")
        \/ ~current /\ End(t, db)
        \/ current /\ \E b : End(t, gone(expired(b))) \/ End(t, gone(pending(b)))
        \/ ~current /\ End(t, gone(db))
    BY DEF FinishHandoffVerify
  <1>3. ASSUME NEW b, current
        PROVE  /\ Leads(db, gone(expired(b))) /\ gone(expired(b)).state # "VERIFYING"
               /\ Leads(db, gone(pending(b))) /\ gone(pending(b)).state # "VERIFYING"
    <2> DEFINE v == [w EXCEPT !.block = b]
               n == CommitEvent(v, "handoff.expired", "NEEDS_LOGIN")
               x == SaveCard(n, k.card, "EXPIRED")
               p == SaveCard(v, k.card, "PENDING")
    <2>1. Apart(db, w) /\ w.state = "HANDOFF_WAIT" /\ w.handoffId # 0
      <3>1. db.handoffId # 0
        BY <1>1, <1>3 DEF Sound, Waits
      <3> QED
        BY <1>1, <3>1, CommitKeeps DEF Sound, Closing
    <2> HIDE DEF w
    <2>2. Leads(db, w) /\ Sound(w)
      BY <1>1, <2>1, ApartLeads DEF Leads, Keeps
    <2>3. Kept(w, v)
      BY <2>2 DEF Sound, Shaped, Kept, Apart, OpsKept, StoreKept
    <2> HIDE DEF v
    <2>4. Leads(w, v) /\ Sound(v) /\ v.state = "HANDOFF_WAIT"
      BY <2>1, <2>2, <2>3, KeptLeads DEF Leads, Keeps, Kept
    <2>5. Leads(v, n) /\ Sound(n)
      BY <2>4, CommitPlain DEF Plain, Leads, Keeps
    <2>6. n.state = "NEEDS_LOGIN"
      BY <2>4, CommitKeeps DEF Sound
    <2> HIDE DEF n
    <2>7. Kept(n, x) /\ Kept(v, p)
      BY <2>4, <2>5, SaveKeeps DEF Sound
    <2> HIDE DEF x, p
    <2>8. /\ Leads(n, x) /\ Sound(x) /\ x.state = "NEEDS_LOGIN"
          /\ Leads(v, p) /\ Sound(p) /\ p.state = "HANDOFF_WAIT"
      BY <2>4, <2>5, <2>6, <2>7, KeptLeads DEF Leads, Keeps, Kept
    <2>9. /\ Leads(x, gone(x)) /\ gone(x).state = "NEEDS_LOGIN"
          /\ Leads(p, gone(p)) /\ gone(p).state = "HANDOFF_WAIT"
      BY <2>8, ContextLeads
    <2> HIDE DEF gone
    <2>10. Leads(db, gone(x)) /\ Leads(db, gone(p))
      BY <2>2, <2>4, <2>5, <2>8, <2>9, LeadsTrans
    <2>11. expired(b) = x /\ pending(b) = p
      BY DEF x, p, n, v
    <2> HIDE DEF expired, pending
    <2> QED
      BY <2>9, <2>10, <2>11
  <1>4. Leads(db, gone(db)) /\ gone(db).state = db.state
    BY <1>1, ContextLeads
  <1>5. ~current => (db.state = "VERIFYING" => ~Drives(task[t], db))
    BY <1>1 DEF Drives
  <1>6. current => db.state = "VERIFYING"
    OBVIOUS
  <1> HIDE DEF gone, expired, pending, current
  <1> QED
    BY <1>1, <1>2, <1>3, <1>4, <1>5, <1>6, EndAdvances, BeginVerifyAdvances

\* The periodic timer, and a deadline that passes.
LEMMA ClockAdvances ==
    ASSUME Inv2, Timers \/ TimePasses
    PROVE  Advanced
  <1>1. Sound(db) /\ Leads(db, Tick(db))
    BY SoundDB
  <1>2. CASE Timers
    BY <1>1, <1>2, TurnAdvances DEF Timers
  <1>3. ASSUME NEW e, Kept(db, e), Turn(e) PROVE Advanced
    BY <1>1, <1>3, KeptLeads, TurnAdvances
  <1>4. ASSUME NEW x PROVE /\ Kept(db, [db EXCEPT !.lease = x])
                           /\ Kept(db, [db EXCEPT !.block = x])
                           /\ Kept(db, [db EXCEPT !.budget = x])
                           /\ Kept(db, [db EXCEPT !.cards = x])
                           /\ Kept(db, [db EXCEPT !.snapDue = x])
                           /\ Kept(db, [db EXCEPT !.consentDue = TRUE, !.snapDue = x])
    BY <1>1 DEF Sound, Shaped, Kept, Apart, OpsKept, StoreKept
  <1>5. ASSUME NEW deadline, Passes(deadline) PROVE Advanced
    <2>1. CASE db' = [db EXCEPT !.lease.due = TRUE] /\ Turn(db')
      BY <1>3, <1>4, <2>1
    <2>2. CASE db' = [db EXCEPT !.block.retry = "due"] /\ Turn(db')
      BY <1>3, <1>4, <2>2
    <2>3. CASE \E b : db' = [db EXCEPT !.budget = b] /\ Turn(db')
      BY <1>3, <1>4, <2>3
    <2>4. CASE \E c : db' = [db EXCEPT !.cards[c].due = TRUE] /\ Turn(db')
      BY <1>3, <1>4, <2>4
    <2>5. CASE db' = [db EXCEPT !.snapDue = TRUE] /\ Turn(db')
      BY <1>3, <1>4, <2>5
    <2>6. CASE \E x : db' = [db EXCEPT !.consentDue = TRUE, !.snapDue = x] /\ Turn(db')
      BY <1>3, <1>4, <2>6
    <2> QED
      BY <1>5, <2>1, <2>2, <2>3, <2>4, <2>5, <2>6 DEF Passes, Turn
  <1> QED
    BY <1>2, <1>5 DEF TimePasses

\* SIGTERM, and the end of shutdown().
LEMMA ShutdownAdvances ==
    ASSUME Inv2, Shutdown \/ \E t \in Slot : FinishShutdown(t)
    PROVE  Advanced
  <1>1. Sound(db) /\ Leads(db, db)
    BY SoundDB
  <1>2. CASE Shutdown
    BY <1>1, <1>2, StateAdvances DEF Shutdown, Serving
  <1>3. ASSUME NEW t \in Slot, FinishShutdown(t) PROVE Advanced
    <2> DEFINE capture == db.state = "ACTIVE" /\ db.activeOp = "none" /\ db.ctx # "none"
               d == IF capture THEN CommitEvent(db, "snapshot.intent", db.state) ELSE db
               to == IF Eligible(d) THEN "DETACHED" ELSE "NEEDS_LOGIN"
               i == [Idle EXCEPT !.kind = "capture", !.policy = db.policy,
                                 !.gen = db.generation + 1]
    <2>1. /\ mode # "down" /\ effects' = effects
          /\ \/ capture /\ task[t].kind = "idle" /\ task' = [task EXCEPT ![t] = i]
             \/ task' = task
          /\ db' = CommitEvent(d, "lease.expired", to) \/ db' = d
      BY <1>3 DEF FinishShutdown, Free
    <2>2. Leads(db, d)
      BY <1>1, CommitStay DEF Closing
    <2>3. to \in Plain
      BY DEF Plain
    <2> HIDE DEF d, to
    <2>4. Leads(d, CommitEvent(d, "lease.expired", to))
      BY <2>2, <2>3, CommitPlain DEF Leads, Keeps
    <2>5. Leads(db, db')
      BY <2>1, <2>2, <2>4, LeadsTrans
    <2>6. ~Works(i)
      BY DEF Works, Idle
    <2> HIDE DEF i
    <2>7. CASE task' = task
      BY <2>1, <2>5, <2>7, StateAdvances
    <2>8. CASE task[t].kind = "idle" /\ task' = [task EXCEPT ![t] = i]
      <3>1. ~Drives(task[t], db)
        BY <2>8 DEF Drives
      <3> QED
        BY <2>1, <2>5, <2>6, <2>8, <3>1, SlotAdvances
    <2> QED
      BY <2>1, <2>7, <2>8
  <1> QED
    BY <1>2, <1>3

\* The death of the process takes the continuations with it.
LEMMA CrashAdvances ==
    ASSUME Inv2, Crash
    PROVE  Advanced
  <1>1. Sound(db)
    BY SoundDB
  <1>2. Kept(db, db')
    BY <1>1 DEF Crash, Sound, Shaped, Kept, Apart, OpsKept, StoreKept
  <1>3. Keeps(db, db')
    BY <1>1, <1>2, KeptLeads DEF Leads
  <1>4. \A t \in Slot : ~Works(task'[t])
    BY DEF Crash, Works, Idle
  <1>5. effects' = effects /\ mode' = "down"
    BY DEF Crash
  <1> QED
    BY <1>3, <1>4, <1>5, SettledOK DEF Advanced, Driven

\* recoverDaemon lists what was dispatched, keeps what is stored, and leaves no
\* verification behind.
LEMMA RecoveredKeeps ==
    ASSUME NEW d, Sound(d)
    PROVE  Keeps(d, Recovered(d)) /\ Recovered(d).state # "VERIFYING"
  <1> DEFINE lost == {o \in Op : d.ops[o] = "DISPATCHED"}
             failed == IF d.intentTip /\ d.state \notin {"QUARANTINED", "DELETED"}
                       THEN CommitEvent(d, "snapshot.failed", d.state) ELSE d
             c == failed.handoffId
             reopened == IF d.state = "HANDOFF_WAIT" /\ c # 0 /\ failed.cards[c].state = "OPEN"
                         THEN [failed EXCEPT !.cards[c].state = "PENDING"] ELSE failed
             closed == IF d.state = "VERIFYING" /\ d.verification = "handoff" /\ c # 0
                       THEN [reopened EXCEPT !.cards[c].state = "CANCELLED", !.handoffId = 0]
                       ELSE reopened
             to == IF Eligible(closed) THEN "DETACHED" ELSE "NEEDS_LOGIN"
             os == [o \in Op |-> IF o \in lost THEN "UNKNOWN" ELSE d.ops[o]]
             un == d.unresolved \cup lost
             u == [d EXCEPT !.ops = os, !.unresolved = un, !.activeOp = "none",
                            !.dispatched = FALSE]
             x == CommitEvent(u, "action.unknown", "UNCERTAIN")
             y == CommitEvent(closed, "daemon.recovered", to)
             z == CommitEvent(closed, "daemon.recovered", d.state)
  <1>1. \/ Recovered(d) = x /\ lost # {}
        \/ Recovered(d) = y
        \/ Recovered(d) = z /\ d.state \notin ContextStates
        \/ Recovered(d) = closed /\ d.state \notin ContextStates
    BY DEF Recovered, LiveStates, ContextStates
  <1>2. Apart(d, failed) /\ failed.state = d.state /\ failed.handoffId = d.handoffId
    BY CommitKeeps DEF Sound, Closing, Apart, OpsKept, StoreKept
  <1> HIDE DEF failed, c
  <1>3. Apart(d, reopened) /\ reopened.state = d.state /\ reopened.handoffId = d.handoffId
    BY <1>2 DEF Apart, Shaped, OpsKept, StoreKept
  <1> HIDE DEF reopened
  <1>4. /\ Apart(d, closed) /\ closed.state = d.state
        /\ d.state # "VERIFYING" => closed.handoffId = d.handoffId
    BY <1>3 DEF Apart, Shaped, OpsKept, StoreKept
  <1>5. to \in Plain
    BY DEF Plain
  <1> HIDE DEF closed, to
  <1>6. /\ Apart(closed, y) /\ y.state = to
        /\ Apart(closed, z) /\ z.state = d.state /\ z.handoffId = closed.handoffId
    BY <1>4, CommitKeeps DEF Apart, Closing
  <1> HIDE DEF y, z
  <1>7. Apart(d, y) /\ Apart(d, z)
    BY <1>4, <1>6 DEF Apart, OpsKept, StoreKept
  <1>8. CASE Recovered(d) = y
    <2>1. Leads(d, y)
      BY <1>5, <1>6, <1>7, ApartLeads DEF Plain
    <2> QED
      BY <1>5, <1>6, <1>8, <2>1 DEF Leads, Plain
  <1>9. ASSUME d.state \notin ContextStates, NEW e, Apart(d, e), e.state = d.state,
               e.handoffId = d.handoffId
        PROVE  Keeps(d, e) /\ e.state # "VERIFYING"
    <2>1. d.state # "VERIFYING"
      BY <1>9 DEF ContextStates
    <2>2. Leads(d, e)
      BY <1>9, <2>1, ApartLeads DEF Sound, Uncertain, Waits
    <2> QED
      BY <1>9, <2>1, <2>2 DEF Leads
  <1>10. CASE d.state \notin ContextStates /\ (Recovered(d) = z \/ Recovered(d) = closed)
    <2>1. d.state # "VERIFYING"
      BY <1>10 DEF ContextStates
    <2> QED
      BY <1>4, <1>6, <1>7, <1>9, <1>10, <2>1
  <1>11. CASE Recovered(d) = x /\ lost # {}
    <2>1. un # {}
      BY <1>11
    <2>2. \A o \in Op : \/ os[o] = d.ops[o]
                        \/ d.ops[o] = "DISPATCHED" /\ os[o] = "UNKNOWN"
      OBVIOUS
    <2>3. DOMAIN os = Op
      OBVIOUS
    <2> HIDE DEF os, un
    <2>4. /\ Shaped(u) /\ StoreKept(d, u) /\ u.ops = os /\ u.unresolved = un
          /\ u.activeOp = "none" /\ u.state = d.state /\ u.handoffId = d.handoffId
          /\ u.verification = d.verification
      BY <2>3 DEF Sound, Shaped, StoreKept
    <2> HIDE DEF u
    <2>5. Sound(u)
      BY <2>1, <2>4 DEF Sound, Uncertain, Waits, Stored, Slotted, StoreKept
    <2>6. Keeps(d, u)
      BY <2>2, <2>4, <2>5 DEF Keeps, Settles, StoreKept
    <2>7. Apart(u, x) /\ x.state = "UNCERTAIN"
      BY <2>4, CommitKeeps
    <2> HIDE DEF x
    <2>8. Leads(u, x)
      BY <2>1, <2>4, <2>5, <2>7, ApartLeads
    <2>9. Keeps(d, x)
      BY <2>6, <2>8, KeepsTrans DEF Leads
    <2> QED
      BY <1>11, <2>7, <2>9
  <1> HIDE DEF lost, x
  <1> QED
    BY <1>1, <1>8, <1>10, <1>11

\* recoverDaemon.
LEMMA RestartAdvances ==
    ASSUME Inv2, Restart
    PROVE  Advanced
  <1>1. Keeps(db, db') /\ db'.state # "VERIFYING"
    BY SoundDB, RecoveredKeeps DEF Restart
  <1>2. task' = task /\ effects' = effects
    BY DEF Restart
  <1>3. \A t \in Slot :
          Works(task'[t]) => task'[t].kind = task[t].kind /\ task'[t].op = task[t].op
    BY <1>2
  <1> QED
    BY <1>1, <1>2, <1>3, SettledOK DEF Advanced, Driven

\* Every step of the specification keeps the parts of the second invariant.
LEMMA NextAdvances ==
    ASSUME Inv2, Next
    PROVE  Advanced
  <1>1. CASE Requests
    <2>1. CASE PutSite \/ CreateSession \/ Revoke \/ DeleteSession \/ VaultRotate
      BY <2>1, SessionAdvances
    <2>2. CASE ExpireOnUse \/ Renew
      BY <2>2, LeaseAdvances
    <2>3. CASE RecoverAcknowledge \/ RecoverReauth
      BY <2>3, RecoverAdvances
    <2>4. ASSUME NEW c \in 1..db.nCards, CancelHandoff(c) PROVE Advanced
      BY <2>4, CancelAdvances
    <2>5. ASSUME NEW t \in Slot, Attach(t) \/ Checkpoint(t) \/ Detach(t) PROVE Advanced
      BY <2>5, LeaseAdvances, RunnerAdvances
    <2>6. ASSUME NEW t \in Slot, NEW o \in Op, Step(t, o) PROVE Advanced
      BY <2>6, StepAdvances
    <2>7. ASSUME NEW t \in Slot, NEW intent, RecoverProbe(t, intent) PROVE Advanced
      BY <2>7, RecoverProbeAdvances
    <2>8. ASSUME NEW t \in Slot, NEW c \in 1..db.nCards, OpenHandoff(t, c) \/ ReadyHandoff(t, c)
          PROVE Advanced
      BY <2>8, OpenAdvances, ReadyAdvances
    <2> QED
      BY <1>1, <2>1, <2>2, <2>3, <2>4, <2>5, <2>6, <2>7, <2>8 DEF Requests
  <1>2. ASSUME NEW t \in Slot, Continue(t) PROVE Advanced
    <2>1. CASE ContextOpened(t) \/ VerificationThrows(t) \/ FinishAttach(t)
      BY <2>1, AttachedAdvances
    <2>2. CASE FinishCheckpoint(t) \/ FinishDetach(t)
      BY <2>2, RunnerAdvances
    <2>3. CASE StepDispatch(t) \/ StepFinish(t)
      BY <2>3, DispatchAdvances, StepFinishAdvances
    <2>4. CASE FinishRecovery(t) \/ VerifyCaptured(t) \/ VerifyCaptureThrows(t)
      BY <2>4, FinishRecoveryAdvances, VerifyCapturedAdvances, VerifyThrowsAdvances
    <2>5. CASE HumanOpened(t) \/ AwaitedOpen(t) \/ FinishHandoffVerify(t)
      BY <2>5, HumanAdvances, AwaitedAdvances, HandoffVerifyAdvances
    <2> QED
      BY <1>2, <2>1, <2>2, <2>3, <2>4, <2>5 DEF Continue
  <1>3. CASE Timers \/ TimePasses
    BY <1>3, ClockAdvances
  <1>4. CASE Shutdown \/ (\E t \in Slot : FinishShutdown(t)) \/ Crash
    BY <1>4, ShutdownAdvances, CrashAdvances
  <1>5. CASE Restart
    BY <1>5, RestartAdvances
  <1> QED
    BY <1>1, <1>2, <1>3, <1>4, <1>5 DEF Next

\* The second invariant, one step at a time: stuttering included.
LEMMA Inductive2 ==
    ASSUME Inv2, [Next]_vars
    PROVE  Inv2' /\ Advanced
  <1>1. Inv'
    BY Inductive DEF Inv2
  <1>2. CASE Next
    BY <1>1, <1>2, NextAdvances DEF Advanced, Inv2
  <1>3. CASE UNCHANGED vars
    <2>1. /\ db' = db /\ task' = task /\ effects' = effects /\ mode' = mode /\ Leads(db, db)
      BY <1>3, SoundDB DEF vars
    <2>2. Advanced
      BY <2>1, StateAdvances
    <2> QED
      BY <1>1, <2>2 DEF Advanced, Inv2
  <1> QED
    BY <1>2, <1>3

\* It holds of an enrolled site without a session.
LEMMA InitInv2 == Init => Inv2
  <1> SUFFICES ASSUME Init PROVE Inv2
    OBVIOUS
  <1>1. Inv
    BY InitInv
  <1>2. Shaped(db)
    BY <1>1, DBShaped DEF Inv, TypeOK
  <1>3. /\ db.state = "NONE" /\ db.snap = NoSnapshot /\ db.generation = 0
        /\ db.activeOp = "none"
    BY DEF Init, EmptyDB
  <1>4. NoSnapshot.generation = 0
    BY DEF NoSnapshot
  <1>5. Sound(db)
    BY <1>2, <1>3, <1>4 DEF Sound, Uncertain, Waits, Stored, Slotted
  <1>6. Owned /\ Once /\ Driven
    BY <1>3 DEF Init, Owned, Once, Driven, Idle, Works
  <1> QED
    BY <1>1, <1>5, <1>6 DEF Inv2

\* The second inductive invariant holds always.
LEMMA Invariant2 == Spec => []Inv2
  <1>1. Inv2 /\ [Next]_vars => Inv2'
    BY Inductive2
  <1> QED
    BY <1>1, InitInv2, PTL DEF Spec

\* However often a runner repeats an operation id, and whatever leases run out and
\* processes die meanwhile, the adapter performs each operation at most once.
THEOREM OneEffect == Spec => []AtMostOneEffect
  <1>1. Inv2 => AtMostOneEffect
    BY DEF Inv2, Once, AtMostOneEffect
  <1> QED
    BY <1>1, Invariant2, PTL

\* The result first recorded for an operation is the one every repeat is answered
\* with: no late continuation, timer or restart overwrites it.
THEOREM ResultsStay == Spec => ResultsAreFinal
  <1>1. Inv2 /\ [Next]_vars =>
          [\A o \in Op : db.ops[o] \in {"SUCCEEDED", "BLOCKED", "DENIED"} =>
              db'.ops[o] = db.ops[o]]_vars
    BY Inductive2 DEF Advanced, Final
  <1> QED
    BY <1>1, Invariant2, PTL DEF Spec, ResultsAreFinal

\* Once deleteSession has erased the key, no checkpoint or verification that was
\* already capturing stores a snapshot, and no other key is made.
THEOREM ErasureIsFinal == Spec => ErasedForGood
  <1>1. Inv2 /\ [Next]_vars =>
          [db.key = "erased" => db'.key = "erased" /\ db'.snap = NoSnapshot]_vars
    BY Inductive2 DEF Advanced
  <1> QED
    BY <1>1, Invariant2, PTL DEF Spec, ErasedForGood

\* No stored snapshot is ahead of its session's generation, although captures that
\* read the generation before they yielded store it much later.
THEOREM SnapshotsBehind == Spec => []SnapshotNotAhead
  <1>1. Inv2 => SnapshotNotAhead
    BY DEF Inv2, Sound, Stored, SnapshotNotAhead
  <1> QED
    BY <1>1, Invariant2, PTL

\* A session that waits for its owner names the card whose expiry ends the wait.
THEOREM WaitsHaveCards == Spec => []WaitHasCard
  <1>1. Inv2 => WaitHasCard
    BY DEF Inv2, Sound, Waits, WaitHasCard, AwaitsOwner
  <1> QED
    BY <1>1, Invariant2, PTL

\* A session is UNCERTAIN only while it lists an operation for its owner.
THEOREM UncertaintyIsNamed == Spec => []UncertainNamesOperation
  <1>1. Inv2 => UncertainNamesOperation
    BY DEF Inv2, Sound, Uncertain, UncertainNamesOperation
  <1> QED
    BY <1>1, Invariant2, PTL

\* A session is never left VERIFYING without a continuation that will end it.
THEOREM VerificationsAreDriven == Spec => []VerifyingIsDriven
  <1>1. Inv2 => VerifyingIsDriven
    BY DEF Inv2, Driven, Drives, VerifyingIsDriven
  <1> QED
    BY <1>1, Invariant2, PTL

-----------------------------------------------------------------------------
(* The states that only the owner ends. *)

Rest == {"UNCERTAIN"} \cup TerminalStates

\* What a step may do to a session in such a state with no continuation in flight:
\* the owner acknowledges or revokes an UNCERTAIN one, and deletes a REVOKED one.
Rests == \/ db'.state = db.state
         \/ db.state = "UNCERTAIN" /\ (db'.state = "REVOKED" \/ db'.unresolved = {})
         \/ db.state = "REVOKED" /\ db'.state = "DELETED"

\* tick moves no session out of such a state.
LEMMA TickRests ==
    ASSUME NEW d, Shaped(d), d.state \in Rest
    PROVE  Tick(d).state = d.state /\ Shaped(Tick(d))
  <1> DEFINE to == IF d.state = "UNCERTAIN" THEN "UNCERTAIN" ELSE "EXPIRED"
             e == CommitEvent(d, "session.expired", to)
  <1>1. e.state = to /\ Shaped(e)
    BY CommitKeeps DEF Apart
  <1>2. d.state \notin {"ATTACHING", "ACTIVE", "COOLDOWN", "HANDOFF_WAIT", "VERIFYING"}
    BY DEF Rest, TerminalStates
  <1>3. d.state \in LiveStates => d.state = "UNCERTAIN"
    BY DEF Rest, TerminalStates, LiveStates
  <1> HIDE DEF e
  <1>4. Tick(d) = d \/ (d.state = "UNCERTAIN" /\ Tick(d) = e)
    BY <1>2, <1>3 DEF Tick, LeaseDue, e
  <1> QED
    BY <1>1, <1>4

\* Requests: most of them ask for another state.
LEMMA RequestRests ==
    ASSUME Inv, Requests, db.state \in Rest
    PROVE  Rests
  <1> DEFINE k == Tick(db)
  <1>1. Shaped(db)
    BY DBShaped DEF Inv, TypeOK
  <1>2. k.state = db.state /\ Shaped(k)
    BY <1>1, TickRests
  <1>3. CASE PutSite
    <2> DEFINE n == [db EXCEPT !.policy = @ + 1, !.consentDue = FALSE]
               e == CommitEvent(n, "policy.changed", "UNCERTAIN")
    <2>1. Shaped(n) /\ n.state = db.state
      BY <1>1 DEF Shaped
    <2>2. db' = n \/ (n.state = "UNCERTAIN" /\ db' = e)
      <3> DEFINE f == CancelCard(CommitEvent(n, "policy.changed", "NEEDS_LOGIN"))
      <3>1. Turn(IF n.state \in TerminalStates \cup {"NONE"} THEN n
                 ELSE IF n.state = "UNCERTAIN" THEN e ELSE f)
        BY <1>3 DEF PutSite
      <3> HIDE DEF n, e, f
      <3> QED
        BY <2>1, <3>1 DEF Rest, Turn
    <2> HIDE DEF n
    <2>3. e.state = "UNCERTAIN"
      BY <2>1, CommitKeeps
    <2> HIDE DEF e
    <2> QED
      BY <2>1, <2>2, <2>3 DEF Rests
  <1>4. CASE Revoke
    <2> DEFINE n == [k EXCEPT !.generation = @ + 1]
               e == CommitEvent(n, "session.revoked", "REVOKED")
               f == CancelCard(e)
    <2>1. k.state \in LiveStates /\ db' = f
      BY <1>4 DEF Revoke, Turn
    <2> HIDE DEF k
    <2>2. Shaped(n)
      BY <1>2 DEF Shaped
    <2> HIDE DEF n
    <2>3. e.state = "REVOKED" /\ Shaped(e)
      BY <2>2, CommitKeeps DEF Apart
    <2> HIDE DEF e
    <2>4. f.state = "REVOKED"
      BY <2>3, CancelKeeps
    <2> HIDE DEF f
    <2> QED
      BY <1>2, <2>1, <2>4 DEF Rests, Rest, LiveStates, TerminalStates
  <1>5. CASE DeleteSession
    <2> DEFINE e == CommitEvent(k, "session.deleted", "DELETED")
               y == IF e.key = "present" THEN "erased" ELSE e.key
               f == [e EXCEPT !.snap = NoSnapshot, !.key = y]
    <2>1. k.state = "REVOKED" /\ db' = f
      BY <1>5 DEF DeleteSession, Turn
    <2> HIDE DEF k
    <2>2. e.state = "DELETED" /\ Shaped(e)
      BY <1>2, CommitKeeps DEF Apart
    <2> HIDE DEF e, y
    <2>3. f.state = "DELETED"
      BY <2>2 DEF Shaped
    <2> QED
      BY <1>2, <2>1, <2>3 DEF Rests
  <1>6. CASE RecoverAcknowledge
    <2> DEFINE n == [k EXCEPT !.unresolved = {}]
               to == IF Eligible(k) THEN "DETACHED" ELSE "NEEDS_LOGIN"
               e == CommitEvent(n, "unknown.acknowledged", to)
    <2>1. k.state = "UNCERTAIN" /\ db' = e
      BY <1>6 DEF RecoverAcknowledge, Turn
    <2> HIDE DEF k, to
    <2>2. Shaped(n) /\ n.unresolved = {}
      BY <1>2 DEF Shaped
    <2> HIDE DEF n
    <2>3. e.unresolved = {}
      BY <2>2, CommitKeeps DEF Apart, OpsKept
    <2> HIDE DEF e
    <2> QED
      BY <1>2, <2>1, <2>3 DEF Rests
  <1>7. ~CreateSession /\ ~VaultRotate /\ ~ExpireOnUse /\ ~Renew /\ ~RecoverReauth
    BY <1>2 DEF CreateSession, VaultRotate, ExpireOnUse, LeaseDue, Renew, Holds, RecoverReauth,
                Rest, TerminalStates
  <1>8. \A c : ~CancelHandoff(c)
    BY <1>2 DEF CancelHandoff, Rest, TerminalStates
  <1>9. ASSUME NEW t PROVE ~Attach(t) /\ ~Checkpoint(t) /\ ~Detach(t) /\ \A o : ~Step(t, o)
    BY <1>2 DEF Attach, Checkpoint, Detach, Step, Holds, Rest, TerminalStates
  <1>10. ASSUME NEW t, NEW intent PROVE ~RecoverProbe(t, intent)
    <2> HIDE DEF k
    <2> DEFINE r == IF k.state = "COOLDOWN" /\ k.block.retry # "pending"
                    THEN CommitEvent(k, "cooldown.elapsed", "RECOVERABLE") ELSE k
    <2>1. r = k /\ k.state # "RECOVERABLE"
      BY <1>2 DEF Rest, TerminalStates
    <2>2. RecoverProbe(t, intent) => r.state = "RECOVERABLE"
      BY DEF RecoverProbe, k
    <2> QED
      BY <2>1, <2>2
  <1>11. ASSUME NEW t, NEW c PROVE ~OpenHandoff(t, c) /\ ~ReadyHandoff(t, c)
    BY <1>2 DEF OpenHandoff, ReadyHandoff, Presentable, Rest, TerminalStates
  <1> HIDE DEF k
  <1> QED
    BY <1>3, <1>4, <1>5, <1>6, <1>7, <1>8, <1>9, <1>10, <1>11 DEF Requests

\* Deadlines, shutdown, death and restart.
LEMMA QuietRests ==
    ASSUME Inv, db.state \in Rest,
           TimePasses \/ Timers \/ Shutdown \/ (\E t \in Slot : FinishShutdown(t)) \/ Crash \/ Restart
    PROVE  Rests
  <1>1. Shaped(db)
    BY DBShaped DEF Inv, TypeOK
  <1>2. CASE Timers
    BY <1>1, <1>2, TickRests DEF Timers, Turn, Rests
  <1>3. ASSUME NEW deadline, Passes(deadline) PROVE db'.state = db.state
    BY <1>1, <1>3 DEF Passes, Turn, Shaped
  <1>4. CASE Shutdown \/ Crash
    BY <1>1, <1>4 DEF Shutdown, Crash, Shaped, Rests
  <1>5. ASSUME NEW t \in Slot, FinishShutdown(t) PROVE db' = db
    BY <1>5 DEF FinishShutdown, Rest, TerminalStates, ContextStates
  <1>6. CASE Restart
    <2> DEFINE failed == IF db.intentTip /\ db.state \notin {"QUARANTINED", "DELETED"}
                         THEN CommitEvent(db, "snapshot.failed", db.state) ELSE db
               e == CommitEvent(failed, "daemon.recovered", db.state)
    <2>1. db' \in {failed, e}
      BY <1>6 DEF Restart, Recovered, Rest, TerminalStates, ContextStates, LiveStates
    <2>2. Shaped(failed) /\ failed.state = db.state
      BY <1>1, CommitKeeps DEF Apart
    <2> HIDE DEF failed
    <2>3. e.state = db.state
      BY <2>2, CommitKeeps
    <2> QED
      BY <2>1, <2>2, <2>3 DEF Rests
  <1> QED
    BY <1>2, <1>3, <1>4, <1>5, <1>6 DEF TimePasses, Rests

\* Without continuations there is nothing else.
LEMMA NextRests ==
    ASSUME Inv, [Next]_vars, db.state \in Rest, \A t \in Slot : task[t].kind = "idle"
    PROVE  Rests
  <1>1. ASSUME NEW t \in Slot PROVE ~Continue(t)
    BY <1>1 DEF Continue, Runs, ContextOpened, VerificationThrows, FinishAttach, StepDispatch,
                StepFinish, FinishCheckpoint, FinishDetach, FinishRecovery, VerifyCaptured,
                VerifyCaptureThrows, HumanOpened, AwaitedOpen, FinishHandoffVerify
  <1>2. CASE UNCHANGED vars
    BY <1>2 DEF vars, Rests
  <1> QED
    BY <1>1, <1>2, RequestRests, QuietRests DEF Next

\* With nothing in flight, only its owner ends the uncertainty of a session: by
\* acknowledging what is listed, or by revoking it.
THEOREM InterlockHolds == Spec => UncertainInterlock
  <1>1. Inv /\ [Next]_vars =>
          [/\ db.state = "UNCERTAIN"
           /\ \A t \in Slot : task[t].kind = "idle"
           => \/ db'.state \in {"UNCERTAIN", "REVOKED"}
              \/ db'.unresolved = {}]_vars
    BY NextRests DEF Rests, Rest
  <1> QED
    BY <1>1, Invariant, PTL DEF Spec, UncertainInterlock

\* With nothing in flight, no request, timer, crash or restart brings a revoked,
\* deleted or quarantined session back.
THEOREM TerminalRests == Spec => QuietTerminalStays
  <1>1. Inv /\ [Next]_vars =>
          [/\ db.state \in TerminalStates
           /\ \A t \in Slot : task[t].kind = "idle"
           => db'.state \in TerminalStates]_vars
    BY NextRests DEF Rests, Rest, TerminalStates
  <1> QED
    BY <1>1, Invariant, PTL DEF Spec, QuietTerminalStays
=============================================================================

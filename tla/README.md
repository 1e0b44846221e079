# Ghostsession: a TLA+ verification project

Ghostsession keeps logged-in browser sessions for software agents: a daemon
owns the encrypted snapshot of a session, lends it to one runner at a time,
notices when a site stops answering as a logged-in site does, waits, probes, or
hands the session to its owner, and keeps an audit log of all of it.  A hosted
worker can store the encrypted snapshot for other devices.

This directory holds TLA+ models translated from the TypeScript source, the TLC
configurations that check small instances of them, and proofs that TLAPS checks
for every value of the constants.  `PROJECT.json` lists the runs, the findings,
the hazards, the theorems, and the source lines behind each definition.

## 1. Inventory

| component | state | operations | correct when |
|---|---|---|---|
| session engine (`src/engine.ts`) | session row (state, generation, fence, lease, block, control record), cards, operations, snapshot, origin budget; in memory: browser contexts, pending opens | about 20 RPC handlers, their continuations after each `await`, `tick`, `recoverDaemon`, `shutdown` | one active runner; no operation done twice; an unknown outcome blocks the session until its owner looks; every wait ends; a deleted login stays deleted |
| hosted vault (`worker/src/vault.ts`) | one head per session, one object per nonce, in R2 | PUT, GET, health | an atomic compare-and-set register: no lost update, no write over a tombstone, one effect per signed request |
| vault client (`vaultSync`, `vaultRotate`, `flushOutbox` in `src/engine.ts`, `src/vault.ts`) | the row of `vault_sync`, the tombstones of the outbox, the session's key | upload, restore, rotate, flush | what is reported as synced is stored; an erased login stays unreadable; a deletion reaches the vault |
| origin budget (`origin_budgets`, in `src/engine.ts`) | starts of probes and cards, next allowed time, attempts, fallback, manual review; shared by all sessions of an origin | read and saved by every handler that visits the origin | windows hold for all sessions together; a wait the site asked for binds all of them; an incident ends |
| RPC dispatcher (`src/rpc.ts`) | nonces, rate-limit stamps, request rows (PENDING, DONE) | authenticate, limit, deduplicate, answer repeats | a proof is accepted once; a repeated request has one effect and one answer |
| daemon (`src/daemon.ts`, `src/daemon-main.ts`) | lock file, tick timer, server | start, tick, stop, `acquireLock` | one daemon per data directory, if starts do not race; nothing is served before recovery |
| store (`src/store/database.ts`) | one SQLite connection, a depth counter for nested transactions | `begin`, `commit`, `rollback`, `txn`, `nonceAccept` | a handler's writes are all or nothing, and durable once acknowledged |
| audit log (`src/audit.ts`, `src/audit-verify.ts`, `python/ghostsession/audit.py`) | hash chain of receipts, tip pinned in the keychain | append, tip, page, export, verify | an export is whole, the verifiers agree, and a truncated log is noticed |
| classifier, delays (`src/classify.ts`, `src/delay.ts`) | none | pure functions | total, first match wins; a wait is bounded and never below what the server asked |
| browser adapters (`src/browser/*`) | browser contexts | openContext, restore, probe, dispatch, capture, destroy | external: may answer, throw or hang |
| encoding, crypto, schema, origin and IP filters, CLI, doctor, clients | none | byte and string functions, I/O | not modelled, see section 8 |

Interactions.  A client request passes `rpc.ts` into a handler of the engine.
The daemon is one Node process, so a handler is interrupted only where it
awaits: it does one SQLite transaction (`commitAndPin`), answers, and leaves a
continuation behind that awaits the browser adapter and ends in another
transaction.  Continuations share the session row and the in-memory map of
contexts with every other handler, with the 1 s timer, and with continuations
of the same session that were superseded and do not know it.  What protects a
session is what each continuation checks when it comes back: the state, the
fence, the verification kind, the policy revision, the operation slot, or
nothing.  The worker is the opposite: many isolates, no shared memory, and only
R2's conditional put to order them.

The hard behaviours are therefore: late continuations; the death of the process
between two transactions of one handler; the dispatch deadline racing the
answer; deadlines of leases, cards, cooldowns, snapshots and consent falling
between any two steps; several sessions that write one budget; requests to the
vault whose answers are late or lost, while the session is revoked, deleted or
captured again; and, in the worker, the read that is stale by the time of the
write.  The `hazards` of `PROJECT.json` list them line by line.

## 2. Modules

| module | models |
|---|---|
| `VaultRegister` | the abstract vault: an atomic compare-and-set register per session (the contract in the header comment of `worker/src/vault.ts`) |
| `VaultWorker` | the worker: concurrent handlers, each with its own awaits; refines `VaultRegister` |
| `VaultWorkerProofs` | proofs for `VaultWorker` |
| `VaultSync` | the daemon's vault client for one session, composed with `VaultRegister` |
| `VaultSyncProofs` | proofs for `VaultSync` |
| `Reducer` | what the engine does inside one transaction, as operators from state to state |
| `Engine` | every handler, continuation and timer of the engine, and the daemon's death and restart, for one session |
| `EngineProofs` | proofs for `Engine` |
| `StoreTxn` | the store's transactions and the pin of the audit tip: BEGIN, statements, COMMIT and their failures, statement by statement |
| `StoreTxnProofs` | proofs for `StoreTxn` |
| `ProofGate` | request proofs, the nonce cache and the rate limit of one caller |
| `RequestDedup` | the dispatcher from the requests table on |
| `DispatcherProofs` | proofs for `ProofGate` and `RequestDedup` |
| `DaemonLock` | `acquireLock`, system call by system call |
| `DaemonLockProofs` | proofs for `DaemonLock` |
| `Blocks` | the classifier, the eligibility rules and the delays, as operators |
| `OriginBudget` | the budget of an origin, with a clock and several sessions |
| `OriginBudgetProofs` | proofs for `OriginBudget` |
| `AuditChain` | receipts, pin, the check at start, export and offline verifiers |
| `AuditChainProofs` | proofs for `AuditChain` |
| `MCVaultWorker`, `MCVaultSync`, `MCEngine`, `MCStoreTxn`, `MCProofGate`, `MCRequestDedup`, `MCDaemonLock`, `MCOriginBudget`, `MCAuditChain` | instances for TLC |

How they fit together: a remote call passes `ProofGate`, then `RequestDedup`, and
becomes a handler's action of `Engine`.  `Engine` takes each transaction to be
atomic and durable; `StoreTxn` looks inside and says when that is so.
`Engine` also takes itself to be alone; `DaemonLock` says when it is: as long as no
start of a daemon that overlapped another start has removed the lock file.  Nothing
in `daemon.ts` keeps starts from overlapping, so this is an assumption on whoever
starts daemons, and not a result.  Three modules look at what
`Engine` reduces: `OriginBudget` has several sessions and a clock where `Engine`
has one session and deadlines, `AuditChain` has the receipts, and `VaultSync` the
requests to the vault.  `VaultSync` uses the rule of the register
(`VaultRegister!Accepts`) for each atomic step of the vault; that the worker's
handlers amount to such steps is what `VaultWorker` is shown to refine.

### Reducer and Engine

`db` is everything durable about one session, plus the entry of the in-memory
context map (`ctx`), as one record, because one transaction reads and writes
most of it.  `Reducer` has an operator for each synchronous function of
`engine.ts`, named after it (`Emit`, `ApplyEventEffects`, `LeaveContext`,
`CommitEvent`, `CommitBlockDetected`, `FailVerification`, `Tick`, ...), so a
handler in `Engine` is the same composition of calls as in the source.

An action of `Engine` is one uninterrupted turn of the process.  `task` holds the
continuations in flight: what a handler read before its await (fence, policy,
next generation, operation, card) is in the task record and is used after the
await as the code uses it, stale or not.  `openTask` is `handoffOpenTasks`.

| actions | code |
|---|---|
| `PutSite`, `CreateSession`, `Revoke`, `DeleteSession`, `VaultRotate` | `putSite`, `createSession`, `revoke`, `deleteSession`, `vaultRotate` |
| `Attach`, `ContextOpened`, `FinishAttach`, `VerificationThrows` | `attach`, `finishAttach`, `failVerification` |
| `ExpireOnUse`, `Renew` | the lease check shared by the runner's calls, `renew` |
| `Step`, `StepDispatch`, `StepFinish` | `step` before its first await, its recheck before dispatch, its transaction after dispatch |
| `Checkpoint`, `FinishCheckpoint`, `Detach`, `FinishDetach` | `checkpoint`, `runCheckpoint`, `detach` |
| `RecoverAcknowledge`, `RecoverReauth`, `RecoverProbe`, `FinishRecovery` | the intents of `recover`, `finishRecovery` |
| `VerifyCaptured`, `VerifyCaptureThrows` | `verifyCapture` |
| `OpenHandoff`, `HumanOpened`, `ReadyHandoff`, `AwaitedOpen`, `FinishHandoffVerify`, `CancelHandoff` | `openHandoff`, `openHumanContext`, `resolveHandoff`, `finishHandoffVerify` |
| `Timers`, `TimePasses` | `tick`; the clock |
| `Shutdown`, `FinishShutdown`, `Crash`, `Restart` | `stop`, `shutdown`, the death of the process, `recoverDaemon` |

Abstractions.  Times are deadlines: a flag that is false until the clock passes
it.  Receipts are reduced to what the engine reads back from them: whether
`snapshot.intent` is the last one, whether the last incident is
`recovery.exhausted`, and which card carries the session's revision (`fresh`).
The nine block classes are grouped by the route the engine takes.  A lease is
named by its fence.  A refused call is no step (apart from the timers it may have
run first, which are `Timers`).

### VaultWorker

A handler of `handleVaultPut` is at one of its three awaits: the conditional
creation of the nonce object, the read of the head, the conditional write.  It
may die at any of them.  GET and health requests spend nonces.  R2's conditional
operations are atomic and external.  `applied` is a history variable, the nonces
whose write took effect.  Signatures are perfect: a request is a member of a set
and its nonce names it.

### VaultSync

A request is three steps: a start that reads the rows and sends (`StartUpload`,
`StartRestore`, `StartFlush`), one atomic step of the vault (`Serve`), and a
continuation that writes what it learnt onto the rows as they are by then
(`FinishUpload`, `FinishRestore`, `FinishFlush`).  In between, other calls, captures
(`StartCapture`, `FinishCapture`), `VaultRotate`, `Revoke`, `DeleteSession`, the next
pass of the outbox timer, a `Timeout` that abandons a request which may still be
applied (`Serve` of an abandoned request, or `Drop`), and a `Crash`.  The session is
reduced to what the client can tell of it: live at rest, live at work, revoked,
deleted; and back again (`Revive`), when the result of a step or the end of a detach
comes after the revocation (the disagreement of section 6).  A capture is a model value, and so is the key made for it; `keyOf` says
under which key a capture was encrypted, `keys` which keys the keychain holds, and
`left` which keys stay there although the session has let them go: a deletion that
failed without saying so; a rotation that committed and whose deletion of the old key,
which comes after the commit, was not reached because the pin threw or the daemon
died; a restore of a head under such a key, which takes the name from the session's
own.  `Dies` is the death of the daemon, shared by `Crash` and `VaultRotate`.  The head
stands for its own hash and etag.

`spoiled` records the races after which a queued tombstone may not be accepted: an
upload of a live snapshot that is abandoned; an upload answered after the head has
moved on; an upload answered 200 while a tombstone is queued, which deletes it; a
restore that writes an older head than the stored one; a restore or a late capture
that takes the generation back.  `TombstoneFits` and `DeletionReachesVault` say that
there are no others.  The race of the late capture was found by the proof of
`TombstoneFits`: it takes a capture, a detach, two rotations, an upload, the late
`runCheckpoint` and a revocation, which is beyond the bounds of the run.

`ProofBinds` says whether the vault compares the preconditions of the signed proof
with the headers.  The worker of this repository does (`worker/src/vault.ts:144`),
the daemon signs null for both (`src/engine.ts:2119`), so between the two every PUT is
answered 401 and nothing else about uploads could be said.  The run therefore has
`ProofBinds = FALSE`: the vault of the contract, and the transport with which the
repository's own tests drive the engine.  Section 6 has the other value.

### Blocks and OriginBudget

`Blocks` has the decision table of `classify.ts`, the eligibility rules, and the
arithmetic of `delay.ts` over an observation reduced to what they tell apart.  A
Retry-After is absent, oversized, malformed, a number of seconds (of `Second`
ticks) or a date.

`OriginBudget` has a clock, one budget row, and a session per site.  A session is
its state and the block that `recover` reads back; every action is a place where
the engine reads or writes the budget: `CreateSession`, `Reauth`, `Ready`,
`FinishHandoff`, `Attach`, `FinishAttach`, `StartStep`, `FinishStep`, `CooldownElapsed`,
`Recover`, `FinishRecovery`; `Detach`, `Lapse` and `Delete` stand for all ways out that
leave the budget alone.  Every probe has an answer with a header of its own.
`Heed` is what the engine hears of it when it commits a block; `Passed` and
`PassedWhole` keep what it passes over (`dropped`): the header of any answer that is
no retryable block, and of every answer to a handoff's verification or to a recovery
probe that verified the login.  `AskedIsHonoured` and `ReviewHolds` are about what was heard; the same of
what was passed over is refuted in section 6.  The lists of starts are sets of numbered times: `saveBudget`
sorts them, and nothing but the number of starts inside a window is asked of them.
The histories (`probes`, `cards`, `asked`, `review`, `dropped`, `tries`) are kept apart from the row:
the properties compare what the origin saw and asked for with what the row made of it.
The run has a `VIEW` without `dropped`, which enables no action and which its properties
do not read.

### AuditChain

A receipt is its seq, the hash of the one before, its event, its hash and its
signature; a hash is the tuple of what it covers.  The daemon appends and pins
(`Commit`), may die or fail to pin between the two, which closes the gate, and pins
again with each `tick`.  Its start is `recoverDaemon` (`Recovered`): an operation in
flight, a `snapshot.intent` left open that is settled with `snapshot.failed` in
revoked sessions too, `daemon.recovered`, and only then the check of the chain of a
session that has ended; with an unsafe clock, none of it.  A late continuation may
bring a session that has ended back (`After`).  The exporter takes one page at a
time while receipts go on; outside the daemon a row may be lost, a copy of the
database put back, a line of the export removed, repeated, moved or edited.  Three
verifiers are modelled: `verifyReceiptChain`, `verifyAuditFile`, and `verify_chain` of
the Python client.  A page is cut out of the rows, behind as many as have a seq up to
`after` (`WHERE seq > ? ORDER BY seq LIMIT ?`); the tip that a verifier expects is a
sequence of one hash, or empty for none.

### StoreTxn

One connection, one stack of transactions (`outer`, `inner`), the counter `depth`
that `begin`, `commit` and `rollback` share, and what SQLite itself believes
(`open`, `conn`, `disk`).  A transaction is two statements, so that half of it can
be told from all of it.  COMMIT and BEGIN may fail, as may the keychain; a COMMIT
that fails leaves the SQLite transaction open or rolled back, at SQLite's choice.
The kinds of transaction differ in who may start one when the gate is closed, and in
whether their failure closes it.

### ProofGate

Two ways in: a proof sent straight to the dispatcher and a proof inside a relay's
frame.  Signers have clocks of their own (`Sign` picks any time), delivery is any
number of times, the daemon's clock only moves forward.  Signatures are perfect.
The calls of one caller then pass the sliding window.  `passed` is the history of
the calls that did, and the caller's row of `rate_limits` is the set of the places in
it that the row still lists: the order of the places is the order of the list.

### RequestDedup

A call is looked up, marked PENDING, awaited and answered; copies may be in flight
together, the daemon may die at the await, and its start removes the PENDING rows.
Rows that are a day old are purged by whichever call comes next.

### DaemonLock

Each process is at one system call of `acquireLock`; the file has a creator and
either carries its pid or is still empty.  Any number of processes may be starting
together.  Two histories say how a start went: `beside`, another start was under way
at some time during it; `raced`, a start with `beside` has removed the file, which is
the one way in which the lock fails (`ExclusiveAlways`, section 6).

## 3. Runs

| run | instance | states | shows |
|---|---|---|---|
| `vault_worker` | 2 handlers, 3 nonces, 1 session, generations 0..3 | 619,000 | `AtomicRegister` (refinement of `VaultRegister`), `NonceExclusive`, `TombstonePermanent` |
| `vault_sync` | 1 call and 1 flush in flight, 2 captures, generations 0..3, 1 fault | 1,432,000 | `SyncedIsStored`, `ErasedStaysErased`, `TombstoneFits`, `DeletionReachesVault` |
| `runner` | 2 operations, 2 continuations, 2 leases, lease and snapshot deadlines, 2 deaths or stops of the daemon | 1,500,000 | `LeaseFenced`, `FenceAdvances`, `AtMostOneEffect`, `ResultsAreFinal`, `UncertainNamesOperation`, `UncertainInterlock`, `ErasedForGood` |
| `handoff` | 2 cards, 2 policies, 2 continuations, card and consent deadlines | 1,474,000 | `WaitHasCard`, `SnapshotNotAhead`, `QuietTerminalStays` |
| `waits` | 1 operation, 1 card, 2 continuations, every kind of Retry-After, budget windows, a browser that may hang | 178,000 | `VerifyingIsDriven`, `CooldownEnds`, `HandoffEnds` |
| `origin_budget` | 2 sites of one origin, time 0..2, windows of 1 and 2, 2 probes and 2 cards a window, 1 action at the browser, 6 kinds of answer | 1,221,000 | `ProbesBounded`, `CardsBounded`, `IncidentBounded`, `AskedIsHonoured`, `ReviewHolds` |
| `audit_chain` | up to 3 receipts and those of 2 starts, pages of 2, 1 loss or rollback, 1 edit of the export | 2,143,000 | `VerdictIsRight`, `ExportIsWhole`, `EndedLogIsChecked` |
| `store_txn` | 3 rows a table, 3 failures, 2 deaths | 1,579,000 | `AtomicWhileSound`, `AckedIsDurable` |
| `proof_gate` | 2 callers' proofs, 2 relay proofs, skew 2, retention 4, 2 calls a window | 320,000 | `AcceptedOnce`, `RateBounded`, `RetryAtIsHonoured` |
| `request_dedup` | 2 ids, 3 calls in flight, 2 deaths | 1,118 | `OncePerWindow`, `PendingIsDriven`, `AnswersAreFinal` |
| `daemon_lock` | 4 processes, starting when they like, dying anywhere | 111,000 | `Exclusive`, `RefusedByHolder` |
| `terminal` | a smaller instance of `Engine` | | the disagreement of section 6 |

Bounds.  `Slot` (2) is the number of continuations in flight: the races of this
engine are between one continuation and its successor, and every guard compares
the session with one task.  `MaxFence` 4 gives two complete leases, hence a
runner that is late for the second; where cards are the subject (`handoff`, `waits`)
2 gives one.  `MaxGen` (2 or 3, 4 in `terminal`) leaves room for two snapshots, or
for one and a rotation or revocation.  `MaxCards`, `MaxPolicy` and `MaxCrash` give each
run the repetition it is about.  The engine's own limits (2 probes, 2 handoffs,
2 verifications) are the code's and not bounds.  Each run restricts the adapter's
answers and the deadlines to the part of the engine it asks about; all runs keep
every action.  In the worker, one session is enough because no handler touches
two, and three nonces and generations up to 3 allow a first write, a tombstone
and an attempt to replace it, with a handler that read before each of them.

In `proof_gate` the retention is exactly twice the skew, the code's own ratio (120 s
and 60 s) and the least that the proof allows, so the boundary is the case that is
checked.  In `store_txn` three failures are one each of BEGIN, COMMIT and the
keychain, and two deaths let the pin of one life meet the disk of another.

In `vault_sync` the two captures and the generations up to 3 give a first write, its
replacement (by a capture or a rotation) and a tombstone; a call and a flush are an
answer that is late for the session and the timer's pass, and one fault is a timeout,
a worker error, a crash or a failed deletion.  Two calls of clients, two passes of the
timer (one is late for the other) and two faults are beyond the run since the session
may come back after its revocation; the theorems hold for any number of each, and
`DeletionReachesVault` is checked for one of each.  In `origin_budget` probes
are counted both at the edge of their window and after they have left it, cards only
at the edge, since their window is as long as the clock (`CardsAreBounded` has them
leave it); a wait of 3 ticks is the longest that is accepted, and a
second is 2 ticks, so that a header can name the last usable wait and the first
unusable one.  In `audit_chain` three receipts, with what the starts add, are
two pages and more, two starts are one before and one after the damage, and the edit of the export
is apart from the damage to the rows, so that each verifier meets both.  In
`daemon_lock` four processes are a holder that dies or stops, a starter that found
its file, and two that start beside it.  The runs of the engine that are about cards
(`handoff`) have no death of the daemon; `runner` has two, and the theorems any
number.

`CHECK_DEADLOCK FALSE` in the engine's runs: a deleted or quarantined session
really has nothing left to do, and the bounds stop the rest.  In the other runs the
bounds on time, rows, failures and deaths stop the system.

## 4. Fairness

`FairSpec` assumes that the clock moves on (each deadline, once pending, passes)
and that `tick` runs (`setInterval` of 1 s in `daemon.ts`).  It assumes nothing of
the owner, of the runner, or of the browser: apart from dispatch, with its 16 s
deadline, no await of the engine is timed.  `CooldownEnds` and `HandoffEnds` hold
even so, because `tick` ends these states without looking at continuations.
That ATTACHING ends is not claimed for a browser that hangs: the lease's
deadline ends it.  A recovery's VERIFYING has no timer of its own, which is why
`VerifyingIsDriven` is stated as an invariant: some continuation is still there.

`FairSpec` of `VaultSync` assumes that the vault answers a request that reached it
or the transport gives up (its 15 s timeout, `vault.ts`; a `Timeout` is a fault, of
which there are finitely many), that continuations run, that the outbox timer
starts a pass when one is due (`setInterval` of 2 s in `daemon.ts`), and that a backoff
passes.  It assumes nothing of clients: no upload or restore need ever be called,
and an abandoned request need not be dropped.  Each is assumed of a request, whatever
its kind, since a continuation that waits is run by Node whoever sent the request.

## 5. Proofs

Proved by TLAPS, for any sets of operations and continuations, and any bounds:

* `VaultWorkerProofs`: `TypeCorrect`, `NonceIsExclusive`, `ImplementsRegister`,
  `TombstonesStay`, and `GenerationsAdvance`, which the runs do not repeat since it
  follows from the refinement.  The inductive invariant adds to the
  types that a handler past `createNonce` is the only one with its nonce, that
  this nonce has been created, and that it is not yet in `applied`.  The
  refinement is the interesting part: the abstract write happens at `putIf`, and
  its guard holds there because the head still equals the one the handler read
  and checked.
* `VaultSyncProofs`: `TypeCorrect`, `SyncedRowsAreStored`, `ErasedLoginsStay`,
  `TombstonesFit`, for either value of `ProofBinds`.  Two arguments share the inductive
  invariant `IndInv`.  First, an answer in flight carries a head that was stored once (`AnswersTrue`), and
  the generation of the stored head only grows, so a row written from a late answer
  is behind the vault and never ahead of it; without `AnswersTrue` nothing ties the
  row to the vault.  Second, apart from the keys in `left` the keychain holds
  no key but the one that `enckey:<session>` names (`KeysNamed`), so that deleting
  that one leaves no other; a restore that comes back later finds no key for its head,
  and a capture that comes back later finds the name but not the key.
  `BodiesNamed` says that a live head is one of the captures, which is what lets
  `keyOf` be applied to it.  `TombstonesFit` has an invariant of its own, `FitInv`.
  `HeadFits`: as long as nothing was spoilt the live head is not ahead of the session,
  and after the end of the session behind the tombstone.  `RequestsFit`: the same of
  every upload that may still be applied, since the head of tomorrow is in a request
  of today, and that no live upload was abandoned.  `RowFits`: the row names the etag
  of the stored head, or the upload that wrote it is about to say so.
* `EngineProofs`: `TypeCorrect`, `LeaseIsFenced`, `FencesAdvance`.  The argument
  has two layers.  For the operators of `Reducer`, `Reaches(d, e)` relates the
  state before and after a part of a turn (fences only grow, and the lease is
  kept or dropped with a new fence); it is reflexive, transitive, and preserved
  with the types and with the lease invariant by each operator.  A turn is a
  composition of operators, so each action is shown once to satisfy `Stepped`.
  `LeaseFenced` is not inductive by itself: the types of the continuations are
  too weak for `StepDispatch` and `FinishHandoffVerify`, which index operations
  and cards by what a task carries.  `TasksNamed` adds that those tasks carry an
  operation and a card, and `Inv` is the conjunction of the three.

  `OneEffect`, `ResultsStay`, `ErasureIsFinal`, `SnapshotsBehind`, `WaitsHaveCards`,
  `UncertaintyIsNamed` and `VerificationsAreDriven` rest on a second invariant, `Inv2`.
  It adds to `Inv` what every state within a turn satisfies (`Sound`: UNCERTAIN lists
  an operation, a wait names a card, the snapshot is not ahead of the generation and
  gone with an erased key, an operation marked dispatched is DISPATCHED) and three
  facts about the continuations.  `Owned`: an operation is worked on by one
  continuation; it is PREPARED until that one dispatches it.  Without this,
  `AtMostOneEffect` is not inductive, since a second `step` continuation for the same
  operation would dispatch it again.  `Once`: what was not dispatched had no effect.
  `Driven`: a VERIFYING session has a continuation of its kind of verification and
  under its fence; a continuation with another fence may end without a word, and
  does.  Turns are handled as before, by a relation that composes: `Keeps(d, e)` for
  the ones that neither start, dispatch nor report an operation.  `InterlockHolds` and
  `TerminalRests` need no more than that with no continuation in flight every step is
  a call, a timer, a stop, a death or a restart, and each of these leaves a session
  in UNCERTAIN or in a terminal state where it is, or is the owner's (`Rests`).

* `StoreTxnProofs`: `AcknowledgedIsDurable`, `TransactionsAreAtomic`.  The inductive
  invariant says, of a life in which no COMMIT has failed, that `depth` is the
  number of transactions on the stack, that SQLite has one open exactly when the
  stack is not empty, and that what the connection sees and the disk does not is
  what the transactions on the stack wrote.  A failed COMMIT breaks the first part,
  which is where the proviso comes from.
* `DispatcherProofs`, of the gate: `ProofsAcceptedOnce`, `RateIsBounded`, `RetriesAreHonoured`.  Invariant
  of the first: a proof that was accepted has
  a row that lives at least until the proof is out of time.  The row is written at
  some moment not earlier than `issued - Skew`, so it lives until
  `issued + Skew` if the retention is at least twice the skew
  (`RetentionAssumption`); the code's constants meet that with equality.  The other
  two share `RateInv`: the calls that passed are in the order of the clock, the row
  lists every one still inside the window and no more than the limit, and a refusal
  that still counts named a call that is on the row.  The bound then follows because
  `RateMax` calls at consecutive places cannot all be on the row when another passes.
* `DispatcherProofs`, of the requests table: `RunsOncePerWindow`, `PendingRowsAreDriven`,
  `StoredAnswersAreFinal`.  PENDING rows and calls in flight are one to one while
  the daemon serves; none of the three is inductive without the other direction,
  that a call in flight still has its PENDING row.

* `OriginBudgetProofs`: `WaitsAreHonoured`, `ReviewsHold`, `ProbesAreBounded`,
  `CardsAreBounded`, `IncidentsAreBounded`.  The row `Covers` what the
  origin asked for: `asked` is never beyond `nextAllowed`, and `review` implies
  `manual_review`.  Neither property is inductive without it, since the guards of
  `attach`, `resolveHandoff` and `recover` look at the row and not at the origin's
  words.  The lemma under it, `DelayHonours`, is about `computeDelay`: its delay is
  exhausted exactly if the header asks for more than the longest wait, and
  otherwise ends no earlier than the header asks.  It needs `ClockAssumption`: the
  clock and the longest wait stay within the safe integers.  Each way of saving the
  row (a retryable block, any other block, a card, a verified login, a calm attach)
  is then a lemma about `Covers`.  `WindowInv` says that what was really started in
  the window up to now is exactly what the row lists inside it, so a guard on the row
  is a guard on the origin; the step of the clock takes the same starts out of both.
  `IncidentInv` is an account: `Pay` of the row is its attempts and its fallback, at
  most three together, and a session that may retry has tried less than `Pay`, one
  that may only fall back, or is probing, at most `Pay`.  A block met by a recovery
  adds an attempt, a fallback pays for itself, a login verified for another session
  clears the account and sets the count of the sessions in an incident to -1.
* `DaemonLockProofs`: `LockTypes`, `OneDaemon`, `RefusalIsByHolder`, for any processes that
  start when they like.  As long as nothing
  has `raced`, the file is the one of whoever writes or holds, and what a start that is
  alone has found out about the holder stays true (`FileTrue`): only the holder can act
  beside it, and only by leaving.  Whatever has raced, a starter has met the holders and
  the other starters (`Met`), and one that is alone comes to its second attempt only
  when the path is free (`AttemptTrue`), which is why it is not refused.

* `AuditChainProofs`: `VerdictsAreRight`, `ExportsAreWhole`, `EndedLogsAreChecked`.  None
  of the three is inductive.  Under them is what rows have in common whatever is lost of
  them (`Chain`): their seqs rise, hash and signature cover the core, and where two
  neighbours have consecutive seqs the second names the hash of the first.  A hash has
  the seq of its receipt in it, so links that fit mean seqs that follow each other
  (`LinksGapless`).  The key lemma is `Places`: if every seq up to `n` is somewhere in a
  chain, it is at its own place; that is a least counterexample over the places, where an
  induction over the rows would be out of reach.  For `EndedLogsAreChecked` the invariant
  says that the pin is the tip of what was vouched for and that, unless `forked`, a row no
  later than the pin is one of those (`Past`), which a lost row or a copy of this log's
  own past leaves true, and a copy of another history or a receipt written behind a lost
  one and not pinned does not; then a gapless log that reaches the pin
  has them all (`IntactMeans`).  The log that is looked at is the one after step 2 of
  `recoverDaemon`, which adds at most one row: that is where the exception comes from
  (`Refilled`), and the proof shows that it is the only one.  For `ExportsAreWhole`, the file under way is a beginning
  of the log up to `after`, so that the rows passed are as many as the file has
  (`PageFacts`).  For `VerdictsAreRight`, each line of a damaged file keeps the signature
  of some row (`Signed`); a line that passes is therefore that row, and `Places` puts it
  where it belongs (`LinkedMeans`); two beginnings with one tip are the same (`TipMeans`).

Assumptions: `MaxCards` and the generation bound are natural numbers, `"none"` is
neither an operation nor a body nor a capture nor a request id, `"tomb"` is no capture, calls and
flushes are different requests, `"none"` is no process either, the adapter's
answers are observations and the deadlines are among the nine the engine has.

Assumptions about the audit log: a page holds at least one receipt; hashes do not collide
and signatures are not forged, which is how `AuditChain` represents them.

Only model-checked: the liveness properties (`CooldownEnds`, `HandoffEnds`,
`DeletionReachesVault`), which are out of the prover's reach.  Every other property of
the passing runs, invariant or action property, is also a theorem.

## 6. Findings

One run ends in a violation of what a comment and a constant of the code say:

* `terminal`: `detach` commits `session.detached`, and a late dispatch commits its
  result, on whatever state they find; a session that was revoked meanwhile comes
  back as DETACHED, ACTIVE or UNCERTAIN.  With no continuation in flight terminal
  states do stay (`QuietTerminalStays`), and an erased key is never replaced
  (`ErasedForGood`).

Formulas that TLC refutes and that are not runs of their own.  Each is stated in its
module; to see the behaviour, check it in place of the properties of the cfg named:

| formula | cfg | behaviour |
|---|---|---|
| `UnprovenIsUncertain` | `MCRunner.cfg` | an operation in flight when the session was detached, and then the daemon died, stays DISPATCHED: `recoverDaemon` looks only at sessions with a context |
| `SlotIsOwned` | `MCRunner.cfg` | an operation PREPARED at the death of the daemon keeps the slot: after restart and attach every step answers BUSY |
| `GenerationAdvances` of `Engine` | `MCTerminal.cfg` | `runCheckpoint` stores under the generation it read before its await; a capture that outlives later ones takes the session back |
| `OpenGateIsDurable` | `MCStoreTxn.cfg` | a COMMIT that fails decrements the depth counter twice and sends no ROLLBACK; the engine's own transactions then close the gate, the dispatcher's do not, and what handlers acknowledge afterwards is not durable |
| `PinNotAhead` | `MCStoreTxn.cfg` | `shutdown` checkpoints inside its own transaction, so the audit tip is pinned before it is committed; a death in between looks like a truncated chain at the next start |
| `FirstWriteIsOne` | `MCVaultWorker.cfg` | a comment says that a first write may not skip generation 1; the check accepts any generation from 1 on |
| `AdvancingWriteSucceeds` | `MCVaultSync.cfg`, `ProofBinds = TRUE` | `deviceRequestProof` signs null preconditions, the worker demands that they equal the headers: every PUT of this daemon is answered 401 by this worker |
| `RetryableMayBeRetried` | `MCRequestDedup.cfg` | a retryable failure is stored as the answer of its request id, and the clients repeat under that id |
| `ExclusiveAlways` | `MCDaemonLock.cfg` | two daemons that start together may both hold the lock: one finds the file still empty, or a pid that was dead, and removes the file the other has just created |
| `EveryWaitIsHonoured`, `EveryReviewHolds` | `MCOriginBudget.cfg` without its `VIEW` | the repository's README says that `Retry-After` is honoured (`README.md:32`); `finishHandoffVerify` (`engine.ts:1848`) drops the header of whatever it sees, oversized or not, and the next `ready`, `attach` or `recover` may visit the origin at once; so does the header of a class that is not retryable, and of a recovery probe that verified the login |
| `ErasedAlways` | `MCVaultSync.cfg` | `vaultRotate` deletes the old key after its commit (`engine.ts:2170`); a daemon that dies in between, or a keychain that fails, leaves a key that `deleteSession` does not know of, and the vault's old head can still be decrypted |
| `ShorterLogIsEvidence` | `MCAuditChain.cfg` | a comment of `verifyChainIntact` calls a log shorter than its pin evidence; the start of the daemon asks only for sessions that have ended, and pins the shorter log of a live one |
| `ShorterEndedLogIsEvidence` | `MCAuditChain.cfg` | the same of a session that has ended: one that lost its `session.revoked` behind a `snapshot.intent` is given a `snapshot.failed` in its place (`engine.ts:2198-2210`) before the check, and passes |
| `PinIsKept` | `MCAuditChain.cfg` | a start with an unsafe clock checks nothing, and the `tick` after it pins whatever log there is: what was lost is no longer missed |
| `IncidentIsRemembered` | `MCAuditChain.cfg`, `"recovery.exhausted"` in `SomeEvents` | `lastIncidentEvent` reads a window of receipts; receipts that leave the session where it is push `recovery.exhausted` out of it, and the exhausted incident may probe again |
| `EndedLogIsChecked` without `~forked` | `MCAuditChain.cfg` | the hash of the pin is never compared: a log of another history and at least the same length passes, and so does one continued from before the pinned tip while pins failed |

What the models show of the vault client, with a history variable to set it apart
(`spoiled`): an upload in flight at a revocation deletes the tombstone when it is
answered 200, and the copy in the vault lives on; an answer that is lost leaves an
etag behind that no later write can name, and every one of them is answered 409; a
restore writes its head's generation over a later one, and so does a capture that
outlives two rotations; a late answer overwrites a newer row of `vault_sync`.  `flushOutbox` binds two of the three parameters of the
statement after a 200 and always throws, so the row keeps saying that a deletion is
pending.

What reading and modelling showed of the budget: `step` of a session that is ACTIVE does not look
at the next allowed time that another session of the origin has set; a login
verified for another session gives a session in the middle of an incident three
more retries and a fallback (`IncidentBounded` is stated with that); the cap of 900 s
on the backoff never bites, since attempts stop at 3; the purpose `handoff` of
`commitBlockDetected` is never passed.  Of the twins: the dates that TypeScript and
Python accept differ in second 60, and with no receipts the verifiers expect the
genesis hash in one place and nothing in the other two.

One edge that is not a disagreement: at exactly `retry_at_ms` a caller is still
refused, since the window is closed at both ends; `RetryAtIsHonoured` starts after it.

## 7. Plan

Done: the vault worker and its abstract specification, the vault client composed
with it, the engine for one session, the origin budget for several, the classifier
and the delays, the audit log with its verifiers, the store's transactions, the
dispatcher's gate and deduplication, the daemon's lock.  Left, in this order:

1. Proofs: the types of `OriginBudget`, `ProofGate` and `StoreTxn` in full,
   of which the invariants of section 5 have the parts they need.
2. The clock gate and the effect gate in `Engine`: a handler whose pin fails throws
   before it starts its continuation.
3. An abstract session (states and who may move it) refined by `Engine`.
4. The contexts of the CDP adapter as a resource of their own.

## 8. Not modelled

Left out of `Engine` so far: the clock gate, the effect gate (a failed commit or pin;
`StoreTxn` has it without the handlers), and the refusals of rate limits, of a full
inbox and of the audit size limit.  A refusal only removes steps.  Of the transactions
of two handlers, two are taken as one: the `snapshot.intent` of `vaultRotate`
(`engine.ts:2147`) with the commit after it, between which nothing awaits and only a
death could fall, and the entry of a human's context into the map
(`engine.ts:1775`) with the end of its open.  A full outbox, which refuses a block
with BUSY inside its transaction (`engine.ts:768`) and so leaves it uncommitted, is
no step of `Reducer`'s `CommitBlockDetected`.  Quarantine by
`verifyChainIntact` is in `AuditChain`, vault synchronisation in `VaultSync`.  Left out
for good: cryptography (perfect), canonical JSON, parsing and schema validation
(total), origin and IP matching, the CDP plumbing, the keychain's I/O, the command
line beyond `audit export`, doctor, migration, and the clients beyond what they sign
and repeat.

Left out of `VaultSync`: a second device that writes the same head, and the handoff
cards of the outbox, which share its backoff and nothing else; of several queued
tombstones of a session only the newest, which is the one that the vault will take;
the key that a death between `keychain.set` and COMMIT leaves behind, under which
nothing was ever encrypted that is stored; and the gate that a failed pin closes, which
only removes calls.  Left out of
`OriginBudget`: which strings are numbers or dates, restarts (the row is durable,
and `recoverDaemon` does not touch it), and the answer of a verification that was
overtaken, which is dropped whole whatever header it carries.  Left out of
`AuditChain`: forged signatures, and a keychain that lost the pin.

Left out of `RequestDedup`: another body under a known id (the row of the first is
answered; `request_hash` is never written) and a call that hangs for a day.  Left
out of `DaemonLock`: a dead daemon's pid given to another program.

## 9. Running

    tlc -workers 2 -config MCRunner.cfg MCEngine
    tlc -workers 2 -config MCVaultWorker.cfg MCVaultWorker
    tlc -workers 2 -config MCVaultSync.cfg MCVaultSync
    tlc -workers 2 -config MCOriginBudget.cfg MCOriginBudget
    tlapm EngineProofs.tla
    tlapm VaultSyncProofs.tla
    tlapm AuditChainProofs.tla

The longest runs reach one to two million states in one to two minutes each.
Operators marked "Mutant" are plausible mistakes, listed in `PROJECT.json`: put in
the place of the definition they follow, each makes TLC report a violation of the
property it is listed with.

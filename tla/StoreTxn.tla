------------------------------ MODULE StoreTxn ------------------------------
(***************************************************************************)
(* Transactions of the daemon's one SQLite connection: begin, commit,      *)
(* rollback and txn of src/store/database.ts with the depth counter they   *)
(* share, and commitAndPin, tick and shutdown of src/engine.ts, which copy *)
(* the tip of the audit chain to the keychain and close the gate when a    *)
(* write fails.                                                            *)
(*                                                                         *)
(* Every transaction is two statements here: the engine's insert a receipt *)
(* and update its session, the dispatcher's two nonces (dispatchForward).  *)
(* COMMIT, BEGIN and the keychain may fail, a handler may throw between    *)
(* its statements, the process may die anywhere; a statement does not fail.*)
(***************************************************************************)
EXTENDS Integers

CONSTANTS MaxRows,    \* bound: rows in a table
          MaxFail,    \* bound: failures of COMMIT, BEGIN and the keychain
          MaxLives    \* bound: deaths of the daemon

\* Who runs a transaction: a handler behind gateOk, a continuation or timer that
\* passes no gate, the dispatcher, shutdown, and the runCheckpoint that shutdown
\* calls inside its own transaction.
Outer == {"handler", "late", "rpc", "shutdown"}
Inner == {"checkpoint"}
Frame == [kind : Outer \cup Inner \cup {"none"}, wrote : 0..2]
NoFrame == [kind |-> "none", wrote |-> 0]

Table == {"receipts", "sessions", "request", "relay"}

VARIABLES depth,    \* Store.depth
          open,     \* SQLite has a transaction open
          disk,     \* rows that survive a crash, by table
          conn,     \* rows the connection sees
          outer,    \* the transaction on the stack,
          inner,    \* and the one nested in it
          gate,     \* auditGateClosed
          stopping, \* shuttingDown
          pin,      \* audit-tip in the keychain
          acked,    \* history: the tip when a caller was last told of success
          failed,   \* history: a COMMIT has failed in this life
          fails, lives  \* bound counters

vars == <<depth, open, disk, conn, outer, inner, gate, stopping, pin, acked, failed, fails, lives>>

TypeOK ==
    /\ depth \in Int
    /\ open \in BOOLEAN
    /\ disk \in [Table -> Nat]
    /\ conn \in [Table -> Nat]
    /\ outer \in Frame
    /\ inner \in Frame
    /\ gate \in BOOLEAN
    /\ stopping \in BOOLEAN
    /\ pin \in Nat
    /\ acked \in Nat
    /\ failed \in BOOLEAN
    /\ fails \in Nat
    /\ lives \in Nat

Init ==
    /\ depth = 0
    /\ open = FALSE
    /\ disk = [t \in Table |-> 0]
    /\ conn = disk
    /\ outer = NoFrame
    /\ inner = NoFrame
    /\ gate = FALSE
    /\ stopping = FALSE
    /\ pin = 0
    /\ acked = 0
    /\ failed = FALSE
    /\ fails = 0
    /\ lives = 0

\* A transaction of kind k may go on the stack: handlers stop at gateOk, and only
\* shutdown has another transaction in its own.
MayEnter(k) ==
    \/ /\ k \in Outer
       /\ outer = NoFrame
       /\ k = "handler" => ~gate /\ ~stopping
       /\ k = "shutdown" => ~stopping
    \/ k \in Inner /\ outer = [kind |-> "shutdown", wrote |-> 0] /\ inner = NoFrame

\* The innermost transaction.
Top == IF inner = NoFrame THEN outer ELSE inner

\* It leaves the stack.
Leave ==
    /\ outer' = IF inner = NoFrame THEN NoFrame ELSE outer
    /\ inner' = NoFrame

\* commitAndPin and tick close the gate; the dispatcher and shutdown do not.
Closes(k) == k \in {"handler", "late", "checkpoint"}

Begin(k) ==
    /\ MayEnter(k)
    /\ ~(depth = 0 /\ open)
    /\ open' = IF depth = 0 THEN TRUE ELSE open
    /\ depth' = depth + 1
    /\ stopping' = IF k = "shutdown" THEN TRUE ELSE stopping
    /\ outer' = IF k \in Outer THEN [kind |-> k, wrote |-> 0] ELSE outer
    /\ inner' = IF k \in Inner THEN [kind |-> k, wrote |-> 0] ELSE inner
    /\ UNCHANGED <<disk, conn, gate, pin, acked, failed, fails, lives>>

\* BEGIN IMMEDIATE throws, out of begin and past txn: another process has the
\* write lock, or a transaction is open already.
BeginFails(k) ==
    /\ MayEnter(k)
    /\ depth = 0
    /\ open \/ fails < MaxFail
    /\ gate' = IF Closes(k) THEN TRUE ELSE gate
    /\ stopping' = IF k = "shutdown" THEN TRUE ELSE stopping
    /\ fails' = IF open THEN fails ELSE fails + 1
    /\ UNCHANGED <<depth, open, disk, conn, outer, inner, pin, acked, failed, lives>>

\* The table that the next statement of a transaction writes to.
Target(f) ==
    IF f.kind = "rpc" THEN IF f.wrote = 0 THEN "request" ELSE "relay"
    ELSE IF f.wrote = 0 THEN "receipts" ELSE "sessions"

\* A statement: part of the open transaction, or else committed by itself.
Write ==
    /\ Top # NoFrame
    /\ Top.wrote < 2
    /\ conn[Target(Top)] < MaxRows
    /\ conn' = [conn EXCEPT ![Target(Top)] = @ + 1]
    /\ disk' = IF open THEN disk ELSE [disk EXCEPT ![Target(Top)] = @ + 1]
    /\ outer' = IF inner = NoFrame THEN [outer EXCEPT !.wrote = @ + 1] ELSE outer
    /\ inner' = IF inner = NoFrame THEN inner ELSE [inner EXCEPT !.wrote = @ + 1]
    /\ UNCHANGED <<depth, open, gate, stopping, pin, acked, failed, fails, lives>>

\* After a commit, the engine pins the tip; a keychain that fails closes the gate.
\* A transaction that is not nested then answers its caller.
Pin(k) ==
    \/ /\ k # "rpc"
       /\ pin' = conn["receipts"]
       /\ acked' = IF inner = NoFrame THEN conn["receipts"] ELSE acked
       /\ UNCHANGED <<gate, fails>>
    \/ /\ k # "rpc"
       /\ fails < MaxFail
       /\ fails' = fails + 1
       /\ gate' = TRUE
       /\ UNCHANGED <<pin, acked>>
    \/ /\ k = "rpc"
       /\ UNCHANGED <<gate, pin, acked, fails>>

\* Mutant: the nested transaction ends the one around it.
CommitsAtAnyDepth == TRUE

\* Mutant: the counter is looked at before it is decremented.
CommitsTooSoon == depth = 0

\* COMMIT is sent when the counter comes back to zero.
Commits == depth - 1 = 0

\* fn returns and commit succeeds.
Commit ==
    /\ Top # NoFrame
    /\ Top.wrote \in {0, 2}
    /\ depth' = depth - 1
    /\ disk' = IF Commits THEN conn ELSE disk
    /\ open' = IF Commits THEN FALSE ELSE open
    /\ Leave
    /\ Pin(Top.kind)
    /\ UNCHANGED <<conn, stopping, failed, lives>>

\* COMMIT throws: commit has decremented the counter, txn's handler calls rollback,
\* which decrements it again and sends no ROLLBACK.  SQLite keeps the transaction
\* open or has rolled it back by itself.
CommitFails ==
    /\ Top # NoFrame
    /\ Top.wrote \in {0, 2}
    /\ Commits
    /\ fails < MaxFail
    /\ fails' = fails + 1
    /\ failed' = TRUE
    /\ depth' = depth - 2
    /\ open' \in BOOLEAN
    /\ conn' = IF open' THEN conn ELSE disk
    /\ gate' = IF Closes(Top.kind) THEN TRUE ELSE gate
    /\ Leave
    /\ UNCHANGED <<disk, stopping, pin, acked, lives>>

\* rollback sends ROLLBACK when the counter comes back to zero.
RollsBack == depth - 1 = 0

\* fn throws a typed error between its statements, and rollback undoes them.
Throw ==
    /\ outer # NoFrame /\ inner = NoFrame
    /\ depth' = depth - 1
    /\ conn' = IF RollsBack THEN disk ELSE conn
    /\ open' = IF RollsBack THEN FALSE ELSE open
    /\ outer' = NoFrame
    /\ UNCHANGED <<disk, inner, gate, stopping, pin, acked, failed, fails, lives>>

\* The process dies and a new one starts.
Restart ==
    /\ lives < MaxLives
    /\ lives' = lives + 1
    /\ depth' = 0
    /\ open' = FALSE
    /\ conn' = disk
    /\ outer' = NoFrame
    /\ inner' = NoFrame
    /\ gate' = FALSE
    /\ stopping' = FALSE
    /\ failed' = FALSE
    /\ acked' = disk["receipts"]
    /\ UNCHANGED <<disk, pin, fails>>

Next ==
    \/ \E k \in Outer \cup Inner : Begin(k) \/ BeginFails(k)
    \/ Write \/ Commit \/ CommitFails \/ Throw
    \/ Restart

Spec == Init /\ [][Next]_vars

-----------------------------------------------------------------------------
\* What is durable of a transaction, whatever else is on the stack and whenever
\* the process dies, is both its statements or none, as long as no COMMIT has
\* failed in this life of the daemon.
AtomicWhileSound ==
    [][~failed => /\ disk'["receipts"] - disk["receipts"] = disk'["sessions"] - disk["sessions"]
                  /\ disk'["request"] - disk["request"] = disk'["relay"] - disk["relay"]]_vars

\* What a caller was told has been recorded would survive a crash, with the same
\* proviso.
AckedIsDurable == ~failed => acked <= disk["receipts"]

\* The gate closes when a write fails, so while it is open what a handler was told
\* has been recorded (the intent of the action it goes on to dispatch) is durable.
OpenGateIsDurable == ~gate => acked <= disk["receipts"]

\* The pinned tip is evidence against a chain that is shorter, so it never runs
\* ahead of what has been committed.
PinNotAhead == pin <= disk["receipts"]
=============================================================================

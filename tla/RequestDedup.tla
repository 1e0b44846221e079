---------------------------- MODULE RequestDedup ----------------------------
(***************************************************************************)
(* Dispatcher.dispatch of src/rpc.ts, from the requests table on: a call   *)
(* is looked up by its id, marked PENDING, handed to the engine, awaited,  *)
(* and its answer stored for repeats.  Clients (src/client.ts) repeat a    *)
(* call with the same id when it times out or fails with a retryable code; *)
(* copies of one call may be in flight together.  The daemon may die at    *)
(* any await; Daemon.start removes the PENDING rows before it serves.      *)
(*                                                                         *)
(* One caller (rows are keyed by the caller's scope), methods that the     *)
(* terminal pre-gate stops, and a store whose transactions do not fail.  A *)
(* call that hangs for as long as DEDUP_MS (a day) is not modelled: a row  *)
(* is old only when no call of its id is in flight.                        *)
(***************************************************************************)
EXTENDS Naturals

CONSTANTS Id,         \* request ids
          Slot,       \* bound: calls in flight
          MaxRuns,    \* bound: times the engine is asked for each id
          MaxCrash    \* bound: deaths of the daemon

ASSUME RequestAssumption == "none" \notin Id

\* What the engine answers: a result, a failure, or a failure whose code the
\* clients take to be temporary (BUSY, RATE_LIMITED, COOLDOWN_ACTIVE, ...).
Outcome == {"ok", "failed", "retryable"}

\* A row of requests; `answer` is response_cipher and `run` tells the executions
\* of one id apart.
Row == [state : {"none", "PENDING", "DONE"}, answer : Outcome \cup {"none"}, run : Nat]
NoRow == [state |-> "none", answer |-> "none", run |-> 0]

VARIABLES rows,      \* the requests table
          call,      \* the calls awaiting the engine: the id and the run
          up,        \* whether the daemon serves
          terminal,  \* whether the session the calls are about is terminal
          runs,      \* times the engine was asked, by id
          window,    \* history: the same, since the row was last removed
          crashes    \* bound counter

dedupVars == <<rows, call, up, terminal, runs, window, crashes>>

Call == [id : Id \cup {"none"}, run : Nat]
NoCall == [id |-> "none", run |-> 0]

DedupTypeOK ==
    /\ rows \in [Id -> Row]
    /\ call \in [Slot -> Call]
    /\ up \in BOOLEAN
    /\ terminal \in BOOLEAN
    /\ runs \in [Id -> Nat]
    /\ window \in [Id -> Nat]
    /\ crashes \in Nat

DedupInit ==
    /\ rows = [i \in Id |-> NoRow]
    /\ call = [t \in Slot |-> NoCall]
    /\ up = TRUE
    /\ terminal = FALSE
    /\ runs = [i \in Id |-> 0]
    /\ window = [i \in Id |-> 0]
    /\ crashes = 0

\* Mutant: a row in any state but DONE lets the call through.
MayRunPending(i) == rows[i].state # "DONE"

\* requestRow finds nothing: not PENDING (the copy is answered BUSY) and not DONE
\* (the copy is answered from the row).
MayRun(i) == rows[i].state = "none"

\* The rows a DELETE ... WHERE created_ms < now - DEDUP_MS may find.
MayBeOld == {i \in Id : rows[i].state # "none" /\ \A t \in Slot : call[t].id # i}

\* dispatch up to its await: the pre-gate on terminal sessions, the lookup, the
\* PENDING row with the purge of the old ones, and the call of the engine.
Dispatch(t, i) ==
    /\ up
    /\ call[t] = NoCall
    /\ ~terminal
    /\ MayRun(i)
    /\ runs[i] < MaxRuns
    /\ \E old \in SUBSET (MayBeOld \ {i}) :
         /\ rows' = [j \in Id |->
                IF j = i THEN [state |-> "PENDING", answer |-> "none", run |-> runs[i] + 1]
                ELSE IF j \in old THEN NoRow ELSE rows[j]]
         /\ window' = [j \in Id |-> IF j = i THEN window[i] + 1
                                    ELSE IF j \in old THEN 0 ELSE window[j]]
    /\ call' = [call EXCEPT ![t] = [id |-> i, run |-> runs[i] + 1]]
    /\ runs' = [runs EXCEPT ![i] = @ + 1]
    /\ UNCHANGED <<up, terminal, crashes>>

\* The UPDATE that caches the completed response, success or failure, in the row
\* if there is one.
StoreAnswer(i, outcome, run) ==
    [rows EXCEPT ![i] = IF @.state = "none" THEN @
                        ELSE [state |-> "DONE", answer |-> outcome, run |-> run]]

\* The engine answers or throws; the answer is cached and sent.
Complete(t) ==
    /\ up
    /\ call[t] # NoCall
    /\ \E outcome \in Outcome : rows' = StoreAnswer(call[t].id, outcome, call[t].run)
    /\ call' = [call EXCEPT ![t] = NoCall]
    /\ UNCHANGED <<up, terminal, runs, window, crashes>>

\* Some call of the engine ends the session.
EndSession ==
    /\ up /\ ~terminal
    /\ terminal' = TRUE
    /\ UNCHANGED <<rows, call, up, runs, window, crashes>>

Crash ==
    /\ up
    /\ crashes < MaxCrash
    /\ up' = FALSE
    /\ crashes' = crashes + 1
    /\ call' = [t \in Slot |-> NoCall]
    /\ UNCHANGED <<rows, terminal, runs, window>>

\* Mutant: start leaves the requests table as it is.
ClearedRowsKept == rows

\* Mutant: start answers every row, instead of removing the PENDING ones.
ClearedRowsAnswered ==
    [i \in Id |-> IF rows[i].state = "none" THEN NoRow
                  ELSE [rows[i] EXCEPT !.state = "DONE", !.answer = "failed"]]

\* Daemon.start: DELETE FROM requests WHERE state='PENDING'.
ClearedRows == [i \in Id |-> IF rows[i].state = "PENDING" THEN NoRow ELSE rows[i]]

Start ==
    /\ ~up
    /\ up' = TRUE
    /\ rows' = ClearedRows
    /\ window' = [i \in Id |-> IF rows[i].state = "PENDING" THEN 0 ELSE window[i]]
    /\ UNCHANGED <<call, terminal, runs, crashes>>

DedupNext ==
    \/ \E t \in Slot : Complete(t) \/ \E i \in Id : Dispatch(t, i)
    \/ EndSession \/ Crash \/ Start

DedupSpec == DedupInit /\ [][DedupNext]_dedupVars

-----------------------------------------------------------------------------
\* Copies of a call, together or after one another, reach the engine once, until
\* the row is purged after a day or the daemon dies with the call in flight.
OncePerWindow == \A i \in Id : window[i] <= 1

\* A PENDING row refuses every copy with BUSY, so it must not outlive its call:
\* while the daemon serves, some call in flight is going to complete it.
PendingIsDriven ==
    \A i \in Id : up /\ rows[i].state = "PENDING" =>
        \E t \in Slot : call[t] = [id |-> i, run |-> rows[i].run]

\* An answer that has been stored is what every repeat is answered, across deaths
\* of the daemon and calls that complete late: it is never replaced by another.
AnswersAreFinal ==
    [][\A i \in Id : rows[i].state = "DONE" => rows'[i] \in {rows[i], NoRow}]_dedupVars

\* client.ts repeats a call whose failure is marked retryable, with the same id:
\* such a failure is not what every repeat will be answered.
RetryableMayBeRetried == \A i \in Id : rows[i].answer # "retryable"
=============================================================================

--------------------------- MODULE StoreTxnProofs ---------------------------
(***************************************************************************)
(* Until a COMMIT fails, transactions are atomic and what was acknowledged *)
(* is durable, for any number of rows, failures and lives.  Neither        *)
(* property is inductive: that disk changes by whole transactions rests on *)
(* the counter being the height of the stack and on SQLite's transaction   *)
(* being open exactly while the stack is not empty.                        *)
(***************************************************************************)
EXTENDS StoreTxn, TLAPS

\* One when the innermost transaction of the engine, or of the dispatcher, has
\* written its first row and not its second.
EngineHalf == IF Top.wrote = 1 /\ Top.kind # "rpc" THEN 1 ELSE 0
RpcHalf == IF Top.wrote = 1 /\ Top.kind = "rpc" THEN 1 ELSE 0

\* TypeOK in two parts, for two provers.
Flags == /\ open \in BOOLEAN
         /\ gate \in BOOLEAN
         /\ stopping \in BOOLEAN
         /\ failed \in BOOLEAN
Values == /\ depth \in Int
          /\ disk \in [Table -> Nat]
          /\ conn \in [Table -> Nat]
          /\ outer \in Frame
          /\ inner \in Frame
          /\ pin \in Nat
          /\ acked \in Nat
          /\ fails \in Nat
          /\ lives \in Nat

\* What is on the stack.
Stack ==
    /\ outer.kind \in Outer \cup {"none"}
    /\ inner.kind \in Inner \cup {"none"}
    /\ outer.kind = "none" => outer = NoFrame
    /\ inner.kind = "none" => inner = NoFrame
    /\ inner # NoFrame => outer = [kind |-> "shutdown", wrote |-> 0]

\* The counter and SQLite's transaction agree with the stack.
Counter ==
    /\ depth = (IF outer = NoFrame THEN 0 ELSE 1) + (IF inner = NoFrame THEN 0 ELSE 1)
    /\ open <=> outer # NoFrame
    /\ outer = NoFrame => conn = disk

\* What has been written and not committed.
Pending ==
    /\ conn["receipts"] >= disk["receipts"]
    /\ conn["receipts"] - disk["receipts"] = conn["sessions"] - disk["sessions"] + EngineHalf
    /\ conn["request"] - disk["request"] = conn["relay"] - disk["relay"] + RpcHalf

IInv == TypeOK /\ Stack /\ (~failed => Counter /\ Pending /\ acked <= disk["receipts"])

\* The empty store.
LEMMA InitIInv == Init => IInv
<1> USE DEF Init, NoFrame, Outer, Inner
<1>0. Init => Stack
  BY DEF Stack
<1>3. Init => Flags
  BY DEF Flags
<1>1. Init => Values
  BY DEF Values, Frame, Table
<1>2. Init => Counter /\ Pending /\ acked <= disk["receipts"]
  BY DEF Counter, Pending, EngineHalf, RpcHalf, Top, Table
<1> QED
  BY <1>0, <1>1, <1>2, <1>3 DEF IInv, TypeOK, Flags, Values

\* begin
LEMMA BeginIInv == ASSUME NEW k \in Outer \cup Inner, IInv, Begin(k) PROVE IInv'
<1> USE DEF Begin, MayEnter, NoFrame, Outer, Inner
<1>1. TypeOK'
  <2>1. Values'
    BY DEF IInv, TypeOK, Values, Frame
  <2>2. Flags'
    BY DEF IInv, TypeOK, Flags
  <2> QED BY <2>1, <2>2 DEF TypeOK, Values, Flags
<1>2. Stack'
  BY DEF IInv, TypeOK, Stack, Frame
<1>3. ASSUME ~failed PROVE Counter' /\ Pending' /\ acked' <= disk'["receipts"]
  <2>1. /\ Counter /\ Pending /\ Stack /\ TypeOK
        /\ acked' = acked /\ disk' = disk /\ conn' = conn /\ acked <= disk["receipts"]
    BY <1>3 DEF IInv
  <2>2. Counter'
    BY <2>1 DEF Counter, Stack
  <2>3. Top'.wrote = 0 /\ (Top.wrote = 0 \/ Top = NoFrame)
    BY <2>1 DEF Top, Stack
  <2>4. Pending'
    BY <2>1, <2>3 DEF Pending, EngineHalf, RpcHalf
  <2> QED BY <2>1, <2>2, <2>4
<1> QED
  BY <1>1, <1>2, <1>3 DEF IInv

\* A statement
LEMMA WriteIInv == ASSUME IInv, Write PROVE IInv'
<1> USE DEF Write, NoFrame, Top
<1>t. Target(Top) \in Table
  BY DEF Target, Table
<1>1. TypeOK'
  <2>1. /\ Top \in Frame
        /\ Top.wrote \in 0..1
    BY DEF IInv, TypeOK, Frame
  <2>2. conn' \in [Table -> Nat] /\ disk' \in [Table -> Nat]
    BY <1>t DEF IInv, TypeOK
  <2>3. outer' \in Frame /\ inner' \in Frame
    BY <2>1 DEF IInv, TypeOK, Frame
  <2> QED
    BY <2>2, <2>3 DEF IInv, TypeOK
<1>2. Stack'
  BY DEF IInv, TypeOK, Stack, Frame, Outer, Inner
<1>3. ASSUME ~failed PROVE Counter' /\ Pending' /\ acked' <= disk'["receipts"]
  <2>1. open /\ disk' = disk
    BY <1>3 DEF IInv, Stack, Counter, TypeOK, Frame
  <2>2. Counter'
    BY <1>3, <2>1 DEF IInv, TypeOK, Stack, Counter, Frame, Outer, Inner
  <2>3. Pending'
    <3>1. /\ Top' = [kind |-> Top.kind, wrote |-> Top.wrote + 1]
          /\ Top.wrote \in 0..1
      BY DEF IInv, TypeOK, Stack, Frame, Outer, Inner
    <3> HIDE DEF Top
    <3>2. conn["receipts"] \in Nat /\ conn["sessions"] \in Nat /\ conn["request"] \in Nat
          /\ conn["relay"] \in Nat /\ disk["receipts"] \in Nat /\ disk["sessions"] \in Nat
          /\ disk["request"] \in Nat /\ disk["relay"] \in Nat
      BY DEF IInv, TypeOK, Table
    <3>3. CASE Top.kind = "rpc"
      <4>1. CASE Top.wrote = 0
        BY <1>3, <2>1, <3>1, <3>2, <3>3, <4>1 DEF IInv, TypeOK, Pending, EngineHalf, RpcHalf, Target, Table
      <4>2. CASE Top.wrote = 1
        BY <1>3, <2>1, <3>1, <3>2, <3>3, <4>2 DEF IInv, TypeOK, Pending, EngineHalf, RpcHalf, Target, Table
      <4> QED BY <3>1, <4>1, <4>2
    <3>4. CASE Top.kind # "rpc"
      <4>1. CASE Top.wrote = 0
        BY <1>3, <2>1, <3>1, <3>2, <3>4, <4>1 DEF IInv, TypeOK, Pending, EngineHalf, RpcHalf, Target, Table
      <4>2. CASE Top.wrote = 1
        BY <1>3, <2>1, <3>1, <3>2, <3>4, <4>2 DEF IInv, TypeOK, Pending, EngineHalf, RpcHalf, Target, Table
      <4> QED BY <3>1, <4>1, <4>2
    <3> QED BY <3>3, <3>4
  <2> QED
    BY <1>3, <2>1, <2>2, <2>3 DEF IInv
<1> QED
  BY <1>1, <1>2, <1>3 DEF IInv

\* commit, with the pin that follows
LEMMA CommitIInv == ASSUME IInv, Commit PROVE IInv'
<1> USE DEF Commit, Leave, NoFrame, Commits
<1>1. TypeOK'
  <2>1. Values'
    BY DEF IInv, TypeOK, Values, Pin, Frame, Table
  <2>2. Flags'
    BY DEF IInv, TypeOK, Flags, Pin
  <2> QED BY <2>1, <2>2 DEF TypeOK, Values, Flags
<1>2. Stack'
  BY DEF IInv, TypeOK, Stack, Outer, Inner
<1>3. ASSUME ~failed PROVE Counter' /\ Pending' /\ acked' <= disk'["receipts"]
  <2>1. /\ conn["receipts"] \in Nat /\ disk["receipts"] \in Nat /\ conn["receipts"] >= disk["receipts"]
        /\ acked \in Nat /\ acked <= disk["receipts"]
    BY <1>3 DEF IInv, TypeOK, Pending, Table
  <2>2. CASE inner = NoFrame
    <3>1. depth = 1 /\ disk' = conn /\ ~open' /\ outer' = NoFrame /\ inner' = NoFrame
      BY <1>3, <2>2 DEF IInv, Counter, Top
    <3>2. Counter' /\ Pending'
      BY <3>1, <1>1 DEF Counter, Pending, EngineHalf, RpcHalf, Top, TypeOK, Table
    <3>3. acked' <= disk'["receipts"]
      BY <2>1, <2>2, <3>1 DEF Pin
    <3> QED BY <3>2, <3>3
  <2>3. CASE inner # NoFrame
    <3>1. /\ depth = 2 /\ disk' = disk /\ conn' = conn /\ (open' <=> open) /\ outer' = outer /\ inner' = NoFrame
          /\ outer = [kind |-> "shutdown", wrote |-> 0]
          /\ Top = inner /\ Top' = outer
      BY <1>3, <2>3 DEF IInv, Counter, Stack, Top, TypeOK
    <3>2. Counter'
      BY <1>3, <3>1 DEF IInv, Counter
    <3>3. EngineHalf = 0 /\ RpcHalf = 0 /\ EngineHalf' = 0 /\ RpcHalf' = 0
      BY <3>1 DEF EngineHalf, RpcHalf
    <3>4. Pending'
      BY <1>3, <3>1, <3>3 DEF IInv, Pending
    <3>5. acked' <= disk'["receipts"]
      BY <2>1, <2>3, <3>1 DEF Pin
    <3> QED BY <3>2, <3>4, <3>5
  <2> QED BY <2>2, <2>3
<1> QED
  BY <1>1, <1>2, <1>3 DEF IInv

\* rollback
LEMMA ThrowIInv == ASSUME IInv, Throw PROVE IInv'
<1> USE DEF Throw, NoFrame, RollsBack
<1>1. TypeOK'
  <2>1. Values'
    BY DEF IInv, TypeOK, Values, Frame
  <2>2. Flags'
    BY DEF IInv, TypeOK, Flags
  <2> QED BY <2>1, <2>2 DEF TypeOK, Values, Flags
<1>2. Stack'
  BY DEF IInv, TypeOK, Stack, Outer, Inner
<1>3. ASSUME ~failed PROVE Counter' /\ Pending' /\ acked' <= disk'["receipts"]
  <2>1. conn' = disk /\ disk' = disk /\ ~open' /\ depth' = 0
    BY <1>3 DEF IInv, Counter
  <2> QED
    BY <1>3, <2>1 DEF IInv, TypeOK, Table, Counter, Pending, EngineHalf, RpcHalf, Top
<1> QED
  BY <1>1, <1>2, <1>3 DEF IInv

\* Every step.
LEMMA NextIInv == IInv /\ [Next]_vars => IInv'
<1> SUFFICES ASSUME IInv, [Next]_vars PROVE IInv'
  OBVIOUS
<1>1. ASSUME NEW k \in Outer \cup Inner, Begin(k) PROVE IInv'
  BY <1>1, BeginIInv
<1>2. ASSUME NEW k \in Outer \cup Inner, BeginFails(k) PROVE IInv'
  <2>1. Values'
    BY <1>2 DEF BeginFails, IInv, TypeOK, Values
  <2>2. Flags'
    BY <1>2 DEF BeginFails, Closes, IInv, TypeOK, Flags
  <2>3. Stack' /\ (~failed' => Counter' /\ Pending' /\ acked' <= disk'["receipts"])
    BY <1>2 DEF BeginFails, IInv, Stack, Counter, Pending, EngineHalf, RpcHalf, Top
  <2> QED BY <2>1, <2>2, <2>3 DEF IInv, TypeOK, Values, Flags
<1>3. CASE Write
  BY <1>3, WriteIInv
<1>4. CASE Commit
  BY <1>4, CommitIInv
<1>5. CASE CommitFails
  <2>1. Values'
    BY <1>5 DEF CommitFails, Leave, IInv, TypeOK, Values, NoFrame, Frame
  <2>2. Flags'
    BY <1>5 DEF CommitFails, Closes, IInv, TypeOK, Flags
  <2>3. Stack'
    BY <1>5 DEF CommitFails, Leave, IInv, TypeOK, Stack, NoFrame, Frame, Outer, Inner
  <2>4. failed'
    BY <1>5 DEF CommitFails
  <2> QED BY <2>1, <2>2, <2>3, <2>4 DEF IInv, TypeOK, Values, Flags
<1>6. CASE Throw
  BY <1>6, ThrowIInv
<1>7. CASE Restart
  <2>0. Flags' /\ Stack'
    BY <1>7 DEF Restart, Flags, Stack, NoFrame, Outer, Inner
  <2>1. Values'
    BY <1>7 DEF Restart, IInv, TypeOK, Values, NoFrame, Frame, Table
  <2>2. Counter'
    BY <1>7 DEF Restart, Counter
  <2>3. Pending' /\ acked' <= disk'["receipts"]
    BY <1>7, <2>1 DEF Restart, Values, Pending, EngineHalf, RpcHalf, Top, NoFrame, Table
  <2> QED BY <2>0, <2>1, <2>2, <2>3 DEF IInv, TypeOK, Values, Flags
<1>8. CASE UNCHANGED vars
  BY <1>8 DEF vars, IInv, TypeOK, Stack, Counter, Pending, EngineHalf, RpcHalf, Top
<1> QED
  BY <1>1, <1>2, <1>3, <1>4, <1>5, <1>6, <1>7, <1>8 DEF Next

\* The store is sound until a COMMIT fails.
LEMMA StoreIInv == Spec => []IInv
BY InitIInv, NextIInv, PTL DEF Spec

\* What a caller was told has been recorded is durable, until a COMMIT fails: the
\* answer leaves only when the counter is back at zero and COMMIT has been sent.
THEOREM AcknowledgedIsDurable == Spec => []AckedIsDurable
<1>1. IInv => AckedIsDurable
  BY DEF IInv, AckedIsDurable
<1> QED
  BY <1>1, StoreIInv, PTL

\* The table of durable rows changes by whole transactions only, until a COMMIT
\* fails: by both statements of the engine's and of the dispatcher's, or neither.
THEOREM TransactionsAreAtomic == Spec => AtomicWhileSound
<1> DEFINE Whole == /\ disk'["receipts"] - disk["receipts"] = disk'["sessions"] - disk["sessions"]
                    /\ disk'["request"] - disk["request"] = disk'["relay"] - disk["relay"]
<1>1. ASSUME IInv, [Next]_vars, ~failed PROVE Whole
  <2>0. disk \in [Table -> Nat]
    BY <1>1 DEF IInv, TypeOK
  <2>1. CASE disk' = disk
    BY <2>0, <2>1 DEF Table
  <2>2. CASE Write
    <3>1. open /\ disk' = disk
      BY <1>1, <2>2 DEF Write, IInv, Stack, Counter, Top, NoFrame
    <3> QED BY <3>1, <2>1
  <2>3. CASE Commit
    <3>1. CASE disk' = conn
      <4>1. EngineHalf = 0 /\ RpcHalf = 0
        BY <2>3 DEF Commit, EngineHalf, RpcHalf
      <4> QED
        BY <1>1, <3>1, <4>1 DEF IInv, TypeOK, Table, Pending
    <3> QED
      BY <2>1, <2>3, <3>1 DEF Commit
  <2> QED
    BY <1>1, <2>1, <2>2, <2>3 DEF Next, vars, Begin, BeginFails, CommitFails, Throw, Restart
<1>2. IInv /\ [Next]_vars => [~failed => Whole]_vars
  BY <1>1
<1> QED
  BY <1>2, StoreIInv, PTL DEF Spec, AtomicWhileSound
=============================================================================

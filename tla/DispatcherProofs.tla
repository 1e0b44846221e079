-------------------------- MODULE DispatcherProofs --------------------------
(***************************************************************************)
(* The dispatcher, stage by stage.  Its gate (ProofGate): no proof is      *)
(* accepted twice under one key, for any number of proofs, any skew, and   *)
(* any retention of at least twice the skew; the rate limit holds in every *)
(* window, and the time a refusal names is honoured, for every window and  *)
(* limit.  Its requests table (RequestDedup): one run per request id and   *)
(* window, and answers that stay, for any number of ids and of calls in    *)
(* flight.  The two share no variable.                                     *)
(***************************************************************************)
EXTENDS ProofGate, RequestDedup, FiniteSetTheorems, TLAPS

\* The types of what authentication reads and writes.
GateTypeOK ==
    /\ now \in Nat
    /\ signed \subseteq Proof
    /\ issued \in [Proof -> Nat]
    /\ cache \in [Key -> Nat]
    /\ accepted \in [Key -> Nat]

\* A proof that has been accepted is still remembered, or has expired.
Remembered ==
    \A k \in Key : accepted[k] # 0 =>
        /\ k[2] \in signed
        /\ \/ cache[k] >= issued[k[2]] + Skew
           \/ now >= issued[k[2]] + Skew

IndInv == GateTypeOK /\ Remembered /\ AcceptedOnce

\* The proof of a key is one of the proofs.
LEMMA KeyProof == \A k \in Key : k[2] \in Proof
BY DEF Key, Proof

\* A new proof changes nothing that is remembered of the others.
LEMMA SignStep == ASSUME IndInv, NEW p \in Proof, Sign(p) PROVE IndInv'
<1>1. GateTypeOK'
  BY DEF IndInv, GateTypeOK, Sign
<1>2. AcceptedOnce'
  BY DEF IndInv, AcceptedOnce, Sign
<1>3. Remembered'
  <2> SUFFICES ASSUME NEW k \in Key, accepted[k] # 0
               PROVE  /\ k[2] \in signed'
                      /\ \/ cache[k] >= issued'[k[2]] + Skew
                         \/ now >= issued'[k[2]] + Skew
    BY DEF Remembered, Sign
  <2>1. k[2] \in signed /\ k[2] # p
    BY DEF IndInv, Remembered, Sign
  <2>2. issued'[k[2]] = issued[k[2]]
    BY <2>1, KeyProof DEF Sign, IndInv, GateTypeOK
  <2> QED BY <2>1, <2>2 DEF IndInv, Remembered, Sign
<1> QED BY <1>1, <1>2, <1>3 DEF IndInv

\* A clock that moves forward makes nothing younger.
LEMMA ClockStep == ASSUME IndInv, ClockTicks PROVE IndInv'
<1>1. GateTypeOK' /\ AcceptedOnce'
  BY DEF IndInv, GateTypeOK, AcceptedOnce, ClockTicks
<1>2. Remembered'
  <2> SUFFICES ASSUME NEW k \in Key, accepted[k] # 0
               PROVE  /\ k[2] \in signed
                      /\ \/ cache[k] >= issued[k[2]] + Skew
                         \/ now' >= issued[k[2]] + Skew
    BY DEF Remembered, ClockTicks
  <2>1. issued[k[2]] \in Nat /\ cache[k] \in Nat /\ now \in Nat /\ now' = now + 1
    BY KeyProof DEF IndInv, GateTypeOK, ClockTicks
  <2> QED BY <2>1, TimeAssumption DEF IndInv, Remembered
<1> QED BY <1>1, <1>2 DEF IndInv

\* Authentication accepts a key for the first time, and remembers it until its
\* proof has expired, whatever the signer's clock said.
LEMMA AuthenticateStep ==
    ASSUME IndInv, NEW proofs, NEW keys \in SUBSET Key,
           \A k \in keys : k[2] \in proofs,
           Authenticate(proofs, keys)
    PROVE  IndInv'
<1>1. GateTypeOK'
  BY TimeAssumption DEF IndInv, GateTypeOK, Authenticate, AcceptedCache
<1>2. ASSUME NEW k \in keys PROVE accepted[k] = 0
  <2>1. /\ k \in Key /\ k[2] \in Proof /\ k[2] \in signed
        /\ now < issued[k[2]] + Skew
        /\ cache[k] <= now
    BY <1>2, KeyProof DEF Authenticate, InTime
  <2>2. now \in Nat /\ cache[k] \in Nat /\ issued[k[2]] \in Nat
    BY <2>1 DEF IndInv, GateTypeOK
  <2> QED BY <2>1, <2>2, TimeAssumption DEF IndInv, Remembered
<1>3. AcceptedOnce'
  <2> SUFFICES ASSUME NEW k \in Key PROVE accepted'[k] <= 1
    BY DEF AcceptedOnce
  <2>1. CASE k \in keys
    BY <1>2, <2>1 DEF Authenticate
  <2>2. CASE k \notin keys
    BY <2>2 DEF Authenticate, IndInv, AcceptedOnce
  <2> QED BY <2>1, <2>2
<1>4. Remembered'
  <2> SUFFICES ASSUME NEW k \in Key, accepted'[k] # 0
               PROVE  /\ k[2] \in signed
                      /\ \/ cache'[k] >= issued[k[2]] + Skew
                         \/ now >= issued[k[2]] + Skew
    BY DEF Remembered, Authenticate
  <2>1. now \in Nat /\ cache[k] \in Nat /\ issued[k[2]] \in Nat
    BY KeyProof DEF IndInv, GateTypeOK
  <2>2. CASE k \in keys
    <3>1. k[2] \in signed /\ issued[k[2]] <= now + Skew
      BY <2>2 DEF Authenticate, InTime
    <3>2. cache'[k] = now + Retention
      BY <2>2 DEF Authenticate, AcceptedCache
    <3> QED BY <2>1, <3>1, <3>2, TimeAssumption, RetentionAssumption
  <2>3. CASE k \notin keys
    <3>1. accepted[k] # 0
      BY <2>3 DEF Authenticate
    <3>2. cache'[k] = IF cache[k] <= now THEN 0 ELSE cache[k]
      BY <2>3 DEF Authenticate, AcceptedCache
    <3> QED BY <2>1, <3>1, <3>2, TimeAssumption DEF IndInv, Remembered
  <2> QED BY <2>2, <2>3
<1> QED BY <1>1, <1>3, <1>4 DEF IndInv

\* IndInv is inductive.
LEMMA GateInductive == IndInv /\ [Next]_vars => IndInv'
<1> SUFFICES ASSUME IndInv, [Next]_vars PROVE IndInv'
  OBVIOUS
<1>1. ASSUME NEW p \in Proof, Sign(p) PROVE IndInv'
  BY <1>1, SignStep
<1>2. ASSUME NEW c \in Caller, Remote(c) PROVE IndInv'
  <2>1. {<<"direct", c>>} \in SUBSET Key
    BY <1>2 DEF Key
  <2>2. \A k \in {<<"direct", c>>} : k[2] \in {c}
    OBVIOUS
  <2> QED BY <1>2, <2>1, <2>2, AuthenticateStep DEF Remote
<1>3. ASSUME NEW c \in Caller, NEW r \in Relay, DispatchForward(c, r) PROVE IndInv'
  <2>1. {<<"request", c>>, <<"relay", r>>} \in SUBSET Key
    BY <1>3 DEF Key
  <2>2. \A k \in {<<"request", c>>, <<"relay", r>>} : k[2] \in {c, r}
    OBVIOUS
  <2> QED BY <1>3, <2>1, <2>2, AuthenticateStep DEF DispatchForward
<1>4. CASE ClockTicks
  BY <1>4, ClockStep
<1>5. CASE UNCHANGED vars
  BY <1>5 DEF vars, IndInv, GateTypeOK, Remembered, AcceptedOnce
<1> QED BY <1>1, <1>2, <1>3, <1>4, <1>5 DEF Next

\* A proof that verifyProof and nonceAccept have accepted is never accepted again:
\* a retention of twice the skew is enough, to the millisecond.
THEOREM ProofsAcceptedOnce == Spec => []AcceptedOnce
<1>1. Init => IndInv
  BY DEF Init, IndInv, GateTypeOK, Remembered, AcceptedOnce
<1>2. IndInv => AcceptedOnce
  BY DEF IndInv
<1> QED BY <1>1, <1>2, GateInductive, PTL DEF Spec

-----------------------------------------------------------------------------
(* The rate limit.  The row lists every call that is still in the window, so *)
(* the call RateMax places before one that passes has left it; and the row   *)
(* never lists more than RateMax calls, so once one of those that a refusal  *)
(* counted has left the window there is room.                                *)

RateTypeOK ==
    /\ now \in Nat /\ promised \in Nat
    /\ passed \in Seq(Nat)
    /\ stamps \subseteq 1..Len(passed)

\* The clock does not run backwards.
PassedInOrder ==
    \A j \in 1..Len(passed) : passed[j] <= now /\ \A i \in 1..j : passed[i] <= passed[j]

\* The row lists what is inside the window, and at most RateMax calls.
RowIsComplete ==
    /\ \A i \in 1..Len(passed) : passed[i] + RateWindow >= now => i \in stamps
    /\ Cardinality(stamps) <= RateMax

\* A refusal that still counts named the time of a call on the row.
RefusalNamesCall == promised # 0 => \E i \in stamps : passed[i] + RateWindow = promised

RateInv == RateTypeOK /\ PassedInOrder /\ RowIsComplete /\ RefusalNamesCall /\ RateBounded

\* The row and what is live of it are finite.
LEMMA RowFinite ==
    ASSUME RateTypeOK
    PROVE  /\ IsFiniteSet(stamps) /\ Cardinality(stamps) \in Nat
           /\ IsFiniteSet(Live) /\ Cardinality(Live) \in Nat
           /\ Cardinality(Live) <= Cardinality(stamps)
<1>1. Len(passed) \in Nat
  BY DEF RateTypeOK
<1>2. IsFiniteSet(1..Len(passed))
  BY <1>1, FS_Interval
<1>3. IsFiniteSet(stamps)
  BY <1>2, FS_Subset DEF RateTypeOK
<1>4. Live \in SUBSET stamps
  BY DEF Live
<1>5. IsFiniteSet(Live) /\ Cardinality(Live) <= Cardinality(stamps)
  BY <1>3, <1>4, FS_Subset
<1> QED BY <1>3, <1>5, FS_CardinalityType

\* A set of natural numbers that is not empty has a least one.
LEMMA LeastNatural ==
    ASSUME NEW S \in SUBSET Nat, S # {}
    PROVE  \E i \in S : \A j \in S : i <= j
<1> DEFINE R == OpToRel(<, Nat)
<1>1. \A i, j \in Nat : <<i, j>> \in R <=> i < j
  BY DEF OpToRel
<1>2. IsWellFoundedOn(R, Nat)
  BY NatLessThanWellFounded
<1> HIDE DEF R
<1>3. S \subseteq Nat
  OBVIOUS
<1>4. \E i \in S : \A j \in S : ~(<<j, i>> \in R)
  BY <1>2, <1>3, WFMin, Zenon
<1>5. PICK i \in S : \A j \in S : ~(<<j, i>> \in R)
  BY <1>4
<1>6. ASSUME NEW j \in S PROVE i <= j
  <2>1. i \in Nat /\ j \in Nat
    BY <1>3
  <2>2. <<j, i>> \in R <=> j < i
    BY <1>1, <2>1, Zenon
  <2>3. ~(<<j, i>> \in R)
    BY <1>5, Zenon
  <2>4. ~(j < i)
    BY <2>2, <2>3, Zenon
  <2> QED BY <2>1, <2>4
<1> QED BY <1>6

\* A refusal looks at a call that is on the row.
LEMMA FirstIsLive == ASSUME RateTypeOK, Limited PROVE First \in Live
<1>1. Live # {}
  <2>1. Cardinality({}) = 0
    BY FS_EmptySet
  <2>2. ASSUME Live = {} PROVE FALSE
    <3>1. Cardinality(Live) = 0 /\ Cardinality(Live) >= RateMax
      BY <2>1, <2>2, Zenon DEF Limited
    <3> QED BY <3>1, TimeAssumption
  <2> QED BY <2>2
<1>2. Live \in SUBSET Nat
  <2>1. \A i \in Live : i \in 1..Len(passed)
    BY DEF Live, RateTypeOK
  <2>2. Len(passed) \in Nat
    BY DEF RateTypeOK
  <2> QED BY <2>1, <2>2
<1>3. \E i \in Live : \A j \in Live : i <= j
  BY <1>1, <1>2, LeastNatural
<1> QED BY <1>3 DEF First

\* Refused: nothing is written, and the time named is that of a call on the row.
LEMMA RefusedRate ==
    ASSUME RateInv, Limited, promised' = RetryAt, UNCHANGED <<now, stamps, passed>>
    PROVE  RateInv'
<1>1. First \in stamps /\ First \in 1..Len(passed)
  BY FirstIsLive DEF Live, RateInv, RateTypeOK
<1>2. passed[First] + RateWindow \in Nat
  BY <1>1, TimeAssumption DEF RateInv, RateTypeOK
<1>3. RateTypeOK' /\ RefusalNamesCall'
  BY <1>1, <1>2 DEF RateInv, RateTypeOK, RefusalNamesCall, RetryAt
<1>4. PassedInOrder' /\ RowIsComplete' /\ RateBounded'
  BY DEF RateInv, PassedInOrder, RowIsComplete, RateBounded
<1> QED BY <1>3, <1>4 DEF RateInv

\* Let pass: there are fewer than RateMax calls in the window, and one is added.
LEMMA PassedRate ==
    ASSUME RateInv, ~Limited, passed' = Append(passed, now),
           stamps' = Live \cup {Len(passed')}, promised' = 0, now' = now
    PROVE  RateInv'
<1> DEFINE n == Len(passed) + 1
<1>1. /\ Len(passed) \in Nat /\ now \in Nat /\ RateMax \in Nat /\ RateWindow \in Nat
      /\ \A i \in 1..Len(passed) : passed[i] \in Nat
  BY TimeAssumption DEF RateInv, RateTypeOK
<1>2. /\ passed' \in Seq(Nat) /\ Len(passed') = n /\ passed'[n] = now
      /\ \A i \in 1..Len(passed) : passed'[i] = passed[i]
  BY <1>1 DEF RateInv, RateTypeOK
<1>3. /\ IsFiniteSet(Live) /\ Cardinality(Live) \in Nat /\ Cardinality(Live) < RateMax
  <2>1. IsFiniteSet(Live) /\ Cardinality(Live) \in Nat
    BY RowFinite DEF RateInv
  <2>2. ~(Cardinality(Live) >= RateMax)
    BY Zenon DEF Limited
  <2> QED BY <1>1, <2>1, <2>2
<1>4. RateTypeOK'
  <2>1. \A i \in Live : i \in 1..Len(passed)
    BY DEF RateInv, RateTypeOK, Live
  <2>2. stamps' \subseteq 1..n
    BY <1>1, <1>2, <2>1
  <2> QED BY <1>1, <1>2, <2>2 DEF RateTypeOK
<1>5. PassedInOrder'
  <2> SUFFICES ASSUME NEW j \in 1..n
               PROVE  passed'[j] <= now /\ \A i \in 1..j : passed'[i] <= passed'[j]
    BY <1>2 DEF PassedInOrder
  <2>1. CASE j \in 1..Len(passed)
    <3>1. \A i \in 1..j : i \in 1..Len(passed)
      BY <1>1, <2>1
    <3> QED BY <1>2, <2>1, <3>1 DEF RateInv, PassedInOrder
  <2>2. CASE j = n
    <3>1. \A i \in 1..n : i = n \/ i \in 1..Len(passed)
      BY <1>1
    <3> QED BY <1>1, <1>2, <2>2, <3>1 DEF RateInv, PassedInOrder
  <2> QED BY <1>1, <2>1, <2>2
<1>6. RowIsComplete'
  <2>1. ASSUME NEW i \in 1..n, passed'[i] + RateWindow >= now PROVE i \in stamps'
    <3>1. CASE i = n
      BY <1>2, <3>1
    <3>2. CASE i \in 1..Len(passed)
      BY <1>2, <2>1, <3>2 DEF RateInv, RowIsComplete, Live
    <3> QED BY <1>1, <3>1, <3>2
  <2>2. Cardinality(stamps') <= RateMax
    <3>1. Cardinality(Live \cup {Len(passed')}) =
             IF Len(passed') \in Live THEN Cardinality(Live) ELSE Cardinality(Live) + 1
      BY <1>3, FS_AddElement
    <3> QED BY <1>1, <1>3, <3>1
  <2> QED BY <1>2, <2>1, <2>2 DEF RowIsComplete
<1>7. RefusalNamesCall'
  BY DEF RefusalNamesCall
<1>8. RateBounded'
  <2> SUFFICES ASSUME NEW i \in 1..n, i + RateMax <= n
               PROVE  passed'[i + RateMax] > passed'[i] + RateWindow
    BY <1>2 DEF RateBounded
  <2>1. i \in 1..Len(passed) /\ i + RateMax \in 1..n
    BY <1>1, TimeAssumption
  <2>2. CASE i + RateMax <= Len(passed)
    <3>1. i + RateMax \in 1..Len(passed)
      BY <1>1, <2>1, <2>2
    <3> QED BY <1>2, <2>1, <2>2, <3>1 DEF RateInv, RateBounded
  <2>3. CASE i + RateMax = n
    <3>1. SUFFICES ASSUME passed[i] + RateWindow >= now PROVE FALSE
      BY <1>1, <1>2, <2>1, <2>3
    <3>2. ASSUME NEW j \in i..Len(passed) PROVE j \in Live
      <4>1. j \in 1..Len(passed) /\ i \in 1..j
        BY <1>1, <2>1
      <4>2. passed[i] <= passed[j]
        BY <4>1 DEF RateInv, PassedInOrder
      <4>3. passed[j] + RateWindow >= now
        BY <1>1, <2>1, <3>1, <4>1, <4>2
      <4> QED BY <4>1, <4>3 DEF RateInv, RowIsComplete, Live
    <3>3. i..Len(passed) \in SUBSET Live
      BY <3>2
    <3>4. Cardinality(i..Len(passed)) = RateMax
      <4>1. i \in Int /\ Len(passed) \in Int /\ ~(i > Len(passed))
        BY <1>1, <2>1
      <4>2. Cardinality(i..Len(passed)) = Len(passed) - i + 1
        BY <4>1, FS_Interval
      <4> QED BY <1>1, <2>1, <2>3, <4>2
    <3>5. Cardinality(i..Len(passed)) <= Cardinality(Live)
      BY <1>3, <3>3, FS_Subset
    <3> QED BY <1>1, <1>3, <3>4, <3>5
  <2> QED BY <1>1, <2>1, <2>2, <2>3
<1> QED BY <1>4, <1>5, <1>6, <1>7, <1>8 DEF RateInv

\* Time that passes takes calls out of the window, never into it.
LEMMA ClockRate == ASSUME RateInv, ClockTicks PROVE RateInv'
<1>1. /\ now \in Nat /\ now' = now + 1 /\ UNCHANGED <<stamps, promised, passed>>
      /\ RateWindow \in Nat /\ \A i \in 1..Len(passed) : passed[i] \in Nat
  BY TimeAssumption DEF ClockTicks, RateInv, RateTypeOK
<1>2. RateTypeOK' /\ RefusalNamesCall' /\ RateBounded'
  BY <1>1 DEF RateInv, RateTypeOK, RefusalNamesCall, RateBounded
<1>3. PassedInOrder'
  BY <1>1 DEF RateInv, PassedInOrder
<1>4. RowIsComplete'
  BY <1>1 DEF RateInv, RowIsComplete
<1> QED BY <1>2, <1>3, <1>4 DEF RateInv

\* RateInv is inductive.
LEMMA RateInductive == RateInv /\ [Next]_vars => RateInv'
<1> SUFFICES ASSUME RateInv, [Next]_vars PROVE RateInv'
  OBVIOUS
<1>1. CASE UNCHANGED <<now, stamps, promised, passed>>
  BY <1>1 DEF RateInv, RateTypeOK, PassedInOrder, RowIsComplete, RefusalNamesCall, RateBounded
<1>2. CASE RateLimit /\ UNCHANGED now
  BY <1>2, RefusedRate, PassedRate DEF RateLimit
<1>3. CASE ClockTicks
  BY <1>3, ClockRate
<1> QED
  BY <1>1, <1>2, <1>3 DEF Next, vars, Sign, Remote, DispatchForward, Authenticate

\* RateInv holds in every reachable state.
LEMMA AlwaysRate == Spec => []RateInv
<1>1. Init => RateInv
  <2> SUFFICES ASSUME Init PROVE RateInv
    OBVIOUS
  <2>1. Cardinality({}) = 0
    BY FS_EmptySet
  <2>2. RateTypeOK /\ PassedInOrder /\ RefusalNamesCall /\ RateBounded
    BY DEF Init, RateTypeOK, PassedInOrder, RefusalNamesCall, RateBounded
  <2>3. RowIsComplete
    BY <2>1, TimeAssumption DEF Init, RowIsComplete
  <2> QED BY <2>2, <2>3 DEF RateInv
<1> QED BY <1>1, RateInductive, PTL DEF Spec

\* rateLimit lets at most RateMax calls of a caller through in any window of
\* RateWindow, both ends included, for every limit and every window.
THEOREM RateIsBounded == Spec => []RateBounded
<1>1. RateInv => RateBounded
  BY DEF RateInv
<1> QED BY <1>1, AlwaysRate, PTL

\* A caller that rateLimit refused, and that comes back after the retry_at_ms it was
\* told, is not refused again.
THEOREM RetriesAreHonoured == Spec => []RetryAtIsHonoured
<1>1. RateInv => RetryAtIsHonoured
  <2> SUFFICES ASSUME RateInv, promised # 0, now > promised PROVE ~Limited
    BY DEF RetryAtIsHonoured
  <2>1. PICK i \in stamps : passed[i] + RateWindow = promised
    BY DEF RateInv, RefusalNamesCall
  <2>2. i \notin Live
    BY <2>1 DEF RateInv, RateTypeOK, Live
  <2>3. IsFiniteSet(stamps) /\ Cardinality(stamps) \in Nat /\ Cardinality(Live) \in Nat
    BY RowFinite DEF RateInv
  <2>4. Live \in SUBSET stamps /\ Live # stamps
    BY <2>2 DEF Live
  <2>5. Cardinality(Live) < Cardinality(stamps)
    BY <2>3, <2>4, FS_Subset
  <2> QED BY <2>3, <2>5, TimeAssumption DEF RateInv, RowIsComplete, Limited
<1> QED BY <1>1, AlwaysRate, PTL

-----------------------------------------------------------------------------
(* The requests table: repeats of a call reach the engine once, no PENDING row *)
(* is orphaned and no stored answer changes, for any set of ids and any number  *)
(* of calls in flight.  The three rest on one relation: the calls in flight and *)
(* the PENDING rows name each other one to one.                                 *)

\* A call in flight owns the PENDING row of its id, alone, and none survives the
\* process.
Owned ==
    /\ \A t \in Slot : call[t] # NoCall =>
         /\ call[t].id \in Id
         /\ rows[call[t].id].state = "PENDING"
         /\ rows[call[t].id].run = call[t].run
    /\ \A t, u \in Slot : call[t].id = call[u].id /\ call[t] # NoCall => t = u
    /\ ~up => \A t \in Slot : call[t] = NoCall

\* An id has run since its row was last removed exactly if it has a row.
Counted == \A i \in Id : window[i] = IF rows[i].state = "none" THEN 0 ELSE 1

Types ==
    /\ rows \in [Id -> Row]
    /\ call \in [Slot -> Call]
    /\ runs \in [Id -> Nat]
    /\ window \in [Id -> Nat]
    /\ \A t \in Slot : call[t].id = "none" => call[t] = NoCall

IInv == Types /\ Owned /\ Counted /\ PendingIsDriven

\* No rows and no calls.
LEMMA InitIInv == DedupInit => IInv
BY DEF DedupInit, IInv, Types, Owned, Counted, PendingIsDriven, Row, NoRow, Call, NoCall, Outcome

\* dispatch
LEMMA DispatchIInv == ASSUME NEW t \in Slot, NEW i \in Id, IInv, Dispatch(t, i) PROVE IInv'
<1> DEFINE new == [state |-> "PENDING", answer |-> "none", run |-> runs[i] + 1]
           mine == [id |-> i, run |-> runs[i] + 1]
<1>1. PICK old \in SUBSET (MayBeOld \ {i}) :
        /\ rows' = [j \in Id |-> IF j = i THEN new ELSE IF j \in old THEN NoRow ELSE rows[j]]
        /\ window' = [j \in Id |-> IF j = i THEN window[i] + 1
                                   ELSE IF j \in old THEN 0 ELSE window[j]]
  BY DEF Dispatch
<1>2. /\ up /\ UNCHANGED up
      /\ call[t] = NoCall /\ call' = [call EXCEPT ![t] = mine]
      /\ runs' = [runs EXCEPT ![i] = @ + 1]
      /\ rows[i].state = "none"
  BY DEF Dispatch, MayRun
<1>3. Types /\ Owned /\ Counted /\ PendingIsDriven
  BY DEF IInv
<1>4. \A u \in Slot : u # t => call[u].id # i
  BY <1>2, <1>3, RequestAssumption DEF Owned, Types, NoCall
<1>5. \A u \in Slot : call[u].id \notin old
  BY DEF MayBeOld
<1>6. runs[i] + 1 \in Nat /\ new \in Row /\ NoRow \in Row /\ mine \in Call /\ "none" # i
  BY <1>3, RequestAssumption DEF Types, Row, NoRow, Call, Outcome
<1>7. Types'
  <2>1. rows' \in [Id -> Row]
    BY <1>1, <1>3, <1>6 DEF Types
  <2>2. call' \in [Slot -> Call] /\ \A u \in Slot : call'[u].id = "none" => call'[u] = NoCall
    BY <1>2, <1>3, <1>6 DEF Types
  <2>3. runs' \in [Id -> Nat] /\ window' \in [Id -> Nat]
    BY <1>1, <1>2, <1>3 DEF Types
  <2> QED BY <2>1, <2>2, <2>3 DEF Types
<1>8. Owned'
  <2>1. ASSUME NEW u \in Slot, call'[u] # NoCall
        PROVE  call'[u].id \in Id /\ rows'[call'[u].id].state = "PENDING"
               /\ rows'[call'[u].id].run = call'[u].run
    <3>1. CASE u = t
      BY <3>1, <1>1, <1>2, <1>3, <1>6 DEF Types
    <3>2. CASE u # t
      BY <3>2, <2>1, <1>1, <1>2, <1>3, <1>4, <1>5 DEF Types, Owned
    <3> QED BY <3>1, <3>2
  <2>2. ASSUME NEW u \in Slot, NEW v \in Slot, call'[u].id = call'[v].id, call'[u] # NoCall
        PROVE  u = v
    BY <2>2, <1>2, <1>3, <1>4, <1>6 DEF Types, Owned
  <2> QED BY <2>1, <2>2, <1>2 DEF Owned
<1>9. Counted'
  BY <1>1, <1>2, <1>3 DEF Counted, Types, NoRow
<1>10. PendingIsDriven'
  <2> SUFFICES ASSUME NEW j \in Id, rows'[j].state = "PENDING"
               PROVE  \E u \in Slot : call'[u] = [id |-> j, run |-> rows'[j].run]
    BY DEF PendingIsDriven
  <2>1. CASE j = i
    BY <2>1, <1>1, <1>2, <1>3 DEF Types
  <2>2. CASE j # i
    <3>1. rows'[j] = rows[j]
      BY <2>2, <1>1 DEF NoRow
    <3>2. PICK u \in Slot : call[u] = [id |-> j, run |-> rows[j].run]
      BY <3>1, <1>2, <1>3 DEF PendingIsDriven
    <3>3. u # t
      BY <3>2, <1>2, RequestAssumption DEF NoCall
    <3> QED BY <3>1, <3>2, <3>3, <1>2, <1>3 DEF Types
  <2> QED BY <2>1, <2>2
<1> QED
  BY <1>7, <1>8, <1>9, <1>10 DEF IInv

\* The answer of the engine
LEMMA CompleteIInv == ASSUME NEW t \in Slot, IInv, Complete(t) PROVE IInv'
<1> DEFINE i == call[t].id
<1>1. Types /\ Owned /\ Counted /\ PendingIsDriven
  BY DEF IInv
<1>2. i \in Id /\ rows[i].state = "PENDING"
  BY <1>1 DEF Complete, Owned
<1>3. PICK o \in Outcome : rows' = [rows EXCEPT ![i] = [state |-> "DONE", answer |-> o, run |-> call[t].run]]
  BY <1>1, <1>2 DEF Complete, StoreAnswer, Types
<1>4. /\ call' = [call EXCEPT ![t] = NoCall]
      /\ call[t] # NoCall
      /\ UNCHANGED <<up, runs, window>>
  BY DEF Complete
<1>5. \A u \in Slot : u # t /\ call[u] # NoCall => call[u].id # i
  BY <1>1, <1>4 DEF Owned
<1> HIDE DEF i
<1>6. Types'
  BY <1>1, <1>2, <1>3, <1>4 DEF Types, Row, Call, NoCall, Outcome
<1>7. Owned'
  <2>1. ASSUME NEW u \in Slot, call'[u] # NoCall
        PROVE  u # t /\ call'[u] = call[u] /\ rows'[call[u].id] = rows[call[u].id] /\ call[u].id \in Id
    BY <2>1, <1>1, <1>2, <1>3, <1>4, <1>5 DEF Types, Owned
  <2>2. ASSUME NEW u \in Slot, NEW v \in Slot, call'[u].id = call'[v].id, call'[u] # NoCall
        PROVE  u = v
    <3>1. call'[v] # NoCall
      BY <2>1, <2>2, <1>1, RequestAssumption DEF Types, NoCall
    <3> QED BY <2>1, <2>2, <3>1, <1>1 DEF Owned
  <2>3. ~up' => \A u \in Slot : call'[u] = NoCall
    BY <1>1, <1>4 DEF Owned, Types
  <2> QED BY <2>1, <2>2, <2>3, <1>1 DEF Owned
<1>8. Counted'
  BY <1>1, <1>2, <1>3, <1>4 DEF Counted, Types
<1>9. PendingIsDriven'
  <2> SUFFICES ASSUME NEW j \in Id, up, rows'[j].state = "PENDING"
               PROVE  \E u \in Slot : call'[u] = [id |-> j, run |-> rows'[j].run]
    BY <1>4 DEF PendingIsDriven
  <2>1. j # i /\ rows'[j] = rows[j]
    BY <1>1, <1>2, <1>3 DEF Types
  <2>2. PICK u \in Slot : call[u] = [id |-> j, run |-> rows[j].run]
    BY <2>1, <1>1 DEF PendingIsDriven
  <2>3. u # t
    BY <2>1, <2>2 DEF i
  <2> QED BY <2>1, <2>2, <2>3, <1>1, <1>4 DEF Types
<1> QED
  BY <1>6, <1>7, <1>8, <1>9 DEF IInv

\* Every step.
LEMMA NextIInv == IInv /\ [DedupNext]_dedupVars => IInv'
<1> SUFFICES ASSUME IInv, [DedupNext]_dedupVars PROVE IInv'
  OBVIOUS
<1>1. ASSUME NEW t \in Slot, NEW i \in Id, Dispatch(t, i) PROVE IInv'
  BY <1>1, DispatchIInv
<1>2. ASSUME NEW t \in Slot, Complete(t) PROVE IInv'
  BY <1>2, CompleteIInv
<1>3. CASE EndSession
  BY <1>3 DEF EndSession, IInv, Types, Owned, Counted, PendingIsDriven
<1>4. CASE Crash
  BY <1>4 DEF Crash, IInv, Types, Owned, Counted, PendingIsDriven, Call, NoCall
<1>5. CASE Start
  <2>1. /\ \A t \in Slot : call[t] = NoCall
        /\ Types /\ Counted
        /\ rows' = [i \in Id |-> IF rows[i].state = "PENDING" THEN NoRow ELSE rows[i]]
        /\ window' = [i \in Id |-> IF rows[i].state = "PENDING" THEN 0 ELSE window[i]]
        /\ UNCHANGED <<call, runs>> /\ up'
    BY <1>5 DEF Start, ClearedRows, IInv, Owned
  <2>2. Types'
    BY <2>1 DEF Types, Row, NoRow
  <2>3. Owned'
    BY <2>1 DEF Owned, NoCall
  <2>4. Counted'
    BY <2>1 DEF Counted, Types, NoRow
  <2>5. PendingIsDriven'
    BY <2>1 DEF PendingIsDriven, NoRow
  <2> QED BY <2>2, <2>3, <2>4, <2>5 DEF IInv
<1>6. CASE UNCHANGED dedupVars
  BY <1>6 DEF dedupVars, IInv, Types, Owned, Counted, PendingIsDriven
<1> QED
  BY <1>1, <1>2, <1>3, <1>4, <1>5, <1>6 DEF DedupNext

\* Calls in flight and PENDING rows name each other.
LEMMA DedupIInv == DedupSpec => []IInv
BY InitIInv, NextIInv, PTL DEF DedupSpec

\* Copies of a call reach the engine at most once until the row is removed.
THEOREM RunsOncePerWindow == DedupSpec => []OncePerWindow
<1>1. IInv => OncePerWindow
  <2> SUFFICES ASSUME IInv, NEW i \in Id PROVE window[i] <= 1
    BY DEF OncePerWindow
  <2>1. window[i] = 0 \/ window[i] = 1
    BY DEF IInv, Counted
  <2> QED BY <2>1
<1> QED
  BY <1>1, DedupIInv, PTL

\* While the daemon serves, some call in flight will complete a PENDING row.
THEOREM PendingRowsAreDriven == DedupSpec => []PendingIsDriven
<1>1. IInv => PendingIsDriven
  BY DEF IInv
<1> QED
  BY <1>1, DedupIInv, PTL

\* A stored answer is removed with its row or stays what it is: a call that would
\* overwrite it owns a PENDING row, which a stored answer is not.
THEOREM StoredAnswersAreFinal == DedupSpec => AnswersAreFinal
<1> DEFINE Final == \A i \in Id : rows[i].state = "DONE" => rows'[i] \in {rows[i], NoRow}
<1>1. ASSUME IInv, [DedupNext]_dedupVars PROVE Final
  <2>1. ASSUME NEW t \in Slot, NEW i \in Id, Dispatch(t, i) PROVE Final
    BY <2>1 DEF Dispatch, MayRun
  <2>2. ASSUME NEW t \in Slot, Complete(t) PROVE Final
    BY <1>1, <2>2 DEF Complete, StoreAnswer, IInv, Types, Owned
  <2>3. CASE Start
    BY <2>3 DEF Start, ClearedRows
  <2>4. CASE UNCHANGED rows
    BY <2>4
  <2> QED
    BY <1>1, <2>1, <2>2, <2>3, <2>4 DEF DedupNext, dedupVars, EndSession, Crash
<1>2. IInv /\ [DedupNext]_dedupVars => [Final]_dedupVars
  BY <1>1
<1> QED
  BY <1>2, DedupIInv, PTL DEF DedupSpec, AnswersAreFinal
=============================================================================

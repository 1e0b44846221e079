----------------------------- MODULE ProofGate -----------------------------
(***************************************************************************)
(* Who may call the daemon from afar, and how often: the signed request    *)
(* proofs of src/rpc.ts (verifyProof) and src/daemon.ts (dispatchForward), *)
(* the nonce cache of src/store/database.ts (nonceAccept), and the sliding *)
(* window of rateLimit for one caller.  A proof may be delivered any       *)
(* number of times, at any time; the clocks of signer and daemon differ.   *)
(* The daemon's clock does not run backwards.                              *)
(***************************************************************************)
EXTENDS Naturals, FiniteSets, Sequences

CONSTANTS Caller,      \* proofs signed by a caller, one nonce each
          Relay,       \* proofs signed by the relay
          Skew,        \* PROOF_SKEW_MS
          Retention,   \* NONCE_RETENTION_MS
          RateWindow, RateMax,
          MaxTime      \* bound: the clock stops here

ASSUME TimeAssumption == /\ Skew \in Nat
                         /\ Retention \in Nat
                         /\ RateWindow \in Nat
                         /\ RateMax \in Nat \ {0}
ASSUME RetentionAssumption == Retention >= 2 * Skew

Proof == Caller \cup Relay

\* The rows of the nonces table: remote() keeps the caller's nonces under its key,
\* dispatchForward under the key and the purpose of each of the two proofs.
Key == ({"direct", "request"} \X Caller) \cup ({"relay"} \X Relay)

VARIABLES now,        \* the daemon's clock
          signed,     \* proofs that exist
          issued,     \* issued_ms of each proof; it expires Skew later
          cache,      \* expires_ms of each row of nonces; 0: no row
          stamps,     \* the caller's row of rate_limits: the places in passed of its calls
          promised,   \* history: the retry_at_ms of the last refusal; 0 once a call passed
          accepted,   \* history: times each proof was accepted under each key
          passed      \* when the caller's calls passed rateLimit, from the first on

vars == <<now, signed, issued, cache, stamps, promised, accepted, passed>>

TypeOK ==
    /\ now \in Nat
    /\ signed \subseteq Proof
    /\ issued \in [Proof -> Nat]
    /\ cache \in [Key -> Nat]
    /\ stamps \subseteq DOMAIN passed
    /\ promised \in Nat
    /\ accepted \in [Key -> Nat]
    /\ passed \in Seq(Nat)

Init ==
    /\ now = 0
    /\ signed = {}
    /\ issued = [p \in Proof |-> 0]
    /\ cache = [k \in Key |-> 0]
    /\ stamps = {}
    /\ promised = 0
    /\ accepted = [k \in Key |-> 0]
    /\ passed = <<>>

\* Somebody signs a proof, by their own clock.
Sign(p) ==
    /\ p \notin signed
    /\ signed' = signed \cup {p}
    /\ \E t \in 0..MaxTime : issued' = [issued EXCEPT ![p] = t]
    /\ UNCHANGED <<now, cache, stamps, promised, accepted, passed>>

\* Mutant: a proof is good for a moment too long.
InTimeLate(p) == /\ issued[p] <= now + Skew
                 /\ now <= issued[p] + Skew

\* |now - issued_ms| <= PROOF_SKEW_MS and now < expires_ms.
InTime(p) == /\ issued[p] <= now + Skew
             /\ now < issued[p] + Skew

\* nonceAccept purges the expired rows and inserts the new ones.
AcceptedCache(keys) ==
    [k \in Key |-> IF k \in keys THEN now + Retention
                   ELSE IF cache[k] <= now THEN 0 ELSE cache[k]]

\* The stamps inside the window.
Live == {i \in stamps : passed[i] + RateWindow >= now}

\* The first of the list, which is in the order of the calls.
First == CHOOSE i \in Live : \A j \in Live : i <= j

\* Mutant: one call more than the limit.
LimitedLate == Cardinality(Live) > RateMax

Limited == Cardinality(Live) >= RateMax

\* Mutant: the time at which the oldest call was made.
RetryAtOldest == passed[First]

\* retry_at_ms of a refusal: when the oldest call leaves the window.
RetryAt == passed[First] + RateWindow

\* The rate limit of a caller that has been authenticated.
RateLimit ==
    \/ /\ Limited
       /\ promised' = RetryAt
       /\ UNCHANGED <<stamps, passed>>
    \/ /\ ~Limited
       /\ passed' = Append(passed, now)
       /\ stamps' = Live \cup {Len(passed')}
       /\ promised' = 0

\* The transaction that authenticates: every proof must be in time and new, or
\* nothing is written and the call is refused.  rateLimit follows in the same turn.
Authenticate(proofs, keys) ==
    /\ proofs \subseteq signed
    /\ \A p \in proofs : InTime(p)
    /\ \A k \in keys : cache[k] <= now
    /\ cache' = AcceptedCache(keys)
    /\ accepted' = [k \in Key |-> IF k \in keys THEN accepted[k] + 1 ELSE accepted[k]]
    /\ RateLimit
    /\ UNCHANGED <<now, signed, issued>>

\* Dispatcher.remote
Remote(c) == Authenticate({c}, {<<"direct", c>>})

\* Daemon.dispatchForward: the caller's proof inside the relay's.
DispatchForward(c, r) == Authenticate({c, r}, {<<"request", c>>, <<"relay", r>>})

ClockTicks ==
    /\ now < MaxTime
    /\ now' = now + 1
    /\ UNCHANGED <<signed, issued, cache, stamps, promised, accepted, passed>>

Next ==
    \/ \E p \in Proof : Sign(p)
    \/ \E c \in Caller : Remote(c) \/ \E r \in Relay : DispatchForward(c, r)
    \/ ClockTicks

Spec == Init /\ [][Next]_vars

-----------------------------------------------------------------------------
\* A signed proof is accepted at most once by each path, however often and
\* whenever it is delivered: the nonce outlives the proof although the signer's
\* clock may be ahead of the daemon's by the whole skew.
AcceptedOnce == \A k \in Key : accepted[k] <= 1

\* No more than RateMax calls of a caller pass in any window of RateWindow: the
\* call RateMax places later comes after the window has closed.
RateBounded ==
    \A i \in 1..Len(passed) :
        i + RateMax <= Len(passed) => passed[i + RateMax] > passed[i] + RateWindow

\* rateLimit answers RATE_LIMITED with a retry_at_ms: a caller that comes back after
\* that time, and has not been served in between, is not refused again, although
\* the calls that were refused came before it.  (At retry_at_ms itself the oldest
\* call still counts: the window is closed at both ends.)
RetryAtIsHonoured == promised # 0 /\ now > promised => ~Limited
=============================================================================

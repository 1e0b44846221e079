------------------------------- MODULE Blocks -------------------------------
(***************************************************************************)
(* What the daemon makes of an answer of the site: the observation built   *)
(* from it (observe.ts), its class (classify.ts) and the delay before the  *)
(* next probe (delay.ts).  Times are ticks; a Retry-After header counts in *)
(* seconds of several ticks, or names a date.                              *)
(***************************************************************************)
EXTENDS Naturals

CONSTANTS ChallengeBase, RateBase, NetworkBase,   \* first delay of a class
          MaxRetryDelay,    \* cap of the backoff
          MaxServerWait,    \* longest wait a site may ask for
          MaxSafe,          \* the largest safe integer
          Second            \* ticks of a second

ASSUME DelayAssumption ==
    /\ ChallengeBase \in Nat /\ RateBase \in Nat /\ NetworkBase \in Nat
    /\ MaxRetryDelay \in Nat /\ MaxServerWait \in Nat /\ MaxSafe \in Nat
    /\ Second \in Nat \ {0}

Network == {"ok", "timeout", "tls_error", "dns_error", "aborted", "policy_denied"}

\* A Retry-After header: absent, of more than 128 bytes, a number of seconds, a
\* date, or anything else.
RetryAfter == [kind : {"absent", "oversized", "seconds", "date", "malformed"}, n : Nat]

\* The status is told apart as far as classify does; `challenge` is cf_mitigated
\* or challenge_marker, `login` is login_marker or redirected_to_login.
Observation == [network : Network, challenge : BOOLEAN,
                status : {"none", "2xx", "401", "403", "429", "other"},
                identity : {"match", "mismatch", "missing", "not_checked"},
                login : BOOLEAN, loggedIn : BOOLEAN, retryAfter : RetryAfter]

\* The first rule that applies names the class.
Classify(o) ==
    CASE o.network = "policy_denied"                 -> "SCOPE_DENIED"
      [] o.network \notin {"ok", "policy_denied"}    -> "NETWORK_ERROR"
      [] o.network = "ok" /\ o.challenge             -> "CF_CHALLENGE"
      [] o.network = "ok" /\ ~o.challenge            ->
           IF o.status = "429" THEN "RATE_LIMIT"
           ELSE IF o.identity = "mismatch" THEN "ACCOUNT_MISMATCH"
           ELSE IF o.status = "401" \/ o.login THEN "LOGIN_WALL"
           ELSE IF o.status = "403" THEN "ACCESS_DENIED"
           ELSE IF o.status # "2xx" THEN "UNKNOWN"
           ELSE IF o.identity = "missing" THEN "LOGIN_WALL"
           ELSE "NONE"

IsRetryableBlock(class, network) ==
    \/ class \in {"CF_CHALLENGE", "RATE_LIMIT"}
    \/ class = "NETWORK_ERROR" /\ network # "tls_error"

IsFallbackEligible(class, network) ==
    class \in {"ACCESS_DENIED", "UNKNOWN"} \/ IsRetryableBlock(class, network)

ProbeVerified(o) ==
    /\ Classify(o) = "NONE"
    /\ o.status = "2xx" /\ o.identity = "match" /\ o.loggedIn /\ ~o.login

\* The class that is recorded: an answer without a block that does not prove the
\* login either is UNKNOWN.
Effective(o) == IF Classify(o) = "NONE" THEN "UNKNOWN" ELSE Classify(o)

-----------------------------------------------------------------------------
Larger(a, b) == IF a >= b THEN a ELSE b
Smaller(a, b) == IF a <= b THEN a ELSE b

BaseDelay(class, network) ==
    CASE class = "CF_CHALLENGE" -> ChallengeBase
      [] class = "RATE_LIMIT" -> RateBase
      [] class = "NETWORK_ERROR" /\ network # "tls_error" -> NetworkBase
      [] OTHER -> 0

\* 2 ** (attempt - 1), for the attempts the engine counts.
Doubled == <<1, 2, 4>>

\* parseRetryAfter; an oversized header was dropped from the observation.
ParseRetryAfter(header, received) ==
    CASE header.kind = "seconds" /\ header.n * Second > MaxSafe ->
           [kind |-> "overflow", delay |-> 0]
      [] header.kind = "seconds" /\ header.n * Second <= MaxSafe ->
           [kind |-> "ok", delay |-> header.n * Second]
      [] header.kind = "date" ->
           [kind |-> "ok", delay |-> IF header.n > received THEN header.n - received ELSE 0]
      [] OTHER -> [kind |-> "none", delay |-> 0]

\* computeDelay: the longer of the backoff and of what the site asked for.
ComputeDelay(class, network, attempt, header, received) ==
    LET server == ParseRetryAfter(header, received)
        backoff == Smaller(BaseDelay(class, network) * Doubled[attempt], MaxRetryDelay)
        retryAt == received + Larger(backoff, server.delay)
    IN  IF server.kind = "overflow" \/ server.delay > MaxServerWait \/ retryAt > MaxSafe
        THEN [exhausted |-> TRUE, retryAt |-> 0]
        ELSE [exhausted |-> FALSE, retryAt |-> retryAt]
=============================================================================

------------------------------ MODULE MCEngine ------------------------------
(***************************************************************************)
(* Small instances of Engine.  The slots of the continuations and the      *)
(* operations are interchangeable.  Each run restricts what the adapter    *)
(* answers and which deadlines the clock may pass to the part of the       *)
(* engine the run is about.                                                *)
(***************************************************************************)
EXTENDS Engine, TLC

Symmetry == Permutations(Slot) \cup Permutations(Op)

Seen(class) == [class |-> class, wait |-> "usable"]

\* A runner at work: attach, step, checkpoint and detach, and lost leases.
RunnerAnswers == {Seen("verified"), Seen("review")}
RunnerDeadlines == {"lease", "snapshot"}

\* Cards: opened, verified twice, cancelled, expired; policy and consent.
HandoffAnswers == {Seen("verified"), Seen("login"), Seen("closed")}
HandoffDeadlines == {"card", "consent"}

\* Blocks, cooldowns, recovery probes, and the waits that only timers end.
RecoveryAnswers ==
    {Seen("verified"), Seen("retry"), Seen("review"),
     [class |-> "retry", wait |-> "tooLong"], [class |-> "retry", wait |-> "oversized"]}
RecoveryDeadlines == {"retry", "wait", "probes", "calm", "card", "handoffs"}
=============================================================================

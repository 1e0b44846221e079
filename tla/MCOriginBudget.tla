--------------------------- MODULE MCOriginBudget ---------------------------
(* An instance of OriginBudget: one answer of every kind that matters. *)
EXTENDS OriginBudget, TLC

Header(kind, n) == [kind |-> kind, n |-> n]
Absent == Header("absent", 0)
Good == [network |-> "ok", challenge |-> FALSE, status |-> "2xx", identity |-> "match",
         login |-> FALSE, loggedIn |-> TRUE, retryAfter |-> Absent]

Symmetry == Permutations(Site)

\* dropped enables no action and is read by no property of the run: states that
\* differ in it alone are one.  (For EveryWaitIsHonoured and EveryReviewHolds, which
\* read it, the VIEW has to go.)
Read == <<now, sess, acting, budget, probes, cards, asked, review, tries>>

MCAnswers ==
    {Good,
     [Good EXCEPT !.loggedIn = FALSE],
     [Good EXCEPT !.status = "401", !.login = TRUE, !.retryAfter = Header("oversized", 0)],
     [Good EXCEPT !.network = "timeout", !.status = "none"]}
    \cup {[Good EXCEPT !.status = "429", !.retryAfter = h] :
             h \in {Header("date", 2), Header("seconds", 2)}}
=============================================================================

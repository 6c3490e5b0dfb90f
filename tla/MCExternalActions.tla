------------------------- MODULE MCExternalActions -------------------------
(***************************************************************************)
(* ExternalActions for TLC: a unit of time is a minute, an escalation has     *)
(* two of them.                                                              *)
(***************************************************************************)
EXTENDS ExternalActions, TLC

Hook == [action |-> "webhook.call", known |-> TRUE, resolves |-> TRUE, timeoutOK |-> TRUE,
         dryRun |-> FALSE, retries |-> 0, paramOK |-> TRUE, uses |-> FALSE, timeout |-> 1,
         backoff |-> 0]

Slow == [Hook EXCEPT !.timeout = 2]
Script == [Hook EXCEPT !.action = "script.run", !.uses = TRUE, !.timeout = 2, !.backoff = 1]
Job == [Hook EXCEPT !.action = "job.run", !.backoff = 1]

Again(p) == [p EXCEPT !.retries = 1]

\* Channels in the orders that matter, one with a parameter that is refused.
Escalations ==
    {<<p, q>> : p \in {Hook, Slow, Script, [Hook EXCEPT !.paramOK = FALSE]},
                q \in {Hook, Job, [Hook EXCEPT !.known = FALSE]}}
    \cup {<<Hook, Script, Hook>>}

\* Steps with a retry, and two Jobs of the same strategy at once.
Steps ==
    {<<Again(p)>> : p \in {[Hook EXCEPT !.uses = TRUE], Script, [Job EXCEPT !.dryRun = TRUE],
                           [Job EXCEPT !.timeoutOK = FALSE]}}
    \cup {<<Again(Job), [Job EXCEPT !.backoff = 0]>>}

MCPlans == Escalations \cup Steps
=============================================================================

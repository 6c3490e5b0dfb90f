----------------------- MODULE MCRemediationLifecycle -----------------------
(* Instances of RemediationLifecycle for TLC. *)
EXTENDS RemediationLifecycle

Base == [mode |-> "auto", dryRun |-> FALSE, retries |-> 0, gaveUp |-> FALSE,
         escalates |-> TRUE, targeted |-> TRUE]

\* A live record with a retry, an approval-mode one, a dry run that fails
\* quietly and has no target, and a give-up record.
AllProfiles ==
    {[Base EXCEPT !.retries = 1],
     [Base EXCEPT !.mode = "approval"],
     [Base EXCEPT !.dryRun = TRUE, !.escalates = FALSE, !.targeted = FALSE],
     [Base EXCEPT !.gaveUp = TRUE, !.mode = "approval"]}

\* Decisions are read in approval mode only; two approve and take that back.
SecondThoughts == [auto |-> 0, approval |-> 2]
Never == [m \in Modes |-> 0]
Once  == [m \in Modes |-> 1]

LiveProfiles ==
    {[Base EXCEPT !.retries = 1, !.escalates = FALSE],
     [Base EXCEPT !.mode = "approval", !.escalates = FALSE]}
QuietProfiles == {[Base EXCEPT !.escalates = FALSE, !.dryRun = TRUE]}
=============================================================================

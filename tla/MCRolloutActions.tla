-------------------------- MODULE MCRolloutActions --------------------------
(***************************************************************************)
(* RolloutActions for TLC.  Integers have eight bits, so that a percentage   *)
(* of three replicas overflows.                                              *)
(***************************************************************************)
EXTENDS RolloutActions, TLC

CONSTANTS r1, r2

Base == [action |-> "restart", known |-> TRUE, resolves |-> TRUE, dryRun |-> FALSE,
         timeoutOK |-> TRUE, retries |-> 1, mode |-> "replicas", amount |-> 0, max |-> 0,
         to |-> 0, ignoreGitOps |-> FALSE]

Scale(m, n, top) == [Base EXCEPT !.action = "scale", !.mode = m, !.amount = n, !.max = top]

Rollback == [Base EXCEPT !.action = "rollback"]

\* One step of every kind, with the parameters that take a different path.
Singles ==
    {Base, [Base EXCEPT !.dryRun = TRUE], [Base EXCEPT !.timeoutOK = FALSE],
     [Base EXCEPT !.resolves = FALSE],
     Rollback, [Rollback EXCEPT !.to = 1, !.ignoreGitOps = TRUE],
     Scale("replicas", 1, 0), Scale("increaseBy", 1, 3), Scale("increasePercent", 10, 4),
     Scale("increasePercent", 90, 4), Scale("increaseBy", 126, 4), Scale("ambiguous", 1, 4),
     [Scale("increaseBy", 1, 3) EXCEPT !.action = "hpa"]}

Once(p) == [p EXCEPT !.retries = 0]

\* Each step with its retry, and two steps at once on the same workload.
MCPlans ==
    {(r1 :> p) : p \in Singles}
    \cup {(r1 :> Once(Scale("increaseBy", 1, 3)) @@ r2 :> Once(Rollback))}

Report(u, c, a) == [updated |-> u, current |-> c, available |-> a]

\* Complete at two and at three replicas, and half way.
MCReports == {Report(2, 2, 2), Report(3, 3, 3), Report(2, 3, 1)}
=============================================================================

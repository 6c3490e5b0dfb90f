--------------------------- MODULE MCNodeActions ---------------------------
(***************************************************************************)
(* NodeActions for TLC.  A mebibyte is four, so that sizes are rounded, and   *)
(* integers have eight bits, so that a percentage overflows.                  *)
(***************************************************************************)
EXTENDS NodeActions, TLC

CONSTANTS r1, r2

MCFirstClass == <<"replicated", "stateful", "replicated", "daemon", "mirror", "bare", "scratch", "job">>

Base == [action |-> "drain", known |-> TRUE, resolves |-> TRUE, timeoutOK |-> TRUE,
         dryRun |-> FALSE, retries |-> 0, paramOK |-> TRUE, bare |-> FALSE, scratch |-> FALSE,
         maxPods |-> 0, name |-> 0, mode |-> "size", amount |-> 0, max |-> 0]

On(n) == [Base EXCEPT !.action = IF FirstClass[n] = "job" THEN "job.delete" ELSE "pod.delete",
                      !.name = n, !.retries = 1]

Grow(m, n, top) == [Base EXCEPT !.action = "pvc.expand", !.mode = m, !.amount = n,
                                !.max = top, !.retries = 1]

Drains == {Base, [Base EXCEPT !.bare = TRUE, !.scratch = TRUE, !.maxPods = 3]}

\* The other steps by themselves, with the parameters that take a different path.
Singles ==
    {[Base EXCEPT !.action = "cordon"], [Base EXCEPT !.action = "uncordon"], [Base EXCEPT !.paramOK = FALSE],
     [Base EXCEPT !.maxPods = 1, !.retries = 1],
     [Base EXCEPT !.dryRun = TRUE],
     On(1), On(2), On(6), [On(6) EXCEPT !.bare = TRUE],
     [On(2) EXCEPT !.paramOK = FALSE, !.dryRun = TRUE], On(8), [On(8) EXCEPT !.paramOK = FALSE],
     Grow("size", 16, 0), Grow("percent", 50, 14), Grow("percent", 7, 14),
     Grow("percent", 10, 0), Grow("ambiguous", 10, 0)}

\* A step that ends with its eviction: its verifyTimeout is not valid.
Others == {[On(2) EXCEPT !.retries = 0, !.timeoutOK = FALSE]}

\* The steps by themselves, and a drain with a second step on a pod it evicts.
MCPlans ==
    {(r1 :> p) : p \in Drains \cup Singles}
    \cup {(r1 :> Base @@ r2 :> p) : p \in Others}
=============================================================================

--------------------------- MODULE MCAlertRouting ---------------------------
(***************************************************************************)
(* AlertRouting for TLC: two replicas, two strategies, one delivery of one   *)
(* or two alerts.                                                            *)
(***************************************************************************)
EXTENDS AlertRouting

Restart == [enabled |-> TRUE, match |-> [alertname |-> "crash"], manual |-> FALSE,
            kind |-> "Deployment", namespace |-> "shop", minAvailable |-> 0,
            maxUnavailable |-> 0, steps |-> {"restart"}, onFailure |-> {}]

\* Another with as many matchers, one with more, one for a node, one for alerts
\* without a pod.
Tied == [Restart EXCEPT !.match = [namespace |-> "shop"], !.minAvailable = 1]
Narrow == [Restart EXCEPT !.match = [alertname |-> "crash", namespace |-> "shop"],
                          !.kind = "Pod", !.maxUnavailable = 34, !.onFailure = {"page"}]
Drain == [Restart EXCEPT !.kind = "Node", !.minAvailable = 1]
PodLess == [Restart EXCEPT !.match = [alertname |-> "crash", pod |-> ""], !.manual = TRUE]
Off == [Narrow EXCEPT !.enabled = FALSE]
Everything == [Restart EXCEPT !.match = <<>>]

MCCatalogue == {Narrow, Off}
MCStores == {<<Tied, Restart>>, <<Tied, Narrow>>, <<PodLess, Drain>>, <<Everything>>}

Crash1 == [status |-> "firing", labels |-> [alertname |-> "crash", namespace |-> "shop"]]
Crash2 == [status |-> "firing", labels |-> [alertname |-> "crash", pod |-> "a"]]
Closed == [Crash1 EXCEPT !.status = "resolved"]
Strange == [Crash1 EXCEPT !.status = "unknown"]

MCOverrides == [shop |-> "live"]

Post(alerts) == [path |-> TRUE, post |-> TRUE, token |-> TRUE, fits |-> TRUE,
                 decodes |-> TRUE, alerts |-> alerts]

MCRequests == {Post(<<Crash1, Crash2>>), Post(<<Crash2>>), Post(<<Closed>>), Post(<<Crash1, Strange>>),
               [Post(<<Crash1>>) EXCEPT !.token = FALSE]}

\* Of three replicas fewer, or one more than wanted; 34% missing exactly; a
\* pod of a Job.
Replicated(desired, available) ==
    [readable |-> TRUE, owner |-> "ReplicaSet", desired |-> desired, available |-> available]
MCReadings ==
    {Unread, Replicated(3, 1), Replicated(3, 2), Replicated(3, 4),
     Replicated(50, 33), [Replicated(0, 0) EXCEPT !.owner = "Job"]}

Budget(a, e, t, r, f, s) == [deliveries |-> 1, alerts |-> a, edits |-> e, turns |-> t, removals |-> r,
                             faults |-> f, stops |-> s]

\* One delivery: of two alerts; of one while the switch is turned and reads and
\* writes fail, while processes end, or while records are removed; of none while
\* strategies are edited and processes end.
MCBudgets == {Budget(2, 0, 0, 0, 0, 0), Budget(1, 0, 1, 0, 1, 0), Budget(1, 0, 0, 0, 0, 1),
              Budget(1, 0, 0, 1, 0, 0), Budget(0, 1, 0, 0, 0, 1)}
=============================================================================

---------------------------- MODULE AlertRouting ----------------------------
(***************************************************************************)
(* How a delivery becomes Remediations, and what the strategies say of       *)
(* themselves meanwhile: the gateway (gateway/gateway.go) and its gate in    *)
(* cmd/remedik/main.go, alert/parse.go, matching/matching.go, the sink       *)
(* (engine/sink.go) with posture.go, pause.go, guards/blastradius.go and     *)
(* workload.go, and the strategy reconciler (engine/strategy.go).            *)
(*                                                                         *)
(* Replicas share a lease.  Each has its own caches, its own copy of the     *)
(* pause switch and its own gate; any of them may be stopped, killed and     *)
(* started again.  What the in-memory guards answer is GuardedIntake's       *)
(* subject: here they allow or refuse.  How a record ends, and what deletes  *)
(* it, is RemediationLifecycle's.                                            *)
(***************************************************************************)
EXTENDS Integers, Sequences, FiniteSets, SequencesExt

CONSTANTS
    Replicas,       \* processes of the Deployment
    Handlers,       \* deliveries served at once
    Names,          \* strategies' names: numbers, in the names' order
    Stores,         \* the strategies there may be at first
    Catalogue,      \* what a strategy may be edited to
    Requests,       \* what senders deliver
    Readings,       \* how much of a workload the API server may report
    Registry,       \* actions this build can run
    Default,        \* Posture: "live" or "dryRun",
    Overrides,      \*   and the namespaces that differ
    Budgets         \* bounds: how often what may happen, taken together

NoOne == 0   \* nobody's lease

\* What is bounded: requests and the alerts they bring, edited strategies, turns of
\* the switch, removed records, failed API requests, ends of a process.
Limited == {"deliveries", "alerts", "edits", "turns", "removals", "faults", "stops"}

ASSUME RoutingAssumption ==
    /\ Replicas # {} /\ Handlers # {} /\ NoOne \notin Replicas
    /\ Names \subseteq Nat \ {NoOne}
    /\ \A f \in Stores : DOMAIN f \subseteq Names /\ IsFiniteSet(DOMAIN f)
    /\ \A s \in Catalogue \cup UNION {{f[n] : n \in DOMAIN f} : f \in Stores} :
         /\ s.enabled \in BOOLEAN /\ s.manual \in BOOLEAN /\ IsFiniteSet(DOMAIN s.match)
         /\ s.kind \in {"Deployment", "StatefulSet", "DaemonSet", "Pod", "Node", ""}
         /\ s.minAvailable \in Nat /\ s.maxUnavailable \in 0..100
    /\ \A w \in Readings : w.desired \in Nat /\ w.available \in Nat
    /\ Budgets \subseteq [Limited -> Nat]

VARIABLES
    life,        \* life[p]: "down", "up" or "stopping"
    lease,       \* the replica that holds the lease
    warm,        \* warm[p]: the guards' history has been replayed
    switch,      \* the pause ConfigMap: "absent", "off" or "on"
    paused,      \* paused[p]: Pause.paused of that process
    told,        \* history: what stood when p first read the switch on, which it still is
    strategies,  \* the stored strategies, with their status
    cached,      \* cached[p]: the strategies in p's cache
    records,     \* every record ever created
    listed,      \* listed[p]: the records in p's cache
    queue,       \* the leader's queue of strategies to reconcile
    handler,     \* handler[h]: where a delivery is
    left         \* left[b]: how often b may still happen

processVars == <<life, lease, warm, switch, paused, told>>
statusVars == <<strategies, cached, listed, queue>>
vars == <<processVars, statusVars, records, handler, left>>

Idle == [at |-> "idle"]
Untold == [known |-> FALSE, after |-> 0, pending |-> {}]
NoStatus == [generation |-> 0, count |-> 0, newest |-> 0, ready |-> FALSE]

Stored(s, status) == [spec |-> s, generation |-> 1, status |-> status]

\* Registry.ValidateNames, of the steps and of the escalation.
Ready(s) == s.steps \subseteq Registry /\ s.onFailure \subseteq Registry

\* An operator that is installed again over strategies it has described before.
Init ==
    /\ life = [p \in Replicas |-> "down"] /\ lease = NoOne
    /\ warm = [p \in Replicas |-> FALSE]
    /\ switch \in {"absent", "on"}
    /\ paused = [p \in Replicas |-> FALSE] /\ told = [p \in Replicas |-> Untold]
    /\ \E f \in Stores : strategies =
         [n \in DOMAIN f |->
            Stored(f[n], [NoStatus EXCEPT !.generation = 1, !.ready = Ready(f[n])])]
    /\ cached = [p \in Replicas |-> <<>>] /\ listed = [p \in Replicas |-> {}]
    /\ records = <<>> /\ queue = {}
    /\ handler = [h \in Handlers |-> Idle]
    /\ left \in Budgets

Spend(b) == left[b] > 0 /\ left' = [left EXCEPT ![b] = @ - 1]

Present == {i \in DOMAIN records : ~records[i].deleted}
-----------------------------------------------------------------------------
(* Processes.  controller-runtime syncs the caches before anything else runs, *)
(* starts what needs the lease when it is won, and on a signal closes the     *)
(* listeners before it lets the lease go.                                    *)

Boot(p) ==
    /\ life[p] = "down"
    /\ life' = [life EXCEPT ![p] = "up"]
    /\ cached' = [cached EXCEPT ![p] = strategies]
    /\ listed' = [listed EXCEPT ![p] = Present]
    /\ UNCHANGED <<lease, warm, switch, paused, told, strategies, records, queue, handler, left>>

\* The controllers start: everything in the cache is enqueued.
Lead(p) ==
    /\ life[p] = "up" /\ lease = NoOne
    /\ lease' = p
    /\ queue' = DOMAIN cached[p]
    /\ UNCHANGED <<life, warm, switch, paused, told, strategies, cached, listed, records, handler, left>>

\* Mutant: a warmer that does not ask for the lease.
WarmAtBoot(p) ==
    /\ life[p] = "up" /\ ~warm[p]
    /\ warm' = [warm EXCEPT ![p] = TRUE]
    /\ UNCHANGED <<life, lease, switch, paused, told, statusVars, records, handler, left>>

\* guardWarmer: the leader replays the history; until then the gate is closed.
Warm(p) ==
    /\ life[p] = "up" /\ lease = p /\ ~warm[p]
    /\ warm' = [warm EXCEPT ![p] = TRUE]
    /\ UNCHANGED <<life, lease, switch, paused, told, statusVars, records, handler, left>>

Signal(p) ==
    /\ life[p] = "up"
    /\ life' = [life EXCEPT ![p] = "stopping"]
    /\ Spend("stops")
    /\ UNCHANGED <<lease, warm, switch, paused, told, statusVars, records, handler>>

\* LeaderElectionReleaseOnCancel, with deliveries possibly still in flight.
Release(p) ==
    /\ life[p] = "stopping" /\ lease = p
    /\ lease' = NoOne /\ queue' = {}
    /\ UNCHANGED <<life, warm, switch, paused, told, strategies, cached, listed, records, handler, left>>

\* Everything the process held is gone, deliveries in flight included.
Gone(p) ==
    /\ life' = [life EXCEPT ![p] = "down"]
    /\ lease' = IF lease = p THEN NoOne ELSE lease
    /\ queue' = IF lease = p THEN {} ELSE queue
    /\ warm' = [warm EXCEPT ![p] = FALSE]
    /\ paused' = [paused EXCEPT ![p] = FALSE] /\ told' = [told EXCEPT ![p] = Untold]
    /\ cached' = [cached EXCEPT ![p] = <<>>] /\ listed' = [listed EXCEPT ![p] = {}]
    /\ handler' = [h \in Handlers |->
                     IF handler[h] # Idle /\ handler[h].on = p THEN Idle ELSE handler[h]]
    /\ UNCHANGED <<switch, strategies, records>>

Exit(p) ==
    /\ life[p] = "stopping" /\ lease # p
    /\ Gone(p)
    /\ UNCHANGED left

\* Killed, out of memory, its lease lost, or Load failed and stopped the manager.
Crash(p) ==
    /\ life[p] # "down"
    /\ Gone(p)
    /\ Spend("stops")
-----------------------------------------------------------------------------
(* The pause switch *)

\* Deliveries p serves that have read DryRun for an alert and not created yet.
Pending(p) == {h \in Handlers : handler[h].at \in {"label", "create"} /\ handler[h].on = p}

\* The first time p reads the switch on: the records there are, and what is pending.
Telling(p) ==
    IF told[p].known THEN told[p]
    ELSE [known |-> TRUE, after |-> Len(records), pending |-> Pending(p)]

\* PauseWatcher.poll, on every replica: a missing ConfigMap is not paused.
Poll(p) ==
    /\ life[p] # "down"
    /\ paused' = [paused EXCEPT ![p] = switch = "on"]
    /\ told' = [told EXCEPT ![p] = IF switch = "on" THEN Telling(p) ELSE Untold]
    /\ UNCHANGED <<life, lease, warm, switch, statusVars, records, handler, left>>

\* Mutant: an unreadable switch counts as off.
PollFailsOpen(p) ==
    /\ life[p] # "down"
    /\ Spend("faults")
    /\ paused' = [paused EXCEPT ![p] = FALSE]
    /\ UNCHANGED <<life, lease, warm, switch, told, statusVars, records, handler>>

\* The read fails: the last known answer stays.
PollFails(p) ==
    /\ life[p] # "down"
    /\ Spend("faults")
    /\ UNCHANGED <<processVars, statusVars, records, handler>>

SetSwitch(to) ==
    /\ switch # to /\ switch' = to /\ Spend("turns")
    /\ told' = [p \in Replicas |-> Untold]
    /\ UNCHANGED <<life, lease, warm, paused, statusVars, records, handler>>

\* Posture.DryRunFor: a target without a namespace takes the default.
DryRunFor(namespace) ==
    IF namespace # "" /\ namespace \in DOMAIN Overrides
      THEN Overrides[namespace] = "dryRun"
      ELSE Default # "live"
-----------------------------------------------------------------------------
(* Matching.  A rule is a strategy's name and spec as the delivery listed it. *)

\* A Go map yields "" for a label the alert does not have.
LabelOf(labels, key) == IF key \in DOMAIN labels THEN labels[key] ELSE ""

Usable(s) == s.enabled /\ DOMAIN s.match # {}

Matches(labels, s) ==
    Usable(s) /\ \A key \in DOMAIN s.match : LabelOf(labels, key) = s.match[key]

Specificity(s) == Cardinality(DOMAIN s.match)

\* Mutant: ties are left in the order of the list.
PrecedesUntied(r, o) == Specificity(r.spec) > Specificity(o.spec)

Precedes(r, o) ==
    \/ Specificity(r.spec) > Specificity(o.spec)
    \/ Specificity(r.spec) = Specificity(o.spec) /\ r.name < o.name

\* What sorting the matching rules may yield: no rule after one it precedes.
Candidates(labels, rules) ==
    {s \in SetToSeqs({r \in Range(rules) : Matches(labels, r.spec)}) :
       \A i, j \in DOMAIN s : i < j => ~Precedes(s[j], s[i])}

\* The first candidate, if there is one.
Select(labels, rules) == {Head(s) : s \in Candidates(labels, rules) \ {<<>>}}
-----------------------------------------------------------------------------
(* blastRadius *)

\* What stands for no reading at all, or one that failed.
Unread == [readable |-> FALSE, owner |-> "", desired |-> 0, available |-> 0]

Configured(s) == s.minAvailable > 0 \/ s.maxUnavailable > 0

\* WorkloadHealth.Workload looks nothing up for a node, or for no target.
LookedUp(s) == s.kind \in {"Deployment", "StatefulSet", "DaemonSet", "Pod"}

\* behindPod: a pod stands for its controller's workload.
Applicable(s, w) ==
    \/ s.kind \in {"Deployment", "StatefulSet", "DaemonSet"}
    \/ s.kind = "Pod" /\ w.owner \in {"ReplicaSet", "StatefulSet", "DaemonSet"}

Unavailable(w) == IF w.available >= w.desired THEN 0 ELSE w.desired - w.available

\* Rounded up.
UnavailablePercent(w) ==
    IF w.desired = 0 THEN 0 ELSE (Unavailable(w) * 100 + w.desired - 1) \div w.desired

\* Mutant: the last replica that must stay is given away.
WithinLimitsLate(s, w) ==
    /\ s.minAvailable > 0 => w.available >= s.minAvailable
    /\ s.maxUnavailable > 0 => UnavailablePercent(w) < s.maxUnavailable

WithinLimits(s, w) ==
    /\ s.minAvailable > 0 => w.available > s.minAvailable
    /\ s.maxUnavailable > 0 => UnavailablePercent(w) < s.maxUnavailable

\* EvaluateBlastRadius: what cannot be read is refused, what has no replicas allowed.
BlastRadiusAllows(s, w) ==
    Configured(s) /\ LookedUp(s) => w.readable /\ (Applicable(s, w) => WithinLimits(s, w))
-----------------------------------------------------------------------------
(* The gateway *)

\* The gate of main.go, asked per request.
Accepting(p) == life[p] = "up" /\ warm[p]

\* ServeHTTP before the body is read: 404, 405, 401, 503, in this order.
Refused(p, q) == ~q.path \/ ~q.post \/ ~q.token \/ ~Accepting(p)

Listening(p) == life[p] = "up" \/ (life[p] = "stopping" /\ lease = p)

Receive(h, p, q) ==
    /\ handler[h] = Idle /\ Listening(p)
    /\ left["deliveries"] > 0 /\ left["alerts"] >= Len(q.alerts)
    /\ left' = [left EXCEPT !["deliveries"] = @ - 1, !["alerts"] = @ - Len(q.alerts)]
    /\ handler' = IF Refused(p, q) THEN handler
                  ELSE [handler EXCEPT ![h] = [at |-> "body", on |-> p, request |-> q]]
    /\ UNCHANGED <<processVars, statusVars, records>>

\* ParseWebhook: one entry that cannot be understood refuses the delivery.
WellFormed(q) ==
    /\ q.fits /\ q.decodes
    /\ \A i \in DOMAIN q.alerts :
         q.alerts[i].status \in {"firing", "resolved"} /\ DOMAIN q.alerts[i].labels # {}

Reject(h) ==
    /\ handler[h].at = "body" /\ ~WellFormed(handler[h].request)
    /\ handler' = [handler EXCEPT ![h] = Idle]
    /\ UNCHANGED <<processVars, statusVars, records, left>>

\* Sink.Consume: the strategies are listed once, in whatever order, for all alerts.
Consume(h) ==
    LET here == cached[handler[h].on]
    IN  /\ handler[h].at = "body" /\ WellFormed(handler[h].request)
        /\ \E rules \in SetToSeqs({[name |-> n, spec |-> here[n].spec] : n \in DOMAIN here}) :
             handler' = [handler EXCEPT ![h] =
                           [at |-> "alert", on |-> @.on, request |-> @.request,
                            rules |-> rules, next |-> 1]]
        /\ UNCHANGED <<processVars, statusVars, records, left>>

\* The list fails: the delivery is dropped, and answered as accepted.
ListFails(h) ==
    /\ handler[h].at = "body" /\ WellFormed(handler[h].request)
    /\ handler' = [handler EXCEPT ![h] = Idle]
    /\ Spend("faults")
    /\ UNCHANGED <<processVars, statusVars, records>>
-----------------------------------------------------------------------------
(* Sink.consumeOne, for the alert a delivery has come to *)

Entry(h) == handler[h].request.alerts[handler[h].next]
Chosen(h) == Select(Entry(h).labels, handler[h].rules)

AtAlert(h) ==
    /\ handler[h].at = "alert"
    /\ handler[h].next <= Len(handler[h].request.alerts)

\* The rule the alert starts: none for one that is resolved, matched by nothing,
\* or the business of a manual strategy.
Started(h) == {r \in Chosen(h) : Entry(h).status = "firing" /\ ~r.spec.manual}

NextAlert(h) ==
    handler' = [handler EXCEPT ![h] =
        [at |-> "alert", on |-> @.on, request |-> @.request, rules |-> @.rules, next |-> @.next + 1]]

Ignore(h) ==
    /\ AtAlert(h) /\ Started(h) = {}
    /\ NextAlert(h)
    /\ UNCHANGED <<processVars, statusVars, records, left>>

\* The in-memory guards, or blastRadius after them, say no.
GuardsRefuse(h) ==
    /\ AtAlert(h) /\ Started(h) # {}
    /\ NextAlert(h)
    /\ UNCHANGED <<processVars, statusVars, records, left>>

\* The guards allow it; the target is resolved from the first step and may be
\* empty, and DryRun is read.
Decide(h) ==
    /\ AtAlert(h)
    /\ \E rule \in Started(h) :
         \E w \in IF Configured(rule.spec) /\ LookedUp(rule.spec) THEN Readings ELSE {Unread} :
           /\ BlastRadiusAllows(rule.spec, w)
           /\ handler' = [handler EXCEPT ![h] =
                [at |-> "label", on |-> @.on, request |-> @.request, rules |-> @.rules,
                 next |-> @.next, rule |-> rule, reading |-> w,
                 dryRun |-> DryRunFor(rule.spec.namespace) \/ paused[@.on]]]
    /\ UNCHANGED <<processVars, statusVars, records, left>>

\* create reads the switch once more, for the label.
Label(h) ==
    /\ handler[h].at = "label"
    /\ handler' = [handler EXCEPT ![h] =
         [at |-> "create", on |-> @.on, request |-> @.request, rules |-> @.rules, next |-> @.next,
          rule |-> @.rule, dryRun |-> @.dryRun, labelled |-> paused[@.on]]]
    /\ UNCHANGED <<processVars, statusVars, records, left>>

\* by and from, the process and the delivery, are not in the object.
Record(h, name, dryRun, labelled, gaveUp) ==
    [strategy |-> name, dryRun |-> dryRun, labelled |-> labelled, gaveUp |-> gaveUp,
     by |-> handler[h].on, from |-> h, deleted |-> FALSE]

Create(h) ==
    /\ handler[h].at = "create"
    /\ records' = Append(records, Record(h, handler[h].rule.name, handler[h].dryRun,
                                         handler[h].labelled, FALSE))
    /\ NextAlert(h)
    /\ UNCHANGED <<processVars, statusVars, left>>

CreateFails(h) ==
    /\ handler[h].at = "create"
    /\ NextAlert(h)
    /\ Spend("faults")
    /\ UNCHANGED <<processVars, statusVars, records>>

\* recordGiveUp: a record without steps, never a dry run.
GiveUp(h) ==
    /\ AtAlert(h)
    /\ \E rule \in Started(h) :
         records' = Append(records, Record(h, rule.name, FALSE, FALSE, TRUE))
    /\ NextAlert(h)
    /\ UNCHANGED <<processVars, statusVars, left>>

\* 200, whatever became of the alerts.
Respond(h) ==
    /\ handler[h].at = "alert" /\ ~AtAlert(h)
    /\ handler' = [handler EXCEPT ![h] = Idle]
    /\ UNCHANGED <<processVars, statusVars, records, left>>
-----------------------------------------------------------------------------
(* StrategyReconciler *)

RecordsOf(n, ids) == {i \in ids : records[i].strategy = n}

\* describe, with readiness and newestRecord.
Describe(n, stored, ids) ==
    LET mine == RecordsOf(n, ids)
    IN  [generation |-> stored.generation, count |-> Cardinality(mine),
         newest |-> IF mine = {} THEN 0 ELSE Max(mine), ready |-> Ready(stored.spec)]

\* Reconcile reads the cache and writes only a status that differs.  A write
\* from an object that is no longer the stored one, or is gone, is an error and
\* retried.
Reconcile(n) ==
    LET p == lease
        known == n \in DOMAIN cached[p]
        fresh == Describe(n, cached[p][n], listed[p])
        written == n \in DOMAIN strategies /\ strategies[n] = cached[p][n]
    IN  /\ lease # NoOne /\ n \in queue
        /\ IF known /\ fresh # cached[p][n].status
             THEN IF written
                    THEN /\ strategies' = [strategies EXCEPT ![n].status = fresh]
                         /\ queue' = queue \ {n}
                    ELSE UNCHANGED <<strategies, queue>>
             ELSE queue' = queue \ {n} /\ UNCHANGED strategies
        /\ UNCHANGED <<processVars, cached, listed, records, handler, left>>

Enqueue(p, names) == queue' = IF lease = p THEN queue \cup names ELSE queue

\* The informer of the strategies catches up, and enqueues what it shows anew.
ObserveStrategies(p) ==
    LET both == DOMAIN cached[p] \cap DOMAIN strategies
        changed == {n \in both : cached[p][n] # strategies[n]}
                     \cup ((DOMAIN cached[p] \cup DOMAIN strategies) \ both)
    IN  /\ life[p] # "down" /\ changed # {}
        /\ cached' = [cached EXCEPT ![p] = strategies]
        /\ Enqueue(p, changed)
        /\ UNCHANGED <<processVars, strategies, listed, records, handler, left>>

\* Mutant: disappearances are dropped along with the updates.
WatchedAdds(before, after) == {records[i].strategy : i \in after \ before}

\* SetupWithManager: records that appear or disappear, not those that change.
Watched(before, after) ==
    {records[i].strategy : i \in (after \ before) \cup (before \ after)}

ObserveRecords(p) ==
    /\ life[p] # "down" /\ listed[p] # Present
    /\ listed' = [listed EXCEPT ![p] = Present]
    /\ Enqueue(p, Watched(listed[p], Present))
    /\ UNCHANGED <<processVars, strategies, cached, records, handler, left>>

\* A person creates, edits or deletes a strategy.
Edit(n) ==
    /\ Spend("edits")
    /\ \/ \E s \in Catalogue :
            strategies' =
              IF n \in DOMAIN strategies
                THEN [strategies EXCEPT ![n].spec = s, ![n].generation = @ + 1]
                ELSE [m \in DOMAIN strategies \cup {n} |->
                        IF m = n THEN Stored(s, NoStatus) ELSE strategies[m]]
       \/ /\ n \in DOMAIN strategies
          /\ strategies' = [m \in DOMAIN strategies \ {n} |-> strategies[m]]
    /\ UNCHANGED <<processVars, cached, listed, queue, records, handler>>

\* Pruning, the sweeper, or a person.
RemoveRecord(i) ==
    /\ i \in Present
    /\ records' = [records EXCEPT ![i].deleted = TRUE]
    /\ Spend("removals")
    /\ UNCHANGED <<processVars, statusVars, handler>>
-----------------------------------------------------------------------------
Deliver(h) ==
    \/ Reject(h) \/ Consume(h) \/ ListFails(h) \/ Ignore(h) \/ GuardsRefuse(h)
    \/ Decide(h) \/ Label(h) \/ Create(h) \/ CreateFails(h) \/ GiveUp(h) \/ Respond(h)

Process(p) ==
    \/ Boot(p) \/ Lead(p) \/ Warm(p) \/ Signal(p) \/ Release(p) \/ Exit(p) \/ Crash(p)
    \/ Poll(p) \/ PollFails(p) \/ ObserveStrategies(p) \/ ObserveRecords(p)

Next ==
    \/ \E p \in Replicas : Process(p)
    \/ \E h \in Handlers : Deliver(h)
    \/ \E h \in Handlers, p \in Replicas, q \in Requests : Receive(h, p, q)
    \/ \E n \in Names : Reconcile(n) \/ Edit(n)
    \/ \E to \in {"absent", "off", "on"} : SetSwitch(to)
    \/ \E i \in DOMAIN records : RemoveRecord(i)

\* Pods are restarted, the lease is taken and released, informers deliver, the
\* queue is worked off.  No delivery, edit or removal need ever happen.
Fairness ==
    /\ \A p \in Replicas :
         WF_vars(Boot(p)) /\ WF_vars(Lead(p)) /\ WF_vars(Release(p)) /\ WF_vars(Exit(p))
           /\ WF_vars(ObserveStrategies(p)) /\ WF_vars(ObserveRecords(p))
    /\ \A n \in Names : WF_vars(Reconcile(n))

Spec == Init /\ [][Next]_vars /\ Fairness
-----------------------------------------------------------------------------
(* Properties *)

\* The gateway answers on every replica and the guards are in memory: at no
\* moment would two of them accept an alert, through boots, kills and hand-overs.
OnlyOneAccepts == \A p, q \in Replicas : Accepting(p) /\ Accepting(q) => p = q

\* The rule a delivery acts on is the one the package comment of matching.go
\* promises, computed here without sorting: of the rules the delivery listed that
\* match a firing alert, the one with the most matchers, and of those the first by
\* name, whatever the order of the list.  It is never a manual strategy's.
RoutedToMostSpecific ==
    \A h \in Handlers : handler[h].at = "label" =>
        LET rule == handler[h].rule
            matching == {r \in Range(handler[h].rules) :
                           /\ r.spec.enabled /\ DOMAIN r.spec.match # {}
                           /\ \A k \in DOMAIN r.spec.match :
                                \/ k \in DOMAIN Entry(h).labels /\ Entry(h).labels[k] = r.spec.match[k]
                                \/ k \notin DOMAIN Entry(h).labels /\ r.spec.match[k] = ""}
        IN  /\ Entry(h).status = "firing" /\ ~rule.spec.manual
            /\ rule \in matching
            /\ \A r \in matching \ {rule} :
                 LET mine == Cardinality(DOMAIN rule.spec.match)
                     theirs == Cardinality(DOMAIN r.spec.match)
                 IN  mine > theirs \/ (mine = theirs /\ rule.name < r.name)

\* blastRadius: a workload that is acted on while a limit is set was measured,
\* keeps more than minAvailable, and is missing less than the limit as an exact
\* fraction.
ActsOnlyWithMargin ==
    \A h \in Handlers :
        /\ handler[h].at = "label"
        /\ Configured(handler[h].rule.spec) /\ handler[h].rule.spec.kind \notin {"Node", ""}
        => LET s == handler[h].rule.spec
               w == handler[h].reading
           IN  /\ w.readable
               /\ Applicable(s, w) =>
                    /\ s.minAvailable > 0 => w.available > s.minAvailable
                    /\ s.maxUnavailable > 0 /\ w.desired > 0 =>
                         (w.desired - w.available) * 100 < s.maxUnavailable * w.desired

\* The executions p has recorded since it read the switch on, and those of them
\* that are live, or do not say why they are not.
Since(p) == {i \in DOMAIN records : i > told[p].after /\ records[i].by = p /\ ~records[i].gaveUp}
Astray(p) == {i \in Since(p) : ~(records[i].dryRun /\ records[i].labelled)}

\* A deliberate stop takes effect on the next alert (pause.go).  From when a
\* process reads the switch on until somebody turns it, each execution it records
\* is a dry run and labelled as paused, whatever reads fail and whichever replica
\* leads.  The exception is what it had already decided: of each delivery that was
\* then between reading DryRun and creating, one record, the first it still makes.
StopHolds ==
    \A p \in Replicas : told[p].known =>
        \A i \in Astray(p) :
            /\ records[i].from \in told[p].pending
            /\ \A j \in Since(p) : records[j].from = records[i].from => i <= j

\* The strategies' status comes to say what is stored: the generation, the number
\* of records and the newest of them, and whether every action can be run, in
\* spite of stale caches, conflicts and changes of leader.
StatusTellsTheTruth ==
    <>[](\A n \in DOMAIN strategies :
           strategies[n].status = Describe(n, strategies[n], Present))
=============================================================================

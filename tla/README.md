# remedik in TLA+

remedik receives Alertmanager webhooks, selects a `RemediationStrategy`, asks
its guards, and creates a `Remediation` record that a controller executes,
retries, escalates and finally prunes. This directory holds TLA+ models of the
parts of remedik that decide something, the TLC configurations that check them
on small instances, and TLAPS proofs of what holds for every instance.

Paths are relative to the repository; `engine/` stands for `internal/engine/`.

## 1. The system

| Component | Code | State it keeps | Operations |
|---|---|---|---|
| Gateway | `internal/gateway` | none; asks whether the guards are warm | one `Consume` per HTTP request, concurrently |
| Alert parsing, matching | `internal/alert`, `internal/matching` | none | decode, validate; `Select` the most specific strategy |
| Sink | `engine/sink.go` | none of its own | evaluate guards, create a record, count the start; create a give-up record |
| Guards and history | `internal/guards` | starts per strategy, completions per (strategy, target), in memory | evaluate; insert, count, expire |
| History loader | `engine/history.go`, `guardWarmer` in `cmd/remedik/main.go` | the list being replayed | replay stored records when the lease is won |
| Reconciler | `engine/controller.go`, `approval.go` | the records' status in the API server | run, retry, wait for approval, escalate, finish, prune |
| Step runner | `engine/steps.go`, `internal/action/action.go` | none | look up, resolve, plan or execute, verify one step |
| Escalation | `engine/escalation.go` | none | run the channels of a failed record under one deadline |
| Sweeper | `engine/sweeper.go` | none | delete old ended records above the guard floor |
| Pause, posture | `engine/pause.go`, `posture.go` | the switch; the per-namespace mode | fix `dryRun` on a new record |
| Strategy reconciler | `engine/strategy.go` | a strategy's status | readiness, number of records, newest record |
| Blast radius | `guards/blastradius.go`, `engine/workload.go` | none | read a workload, refuse or allow |
| Workload actions | `internal/action/workload` | none | restart, roll back, scale; delete pods and Jobs |
| Node and volume actions | `internal/action/node` | none | cordon, drain, expand claims |
| External actions | `internal/action/external` | none | call webhooks, run Jobs and scripts |
| Processes | `cmd/remedik/main.go` | the lease, the gate | boot, lead, warm up, shut down |
| Dashboard, metrics, events | `internal/dashboard`, `internal/metrics`, `engine/events.go` | none that a decision reads | render, count |

How they interact. The sink, the sweeper and the reconciler share the records
through the API server; all of them read through the manager's cache, which
lags, and only the loader reads the API server itself. The sink and the
reconciler share the in-memory history. A status write carries the
resourceVersion of what was read, so it is refused when anything was stored in
between. The controller's workqueue never gives one key to two workers, but up
to `concurrency` records are worked on at once. One process holds the lease;
when it dies another takes over with an empty memory and a fresh cache. Every
replica serves the webhook, polls the pause switch and keeps its own caches; only
a leader whose guards are warm accepts. Actions use a client without a cache, so
their reads are current when they are made and stale when they are used.

What is hard. A pass reads from a lagging cache, acts on the cluster and only
then writes; a write can be refused, fail, or land with its response lost; a
process can die between any two of these; people patch the same object; timers
and watch events race; concurrent deliveries ask guards whose answer is stale
when it is used; guards are rebuilt from records that two policies delete. A step
checks, writes and verifies an object that people, controllers and other steps
change meanwhile, with patches that carry no resourceVersion; a controller may
never report; an endpoint may act and not answer; a retry repeats what was done.
PROJECT.json lists each of these hazards at its line, with the properties that
would catch it going wrong.

What makes each part correct:

* reconciler: no step is executed twice; nothing runs unannounced, unapproved or
  beyond the retry budget; a stored outcome is final and true; whoever must be
  paged is paged first; every record ends;
* guards, loader, retention: cooldown, `maxPerHour` and `giveUpAfter` hold across
  restarts, expiry and deletions, and a give-up record feeds none of them;
* sink: what escapes the guards under concurrency is bounded;
* gateway, matching, blast radius, pause: one replica accepts, the most specific
  rule is acted on, only with the margin it asks for, and a stop stays a stop;
* strategy reconciler: the status comes to agree with what is stored;
* actions: Succeeded means that the thing happened, nothing is written beyond the
  step's limits or removed that it may not remove, a dry run writes nothing, and
  every step ends;
* escalation: its report is true, a fallback stops at the first that got through.

## 2. Modules

| Module | Models |
|---|---|
| `RemediationRecord` | abstract specification: the state machine of a record as a reader of the API sees it, with the steps executed for it |
| `RemediationLifecycle` | the reconciler, its cache, workqueue, workers and timers, the loader's race with it, and the world |
| `RemediationSafety_proofs` | type correctness, the inductive invariant, the safety theorems, the refinement |
| `RemediationOutcome_proofs` | what a stored outcome says about the world; extends `RemediationSafety_proofs` |
| `GuardedIntake` | sink, guards, in-memory history, replay, prune and sweeper |
| `AlertRouting` | replicas and their lease, gateway, parsing, matching, blast radius, pause, posture, the sink around the guards, and the strategy reconciler |
| `StepRunner` | one step of a plan: its phases, faults, verification deadline and retries; extended by the three modules below |
| `RolloutActions` | `deployment.restart`, `workload.restart`, `deployment.rollback`, `deployment.scale`, `hpa.scale` |
| `NodeActions` | `node.drain`, `node.cordon`, `node.uncordon`, `pvc.expand`, `pod.delete`, `job.delete` |
| `ExternalActions` | `webhook.call`, `job.run`, `script.run`, as steps and as escalation channels |
| `GuardedIntake_proofs`, `AlertRouting_proofs`, `RolloutActions_proofs`, `NodeActions_proofs`, `ExternalActions_proofs` | the theorems about the module each is named after |
| `StepRunner_proofs` | lemmas about the phases of a step, shared by the proofs about the three action modules |
| `FixedWidth` | Go's integer arithmetic, with the width as a parameter |
| `MC...` | constants for TLC |

`RemediationLifecycle` sees a step as success or failure, with or without an
effect; the action modules say what a step is. `AlertRouting` sees the in-memory
guards as an answer; `GuardedIntake` says which. Both leave a record's life to
`RemediationLifecycle`.

### RemediationLifecycle

The API server is `log[r]`, the sequence of all versions of record `r`; a
resourceVersion is an index into it. `seen[r]` is the cache's position,
`worker[r]` the pass that holds `r` (the workqueue's guarantee lets workers be
indexed by record), `timers[r]` the pending `RequeueAfter`s. `ran[r]` is what
really happened to the cluster, `pages[r]` how often the escalation ran.

A pass of `Reconcile` is split where another actor can step in:

| Action | Code |
|---|---|
| `ReconcileNothing`, `...Interrupted`, `...GaveUp`, `...Run`, `...Denied`, `...TimedOut`, `...Waiting` | the switch in `Reconcile` and `awaitApproval`, one action per branch |
| `StartAttempt` | `runAttempt`'s Running write |
| `StepSucceeds`, `StepFails` | one step of `StepRunner.Run`, dry or real; a failing step may or may not have changed the cluster |
| `RecordFailedAttempt` | the Pending write and the backoff requeue |
| `MarkAwaitingApproval` | the status write of `markAwaitingApproval` and the poll requeue |
| `Escalate` | `escalate`, before the terminal write on every path that pages |
| `Finish`, `RecordAndPrune`, `PruneDelete`, `PruneFails` | `finish`: the write, then `RecordCompletion` and `prune`, delete by delete |
| `UpdateConflict`, `UpdateFails`, `UpdateResponseLost` | the three ways a status update returns an error |
| `Observe`, `TimerFires`, `Crash`, `Restart` | controller-runtime and the process (external) |
| `LoadList`, `LoadApply` | `HistoryLoader.Load`, concurrent with the reconcilers |
| `Create`, `Decide`, `Touch`, `Tick` | the sink, people, time |

Abstracted: all records belong to one strategy; the plan is `NumSteps` equal
steps; messages, events, metrics and the per-step report are left out (the
report never reaches the API server while a step runs).

### GuardedIntake

`records` keeps every record ever created, with its times and whether it was
deleted; `starts` and `completions` are the sorted slices of `MemoryHistory`,
with the append-and-sort of its writers and the bisection of its readers. The
sort moves one entry of a slice that was sorted before, so `Insert` puts it in
front of the entries that are not older (`Older`). `LoadList`, `LoadRecord` and
`LoadDone` are `Load`: the list, one record after the other in any order, the prune
at the end; reconcilers complete records in between.
`handler[h]` is a concurrent `Consume`, stopped between the guards' answer and
the create (`Consume`), and between the create and `RecordStart` (`Create`).
`Complete` and `RecordCompletion` are `finish` on both sides of its write's
return; the prune that follows and the sweeper delete any subset of what their
rule selects, which covers a lagging list, a failed delete and the limit on
deletes per sweep. An alert that is resolved, matches nothing, is manual, or is
refused changes nothing and is no step. Evaluation and the lookup for an earlier
give-up record are one step; a lookup made later sees at most more.

A lost response of the terminal write is the lifecycle model's subject and is
left out here; so is a create of a dead process that reaches the API server
after its successor listed.

### AlertRouting

A replica is `down`, `up` or `stopping`; `lease` names the leader, `warm[p]` is
the channel `guardWarmer` closes, `paused[p]` the process's `Pause`. `cached` and
`listed` are its caches of strategies and records, `strategies` and `records`
what is stored. `handler[h]` is a request in progress.

| Action | Code |
|---|---|
| `Boot`, `Lead`, `Warm`, `Signal`, `Release`, `Exit`, `Crash` | `run`, `httpServer`, `guardWarmer`; the manager's start and shutdown order is controller-runtime's |
| `Poll`, `PollFails`, `SetSwitch` | `PauseWatcher.poll`; a person |
| `Receive`, `Reject`, `Respond` | `ServeHTTP` before, at and after the body |
| `Consume`, `ListFails`, `Ignore`, `GuardsRefuse`, `Decide`, `Label`, `Create`, `CreateFails`, `GiveUp` | `Sink.Consume` and `consumeOne`; `create` is split at its two reads of the pause switch (for `DryRun`, for the label) and its request |
| `Reconcile`, `ObserveStrategies`, `ObserveRecords` | `StrategyReconciler.Reconcile`, and what its watches enqueue |
| `Edit`, `RemoveRecord` | people, pruning |

`Matches`, `Precedes`, `Candidates` and `Select` are `matching.go`; labels are
functions from keys to values. A cache lists in no particular order, so a delivery
holds its strategies in any order, and `Candidates` is the set of sorted orderings
of those that match. A workload reading is a record of what
`WorkloadHealth.Workload` returned, unreadable included; nothing is read for a
strategy without a limit, a node, or no target. `told[p]` is history: how many
records there were, and which deliveries had read `DryRun` and not created yet, when
`p` first read the switch on. Assumed of the
environment: a process that loses its lease exits before another acquires it; the
listeners are closed before the lease is released; a status update is refused
exactly when the cached object is not the stored one. JSON decoding is reduced to
whether the body is well formed, and fingerprints, which nothing here decides on,
are left out.

### StepRunner and the actions

A runner executes a step in the phases `pending`, `checking` (Plan or Execute
reads), `writing` (Execute is about to send its write), `verifying`, and one of
the ends. Each action of an action module is one of StepRunner's transitions
together with what is read or written, so that anything can happen between two
calls. Faults are requests that fail, requests that are carried out and whose
answer is lost, and the death of the process, which interrupts every step.

* `RolloutActions`: one workload with its status, revisions and autoscaler. Its
  controller (`ControllerSync`) may report any counts, late or never; a status
  names the generation it was computed for. The updated replicas it counts are
  among the current ones, which is the meaning of the fields and all that is assumed
  of it. A patch changes the object of that
  moment and raises the generation if it changed anything. A template is a
  version, a restart stamp and a map entry that only some versions have.
* `NodeActions`: pods of each kind `classify` tells apart, Jobs, a node, a claim.
  Budgets, kubelet, controllers, scheduler and volume driver are external: the
  scheduler binds only to open nodes, and a volume never shrinks. The kind of a pod
  belongs to the object, not to its name: a name that is free may be used again, with
  a higher uid, for a pod of any kind but a DaemonSet's or a static one (whose names
  their node makes), and a pod may lose its controller. Pods do not change their
  volumes, nor Jobs become pods. `listed[r]` is what a step read of the objects it
  goes on to remove, `removed` what each request then hit (`Remove`). Every write
  (cordon, eviction, deletion, expansion) may be carried out and its answer lost
  (`Carried`).
* `ExternalActions`: an endpoint has a request or not, a Job has a state and a
  count of failures. In an escalation the calls that time out use up the shared
  deadline; calls that are answered take no time. A channel is not retried and
  never dry. Bodies, manifests and logs are left out.

The restart stamp has the resolution of a second, so two restarts may share one
(`ApplyRestart`). Counts and sizes wrap at `IntMax`.

## 3. Runs

Passing:

| Run | Instance | Shows |
|---|---|---|
| `lifecycle` | one record of each kind (automatic, approval, dry-run, give-up), two steps, one crash, one fault, one foreign write (two where decisions are read: one approves, the other takes that back), a first list that is one version behind | the lifecycle's safety properties and that it implements `RemediationRecord` |
| `lifecycle_ends` | an automatic record with a retry and an approval-mode one, under fairness, with a crash, a fault and a patch | `EveryRecordEnds` |
| `lifecycle_shared` | two records, two workers, history limit 1, a failing request, a restart whose first list is behind, responses that arrive | concurrent prunes from lagging lists delete only ended records; no completion falls between replay and reconcilers |
| `intake` | one delivery at a time, alerts with and without a target, a restart, three records, `giveUpAfter` 2, five ticks | cooldown, `giveUpAfter` and, here exactly, `maxPerHour` hold across the restart, the sweeps and the expiry; giving up takes real executions, each counted at most twice; the bisection is exact |
| `intake_storm` | two deliveries, up to four records in one hour, a failing create, history limit 1 | `maxPerHour` is exceeded by at most one per other delivery and per lost response |
| `rollout` | 13 steps by themselves with a retry, and a scale and a rollback at once, on a Deployment or a DaemonSet, one edit, one fault, 8-bit integers | Succeeded means rolled out for the step's own generation or a later one; scaling stays within bounds where the arithmetic wraps; rollbacks install own revisions only; dry runs write nothing; every step ends |
| `node` | 19 steps by themselves, and a drain with a `pod.delete` on the same node (that ends with its eviction, its `verifyTimeout` being invalid), eight objects of seven kinds, one edit, one fault | a drained node is empty; what an eviction or deletion ends is what was read and let go, or a later object of its name, and never two of them; deleted means gone, expanded means capacity; steps end once the budgets let pods go |
| `external` | 13 lists of channels in both modes, and steps with a retry, one or two at a time; one fault, one removed Secret | a verdict is about the attempt's own Job, fallbacks stop, reports are true, everything ends |
| `routing` | two replicas, two strategies of four stores, a request of two alerts, and of one per scenario with a turn of the switch and a fault, an end of a process, or a removal; an edit | one replica accepts, the most specific rule is acted on, blastRadius holds exactly, a stop holds from the next alert on, the status comes to be true |

Bounds. One crash, one failed request and one foreign write suffice to put each
of them between any two steps of a pass. Two decisions on an approval-mode record
approve it and take that back, so that the pass that read the approval is stale; a
decision on any other record is never read, and `lifecycle` leaves it to
`lifecycle_ends` (`MaxDecisions`, `MaxTouches`). A second pass over the same record
is what the first one leaves behind. Two steps distinguish a plan that ran from
one that was cut off, a retry budget of one distinguishes first, last and one
attempt too many. In the intake model the windows are one and two ticks, the
floor's margin one, the horizon five ticks in `intake`: a record can be inside one
window and outside the next, and be swept; a count of two makes a completion that
is counted twice matter. Two handlers give the race; the bound they obey is
stated for any number. With a lost response `intake_storm` admits three executions
in its one hour, and four records let a fourth be attempted. Records of different kinds are separate initial states of
one run. In the action runs a plan is an initial state, so each kind of step, and
each parameter that takes another path, is explored against every interleaving
of the same environment; with eight bits, a percentage of two or three replicas,
or of a claim of nine units, overflows. Two runners share one object, which is what
there is to interfere with. In `routing`, `Budgets` gives scenarios rather than
one bound per kind, since all kinds at once would be out of reach; each pairs the
events that interact (a delivery with a turn of the switch and a failed read, with
the end of a process, with a removal; an edit with the end of a process). The
delivery of two alerts is what a stop can overtake between them; there the switch is
on from the start and the process reads it at any moment.
Only `routing` checks deadlock: the others stop at a clock bound or when their
steps are over.

Fairness. `lifecycle_ends`: weak fairness for what the process does on its own
once it can: worker steps return, the watch delivers, timers fire, the loader
runs, a dead process is replaced, time passes. Strong fairness for taking a
record from the queue, because a worker is shared: a queued key may find it free
only now and then, and the workqueue is first in, first out. `rollout`, `node`,
`external`: weak fairness of each runner's next step, as one formula: a worker
runs a step within one reconcile, and a poll sleeps no longer than its deadline;
nothing is assumed of controllers, budgets, endpoints, Jobs or answers.
`StepsEndOnceAllowed` states its one condition, `<>[]budget`, itself, because
`evictAll` has no deadline. `routing`: pods are restarted, a free lease is taken, a
stopping process releases it and exits, informers deliver, the queue is worked
off. Nothing is assumed of people or of faults anywhere.

### Where documents and code differ

Each of these is a run that TLC finds violated; PROJECT.json quotes the line.

| Run | Statement | What happens |
|---|---|---|
| `claim_rollback_retry` | an action that is retried is idempotent, or detects that it is not | after a rollback whose verification timed out, the previous revision is the broken release; the retry installs it |
| `claim_rollback_merge` | a rollback makes the old template the Deployment's again | a merge patch leaves map entries that only the bad release set |
| `claim_every_channel` | every channel of an escalation is tried | one that hangs uses up the deadline all channels share; the next fails unsent |

Seen while modelling and not kept as runs. The models reach each of these; the
properties are stated so that they hold in spite of them.

*Records and guards.*
* docs/invariants.md:46: a record found Running means that the process died. A
  patch during the attempt makes the final write conflict, and the next pass fails
  a finished remediation as Interrupted (`engine/controller.go:107`).
* docs/invariants.md:139: an escalation is never repeated. `markGaveUp` and
  `timeOutApproval` page before any write; a failed write repeats the page.
* docs/routing.md:101: retries wait for the backoff. The Pending write's own watch
  event requeues the record at once (`engine/controller.go:215`).
* docs/architecture.md:273: giving up takes N remediations. After a restart a
  completion may be counted by the replay and by its own pass
  (`engine/history.go:72`); `GiveUpIsEarned` states the half that remains.
* docs/invariants.md:98: retention never deletes inside a guard window. The
  reconciler's prune has no floor (`engine/controller.go:323`).
* openspec/specs/remediation-strategies/spec.md:134: cooldown is the minimum time
  between executions. The history forgets after 24 hours, whatever the cooldown
  (`guards/memory.go:155`); the runs keep windows within the retention.
* A denial stored while the timeout escalates ends as Denied after the page; a
  terminal write whose response is lost is never told to the history; two passes of
  a strategy that complete together may prune each other's record; concurrent
  deliveries exceed `maxPerHour` (by no more than `RateBounded` says) and may all
  pass blastRadius; a second give-up record is created when the next alert comes
  before the cache shows the first.

*Intake.*
* A delivery whose strategies cannot be listed is dropped and answered 200
  (`engine/sink.go:94`), so that the sender does not repeat it; one that is cut off
  by the end of the process is repeated and may create records again.
* engine/pause.go:114 says that an operator which starts while paused is paused
  from its first alert; the first poll races the gateway and may fail.
* engine/pause.go:25 says that the switch takes effect on the next alert. It is read
  twice per record and the request comes later: the record of an alert in progress
  may be live although the process has read the switch on since, and live and
  labelled paused, or simulated without the label. `StopHolds` states that bound:
  one record, the first, of each delivery that was that far.

*Actions.*
* `deployment.scale`'s Verify does not look at the generation
  (`workload/scale.go:127`), and a ceiling raised by somebody between the read and
  the patch is lowered again. `increaseBy` and percentages compound on a retry; a
  retried expansion to a fixed size is refused, because it was done.
* An invalid `verifyTimeout` is found after Execute (`engine/steps.go:266`), an
  invalid `gracePeriodSeconds` not by Plan, so a dry run does not report it.
* `evictAll` has no deadline; an eviction names no UID; `job.delete`'s Verify fails
  when a Job of that name is made again; a Job removed by its TTL before the next
  poll counts as failed, and a retry runs it again; a lost answer of a create or of
  a webhook does so too.
* docs/architecture.md:523 says that a cordon has no Verify, and :430 that
  executions are serialised; the code verifies cordons and runs four at once.

One observation that is no divergence: the sweeper's floor and the guards'
windows overlap in one instant (a completion exactly `within` ago still counts,
and without `floorMargin` could already be deleted), so `GiveUpHonoured` needs
the margin to be positive, which in the code it is.

## 4. Proofs

TLC checks the instances of section 3; the theorems below hold for every value of
the constants that satisfies the assumption named in the module that declares
them (`LifecycleAssumption`, `IntakeAssumption`, `RoutingAssumption`, `StepRunnerAssumption`,
`RolloutAssumption`, `NodeAssumption`, `ExternalAssumption`,
`FixedWidthAssumption`). These say what type a parameter has and what the API
server's or the CRD's validation admits (a percentage is at most 100, a
`pod.delete` names a pod), and of the code's constants that the history is kept for
an hour at least and the sweeper's margin is positive (24 hours and two); TLC evaluates each of them in every run. Bounds such as
`MaxFaults` are any natural number.

| Module | Theorem | States |
|---|---|---|
| `RemediationSafety_proofs` | `TypeCorrect` | `TypeOK` |
| | `NoStepRepeats` | `StepsNeverRepeat` |
| | `EveryAttemptApproved` | `AttemptsAreApproved` |
| | `RetryBudgetKept` | `AttemptsWithinBudget` |
| | `EffectsAreAnnounced` | `EffectsOnlyWhileRunning` |
| | `OutcomeIsFinal` | `TerminalIsFinal` |
| | `PruningIsSafe` | `PruneOnlyTerminal` |
| | `LifecycleImplementsRecord` | `ImplementsRecord`, the refinement of `RemediationRecord` |
| `RemediationOutcome_proofs` | `OutcomeIsTrue` | `OutcomeMatchesEffects` |
| | `PagedBeforeFailed` | `FailureIsPagedFirst` |
| | `PagedOnlyOnce` | `FailurePagesOnce` |
| | `NothingForgotten` | `CompletionsRemembered`, where responses are not lost |
| `GuardedIntake_proofs` | `IntakeTypes` | `TypeOK` |
| | `CountsAreExact` | `SearchIsExact` |
| | `CooldownHolds` | `CooldownHonoured`, if `Remembers` and the cooldown is within the retention |
| | `GiveUpHolds` | `GiveUpHonoured`, if `Remembers` and the window is set and within the retention |
| | `GiveUpEarned` | `GiveUpIsEarned` |
| | `RateHolds` | `RateBounded`, if `Remembers` |
| `AlertRouting_proofs` | `OneAcceptor` | `OnlyOneAccepts` |
| | `StopIsKept` | `StopHolds` |
| | `RoutesToMostSpecific` | `RoutedToMostSpecific` |
| | `MarginIsKept` | `ActsOnlyWithMargin` |
| `RolloutActions_proofs` | `RolloutTypes` | `TypeOK` |
| | `VerifiedIsRolledOut` | `VerifiedMeansRolledOut` |
| | `ScalesWithinBounds` | `ScalingWithinBounds` |
| | `RollsBackToOwn` | `RollbackOnlyToOwnRevisions` |
| | `DryRunsAreDry` | `DryRunsChangeNothing` |
| `NodeActions_proofs` | `DrainEmpties` | `DrainedMeansEmpty` |
| | `RemovalsAreJustified` | `RemovalsRestOnReadings` |
| | `DeletionIsReal` | `DeletedMeansGone` |
| | `ExpansionHolds` | `ExpansionIsReal` |
| `ExternalActions_proofs` | `VerdictOfOwnJob` | `JobVerdictIsItsOwn` |
| | `FallbackStops` | `FallbackStopsOnceDelivered` |
| | `ReportHolds` | `ReportIsTrue` |

### The lifecycle

`TypeOK` alone is not inductive: that a worker or the cache points at an existing
version (`Positions`) is needed to know that what is read is a version.

`RemediationSafety_proofs` first summarises what any step can do to one record
(`Move`), so that each invariant is shown once per kind of move rather than once
per action. The inductive invariant `IInv` is

* `Held`: what a worker may rely on. A pass about to start works from an open,
  approved version; one that executes or is about to record a retry works from a
  Running version, and the newest stored version is still Running with the same
  attempt number;
* `EndStays`: once a version has ended, the newest one has;
* `Counted`: attempts grow one at a time, within the budget, from approved
  versions;
* `Ordered`: the executed steps are strictly ordered by (attempt, step), none
  belongs to an attempt later than the stored one, and all precede the step a
  running attempt executes next;
* `DoomedEnded`: a record some prune is about to delete has ended.

The properties are not inductive by themselves because what a pass will do is
decided by what it read earlier: only the link between the worker's position and
the log (`Held`) excludes that two passes execute the same attempt. The crux is
that a version is created only by a write that was computed from the last one.

`RemediationOutcome_proofs` follows the pass that is about to write. What a step
does to one worker is one of a few turns (`Turn`); `OInv` adds to `IInv`, for each
record,

* `Executed` and `Truthful`: a running attempt has executed exactly the steps
  before the one it is at, so that a Succeeded verdict, carried or stored, has all
  of them behind it;
* `Harmless`: a dry run or a give-up executed nothing;
* `Told` and `Once`: whoever carries or stored a verdict that pages has paged, and
  of the attempts' pages there is at most one, because the record stays Running
  from the page to its end and a Running record is never attempted again;
* `Own`: only a give-up record is concluded as one;
* `Remembered`: a completed record is in the history, or on the loader's list, or in
  the hands of the pass that will count it.

`NothingForgotten` assumes `~LoseResponses`, and has to: `finish` returns on the
error of its write before it reaches `RecordCompletion`, so a write that lands
without an answer is not counted (section 3 lists it).

### Guards

The slices first. `OlderDivides` shows that any moment divides a sorted slice,
`InsertSorts` that an insertion keeps it sorted, and `SearchIsOlder` that the
bisection returns the division. The recursion of the bisection is resolved without
induction: a closed form (the division, moved to the nearer end of the interval)
satisfies the recursive equation, so that a solution exists; and the shortest
interval on which the function differed from it would contain a shorter one.

`Base` holds of every behaviour: types and sorted slices (`Typed`), times in their
order and never in the future (`Timely`), and a loader whose copy of a record is
old at worst, with nothing delivered before the replay is over (`Faithful`). What a
step may do to a record is stated once (`Evolves`).

The guards forbid what they remember, so each theorem needs that the memory has
every entry a window still needs. Counts are not inductive: with a replay, late
completions and expiry one has to know which entry stands for which record. The
invariants therefore say that there is an injection.

* `Located(t, w)`: each settled completion of `t` within `w`, that the loader has
  not yet to replay, has an entry of its own with its time. With it the newest entry
  is no older than any completion (`CooldownHolds`), and the count is at least the
  number of completions (`GiveUpHolds`).
* `Earned(t)`: each entry has a source of its own, a record together with who counted
  it, its pass or the replay. Two sources per record give the factor two of
  `GiveUpEarned`.
* `Tallied`: of the executions created in the last hour all but as many as are between
  the create and `RecordStart`, or whose create was reported as failed, have an entry
  of their own in `starts` that is no older than their creation. `Limited` adds those
  that are allowed and not yet created. Once the hour of a record is over nothing is
  added to it (`HourStep`), which makes `RateBounded` a statement about any hour.
* `Durable`: a deleted record completed before every window (the sweeper's floor).
  `Fresh`: a first process has nothing to replay.

`Remembers` is the one proviso about deletions: `MaxRecords <= HistoryLimit`, so
that prune never has an excess to delete, or `MaxCrashes = 0`, so that nothing is
ever rebuilt from the records. It is needed because prune has no floor, and the
bound on the windows because the history forgets after its retention (both in
section 3). TLC's runs satisfy one side each: `intake` restarts and keeps every
record that the sweeper leaves, `intake_storm` prunes down to one and does not
restart. `GiveUpEarned` needs no proviso: forgetting never makes a guard give up.

### Routing

* `Tenure`: only a running process is warm, and only the holder of the lease is
  warm and up. Acceptance alone is not inductive: a process that stops is warm and
  no longer the leader;
* `Informed`: whoever has been told of the stop still knows it;
* `Stocked`, `Served`: a delivery's list has each strategy once, with a spec
  somebody wrote; what it is about to create was selected from that list and allowed
  by the guard. The list and the reading may be stale by then, so the properties
  speak about what was read;
* `Heeded`: while a process is told of the stop, each delivery that has read
  `DryRun` is harmless (a dry run, and labelled once that is decided), or was
  overtaken and has recorded nothing since (`Obeyed`). `StopHolds` is not inductive
  without it, since what a create writes was read two steps earlier: it is the
  decisions taken before the telling that have to be counted, and each of them is
  spent by its record.

`RoutesToMostSpecific` needs that the sort's comparison is a total order on rules
with distinct names, and `MarginIsKept` that a percentage that is rounded up
(`UnavailablePercent`) stays below a limit only if the exact fraction does.

### Steps

`StepRunner_proofs` shows once that a transition touches one runner, begins no
attempt beyond the budget (`WithinBudget`, which type correctness needs) and never
moves a step that is over.

* Rollout: a status is of a generation that was, is measured against the replicas
  of its own generation, and is noted as complete if it says so (`Observed`);
  whatever the Deployment or a ReplicaSet it owns has, it ran (`Lineage`); what a
  step is about to write was decided within its bounds (`Decided`); it writes once
  per attempt and never in a dry run (`Wrote`); a verification that passed read a
  complete status of the patch or a later generation (`Rolled`). The arithmetic is
  proved to be safe for any width, since each result is compared with what was read
  after it may have wrapped.
* Node: a drain that closed the node, or found it closed, has it closed until
  somebody opens it, and only then are its evictions over (`Sealed`), so that
  nothing can be bound in between. The object of a name today descends from the one
  that was read (`Descends`): the same one, perhaps orphaned or bound, or a later
  one. What a step still means to remove was let go by its parameters when it was
  read (`Justified`, `Spared`), and what an attempt has removed it does not ask for
  again (`Unspent`, `Past`); the requests carry no uid, so `RemovalsRestOnReadings` cannot say more of what they
  hit. A uid that was read is never newer than the object (`Informed`), which makes
  a changed uid mean that the object is gone (`Vanished`); a size about to be written
  is an increase (`Sized`, `Written`).
* External: the Job an attempt recorded is one that this attempt created, and an
  ended Job does not run again (`Owned`); at most one request per attempt
  (`Counted`); a channel that has begun found those before it over, and none of them
  delivered if the first success is the last (`Ordered`); a report is made when
  every channel is over and stays true of them (`Reported`).

### Only model-checked

* Liveness under fairness, which the prover does not do: `EveryRecordEnds`,
  `StepsEnd`, `StepsEndOnceAllowed`, `CallsEnd`, `StatusTellsTheTruth`.
* The three claims that TLC refutes.

Every invariant and every action property of a passing run is stated by a theorem.

## 5. Plan

1. Proofs: a weaker proviso than `Remembers`, in terms of how many records of a
   strategy complete within a window.
2. `GuardedIntake`: strategies that are edited (a longer cooldown against the
   floor's margin), clocks that differ.
3. Composition: `GuardedIntake`'s executions refined by `RemediationLifecycle`.

## Not modelled

* The dashboard, about a third of the source lines: it renders what is stored,
  writes nothing and keeps no state.
* Metrics, events and snapshots: no decision reads them.
* The durations of the backoff, since no property depends on them.
* JSON decoding, fingerprints, flags, descriptions, request bodies, Job manifests
  and log tails: data the properties do not tell apart.
* Generated code and the chart.

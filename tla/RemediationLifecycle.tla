------------------------ MODULE RemediationLifecycle ------------------------
(***************************************************************************)
(* The life of Remediation records under the RemediationReconciler         *)
(* (internal/engine/controller.go, approval.go, escalation.go, steps.go,   *)
(* history.go).                                                            *)
(*                                                                         *)
(* The API server keeps, for each record, the sequence of its versions; the *)
(* resourceVersion of a version is its index.  The process reads through a  *)
(* cache that follows the watch and may lag (seen[r] is how far it is), and *)
(* a status write carries the resourceVersion it was computed from, so it   *)
(* is refused unless that version is still the last one.                    *)
(*                                                                         *)
(* One pass of Reconcile over record r is split where another actor can     *)
(* step in: reading (Reconcile), the Running write (StartAttempt), each    *)
(* step (StepSucceeds, StepFails), the page (Escalate), the final or        *)
(* Pending write (Finish, RecordFailedAttempt), what follows the final      *)
(* write (RecordAndPrune, PruneDelete).  The workqueue never hands the same *)
(* key to two workers, so workers are indexed by the record they hold.     *)
(*                                                                         *)
(* Abstracted: all records belong to one strategy; timestamps other than    *)
(* the approval deadline, messages, events, metrics and the per-step report *)
(* in status.steps are left out (the report never reaches the API server    *)
(* while a step runs: StepRunner keeps it in memory until the attempt ends).*)
(***************************************************************************)
EXTENDS Naturals, Sequences, FiniteSets

CONSTANTS
    Records,          \* the Remediations that may be created
    Profiles,         \* the specs they may be created with (see Profile)
    NumSteps,         \* length of a strategy's plan (spec.steps)
    Concurrency,      \* MaxConcurrentReconciles
    HistoryLimit,     \* terminal records kept per strategy
    ApprovalTimeout,  \* clock units between creation and the deadline
    LoseResponses,    \* TRUE: a write may land and still report an error
    MaxClock,         \* bounds: clock units,
    MaxDecisions,     \*   foreign writes up to which a decision may be one, per mode,
    MaxTouches,       \*   foreign writes up to which anything else may be one,
    MaxFaults,        \*   failed API requests,
    MaxCrashes,       \*   process deaths,
    MaxLag            \*   versions a new process's first list may be behind

Modes     == {"auto", "approval"}
Decisions == {"none", "approve", "deny"}
Terminal  == {"Succeeded", "Failed", "Simulated"}
States    == {"New", "Pending", "AwaitingApproval", "Running", "Deleted"}
                 \cup Terminal
StepReasons == {"StepFailed", "UnknownAction"}
PageReasons == StepReasons \cup {"GaveUp", "ApprovalTimeout"}
Reasons     == PageReasons \cup {"", "Interrupted", "Denied"}
Phases      == {"none", "Succeeded", "Failed"}

\* What the sink copies onto a record when it creates it; never changed later.
Profile == [mode : Modes, dryRun : BOOLEAN, retries : Nat, gaveUp : BOOLEAN,
            escalates : BOOLEAN, targeted : BOOLEAN]

\* One stored version of a record: its status, and spec.approval.decision.
\* "left" is the time shown in the message of a record awaiting approval;
\* "esc" is status.escalation.phase.
Version == [state : States, attempt : Nat, reason : Reasons,
            decision : Decisions, left : Nat, esc : Phases]

\* What a pass has decided to write as the outcome.
Verdict == [state : {"Succeeded", "Simulated", "Failed"}, reason : Reasons,
            esc : Phases]

PCs == {"idle", "start", "execute", "retry", "await", "escalate", "finish",
        "record", "delete"}

\* A pass over one record: what it does next, the resourceVersion it works
\* from, the plan step it executes next, the outcome it is about to write, the
\* waiting time it is about to show, and the records its prune still has to
\* delete.
Worker == [at : PCs, rv : Nat, step : Nat, verdict : Verdict, left : Nat,
           doomed : SUBSET Records]

ASSUME LifecycleAssumption ==
    /\ IsFiniteSet(Records)
    /\ Profiles \subseteq Profile
    /\ NumSteps \in Nat \ {0}
    /\ Concurrency \in Nat \ {0}
    /\ HistoryLimit \in Nat \ {0}
    /\ ApprovalTimeout \in Nat \ {0}
    /\ LoseResponses \in BOOLEAN
    /\ MaxClock \in Nat
    /\ MaxDecisions \in [Modes -> Nat] /\ MaxTouches \in Nat
    /\ MaxFaults \in Nat /\ MaxCrashes \in Nat /\ MaxLag \in Nat

VARIABLES
    \* the API server
    spec,      \* spec[r]: the Profile r is (or will be) created with
    deadline,  \* deadline[r]: spec.approvalDeadline, 0 when it is absent
    born,      \* born[r]: creation order (creationTimestamp, then name)
    log,       \* log[r]: the versions of r, oldest first; empty: not created
    \* the process: its cache, its workqueue and its workers
    up,        \* the process holds the lease and its manager is running
    seen,      \* seen[r]: the version of r in the cache (0: none)
    queue,     \* records waiting for a worker
    timers,    \* timers[r]: the RequeueAfter timers pending for r
    worker,    \* worker[r]: the worker that holds r, Idle when none does
    \* the guards' in-memory history and its loader
    loader,    \* "list", "apply" or "warm"
    listed,    \* the completed executions the loader listed
    counted,   \* counted[r]: how often r's completion is in the history
    \* the world
    clock,
    ran,       \* ran[r]: the steps executed for real, in order
    pages,     \* pages[r][w]: how often r's escalation ran for reason w
    patches, faults, crashes

apiVars    == <<spec, deadline, born, log>>
workVars   == <<queue, timers, worker>>
memoryVars == <<loader, listed, counted>>
worldVars  == <<ran, pages>>
boundVars  == <<patches, faults, crashes>>
vars       == <<apiVars, up, seen, workVars, memoryVars, clock, worldVars,
                boundVars>>

Exists(r)  == log[r] # <<>>
Current(r) == log[r][Len(log[r])]
Local(r)   == log[r][worker[r].rv]
Cached(r)  == log[r][seen[r]]

\* Mutant: the write is forced, whatever was stored in between.
FreshForced(r) == TRUE

\* The write's resourceVersion is still the stored one.
Fresh(r) == worker[r].rv = Len(log[r])

Busy == {r \in Records : worker[r].at # "idle"}

\* A Failed verdict whose escalation, if any, has not run.  (Only final
\* versions carry an escalation, so finish never finds one to keep.)
Failing(why) == [state |-> "Failed", reason |-> why, esc |-> "none"]

Idle == [at |-> "idle", rv |-> 0, step |-> 1, verdict |-> Failing(""),
         left |-> 0, doomed |-> {}]

-----------------------------------------------------------------------------
(* Writes *)

NewRecord == [state |-> "New", attempt |-> 0, reason |-> "",
              decision |-> "none", left |-> 0, esc |-> "none"]

Store(r, v) == log' = [log EXCEPT ![r] = Append(@, v)]

\* Mutant: the attempt counter is not advanced.
RunningVersionUncounted(r) == [Local(r) EXCEPT !.state = "Running"]

\* runAttempt's first write.  It leaves the reason of an earlier attempt.
RunningVersion(r) ==
    [Local(r) EXCEPT !.state = "Running", !.attempt = @ + 1]

\* runAttempt's write when the attempt failed and retries are left.
RetryVersion(r) ==
    [Local(r) EXCEPT !.state = "Pending", !.reason = worker[r].verdict.reason]

\* markAwaitingApproval's write.
AwaitingVersion(r) ==
    [Local(r) EXCEPT !.state = "AwaitingApproval", !.reason = "",
                     !.left = worker[r].left]

\* finish's write.
FinalVersion(r) ==
    [Local(r) EXCEPT !.state = worker[r].verdict.state, !.reason = worker[r].verdict.reason,
                     !.esc = worker[r].verdict.esc]

\* The object the worker of r is about to send to the status subresource.
Outgoing(r) ==
    CASE worker[r].at = "start"  -> RunningVersion(r)
      [] worker[r].at = "retry"  -> RetryVersion(r)
      [] worker[r].at = "await"  -> AwaitingVersion(r)
      [] worker[r].at = "finish" -> FinalVersion(r)

Writing == {"start", "retry", "await", "finish"}

-----------------------------------------------------------------------------
(* Reconcile: take a record from the queue, read it, decide what to do *)

\* The workqueue hands r to a free worker, which reads it from the cache.
Dequeue(r) ==
    /\ up
    /\ r \in queue
    /\ worker[r] = Idle
    /\ Cardinality(Busy) < Concurrency
    /\ queue' = queue \ {r}
    /\ UNCHANGED <<apiVars, up, seen, memoryVars, clock, worldVars, boundVars>>

\* The pass goes on from what it read.
Proceed(r, at, verdict) ==
    /\ worker' = [worker EXCEPT ![r] = [Idle EXCEPT !.at = at, !.rv = seen[r],
                                                    !.verdict = verdict]]
    /\ UNCHANGED timers

InCache(r) == seen[r] > 0 /\ Cached(r).state # "Deleted"

\* Neither terminal nor Running: the cases left after the switch's first two.
Open(r) ==
    /\ InCache(r)
    /\ Cached(r).state \in {"New", "Pending", "AwaitingApproval"}

\* awaitsApproval, reached only by records without the gave-up label.
AwaitsApproval(r) == Open(r) /\ ~spec[r].gaveUp /\ spec[r].mode = "approval"

\* Mutant: a record without a deadline is waited on.
ExpiredWhenSet(r) == deadline[r] # 0 /\ clock >= deadline[r]

\* A record without a deadline counts as expired.
Expired(r) == clock >= deadline[r]

\* The record is gone or already terminal.
ReconcileNothing(r) ==
    /\ Dequeue(r)
    /\ ~InCache(r) \/ Cached(r).state \in Terminal
    /\ UNCHANGED <<timers, worker>>

\* Mutant: a Running record is resumed instead of failed.
ReconcileResumed(r) ==
    /\ Dequeue(r)
    /\ InCache(r) /\ Cached(r).state = "Running"
    /\ Proceed(r, "execute", Failing(""))

ReconcileInterrupted(r) ==
    /\ Dequeue(r)
    /\ InCache(r) /\ Cached(r).state = "Running"
    /\ Proceed(r, "finish", Failing("Interrupted"))

ReconcileGaveUp(r) ==
    /\ Dequeue(r)
    /\ Open(r) /\ spec[r].gaveUp
    /\ Proceed(r, "escalate", Failing("GaveUp"))

ReconcileRun(r) ==
    /\ Dequeue(r)
    /\ Open(r) /\ ~spec[r].gaveUp
    /\ spec[r].mode # "approval" \/ Cached(r).decision = "approve"
    /\ Proceed(r, "start", Failing(""))

ReconcileDenied(r) ==
    /\ Dequeue(r)
    /\ AwaitsApproval(r) /\ Cached(r).decision = "deny"
    /\ Proceed(r, "finish", Failing("Denied"))

\* Mutant: silence ends the record and tells nobody.
ReconcileTimedOutQuietly(r) ==
    /\ Dequeue(r)
    /\ AwaitsApproval(r) /\ Cached(r).decision = "none" /\ Expired(r)
    /\ Proceed(r, "finish", Failing("ApprovalTimeout"))

ReconcileTimedOut(r) ==
    /\ Dequeue(r)
    /\ AwaitsApproval(r) /\ Cached(r).decision = "none" /\ Expired(r)
    /\ Proceed(r, "escalate", Failing("ApprovalTimeout"))

\* Mutant: a pass with nothing to write asks for no requeue.
ReconcileWaitingForEvent(r) ==
    /\ Dequeue(r)
    /\ AwaitsApproval(r) /\ Cached(r).decision = "none" /\ ~Expired(r)
    /\ IF /\ Cached(r).state = "AwaitingApproval"
          /\ Cached(r).left = deadline[r] - clock
       THEN UNCHANGED worker
       ELSE worker' = [worker EXCEPT ![r] =
                         [Idle EXCEPT !.at = "await", !.rv = seen[r],
                                      !.left = deadline[r] - clock]]
    /\ UNCHANGED timers

\* Still waiting: the message shows the time left, and the write is skipped
\* when neither the state nor the message would change.
ReconcileWaiting(r) ==
    /\ Dequeue(r)
    /\ AwaitsApproval(r) /\ Cached(r).decision = "none" /\ ~Expired(r)
    /\ IF /\ Cached(r).state = "AwaitingApproval"
          /\ Cached(r).left = deadline[r] - clock
       THEN /\ timers' = [timers EXCEPT ![r] = @ \cup {"poll"}]
            /\ UNCHANGED worker
       ELSE /\ worker' = [worker EXCEPT ![r] =
                            [Idle EXCEPT !.at = "await", !.rv = seen[r],
                                         !.left = deadline[r] - clock]]
            /\ UNCHANGED timers

Reconcile(r) ==
    \/ ReconcileNothing(r)
    \/ ReconcileInterrupted(r)
    \/ ReconcileGaveUp(r)
    \/ ReconcileRun(r)
    \/ ReconcileDenied(r)
    \/ ReconcileTimedOut(r)
    \/ ReconcileWaiting(r)

-----------------------------------------------------------------------------
(* Status writes.  Each returns the stored object, so the pass goes on from *)
(* the version it created.                                                  *)

Write(r, at) ==
    /\ worker[r].at = at
    /\ Fresh(r)
    /\ Store(r, Outgoing(r))
    /\ UNCHANGED <<spec, deadline, born, up, seen, queue, memoryVars, clock,
                   worldVars, boundVars>>

\* Mutant: the attempt starts without persisting Running.
StartAttemptUnrecorded(r) ==
    /\ worker[r].at = "start"
    /\ worker' = [worker EXCEPT ![r].at = "execute"]
    /\ UNCHANGED <<apiVars, up, seen, queue, timers, memoryVars, clock,
                   worldVars, boundVars>>

StartAttempt(r) ==
    /\ Write(r, "start")
    /\ worker' = [worker EXCEPT ![r].at = "execute", ![r].rv = @ + 1]
    /\ UNCHANGED timers

RecordFailedAttempt(r) ==
    /\ Write(r, "retry")
    /\ worker' = [worker EXCEPT ![r] = Idle]
    /\ timers' = [timers EXCEPT ![r] = @ \cup {"backoff"}]

MarkAwaitingApproval(r) ==
    /\ Write(r, "await")
    /\ worker' = [worker EXCEPT ![r] = Idle]
    /\ timers' = [timers EXCEPT ![r] = @ \cup {"poll"}]

Finish(r) ==
    /\ Write(r, "finish")
    /\ worker' = [worker EXCEPT ![r].at = "record", ![r].rv = @ + 1]
    /\ UNCHANGED timers

\* Mutant: a failed attempt that could not be recorded is concluded again.
ReturnErrorRepeat(r) ==
    /\ worker' = [worker EXCEPT ![r] =
                     IF worker[r].verdict.reason \in StepReasons
                     THEN [@ EXCEPT !.at = "escalate", !.rv = Len(log[r])]
                     ELSE Idle]
    /\ queue' = queue \cup {r}
    /\ UNCHANGED <<spec, deadline, born, up, seen, timers, memoryVars, clock,
                   worldVars, patches, crashes>>

\* The pass returns an error: nothing else of it happens, and the key is
\* requeued.
ReturnError(r) ==
    /\ worker' = [worker EXCEPT ![r] = Idle]
    /\ queue' = queue \cup {r}
    /\ UNCHANGED <<spec, deadline, born, up, seen, timers, memoryVars, clock,
                   worldVars, patches, crashes>>

\* Another write came first, or pruning deleted the record.
UpdateConflict(r) ==
    /\ worker[r].at \in Writing
    /\ ~Fresh(r)
    /\ ReturnError(r)
    /\ UNCHANGED <<log, faults>>

\* The request fails without reaching the store.
UpdateFails(r) ==
    /\ worker[r].at \in Writing
    /\ faults < MaxFaults
    /\ faults' = faults + 1
    /\ ReturnError(r)
    /\ UNCHANGED log

\* The write lands and the response does not arrive.
UpdateResponseLost(r) ==
    /\ worker[r].at \in Writing
    /\ LoseResponses
    /\ Fresh(r)
    /\ faults < MaxFaults
    /\ faults' = faults + 1
    /\ Store(r, Outgoing(r))
    /\ ReturnError(r)

-----------------------------------------------------------------------------
(* The attempt *)

Effect(r) == [attempt |-> Local(r).attempt, step |-> worker[r].step]

PassFrame == <<apiVars, up, seen, queue, timers, memoryVars, clock, boundVars>>

\* TerminalState of an attempt without an error.
Success(r) ==
    [state  |-> IF spec[r].dryRun THEN "Simulated" ELSE "Succeeded",
     reason |-> "",
     esc    |-> "none"]

\* Mutant: the plan ends one step early.
StepSucceedsEarly(r) ==
    /\ worker[r].at = "execute"
    /\ ran' = IF spec[r].dryRun THEN ran
                                ELSE [ran EXCEPT ![r] = Append(@, Effect(r))]
    /\ worker' =
          IF worker[r].step + 1 < NumSteps
          THEN [worker EXCEPT ![r].step = @ + 1]
          ELSE [worker EXCEPT ![r].at = "finish", ![r].verdict = Success(r)]
    /\ UNCHANGED <<PassFrame, pages>>

\* Execute (and the action's Verify) succeed, or Plan does in a dry run.
StepSucceeds(r) ==
    /\ worker[r].at = "execute"
    /\ ran' = IF spec[r].dryRun THEN ran
                                ELSE [ran EXCEPT ![r] = Append(@, Effect(r))]
    /\ worker' =
          IF worker[r].step < NumSteps
          THEN [worker EXCEPT ![r].step = @ + 1]
          ELSE [worker EXCEPT ![r].at = "finish", ![r].verdict = Success(r)]
    /\ UNCHANGED <<PassFrame, pages>>

\* Mutant: the retry budget is off by one.
RetriesLeftPlusOne(r) == Local(r).attempt <= spec[r].retries + 1

RetriesLeft(r) == Local(r).attempt <= spec[r].retries

\* The step fails; the rest of the plan is skipped.  It may have changed the
\* cluster (Execute or Verify failed) or not (the action is unknown, Resolve
\* or, in a dry run, Plan failed).
StepFails(r, why, changed) ==
    /\ worker[r].at = "execute"
    /\ changed => why = "StepFailed" /\ ~spec[r].dryRun
    /\ ran' = IF changed THEN [ran EXCEPT ![r] = Append(@, Effect(r))] ELSE ran
    /\ worker' = [worker EXCEPT
                    ![r].at = IF RetriesLeft(r) THEN "retry" ELSE "escalate",
                    ![r].verdict = Failing(why)]
    /\ UNCHANGED <<PassFrame, pages>>

\* The escalation ran; counted up to "more than once".
Paged(r, why) ==
    pages' = [pages EXCEPT ![r][why] = IF @ < 2 THEN @ + 1 ELSE @]

\* Escalation steps are executed for real even in a dry run, and their failure
\* is recorded, never returned.
Escalate(r) ==
    /\ worker[r].at = "escalate"
    /\ IF spec[r].escalates
       THEN /\ Paged(r, worker[r].verdict.reason)
            /\ \E phase \in {"Succeeded", "Failed"} :
                 worker' = [worker EXCEPT ![r].at = "finish",
                                          ![r].verdict.esc = phase]
       ELSE /\ worker' = [worker EXCEPT ![r].at = "finish"]
            /\ UNCHANGED pages
    /\ UNCHANGED <<PassFrame, ran>>

-----------------------------------------------------------------------------
(* After the final write *)

\* Mutant: every other record is a candidate.
PrunableAny(r) == {q \in Records \ {r} : InCache(q)}

\* prune's candidates, from the cache: terminal, and not the record that just
\* completed.
Prunable(r) ==
    {q \in Records \ {r} : InCache(q) /\ Cached(q).state \in Terminal}

Newer(q, S) == {p \in S : born[p] > born[q]}

\* All but the newest HistoryLimit - 1 candidates: r itself is kept too.
Excess(r) ==
    {q \in Prunable(r) :
        Cardinality(Newer(q, Prunable(r))) >= HistoryLimit - 1}

\* Go on deleting S, or end the pass when nothing is left.
Deleting(r, S) ==
    worker' = [worker EXCEPT ![r] =
                 IF S = {} THEN Idle
                           ELSE [@ EXCEPT !.at = "delete", !.doomed = S]]

RecordAndPrune(r) ==
    /\ worker[r].at = "record"
    /\ counted' = IF spec[r].targeted /\ worker[r].verdict.reason # "GaveUp"
                  THEN [counted EXCEPT ![r] = @ + 1]
                  ELSE counted
    /\ Deleting(r, Excess(r))
    /\ UNCHANGED <<apiVars, up, seen, queue, timers, loader, listed, clock,
                   worldVars, boundVars>>

\* The newest doomed record goes first; one that is already gone is skipped.
PruneDelete(r) ==
    /\ worker[r].at = "delete"
    /\ \E q \in worker[r].doomed :
         /\ Newer(q, worker[r].doomed) = {}
         /\ IF Current(q).state = "Deleted"
            THEN UNCHANGED log
            ELSE Store(q, [Current(q) EXCEPT !.state = "Deleted"])
         /\ Deleting(r, worker[r].doomed \ {q})
    /\ UNCHANGED <<spec, deadline, born, up, seen, queue, timers, memoryVars,
                   clock, worldVars, boundVars>>

\* A failed delete ends the prune; it is logged and not returned.
PruneFails(r) ==
    /\ worker[r].at = "delete"
    /\ faults < MaxFaults
    /\ faults' = faults + 1
    /\ worker' = [worker EXCEPT ![r] = Idle]
    /\ UNCHANGED <<apiVars, up, seen, queue, timers, memoryVars, clock,
                   worldVars, patches, crashes>>

-----------------------------------------------------------------------------
(* The cache, the workqueue and the process *)

\* The watch delivers the next version; the event enqueues the record.
Observe(r) ==
    /\ up
    /\ seen[r] < Len(log[r])
    /\ seen' = [seen EXCEPT ![r] = @ + 1]
    /\ queue' = queue \cup {r}
    /\ UNCHANGED <<apiVars, up, timers, worker, memoryVars, clock, worldVars, boundVars>>

\* A RequeueAfter delay is over.
TimerFires(r) ==
    /\ \E t \in timers[r] : timers' = [timers EXCEPT ![r] = @ \ {t}]
    /\ queue' = queue \cup {r}
    /\ UNCHANGED <<apiVars, up, seen, worker, memoryVars, clock, worldVars, boundVars>>

\* Mutant: the loader lists through the cache.
LoadListCached ==
    /\ up /\ loader = "list"
    /\ listed' = {r \in Records : /\ seen[r] > 0
                                  /\ Cached(r).state \in Terminal
                                  /\ spec[r].targeted /\ ~spec[r].gaveUp}
    /\ loader' = "apply"
    /\ UNCHANGED <<apiVars, up, seen, workVars, counted, clock, worldVars,
                   boundVars>>

\* HistoryLoader.Load lists from the API server, then replays.
LoadList ==
    /\ up /\ loader = "list"
    /\ listed' = {r \in Records : /\ Exists(r)
                                  /\ Current(r).state \in Terminal
                                  /\ spec[r].targeted /\ ~spec[r].gaveUp}
    /\ loader' = "apply"
    /\ UNCHANGED <<apiVars, up, seen, workVars, counted, clock, worldVars,
                   boundVars>>

LoadApply ==
    /\ up /\ loader = "apply"
    /\ counted' = [r \in Records |-> IF r \in listed THEN counted[r] + 1
                                                     ELSE counted[r]]
    /\ loader' = "warm"
    /\ listed' = {}
    /\ UNCHANGED <<apiVars, up, seen, workVars, clock, worldVars, boundVars>>

\* The process dies or loses the lease: everything in memory is gone.
Crash ==
    /\ up
    /\ crashes < MaxCrashes
    /\ crashes' = crashes + 1
    /\ up' = FALSE
    /\ queue' = {}
    /\ timers' = [r \in Records |-> {}]
    /\ worker' = [r \in Records |-> Idle]
    /\ counted' = [r \in Records |-> 0]
    /\ listed' = {}
    /\ loader' = "list"
    /\ UNCHANGED <<apiVars, seen, clock, worldVars, patches, faults>>

\* A process takes over.  Its cache starts from a list the API server may
\* serve from its own watch cache, so it can be behind any version.
Restart ==
    /\ ~up
    /\ up' = TRUE
    /\ \E lag \in [Records -> 0 .. MaxLag] :
         LET position(r) == IF lag[r] <= Len(log[r]) THEN Len(log[r]) - lag[r]
                                                     ELSE 0
         IN  /\ seen' = [r \in Records |-> position(r)]
             /\ queue' = {r \in Records :
                            /\ position(r) > 0
                            /\ log[r][position(r)].state # "Deleted"}
    /\ UNCHANGED <<apiVars, timers, worker, memoryVars, clock, worldVars, boundVars>>

-----------------------------------------------------------------------------
(* The world: alerts, people, time *)

WorldFrame == <<up, seen, workVars, memoryVars, worldVars, faults, crashes>>

Deadlines(r) ==
    IF spec[r].mode = "approval" /\ ~spec[r].gaveUp
    THEN {0, clock + ApprovalTimeout}
    ELSE {0}

\* The sink creates a record; one that needs approval gets an absolute
\* deadline, which a record made by hand may lack.
Create(r) ==
    /\ ~Exists(r)
    /\ clock + ApprovalTimeout <= MaxClock
    /\ \E due \in Deadlines(r) : deadline' = [deadline EXCEPT ![r] = due]
    /\ born' = [born EXCEPT ![r] = Cardinality({q \in Records : Exists(q)}) + 1]
    /\ Store(r, NewRecord)
    /\ UNCHANGED <<WorldFrame, spec, clock, patches>>

\* Somebody patches spec.approval; a patch carries no resourceVersion.
Decide(r, d) ==
    /\ Exists(r) /\ Current(r).state # "Deleted"
    /\ d # Current(r).decision
    /\ patches < MaxDecisions[spec[r].mode]
    /\ patches' = patches + 1
    /\ Store(r, [Current(r) EXCEPT !.decision = d])
    /\ UNCHANGED <<WorldFrame, spec, deadline, born, clock>>

\* Somebody writes a label or an annotation.
Touch(r) ==
    /\ Exists(r) /\ Current(r).state # "Deleted"
    /\ patches < MaxTouches
    /\ patches' = patches + 1
    /\ Store(r, Current(r))
    /\ UNCHANGED <<WorldFrame, spec, deadline, born, clock>>

Tick ==
    /\ clock < MaxClock
    /\ clock' = clock + 1
    /\ UNCHANGED <<WorldFrame, apiVars, patches>>

-----------------------------------------------------------------------------
Init ==
    /\ spec \in [Records -> Profiles]
    /\ deadline = [r \in Records |-> 0]
    /\ born = [r \in Records |-> 0]
    /\ log = [r \in Records |-> <<>>]
    /\ up = TRUE
    /\ seen = [r \in Records |-> 0]
    /\ queue = {}
    /\ timers = [r \in Records |-> {}]
    /\ worker = [r \in Records |-> Idle]
    /\ loader = "list"
    /\ listed = {}
    /\ counted = [r \in Records |-> 0]
    /\ clock = 0
    /\ ran = [r \in Records |-> <<>>]
    /\ pages = [r \in Records |-> [w \in PageReasons |-> 0]]
    /\ patches = 0 /\ faults = 0 /\ crashes = 0

\* Steps of the worker that holds r.
Attempt(r) ==
    \/ StartAttempt(r)
    \/ StepSucceeds(r)
    \/ \E why \in StepReasons, changed \in BOOLEAN : StepFails(r, why, changed)
    \/ RecordFailedAttempt(r)

Conclude(r) ==
    \/ MarkAwaitingApproval(r)
    \/ Escalate(r)
    \/ Finish(r)
    \/ RecordAndPrune(r)
    \/ PruneDelete(r)
    \/ UpdateConflict(r)

Fault(r) == UpdateFails(r) \/ UpdateResponseLost(r) \/ PruneFails(r)

World(r) ==
    \/ Create(r)
    \/ \E d \in Decisions : Decide(r, d)
    \/ Touch(r)

Next ==
    \/ \E r \in Records :
          \/ Reconcile(r) \/ Attempt(r) \/ Conclude(r) \/ Fault(r)
          \/ Observe(r) \/ TimerFires(r) \/ World(r)
    \/ LoadList \/ LoadApply \/ Crash \/ Restart \/ Tick

Spec == Init /\ [][Next]_vars

\* The Go scheduler runs every goroutine, the watch delivers, timers fire, a
\* step and an API call return, time passes, and a dead process is replaced.
\* A worker is shared: a queued key may see it free only now and then, and the
\* workqueue is first in, first out.
Fairness ==
    /\ \A r \in Records : /\ SF_vars(Reconcile(r))
                          /\ WF_vars(Attempt(r))
                          /\ WF_vars(Conclude(r))
                          /\ WF_vars(Observe(r))
                          /\ WF_vars(TimerFires(r))
    /\ WF_vars(LoadList) /\ WF_vars(LoadApply)
    /\ WF_vars(Restart) /\ WF_vars(Tick)

FairSpec == Spec /\ Fairness

-----------------------------------------------------------------------------
(* Properties *)

EffectRecord == [attempt : Nat, step : Nat]

\* Every variable stays within its type; positions in the log of a record
\* never point past its end.
TypeOK ==
    /\ spec \in [Records -> Profile]
    /\ deadline \in [Records -> Nat]
    /\ born \in [Records -> Nat]
    /\ log \in [Records -> Seq(Version)]
    /\ up \in BOOLEAN
    /\ seen \in [Records -> Nat]
    /\ queue \subseteq Records
    /\ timers \in [Records -> SUBSET {"poll", "backoff"}]
    /\ worker \in [Records -> Worker]
    /\ loader \in {"list", "apply", "warm"}
    /\ listed \subseteq Records
    /\ counted \in [Records -> Nat]
    /\ clock \in Nat
    /\ ran \in [Records -> Seq(EffectRecord)]
    /\ pages \in [Records -> [PageReasons -> Nat]]
    /\ patches \in Nat /\ faults \in Nat /\ crashes \in Nat
    /\ \A r \in Records : /\ seen[r] <= Len(log[r])
                          /\ worker[r].rv <= Len(log[r])

Before(e, f) == \/ e.attempt < f.attempt
                \/ e.attempt = f.attempt /\ e.step < f.step

\* No step of an attempt is ever executed twice, and steps are executed in
\* the order of the plan, whatever crashes, stale reads, conflicts and
\* retries come in between: runAttempt persists Running, under the version it
\* read, before it executes anything.
StepsNeverRepeat ==
    \A r \in Records : \A i, j \in 1 .. Len(ran[r]) :
        i < j => Before(ran[r][i], ran[r][j])

\* A step changes the cluster only while the stored record says that this very
\* attempt is running, so a record that is Pending, waiting or terminal never
\* hides an execution in progress.
EffectsOnlyWhileRunning ==
    [][\A r \in Records : ran'[r] # ran[r] =>
          /\ Current(r).state = "Running"
          /\ ran'[r][Len(ran'[r])].attempt = Current(r).attempt]_vars

\* Once a terminal state is stored, no pass changes the outcome: a second pass
\* that read Running from a stale cache must lose its write (the conflict in
\* finish that staleread_test.go is about).  Only pruning ends the record.
TerminalIsFinal ==
    [][\A r \in Records :
          Exists(r) /\ Current(r).state \in Terminal =>
             LET v == Current(r)  w == Current(r)'
             IN  /\ w.attempt = v.attempt /\ w.reason = v.reason
                 /\ w.esc = v.esc
                 /\ w.state \in {v.state, "Deleted"}]_vars

\* The recorded outcome agrees with what happened to the cluster: Succeeded
\* means the last attempt executed every step of the plan; a simulated record,
\* a give-up record, and one that was denied or timed out before its first
\* attempt executed nothing at all.
OutcomeMatchesEffects ==
    \A r \in Records : Exists(r) =>
        /\ Current(r).state = "Succeeded" =>
              \A s \in 1 .. NumSteps : \E i \in 1 .. Len(ran[r]) :
                  ran[r][i] = [attempt |-> Current(r).attempt, step |-> s]
        /\ \/ spec[r].dryRun \/ spec[r].gaveUp \/ Current(r).attempt = 0
           \/ Current(r).state = "Simulated"
           => ran[r] = <<>>

\* Every attempt of an approval-mode record was started from a version that
\* carried the approval: a denial or a withdrawal stored before the Running
\* write always wins, even when the pass had read the older approval.
AttemptsAreApproved ==
    \A r \in Records : spec[r].mode = "approval" =>
        \A n \in 2 .. Len(log[r]) :
            log[r][n].attempt # log[r][n - 1].attempt =>
                log[r][n - 1].decision = "approve"

\* Attempts are spent one at a time and never beyond the retry budget copied
\* onto the record, also when writes conflict and passes are repeated.
AttemptsWithinBudget ==
    \A r \in Records : \A n \in 1 .. Len(log[r]) :
        /\ log[r][n].attempt <= spec[r].retries + 1
        /\ n > 1 => log[r][n].attempt \in {log[r][n - 1].attempt,
                                           log[r][n - 1].attempt + 1}

\* A record that failed for good, gave up or timed out is never stored as such
\* before its escalation has run: whoever reads Failed need not wonder whether
\* a page is still coming.  (Not claimed for Interrupted and Denied.)
FailureIsPagedFirst ==
    \A r \in Records :
        /\ Exists(r) /\ spec[r].escalates /\ Current(r).state \in Terminal
        /\ Current(r).reason \in PageReasons
        => pages[r][Current(r).reason] > 0 /\ Current(r).esc # "none"

\* A failed remediation pages at most once: the escalation follows the last
\* attempt, and an attempt whose outcome could not be stored is never redone.
FailurePagesOnce ==
    \A r \in Records : pages[r]["StepFailed"] + pages[r]["UnknownAction"] <= 1

\* Once the loader is done, the guards know of every completed execution,
\* unless the pass that completed it is still on its way to tell them: the
\* replay and the reconcilers run concurrently and none falls between them.
CompletionsRemembered ==
    up /\ loader = "warm" =>
        \A r \in Records :
            /\ Exists(r) /\ Current(r).state \in Terminal
            /\ spec[r].targeted /\ ~spec[r].gaveUp
            /\ worker[r].at # "record"
            => counted[r] > 0

\* Pruning deletes only records that have ended, however stale the list it
\* works from.
PruneOnlyTerminal ==
    [][\A r \in Records :
          Exists(r) /\ Current(r)'.state = "Deleted" =>
             Current(r).state \in Terminal \cup {"Deleted"}]_vars

\* Every record ends: no crash, conflict, lost timer or silent approver leaves
\* one pending, waiting or running for ever.
EveryRecordEnds ==
    \A r \in Records :
        Exists(r) ~> Exists(r) /\ Current(r).state \in Terminal \cup {"Deleted"}

-----------------------------------------------------------------------------
(* Refinement *)

\* What a reader of the stored records sees.
Phase(r)    == IF Exists(r) THEN Current(r).state ELSE "Absent"
Attempts(r) == IF Exists(r) THEN Current(r).attempt ELSE 0

Record == INSTANCE RemediationRecord WITH
    retries <- [r \in Records |-> spec[r].retries],
    phase   <- [r \in Records |-> Phase(r)],
    attempt <- [r \in Records |-> Attempts(r)],
    effects <- ran

\* The reconciler implements the record's state machine: with processes that
\* die, caches that lag and writes that conflict, a reader of the API server
\* sees only its steps, and the cluster changes only as it allows.
ImplementsRecord == Record!RecordSpec
=============================================================================

---------------------- MODULE RemediationOutcome_proofs ----------------------
(***************************************************************************)
(* What the stored outcome of a Remediation says about the world: that its  *)
(* steps were executed, that somebody was told, that the guards know of it. *)
(* The invariant of RemediationSafety_proofs bounds what a pass may write;  *)
(* the parts added here follow the pass that writes: what it has executed,  *)
(* whom it has paged, what it has yet to count.                             *)
(***************************************************************************)
EXTENDS RemediationSafety_proofs

-----------------------------------------------------------------------------
(* What one step does to the worker of one record *)

\* The worker goes on as it was, or lets go of the record.
Quiet(r) ==
    /\ worker'[r] = worker[r] \/ worker'[r] = Idle
    /\ ran'[r] = ran[r] /\ pages'[r] = pages[r]

\* A pass starts; it carries the verdict it may end with.
Takes(r) ==
    /\ ran'[r] = ran[r] /\ pages'[r] = pages[r] /\ log' = log
    /\ worker'[r].step = 1 /\ worker'[r].verdict.state = "Failed"
    /\ \/ /\ worker'[r].at = "start" /\ ~spec[r].gaveUp
          /\ worker'[r].verdict.reason = ""
       \/ worker'[r].at = "await" /\ worker'[r].verdict.reason = ""
       \/ /\ worker'[r].at = "escalate" /\ spec[r].gaveUp
          /\ worker'[r].verdict.reason = "GaveUp"
       \/ worker'[r].at = "escalate" /\ worker'[r].verdict.reason = "ApprovalTimeout"
       \/ worker'[r].at = "finish" /\ worker'[r].verdict.reason \in {"Interrupted", "Denied"}

Fails(r) == \E why \in StepReasons, changed \in BOOLEAN : StepFails(r, why, changed)

\* The record is counted, or one more old record deleted.
Tidies(r) ==
    /\ worker[r].at \in {"record", "delete"} /\ worker'[r].at = "delete"
    /\ worker'[r].verdict = worker[r].verdict
    /\ ran'[r] = ran[r] /\ pages'[r] = pages[r]

Turn(r) ==
    \/ Quiet(r) \/ Takes(r) \/ StartAttempt(r) \/ StepSucceeds(r) \/ Fails(r)
    \/ Escalate(r) \/ Finish(r) \/ Tidies(r)

LEMMA TurnReconcile ==
    ASSUME Typed, NEW r \in Records, Reconcile(r)
    PROVE  Quiet(r) \/ Takes(r)
  <1>1. Dequeue(r)
    BY DEF Reconcile, ReconcileNothing, ReconcileInterrupted, ReconcileGaveUp,
           ReconcileRun, ReconcileDenied, ReconcileTimedOut, ReconcileWaiting
  <1>2. ran' = ran /\ pages' = pages /\ log' = log /\ worker \in [Records -> Worker]
    BY <1>1 DEF Dequeue, apiVars, worldVars, Typed, TypeOK
  <1>3. ASSUME NEW at, NEW why, Proceed(r, at, Failing(why))
        PROVE  /\ worker'[r].at = at /\ worker'[r].step = 1
               /\ worker'[r].verdict.state = "Failed"
               /\ worker'[r].verdict.reason = why
    <2>1. worker'[r].at = at /\ worker'[r].step = 1 /\ worker'[r].verdict = Failing(why)
      BY <1>2, <1>3 DEF Proceed, Idle
    <2> QED BY <2>1 DEF Failing
  <1>4. CASE ReconcileNothing(r)
    BY <1>2, <1>4 DEF ReconcileNothing, Quiet
  <1>5. CASE ReconcileInterrupted(r)
    BY <1>2, <1>3, <1>5 DEF ReconcileInterrupted, Takes
  <1>6. CASE ReconcileGaveUp(r)
    BY <1>2, <1>3, <1>6 DEF ReconcileGaveUp, Takes
  <1>7. CASE ReconcileRun(r)
    BY <1>2, <1>3, <1>7 DEF ReconcileRun, Takes
  <1>8. CASE ReconcileDenied(r)
    BY <1>2, <1>3, <1>8 DEF ReconcileDenied, Takes
  <1>9. CASE ReconcileTimedOut(r)
    BY <1>2, <1>3, <1>9 DEF ReconcileTimedOut, Takes
  <1>10. CASE ReconcileWaiting(r)
    <2>1. \/ worker' = worker
          \/ /\ worker'[r].at = "await" /\ worker'[r].step = 1
             /\ worker'[r].verdict = Failing("")
      BY <1>2, <1>10 DEF ReconcileWaiting, Idle
    <2>2. Failing("").state = "Failed" /\ Failing("").reason = ""
      BY DEF Failing
    <2>3. CASE worker' = worker
      BY <1>2, <2>3 DEF Quiet
    <2>4. CASE worker' # worker
      BY <1>2, <2>1, <2>2, <2>4 DEF Takes
    <2> QED BY <2>3, <2>4
  <1> QED BY <1>4, <1>5, <1>6, <1>7, <1>8, <1>9, <1>10 DEF Reconcile

LEMMA TurnWorker ==
    ASSUME Typed, NEW r \in Records, Attempt(r) \/ Conclude(r) \/ Fault(r)
    PROVE  Turn(r)
  <1>1. worker \in [Records -> Worker] /\ worker[r] \in Worker
    BY DEF Typed, TypeOK
  <1>2. CASE \/ RecordFailedAttempt(r) \/ MarkAwaitingApproval(r)
             \/ UpdateConflict(r) \/ Fault(r)
    <2>1. /\ worker' = [worker EXCEPT ![r] = Idle] /\ ran' = ran /\ pages' = pages
      BY <1>2 DEF RecordFailedAttempt, MarkAwaitingApproval, UpdateConflict, Fault,
         UpdateFails, UpdateResponseLost, PruneFails, ReturnError, Write, worldVars
    <2> QED BY <1>1, <2>1 DEF Turn, Quiet
  <1>3. ASSUME NEW S, Deleting(r, S)
        PROVE  \/ worker'[r] = Idle
               \/ worker'[r].at = "delete" /\ worker'[r].verdict = worker[r].verdict
    BY <1>1, <1>3 DEF Deleting, Worker
  <1>4. CASE RecordAndPrune(r)
    <2>1. /\ ran' = ran /\ pages' = pages /\ worker[r].at = "record"
          /\ Deleting(r, Excess(r))
      BY <1>4 DEF RecordAndPrune, worldVars
    <2> QED BY <1>3, <2>1 DEF Turn, Quiet, Tidies
  <1>5. CASE PruneDelete(r)
    <2>1. /\ ran' = ran /\ pages' = pages /\ worker[r].at = "delete"
          /\ \E q \in worker[r].doomed : Deleting(r, worker[r].doomed \ {q})
      BY <1>5 DEF PruneDelete, worldVars
    <2> QED BY <1>3, <2>1 DEF Turn, Quiet, Tidies
  <1> QED BY <1>2, <1>4, <1>5 DEF Attempt, Conclude, Turn, Fails

\* A page is sent only by the worker that holds the record.
LEMMA PagesElsewhere ==
    ASSUME Typed, NEW a \in Records, NEW r \in Records, a # r,
           Reconcile(a) \/ Attempt(a) \/ Conclude(a) \/ Fault(a)
    PROVE  pages'[r] = pages[r]
  <1>1. pages \in [Records -> [PageReasons -> Nat]]
    BY DEF Typed, TypeOK
  <1>2. CASE Reconcile(a)
    <2>1. Dequeue(a)
      BY <1>2 DEF Reconcile, ReconcileNothing, ReconcileInterrupted, ReconcileGaveUp,
         ReconcileRun, ReconcileDenied, ReconcileTimedOut, ReconcileWaiting
    <2> QED BY <2>1 DEF Dequeue, worldVars
  <1>3. CASE Escalate(a)
    <2>1. pages' = pages \/ Paged(a, worker[a].verdict.reason)
      BY <1>3 DEF Escalate
    <2> QED BY <1>1, <2>1 DEF Paged
  <1>4. CASE Attempt(a) \/ Fault(a) \/ (Conclude(a) /\ ~Escalate(a))
    <2>1. pages' = pages
      BY <1>4 DEF Attempt, Fault, Conclude, StartAttempt, StepSucceeds, StepFails,
         RecordFailedAttempt, MarkAwaitingApproval, Finish, RecordAndPrune, PruneDelete,
         UpdateConflict, UpdateFails, UpdateResponseLost, PruneFails, ReturnError, Write,
         worldVars
    <2> QED BY <2>1
  <1> QED BY <1>2, <1>3, <1>4

\* Every step is one of eight turns of a record's worker.
LEMMA Turns ==
    ASSUME Typed, [Next]_vars, NEW r \in Records
    PROVE  Turn(r)
  <1>1. ASSUME NEW a \in Records,
               Reconcile(a) \/ Attempt(a) \/ Conclude(a) \/ Fault(a)
        PROVE  Turn(r)
    <2>1. CASE a = r
      BY <1>1, <2>1, TurnReconcile, TurnWorker DEF Turn
    <2>2. CASE a # r
      <3>1. worker'[r] = worker[r] /\ ran'[r] = ran[r]
        BY <1>1, <2>2, MoveOthers DEF Stays, Pruned, Frozen
      <3> QED BY <1>1, <2>2, <3>1, PagesElsewhere DEF Turn, Quiet
    <2> QED BY <2>1, <2>2
  <1>2. ASSUME NEW a \in Records, World(a) \/ Observe(a) \/ TimerFires(a)
        PROVE  Turn(r)
    BY <1>2 DEF World, Create, Decide, Touch, Observe, TimerFires, WorldFrame, workVars,
       worldVars, Turn, Quiet
  <1>3. CASE LoadList \/ LoadApply \/ Restart \/ Tick \/ UNCHANGED vars
    BY <1>3 DEF LoadList, LoadApply, Restart, Tick, vars, WorldFrame, workVars, worldVars,
       Turn, Quiet
  <1>4. CASE Crash
    BY <1>4 DEF Crash, worldVars, Turn, Quiet
  <1> QED BY <1>1, <1>2, <1>3, <1>4 DEF Next

-----------------------------------------------------------------------------
(* The log, the effects and the pages across a step *)

\* The version a pass works from stays while it works from it.
LEMMA LocalStays ==
    ASSUME IInv, [Next]_vars, NEW r \in Records, worker[r].at # "idle",
           worker'[r].rv = worker[r].rv
    PROVE  Local(r)' = Local(r)
  <1>1. Typed /\ worker[r].rv \in 1 .. Len(log[r])
    BY LocalType DEF IInv
  <1>2. CASE log'[r] = log[r]
    BY <1>2 DEF Local
  <1>3. ASSUME NEW v \in Version, log'[r] = Append(log[r], v)
        PROVE  Local(r)' = Local(r)
    BY <1>1, <1>3, Grown DEF Local
  <1> QED BY <1>2, <1>3, LogNext

\* The start of an attempt: the worker goes on from the Running version.
LEMMA StartFacts ==
    ASSUME IInv, NEW r \in Records, StartAttempt(r)
    PROVE  /\ worker[r].at = "start" /\ worker'[r].at = "execute"
           /\ worker'[r].step = worker[r].step /\ worker'[r].verdict = worker[r].verdict
           /\ Current(r).state \in OpenStates /\ Exists(r)
           /\ Local(r)'.attempt = Current(r).attempt + 1
           /\ Current(r).attempt \in Nat
           /\ ran' = ran /\ pages' = pages
  <1>1. /\ Typed /\ worker \in [Records -> Worker] /\ worker[r] \in Worker
        /\ log \in [Records -> Seq(Version)]
    BY DEF IInv, Typed, TypeOK
  <1>2. /\ worker[r].at = "start" /\ Fresh(r) /\ Store(r, Outgoing(r))
        /\ ran' = ran /\ pages' = pages
    BY DEF StartAttempt, Write, worldVars
  <1>3. worker'[r] = [worker[r] EXCEPT !.at = "execute", !.rv = worker[r].rv + 1]
    BY <1>1 DEF StartAttempt
  <1>4. /\ worker'[r].at = "execute" /\ worker'[r].step = worker[r].step
        /\ worker'[r].verdict = worker[r].verdict /\ worker'[r].rv = worker[r].rv + 1
    BY <1>1, <1>3 DEF Worker
  <1>5. /\ Exists(r) /\ Current(r) \in Version /\ Outgoing(r) \in Version
        /\ Current(r).state \in OpenStates
        /\ Outgoing(r).attempt = Current(r).attempt + 1
    BY <1>2, WriteFacts DEF Writing
  <1>6. log'[r] = Append(log[r], Outgoing(r))
    BY <1>1, <1>2 DEF Store
  <1>7. Local(r)' = Outgoing(r)
    BY <1>1, <1>2, <1>4, <1>5, <1>6, Grown DEF Local, Fresh
  <1> QED BY <1>2, <1>4, <1>5, <1>7 DEF Version

\* The end of a step of the plan.
LEMMA SuccessFacts ==
    ASSUME IInv, NEW r \in Records, StepSucceeds(r)
    PROVE  /\ worker[r].at = "execute" /\ log' = log /\ pages' = pages
           /\ ran'[r] = IF spec[r].dryRun THEN ran[r] ELSE Append(ran[r], Effect(r))
           /\ worker'[r].rv = worker[r].rv
           /\ \/ /\ worker[r].step < NumSteps /\ worker'[r].at = "execute"
                 /\ worker'[r].step = worker[r].step + 1
                 /\ worker'[r].verdict = worker[r].verdict
              \/ /\ ~(worker[r].step < NumSteps) /\ worker'[r].at = "finish"
                 /\ worker'[r].verdict = Success(r)
  <1>1. /\ worker \in [Records -> Worker] /\ worker[r] \in Worker
        /\ ran \in [Records -> Seq(EffectRecord)]
    BY DEF IInv, Typed, TypeOK
  <1>2. worker[r].at = "execute" /\ log' = log /\ pages' = pages
    BY DEF StepSucceeds, PassFrame, apiVars
  <1>3. ran'[r] = IF spec[r].dryRun THEN ran[r] ELSE Append(ran[r], Effect(r))
    BY <1>1 DEF StepSucceeds
  <1>4. CASE worker[r].step < NumSteps
    <2>1. worker'[r] = [worker[r] EXCEPT !.step = worker[r].step + 1]
      BY <1>1, <1>4 DEF StepSucceeds
    <2> QED BY <1>1, <1>2, <1>3, <1>4, <2>1 DEF Worker
  <1>5. CASE ~(worker[r].step < NumSteps)
    <2>1. worker'[r] = [worker[r] EXCEPT !.at = "finish", !.verdict = Success(r)]
      BY <1>1, <1>5 DEF StepSucceeds
    <2> QED BY <1>1, <1>2, <1>3, <1>5, <2>1 DEF Worker
  <1> QED BY <1>4, <1>5

LEMMA FailureFacts ==
    ASSUME IInv, NEW r \in Records, Fails(r)
    PROVE  /\ worker[r].at = "execute" /\ log' = log /\ pages' = pages
           /\ \/ ran'[r] = ran[r]
              \/ ran'[r] = Append(ran[r], Effect(r)) /\ ~spec[r].dryRun
           /\ worker'[r].rv = worker[r].rv
           /\ worker'[r].at \in {"retry", "escalate"}
           /\ worker'[r].verdict.state = "Failed"
           /\ worker'[r].verdict.reason \in StepReasons
  <1>1. /\ worker \in [Records -> Worker] /\ worker[r] \in Worker
        /\ ran \in [Records -> Seq(EffectRecord)]
    BY DEF IInv, Typed, TypeOK
  <1>2. PICK why \in StepReasons, changed \in BOOLEAN : StepFails(r, why, changed)
    BY DEF Fails
  <1>3. worker[r].at = "execute" /\ log' = log /\ pages' = pages
    BY <1>2 DEF StepFails, PassFrame, apiVars
  <1>4. \/ ran'[r] = ran[r]
        \/ ran'[r] = Append(ran[r], Effect(r)) /\ ~spec[r].dryRun
    BY <1>1, <1>2 DEF StepFails
  <1>5. /\ worker'[r].rv = worker[r].rv /\ worker'[r].at \in {"retry", "escalate"}
        /\ worker'[r].verdict = Failing(why)
    BY <1>1, <1>2 DEF StepFails, Worker
  <1> QED BY <1>2, <1>3, <1>4, <1>5 DEF Failing

\* The page.
LEMMA EscalateFacts ==
    ASSUME IInv, NEW r \in Records, Escalate(r)
    PROVE  /\ worker[r].at = "escalate" /\ worker'[r].at = "finish"
           /\ log' = log /\ ran' = ran /\ worker'[r].rv = worker[r].rv
           /\ worker'[r].verdict.state = "Failed"
           /\ worker'[r].verdict.reason = worker[r].verdict.reason
           /\ \/ /\ spec[r].escalates /\ worker'[r].verdict.esc # "none"
                 /\ Paged(r, worker[r].verdict.reason)
              \/ ~spec[r].escalates /\ pages' = pages
  <1>1. /\ worker \in [Records -> Worker] /\ worker[r] \in Worker
        /\ worker[r].verdict \in Verdict /\ Held(r)
    BY DEF IInv, Typed, TypeOK, Worker
  <1>2. worker[r].at = "escalate" /\ log' = log /\ ran' = ran
    BY DEF Escalate, PassFrame, apiVars
  <1>3. worker[r].verdict.state = "Failed"
    BY <1>1, <1>2 DEF Held
  <1>4. CASE spec[r].escalates
    <2>1. PICK phase \in {"Succeeded", "Failed"} :
            worker' = [worker EXCEPT ![r].at = "finish", ![r].verdict.esc = phase]
      BY <1>4 DEF Escalate
    <2>2. /\ worker'[r].at = "finish" /\ worker'[r].rv = worker[r].rv
          /\ worker'[r].verdict = [worker[r].verdict EXCEPT !.esc = phase]
      BY <1>1, <2>1 DEF Worker
    <2>3. /\ worker'[r].verdict.state = worker[r].verdict.state
          /\ worker'[r].verdict.reason = worker[r].verdict.reason
          /\ worker'[r].verdict.esc # "none"
      BY <1>1, <2>2 DEF Verdict
    <2>4. Paged(r, worker[r].verdict.reason)
      BY <1>4 DEF Escalate
    <2> QED BY <1>2, <1>3, <1>4, <2>2, <2>3, <2>4
  <1>5. CASE ~spec[r].escalates
    <2>1. worker' = [worker EXCEPT ![r].at = "finish"] /\ pages' = pages
      BY <1>5 DEF Escalate
    <2>2. /\ worker'[r].at = "finish" /\ worker'[r].rv = worker[r].rv
          /\ worker'[r].verdict = worker[r].verdict
      BY <1>1, <2>1 DEF Worker
    <2> QED BY <1>2, <1>3, <1>5, <2>1, <2>2
  <1> QED BY <1>4, <1>5

LEMMA FinishFacts ==
    ASSUME IInv, NEW r \in Records, Finish(r)
    PROVE  /\ worker[r].at = "finish" /\ worker'[r].at = "record"
           /\ worker'[r].verdict = worker[r].verdict
           /\ ran' = ran /\ pages' = pages
  <1>1. worker \in [Records -> Worker] /\ worker[r] \in Worker
    BY DEF IInv, Typed, TypeOK
  <1>2. worker'[r].at = "record" /\ worker'[r].verdict = worker[r].verdict
    BY <1>1 DEF Finish, Worker
  <1> QED BY <1>2 DEF Finish, Write, worldVars

\* A record is in a terminal state because it was, or because a final write
\* landed that was computed from the version it replaces.
LEMMA Landing ==
    ASSUME IInv, [Next]_vars, NEW r \in Records, Exists(r)', Current(r)'.state \in Terminal
    PROVE  \/ /\ Exists(r) /\ Current(r).state = Current(r)'.state
              /\ Current(r)'.attempt = Current(r).attempt
              /\ Current(r)'.reason = Current(r).reason /\ Current(r)'.esc = Current(r).esc
           \/ /\ worker[r].at = "finish" /\ log'[r] # log[r]
              /\ worker'[r] = Idle \/ worker'[r].at = "record"
              /\ Current(r)'.state = worker[r].verdict.state
              /\ Current(r)'.reason = worker[r].verdict.reason
              /\ Current(r)'.esc = worker[r].verdict.esc
              /\ Current(r)'.attempt = Local(r).attempt /\ ran'[r] = ran[r]
  <1>1. Typed /\ Move(r) /\ log[r] \in Seq(Version)
    BY Moves DEF IInv, Typed, TypeOK
  <1>2. CASE log'[r] = log[r]
    BY <1>2 DEF Current, Exists
  <1>3. CASE Patched(r)
    <2>1. PICK v \in Version :
            /\ log'[r] = Append(log[r], v) /\ v.attempt = Current(r).attempt
            /\ v.state = Current(r).state /\ v.reason = Current(r).reason
            /\ v.esc = Current(r).esc
      BY <1>3, PatchFacts
    <2>2. Current(r)' = v /\ Exists(r)
      BY <1>1, <1>3, <2>1, Grown DEF Patched
    <2> QED BY <2>1, <2>2
  <1>4. CASE Pruned(r)
    <2>1. PICK v \in Version : log'[r] = Append(log[r], v) /\ v.state = "Deleted"
      BY <1>4, PruneFacts
    <2>2. Current(r)' = v
      BY <1>1, <2>1, Grown
    <2> QED BY <2>1, <2>2 DEF Terminal
  <1>5. CASE Appears(r)
    <2>1. Current(r)' = NewRecord
      BY <1>1, <1>5, NewRecordType, Grown DEF Appears
    <2>2. NewRecord.state = "New"
      BY DEF NewRecord
    <2> QED BY <2>1, <2>2 DEF Terminal
  <1>6. CASE Writes(r)
    <2>1. /\ Outgoing(r) \in Version /\ log'[r] = Append(log[r], Outgoing(r))
          /\ worker[r].at \in Writing /\ ran'[r] = ran[r]
      BY <1>6, WriteFacts DEF Writes
    <2>2. Current(r)' = Outgoing(r) /\ log'[r] # log[r]
      <3>1. Current(r)' = Outgoing(r) /\ Len(log'[r]) = Len(log[r]) + 1 /\ Len(log[r]) \in Nat
        BY <1>1, <2>1, Grown
      <3> QED BY <3>1
    <2>3. worker[r].at = "finish"
      BY <1>6, <2>1, <2>2, WriteFacts DEF Writes, Writing, Terminal
    <2>4. Outgoing(r) = FinalVersion(r) /\ Local(r) \in Version
      BY <1>1, <2>3, LocalType DEF Outgoing
    <2>5. /\ Outgoing(r).state = worker[r].verdict.state
          /\ Outgoing(r).reason = worker[r].verdict.reason
          /\ Outgoing(r).esc = worker[r].verdict.esc
          /\ Outgoing(r).attempt = Local(r).attempt
      BY <2>4 DEF FinalVersion, Version
    <2>6. worker'[r] = Idle \/ worker'[r].at = "record"
      BY <1>6, <2>3 DEF Writes
    <2> QED BY <2>1, <2>2, <2>3, <2>5, <2>6
  <1> QED BY <1>1, <1>2, <1>3, <1>4, <1>5, <1>6
          DEF Move, Stays, Released, Reads, Executes, Pages, Cleans, Frozen

\* Pages are only added.
LEMMA PagesGrow ==
    ASSUME IInv, [Next]_vars, NEW r \in Records, NEW w \in PageReasons
    PROVE  pages[r][w] \in Nat /\ pages'[r][w] \in Nat /\ pages[r][w] <= pages'[r][w]
  <1>1. Typed /\ pages \in [Records -> [PageReasons -> Nat]] /\ pages[r][w] \in Nat
    BY DEF IInv, Typed, TypeOK
  <1>2. CASE pages'[r] = pages[r]
    BY <1>1, <1>2
  <1>3. CASE Paged(r, worker[r].verdict.reason)
    BY <1>1, <1>3 DEF Paged
  <1>4. Turn(r)
    BY <1>1, Turns
  <1> QED BY <1>2, <1>3, <1>4, StartFacts, SuccessFacts, FailureFacts, EscalateFacts, FinishFacts
          DEF Turn, Quiet, Takes, Tidies

-----------------------------------------------------------------------------
(* The outcome and what was executed *)

\* The executions in s of the first n steps of an attempt.
Includes(s, attempt, n) ==
    \A k \in 1 .. n : \E i \in 1 .. Len(s) : s[i] = [attempt |-> attempt, step |-> k]

\* What a pass has executed by the time it executes the next step, or writes
\* that it succeeded.
Executed(r) ==
    LET w == worker[r]
    IN  /\ w.at = "start" => w.step = 1
        /\ w.at = "execute" =>
              /\ w.step \in 1 .. NumSteps
              /\ ~spec[r].dryRun => Includes(ran[r], Local(r).attempt, w.step - 1)
        /\ w.at = "finish" /\ w.verdict.state = "Succeeded" =>
              Includes(ran[r], Local(r).attempt, NumSteps)
        /\ w.at = "finish" /\ w.verdict.state = "Simulated" => spec[r].dryRun

\* What the stored outcome says was executed.
Truthful(r) ==
    Exists(r) =>
        /\ Current(r).state = "Succeeded" => Includes(ran[r], Current(r).attempt, NumSteps)
        /\ Current(r).state = "Simulated" => spec[r].dryRun

\* Dry runs and give-ups execute nothing, and nothing is executed before the
\* first attempt is counted.
Harmless(r) ==
    /\ spec[r].dryRun \/ spec[r].gaveUp => ran[r] = <<>>
    /\ spec[r].gaveUp => worker[r].at \notin {"start", "execute", "retry"}
    /\ worker[r].at = "execute" => Local(r).attempt > 0
    /\ \A i \in 1 .. Len(ran[r]) : ran[r][i].attempt > 0

\* Executions are only added.
LEMMA RanGrows ==
    ASSUME IInv, [Next]_vars, NEW r \in Records
    PROVE  \/ ran'[r] = ran[r]
           \/ /\ ran'[r] = Append(ran[r], Effect(r)) /\ Effect(r) \in EffectRecord
              /\ worker[r].at = "execute" /\ ~spec[r].dryRun
  <1>1. Typed /\ worker[r] \in Worker
    BY DEF IInv, Typed, TypeOK
  <1>2. Turn(r)
    BY <1>1, Turns
  <1>3. worker[r].at = "execute" => Effect(r) \in EffectRecord
    <2>1. worker[r].at = "execute" => Local(r) \in Version
      BY <1>1, LocalType
    <2> QED BY <1>1, <2>1 DEF Effect, EffectRecord, Version, Worker
  <1> QED BY <1>2, <1>3, StartFacts, SuccessFacts, FailureFacts, EscalateFacts, FinishFacts
          DEF Turn, Quiet, Takes, Tidies

LEMMA IncludesMore ==
    ASSUME NEW s \in Seq(EffectRecord), NEW e \in EffectRecord, NEW a, NEW n,
           Includes(s, a, n)
    PROVE  Includes(Append(s, e), a, n)
  <1>1. /\ Len(s) \in Nat /\ Len(Append(s, e)) = Len(s) + 1
        /\ \A i \in 1 .. Len(s) : Append(s, e)[i] = s[i]
    OBVIOUS
  <1>2. \A i \in 1 .. Len(s) : i \in 1 .. Len(Append(s, e))
    BY <1>1
  <1> QED BY <1>1, <1>2 DEF Includes

LEMMA IncludesNext ==
    ASSUME NEW s \in Seq(EffectRecord), NEW a \in Nat, NEW n \in Nat \ {0},
           Includes(s, a, n - 1)
    PROVE  Includes(Append(s, [attempt |-> a, step |-> n]), a, n)
  <1> DEFINE e == [attempt |-> a, step |-> n]
  <1>1. e \in EffectRecord
    BY DEF EffectRecord
  <1> HIDE DEF e
  <1>2. Includes(Append(s, e), a, n - 1)
    BY <1>1, IncludesMore
  <1>3. Len(s) + 1 \in 1 .. Len(Append(s, e)) /\ Append(s, e)[Len(s) + 1] = e
    BY <1>1
  <1>4. \A k \in 1 .. n : k \in 1 .. n - 1 \/ k = n
    OBVIOUS
  <1> QED BY <1>2, <1>3, <1>4 DEF Includes, e

LEMMA SuccessVerdict ==
    ASSUME NEW r
    PROVE  /\ Success(r).state = IF spec[r].dryRun THEN "Simulated" ELSE "Succeeded"
           /\ Success(r).reason = ""
  <1>1. CASE spec[r].dryRun
    <2>1. Success(r) = [state |-> "Simulated", reason |-> "", esc |-> "none"]
      BY <1>1 DEF Success
    <2> DEFINE v == [state |-> "Simulated", reason |-> "", esc |-> "none"]
    <2>2. v.state = "Simulated" /\ v.reason = ""
      OBVIOUS
    <2> HIDE DEF v
    <2>3. Success(r) = v
      BY <2>1 DEF v
    <2> QED BY <1>1, <2>2, <2>3
  <1>2. CASE ~spec[r].dryRun
    <2>1. Success(r) = [state |-> "Succeeded", reason |-> "", esc |-> "none"]
      BY <1>2 DEF Success
    <2> DEFINE v == [state |-> "Succeeded", reason |-> "", esc |-> "none"]
    <2>2. v.state = "Succeeded" /\ v.reason = ""
      OBVIOUS
    <2> HIDE DEF v
    <2>3. Success(r) = v
      BY <2>1 DEF v
    <2> QED BY <1>2, <2>2, <2>3
  <1> QED BY <1>1, <1>2

LEMMA ExecutedNext ==
    ASSUME IInv, [Next]_vars, NEW r \in Records, Executed(r)
    PROVE  Executed(r)'
  <1>1. /\ Typed /\ worker[r] \in Worker /\ ran[r] \in Seq(EffectRecord)
        /\ spec' = spec /\ NumSteps \in Nat \ {0}
    BY SpecConstant, LifecycleAssumption DEF IInv, Typed, TypeOK
  <1>2. Turn(r)
    BY <1>1, Turns
  <1>3. CASE worker'[r].at \notin {"start", "execute", "finish"}
    BY <1>3 DEF Executed
  <1>4. CASE worker'[r] = worker[r] /\ ran'[r] = ran[r] /\ worker[r].at # "idle"
    <2>1. Local(r)' = Local(r)
      BY <1>4, LocalStays
    <2> QED BY <1>1, <1>4, <2>1 DEF Executed
  <1>5. CASE Takes(r)
    BY <1>1, <1>5 DEF Takes, Executed
  <1>6. CASE StartAttempt(r)
    <2>1. worker'[r].at = "execute" /\ worker'[r].step = 1
      BY <1>6, StartFacts DEF Executed
    <2>2. \A a : Includes(ran'[r], a, 0)
      BY DEF Includes
    <2>3. 1 \in 1 .. NumSteps /\ 1 - 1 = 0
      BY <1>1
    <2> QED BY <2>1, <2>2, <2>3 DEF Executed
  <1>7. CASE StepSucceeds(r)
    <2>1. Local(r)' = Local(r) /\ Local(r) \in Version
      BY <1>1, <1>7, SuccessFacts, LocalStays, LocalType
    <2>2. worker[r].step \in 1 .. NumSteps /\ Local(r).attempt \in Nat
      BY <1>7, <2>1, SuccessFacts DEF Executed, Version
    <2>3. ~spec[r].dryRun => Includes(ran'[r], Local(r).attempt, worker[r].step)
      <3>1. ASSUME ~spec[r].dryRun
            PROVE  Includes(ran'[r], Local(r).attempt, worker[r].step)
        <4>1. ran'[r] = Append(ran[r], Effect(r))
          BY <1>7, <3>1, SuccessFacts
        <4>2. Includes(ran[r], Local(r).attempt, worker[r].step - 1)
          BY <1>7, <3>1, SuccessFacts DEF Executed
        <4>3. worker[r].step \in Nat \ {0}
          BY <1>1, <2>2
        <4> QED BY <1>1, <2>2, <4>1, <4>2, <4>3, IncludesNext DEF Effect
      <3> QED BY <3>1
    <2>4. CASE worker[r].step < NumSteps
      <3>1. worker'[r].at = "execute" /\ worker'[r].step = worker[r].step + 1
        BY <1>7, <2>4, SuccessFacts
      <3>2. worker'[r].step \in 1 .. NumSteps /\ worker'[r].step - 1 = worker[r].step
        BY <1>1, <2>2, <2>4, <3>1
      <3> QED BY <1>1, <2>1, <2>3, <3>1, <3>2 DEF Executed
    <2>5. CASE ~(worker[r].step < NumSteps)
      <3>1. worker'[r].at = "finish" /\ worker'[r].verdict = Success(r)
        BY <1>7, <2>5, SuccessFacts
      <3>2. worker[r].step = NumSteps
        BY <1>1, <2>2, <2>5
      <3>3. worker'[r].verdict.state = IF spec[r].dryRun THEN "Simulated" ELSE "Succeeded"
        BY <3>1, SuccessVerdict
      <3> QED BY <1>1, <2>1, <2>3, <3>1, <3>2, <3>3 DEF Executed
    <2> QED BY <2>4, <2>5
  <1>8. CASE Fails(r)
    BY <1>3, <1>8, FailureFacts
  <1>9. CASE Escalate(r)
    BY <1>9, EscalateFacts DEF Executed
  <1>10. CASE Finish(r)
    BY <1>3, <1>10, FinishFacts
  <1>11. CASE Tidies(r)
    BY <1>3, <1>11 DEF Tidies
  <1>12. CASE Quiet(r)
    BY <1>3, <1>4, <1>12, IdleFields DEF Quiet
  <1> QED BY <1>2, <1>5, <1>6, <1>7, <1>8, <1>9, <1>10, <1>11, <1>12 DEF Turn

LEMMA TruthfulNext ==
    ASSUME IInv, [Next]_vars, NEW r \in Records, Executed(r), Truthful(r)
    PROVE  Truthful(r)'
  <1> SUFFICES ASSUME Exists(r)', Current(r)'.state \in {"Succeeded", "Simulated"}
               PROVE  /\ Current(r)'.state = "Succeeded" =>
                            Includes(ran'[r], Current(r)'.attempt, NumSteps)
                      /\ Current(r)'.state = "Simulated" => spec'[r].dryRun
    BY DEF Truthful
  <1>1. spec' = spec /\ ran[r] \in Seq(EffectRecord)
    BY SpecConstant DEF IInv, Typed, TypeOK
  <1>2. \A a, n : Includes(ran[r], a, n) => Includes(ran'[r], a, n)
    BY <1>1, RanGrows, IncludesMore
  <1>3. Current(r)'.state \in Terminal
    BY DEF Terminal
  <1> QED BY <1>1, <1>2, <1>3, Landing DEF Truthful, Executed

LEMMA HarmlessNext ==
    ASSUME IInv, [Next]_vars, NEW r \in Records, Harmless(r)
    PROVE  Harmless(r)'
  <1>1. /\ Typed /\ worker[r] \in Worker /\ ran[r] \in Seq(EffectRecord)
        /\ spec' = spec
    BY SpecConstant DEF IInv, Typed, TypeOK
  <1>2. Turn(r)
    BY <1>1, Turns
  <1>3. /\ spec[r].dryRun \/ spec[r].gaveUp => ran'[r] = <<>>
        /\ \A i \in 1 .. Len(ran'[r]) : ran'[r][i].attempt > 0
    <2>1. CASE ran'[r] = ran[r]
      BY <2>1 DEF Harmless
    <2>2. CASE /\ ran'[r] = Append(ran[r], Effect(r)) /\ Effect(r) \in EffectRecord
               /\ worker[r].at = "execute" /\ ~spec[r].dryRun
      <3>1. ~spec[r].gaveUp /\ Effect(r).attempt > 0
        BY <2>2 DEF Harmless, Effect
      <3>2. /\ Len(ran'[r]) = Len(ran[r]) + 1 /\ Len(ran[r]) \in Nat
            /\ ran'[r][Len(ran[r]) + 1] = Effect(r)
            /\ \A i \in 1 .. Len(ran[r]) : ran'[r][i] = ran[r][i]
        BY <1>1, <2>2
      <3>3. \A i \in 1 .. Len(ran'[r]) : i \in 1 .. Len(ran[r]) \/ i = Len(ran[r]) + 1
        BY <3>2
      <3> QED BY <2>2, <3>1, <3>2, <3>3 DEF Harmless
    <2> QED BY <2>1, <2>2, RanGrows
  <1>4. /\ spec[r].gaveUp => worker'[r].at \notin {"start", "execute", "retry"}
        /\ worker'[r].at = "execute" => Local(r)'.attempt > 0
    <2>1. CASE Quiet(r)
      <3>1. CASE worker'[r] = worker[r]
        <4>1. worker[r].at = "execute" => Local(r)' = Local(r)
          BY <3>1, LocalStays
        <4> QED BY <3>1, <4>1 DEF Harmless
      <3> QED BY <2>1, <3>1, IdleFields DEF Quiet
    <2>2. CASE Takes(r)
      BY <2>2 DEF Takes
    <2>3. CASE StartAttempt(r)
      <3>1. /\ worker[r].at = "start" /\ Local(r)'.attempt = Current(r).attempt + 1
            /\ Current(r).attempt \in Nat /\ worker'[r].at = "execute"
        BY <2>3, StartFacts
      <3> QED BY <3>1 DEF Harmless
    <2>4. CASE StepSucceeds(r) \/ Fails(r)
      <3>1. worker[r].at = "execute" /\ worker'[r].rv = worker[r].rv
        BY <2>4, SuccessFacts, FailureFacts
      <3>2. Local(r)' = Local(r)
        BY <3>1, LocalStays
      <3> QED BY <3>1, <3>2 DEF Harmless
    <2>5. CASE Escalate(r) \/ Finish(r) \/ Tidies(r)
      BY <2>5, EscalateFacts, FinishFacts DEF Tidies
    <2> QED BY <1>2, <2>1, <2>2, <2>3, <2>4, <2>5 DEF Turn
  <1> QED BY <1>1, <1>3, <1>4 DEF Harmless

-----------------------------------------------------------------------------
(* The outcome and who was told *)

\* A pass that is about to escalate has a reason to; once it has, the outcome
\* it carries, and later stores, was paged.
Told(r) ==
    LET w == worker[r]
    IN  /\ w.at = "escalate" => w.verdict.reason \in PageReasons
        /\ w.at = "finish" /\ spec[r].escalates /\ w.verdict.reason \in PageReasons =>
              pages[r][w.verdict.reason] > 0 /\ w.verdict.esc # "none"
        /\ Exists(r) /\ Current(r).state \in Terminal /\ spec[r].escalates
              /\ Current(r).reason \in PageReasons =>
              pages[r][Current(r).reason] > 0 /\ Current(r).esc # "none"

\* An attempt is under way, or has just failed for good.
Attempting(r) ==
    \/ worker[r].at \in {"execute", "retry"}
    \/ worker[r].at = "escalate" /\ worker[r].verdict.reason \in StepReasons

StepPages(r) == pages[r]["StepFailed"] + pages[r]["UnknownAction"]

\* While an attempt is under way none has been paged for, and after the page
\* the record never opens again.
Once(r) ==
    /\ Attempting(r) => Current(r).state = "Running" /\ StepPages(r) = 0
    /\ StepPages(r) <= 1
    /\ StepPages(r) > 0 => Exists(r) /\ Current(r).state \in Ended \cup {"Running"}

\* Only a give-up record is concluded as one.
Own(r) == worker[r].verdict.reason = "GaveUp" => spec[r].gaveUp

LEMMA ToldNext ==
    ASSUME IInv, [Next]_vars, NEW r \in Records, Told(r)
    PROVE  Told(r)'
  <1>1. Typed /\ spec' = spec
    BY SpecConstant DEF IInv
  <1>2. Turn(r)
    BY <1>1, Turns
  <1>3. StepReasons \subseteq PageReasons /\ "" \notin PageReasons
        /\ "Interrupted" \notin PageReasons /\ "Denied" \notin PageReasons
        /\ "GaveUp" \in PageReasons /\ "ApprovalTimeout" \in PageReasons
    BY DEF StepReasons, PageReasons
  <1>4. \A w \in PageReasons : pages[r][w] > 0 => pages'[r][w] > 0
    BY PagesGrow
  <1>5. worker'[r].at = "escalate" => worker'[r].verdict.reason \in PageReasons
    <2>1. CASE Quiet(r)
      BY <2>1, IdleFields DEF Quiet, Told
    <2> QED BY <1>2, <1>3, <2>1, StartFacts, SuccessFacts, FailureFacts, EscalateFacts, FinishFacts
            DEF Turn, Takes, Tidies
  <1>6. ASSUME worker'[r].at = "finish", spec[r].escalates,
               worker'[r].verdict.reason \in PageReasons
        PROVE  pages'[r][worker'[r].verdict.reason] > 0 /\ worker'[r].verdict.esc # "none"
    <2>1. CASE Quiet(r)
      BY <1>6, <2>1, IdleFields DEF Quiet, Told
    <2>2. CASE Escalate(r)
      <3> DEFINE w == worker[r].verdict.reason
      <3>1. /\ Paged(r, w) /\ worker'[r].verdict.esc # "none"
            /\ worker'[r].verdict.reason = w /\ w \in PageReasons
        BY <1>6, <2>2, EscalateFacts DEF Told
      <3>2. pages \in [Records -> [PageReasons -> Nat]]
        BY <1>1 DEF Typed, TypeOK
      <3> HIDE DEF w
      <3>3. pages'[r][w] > 0
        BY <3>1, <3>2 DEF Paged
      <3> QED BY <3>1, <3>3
    <2>3. CASE StepSucceeds(r)
      <3>1. worker'[r].verdict = Success(r)
        BY <1>6, <2>3, SuccessFacts
      <3> QED BY <1>3, <1>6, <3>1, SuccessVerdict
    <2> QED BY <1>2, <1>3, <1>6, <2>1, <2>2, <2>3, StartFacts, FailureFacts, FinishFacts
            DEF Turn, Takes, Tidies
  <1>7. ASSUME Exists(r)', Current(r)'.state \in Terminal, spec[r].escalates,
               Current(r)'.reason \in PageReasons
        PROVE  pages'[r][Current(r)'.reason] > 0 /\ Current(r)'.esc # "none"
    BY <1>4, <1>7, Landing DEF Told
  <1> QED BY <1>1, <1>5, <1>6, <1>7 DEF Told

\* What becomes of a record while no attempt of it is under way.
LEMMA NeverOpens ==
    ASSUME IInv, [Next]_vars, NEW r \in Records, Exists(r), worker[r].at # "retry",
           Current(r).state \in Ended \cup {"Running"}
    PROVE  /\ Exists(r)' /\ Current(r)'.state \in Ended \cup {"Running"}
           /\ Current(r).state = "Running" /\ worker[r].at \notin Writing =>
                 Current(r)'.state = "Running"
  <1>1. Typed /\ Move(r)
    BY Moves DEF IInv
  <1>2. CASE log'[r] = log[r]
    BY <1>2 DEF Exists, Current
  <1>3. CASE Patched(r)
    <2>1. PICK v \in Version : log'[r] = Append(log[r], v) /\ v.state = Current(r).state
      BY <1>3, PatchFacts
    <2> QED BY <1>1, <2>1, Grown
  <1>4. CASE Pruned(r)
    <2>1. PICK v \in Version : log'[r] = Append(log[r], v) /\ v.state = "Deleted"
      BY <1>4, PruneFacts
    <2>2. Current(r).state # "Running"
      BY <1>4, PruneFacts DEF Ended, Terminal
    <2> QED BY <1>1, <2>1, <2>2, Grown DEF Ended
  <1>5. CASE Writes(r)
    <2>1. /\ Outgoing(r) \in Version /\ log'[r] = Append(log[r], Outgoing(r))
          /\ worker[r].at \in Writing
      BY <1>5, WriteFacts DEF Writes
    <2>2. Exists(r)' /\ Current(r)' = Outgoing(r)
      BY <1>1, <2>1, Grown
    <2>3. worker[r].at = "finish"
      BY <1>5, <2>1, WriteFacts DEF Writes, Writing, OpenStates, Ended, Terminal
    <2>4. Outgoing(r).state \in Terminal
      BY <1>5, <2>3, WriteFacts DEF Writes
    <2> QED BY <2>1, <2>2, <2>4 DEF Ended
  <1> QED BY <1>1, <1>2, <1>3, <1>4, <1>5
          DEF Move, Stays, Released, Reads, Executes, Pages, Cleans, Frozen, Appears

LEMMA OnceNext ==
    ASSUME IInv, [Next]_vars, NEW r \in Records, Once(r), Told(r)
    PROVE  Once(r)'
  <1>1. Typed /\ Held(r) /\ pages \in [Records -> [PageReasons -> Nat]]
    BY DEF IInv, Typed, TypeOK
  <1>2. Turn(r)
    BY <1>1, Turns
  <1>3. /\ "StepFailed" \in PageReasons /\ "UnknownAction" \in PageReasons
        /\ StepReasons = {"StepFailed", "UnknownAction"}
    BY DEF StepReasons, PageReasons
  <1>4. StepPages(r) \in Nat
    BY <1>1, <1>3 DEF StepPages
  <1>5. worker[r].at # "idle" => Exists(r)
    <2>1. log[r] \in Seq(Version)
      BY <1>1 DEF Typed, TypeOK
    <2>2. worker[r].at # "idle" => worker[r].rv \in 1 .. Len(log[r])
      BY <1>1, LocalType
    <2>3. log[r] = <<>> => 1 .. Len(log[r]) = {}
      BY <2>1
    <2> QED BY <2>2, <2>3 DEF Exists
  <1>6. ASSUME pages'[r] # pages[r]
        PROVE  /\ Escalate(r) /\ log' = log /\ worker'[r].at = "finish"
               /\ worker[r].at = "escalate" /\ worker[r].verdict.reason \in PageReasons
               /\ Paged(r, worker[r].verdict.reason)
    <2>1. Escalate(r)
      BY <1>2, <1>6, StartFacts, SuccessFacts, FailureFacts, FinishFacts
         DEF Turn, Quiet, Takes, Tidies
    <2> QED BY <1>6, <2>1, EscalateFacts DEF Told
  <1>7. ASSUME pages'[r] # pages[r], worker[r].verdict.reason \in StepReasons
        PROVE  /\ StepPages(r)' = 1 /\ Current(r)'.state = "Running" /\ Exists(r)'
    <2>1. StepPages(r) = 0 /\ Current(r).state = "Running" /\ Exists(r)
      BY <1>5, <1>6, <1>7 DEF Attempting, Once
    <2>2. pages[r]["StepFailed"] = 0 /\ pages[r]["UnknownAction"] = 0
      BY <1>1, <1>3, <2>1 DEF StepPages
    <2>3. CASE worker[r].verdict.reason = "StepFailed"
      <3>1. pages'[r]["StepFailed"] = 1 /\ pages'[r]["UnknownAction"] = 0
        BY <1>1, <1>3, <1>6, <1>7, <2>2, <2>3 DEF Paged
      <3> QED BY <1>6, <1>7, <2>1, <3>1 DEF StepPages, Current, Exists
    <2>4. CASE worker[r].verdict.reason = "UnknownAction"
      <3>1. pages'[r]["StepFailed"] = 0 /\ pages'[r]["UnknownAction"] = 1
        BY <1>1, <1>3, <1>6, <1>7, <2>2, <2>4 DEF Paged
      <3> QED BY <1>6, <1>7, <2>1, <3>1 DEF StepPages, Current, Exists
    <2> QED BY <1>3, <1>7, <2>3, <2>4
  <1>8. ASSUME ~(pages'[r] # pages[r] /\ worker[r].verdict.reason \in StepReasons)
        PROVE  StepPages(r)' = StepPages(r)
    <2>1. CASE pages'[r] = pages[r]
      BY <2>1 DEF StepPages
    <2>2. CASE pages'[r] # pages[r]
      BY <1>1, <1>3, <1>6, <1>8, <2>2 DEF Paged, StepPages
    <2> QED BY <2>1, <2>2
  <1>9. CASE pages'[r] # pages[r] /\ worker[r].verdict.reason \in StepReasons
    BY <1>6, <1>7, <1>9 DEF Once, Attempting
  <1>10. CASE ~(pages'[r] # pages[r] /\ worker[r].verdict.reason \in StepReasons)
    <2>1. ASSUME Attempting(r)'
          PROVE  Current(r)'.state = "Running" /\ StepPages(r) = 0
      <3>1. CASE worker'[r] = worker[r]
        <4>1. Attempting(r)
          BY <2>1, <3>1 DEF Attempting
        <4>2. CASE worker[r].at = "escalate"
          <5>1. Exists(r) /\ Current(r).state = "Running" /\ StepPages(r) = 0
            BY <1>5, <4>1, <4>2 DEF Once
          <5> QED BY <4>2, <5>1, NeverOpens DEF Writing
        <4>3. CASE worker[r].at \in {"execute", "retry"}
          BY <3>1, <4>1, <4>3, HeldNext DEF Held, Once
        <4> QED BY <4>1, <4>2, <4>3 DEF Attempting
      <3>2. CASE StartAttempt(r)
        <4>1. StepPages(r) = 0
          BY <1>4, <3>2, StartFacts DEF Once, OpenStates, Ended, Terminal
        <4> QED BY <3>2, <4>1, StartFacts, HeldNext DEF Held
      <3>3. CASE StepSucceeds(r) \/ Fails(r)
        <4>1. worker[r].at = "execute" /\ log' = log
          BY <3>3, SuccessFacts, FailureFacts
        <4> QED BY <4>1 DEF Attempting, Once, Current
      <3>4. CASE \/ worker'[r] = Idle \/ Takes(r) \/ Escalate(r) \/ Finish(r) \/ Tidies(r)
        BY <1>3, <2>1, <3>4, IdleFields, EscalateFacts, FinishFacts
           DEF Attempting, Takes, Tidies
      <3> QED BY <1>2, <3>1, <3>2, <3>3, <3>4 DEF Turn, Quiet
    <2>2. ASSUME StepPages(r) > 0
          PROVE  Exists(r)' /\ Current(r)'.state \in Ended \cup {"Running"}
      BY <2>2, NeverOpens DEF Once, Attempting
    <2> QED BY <1>8, <1>10, <2>1, <2>2 DEF Once
  <1> QED BY <1>9, <1>10

LEMMA OwnNext ==
    ASSUME IInv, [Next]_vars, NEW r \in Records, Own(r)
    PROVE  Own(r)'
  <1>1. Typed /\ spec' = spec
    BY SpecConstant DEF IInv
  <1>2. Turn(r)
    BY <1>1, Turns
  <1>3. Idle.verdict.reason = "" /\ "GaveUp" \notin StepReasons
    BY DEF Idle, Failing, StepReasons
  <1>4. CASE StepSucceeds(r)
    BY <1>1, <1>4, SuccessFacts, SuccessVerdict DEF Own
  <1> QED BY <1>1, <1>2, <1>3, <1>4, StartFacts, FailureFacts, EscalateFacts, FinishFacts
          DEF Turn, Quiet, Takes, Tidies, Own

-----------------------------------------------------------------------------
(* The outcome and the guards' history *)

\* An execution that ended and whose pass is past telling the guards.
Settled(r) ==
    /\ Exists(r) /\ Current(r).state \in Terminal
    /\ spec[r].targeted /\ ~spec[r].gaveUp
    /\ worker[r].at # "record"

\* What ends while the loader is between its list and its replay is counted by
\* the pass, what ended before is on the list.
Remembered(r) ==
    Settled(r) => /\ loader = "warm" => counted[r] > 0
                  /\ loader = "apply" => counted[r] > 0 \/ r \in listed

\* A pass lets go of a final write that landed only when its response is lost.
LEMMA FinalWriteKept ==
    ASSUME Typed, [Next]_vars, NEW r \in Records, worker[r].at = "finish", worker'[r] = Idle
    PROVE  log'[r] = log[r] \/ LoseResponses
  <1>1. /\ worker \in [Records -> Worker] /\ worker[r] \in Worker
        /\ Idle.at = "idle"
    BY IdleFields DEF Typed, TypeOK
  <1>2. ASSUME NEW a \in Records, a # r,
               Reconcile(a) \/ Attempt(a) \/ Conclude(a) \/ Fault(a)
        PROVE  FALSE
    BY <1>1, <1>2, MoveOthers DEF Stays, Pruned
  <1>3. CASE Reconcile(r)
    <2>1. Dequeue(r)
      BY <1>3 DEF Reconcile, ReconcileNothing, ReconcileInterrupted, ReconcileGaveUp,
         ReconcileRun, ReconcileDenied, ReconcileTimedOut, ReconcileWaiting
    <2> QED BY <2>1 DEF Dequeue, apiVars
  <1>4. CASE Attempt(r)
    BY <1>4 DEF Attempt, StartAttempt, StepSucceeds, StepFails, RecordFailedAttempt, Write
  <1>5. CASE Conclude(r) \/ Fault(r)
    <2>1. CASE Finish(r)
      BY <1>1, <2>1 DEF Finish, Worker
    <2>2. CASE UpdateResponseLost(r)
      BY <2>2 DEF UpdateResponseLost
    <2>3. CASE UpdateConflict(r) \/ UpdateFails(r)
      BY <2>3 DEF UpdateConflict, UpdateFails
    <2>4. ~MarkAwaitingApproval(r) /\ ~Escalate(r) /\ ~RecordAndPrune(r)
          /\ ~PruneDelete(r) /\ ~PruneFails(r)
      BY DEF MarkAwaitingApproval, Write, Escalate, RecordAndPrune, PruneDelete, PruneFails
    <2> QED BY <1>5, <2>1, <2>2, <2>3, <2>4 DEF Conclude, Fault
  <1>6. ASSUME NEW a \in Records, World(a) \/ Observe(a) \/ TimerFires(a)
        PROVE  FALSE
    <2>1. worker' = worker
      BY <1>6 DEF World, Create, Decide, Touch, Observe, TimerFires, WorldFrame, workVars
    <2> QED BY <1>1, <2>1
  <1>7. CASE LoadList \/ LoadApply \/ Crash \/ Restart \/ Tick \/ UNCHANGED vars
    BY <1>7 DEF LoadList, LoadApply, Crash, Restart, Tick, vars, apiVars
  <1> QED BY <1>2, <1>3, <1>4, <1>5, <1>6, <1>7 DEF Next

\* What a step does to the guards' history.
LEMMA MemoryStep ==
    ASSUME Typed, [Next]_vars, NEW r \in Records
    PROVE  \/ /\ loader' = loader /\ listed' = listed
              /\ counted[r] <= counted'[r] /\ counted'[r] \in Nat
              /\ worker[r].at = "record" =>
                    \/ worker'[r].at = "record"
                    \/ /\ spec[r].targeted /\ worker[r].verdict.reason # "GaveUp" =>
                             counted'[r] > 0
           \/ LoadList \/ LoadApply \/ Crash
  <1>1. /\ worker \in [Records -> Worker] /\ counted \in [Records -> Nat]
        /\ counted[r] \in Nat
    BY DEF Typed, TypeOK
  <1>2. ASSUME loader' = loader, listed' = listed, counted' = counted,
               worker[r].at = "record" => worker'[r].at = "record"
        PROVE  /\ loader' = loader /\ listed' = listed
               /\ counted[r] <= counted'[r] /\ counted'[r] \in Nat
               /\ worker[r].at = "record" => worker'[r].at = "record"
    BY <1>1, <1>2
  <1>3. ASSUME NEW a \in Records, RecordAndPrune(a)
        PROVE  /\ loader' = loader /\ listed' = listed
               /\ counted[r] <= counted'[r] /\ counted'[r] \in Nat
               /\ worker[r].at = "record" =>
                     \/ worker'[r].at = "record"
                     \/ /\ spec[r].targeted /\ worker[r].verdict.reason # "GaveUp" =>
                              counted'[r] > 0
    <2>1. /\ loader' = loader /\ listed' = listed
          /\ counted' = IF spec[a].targeted /\ worker[a].verdict.reason # "GaveUp"
                        THEN [counted EXCEPT ![a] = @ + 1] ELSE counted
      BY <1>3 DEF RecordAndPrune
    <2>2. CASE a = r
      <3>1. counted' = counted \/ counted'[r] = counted[r] + 1
        BY <1>1, <2>1, <2>2
      <3>2. spec[r].targeted /\ worker[r].verdict.reason # "GaveUp" =>
              counted'[r] = counted[r] + 1
        BY <1>1, <2>1, <2>2
      <3> QED BY <1>1, <2>1, <3>1, <3>2
    <2>3. CASE a # r
      <3>1. counted'[r] = counted[r]
        BY <1>1, <2>1, <2>3
      <3>2. worker'[r] = worker[r]
        BY <1>3, <2>3, MoveOthers DEF Conclude, Stays, Pruned
      <3> QED BY <1>1, <2>1, <3>1, <3>2
    <2> QED BY <2>2, <2>3
  <1>4. ASSUME NEW a \in Records, Reconcile(a)
        PROVE  /\ loader' = loader /\ listed' = listed /\ counted' = counted
               /\ worker[r].at = "record" => worker'[r].at = "record"
    <2>1. Dequeue(a)
      BY <1>4 DEF Reconcile, ReconcileNothing, ReconcileInterrupted, ReconcileGaveUp,
         ReconcileRun, ReconcileDenied, ReconcileTimedOut, ReconcileWaiting
    <2>2. a # r => worker'[r] = worker[r]
      BY <1>4, MoveOthers DEF Stays, Pruned
    <2> QED BY <2>1, <2>2, IdleFields DEF Dequeue, memoryVars
  <1>5. ASSUME NEW a \in Records, Attempt(a) \/ Fault(a) \/ (Conclude(a) /\ ~RecordAndPrune(a))
        PROVE  /\ loader' = loader /\ listed' = listed /\ counted' = counted
               /\ worker[r].at = "record" => worker'[r].at = "record"
    <2>1. loader' = loader /\ listed' = listed /\ counted' = counted
      BY <1>5 DEF Attempt, Fault, Conclude, StartAttempt, StepSucceeds, StepFails,
         RecordFailedAttempt, MarkAwaitingApproval, Escalate, Finish, PruneDelete,
         UpdateConflict, UpdateFails, UpdateResponseLost, PruneFails, ReturnError, Write,
         PassFrame, memoryVars
    <2>2. a # r => worker'[r] = worker[r]
      BY <1>5, MoveOthers DEF Stays, Pruned
    <2>3. worker[a].at # "record"
      BY <1>5 DEF Attempt, Fault, Conclude, StartAttempt, StepSucceeds, StepFails,
         RecordFailedAttempt, MarkAwaitingApproval, Escalate, Finish, PruneDelete,
         UpdateConflict, UpdateFails, UpdateResponseLost, PruneFails, Write, Writing
    <2> QED BY <2>1, <2>2, <2>3
  <1>6. ASSUME NEW a \in Records, World(a) \/ Observe(a) \/ TimerFires(a)
        PROVE  /\ loader' = loader /\ listed' = listed /\ counted' = counted
               /\ worker' = worker
    BY <1>6 DEF World, Create, Decide, Touch, Observe, TimerFires, WorldFrame, workVars,
       memoryVars
  <1>7. CASE Restart \/ Tick \/ UNCHANGED vars
    <2>1. loader' = loader /\ listed' = listed /\ counted' = counted /\ worker' = worker
      BY <1>7 DEF Restart, Tick, vars, WorldFrame, workVars, memoryVars
    <2> QED BY <1>2, <2>1
  <1> QED BY <1>2, <1>3, <1>4, <1>5, <1>6, <1>7 DEF Next

LEMMA RememberedNext ==
    ASSUME IInv, [Next]_vars, ~LoseResponses, NEW r \in Records, Own(r), Remembered(r)
    PROVE  Remembered(r)'
  <1> SUFFICES ASSUME Settled(r)'
               PROVE  /\ loader' = "warm" => counted'[r] > 0
                      /\ loader' = "apply" => counted'[r] > 0 \/ r \in listed'
    BY DEF Remembered
  <1>1. /\ Typed /\ spec' = spec /\ counted \in [Records -> Nat] /\ counted[r] \in Nat
        /\ Exists(r)' /\ Current(r)'.state \in Terminal
        /\ spec[r].targeted /\ ~spec[r].gaveUp /\ worker'[r].at # "record"
    BY SpecConstant DEF IInv, Typed, TypeOK, Settled
  <1>2. Exists(r) /\ Current(r).state \in Terminal
    BY <1>1, Landing, FinalWriteKept
  <1>3. CASE Crash
    BY <1>3 DEF Crash
  <1>4. CASE LoadList
    BY <1>1, <1>2, <1>4 DEF LoadList
  <1>5. CASE LoadApply
    <2>1. counted'[r] = IF r \in listed THEN counted[r] + 1 ELSE counted[r]
      BY <1>5 DEF LoadApply
    <2>2. worker' = worker /\ loader = "apply" /\ loader' = "warm"
      BY <1>5 DEF LoadApply, workVars
    <2>3. counted[r] > 0 \/ r \in listed
      BY <1>1, <1>2, <2>2 DEF Remembered, Settled
    <2> QED BY <1>1, <2>1, <2>2, <2>3
  <1>6. CASE /\ loader' = loader /\ listed' = listed
             /\ counted[r] <= counted'[r] /\ counted'[r] \in Nat
             /\ worker[r].at = "record" =>
                   \/ worker'[r].at = "record"
                   \/ /\ spec[r].targeted /\ worker[r].verdict.reason # "GaveUp" =>
                            counted'[r] > 0
    <2>1. CASE worker[r].at = "record"
      BY <1>1, <1>6, <2>1 DEF Own
    <2>2. CASE worker[r].at # "record"
      BY <1>1, <1>2, <1>6, <2>2 DEF Remembered, Settled
    <2> QED BY <2>1, <2>2
  <1> QED BY <1>1, <1>3, <1>4, <1>5, <1>6, MemoryStep

-----------------------------------------------------------------------------
(* The invariant and the theorems *)

OInv ==
    /\ IInv
    /\ \A r \in Records :
          /\ Executed(r) /\ Truthful(r) /\ Harmless(r) /\ Told(r) /\ Once(r) /\ Own(r)
          /\ ~LoseResponses => Remembered(r)

LEMMA OInvInit == Init => OInv
  <1> SUFFICES ASSUME Init PROVE OInv
    OBVIOUS
  <1>1. ASSUME NEW r \in Records
        PROVE  /\ worker[r] = Idle /\ ran[r] = <<>> /\ ~Exists(r)
               /\ pages[r] = [w \in PageReasons |-> 0]
    BY <1>1 DEF Init, Exists
  <1>2. Idle.at = "idle" /\ Idle.verdict.reason = ""
    BY IdleFields DEF Idle, Failing
  <1>3. "StepFailed" \in PageReasons /\ "UnknownAction" \in PageReasons
    BY DEF PageReasons, StepReasons
  <1>4. 1 .. Len(<<>>) = {}
    OBVIOUS
  <1>5. ASSUME NEW r \in Records
        PROVE  Executed(r) /\ Truthful(r) /\ Harmless(r) /\ Told(r) /\ Own(r) /\ Remembered(r)
    BY <1>1, <1>2, <1>4
       DEF Executed, Truthful, Harmless, Told, Own, Remembered, Settled
  <1>6. ASSUME NEW r \in Records PROVE Once(r)
    <2>1. StepPages(r) = 0
      BY <1>1, <1>3 DEF StepPages
    <2>2. worker[r].at = "idle"
      BY <1>1, <1>2
    <2>3. ~Attempting(r)
      BY <2>2 DEF Attempting
    <2> QED BY <2>1, <2>3 DEF Once
  <1> QED BY <1>5, <1>6, IInvInit DEF OInv

LEMMA OInvNext == OInv /\ [Next]_vars => OInv'
  BY IInvNext, ExecutedNext, TruthfulNext, HarmlessNext, ToldNext, OnceNext, OwnNext, RememberedNext
     DEF OInv

LEMMA OutcomeInvariance == Spec => []OInv
  BY OInvInit, OInvNext, PTL DEF Spec

\* The stored outcome agrees with what happened to the cluster: a record says
\* Succeeded only after the attempt it names executed every step of the plan,
\* and dry runs, give-ups and records without an attempt executed nothing.
THEOREM OutcomeIsTrue == Spec => []OutcomeMatchesEffects
  <1>1. OInv => OutcomeMatchesEffects
    <2> SUFFICES ASSUME OInv, NEW r \in Records, Exists(r)
                 PROVE  /\ Current(r).state = "Succeeded" =>
                              Includes(ran[r], Current(r).attempt, NumSteps)
                        /\ \/ spec[r].dryRun \/ spec[r].gaveUp \/ Current(r).attempt = 0
                           \/ Current(r).state = "Simulated"
                           => ran[r] = <<>>
      BY DEF OutcomeMatchesEffects, Includes
    <2>1. /\ Truthful(r) /\ Harmless(r) /\ Ordered(r) /\ ran[r] \in Seq(EffectRecord)
      BY DEF OInv, IInv, Typed, TypeOK
    <2>2. ASSUME Current(r).attempt = 0, ran[r] # <<>> PROVE FALSE
      <3>1. 1 \in 1 .. Len(ran[r]) /\ ran[r][1] \in EffectRecord
        BY <2>1, <2>2
      <3>2. ran[r][1].attempt <= 0 /\ ran[r][1].attempt > 0 /\ ran[r][1].attempt \in Nat
        BY <2>1, <2>2, <3>1 DEF Ordered, Harmless, EffectRecord
      <3> QED BY <3>2
    <2> QED BY <2>1, <2>2 DEF Truthful, Harmless
  <1> QED BY <1>1, OutcomeInvariance, PTL

\* Whoever reads that a record failed for good, gave up or timed out need not
\* wonder whether a page is still coming: the escalation ran before the write.
THEOREM PagedBeforeFailed == Spec => []FailureIsPagedFirst
  <1>1. OInv => FailureIsPagedFirst
    BY DEF OInv, Told, FailureIsPagedFirst
  <1> QED BY <1>1, OutcomeInvariance, PTL

\* The attempts of a record page at most once, whatever crashes and conflicts
\* follow the page: the record is Running until it ends, and a Running record
\* is never attempted again.
THEOREM PagedOnlyOnce == Spec => []FailurePagesOnce
  <1>1. OInv => FailurePagesOnce
    BY DEF OInv, Once, StepPages, FailurePagesOnce
  <1> QED BY <1>1, OutcomeInvariance, PTL

\* The guards know of every completed execution once the loader is done, if no
\* final write lands whose response is lost: finish returns on the error of its
\* write and never reaches RecordCompletion.
THEOREM NothingForgotten ==
    ASSUME ~LoseResponses
    PROVE  Spec => []CompletionsRemembered
  <1>1. OInv => CompletionsRemembered
    BY DEF OInv, Remembered, Settled, CompletionsRemembered
  <1> QED BY <1>1, OutcomeInvariance, PTL
=============================================================================

----------------------- MODULE ExternalActions_proofs -----------------------
(***************************************************************************)
(* Proofs about ExternalActions, for any steps, channels, endpoints, Jobs,   *)
(* deadlines and faults.                                                     *)
(***************************************************************************)
EXTENDS ExternalActions, StepRunner_proofs, SequenceTheorems

Job == [by : Runners, attempt : Nat, state : {"running", "succeeded", "failed", "gone"},
        failures : Nat]

(* The inductive invariant, in parts. *)

Typed ==
    /\ StepTyped
    /\ calling \in [Runners -> BOOLEAN] /\ sent \in [Runners -> Nat]
    /\ jobs \in Seq(Job) /\ mine \in [Runners -> Nat]
    /\ verdict \in [Runners -> {"none", "succeeded", "failed"}]
    /\ Escalating => \A r \in Busy : plan[r].retries = 0 /\ ~plan[r].dryRun

\* The Job an attempt recorded is one it created itself; a verdict is about it,
\* and a Job that has come to its end does not run again.
Owned(r) ==
    /\ mine[r] # 0 => /\ mine[r] \in DOMAIN jobs
                      /\ jobs[mine[r]].by = r /\ jobs[mine[r]].attempt = attempt[r]
    /\ phase[r] = "verifying" => mine[r] # 0
    /\ phase[r] \in Working => verdict[r] = "none"
    /\ verdict[r] # "none" => mine[r] # 0 /\ jobs[mine[r]].state \in {verdict[r], "gone"}

\* At most one request per attempt, and none before the attempt is at it; what
\* succeeded did so for a reason.
Counted(r) ==
    /\ calling[r] => phase[r] = "writing" /\ ~IsJob(r) /\ sent[r] > 0
    /\ sent[r] <= attempt[r]
    /\ (phase[r] = "checking" \/ (phase[r] = "writing" /\ ~calling[r])) => sent[r] < attempt[r]
    /\ phase[r] = "verifying" => IsJob(r)
    /\ phase[r] = "simulated" => plan[r].dryRun
    /\ phase[r] = "succeeded" => IF IsJob(r) THEN verdict[r] = "succeeded" ELSE sent[r] > 0

\* Channels are taken in order: one that has begun found all before it over,
\* and none of them delivered if the first success is to be the last.
Ordered(r) ==
    /\ attempt[r] = 0 => /\ sent[r] = 0 /\ \A j \in DOMAIN jobs : jobs[j].by # r
                         /\ phase[r] \in {"pending", "skipped"}
    /\ Escalating /\ attempt[r] > 0 =>
         \A e \in Before(r) : Over(e) /\ ~(mode = "firstSuccess" /\ phase[e] = "succeeded")
    /\ phase[r] = "skipped" => Delivered(r)

\* A report is made once every channel is over, and stays true of them.
Reported ==
    /\ report \in {"none", "succeeded", "failed"}
    /\ report # "none" => Escalating /\ \A r \in Busy : Over(r)
    /\ report = "succeeded" => \E r \in Busy : phase[r] = "succeeded"
    /\ report = "failed" => \A r \in Busy : phase[r] = "failed"

Inv ==
    /\ Typed /\ Reported
    /\ \A r \in Busy : Owned(r) /\ Counted(r) /\ Ordered(r)
-----------------------------------------------------------------------------
(* How a step of the system moves the steps of the plan *)

\* What one worker does.
Work(r) == StepNext(r) \/ Answered(r) \/ CreateFails(r) \/ ReadError(r)

LEMMA WorkMoves ==
    ASSUME StepTyped, NEW r \in Busy, Work(r)
    PROVE  \/ StepMove(r)
           \/ /\ phase' = [phase EXCEPT ![r] = "skipped"] /\ phase[r] = "pending"
              /\ Skip(r) /\ UNCHANGED <<plan, attempt, faults>>
           \/ /\ phase' = [phase EXCEPT ![r] = "failed"] /\ phase[r] \in Working
              /\ UNCHANGED <<plan, attempt, faults>>
           \/ UNCHANGED stepVars
  BY DEF Work, StepNext, Start, Skip, OutOfTime, Prepare, PrepareRefuses, Call, Unreachable,
         CallTimesOut, CreateJob, JobSucceeded, JobFailed, JobNotFound, VerifyExpires, TryAgain,
         Answered, CreateFails, ReadError, StepMove, Goes

\* Nothing moves a step that is over, and workers move only their own.
LEMMA WorkFrame ==
    ASSUME StepTyped, NEW r \in Busy, Work(r)
    PROVE  /\ StepTyped' /\ plan' = plan /\ Busy' = Busy /\ r \in Runners
           /\ Over(r) => phase'[r] = phase[r] /\ attempt'[r] = attempt[r]
           /\ \A q \in Runners \ {r} : phase'[q] = phase[q] /\ attempt'[q] = attempt[q]
           /\ attempt'[r] \in {attempt[r], attempt[r] + 1}
  <1>0. r \in Runners
    BY BusyRunners DEF StepTyped
  <1>1. CASE StepMove(r)
    BY <1>0, <1>1, MoveOfStep DEF Busy
  <1>2. CASE /\ phase' = [phase EXCEPT ![r] = "skipped"] /\ phase[r] = "pending"
             /\ UNCHANGED <<plan, attempt, faults>>
    <2>1. "skipped" \in Phases \ {"pending"}
      BY DEF Phases, Ended
    <2> QED BY <1>0, <1>2, <2>1, EndOfStep DEF Busy, Over, Ended
  <1>3. CASE /\ phase' = [phase EXCEPT ![r] = "failed"] /\ phase[r] \in Working
             /\ UNCHANGED <<plan, attempt, faults>>
    <2>1. "failed" \in Phases \ {"pending"}
      BY DEF Phases, Ended
    <2> QED BY <1>0, <1>3, <2>1, EndOfStep DEF Busy, Over, Ended, Working
  <1>4. CASE UNCHANGED stepVars
    BY <1>0, <1>4 DEF stepVars, StepTyped, StepTypeOK, WithinBudget, Busy
  <1> QED BY <1>1, <1>2, <1>3, <1>4, WorkMoves

\* What is over stays as it is.
LEMMA OverStays ==
    ASSUME StepTyped, [Next]_externalVars
    PROVE  /\ StepTyped' /\ plan' = plan
           /\ \A e \in Busy : Over(e) => Over(e)' /\ phase'[e] = phase[e]
           /\ \A e \in Busy : attempt'[e] >= attempt[e]
  <1>0. Busy \subseteq Runners /\ \A e \in Busy : attempt[e] \in Nat
    BY BusyRunners DEF StepTyped, StepTypeOK
  <1>1. ASSUME NEW r \in Busy, Work(r)
        PROVE  /\ StepTyped' /\ plan' = plan
               /\ \A e \in Busy : Over(e) => phase'[e] = phase[e] /\ attempt'[e] = attempt[e]
               /\ \A e \in Busy : attempt'[e] >= attempt[e]
    BY <1>0, <1>1, WorkFrame
  <1>2. ASSUME Die
        PROVE  /\ StepTyped' /\ plan' = plan
               /\ \A e \in Busy : Over(e) => phase'[e] = phase[e] /\ attempt'[e] = attempt[e]
               /\ \A e \in Busy : attempt'[e] >= attempt[e]
    BY <1>0, <1>2, DeathOfSteps DEF Over, Ended, Working
  <1>3. ASSUME UNCHANGED stepVars
        PROVE  /\ StepTyped' /\ plan' = plan
               /\ \A e \in Busy : Over(e) => phase'[e] = phase[e] /\ attempt'[e] = attempt[e]
               /\ \A e \in Busy : attempt'[e] >= attempt[e]
    BY <1>0, <1>3 DEF stepVars, StepTyped, StepTypeOK, WithinBudget, Busy
  <1>4. \/ \E r \in Busy : Work(r)
        \/ Die
        \/ UNCHANGED stepVars
    BY DEF Next, Work, Death, Report, Edit, PodFails, PodSucceeds, Expires, externalVars
  <1>5. /\ StepTyped' /\ plan' = plan
        /\ \A e \in Busy : Over(e) => phase'[e] = phase[e] /\ attempt'[e] = attempt[e]
        /\ \A e \in Busy : attempt'[e] >= attempt[e]
    BY <1>1, <1>2, <1>3, <1>4
  <1> QED BY <1>5 DEF Over
-----------------------------------------------------------------------------
(* Jobs *)

\* What creating a Job does to the list of them.
LEMMA JobAppended ==
    ASSUME jobs \in Seq(Job), StepTyped, NEW r \in Runners, jobs' = Append(jobs, NewJob(r))
    PROVE  /\ jobs' \in Seq(Job) /\ Len(jobs') \in Nat \ {0} /\ Len(jobs') \in DOMAIN jobs'
           /\ DOMAIN jobs \subseteq DOMAIN jobs' /\ \A j \in DOMAIN jobs : jobs'[j] = jobs[j]
           /\ jobs'[Len(jobs')] = NewJob(r)
           /\ \A j \in DOMAIN jobs' : j \in DOMAIN jobs \/ j = Len(jobs')
  <1>1. NewJob(r) \in Job
    BY DEF NewJob, Job, StepTyped, StepTypeOK
  <1>2. /\ jobs' \in Seq(Job) /\ Len(jobs') = Len(jobs) + 1
        /\ \A j \in 1..Len(jobs) : jobs'[j] = jobs[j]
        /\ jobs'[Len(jobs) + 1] = NewJob(r)
    BY <1>1
  <1>3. DOMAIN jobs = 1..Len(jobs) /\ DOMAIN jobs' = 1..Len(jobs') /\ Len(jobs) \in Nat
    BY <1>2
  <1> QED BY <1>2, <1>3

\* What the environment does to a Job: never another one's state, never its
\* origin, and never one that is finished except to remove it.
LEMMA JobChanged ==
    ASSUME jobs \in Seq(Job), NEW j \in DOMAIN jobs,
           PodFails(j) \/ PodSucceeds(j) \/ Expires(j)
    PROVE  /\ jobs' \in Seq(Job) /\ DOMAIN jobs' = DOMAIN jobs
           /\ \A i \in DOMAIN jobs :
                /\ jobs'[i].by = jobs[i].by /\ jobs'[i].attempt = jobs[i].attempt
                /\ jobs[i].state # "running" => jobs'[i].state \in {jobs[i].state, "gone"}
  <1>1. jobs[j] \in Job
    OBVIOUS
  <1>2. PICK J \in Job :
          /\ jobs' = [jobs EXCEPT ![j] = J]
          /\ J.by = jobs[j].by /\ J.attempt = jobs[j].attempt
          /\ jobs[j].state # "running" => J.state = "gone"
    <2>1. CASE PodFails(j)
      <3> DEFINE to == IF jobs[j].failures < plan[jobs[j].by].backoff
                       THEN "running" ELSE "failed"
                 K == [jobs[j] EXCEPT !.failures = @ + 1]
                 J == [K EXCEPT !.state = to]
      <3>1. to \in {"running", "failed"}
        OBVIOUS
      <3>2. jobs' = [jobs EXCEPT ![j] = J] /\ jobs[j].state = "running"
        BY <2>1 DEF PodFails
      <3> HIDE DEF to
      <3>3. K \in Job /\ K.by = jobs[j].by /\ K.attempt = jobs[j].attempt
        BY <1>1 DEF Job
      <3>4. J \in Job /\ J.by = K.by /\ J.attempt = K.attempt
        BY <3>1, <3>3 DEF Job
      <3> QED BY <3>2, <3>3, <3>4
    <2>2. CASE PodSucceeds(j)
      <3> DEFINE J == [jobs[j] EXCEPT !.state = "succeeded"]
      <3>1. J \in Job /\ J.by = jobs[j].by /\ J.attempt = jobs[j].attempt
        BY <1>1 DEF Job
      <3>2. jobs' = [jobs EXCEPT ![j] = J] /\ jobs[j].state = "running"
        BY <2>2 DEF PodSucceeds
      <3> QED BY <3>1, <3>2
    <2>3. CASE Expires(j)
      <3> DEFINE J == [jobs[j] EXCEPT !.state = "gone"]
      <3>1. J \in Job /\ J.by = jobs[j].by /\ J.attempt = jobs[j].attempt /\ J.state = "gone"
        BY <1>1 DEF Job
      <3>2. jobs' = [jobs EXCEPT ![j] = J]
        BY <2>3 DEF Expires
      <3> QED BY <3>1, <3>2
    <2> QED BY <2>1, <2>2, <2>3
  <1> QED BY <1>1, <1>2

LEMMA TypedStep ==
    ASSUME Typed, [Next]_externalVars
    PROVE  Typed'
  <1>1. StepTyped' /\ plan' = plan
    BY OverStays DEF Typed
  <1>2. Busy \subseteq Runners
    BY BusyRunners DEF Typed, StepTyped
  <1>3. mode' = mode
    BY DEF Next, StepNext, Start, Skip, OutOfTime, Prepare, PrepareRefuses, Call, Unreachable,
           CallTimesOut, CreateJob, JobSucceeded, JobFailed, JobNotFound, VerifyExpires, TryAgain,
           Answered, CreateFails, ReadError, Death, Report, Edit, PodFails, PodSucceeds, Expires,
           externalVars
  <1>4. (Escalating => \A r \in Busy : plan[r].retries = 0 /\ ~plan[r].dryRun)'
    BY <1>1, <1>3 DEF Typed, Escalating, Busy
  <1>5. calling' \in [Runners -> BOOLEAN] /\ sent' \in [Runners -> Nat]
    <2> USE <1>2 DEF Typed
    <2>1. CASE \E r \in Busy : Call(r) \/ Answered(r) \/ CallTimesOut(r)
      <3>1. PICK r \in Busy : Call(r) \/ Answered(r) \/ CallTimesOut(r)
        BY <2>1
      <3>2. calling' = [calling EXCEPT ![r] = TRUE] \/ calling' = [calling EXCEPT ![r] = FALSE]
        BY <3>1 DEF Call, Answered, CallTimesOut
      <3>3. calling' \in [Runners -> BOOLEAN]
        BY <3>2
      <3>4. sent' = [sent EXCEPT ![r] = @ + 1] \/ sent' = sent
        BY <3>1 DEF Call, Answered, CallTimesOut
      <3>5. sent' \in [Runners -> Nat]
        <4>1. CASE sent' = sent
          BY <4>1
        <4>2. CASE sent' = [sent EXCEPT ![r] = @ + 1]
          BY <4>2
        <4> QED BY <3>4, <4>1, <4>2
      <3> QED BY <3>3, <3>5
    <2>2. CASE Death
      BY <2>2 DEF Death
    <2>3. CASE UNCHANGED <<calling, sent>>
      BY <2>3
    <2> QED BY <2>1, <2>2, <2>3
        DEF Next, StepNext, Start, Skip, OutOfTime, Prepare, PrepareRefuses, Unreachable,
            CreateJob, JobSucceeded, JobFailed, JobNotFound, VerifyExpires, TryAgain,
            CreateFails, ReadError, Report, Edit, PodFails, PodSucceeds, Expires,
            externalVars, callVars
  <1>6. jobs' \in Seq(Job) /\ mine' \in [Runners -> Nat]
    <2>1. CASE \E r \in Busy : CreateJob(r)
      BY <1>2, <2>1, JobAppended DEF CreateJob, Typed
    <2>2. CASE \E r \in Busy : CreateFails(r)
      BY <1>2, <2>2, JobAppended DEF CreateFails, Typed
    <2>3. CASE \E j \in DOMAIN jobs : PodFails(j) \/ PodSucceeds(j) \/ Expires(j)
      BY <2>3, JobChanged DEF PodFails, PodSucceeds, Expires, Typed
    <2>4. CASE \E r \in Busy : Start(r)
      BY <1>2, <2>4 DEF Start, Typed
    <2>5. CASE UNCHANGED <<jobs, mine>>
      BY <2>5 DEF Typed
    <2> QED BY <2>1, <2>2, <2>3, <2>4, <2>5
        DEF Next, StepNext, Skip, OutOfTime, Prepare, PrepareRefuses, Call, Unreachable,
            CallTimesOut, JobSucceeded, JobFailed, JobNotFound, VerifyExpires, TryAgain,
            Answered, ReadError, Death, Report, Edit, externalVars, jobVars
  <1>7. verdict' \in [Runners -> {"none", "succeeded", "failed"}]
    <2> USE <1>2 DEF Typed
    <2>1. CASE \E r \in Busy : Start(r) \/ JobSucceeded(r) \/ JobFailed(r)
      BY <2>1 DEF Start, JobSucceeded, JobFailed
    <2>2. CASE UNCHANGED verdict
      BY <2>2
    <2> QED BY <2>1, <2>2
        DEF Next, StepNext, Skip, OutOfTime, Prepare, PrepareRefuses, Call, Unreachable,
            CallTimesOut, CreateJob, JobNotFound, VerifyExpires, TryAgain, Answered,
            CreateFails, ReadError, Death, Report, Edit, PodFails, PodSucceeds, Expires,
            externalVars, jobVars
  <1> QED BY <1>1, <1>4, <1>5, <1>6, <1>7 DEF Typed
-----------------------------------------------------------------------------
(* Who changes what *)

\* Jobs are never forgotten, change hands or run again.
LEMMA JobsPersist ==
    ASSUME Typed, [Next]_externalVars
    PROVE  /\ DOMAIN jobs \subseteq DOMAIN jobs'
           /\ \A j \in DOMAIN jobs :
                /\ jobs'[j].by = jobs[j].by /\ jobs'[j].attempt = jobs[j].attempt
                /\ jobs[j].state # "running" => jobs'[j].state \in {jobs[j].state, "gone"}
  <1>0. Busy \subseteq Runners
    BY BusyRunners DEF Typed, StepTyped
  <1>1. CASE \E r \in Busy : CreateJob(r)
    BY <1>0, <1>1, JobAppended DEF CreateJob, Typed
  <1>2. CASE \E r \in Busy : CreateFails(r)
    BY <1>0, <1>2, JobAppended DEF CreateFails, Typed
  <1>3. CASE \E j \in DOMAIN jobs : PodFails(j) \/ PodSucceeds(j) \/ Expires(j)
    BY <1>3, JobChanged DEF Typed
  <1>4. CASE UNCHANGED jobs
    BY <1>4
  <1> QED BY <1>1, <1>2, <1>3, <1>4
      DEF Next, StepNext, Start, Skip, OutOfTime, Prepare, PrepareRefuses, Call, Unreachable,
          CallTimesOut, JobSucceeded, JobFailed, JobNotFound, VerifyExpires, TryAgain,
          Answered, ReadError, Death, Report, Edit, externalVars, jobVars

\* A worker leaves the steps of the others alone.
LEMMA OthersUntouched ==
    ASSUME Typed, NEW r \in Busy, Work(r), NEW q \in Busy \ {r}
    PROVE  /\ phase'[q] = phase[q] /\ attempt'[q] = attempt[q]
           /\ calling'[q] = calling[q] /\ sent'[q] = sent[q]
           /\ mine'[q] = mine[q] /\ verdict'[q] = verdict[q]
           /\ \A j \in DOMAIN jobs' \ DOMAIN jobs : jobs'[j].by = r
  <1>0. q \in Runners /\ r \in Runners
    BY BusyRunners DEF Typed, StepTyped
  <1>1. phase'[q] = phase[q] /\ attempt'[q] = attempt[q]
    BY <1>0, WorkFrame DEF Typed
  <1>2. \/ calling' = [calling EXCEPT ![r] = TRUE] \/ calling' = [calling EXCEPT ![r] = FALSE]
        \/ calling' = calling
    BY DEF Work, StepNext, Start, Skip, OutOfTime, Prepare, PrepareRefuses, Call, Unreachable,
           CallTimesOut, CreateJob, JobSucceeded, JobFailed, JobNotFound, VerifyExpires, TryAgain,
           Answered, CreateFails, ReadError, callVars
  <1>3. sent' = [sent EXCEPT ![r] = @ + 1] \/ sent' = sent
    BY DEF Work, StepNext, Start, Skip, OutOfTime, Prepare, PrepareRefuses, Call, Unreachable,
           CallTimesOut, CreateJob, JobSucceeded, JobFailed, JobNotFound, VerifyExpires, TryAgain,
           Answered, CreateFails, ReadError, callVars
  <1>4. (\E n : mine' = [mine EXCEPT ![r] = n]) \/ mine' = mine
    BY DEF Work, StepNext, Start, Skip, OutOfTime, Prepare, PrepareRefuses, Call, Unreachable,
           CallTimesOut, CreateJob, JobSucceeded, JobFailed, JobNotFound, VerifyExpires, TryAgain,
           Answered, CreateFails, ReadError, jobVars
  <1>5. (\E v : verdict' = [verdict EXCEPT ![r] = v]) \/ verdict' = verdict
    BY DEF Work, StepNext, Start, Skip, OutOfTime, Prepare, PrepareRefuses, Call, Unreachable,
           CallTimesOut, CreateJob, JobSucceeded, JobFailed, JobNotFound, VerifyExpires, TryAgain,
           Answered, CreateFails, ReadError, jobVars
  <1>6. jobs' = Append(jobs, NewJob(r)) \/ jobs' = jobs
    BY DEF Work, StepNext, Start, Skip, OutOfTime, Prepare, PrepareRefuses, Call, Unreachable,
           CallTimesOut, CreateJob, JobSucceeded, JobFailed, JobNotFound, VerifyExpires, TryAgain,
           Answered, CreateFails, ReadError, jobVars
  <1>7. \A j \in DOMAIN jobs' \ DOMAIN jobs : jobs'[j].by = r
    BY <1>0, <1>6, JobAppended DEF Typed, NewJob
  <1>8. calling'[q] = calling[q] /\ sent'[q] = sent[q] /\ mine'[q] = mine[q]
        /\ verdict'[q] = verdict[q]
    BY <1>0, <1>2, <1>3, <1>4, <1>5 DEF Typed
  <1> QED BY <1>1, <1>7, <1>8
-----------------------------------------------------------------------------
(* Ownership of Jobs *)

LEMMA OwnedStays ==
    ASSUME Typed, NEW q \in Busy, Owned(q), [Next]_externalVars,
           mine'[q] = mine[q], verdict'[q] = verdict[q], attempt'[q] = attempt[q],
           phase'[q] \in Working => phase[q] \in Working,
           phase'[q] = "verifying" => phase[q] = "verifying"
    PROVE  Owned(q)'
  <1>1. verdict[q] \in {"none", "succeeded", "failed"}
    BY BusyRunners DEF Typed, StepTyped
  <1>2. mine[q] # 0 => /\ mine[q] \in DOMAIN jobs'
                       /\ jobs'[mine[q]].by = q /\ jobs'[mine[q]].attempt = attempt[q]
    BY JobsPersist DEF Owned
  <1>3. ASSUME verdict[q] # "none"
        PROVE  mine[q] # 0 /\ jobs'[mine[q]].state \in {verdict[q], "gone"}
    <2>1. mine[q] \in DOMAIN jobs /\ mine[q] # 0 /\ jobs[mine[q]].state \in {verdict[q], "gone"}
      BY <1>3 DEF Owned
    <2>2. jobs[mine[q]].state # "running"
      BY <1>1, <1>3, <2>1
    <2>3. jobs'[mine[q]].state \in {jobs[mine[q]].state, "gone"}
      BY <2>1, <2>2, JobsPersist
    <2> QED BY <2>1, <2>3
  <1> QED BY <1>2, <1>3 DEF Owned

LEMMA OwnedStep ==
    ASSUME Typed, \A r \in Busy : Owned(r), [Next]_externalVars
    PROVE  \A r \in Busy : Owned(r)'
  <1> SUFFICES ASSUME NEW q \in Busy
               PROVE  Owned(q)'
    OBVIOUS
  <1>0. q \in Runners /\ Owned(q)
    BY BusyRunners DEF Typed, StepTyped
  <1> USE DEF Typed, Goes, StepTyped, StepTypeOK
  <1>1. CASE \E r \in Busy \ {q} : Work(r)
    <2>1. PICK r \in Busy \ {q} : Work(r)
      BY <1>1
    <2>2. /\ phase'[q] = phase[q] /\ attempt'[q] = attempt[q]
          /\ mine'[q] = mine[q] /\ verdict'[q] = verdict[q]
      BY <2>1, OthersUntouched
    <2> HIDE DEF Typed, StepTyped
    <2> QED BY <1>0, <2>2, OwnedStays
  <1>2. CASE Start(q)
    BY <1>2, <1>0 DEF Start, Begin, Owned, Working
  <1>3. CASE CreateJob(q)
    <2>1. verdict[q] = "none" /\ verdict' = verdict
      BY <1>3, <1>0 DEF CreateJob, Owned, Working
    <2>2. mine'[q] = Len(jobs') /\ jobs' = Append(jobs, NewJob(q)) /\ attempt' = attempt
      BY <1>3, <1>0 DEF CreateJob, Executed
    <2>3. Len(jobs') # 0 /\ Len(jobs') \in DOMAIN jobs' /\ jobs'[Len(jobs')] = NewJob(q)
      BY <1>0, <2>2, JobAppended
    <2> QED BY <2>1, <2>2, <2>3 DEF Owned, NewJob
  <1>4. CASE JobSucceeded(q)
    <2>1. mine[q] # 0 /\ jobs[mine[q]].state = "succeeded" /\ UNCHANGED <<jobs, mine, attempt>>
      BY <1>4, <1>0 DEF JobSucceeded, VerifiedJobs, Owned, Verified
    <2>2. phase'[q] = "succeeded" /\ verdict'[q] = "succeeded"
      BY <1>4, <1>0 DEF JobSucceeded, Verified
    <2> QED BY <1>0, <2>1, <2>2 DEF Owned, Working
  <1>5. CASE JobFailed(q)
    <2>1. mine[q] # 0 /\ jobs[mine[q]].state = "failed" /\ UNCHANGED <<jobs, mine, attempt>>
      BY <1>5, <1>0 DEF JobFailed, VerifiedJobs, FailedForGood, Owned, VerifyTimesOut
    <2>2. phase'[q] = "failed" /\ verdict'[q] = "failed"
      BY <1>5, <1>0 DEF JobFailed, VerifyTimesOut
    <2> QED BY <1>0, <2>1, <2>2 DEF Owned, Working
  <1>6. CASE \/ Skip(q) \/ OutOfTime(q) \/ TryAgain(q) \/ ReadError(q)
    <2>1. /\ UNCHANGED <<mine, verdict, attempt>>
          /\ phase'[q] \notin Working
      BY <1>6, <1>0 DEF Skip, OutOfTime, TryAgain, Retry, ReadError, ReadFails, jobVars, Working
    <2> QED BY <1>0, <2>1, OwnedStays DEF Working
  <1>7. CASE Prepare(q) \/ PrepareRefuses(q) \/ Call(q) \/ Unreachable(q) \/ CallTimesOut(q)
    <2>1. /\ UNCHANGED <<mine, verdict, attempt>>
          /\ phase[q] \in Working /\ phase'[q] # "verifying"
      BY <1>7, <1>0 DEF Prepare, PrepareRefuses, Call, Unreachable, CallTimesOut, Planned,
                        Refused, WriteRefused, jobVars, Working, stepVars
    <2> QED BY <1>0, <2>1, OwnedStays DEF Working
  <1>8. CASE JobNotFound(q) \/ VerifyExpires(q) \/ Answered(q) \/ CreateFails(q)
    <2>1. /\ UNCHANGED <<mine, verdict, attempt>>
          /\ phase[q] \in Working /\ phase'[q] # "verifying"
      BY <1>8, <1>0 DEF JobNotFound, VerifyExpires, Answered, CreateFails, VerifyTimesOut,
                        Executed, WriteRefused, WriteFails, jobVars, Working
    <2> QED BY <1>0, <2>1, OwnedStays DEF Working
  <1>9. CASE Death
    <2>1. /\ UNCHANGED <<mine, verdict, attempt>> /\ phase'[q] \notin Working
      BY <1>9, <1>0 DEF Death, Die, jobVars, Working
    <2> QED BY <1>0, <2>1, OwnedStays DEF Working
  <1>10. CASE UNCHANGED <<phase, attempt, mine, verdict>>
    BY <1>0, <1>10, OwnedStays
  <1> QED BY <1>1, <1>2, <1>3, <1>4, <1>5, <1>6, <1>7, <1>8, <1>9, <1>10
      DEF Next, Work, StepNext, Report, Edit, PodFails, PodSucceeds, Expires, externalVars,
          stepVars, jobVars
-----------------------------------------------------------------------------
(* Requests *)

\* A step that has stopped, or not begun, keeps its count of requests.
LEMMA CountedStays ==
    ASSUME Typed, NEW q \in Busy, Counted(q), plan' = plan, ~calling'[q],
           phase'[q] \in {"failed", "pending", "skipped", "interrupted"},
           sent'[q] = sent[q], attempt'[q] = attempt[q]
    PROVE  Counted(q)'
  BY DEF Counted

LEMMA CountedStep ==
    ASSUME Typed, \A r \in Busy : Counted(r), [Next]_externalVars
    PROVE  \A r \in Busy : Counted(r)'
  <1> SUFFICES ASSUME NEW q \in Busy
               PROVE  Counted(q)'
    OBVIOUS
  <1>0. /\ q \in Runners /\ Counted(q) /\ plan' = plan
        /\ sent[q] \in Nat /\ attempt[q] \in Nat /\ calling[q] \in BOOLEAN
    BY BusyRunners, OverStays DEF Typed, StepTyped, StepTypeOK
  <1>a. /\ phase \in [Runners -> Phases] /\ attempt \in [Runners -> Nat]
        /\ calling \in [Runners -> BOOLEAN] /\ sent \in [Runners -> Nat]
        /\ verdict \in [Runners -> {"none", "succeeded", "failed"}]
    BY DEF Typed, StepTyped, StepTypeOK
  <1> USE DEF Goes
  <1>1. CASE \E r \in Busy \ {q} : Work(r)
    <2>1. PICK r \in Busy \ {q} : Work(r)
      BY <1>1
    <2>2. /\ phase'[q] = phase[q] /\ attempt'[q] = attempt[q] /\ calling'[q] = calling[q]
          /\ sent'[q] = sent[q] /\ verdict'[q] = verdict[q]
      BY <2>1, OthersUntouched
    <2> QED BY <1>0, <2>2 DEF Counted, IsJob
  <1>2. CASE Start(q)
    <2>1. /\ phase[q] = "pending" /\ phase'[q] \in {"checking", "failed"}
          /\ attempt'[q] = attempt[q] + 1 /\ calling' = calling /\ sent' = sent
      BY <1>2, <1>0, <1>a DEF Start, Begin, callVars
    <2> QED BY <1>0, <2>1 DEF Counted
  <1>3. CASE Skip(q) \/ OutOfTime(q) \/ TryAgain(q) \/ PrepareRefuses(q)
    <2>1. /\ phase'[q] \in {"failed", "pending", "skipped"} /\ attempt' = attempt
          /\ sent' = sent /\ calling' = calling
      BY <1>3, <1>0, <1>a DEF Skip, OutOfTime, TryAgain, Retry, PrepareRefuses, Refused, callVars
    <2>2. ~calling[q]
      BY <1>3, <1>0 DEF Counted, Skip, OutOfTime, TryAgain, Retry, PrepareRefuses, Refused
    <2> QED BY <1>0, <2>1, <2>2, CountedStays
  <1>4. CASE Unreachable(q) \/ CreateFails(q) \/ ReadError(q)
    <2>1. phase'[q] = "failed" /\ attempt' = attempt /\ sent' = sent /\ calling' = calling
      BY <1>4, <1>0, <1>a DEF Unreachable, WriteRefused, CreateFails, WriteFails, ReadError,
         ReadFails, callVars
    <2>2. ~calling[q]
      BY <1>4, <1>0 DEF Counted, Unreachable, CreateFails, ReadError, ReadFails
    <2> QED BY <1>0, <2>1, <2>2, CountedStays
  <1>5. CASE JobFailed(q) \/ JobNotFound(q) \/ VerifyExpires(q)
    <2>1. /\ phase[q] = "verifying" /\ phase'[q] = "failed" /\ attempt' = attempt
          /\ sent' = sent /\ calling' = calling
      BY <1>5, <1>0, <1>a DEF JobFailed, JobNotFound, VerifyExpires, VerifyTimesOut, callVars
    <2> QED BY <1>0, <2>1, CountedStays DEF Counted
  <1>6. CASE Prepare(q)
    <2>1. /\ phase[q] = "checking" /\ attempt' = attempt /\ sent' = sent /\ calling' = calling
          /\ phase'[q] = IF plan[q].dryRun THEN "simulated" ELSE "writing"
      BY <1>6, <1>0, <1>a DEF Prepare, Planned, callVars
    <2> QED BY <1>0, <2>1 DEF Counted
  <1>7. CASE Call(q)
    <2>1. /\ phase[q] = "writing" /\ phase' = phase /\ attempt' = attempt /\ ~IsJob(q)
          /\ ~calling[q] /\ calling'[q] = TRUE /\ sent'[q] = sent[q] + 1
      BY <1>7, <1>0, <1>a DEF Call, stepVars
    <2> QED BY <1>0, <2>1 DEF Counted, IsJob
  <1>8. CASE Answered(q) \/ CallTimesOut(q)
    <2>1. /\ calling[q] /\ ~calling'[q] /\ phase'[q] \in {"succeeded", "failed"}
          /\ attempt' = attempt /\ sent' = sent
      BY <1>8, <1>0, <1>a DEF Answered, CallTimesOut, Executed, WriteRefused
    <2> QED BY <1>0, <2>1 DEF Counted, IsJob
  <1>9. CASE CreateJob(q)
    <2>1. /\ IsJob(q) /\ phase[q] = "writing" /\ phase'[q] \in {"verifying", "failed"}
          /\ attempt' = attempt /\ sent' = sent /\ calling' = calling
      BY <1>9, <1>0, <1>a DEF CreateJob, Executed
    <2> QED BY <1>0, <2>1 DEF Counted, IsJob
  <1>10. CASE JobSucceeded(q)
    <2>1. /\ phase[q] = "verifying" /\ phase'[q] = "succeeded" /\ verdict'[q] = "succeeded"
          /\ attempt' = attempt /\ sent' = sent /\ calling' = calling
      BY <1>10, <1>0, <1>a DEF JobSucceeded, Verified, callVars
    <2> QED BY <1>0, <2>1 DEF Counted, IsJob
  <1>11. CASE Death
    <2>1. /\ ~calling'[q] /\ attempt' = attempt /\ sent' = sent /\ verdict' = verdict
          /\ phase'[q] = IF phase[q] \in Working THEN "interrupted" ELSE phase[q]
      BY <1>11, <1>0, <1>a DEF Death, Die, jobVars
    <2> QED BY <1>0, <2>1 DEF Counted, IsJob, Working
  <1>12. CASE UNCHANGED <<phase, attempt, calling, sent, verdict>>
    BY <1>0, <1>12 DEF Counted, IsJob
  <1> QED BY <1>1, <1>2, <1>3, <1>4, <1>5, <1>6, <1>7, <1>8, <1>9, <1>10, <1>11, <1>12
      DEF Next, Work, StepNext, Report, Edit, PodFails, PodSucceeds, Expires, externalVars,
          stepVars, callVars, jobVars
-----------------------------------------------------------------------------
(* The order of the channels *)

\* What a channel that has not begun may do.
LEMMA Untouched ==
    ASSUME Typed, NEW q \in Busy, Counted(q), phase[q] \in {"pending", "skipped"},
           [Next]_externalVars
    PROVE  \/ Start(q)
           \/ /\ attempt'[q] = attempt[q] /\ sent'[q] = sent[q]
              /\ phase'[q] = phase[q] \/ (Skip(q) /\ phase'[q] = "skipped")
              /\ (\A j \in DOMAIN jobs : jobs[j].by # q) => \A j \in DOMAIN jobs' : jobs'[j].by # q
  <1>0. q \in Runners /\ ~calling[q] /\ phase \in [Runners -> Phases]
    BY BusyRunners DEF Typed, StepTyped, StepTypeOK, Counted
  <1>1. CASE \E r \in Busy \ {q} : Work(r)
    <2>1. PICK r \in Busy \ {q} : Work(r)
      BY <1>1
    <2> QED BY <2>1, OthersUntouched, JobsPersist
  <1>2. CASE Work(q)
    <2>1. Start(q) \/ Skip(q)
      BY <1>0, <1>2 DEF Work, StepNext, OutOfTime, Prepare, PrepareRefuses, Call, Unreachable,
         CallTimesOut, CreateJob, JobSucceeded, JobFailed, JobNotFound, VerifyExpires, TryAgain,
         Answered, CreateFails, ReadError, Planned, Refused, WriteFails, ReadFails, Retry, Goes,
         Working
    <2>2. Skip(q) => /\ attempt' = attempt /\ sent' = sent /\ jobs' = jobs /\ phase'[q] = "skipped"
      BY <1>0 DEF Skip, Goes, callVars, jobVars
    <2> QED BY <2>1, <2>2
  <1>3. CASE \E j \in DOMAIN jobs : PodFails(j) \/ PodSucceeds(j) \/ Expires(j)
    <2>1. UNCHANGED <<phase, attempt, sent>> /\ DOMAIN jobs' = DOMAIN jobs
      BY <1>3, JobChanged DEF PodFails, PodSucceeds, Expires, stepVars, callVars, Typed
    <2> QED BY <2>1, JobsPersist
  <1>4. CASE Death
    BY <1>0, <1>4 DEF Death, Die, Working, jobVars
  <1>5. CASE UNCHANGED <<phase, attempt, sent, jobs>>
    BY <1>5
  <1> QED BY <1>1, <1>2, <1>3, <1>4, <1>5
      DEF Next, Work, Report, Edit, externalVars, stepVars, callVars, jobVars

LEMMA AttemptsBegin ==
    ASSUME Typed, NEW q \in Busy, [Next]_externalVars
    PROVE  /\ attempt'[q] # attempt[q] => Start(q)
           /\ phase'[q] = "skipped" => phase[q] = "skipped" \/ Skip(q)
           /\ mode' = mode
  <1>0. q \in Runners /\ phase \in [Runners -> Phases]
    BY BusyRunners DEF Typed, StepTyped, StepTypeOK
  <1>1. CASE \E r \in Busy \ {q} : Work(r)
    <2>1. PICK r \in Busy \ {q} : Work(r)
      BY <1>1
    <2>2. mode' = mode
      BY <2>1 DEF Work, StepNext, Start, Skip, OutOfTime, Prepare, PrepareRefuses, Call,
         Unreachable, CallTimesOut, CreateJob, JobSucceeded, JobFailed, JobNotFound,
         VerifyExpires, TryAgain, Answered, CreateFails, ReadError
    <2> QED BY <2>1, <2>2, OthersUntouched
  <1>2. CASE Work(q)
    <2>1. CASE Start(q)
      BY <1>0, <2>1 DEF Start, Begin, Goes
    <2>2. CASE Skip(q)
      BY <2>2 DEF Skip
    <2>3. CASE OutOfTime(q) \/ Prepare(q) \/ PrepareRefuses(q) \/ Call(q) \/ Unreachable(q)
               \/ CallTimesOut(q) \/ CreateJob(q)
      BY <1>0, <2>3 DEF OutOfTime, Prepare, PrepareRefuses, Call, Unreachable, CallTimesOut,
         CreateJob, Planned, Refused, WriteRefused, Executed, Goes, stepVars
    <2>4. CASE JobSucceeded(q) \/ JobFailed(q) \/ JobNotFound(q) \/ VerifyExpires(q)
               \/ TryAgain(q) \/ Answered(q) \/ CreateFails(q) \/ ReadError(q)
      BY <1>0, <2>4 DEF JobSucceeded, JobFailed, JobNotFound, VerifyExpires, TryAgain, Answered,
         CreateFails, ReadError, Verified, VerifyTimesOut, Retry, Executed, WriteRefused,
         WriteFails, ReadFails, Goes
    <2> QED BY <1>2, <2>1, <2>2, <2>3, <2>4 DEF Work, StepNext
  <1>3. CASE Death
    BY <1>0, <1>3 DEF Death, Die
  <1>4. CASE UNCHANGED <<phase, attempt, mode>>
    BY <1>4
  <1> QED BY <1>1, <1>2, <1>3, <1>4
      DEF Next, Work, Report, Edit, PodFails, PodSucceeds, Expires, externalVars, stepVars

LEMMA OrderedStep ==
    ASSUME Typed, \A r \in Busy : Counted(r) /\ Ordered(r), [Next]_externalVars
    PROVE  \A r \in Busy : Ordered(r)'
  <1> SUFFICES ASSUME NEW q \in Busy
               PROVE  Ordered(q)'
    OBVIOUS
  <1>1. /\ Ordered(q) /\ Counted(q) /\ plan' = plan /\ Busy' = Busy /\ Before(q)' = Before(q)
        /\ \A e \in Before(q) : e \in Busy /\ (Over(e) => Over(e)' /\ phase'[e] = phase[e])
        /\ attempt[q] \in Nat /\ attempt'[q] >= attempt[q] /\ attempt'[q] \in Nat
    BY BusyRunners, OverStays DEF Typed, StepTyped, StepTypeOK, Before, Busy
  <1>2. ASSUME attempt'[q] = 0
        PROVE  /\ sent'[q] = 0 /\ phase'[q] \in {"pending", "skipped"}
               /\ \A j \in DOMAIN jobs' : jobs'[j].by # q
    <2>1. attempt[q] = 0
      BY <1>1, <1>2
    <2>2. ~Start(q)
      <3>1. q \in Runners /\ attempt \in [Runners -> Nat]
        BY BusyRunners DEF Typed, StepTyped, StepTypeOK
      <3> QED BY <1>2, <2>1, <3>1 DEF Start, Begin
    <2> QED BY <1>1, <2>1, <2>2, Untouched DEF Ordered
  <1>3. ASSUME Escalating', attempt'[q] > 0, NEW e \in Before(q)
        PROVE  Over(e)' /\ ~(mode = "firstSuccess" /\ phase'[e] = "succeeded")
    <2>0. Escalating
      BY <1>3, AttemptsBegin DEF Escalating
    <2>1. Over(e) /\ ~(mode = "firstSuccess" /\ phase[e] = "succeeded")
      <3>1. CASE attempt[q] > 0
        BY <1>1, <2>0, <3>1 DEF Ordered
      <3>2. CASE attempt[q] = 0
        <4>1. Start(q)
          BY <1>1, <1>3, <3>2, AttemptsBegin
        <4> QED BY <2>0, <4>1 DEF Start, Delivered
      <3> QED BY <1>1, <3>1, <3>2
    <2> QED BY <1>1, <2>1
  <1>4. ASSUME phase'[q] = "skipped"
        PROVE  \E e \in Before(q) : phase'[e] = "succeeded"
    <2>1. Delivered(q)
      BY <1>1, <1>4, AttemptsBegin DEF Ordered, Skip
    <2>2. PICK e \in Before(q) : phase[e] = "succeeded"
      BY <2>1 DEF Delivered
    <2>3. Over(e)
      BY <2>2 DEF Over, Ended
    <2> QED BY <1>1, <2>2, <2>3
  <1>5. mode' = mode
    BY AttemptsBegin
  <1> QED BY <1>1, <1>2, <1>3, <1>4, <1>5 DEF Ordered, Delivered
-----------------------------------------------------------------------------
(* The report *)

LEMMA ReportedStep ==
    ASSUME Inv, [Next]_externalVars
    PROVE  Reported'
  <1>0. /\ Typed /\ Reported /\ plan' = plan /\ Busy' = Busy
        /\ \A e \in Busy : Over(e) => Over(e)' /\ phase'[e] = phase[e]
    BY OverStays DEF Inv, Typed, Busy
  <1>1. mode' = mode
    BY <1>0 DEF Next, StepNext, Start, Skip, OutOfTime, Prepare, PrepareRefuses, Call, Unreachable,
       CallTimesOut, CreateJob, JobSucceeded, JobFailed, JobNotFound, VerifyExpires, TryAgain,
       Answered, CreateFails, ReadError, Death, Report, Edit, PodFails, PodSucceeds, Expires,
       externalVars
  <1>2. CASE report' = report
    BY <1>0, <1>1, <1>2 DEF Reported, Escalating
  <1>3. CASE Report
    <2>1. /\ Escalating /\ phase' = phase /\ attempt' = attempt
          /\ \A r \in Busy : Over(r) /\ phase[r] # "interrupted"
          /\ report' = IF SomebodyWasTold THEN "succeeded" ELSE "failed"
      BY <1>3 DEF Report, stepVars
    <2>2. ASSUME ~SomebodyWasTold, NEW r \in Busy
          PROVE  phase[r] = "failed"
      <3>1. phase[r] \notin {"succeeded", "interrupted"} /\ Over(r)
        BY <2>1, <2>2 DEF SomebodyWasTold
      <3>2. phase[r] # "skipped"
        BY <2>2 DEF Inv, Ordered, Delivered, Before, SomebodyWasTold
      <3>3. phase[r] # "simulated"
        BY <1>0, <2>1 DEF Inv, Typed, Counted
      <3> QED BY <3>1, <3>2, <3>3 DEF Over, Ended
    <2> QED BY <1>0, <1>1, <2>1, <2>2 DEF Reported, SomebodyWasTold, Escalating
  <1> QED BY <1>2, <1>3
      DEF Next, StepNext, Start, Skip, OutOfTime, Prepare, PrepareRefuses, Call, Unreachable,
          CallTimesOut, CreateJob, JobSucceeded, JobFailed, JobNotFound, VerifyExpires, TryAgain,
          Answered, CreateFails, ReadError, Death, Edit, PodFails, PodSucceeds, Expires,
          externalVars
-----------------------------------------------------------------------------
LEMMA InvInit ==
    ASSUME Init
    PROVE  Inv
  <1>1. StepTyped /\ Busy \subseteq Runners
    BY StepTypedInit, BusyRunners DEF Init, StepTyped
  <1>2. jobs = <<>> /\ jobs \in Seq(Job) /\ DOMAIN jobs = {}
    BY DEF Init
  <1>3. Typed
    BY <1>1, <1>2 DEF Init, Typed
  <1>4. \A r \in Busy : /\ phase[r] = "pending" /\ attempt[r] = 0 /\ sent[r] = 0 /\ ~calling[r]
                        /\ mine[r] = 0 /\ verdict[r] = "none"
    BY <1>1 DEF Init, StepInit
  <1>5. Reported
    BY DEF Init, Reported
  <1> QED BY <1>2, <1>3, <1>4, <1>5 DEF Inv, Owned, Counted, Ordered, Working

LEMMA InvStep ==
    ASSUME Inv, [Next]_externalVars
    PROVE  Inv'
  <1>1. plan' = plan
    BY OverStays DEF Inv, Typed
  <1> QED BY <1>1, TypedStep, OwnedStep, CountedStep, OrderedStep, ReportedStep DEF Inv, Busy

LEMMA Invariance == Spec => []Inv
  <1>1. Init => Inv
    BY InvInit
  <1>2. Inv /\ [Next]_externalVars => Inv'
    BY InvStep
  <1> QED BY <1>1, <1>2, PTL DEF Spec

\* What a job.run or script.run step records is about the very Job its last
\* attempt created, for any number of steps, attempts and Jobs and whatever
\* fails on the way (JobRun.Execute, JobRun.Verify, failedForGood).
THEOREM VerdictOfOwnJob == Spec => []JobVerdictIsItsOwn
  <1>1. Inv => JobVerdictIsItsOwn
    BY DEF Inv, Owned, JobVerdictIsItsOwn
  <1> QED BY <1>1, Invariance, PTL

\* An ordered fallback of any length contacts nobody after the channel that
\* got through, and leaves out a channel for no other reason (runChannels).
THEOREM FallbackStops == Spec => []FallbackStopsOnceDelivered
  <1>1. Inv => FallbackStopsOnceDelivered
    <2> SUFFICES ASSUME Inv, mode # "steps", NEW e \in Busy, NEW r \in Busy, e < r
                 PROVE  /\ (mode = "firstSuccess" /\ phase[e] = "succeeded")
                             => sent[r] = 0 /\ JobsOf(r) = {}
                        /\ phase[r] = "skipped" => Delivered(r)
      BY DEF FallbackStopsOnceDelivered
    <2>1. Ordered(r) /\ e \in Before(r) /\ attempt[r] \in Nat
      BY BusyRunners DEF Inv, Typed, StepTyped, StepTypeOK, Before
    <2>2. ASSUME mode = "firstSuccess", phase[e] = "succeeded"
          PROVE  sent[r] = 0 /\ JobsOf(r) = {}
      <3>1. attempt[r] = 0
        BY <2>1, <2>2 DEF Ordered, Escalating
      <3> QED BY <2>1, <3>1 DEF Ordered, JobsOf
    <2> QED BY <2>1, <2>2 DEF Ordered
  <1> QED BY <1>1, Invariance, PTL

\* An escalation is recorded as Succeeded exactly when a channel got through,
\* for any list of channels and any deadline (escalate).
THEOREM ReportHolds == Spec => []ReportIsTrue
  <1>1. Inv => ReportIsTrue
    <2> SUFFICES ASSUME Inv
                 PROVE  ReportIsTrue
      OBVIOUS
    <2>1. ASSUME report = "succeeded"
          PROVE  \E r \in Busy : IF IsJob(r) THEN verdict[r] = "succeeded"
                                 ELSE phase[r] = "succeeded" /\ sent[r] = 1
      <3>1. PICK r \in Busy : phase[r] = "succeeded"
        BY <2>1 DEF Inv, Reported
      <3>2. Counted(r) /\ plan[r].retries = 0
        BY <2>1 DEF Inv, Reported, Typed
      <3>3. attempt[r] <= plan[r].retries + 1 /\ attempt[r] \in Nat /\ sent[r] \in Nat
        BY BusyRunners DEF Inv, Typed, StepTyped, StepTypeOK
      <3>4. ~IsJob(r) => sent[r] = 1
        BY <3>1, <3>2, <3>3 DEF Counted
      <3> QED BY <3>1, <3>2, <3>4 DEF Counted
    <2> QED BY <2>1 DEF Inv, Reported, ReportIsTrue
  <1> QED BY <1>1, Invariance, PTL
=============================================================================

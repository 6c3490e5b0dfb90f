-------------------------- MODULE ExternalActions --------------------------
(***************************************************************************)
(* The actions that hand the incident to something else: webhook.call        *)
(* (external/webhook.go), job.run and script.run (external/job.go, logs.go), *)
(* as steps of a plan, run by StepRunner, and as the channels of an          *)
(* escalation (engine/escalation.go), which runs them one after the other    *)
(* under one deadline for all.                                               *)
(*                                                                         *)
(* An endpoint may answer, refuse, hang, or act on a request whose answer is *)
(* lost; a Job's pod may fail and be tried again by its controller, and a    *)
(* finished Job is removed after its time to live.                           *)
(***************************************************************************)
EXTENDS StepRunner, Sequences

CONSTANTS
    Modes,        \* how the plans are run: "steps", "all", "firstSuccess"
    Deadline,     \* EscalationTimeout, in units of time
    MaxEdits      \* bound: Secrets and ConfigMaps removed by people

Actions == {"webhook.call", "job.run", "script.run"}

ASSUME ExternalAssumption ==
    /\ Modes \subseteq {"steps", "all", "firstSuccess"} /\ Modes # {}
    /\ Runners \subseteq Nat /\ Deadline \in Nat \ {0} /\ MaxEdits \in Nat
    /\ \A f \in Plans : \A r \in DOMAIN f :
         LET p == f[r]
         IN  /\ p.action \in Actions
             /\ p.paramOK \in BOOLEAN  \* everything prepare validates without reading
             /\ p.uses \in BOOLEAN     \* a Secret, or a ConfigMap, must be read
             /\ p.timeout \in Nat \ {0} \* of the call, or of the verification
             /\ p.backoff \in Nat      \* the Job's backoffLimit

VARIABLES
    mode,     \* an escalation's mode, or "steps" for steps of their own
    left,     \* an escalation: time left before its deadline
    stored,   \* the Secret or ConfigMap is there
    calling,  \* calling[r]: a request is under way
    sent,     \* sent[r]: requests that reached r's endpoint
    tried,    \* history: those that have made their request, even in vain
    jobs,     \* Jobs ever created: by which attempt of whom, and their state
    mine,     \* mine[r]: the Job the attempt recorded, zero if none
    verdict,  \* history: verdict[r]: what Verify said of the Job
    report,   \* the escalation's phase: "none" until it is over
    edits     \* changes by people so far

callVars == <<calling, sent, tried>>
jobVars == <<jobs, mine, verdict>>
externalVars == <<stepVars, mode, left, stored, callVars, jobVars, report, edits>>

Escalating == mode # "steps"

\* The channels of an escalation are not retried and never a dry run.
Init ==
    /\ StepInit
    /\ mode \in Modes
    /\ Escalating => \A r \in Busy : plan[r].retries = 0 /\ ~plan[r].dryRun
    /\ left = Deadline
    /\ stored = TRUE
    /\ calling = [r \in Runners |-> FALSE]
    /\ sent = [r \in Runners |-> 0]
    /\ tried = {}
    /\ jobs = <<>>
    /\ mine = [r \in Runners |-> 0]
    /\ verdict = [r \in Runners |-> "none"]
    /\ report = "none"
    /\ edits = 0

IsJob(r) == plan[r].action # "webhook.call"
-----------------------------------------------------------------------------
(* An escalation takes its channels in order; steps of their own do not wait *)
(* for one another here.                                                     *)

Before(r) == {e \in Busy : e < r}

\* The process that runs the channels is still the same.
Alive == \A e \in Busy : phase[e] # "interrupted"

Delivered(r) == \E e \in Before(r) : phase[e] = "succeeded"

\* runChannels, firstSuccess: an earlier channel reached somebody.
Skip(r) ==
    /\ mode = "firstSuccess" /\ Alive
    /\ \A e \in Before(r) : Over(e)
    /\ Delivered(r)
    /\ Goes(r, "pending", "skipped")
    /\ UNCHANGED <<plan, attempt, faults, mode, left, stored, callVars, jobVars, report, edits>>

\* Mutant: the mode is not consulted.
StartAnyway(r) ==
    /\ Alive /\ (Escalating => \A e \in Before(r) : Over(e))
    /\ Begin(r)
    /\ mine' = [mine EXCEPT ![r] = 0]
    /\ verdict' = [verdict EXCEPT ![r] = "none"]
    /\ UNCHANGED <<mode, left, stored, callVars, jobs, report, edits>>

\* StepRunner.Step for the next channel, whatever the ones before came to; or
\* an attempt of a step.
Start(r) ==
    /\ Alive /\ (Escalating => \A e \in Before(r) : Over(e))
    /\ ~(mode = "firstSuccess" /\ Delivered(r))
    /\ Begin(r)
    /\ mine' = [mine EXCEPT ![r] = 0]
    /\ verdict' = [verdict EXCEPT ![r] = "none"]
    /\ UNCHANGED <<mode, left, stored, callVars, jobs, report, edits>>

InTime == Escalating => left > 0

\* The shared deadline has passed: every call fails at once, unsent.
OutOfTime(r) ==
    /\ ~InTime /\ phase[r] \in Working /\ ~calling[r]
    /\ phase' = [phase EXCEPT ![r] = "failed"]
    /\ UNCHANGED <<plan, attempt, faults, mode, left, stored, callVars, jobVars, report, edits>>

\* A call that lasts d takes that from the escalation's time.
Spend(d) == left' = IF Escalating THEN (IF d > left THEN 0 ELSE left - d) ELSE left
-----------------------------------------------------------------------------
(* prepare, for Plan and Execute alike.                                      *)

Prepared(r) == plan[r].paramOK /\ (plan[r].uses => stored)

Prepare(r) ==
    /\ InTime /\ Prepared(r)
    /\ Planned(r)
    /\ UNCHANGED <<mode, left, stored, callVars, jobVars, report, edits>>

PrepareRefuses(r) ==
    /\ InTime /\ ~Prepared(r)
    /\ Refused(r)
    /\ UNCHANGED <<mode, left, stored, callVars, jobVars, report, edits>>
-----------------------------------------------------------------------------
(* webhook.call.                                                             *)

Call(r) ==
    /\ InTime /\ phase[r] = "writing" /\ ~IsJob(r) /\ ~calling[r]
    /\ calling' = [calling EXCEPT ![r] = TRUE]
    /\ sent' = [sent EXCEPT ![r] = @ + 1]
    /\ tried' = tried \cup {r}
    /\ UNCHANGED <<stepVars, mode, left, stored, jobVars, report, edits>>

\* The connection is refused.
Unreachable(r) ==
    /\ InTime /\ phase[r] = "writing" /\ ~IsJob(r) /\ ~calling[r]
    /\ tried' = tried \cup {r}
    /\ WriteRefused(r)
    /\ UNCHANGED <<mode, left, stored, calling, sent, jobVars, report, edits>>

\* 2xx is success, everything else a failure.
Answered(r) ==
    /\ calling[r]
    /\ calling' = [calling EXCEPT ![r] = FALSE]
    /\ Executed(r, FALSE) \/ WriteRefused(r)
    /\ UNCHANGED <<mode, left, stored, sent, tried, jobVars, report, edits>>

\* Mutant: a call that waits for ever.
CallHangs(r) == FALSE /\ UNCHANGED externalVars

\* The endpoint has the request and says nothing until the timeout.
CallTimesOut(r) ==
    /\ calling[r]
    /\ calling' = [calling EXCEPT ![r] = FALSE]
    /\ Spend(plan[r].timeout)
    /\ WriteRefused(r)
    /\ UNCHANGED <<mode, stored, sent, tried, jobVars, report, edits>>
-----------------------------------------------------------------------------
(* job.run and script.run.                                                   *)

NewJob(r) == [by |-> r, attempt |-> attempt[r], state |-> "running", failures |-> 0]

CreateJob(r) ==
    /\ InTime /\ phase[r] = "writing" /\ IsJob(r)
    /\ jobs' = Append(jobs, NewJob(r))
    /\ mine' = [mine EXCEPT ![r] = Len(jobs')]
    /\ tried' = tried \cup {r}
    /\ Executed(r, TRUE)
    /\ UNCHANGED <<mode, left, stored, calling, sent, verdict, report, edits>>

\* The request is lost, or only its answer: the Job exists and nobody waits.
CreateFails(r) ==
    /\ InTime /\ IsJob(r)
    /\ WriteFails(r)
    /\ jobs' \in {jobs, Append(jobs, NewJob(r))}
    /\ tried' = tried \cup {r}
    /\ UNCHANGED <<mode, left, stored, calling, sent, mine, verdict, report, edits>>

JobsOf(r) == {j \in DOMAIN jobs : jobs[j].by = r}

\* Mutant: any Job made for this step will do.
AnyJobOfTheStep(r) == JobsOf(r)

\* Verify reads the Job that Execute recorded.
VerifiedJobs(r) == {mine[r]}

\* failedForGood: the Job's Failed condition, not its count of failed pods.
FailedForGood(j) == jobs[j].state = "failed"

JobSucceeded(r) ==
    /\ phase[r] = "verifying" /\ InTime
    /\ \E j \in VerifiedJobs(r) : jobs[j].state = "succeeded"
    /\ verdict' = [verdict EXCEPT ![r] = "succeeded"]
    /\ Verified(r)
    /\ UNCHANGED <<mode, left, stored, callVars, jobs, mine, report, edits>>

JobFailed(r) ==
    /\ phase[r] = "verifying" /\ InTime
    /\ \E j \in VerifiedJobs(r) : FailedForGood(j)
    /\ verdict' = [verdict EXCEPT ![r] = "failed"]
    /\ VerifyTimesOut(r)
    /\ UNCHANGED <<mode, left, stored, callVars, jobs, mine, report, edits>>

\* The Job was removed between two polls.
JobNotFound(r) ==
    /\ phase[r] = "verifying" /\ InTime
    /\ \E j \in VerifiedJobs(r) : jobs[j].state = "gone"
    /\ VerifyTimesOut(r)
    /\ UNCHANGED <<mode, left, stored, callVars, jobVars, report, edits>>

\* It is still running when the time is up; the Job is left to itself.
VerifyExpires(r) ==
    /\ phase[r] = "verifying" /\ InTime
    /\ Spend(plan[r].timeout)
    /\ VerifyTimesOut(r)
    /\ UNCHANGED <<mode, stored, callVars, jobVars, report, edits>>
-----------------------------------------------------------------------------
TryAgain(r) ==
    /\ Retry(r)
    /\ UNCHANGED <<mode, left, stored, callVars, jobVars, report, edits>>

ReadError(r) ==
    /\ InTime /\ ReadFails(r)
    /\ plan[r].uses \/ phase[r] = "verifying"
    /\ UNCHANGED <<mode, left, stored, callVars, jobVars, report, edits>>

Death ==
    /\ report = "none" /\ Die
    /\ calling' = [r \in Runners |-> FALSE]
    /\ UNCHANGED <<mode, left, stored, sent, tried, jobVars, report, edits>>

\* Mutant: the last channel's outcome is the escalation's.
LastChannelDecides == phase[CHOOSE r \in Busy : \A e \in Busy : e <= r] = "succeeded"

\* escalate: one channel that got through is enough.
SomebodyWasTold == \E r \in Busy : phase[r] = "succeeded"

\* escalate records its outcome once every channel has been run.
Report ==
    /\ Escalating /\ report = "none"
    /\ \A r \in Busy : Over(r) /\ phase[r] # "interrupted"
    /\ report' = IF SomebodyWasTold THEN "succeeded" ELSE "failed"
    /\ UNCHANGED <<stepVars, mode, left, stored, callVars, jobVars, edits>>

(* The environment.                                                         *)

\* A pod of the Job fails: its controller tries again within the limit.
PodFails(j) ==
    /\ jobs[j].state = "running"
    /\ jobs' = [jobs EXCEPT ![j].failures = @ + 1,
                            ![j].state = IF jobs[j].failures < plan[jobs[j].by].backoff
                                         THEN "running" ELSE "failed"]
    /\ UNCHANGED <<stepVars, mode, left, stored, callVars, mine, verdict, report, edits>>

PodSucceeds(j) ==
    /\ jobs[j].state = "running"
    /\ jobs' = [jobs EXCEPT ![j].state = "succeeded"]
    /\ UNCHANGED <<stepVars, mode, left, stored, callVars, mine, verdict, report, edits>>

\* ttlSecondsAfterFinished, which may be zero.
Expires(j) ==
    /\ jobs[j].state \in {"succeeded", "failed"}
    /\ jobs' = [jobs EXCEPT ![j].state = "gone"]
    /\ UNCHANGED <<stepVars, mode, left, stored, callVars, mine, verdict, report, edits>>

Edit ==
    /\ edits < MaxEdits /\ \E r \in Busy : plan[r].uses
    /\ edits' = edits + 1
    /\ stored' = ~stored
    /\ UNCHANGED <<stepVars, mode, left, callVars, jobVars, report>>

\* What the worker does next, and may always do.
StepNext(r) ==
    \/ Start(r) \/ Skip(r) \/ OutOfTime(r) \/ Prepare(r) \/ PrepareRefuses(r)
    \/ Call(r) \/ Unreachable(r) \/ CallTimesOut(r)
    \/ CreateJob(r) \/ JobSucceeded(r) \/ JobFailed(r) \/ JobNotFound(r) \/ VerifyExpires(r)
    \/ TryAgain(r)

Next ==
    \/ \E r \in Busy : StepNext(r) \/ Answered(r) \/ CreateFails(r) \/ ReadError(r)
    \/ Report \/ Death \/ Edit
    \/ \E j \in DOMAIN jobs : PodFails(j) \/ PodSucceeds(j) \/ Expires(j)

\* A worker runs its steps, and its escalation, to the end.  Nothing is assumed
\* of endpoints, Jobs and people.
Spec ==
    /\ Init /\ [][Next]_externalVars
    /\ \A r \in Runners : WF_externalVars(r \in Busy /\ StepNext(r))
    /\ WF_externalVars(Report)
-----------------------------------------------------------------------------
\* What a job.run or script.run step records about its Job is true of the very
\* Job its last attempt created: Succeeded only if that one ran to its end,
\* and a failed Job only once its controller has stopped trying, whatever the
\* Jobs of earlier attempts and of other steps do meanwhile (JobRun.Verify,
\* failedForGood).
JobVerdictIsItsOwn ==
    \A r \in Busy :
        verdict[r] # "none" =>
            /\ mine[r] # 0 /\ jobs[mine[r]].by = r /\ jobs[mine[r]].attempt = attempt[r]
            /\ jobs[mine[r]].state \in {verdict[r], "gone"}

\* An ordered fallback stops with the channel that got through: nobody after
\* it is contacted, although channels fail, hang and run out of time before
\* it; and a channel is left out for no other reason (runChannels).
FallbackStopsOnceDelivered ==
    mode # "steps" =>
        \A e, r \in Busy : e < r =>
            /\ (mode = "firstSuccess" /\ phase[e] = "succeeded")
                 => sent[r] = 0 /\ JobsOf(r) = {}
            /\ phase[r] = "skipped" => Delivered(r)

\* The escalation's phase on the record is Succeeded exactly when a channel's
\* endpoint accepted the message or a channel's Job ran to its end, whichever
\* channel that was and whatever failed after it (escalate).
ReportIsTrue ==
    /\ report = "succeeded" =>
         \E r \in Busy :
             IF IsJob(r) THEN verdict[r] = "succeeded"
             ELSE phase[r] = "succeeded" /\ sent[r] = 1
    /\ report = "failed" => \A r \in Busy : phase[r] = "failed"

\* Every step ends, and every escalation is reported or interrupted, although
\* endpoints hang and Jobs never finish (MaxWebhookTimeout, EscalationTimeout).
CallsEnd ==
    /\ \A r \in Runners : <>(r \in Busy => Over(r) \/ \E e \in Busy : phase[e] = "interrupted")
    /\ <>(mode = "steps" \/ report # "none" \/ \E e \in Busy : phase[e] = "interrupted")

\* docs/architecture.md:391 says of an escalation: "Every channel is tried. A
\* failed escalation step does not skip the ones after it".  When an
\* escalation in mode all is reported, each channel whose step needs no more
\* than its parameters has made its request, even in vain.
EveryChannelTried ==
    (mode = "all" /\ report # "none") =>
        \A r \in Busy :
            plan[r].known /\ plan[r].resolves /\ plan[r].paramOK /\ ~plan[r].uses => r \in tried
=============================================================================

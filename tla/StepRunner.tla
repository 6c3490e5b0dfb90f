----------------------------- MODULE StepRunner -----------------------------
(***************************************************************************)
(* One step of a plan, run the way engine/steps.go runs it                  *)
(* (StepRunner.runStep and verify) against the contract of                  *)
(* action/action.go, and repeated within the retry budget by                *)
(* RemediationReconciler.runAttempt.                                        *)
(*                                                                         *)
(* The phases are the moments at which a call to the cluster separates what *)
(* the step knows from what is true:                                        *)
(*                                                                         *)
(*   pending    the attempt has not begun;                                  *)
(*   checking   the action is found and resolved, Plan or Execute reads;    *)
(*   writing    every check passed, the write is about to be sent;          *)
(*   verifying  the write was accepted, Verify polls;                       *)
(*   succeeded, simulated, failed, skipped, interrupted   it is over.       *)
(*                                                                         *)
(* The action modules extend this one: each of their actions is a            *)
(* transition below together with what the action reads or writes.          *)
(***************************************************************************)
EXTENDS Integers, FiniteSets

CONSTANTS
    Runners,     \* workers that may execute steps at once
    Plans,       \* what is executed together: functions from the busy runners to steps
    MaxFaults    \* bound: failed API requests and deaths of the process

ASSUME StepRunnerAssumption ==
    /\ Runners # {} /\ MaxFaults \in Nat
    /\ \A p \in Plans : DOMAIN p \subseteq Runners
    /\ \A p \in Plans : \A r \in DOMAIN p :
         /\ p[r].known \in BOOLEAN    \* the registry has the action
         /\ p[r].resolves \in BOOLEAN \* the labels and parameters name a target
         /\ p[r].timeoutOK \in BOOLEAN \* verifyTimeout is absent, or valid
         /\ p[r].dryRun \in BOOLEAN
         /\ p[r].retries \in Nat

VARIABLES
    plan,    \* plan[r]: the step the busy runner r executes
    phase,   \* phase[r]: see above
    attempt, \* attempt[r]: attempts begun
    faults   \* failures injected so far

stepVars == <<plan, phase, attempt, faults>>

Busy == DOMAIN plan

Ended == {"succeeded", "simulated", "failed", "skipped", "interrupted"}
Working == {"checking", "writing", "verifying"}
Phases == Ended \cup Working \cup {"pending"}

StepInit ==
    /\ plan \in Plans
    /\ phase = [r \in Runners |-> "pending"]
    /\ attempt = [r \in Runners |-> 0]
    /\ faults = 0

Goes(r, from, to) ==
    /\ phase[r] = from
    /\ phase' = [phase EXCEPT ![r] = to]

\* Registry.Get and Resolve: no cluster is contacted yet.
Begin(r) ==
    /\ Goes(r, "pending",
            IF plan[r].known /\ plan[r].resolves THEN "checking" ELSE "failed")
    /\ attempt' = [attempt EXCEPT ![r] = @ + 1]
    /\ UNCHANGED <<plan, faults>>

\* Mutant: a dry run that goes on to Execute.
PlannedThenExecuted(r) ==
    /\ Goes(r, "checking", "writing")
    /\ UNCHANGED <<plan, attempt, faults>>

\* Every check passed: a dry run ends with the plan, a live one goes on to
\* send its write.
Planned(r) ==
    /\ Goes(r, "checking", IF plan[r].dryRun THEN "simulated" ELSE "writing")
    /\ UNCHANGED <<plan, attempt, faults>>

\* Plan or Execute refuses before it has changed anything.
Refused(r) ==
    /\ Goes(r, "checking", "failed")
    /\ UNCHANGED <<plan, attempt, faults>>

\* Execute returned without error.  A step whose verifyTimeout does not parse
\* or exceeds the maximum fails here, after the effect.
Executed(r, verifies) ==
    /\ Goes(r, "writing",
            IF ~verifies THEN "succeeded"
            ELSE IF plan[r].timeoutOK THEN "verifying" ELSE "failed")
    /\ UNCHANGED <<plan, attempt, faults>>

\* The API server answers the write with a refusal: nothing was changed.
WriteRefused(r) ==
    /\ Goes(r, "writing", "failed")
    /\ UNCHANGED <<plan, attempt, faults>>

\* The request fails on its way there, or its answer on the way back: Execute
\* returns an error, and only the caller's other conjuncts say whether the
\* write was applied.
WriteFails(r) ==
    /\ faults < MaxFaults
    /\ Goes(r, "writing", "failed")
    /\ faults' = faults + 1
    /\ UNCHANGED <<plan, attempt>>

Verified(r) ==
    /\ Goes(r, "verifying", "succeeded")
    /\ UNCHANGED <<plan, attempt, faults>>

\* Mutant: a check that polls with no deadline.
NeverTimesOut(r) == FALSE /\ UNCHANGED stepVars

\* The deadline of WithVerifyDeadline passes between two polls.
VerifyTimesOut(r) ==
    /\ Goes(r, "verifying", "failed")
    /\ UNCHANGED <<plan, attempt, faults>>

\* A read fails for a reason that is not an answer: forbidden, unreachable.
ReadFails(r) ==
    /\ faults < MaxFaults
    /\ phase[r] \in {"checking", "verifying"}
    /\ phase' = [phase EXCEPT ![r] = "failed"]
    /\ faults' = faults + 1
    /\ UNCHANGED <<plan, attempt>>

\* Mutant: the budget is not consulted.
RetryAlways(r) ==
    /\ Goes(r, "failed", "pending")
    /\ UNCHANGED <<plan, attempt, faults>>

\* runAttempt: retries left, the whole step is run again from the start.
Retry(r) ==
    /\ attempt[r] <= plan[r].retries
    /\ Goes(r, "failed", "pending")
    /\ UNCHANGED <<plan, attempt, faults>>

\* The process dies: what was in flight is never resumed.
Die ==
    /\ faults < MaxFaults
    /\ \E r \in Busy : phase[r] \in Working
    /\ phase' = [r \in Runners |-> IF phase[r] \in Working THEN "interrupted" ELSE phase[r]]
    /\ faults' = faults + 1
    /\ UNCHANGED <<plan, attempt>>

StepTypeOK ==
    /\ plan \in Plans
    /\ phase \in [Runners -> Phases]
    /\ attempt \in [Runners -> Nat]
    /\ \A r \in Busy : attempt[r] <= plan[r].retries + 1
    /\ faults \in 0..MaxFaults

\* The record is terminal: no retry follows.
Over(r) ==
    \/ phase[r] \in Ended \ {"failed"}
    \/ phase[r] = "failed" /\ attempt[r] > plan[r].retries
=============================================================================

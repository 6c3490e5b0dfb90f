-------------------------- MODULE RemediationRecord --------------------------
(***************************************************************************)
(* What a Remediation promises to whoever reads it, without processes,      *)
(* caches or workers: the state machine in the comment of                   *)
(* RemediationReconciler (internal/engine/controller.go), with the effects  *)
(* its attempts have on the cluster.  RemediationLifecycle implements it.   *)
(***************************************************************************)
EXTENDS Naturals, Sequences

CONSTANT Records

VARIABLES
    retries,  \* retries[r]: the retry budget copied onto r
    phase,    \* phase[r]: where r is in its life
    attempt,  \* attempt[r]: the attempts begun so far
    effects   \* effects[r]: the steps executed for real, in order

recordVars == <<retries, phase, attempt, effects>>

\* New, Pending and AwaitingApproval are all "waiting": nothing is running.
WaitingPhases == {"New", "Pending", "AwaitingApproval"}
EndedPhases   == {"Succeeded", "Failed", "Simulated"}

Move(r, to) ==
    /\ phase' = [phase EXCEPT ![r] = to]
    /\ UNCHANGED retries

Appear(r) ==
    /\ phase[r] = "Absent"
    /\ Move(r, "New")
    /\ UNCHANGED <<attempt, effects>>

Wait(r) ==
    /\ phase[r] \in WaitingPhases
    /\ Move(r, "AwaitingApproval")
    /\ UNCHANGED <<attempt, effects>>

\* An attempt begins only from a waiting record with budget left.
Begin(r) ==
    /\ phase[r] \in WaitingPhases
    /\ attempt[r] <= retries[r]
    /\ Move(r, "Running")
    /\ attempt' = [attempt EXCEPT ![r] = @ + 1]
    /\ UNCHANGED effects

Precedes(e, f) == \/ e.attempt < f.attempt
                  \/ e.attempt = f.attempt /\ e.step < f.step

\* A running attempt changes the cluster, each time with a later step.
Act(r) ==
    /\ phase[r] = "Running"
    /\ Len(effects'[r]) = Len(effects[r]) + 1
    /\ LET e == effects'[r][Len(effects[r]) + 1]
       IN  /\ e \in [attempt : {attempt[r]}, step : Nat]
           /\ effects' = [effects EXCEPT ![r] = Append(@, e)]
           /\ \A i \in 1 .. Len(effects[r]) : Precedes(effects[r][i], e)
    /\ UNCHANGED <<retries, phase, attempt>>

Retry(r) ==
    /\ phase[r] = "Running"
    /\ attempt[r] <= retries[r]
    /\ Move(r, "Pending")
    /\ UNCHANGED <<attempt, effects>>

\* Only a running record can end in success; any open one can fail.
End(r, how) ==
    /\ phase[r] \in WaitingPhases \cup {"Running"}
    /\ phase[r] # "Running" => how = "Failed"
    /\ Move(r, how)
    /\ UNCHANGED <<attempt, effects>>

Vanish(r) ==
    /\ phase[r] \in EndedPhases
    /\ Move(r, "Deleted")
    /\ UNCHANGED <<attempt, effects>>

RecordInit ==
    /\ retries \in [Records -> Nat]
    /\ phase = [r \in Records |-> "Absent"]
    /\ attempt = [r \in Records |-> 0]
    /\ effects = [r \in Records |-> <<>>]

RecordStep(r) ==
    \/ Appear(r) \/ Wait(r) \/ Begin(r) \/ Act(r) \/ Retry(r)
    \/ (\E how \in EndedPhases : End(r, how))
    \/ Vanish(r)

RecordNext == \E r \in Records : RecordStep(r)

RecordSpec == RecordInit /\ [][RecordNext]_recordVars
=============================================================================

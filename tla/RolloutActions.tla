--------------------------- MODULE RolloutActions ---------------------------
(***************************************************************************)
(* The actions that change how a workload is rolled out: deployment.restart *)
(* and workload.restart (workload/restart.go), deployment.rollback           *)
(* (workload/rollback.go), deployment.scale and hpa.scale                    *)
(* (workload/scale.go), run by StepRunner against one workload.              *)
(*                                                                         *)
(* The workload's controller is external.  It is free to report any counts   *)
(* it likes, as late as it likes; what the code relies on is that a status   *)
(* names the generation it was computed for.  People edit the workload, and  *)
(* a second step may be executing, between any two calls of a step.          *)
(*                                                                         *)
(* A pod template is a version (its containers), the restartedAt stamp of    *)
(* its annotation, zero when there is none, and whether it has a map entry    *)
(* that only some versions set: a node selector, a label, an annotation.      *)
(***************************************************************************)
EXTENDS StepRunner, FixedWidth, Sequences, FiniteSetsExt

CONSTANTS
    Kinds,       \* workload kinds to consider, a subset of WorkloadKinds
    MaxReplicas, \* bound: replica counts people set
    Reports,     \* bound: counts a controller may report: updated, current, available
    HistoryLimit,\* revisionHistoryLimit: old ReplicaSets kept
    MaxEdits     \* bound: edits by people

WorkloadKinds == {"Deployment", "StatefulSet", "DaemonSet"}

ASSUME RolloutAssumption ==
    /\ Kinds \subseteq WorkloadKinds /\ Kinds # {}
    /\ MaxReplicas \in Nat \ {0} /\ MaxEdits \in Nat /\ HistoryLimit \in Nat
    /\ Reports \subseteq [updated : Nat, current : Nat, available : Nat]
    /\ \A c \in Reports : c.updated <= c.current \* updated pods are among the current ones
    /\ IntMax > MaxReplicas
    /\ \A f \in Plans : \A r \in DOMAIN f :
         LET p == f[r]
         IN  /\ p.action \in {"restart", "rollback", "scale", "hpa"}
             /\ p.mode \in {"replicas", "increaseBy", "increasePercent", "ambiguous"}
             /\ p.amount \in 0..IntMax /\ p.max \in 0..IntMax
             /\ p.to \in Nat /\ p.ignoreGitOps \in BOOLEAN

VARIABLES
    kind,     \* the workload's kind
    obj,      \* its spec and metadata
    status,   \* its status, as its controller last wrote it
    sets,     \* ReplicaSets of the namespace: whose, which template and revision
    scaler,   \* the HorizontalPodAutoscaler: does it own obj, and its ceiling
    seen,     \* seen[r]: what the step's first read returned
    want,     \* want[r]: the value the step decided to write, if it has: {} or {w}
    writes,   \* history: writes[r] is every write of r that was applied
    complete, \* history: generations the controller reported rolled out
    ran,      \* history: templates this workload has had
    edits     \* edits by people so far

clusterVars == <<kind, obj, status, sets, scaler, complete, ran>>
rolloutVars == <<stepVars, clusterVars, seen, want, writes, edits>>

Nothing == [none |-> TRUE]
Template(v, s, e) == [version |-> v, stamp |-> s, entry |-> e]

\* What the first three versions look like: the second brought the entry.
Release(v) == Template(v, 0, v = 2)

Init ==
    /\ StepInit
    /\ kind \in Kinds
    /\ \A r \in Busy : plan[r].action # "restart" => kind = "Deployment"
    /\ obj = [exists |-> TRUE, gen |-> 2, replicas |-> 2, revision |-> 2,
              template |-> Release(2), managed |-> FALSE]
    /\ status = [observed |-> 2, desired |-> 2, updated |-> 2, current |-> 2, available |-> 2]
    /\ sets = {[mine |-> TRUE, template |-> Release(1), revision |-> 1],
               [mine |-> TRUE, template |-> Release(2), revision |-> 2],
               [mine |-> FALSE, template |-> Release(9), revision |-> 1]}
    /\ scaler = [owns |-> FALSE, max |-> 2]
    /\ seen = [r \in Runners |-> Nothing]
    /\ want = [r \in Runners |-> {}]
    /\ writes = [r \in Runners |-> <<>>]
    /\ complete = {2}
    /\ ran = {Release(1), Release(2)}
    /\ edits = 0
-----------------------------------------------------------------------------
(* The arithmetic of a scaling step.                                        *)

\* The number asked for, before the ceiling.
Asked(p, current) ==
    CASE p.mode = "increaseBy" -> Wrap(current + p.amount)
      [] p.mode = "increasePercent" ->
           Wrap(current + Quotient(Wrap(Wrap(current * p.amount) + 99), 100))
      [] OTHER -> p.amount

Relative(p) == p.mode \in {"increaseBy", "increasePercent"}

\* Mutant: the ceiling is required but not applied.
CountsUncapped(p, current) ==
    IF p.mode = "ambiguous" \/ p.amount = 0 THEN {}
    ELSE IF ~Relative(p) THEN {p.amount}
    ELSE IF p.max = 0 \/ Asked(p, current) <= current THEN {} ELSE {Asked(p, current)}

\* targetCount: empty when the step is refused.  Exactly one of the three
\* parameters is set, every number is positive, a relative change has a
\* ceiling and must be an increase.
TargetCounts(p, current) ==
    LET capped == IF Asked(p, current) > p.max THEN p.max ELSE Asked(p, current)
    IN  IF p.mode = "ambiguous" \/ p.amount = 0 THEN {}
        ELSE IF ~Relative(p) THEN {p.amount}
        ELSE IF p.max = 0 \/ capped <= current THEN {} ELSE {capped}
-----------------------------------------------------------------------------
(* Plan and Execute, up to the write.                                       *)

Step(r, action) == plan[r].action = action

\* The first read of Plan and Execute: the workload, or the autoscaler.
Fetch(r) ==
    /\ phase[r] = "checking" /\ seen[r] = Nothing
    /\ obj.exists
    /\ seen' = [seen EXCEPT ![r] =
                  [replicas |-> obj.replicas, revision |-> obj.revision,
                   template |-> obj.template, managed |-> obj.managed, max |-> scaler.max]]
    /\ UNCHANGED <<stepVars, clusterVars, want, writes, edits>>

FetchNotFound(r) ==
    /\ seen[r] = Nothing /\ ~obj.exists
    /\ Refused(r)
    /\ UNCHANGED <<clusterVars, seen, want, writes, edits>>

\* Mutant: every ReplicaSet of the namespace counts as a revision.
OwnedIgnoringController == sets

\* ownedReplicaSets: those whose controller reference carries this UID.
Owned == {s \in sets : s.mine}

\* rollbackTarget: the newest revision below the one the Deployment named
\* when it was read, or the one the step asks for if it is not the current.
RollbackTargets(r) ==
    LET older == {s \in Owned : s.revision < seen[r].revision}
    IN  IF seen[r].managed /\ ~plan[r].ignoreGitOps THEN {}
        ELSE IF plan[r].to = 0
             THEN {s \in older : \A o \in older : o.revision <= s.revision}
             ELSE {s \in Owned : s.revision = plan[r].to /\ plan[r].to # seen[r].revision}

\* What the checks of the step allow it to write; empty when they refuse.  A
\* restart writes a fresh stamp and has nothing to decide.
Allowed(r) ==
    CASE Step(r, "restart") -> {seen[r].template}
      [] Step(r, "rollback") -> {s.template : s \in RollbackTargets(r)}
      [] Step(r, "scale") ->
           IF scaler.owns THEN {} ELSE TargetCounts(plan[r], seen[r].replicas)
      [] Step(r, "hpa") ->
           {n \in TargetCounts(plan[r], seen[r].max) : n > seen[r].max}

\* The second read (revisions, autoscalers) and the verdict of the checks.
Decide(r) ==
    /\ phase[r] = "checking" /\ seen[r] # Nothing
    /\ \E w \in Allowed(r) : want' = [want EXCEPT ![r] = {w}]
    /\ Planned(r)
    /\ UNCHANGED <<clusterVars, seen, writes, edits>>

Refuse(r) ==
    /\ phase[r] = "checking" /\ seen[r] # Nothing
    /\ Allowed(r) = {}
    /\ Refused(r)
    /\ UNCHANGED <<clusterVars, seen, want, writes, edits>>
-----------------------------------------------------------------------------
(* The write.  A patch carries no resourceVersion: it is applied to whatever *)
(* the object is by then, and a patch that changes nothing leaves the         *)
(* generation alone.                                                          *)

Patched(new) == [new EXCEPT !.gen = IF new = obj THEN @ ELSE @ + 1]

WriteTemplate(r, t, source) ==
    /\ obj.exists
    /\ obj' = Patched([obj EXCEPT !.template = t])
    /\ ran' = ran \cup {t}
    /\ writes' = [writes EXCEPT ![r] =
                    Append(@, [template |-> t, source |-> source, own |-> source \in ran,
                               left |-> seen[r].template, gen |-> obj'.gen])]
    /\ UNCHANGED <<kind, status, sets, scaler, complete>>

\* Restart.Execute: a stamp of this second, which another restart may share.
ApplyRestart(r) ==
    /\ Step(r, "restart")
    /\ \E tick \in {0, 1} :
         WriteTemplate(r, [obj.template EXCEPT !.stamp = @ + tick], obj.template)

\* A JSON merge patch replaces lists and sets the keys it names; a key the
\* current template has and the old one lacks stays.
Merged(current, old) ==
    [version |-> old.version,
     stamp |-> IF old.stamp = 0 THEN current.stamp ELSE old.stamp,
     entry |-> old.entry \/ current.entry]

\* DeploymentRollback.Execute: the old ReplicaSet's template, as a merge patch.
ApplyRollback(r) ==
    /\ Step(r, "rollback")
    /\ \E t \in want[r] : WriteTemplate(r, Merged(obj.template, t), t)

\* DeploymentScale.Execute, through the scale subresource.
ApplyScale(r) ==
    /\ Step(r, "scale")
    /\ obj.exists
    /\ \E n \in want[r] :
         /\ obj' = Patched([obj EXCEPT !.replicas = n])
         /\ writes' = [writes EXCEPT ![r] =
                         Append(@, [read |-> seen[r].replicas, value |-> n, gen |-> obj'.gen])]
    /\ UNCHANGED <<kind, status, sets, scaler, complete, ran>>

\* HPAScale.Execute.
ApplyHPA(r) ==
    /\ Step(r, "hpa")
    /\ obj.exists
    /\ \E n \in want[r] :
         /\ scaler' = [scaler EXCEPT !.max = n]
         /\ writes' = [writes EXCEPT ![r] =
                         Append(@, [read |-> seen[r].max, value |-> n, gen |-> obj.gen])]
    /\ UNCHANGED <<kind, obj, status, sets, complete, ran>>

Apply(r) ==
    /\ phase[r] = "writing"
    /\ ApplyRestart(r) \/ ApplyRollback(r) \/ ApplyScale(r) \/ ApplyHPA(r)
    /\ UNCHANGED <<seen, want, edits>>

\* hpa.scale has no Verify.
Write(r) == Apply(r) /\ Executed(r, ~Step(r, "hpa"))

WriteAnswerLost(r) == Apply(r) /\ WriteFails(r)

WriteNotSent(r) ==
    /\ WriteFails(r)
    /\ UNCHANGED <<clusterVars, seen, want, writes, edits>>

WriteNotFound(r) ==
    /\ ~obj.exists
    /\ WriteRefused(r)
    /\ UNCHANGED <<clusterVars, seen, want, writes, edits>>
-----------------------------------------------------------------------------
(* Verify.                                                                  *)

\* readRollout: a DaemonSet's denominator is in its status, the others' in
\* their spec.
Desired == IF kind = "DaemonSet" THEN status.desired ELSE obj.replicas

\* Mutant: a status left over from before the patch counts.
RolledOutAnyGeneration ==
    /\ status.updated >= Desired
    /\ status.current <= status.updated
    /\ status.available >= Desired

\* rollout.describe, with the generation first.
RolledOut ==
    /\ status.observed >= obj.gen
    /\ status.updated >= Desired
    /\ status.current <= status.updated
    /\ status.available >= Desired

\* The condition a poll looks for.  deployment.scale only compares the
\* available replicas with the number it wrote.
Achieved(r) ==
    IF Step(r, "scale") THEN \A n \in want[r] : status.available >= n ELSE RolledOut

VerifyPasses(r) ==
    /\ phase[r] = "verifying" /\ obj.exists /\ Achieved(r)
    /\ Verified(r)
    /\ UNCHANGED <<clusterVars, seen, want, writes, edits>>

VerifyNotFound(r) ==
    /\ phase[r] = "verifying" /\ ~obj.exists
    /\ VerifyTimesOut(r)
    /\ UNCHANGED <<clusterVars, seen, want, writes, edits>>

\* A last poll found the condition unmet when the deadline passed.
VerifyExpires(r) ==
    /\ VerifyTimesOut(r)
    /\ UNCHANGED <<clusterVars, seen, want, writes, edits>>
-----------------------------------------------------------------------------
Start(r) ==
    /\ Begin(r)
    /\ seen' = [seen EXCEPT ![r] = Nothing]
    /\ want' = [want EXCEPT ![r] = {}]
    /\ UNCHANGED <<clusterVars, writes, edits>>

TryAgain(r) == Retry(r) /\ UNCHANGED <<clusterVars, seen, want, writes, edits>>
ReadError(r) == ReadFails(r) /\ UNCHANGED <<clusterVars, seen, want, writes, edits>>
Death == Die /\ UNCHANGED <<clusterVars, seen, want, writes, edits>>

(* The environment.                                                         *)

\* The revisions kept once template t has become the newest.
Revisions(t) ==
    LET others == {s \in Owned : s.template # t}
        top == Max({s.revision : s \in others} \cup {obj.revision})
        mine == {s \in Owned : s.template = t /\ s.revision = top}
        now == [mine |-> TRUE, template |-> t,
                revision |-> IF mine # {} THEN top ELSE top + 1]
        old == {s \in others : Cardinality({o \in others : o.revision > s.revision}) < HistoryLimit}
    IN  [newest |-> now.revision, kept |-> (sets \ Owned) \cup old \cup {now}]

\* The workload's controller gives a new template the next revision and
\* reports the counts its pods have reached.
ControllerSync ==
    /\ obj.exists
    /\ \E n \in {2, MaxReplicas}, p \in Reports :
         status' = [observed |-> obj.gen, desired |-> IF kind = "DaemonSet" THEN n ELSE obj.replicas,
                    updated |-> p.updated, current |-> p.current, available |-> p.available]
    /\ complete' = IF /\ status'.updated = status'.current
                      /\ status'.updated >= status'.desired
                      /\ status'.available >= status'.desired
                   THEN complete \cup {obj.gen} ELSE complete
    /\ sets' = Revisions(obj.template).kept
    /\ obj' = [obj EXCEPT !.revision = Revisions(obj.template).newest]
    /\ UNCHANGED <<stepVars, kind, scaler, ran, seen, want, writes, edits>>

\* A person ships, scales, hands the workload to an autoscaler or to a GitOps
\* controller, or removes it.
Edit ==
    /\ edits < MaxEdits /\ obj.exists
    /\ edits' = edits + 1
    /\ \/ /\ \E t \in {Release(1), Release(3)} :
               /\ obj' = Patched([obj EXCEPT !.template = t])
               /\ ran' = ran \cup {t}
          /\ UNCHANGED scaler
       \/ /\ \E n \in 1..MaxReplicas : obj' = Patched([obj EXCEPT !.replicas = n])
          /\ UNCHANGED <<scaler, ran>>
       \/ /\ scaler' \in [owns : BOOLEAN, max : {scaler.max, MaxReplicas}]
          /\ UNCHANGED <<obj, ran>>
       \/ /\ obj' \in {[obj EXCEPT !.exists = FALSE], [obj EXCEPT !.managed = TRUE]}
          /\ UNCHANGED <<scaler, ran>>
    /\ UNCHANGED <<stepVars, kind, status, sets, complete, seen, want, writes>>

\* What the worker does next, and may always do.
StepNext(r) ==
    \/ Start(r) \/ Fetch(r) \/ FetchNotFound(r) \/ Decide(r) \/ Refuse(r)
    \/ Write(r) \/ WriteNotFound(r)
    \/ VerifyPasses(r) \/ VerifyNotFound(r) \/ VerifyExpires(r) \/ TryAgain(r)

Next ==
    \/ \E r \in Busy : \/ StepNext(r) \/ WriteAnswerLost(r) \/ WriteNotSent(r)
                          \/ ReadError(r)
    \/ Death \/ ControllerSync \/ Edit

\* A worker runs its step to the end within one reconcile, and every poll
\* sleeps no longer than its deadline.  Nothing is assumed of the controller.
Spec == Init /\ [][Next]_rolloutVars /\ \A r \in Runners : WF_rolloutVars(r \in Busy /\ StepNext(r))
-----------------------------------------------------------------------------
TypeOK ==
    /\ StepTypeOK
    /\ kind \in WorkloadKinds
    /\ obj.gen \in Nat /\ obj.replicas \in 1..IntMax
    /\ status.observed \in 0..obj.gen
    /\ scaler.max \in 1..IntMax
    /\ complete \subseteq 0..obj.gen
    /\ \A r \in Busy : Len(writes[r]) <= attempt[r]

\* A restart or rollback recorded as Succeeded is one its controller reported
\* as rolled out: for the generation of its own patch, or a later one, there
\* was a status with every replica updated, available and none left over,
\* whatever was edited or reported late in between (rollout.describe).
VerifiedMeansRolledOut ==
    \A r \in Busy :
        (phase[r] = "succeeded" /\ plan[r].action \in {"restart", "rollback"})
        => \E g \in complete : g >= writes[r][Len(writes[r])].gen

\* However often it is retried, whatever is edited meanwhile and wherever the
\* int32 arithmetic wraps, a relative change never writes more than its ceiling
\* and never less than one more than it read; an autoscaler's ceiling is never
\* set to less than was read (targetCount, HPAScale.plan).
ScalingWithinBounds ==
    \A r \in Busy : \A i \in DOMAIN writes[r] :
        LET w == writes[r][i]
        IN  /\ plan[r].action \in {"scale", "hpa"} /\ Relative(plan[r])
                 => w.read < w.value /\ w.value <= plan[r].max
            /\ plan[r].action = "hpa" => w.read < w.value

\* A rollback only ever installs a template this Deployment itself has had:
\* ReplicaSets of another owner, of a higher or a lower revision, are not
\* revisions of it (ownedReplicaSets).
RollbackOnlyToOwnRevisions ==
    \A r \in Busy : \A i \in DOMAIN writes[r] :
        plan[r].action = "rollback" => writes[r][i].own

\* A dry run never writes to the cluster, in any attempt, and ends Simulated
\* or Failed (runStep calls only Plan).
DryRunsChangeNothing ==
    \A r \in Busy : plan[r].dryRun => writes[r] = <<>> /\ phase[r] # "succeeded"

\* Every step comes to an end although its controller may never report
\* anything again: Verify is bounded (WithVerifyDeadline), and so are retries.
StepsEnd == \A r \in Runners : <>(r \in Busy => Over(r))

\* action.go:190 says of every action that it is "idempotent: the engine may
\* retry a step, and an action that cannot be repeated safely must detect that
\* itself".  For deployment.rollback: a retried step never puts back the
\* template that its first attempt rolled away from.
RetriedRollbackStaysBack ==
    \A r \in Busy : \A i \in DOMAIN writes[r] :
        plan[r].action = "rollback" => writes[r][i].template # writes[r][1].left

\* rollback.go:110 says Execute does "the same thing `kubectl rollout undo`
\* does: take the old ReplicaSet's pod template and make it the Deployment's
\* again": what the workload has after the write is that template.
RollbackRestoresTemplate ==
    \A r \in Busy : \A i \in DOMAIN writes[r] :
        plan[r].action = "rollback" => writes[r][i].template = writes[r][i].source
=============================================================================

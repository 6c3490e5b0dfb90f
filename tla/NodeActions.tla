---------------------------- MODULE NodeActions ----------------------------
(***************************************************************************)
(* The actions that remove things, close nodes and grow volumes: node.drain  *)
(* (node/drain.go), node.cordon and node.uncordon (node/cordon.go),          *)
(* pvc.expand (node/pvc.go), pod.delete (workload/pod.go) and job.delete     *)
(* (workload/job.go), run by StepRunner.                                     *)
(*                                                                         *)
(* The cluster around them is external: a disruption budget that refuses     *)
(* evictions for as long as it likes, a kubelet that takes its time to end a *)
(* pod, controllers that replace what was removed (a StatefulSet under the   *)
(* same name), a scheduler that binds to any open node, a volume driver, and *)
(* people.  They act between any two calls of a step.  Actions use a client  *)
(* without a cache, so a read returns the state of that moment.              *)
(***************************************************************************)
EXTENDS StepRunner, FixedWidth, FiniteSetsExt

CONSTANTS
    Objects,   \* names of pods and Jobs: numbers, in the order of the names
    FirstClass,\* FirstClass[n]: what n is at first, a member of Classes
    Fresh,     \* names not in use at first, for a controller to give out
    Nodes,     \* nodes of the cluster
    Target,    \* the node the steps name
    Unit,      \* a mebibyte
    MaxUid,    \* bound: objects that ever carry one name
    MaxEdits   \* bound: changes by people, and pods that end by themselves

Classes == {"replicated", "stateful", "daemon", "mirror", "bare", "scratch", "job"}

Actions == {"drain", "cordon", "uncordon", "pod.delete", "job.delete", "pvc.expand"}

\* Pods and Jobs do not share names.
Pods == {n \in Objects : FirstClass[n] # "job"}

\* The node name of what is not bound to one.
NoNode == "none"

ASSUME NodeAssumption ==
    /\ Objects \subseteq Nat \ {0} /\ FirstClass \in [Objects -> Classes] /\ Fresh \subseteq Objects
    /\ Target \in Nodes /\ NoNode \notin Nodes
    /\ Unit \in Nat \ {0} /\ MaxUid \in Nat /\ MaxEdits \in Nat
    /\ \A f \in Plans : \A r \in DOMAIN f :
         LET p == f[r]
         IN  /\ p.action \in Actions
             /\ p.paramOK \in BOOLEAN   \* maxPods, gracePeriodSeconds, propagationPolicy parse
             /\ p.bare \in BOOLEAN      \* evictBarePods, or requireOwner=false
             /\ p.scratch \in BOOLEAN   \* deleteEmptyDirData
             /\ p.maxPods \in Nat       \* zero when not set
             /\ p.name \in Objects \cup {0} \* the pod or Job, if it is one
             /\ p.action = "pod.delete" => p.name \in Pods
             /\ p.action = "job.delete" => p.name \in Objects \ Pods
             /\ p.mode \in {"size", "percent", "ambiguous"}
             /\ p.amount \in 0..IntMax /\ p.max \in 0..IntMax

VARIABLES
    objs,     \* objs[n]: the object called n: uid, class, node, state
    closed,   \* nodes that are unschedulable
    nodeUp,   \* the target node exists
    budget,   \* the disruption budgets allow an eviction now
    claim,    \* the claim: exists, request, capacity, expandable
    seen,     \* seen[r]: what the step's first read returned
    want,     \* want[r]: the size the step decided to write, zero if none
    listed,   \* listed[r]: the objects the step read and means to remove, by name
    todo,     \* todo[r]: names the current pass of evictAll has still to evict
    again,    \* again[r]: names refused in this pass
    removed,  \* history: evictions and deletions the API server accepted
    reopened, \* history: busy runners during whose step the target was opened
    writes,   \* history: sizes written: by whom, over what, how much
    edits     \* changes by people so far

clusterVars == <<objs, closed, nodeUp, budget, claim>>
ownVars == <<seen, want, listed, todo, again>>
historyVars == <<removed, reopened, writes>>
nodeVars == <<stepVars, clusterVars, ownVars, historyVars, edits>>

Nothing == [none |-> TRUE]

Step(r, action) == plan[r].action = action

\* What the steps of a plan can tell apart: a drain sees every pod.
Cast(f) ==
    (IF \E r \in DOMAIN f : f[r].action = "drain" THEN Pods ELSE {})
    \cup ({f[r].name : r \in DOMAIN f} \ {0})

Init ==
    /\ StepInit
    /\ objs = [n \in Cast(plan) |->
                 [uid |-> IF n \in Fresh THEN 0 ELSE 1,
                  class |-> FirstClass[n],
                  node |-> IF n \in Pods \ Fresh THEN Target ELSE NoNode,
                  state |-> IF n \in Fresh THEN "absent" ELSE "running"]]
    /\ closed \in SUBSET {Target}
    /\ nodeUp = TRUE /\ budget = TRUE
    /\ claim = [exists |-> TRUE, request |-> 2 * Unit + 1, capacity |-> 2 * Unit + 1,
                expandable |-> TRUE]
    /\ seen = [r \in Runners |-> Nothing]
    /\ want = [r \in Runners |-> 0]
    /\ listed = [r \in Runners |-> [n \in {} |-> Nothing]]
    /\ todo = [r \in Runners |-> {}]
    /\ again = [r \in Runners |-> {}]
    /\ removed = {} /\ reopened = {} /\ writes = {}
    /\ edits = 0
-----------------------------------------------------------------------------
(* Plan and Execute, up to the first write.                                  *)

TargetExists(r) ==
    CASE plan[r].action \in {"drain", "cordon", "uncordon"} -> nodeUp
      [] plan[r].action \in {"pod.delete", "job.delete"} -> objs[plan[r].name].state # "absent"
      [] Step(r, "pvc.expand") -> claim.exists

\* fetchNode and the fetch of the other actions.
Fetch(r) ==
    /\ phase[r] = "checking" /\ seen[r] = Nothing
    /\ TargetExists(r)
    /\ seen' = [seen EXCEPT ![r] =
         CASE plan[r].action \in {"drain", "cordon", "uncordon"} -> [closed |-> Target \in closed]
           [] plan[r].action \in {"pod.delete", "job.delete"} -> objs[plan[r].name]
           [] Step(r, "pvc.expand") -> [request |-> claim.request]]
    /\ UNCHANGED <<stepVars, clusterVars, want, listed, todo, again, historyVars, edits>>

FetchNotFound(r) ==
    /\ seen[r] = Nothing /\ ~TargetExists(r)
    /\ Refused(r)
    /\ UNCHANGED <<clusterVars, ownVars, historyVars, edits>>

\* classify, for a pod of class c that has not finished: mirror pods and those
\* of a DaemonSet never, bare ones and those with an emptyDir if the step says
\* so.
Moves(p, c) ==
    CASE c \in {"mirror", "daemon", "job"} -> FALSE
      [] c = "bare" -> p.bare
      [] c = "scratch" -> p.scratch
      [] OTHER -> TRUE

\* classify: the pods on the node that the drain is to evict.
Evictable(p) ==
    {n \in DOMAIN objs : /\ objs[n].node = Target
                         /\ objs[n].state \in {"running", "terminating"}
                         /\ Moves(p, objs[n].class)}

\* targetSize and checkGrowth: empty when the step is refused.
TargetSizes(p, current) ==
    LET grown == Wrap(current + Quotient(Wrap(current * p.amount), 100))
        whole == Wrap(Quotient(Wrap(grown + Unit - 1), Unit) * Unit)
        size == IF p.mode = "size" THEN p.amount
                ELSE IF whole > p.max THEN p.max ELSE whole
    IN  IF \/ p.mode = "ambiguous"
           \/ p.mode = "percent" /\ (p.amount = 0 \/ p.max = 0)
           \/ size <= current
        THEN {} ELSE {size}

\* The rest of the checks.  pod.delete reads its grace period in Execute only.
Passes(r) ==
    LET p == plan[r]
    IN  CASE p.action = "drain" ->
               p.paramOK /\ (p.maxPods > 0 => Cardinality(Evictable(p)) <= p.maxPods)
          [] p.action \in {"cordon", "uncordon"} -> TRUE
          [] p.action = "pod.delete" ->
               /\ seen[r].class # "bare" \/ p.bare
               /\ p.paramOK \/ p.dryRun
          [] p.action = "job.delete" -> p.paramOK
          [] p.action = "pvc.expand" -> claim.expandable /\ TargetSizes(p, seen[r].request) # {}

\* What Execute goes on to remove, as it was read.
ToRemove(r) ==
    CASE Step(r, "drain") -> [n \in Evictable(plan[r]) |-> objs[n]]
      [] plan[r].action \in {"pod.delete", "job.delete"} -> [n \in {plan[r].name} |-> seen[r]]
      [] OTHER -> [n \in {} |-> Nothing]

\* The second read, where there is one (pods, StorageClass), and the verdict.
Decide(r) ==
    /\ phase[r] = "checking" /\ seen[r] # Nothing
    /\ Passes(r)
    /\ want' = [want EXCEPT ![r] =
                  IF Step(r, "pvc.expand")
                  THEN CHOOSE n \in TargetSizes(plan[r], seen[r].request) : TRUE ELSE 0]
    /\ listed' = [listed EXCEPT ![r] = ToRemove(r)]
    /\ todo' = [todo EXCEPT ![r] = IF Step(r, "drain") THEN Evictable(plan[r]) ELSE {}]
    /\ Planned(r)
    /\ UNCHANGED <<clusterVars, seen, again, historyVars, edits>>

Refuse(r) ==
    /\ phase[r] = "checking" /\ seen[r] # Nothing
    /\ ~Passes(r)
    /\ Refused(r)
    /\ UNCHANGED <<clusterVars, ownVars, historyVars, edits>>
-----------------------------------------------------------------------------
(* Closing and opening a node.                                               *)

Wanted(r) == ~Step(r, "uncordon")

\* The patch of the node, as it is carried out.
SetClosed(r) ==
    /\ nodeUp
    /\ closed' = IF Wanted(r) THEN closed \cup {Target} ELSE closed \ {Target}
    /\ reopened' = IF Wanted(r) THEN reopened ELSE reopened \cup Busy
    /\ UNCHANGED <<objs, nodeUp, budget, claim, removed, writes>>

\* Drain.Execute closes the node unless it was closed when it was read.
DrainCordons(r) ==
    /\ phase[r] = "writing" /\ Step(r, "drain") /\ ~seen[r].closed
    /\ SetClosed(r)
    /\ seen' = [seen EXCEPT ![r].closed = TRUE]
    /\ UNCHANGED <<stepVars, want, listed, todo, again, edits>>

\* Cordon.Execute: nothing to do if the node already was as wanted.
Cordon(r) ==
    /\ phase[r] = "writing" /\ plan[r].action \in {"cordon", "uncordon"}
    /\ IF seen[r].closed = Wanted(r) THEN UNCHANGED <<clusterVars, historyVars>> ELSE SetClosed(r)
    /\ Executed(r, TRUE)
    /\ UNCHANGED <<ownVars, edits>>

\* The patch of a node, an eviction or a deletion of an object, or the patch
\* of a claim that is no longer there.
WriteNotFound(r) ==
    /\ phase[r] = "writing"
    /\ \/ Step(r, "drain") /\ ~seen[r].closed /\ ~nodeUp
       \/ plan[r].action \in {"cordon", "uncordon"} /\ seen[r].closed # Wanted(r) /\ ~nodeUp
       \/ plan[r].action \in {"pod.delete", "job.delete"} /\ ~TargetExists(r)
       \/ Step(r, "pvc.expand") /\ ~claim.exists
    /\ WriteRefused(r)
    /\ UNCHANGED <<clusterVars, ownVars, historyVars, edits>>
-----------------------------------------------------------------------------
(* Evicting.  An eviction names a pod, never its UID: it ends whatever has    *)
(* that name by then.                                                         *)

\* A running pod is subject to the budget.
EvictionAllowed(n) == objs[n].state # "running" \/ objs[n].node = NoNode \/ budget

\* An eviction or a deletion, as it is carried out.
Remove(r, n) ==
    /\ objs[n].state # "absent" /\ EvictionAllowed(n)
    /\ objs' = [objs EXCEPT ![n].state = IF @ = "finished" THEN "absent" ELSE "terminating"]
    /\ removed' = removed \cup {[by |-> r, at |-> attempt[r], name |-> n,
                                 read |-> listed[r][n], hit |-> objs[n]]}
    /\ UNCHANGED <<closed, nodeUp, budget, claim, reopened, writes>>

Current(r) == Min(todo[r])

Evicting(r) ==
    phase[r] = "writing" /\ Step(r, "drain") /\ seen[r].closed /\ todo[r] # {}

\* evictAll takes the pods in order: accepted.
EvictAccepted(r) ==
    /\ Evicting(r)
    /\ Remove(r, Current(r))
    /\ todo' = [todo EXCEPT ![r] = @ \ {Current(r)}]
    /\ UNCHANGED <<stepVars, seen, want, listed, again, edits>>

\* Mutant: a pod that has already left is asked for again.
EvictGoneAgain(r) ==
    /\ Evicting(r)
    /\ objs[Current(r)].state = "absent"
    /\ todo' = [todo EXCEPT ![r] = @ \ {Current(r)}]
    /\ again' = [again EXCEPT ![r] = @ \cup {Current(r)}]
    /\ UNCHANGED <<stepVars, clusterVars, seen, want, listed, historyVars, edits>>

\* NotFound counts as evicted.
EvictGone(r) ==
    /\ Evicting(r)
    /\ objs[Current(r)].state = "absent"
    /\ todo' = [todo EXCEPT ![r] = @ \ {Current(r)}]
    /\ UNCHANGED <<stepVars, clusterVars, seen, want, listed, again, historyVars, edits>>

\* 429 is not yet, not no.
EvictRefused(r) ==
    /\ Evicting(r)
    /\ objs[Current(r)].state # "absent" /\ ~EvictionAllowed(Current(r))
    /\ todo' = [todo EXCEPT ![r] = @ \ {Current(r)}]
    /\ again' = [again EXCEPT ![r] = @ \cup {Current(r)}]
    /\ UNCHANGED <<stepVars, clusterVars, seen, want, listed, historyVars, edits>>

\* Mutant: the next pass asks for the whole list again, not for what was refused.
NextPassOverAll(r) ==
    /\ phase[r] = "writing" /\ Step(r, "drain") /\ seen[r].closed
    /\ todo[r] = {} /\ again[r] # {}
    /\ todo' = [todo EXCEPT ![r] = DOMAIN listed[r]]
    /\ again' = [again EXCEPT ![r] = {}]
    /\ UNCHANGED <<stepVars, clusterVars, seen, want, listed, historyVars, edits>>

\* The end of a pass: another one, after a pause, while anything was refused.
\* There is no deadline here.
NextPass(r) ==
    /\ phase[r] = "writing" /\ Step(r, "drain") /\ seen[r].closed
    /\ todo[r] = {} /\ again[r] # {}
    /\ todo' = [todo EXCEPT ![r] = again[r]]
    /\ again' = [again EXCEPT ![r] = {}]
    /\ UNCHANGED <<stepVars, clusterVars, seen, want, listed, historyVars, edits>>

EvictedAll(r) ==
    /\ Step(r, "drain") /\ phase[r] = "writing" /\ seen[r].closed
    /\ todo[r] = {} /\ again[r] = {}
    /\ Executed(r, TRUE)
    /\ UNCHANGED <<clusterVars, ownVars, historyVars, edits>>

\* PodDelete.Execute: a refusal is final for this attempt.
EvictPod(r) ==
    /\ Step(r, "pod.delete") /\ phase[r] = "writing" /\ TargetExists(r)
    /\ IF EvictionAllowed(plan[r].name)
       THEN Remove(r, plan[r].name) /\ Executed(r, TRUE)
       ELSE UNCHANGED <<clusterVars, historyVars>> /\ WriteRefused(r)
    /\ UNCHANGED <<ownVars, edits>>

\* JobDelete.Execute: a Job is on no node, and no budget protects it.
DeleteJob(r) ==
    /\ Step(r, "job.delete") /\ phase[r] = "writing"
    /\ Remove(r, plan[r].name)
    /\ Executed(r, TRUE)
    /\ UNCHANGED <<ownVars, edits>>

\* The merge patch of the request, as it is carried out.  The API server
\* refuses what is less than the volume already has.
Resize(r) ==
    /\ claim.exists /\ want[r] >= claim.capacity
    /\ claim' = [claim EXCEPT !.request = want[r]]
    /\ writes' = writes \cup {[by |-> r, read |-> seen[r].request, value |-> want[r]]}
    /\ UNCHANGED <<objs, closed, nodeUp, budget, removed, reopened>>

\* PVCExpand.Execute.
Expand(r) ==
    /\ Step(r, "pvc.expand") /\ phase[r] = "writing" /\ claim.exists
    /\ IF want[r] >= claim.capacity
       THEN Resize(r) /\ Executed(r, TRUE)
       ELSE UNCHANGED <<clusterVars, historyVars>> /\ WriteRefused(r)
    /\ UNCHANGED <<ownVars, edits>>

\* The write the step is about to send, as it is carried out.
Carried(r) ==
    \/ Step(r, "drain") /\ ~seen[r].closed /\ SetClosed(r)
    \/ plan[r].action \in {"cordon", "uncordon"} /\ seen[r].closed # Wanted(r) /\ SetClosed(r)
    \/ Evicting(r) /\ Remove(r, Current(r))
    \/ plan[r].action \in {"pod.delete", "job.delete"} /\ Remove(r, plan[r].name)
    \/ Step(r, "pvc.expand") /\ Resize(r)

\* The request is lost, or it is carried out and its answer lost.
WriteError(r) ==
    /\ WriteFails(r)
    /\ UNCHANGED <<clusterVars, historyVars>> \/ Carried(r)
    /\ UNCHANGED <<ownVars, edits>>
-----------------------------------------------------------------------------
(* Verify.                                                                  *)

\* Mutant: only the pods the drain had listed are looked for.
DrainedOfListed(r) ==
    {n \in Evictable(plan[r]) : \E x \in removed : x.by = r /\ x.name = n /\ x.hit.uid = objs[n].uid} = {}

\* Drain.Verify lists the node again.
Drained(r) == Evictable(plan[r]) = {}

\* Mutant: a pod that is terminating counts as gone.
GoneOrGoing(r) ==
    \/ objs[plan[r].name].state # "running"
    \/ Step(r, "pod.delete") /\ objs[plan[r].name].uid # seen[r].uid

\* PodDelete.Verify and JobDelete.Verify: nothing has the name any more; for a
\* pod, something with another UID has it.
Gone(r) ==
    \/ objs[plan[r].name].state = "absent"
    \/ Step(r, "pod.delete") /\ objs[plan[r].name].uid # seen[r].uid

\* Mutant: the claim's request is taken for its capacity.
ExpandedOnPaper(r) == claim.exists /\ claim.request >= want[r]

\* PVCExpand.Verify.
Expanded(r) == claim.exists /\ claim.capacity >= want[r]

Achieved(r) ==
    CASE Step(r, "drain") -> Drained(r)
      [] plan[r].action \in {"cordon", "uncordon"} -> nodeUp /\ (Target \in closed) = Wanted(r)
      [] plan[r].action \in {"pod.delete", "job.delete"} -> Gone(r)
      [] Step(r, "pvc.expand") -> Expanded(r)

VerifyPasses(r) ==
    /\ phase[r] = "verifying" /\ Achieved(r)
    /\ Verified(r)
    /\ UNCHANGED <<clusterVars, ownVars, historyVars, edits>>

\* The deadline passes, or the node or the claim is not there any more, or
\* there are more evictable pods by now than the step allows.
VerifyFails(r) ==
    /\ VerifyTimesOut(r)
    /\ UNCHANGED <<clusterVars, ownVars, historyVars, edits>>
-----------------------------------------------------------------------------
Start(r) ==
    /\ Begin(r)
    /\ seen' = [seen EXCEPT ![r] = Nothing]
    /\ want' = [want EXCEPT ![r] = 0]
    /\ listed' = [listed EXCEPT ![r] = [n \in {} |-> Nothing]]
    /\ todo' = [todo EXCEPT ![r] = {}]
    /\ again' = [again EXCEPT ![r] = {}]
    /\ reopened' = reopened \ {r}
    /\ UNCHANGED <<clusterVars, removed, writes, edits>>

TryAgain(r) == Retry(r) /\ UNCHANGED <<clusterVars, ownVars, historyVars, edits>>
ReadError(r) == ReadFails(r) /\ UNCHANGED <<clusterVars, ownVars, historyVars, edits>>
Death == Die /\ UNCHANGED <<clusterVars, ownVars, historyVars, edits>>

(* The environment.                                                         *)

\* The kubelet, or the garbage collector, is done with it.
Terminated(n) ==
    /\ objs[n].state = "terminating"
    /\ objs' = [objs EXCEPT ![n] = [@ EXCEPT !.state = "absent", !.node = NoNode]]
    /\ UNCHANGED <<stepVars, closed, nodeUp, budget, claim, ownVars, historyVars, edits>>

\* What a name stands for from now on: a new object, not yet bound.
Anew(n, c) == [uid |-> objs[n].uid + 1, class |-> c, node |-> NoNode, state |-> "running"]

\* A StatefulSet uses the name again, a ReplicaSet gives out a new one for
\* each pod that is on its way out.
Replaced(n) ==
    /\ objs[n].state = "absent" /\ objs[n].uid < MaxUid
    /\ \/ objs[n].class = "stateful"
       \/ /\ objs[n].class = "replicated" /\ objs[n].uid = 0
          /\ \E x \in removed : x.hit.class = "replicated"
    /\ objs' = [objs EXCEPT ![n] = Anew(n, objs[n].class)]
    /\ UNCHANGED <<stepVars, closed, nodeUp, budget, claim, ownVars, historyVars, edits>>

\* The scheduler binds a pod to a node that is open.
Bind(n) ==
    /\ objs[n].state = "running" /\ objs[n].node = NoNode /\ n \in Pods
    /\ \E m \in Nodes \ closed : objs' = [objs EXCEPT ![n].node = m]
    /\ UNCHANGED <<stepVars, closed, nodeUp, budget, claim, ownVars, historyVars, edits>>

BudgetChanges ==
    /\ \E r \in Busy : plan[r].action \in {"drain", "pod.delete"}
    /\ budget' = ~budget
    /\ UNCHANGED <<stepVars, objs, closed, nodeUp, claim, ownVars, historyVars, edits>>

\* The volume driver finishes.
Resized ==
    /\ claim.capacity < claim.request
    /\ claim' = [claim EXCEPT !.capacity = claim.request]
    /\ UNCHANGED <<stepVars, objs, closed, nodeUp, budget, ownVars, historyVars, edits>>

\* A person opens or closes the node or removes it, removes an object, takes a
\* pod's controller away and leaves the pod, or changes the claim; or a pod ends
\* by itself (evicted by its kubelet, or a bare one that is done); or a name that
\* is free is used for a pod of any kind (by a person, or by a StatefulSet whose
\* template has changed).
Edit ==
    /\ edits < MaxEdits
    /\ edits' = edits + 1
    /\ \/ /\ closed' \in {closed \cup {Target}, closed \ {Target}} \ {closed}
          /\ reopened' = IF Target \in closed THEN reopened \cup Busy ELSE reopened
          /\ UNCHANGED <<objs, nodeUp, claim>>
       \/ /\ nodeUp /\ nodeUp' = FALSE
          /\ UNCHANGED <<objs, closed, claim, reopened>>
       \/ /\ \E n \in {m \in DOMAIN objs : objs[m].class \notin {"daemon", "mirror"}} :
               \/ objs[n].state = "running" /\ objs' = [objs EXCEPT ![n].state = "terminating"]
               \/ /\ objs[n].state = "running" /\ objs[n].class \in {"stateful", "bare"}
                  /\ objs[n].node # NoNode
                  /\ objs' = [objs EXCEPT ![n].state = "finished"]
               \/ /\ objs[n].state = "running" /\ objs[n].class \in {"replicated", "stateful"}
                  /\ objs' = [objs EXCEPT ![n].class = "bare"]
               \/ /\ objs[n].state = "absent" /\ objs[n].uid \in 1..(MaxUid - 1)
                  /\ \E c \in IF n \in Pods THEN Classes \ {"daemon", "mirror", "job"} ELSE {"job"} :
                       objs' = [objs EXCEPT ![n] = Anew(n, c)]
          /\ UNCHANGED <<closed, nodeUp, claim, reopened>>
       \/ /\ \E r \in Busy : Step(r, "pvc.expand")
          /\ claim' \in {[claim EXCEPT !.exists = FALSE], [claim EXCEPT !.expandable = FALSE],
                         [claim EXCEPT !.request = 4 * Unit]} \ {claim}
          /\ UNCHANGED <<objs, closed, nodeUp, reopened>>
    /\ UNCHANGED <<stepVars, budget, ownVars, removed, writes>>

\* What the worker does next, and may always do.
StepNext(r) ==
    \/ Start(r) \/ Fetch(r) \/ FetchNotFound(r) \/ Decide(r) \/ Refuse(r)
    \/ DrainCordons(r) \/ EvictAccepted(r) \/ EvictGone(r) \/ EvictRefused(r)
    \/ NextPass(r) \/ EvictedAll(r)
    \/ Cordon(r) \/ EvictPod(r) \/ DeleteJob(r) \/ Expand(r) \/ WriteNotFound(r)
    \/ VerifyPasses(r) \/ VerifyFails(r) \/ TryAgain(r)

Next ==
    \/ \E r \in Busy : StepNext(r) \/ WriteError(r) \/ ReadError(r)
    \/ \E n \in DOMAIN objs : Terminated(n) \/ Replaced(n) \/ Bind(n)
    \/ Death \/ BudgetChanges \/ Resized \/ Edit

\* A worker runs its step to the end within one reconcile.  Nothing is assumed
\* of the cluster.
Spec == Init /\ [][Next]_nodeVars /\ \A r \in Runners : WF_nodeVars(r \in Busy /\ StepNext(r))
-----------------------------------------------------------------------------
\* A drain recorded as Succeeded left nothing behind: for as long as nobody
\* has opened the node again, no pod the drain was to evict is on it, though
\* pods were bound there between the listing and the cordon, replacements were
\* scheduled and evictions were refused meanwhile (Drain.Verify).
DrainedMeansEmpty ==
    \A r \in Busy :
        (Step(r, "drain") /\ phase[r] = "succeeded" /\ r \notin reopened)
        => Evictable(plan[r]) = {}

\* What the parameters of a step let go (classify, checkOwner).
Expendable(p, c) ==
    CASE p.action = "drain" -> /\ c \notin {"daemon", "mirror", "job"}
                               /\ c = "bare" => p.bare
                               /\ c = "scratch" => p.scratch
      [] p.action = "pod.delete" -> c # "job" /\ (c = "bare" => p.bare)
      [] p.action = "job.delete" -> c = "job"
      [] OTHER -> FALSE

\* An eviction or a deletion names no UID, so what it ends need not be what was
\* read.  What it can end is limited all the same: the object the step read
\* under that name was one its parameters let go, and for a drain it was on the
\* node; what is ended is that very object, where it was and what it was unless
\* its controller was taken away since, or a later one of the same name,
\* whatever that is and wherever it runs; and no attempt ends two objects of
\* one name, so a drain never goes after the replacement of a pod it has
\* already moved (classify, evictAll, checkOwner).
RemovalsRestOnReadings ==
    /\ \A x \in removed :
         /\ Expendable(plan[x.by], x.read.class)
         /\ plan[x.by].action = "drain" => x.read.node = Target
         /\ x.read.uid <= x.hit.uid
         /\ x.read.uid = x.hit.uid => /\ x.read.node \in {NoNode, x.hit.node}
                                      /\ x.hit.class \in {x.read.class, "bare"}
    /\ \A x, y \in removed :
         x.by = y.by /\ x.at = y.at /\ x.name = y.name => x.hit.uid = y.hit.uid

\* A pod.delete or job.delete recorded as Succeeded means that the object
\* Execute had read is gone, not merely on its way out, whichever object of
\* that name the request then hit (PodDelete.Verify, JobDelete.Verify).
DeletedMeansGone ==
    \A r \in Busy :
        (plan[r].action \in {"pod.delete", "job.delete"} /\ phase[r] = "succeeded")
        => objs[plan[r].name].state = "absent" \/ objs[plan[r].name].uid # seen[r].uid

\* Every size written is more than was read and, for a percentage, within the
\* ceiling, wherever the int64 arithmetic wraps; and an expansion recorded as
\* Succeeded is capacity that has arrived (targetSize, PVCExpand.Verify).
ExpansionIsReal ==
    /\ \A w \in writes : /\ w.read < w.value
                         /\ plan[w.by].mode = "percent" => w.value <= plan[w.by].max
    /\ \A r \in Busy :
         (Step(r, "pvc.expand") /\ phase[r] = "succeeded")
         => \E w \in writes : w.by = r /\ w.value <= claim.capacity

\* Once the disruption budgets let pods go for good, every step comes to an
\* end: a drain has no deadline of its own for evicting, so it is the budget
\* that ends it, and the verification that bounds the rest (evictAll, Verify).
StepsEndOnceAllowed == <>[]budget => \A r \in Runners : <>(r \in Busy => Over(r))
=============================================================================

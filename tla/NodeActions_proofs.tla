------------------------- MODULE NodeActions_proofs -------------------------
(***************************************************************************)
(* Proofs about NodeActions, for any pods, Jobs, nodes, steps, disruption    *)
(* budgets, sizes and faults.                                                *)
(***************************************************************************)
EXTENDS NodeActions, StepRunner_proofs, WellFoundedInduction

Object == [uid : Nat, class : Classes, node : Nodes \cup {NoNode},
           state : {"running", "terminating", "finished", "absent"}]

Reads == {Nothing} \cup [closed : BOOLEAN] \cup Object \cup [request : Int]

(* The inductive invariant, in parts. *)

\* Only Jobs have the names of Jobs.
Kinds == \A n \in Cast(plan) : objs[n].class = "job" <=> n \notin Pods

Typed ==
    /\ StepTyped
    /\ objs \in [Cast(plan) -> Object] /\ Kinds
    /\ DOMAIN listed = Runners
    /\ claim \in [exists : BOOLEAN, request : Int, capacity : Int, expandable : BOOLEAN]
    /\ seen \in [Runners -> Reads] /\ want \in [Runners -> Int]
    /\ todo \in [Runners -> SUBSET Cast(plan)] /\ again \in [Runners -> SUBSET Cast(plan)]

Deletes(r) == plan[r].action \in {"pod.delete", "job.delete"}

Live == {"writing", "verifying", "succeeded"}

HasRead(r) == phase[r] \in Live \/ (phase[r] = "checking" /\ seen[r] # Nothing)

\* p is what has become of o, or a later object of its name.
Descends(o, p) ==
    /\ o.uid <= p.uid
    /\ o.uid = p.uid => /\ p.class \in {o.class, "bare"}
                        /\ p.state # "absent" => o.node \in {NoNode, p.node}

\* What a step remembers is what its action reads, and the object that has the
\* name now descends from the one that was read.
Informed(r) ==
    HasRead(r) =>
        /\ plan[r].action \in {"drain", "cordon", "uncordon"} => seen[r] \in [closed : BOOLEAN]
        /\ Deletes(r) => /\ seen[r] \in Object /\ Descends(seen[r], objs[plan[r].name])
                         /\ seen[r].class = "job" <=> Step(r, "job.delete")
        /\ Step(r, "pvc.expand") => seen[r] \in [request : Int]

\* A drain that has closed the node, or found it closed, has it closed for as
\* long as nobody opened it; only then are its evictions over.
Sealed(r) ==
    Step(r, "drain") =>
        /\ HasRead(r) /\ seen[r].closed /\ r \notin reopened => Target \in closed
        /\ phase[r] \in {"verifying", "succeeded"} => seen[r].closed
        /\ phase[r] = "succeeded" /\ r \notin reopened => Evictable(plan[r]) = {}

\* What a step is about to remove it has read, was allowed to remove as it was
\* read, and what has the name now descends from it.
Justified(r, n) ==
    /\ n \in Cast(plan) /\ listed[r][n] \in Object
    /\ Expendable(plan[r], listed[r][n].class)
    /\ Step(r, "drain") => listed[r][n].node = Target
    /\ Descends(listed[r][n], objs[n])

Spared(r) ==
    phase[r] = "writing" =>
        /\ todo[r] \cup again[r] \subseteq DOMAIN listed[r]
        /\ Deletes(r) => plan[r].name \in DOMAIN listed[r]
        /\ \A n \in DOMAIN listed[r] : Justified(r, n)

\* A removal of the current attempt of r.
Mine(x, r) == x.by = r /\ x.at = attempt[r]

\* What an attempt has removed it does not ask for again.
Unspent(r) ==
    /\ phase[r] = "checking" => /\ todo[r] = {} /\ again[r] = {}
                                /\ \A x \in removed : ~Mine(x, r)
    /\ phase[r] = "writing" => /\ todo[r] \cap again[r] = {}
                               /\ \A x \in removed :
                                    Mine(x, r) => ~Deletes(r) /\ x.name \notin todo[r] \cup again[r]

\* No removal is of an attempt yet to come.
Past == \A x \in removed : x.by \in Busy /\ x.at \in Nat /\ x.at <= attempt[x.by]

\* The size a step is about to write is a real increase; a check that it has
\* arrived is of a size that was written.
Sized(r) ==
    Step(r, "pvc.expand") =>
        /\ phase[r] \in Live => /\ seen[r].request < want[r]
                                /\ plan[r].mode = "percent" => want[r] <= plan[r].max
        /\ phase[r] \in {"verifying", "succeeded"} => \E w \in writes : w.by = r /\ w.value = want[r]
        /\ phase[r] = "succeeded" => want[r] <= claim.capacity

\* A deletion that succeeded was of an object that is not there any more.
Vanished(r) ==
    Deletes(r) /\ phase[r] = "succeeded"
    => objs[plan[r].name].state = "absent" \/ objs[plan[r].name].uid # seen[r].uid

Written ==
    \A w \in writes : w.read < w.value /\ (plan[w.by].mode = "percent" => w.value <= plan[w.by].max)

Inv ==
    /\ Typed /\ RemovalsRestOnReadings /\ Past /\ Written
    /\ \A r \in Busy : Informed(r) /\ Sealed(r) /\ Spared(r) /\ Unspent(r) /\ Sized(r) /\ Vanished(r)
-----------------------------------------------------------------------------
(* Facts about the parameters and the operators *)

LEMMA PlanFacts ==
    ASSUME StepTyped, NEW r \in Busy
    PROVE  /\ r \in Runners /\ plan[r].action \in Actions
           /\ Deletes(r) => plan[r].name \in Cast(plan)
           /\ Step(r, "drain") => Pods \subseteq Cast(plan)
           /\ Step(r, "pod.delete") => plan[r].name \in Pods
           /\ Step(r, "job.delete") => plan[r].name \notin Pods
           /\ plan[r].amount \in Int /\ plan[r].max \in Int
           /\ Cast(plan) \subseteq Nat
  <1>1. plan \in Plans /\ r \in Runners /\ r \in DOMAIN plan
    BY BusyRunners DEF StepTyped, StepTypeOK, Busy
  <1>2. /\ plan[r].action \in Actions /\ plan[r].amount \in 0..IntMax /\ plan[r].max \in 0..IntMax
        /\ plan[r].action = "pod.delete" => plan[r].name \in Pods
        /\ plan[r].action = "job.delete" => plan[r].name \in Objects \ Pods
    BY <1>1, NodeAssumption
  <1>3. Deletes(r) => plan[r].name \in Cast(plan)
    BY <1>1, <1>2, NodeAssumption DEF Deletes, Cast, Pods
  <1>4. \A q \in DOMAIN plan : plan[q].name \in Objects \cup {0}
    BY <1>1, NodeAssumption
  <1>5. Cast(plan) \subseteq Nat
    BY <1>4, NodeAssumption DEF Cast, Pods
  <1> QED BY <1>1, <1>2, <1>3, <1>5, FixedWidthAssumption DEF Step, Cast

LEMMA LeastIsMember ==
    ASSUME NEW S \in SUBSET Nat, S # {}
    PROVE  Min(S) \in S
  <1> DEFINE Less == {ss \in Nat \X Nat : ss[1] < ss[2]}
  <1>1. IsWellFoundedOn(Less, Nat)
    BY NatLessThanWellFounded, Zenon DEF OpToRel
  <1>2. PICK x \in S : \A y \in S : <<y, x>> \notin Less
    BY <1>1, WFMin, Zenon
  <1>3. \A y \in S : x <= y
    <2> SUFFICES ASSUME NEW y \in S
                 PROVE  ~(y < x)
      OBVIOUS
    <2>1. <<y, x>>[1] = y /\ <<y, x>>[2] = x /\ <<y, x>> \in Nat \X Nat
      OBVIOUS
    <2> QED BY <1>2, <2>1
  <1> QED BY <1>3 DEF Min

LEMMA WrapIsInt ==
    ASSUME NEW n \in Int
    PROVE  Wrap(n) \in Int
  <1>1. 2 * (IntMax + 1) \in Nat \ {0} /\ n + IntMax + 1 \in Int
    BY FixedWidthAssumption
  <1> QED BY <1>1, FixedWidthAssumption DEF Wrap

LEMMA QuotientIsInt ==
    ASSUME NEW a \in Int, NEW b \in Nat \ {0}
    PROVE  Quotient(a, b) \in Int
  BY DEF Quotient

\* Whatever the arithmetic wraps to, a size that is not refused is more than
\* the current one, and a percentage stays within its ceiling.
LEMMA SizesGrow ==
    ASSUME NEW p, NEW current \in Int, p.amount \in Int, p.max \in Int,
           NEW n \in TargetSizes(p, current)
    PROVE  n \in Int /\ current < n /\ (p.mode = "percent" => n <= p.max)
  <1> DEFINE grown == Wrap(current + Quotient(Wrap(current * p.amount), 100))
             whole == Wrap(Quotient(Wrap(grown + Unit - 1), Unit) * Unit)
  <1>1. current * p.amount \in Int
    OBVIOUS
  <1>2. grown \in Int
    BY <1>1, WrapIsInt, QuotientIsInt
  <1>3. whole \in Int
    <2> HIDE DEF grown
    <2>1. Unit \in Nat \ {0}
      BY NodeAssumption
    <2>2. Wrap(grown + Unit - 1) \in Int
      BY <1>2, <2>1, WrapIsInt
    <2>3. Quotient(Wrap(grown + Unit - 1), Unit) * Unit \in Int
      BY <2>1, <2>2, QuotientIsInt
    <2> QED BY <2>3, WrapIsInt
  <1>4. n = (IF p.mode = "size" THEN p.amount ELSE IF whole > p.max THEN p.max ELSE whole)
        /\ ~(n <= current)
    BY DEF TargetSizes
  <1> HIDE DEF whole
  <1> QED BY <1>3, <1>4
-----------------------------------------------------------------------------
(* How a step of the system moves things *)

\* What one worker does.
Work(r) == StepNext(r) \/ WriteError(r) \/ ReadError(r)

LEMMA WorkMoves ==
    ASSUME NEW r \in Busy, Work(r)
    PROVE  StepMove(r) \/ UNCHANGED stepVars
  BY DEF Work, StepNext, Start, Fetch, FetchNotFound, Decide, Refuse, DrainCordons, EvictAccepted,
         EvictGone, EvictRefused, NextPass, EvictedAll, Cordon, EvictPod, DeleteJob, Expand,
         WriteNotFound, VerifyPasses, VerifyFails, TryAgain, WriteError, ReadError, StepMove

LEMMA StepFrame ==
    ASSUME StepTyped, [Next]_nodeVars
    PROVE  StepTyped' /\ plan' = plan /\ Busy' = Busy
  <1>1. CASE \E r \in Busy : StepMove(r)
    BY <1>1, MoveOfStep DEF Busy
  <1>2. CASE Die
    BY <1>2, DeathOfSteps DEF Busy
  <1>3. CASE UNCHANGED stepVars
    BY <1>3 DEF stepVars, StepTyped, StepTypeOK, WithinBudget, Busy
  <1>4. (\E r \in Busy : Work(r)) \/ Die \/ UNCHANGED stepVars
    BY DEF Next, Work, Terminated, Replaced, Bind, Death, BudgetChanges, Resized, Edit, nodeVars
  <1> QED BY <1>1, <1>2, <1>3, <1>4, WorkMoves

\* How an object may change: a name that was free is used again under a higher
\* UID only, nothing comes to a node that is closed, and for as long as an
\* object lasts it stays where it is bound and what it is, or loses its
\* controller.
Follows(o, p) ==
    /\ p.uid >= o.uid
    /\ o.state = "absent" /\ p.state # "absent" => p.uid > o.uid
    /\ Target \in closed /\ p.node = Target /\ p.state \in {"running", "terminating"}
         => o.node = Target /\ o.state \in {"running", "terminating"} /\ p.uid = o.uid
    /\ p.uid = o.uid =>
         /\ p.class = o.class \/ (o.class \in {"replicated", "stateful"} /\ p.class = "bare")
         /\ p.state # "absent" => o.node \in {NoNode, p.node}
    /\ p.class = "job" <=> o.class = "job"

LEMMA DescentGoesOn ==
    ASSUME NEW o \in Object, NEW p \in Object, NEW q \in Object, Descends(o, p), Follows(p, q)
    PROVE  Descends(o, q)
  <1>1. o.uid \in Nat /\ p.uid \in Nat /\ q.uid \in Nat
    BY DEF Object
  <1>2. o.uid <= q.uid /\ (o.uid = q.uid => o.uid = p.uid /\ p.uid = q.uid)
    BY <1>1 DEF Descends, Follows
  <1>3. ASSUME o.uid = q.uid
        PROVE  q.class \in {o.class, "bare"} /\ (q.state # "absent" => o.node \in {NoNode, q.node})
    <2>1. q.state # "absent" => p.state # "absent"
      BY <1>1, <1>2, <1>3 DEF Follows
    <2> QED BY <1>2, <1>3, <2>1 DEF Descends, Follows
  <1> QED BY <1>2, <1>3 DEF Descends

LEMMA RemoveFollows ==
    ASSUME Typed, NEW r, NEW n \in Cast(plan), Remove(r, n)
    PROVE  \E p \in Object : objs' = [objs EXCEPT ![n] = p] /\ Follows(objs[n], p)
  <1> DEFINE to == IF objs[n].state = "finished" THEN "absent" ELSE "terminating"
             p == [objs[n] EXCEPT !.state = to]
  <1>1. objs[n] \in Object
    BY DEF Typed
  <1>2. to \in {"absent", "terminating"} /\ (to = "terminating" => objs[n].state # "finished")
    OBVIOUS
  <1>3. objs' = [objs EXCEPT ![n] = p] /\ objs[n].state # "absent"
    BY DEF Remove
  <1> HIDE DEF to
  <1>4. /\ p \in Object /\ p.uid = objs[n].uid /\ p.node = objs[n].node /\ p.state = to
        /\ p.class = objs[n].class
    BY <1>1, <1>2 DEF Object
  <1>5. Follows(objs[n], p)
    BY <1>1, <1>2, <1>3, <1>4 DEF Follows, Object
  <1> QED BY <1>3, <1>4, <1>5

LEMMA CurrentIsListed ==
    ASSUME Typed, NEW r \in Busy, todo[r] # {}
    PROVE  Current(r) \in todo[r] /\ Current(r) \in Cast(plan)
  <1>1. todo[r] \in SUBSET Cast(plan) /\ Cast(plan) \subseteq Nat
    BY PlanFacts DEF Typed
  <1> QED BY <1>1, LeastIsMember DEF Current

\* What the cluster's own actors, and people, do to one object.
LEMMA OthersFollow ==
    ASSUME Typed, NEW n \in Cast(plan), Terminated(n) \/ Replaced(n) \/ Bind(n)
    PROVE  \E p \in Object : objs' = [objs EXCEPT ![n] = p] /\ Follows(objs[n], p)
  <1>1. objs[n] \in Object /\ NoNode # Target
    BY NodeAssumption DEF Typed
  <1>2. CASE Terminated(n)
    <2> DEFINE p == [objs[n] EXCEPT !.state = "absent", !.node = NoNode]
    <2>1. /\ p \in Object /\ p.uid = objs[n].uid /\ p.node = NoNode /\ p.class = objs[n].class
          /\ p.state = "absent"
      BY <1>1 DEF Object
    <2>2. objs' = [objs EXCEPT ![n] = p] /\ objs[n].state = "terminating"
      BY <1>2 DEF Terminated
    <2>3. Follows(objs[n], p)
      BY <1>1, <2>1, <2>2 DEF Follows, Object
    <2> QED BY <2>1, <2>2, <2>3
  <1>3. CASE Replaced(n)
    <2> DEFINE p == Anew(n, objs[n].class)
    <2>1. p \in Object /\ p.uid = objs[n].uid + 1 /\ p.node = NoNode /\ p.class = objs[n].class
      BY <1>1 DEF Object, Anew
    <2>2. objs' = [objs EXCEPT ![n] = p]
      BY <1>3 DEF Replaced
    <2> HIDE DEF p
    <2>3. Follows(objs[n], p)
      BY <1>1, <2>1, <2>2 DEF Follows, Object
    <2> QED BY <2>1, <2>2, <2>3
  <1>4. CASE Bind(n)
    <2>1. PICK m \in Nodes \ closed : objs' = [objs EXCEPT ![n].node = m]
      BY <1>4 DEF Bind
    <2> DEFINE p == [objs[n] EXCEPT !.node = m]
    <2>2. /\ p \in Object /\ p.uid = objs[n].uid /\ p.node = m /\ p.state = objs[n].state
          /\ p.class = objs[n].class
      BY <1>1 DEF Object
    <2>3. objs' = [objs EXCEPT ![n] = p] /\ objs[n].state = "running" /\ objs[n].node = NoNode
      BY <1>4, <2>1 DEF Bind
    <2>4. Follows(objs[n], p)
      BY <1>1, <2>2, <2>3 DEF Follows, Object
    <2> QED BY <2>2, <2>3, <2>4
  <1> QED BY <1>2, <1>3, <1>4

LEMMA EditFollows ==
    ASSUME Typed, Edit, objs' # objs
    PROVE  \E n \in Cast(plan) : \E p \in Object :
               objs' = [objs EXCEPT ![n] = p] /\ Follows(objs[n], p)
  <1>1. DOMAIN objs = Cast(plan) /\ NoNode # Target
    BY NodeAssumption DEF Typed
  <1>2. PICK n \in Cast(plan) :
               \/ /\ objs[n].state = "running"
                  /\ \E st \in {"terminating", "finished"} : objs' = [objs EXCEPT ![n].state = st]
               \/ /\ objs[n].state = "running" /\ objs[n].class \in {"replicated", "stateful"}
                  /\ objs' = [objs EXCEPT ![n].class = "bare"]
               \/ \E c \in IF n \in Pods THEN Classes \ {"daemon", "mirror", "job"} ELSE {"job"} :
                       objs' = [objs EXCEPT ![n] = Anew(n, c)]
    BY <1>1 DEF Edit
  <1>3. objs[n] \in Object /\ (objs[n].class = "job" <=> n \notin Pods)
    BY DEF Typed, Kinds
  <1>4. CASE objs[n].state = "running"
             /\ \E st \in {"terminating", "finished"} : objs' = [objs EXCEPT ![n].state = st]
    <2>0. PICK st \in {"terminating", "finished"} : objs' = [objs EXCEPT ![n].state = st]
      BY <1>4
    <2> DEFINE p == [objs[n] EXCEPT !.state = st]
    <2>1. /\ p \in Object /\ p.uid = objs[n].uid /\ p.node = objs[n].node /\ p.class = objs[n].class
          /\ p.state = st
      BY <1>3 DEF Object
    <2>2. objs' = [objs EXCEPT ![n] = p]
      BY <2>0
    <2>3. Follows(objs[n], p)
      BY <1>3, <1>4, <2>1, <2>2 DEF Follows, Object
    <2> QED BY <2>1, <2>2, <2>3
  <1>5. CASE objs[n].state = "running" /\ objs[n].class \in {"replicated", "stateful"}
             /\ objs' = [objs EXCEPT ![n].class = "bare"]
    <2> DEFINE p == [objs[n] EXCEPT !.class = "bare"]
    <2>1. /\ p \in Object /\ p.uid = objs[n].uid /\ p.node = objs[n].node /\ p.class = "bare"
          /\ p.state = objs[n].state
      BY <1>3 DEF Object, Classes
    <2>2. objs' = [objs EXCEPT ![n] = p]
      BY <1>5
    <2>3. Follows(objs[n], p)
      BY <1>3, <1>5, <2>1, <2>2 DEF Follows, Object
    <2> QED BY <2>1, <2>2, <2>3
  <1>6. CASE \E c \in IF n \in Pods THEN Classes \ {"daemon", "mirror", "job"} ELSE {"job"} :
                 objs' = [objs EXCEPT ![n] = Anew(n, c)]
    <2>0. PICK c \in IF n \in Pods THEN Classes \ {"daemon", "mirror", "job"} ELSE {"job"} :
                 objs' = [objs EXCEPT ![n] = Anew(n, c)]
      BY <1>6
    <2> DEFINE p == Anew(n, c)
    <2>1. c \in Classes /\ (c = "job" <=> objs[n].class = "job")
      BY <1>3 DEF Classes
    <2>2. p \in Object /\ p.uid = objs[n].uid + 1 /\ p.node = NoNode /\ p.class = c
      BY <1>3, <2>1 DEF Object, Anew
    <2>3. objs' = [objs EXCEPT ![n] = p]
      BY <2>0
    <2> HIDE DEF p
    <2>4. Follows(objs[n], p)
      BY <1>1, <1>3, <2>1, <2>2 DEF Follows, Object
    <2> QED BY <2>2, <2>3, <2>4
  <1> QED BY <1>2, <1>4, <1>5, <1>6

\* The removals the API server carries out.
Removes(r) ==
    /\ phase[r] = "writing"
    /\ \/ Evicting(r) /\ Remove(r, Current(r))
       \/ Deletes(r) /\ Remove(r, plan[r].name)

LEMMA WorkRemoves ==
    ASSUME NEW r \in Busy, Work(r)
    PROVE  Removes(r) \/ UNCHANGED <<objs, removed>>
  <1>1. CASE EvictAccepted(r)
    BY <1>1 DEF EvictAccepted, Evicting, Removes
  <1>2. CASE EvictPod(r) \/ DeleteJob(r)
    BY <1>2 DEF EvictPod, DeleteJob, Removes, Deletes, Step, clusterVars, historyVars
  <1>3. CASE WriteError(r)
    <2>1. CASE Carried(r)
      BY <1>3, <2>1 DEF WriteError, WriteFails, Goes, Carried, Removes, Deletes, SetClosed, Resize
    <2>2. CASE ~Carried(r)
      BY <1>3, <2>2 DEF WriteError, clusterVars, historyVars
    <2> QED BY <2>1, <2>2
  <1>4. CASE DrainCordons(r) \/ Cordon(r) \/ Expand(r)
    BY <1>4 DEF DrainCordons, Cordon, Expand, SetClosed, Resize, clusterVars, historyVars
  <1> QED BY <1>1, <1>2, <1>3, <1>4
      DEF Work, StepNext, Start, Fetch, FetchNotFound, Decide, Refuse, EvictGone, EvictRefused,
          NextPass, EvictedAll, WriteNotFound, VerifyPasses, VerifyFails, TryAgain, ReadError,
          clusterVars, historyVars

LEMMA RemovesListed ==
    ASSUME Typed, NEW r \in Busy, Removes(r)
    PROVE  \E n \in Cast(plan) : /\ Remove(r, n)
                                 /\ \/ Deletes(r) /\ n = plan[r].name
                                    \/ Step(r, "drain") /\ n = Current(r) /\ n \in todo[r]
  <1>1. CASE Deletes(r) /\ Remove(r, plan[r].name)
    BY <1>1, PlanFacts DEF Typed
  <1>2. CASE Evicting(r) /\ Remove(r, Current(r))
    BY <1>2, CurrentIsListed DEF Evicting
  <1> QED BY <1>1, <1>2 DEF Removes

\* The objects, under every step.
LEMMA ObjectsStep ==
    ASSUME Typed, [Next]_nodeVars
    PROVE  objs' \in [Cast(plan) -> Object] /\ \A n \in Cast(plan) : Follows(objs[n], objs'[n])
  <1>1. \/ objs' = objs
        \/ \E n \in Cast(plan) : \E p \in Object :
               objs' = [objs EXCEPT ![n] = p] /\ Follows(objs[n], p)
    <2>0. DOMAIN objs = Cast(plan)
      BY DEF Typed
    <2>1. CASE \E r \in Busy : Removes(r)
      BY <2>1, RemovesListed, RemoveFollows
    <2>4. CASE \E n \in DOMAIN objs : Terminated(n) \/ Replaced(n) \/ Bind(n)
      BY <2>0, <2>4, OthersFollow
    <2>5. CASE Edit
      BY <2>5, EditFollows
    <2>6. CASE objs' = objs
      BY <2>6
    <2> QED BY <2>1, <2>4, <2>5, <2>6, WorkRemoves
        DEF Next, Work, Death, BudgetChanges, Resized, nodeVars, clusterVars
  <1>2. \A n \in Cast(plan) : objs[n] \in Object /\ Follows(objs[n], objs[n])
    BY DEF Typed, Object, Follows
  <1> QED BY <1>1, <1>2 DEF Typed

\* The patches of a claim and of a node that the API server carries out.
LEMMA WorkResizes ==
    ASSUME NEW r \in Busy, Work(r)
    PROVE  \/ phase[r] = "writing" /\ Step(r, "pvc.expand") /\ Resize(r)
           \/ UNCHANGED <<claim, writes>>
  <1>1. CASE Expand(r)
    BY <1>1 DEF Expand, clusterVars, historyVars
  <1>2. CASE WriteError(r)
    <2>1. CASE Carried(r)
      BY <1>2, <2>1 DEF WriteError, WriteFails, Goes, Carried, SetClosed, Remove
    <2>2. CASE ~Carried(r)
      BY <1>2, <2>2 DEF WriteError, clusterVars, historyVars
    <2> QED BY <2>1, <2>2
  <1>3. CASE DrainCordons(r) \/ Cordon(r)
    BY <1>3 DEF DrainCordons, Cordon, SetClosed, clusterVars, historyVars
  <1>4. CASE EvictAccepted(r) \/ EvictPod(r) \/ DeleteJob(r)
    BY <1>4 DEF EvictAccepted, EvictPod, DeleteJob, Remove, clusterVars, historyVars
  <1> QED BY <1>1, <1>2, <1>3, <1>4
      DEF Work, StepNext, Start, Fetch, FetchNotFound, Decide, Refuse, EvictGone, EvictRefused,
          NextPass, EvictedAll, WriteNotFound, VerifyPasses, VerifyFails, TryAgain, ReadError,
          clusterVars, historyVars

LEMMA WorkCloses ==
    ASSUME NEW r \in Busy, Work(r)
    PROVE  SetClosed(r) \/ Start(r) \/ UNCHANGED <<closed, reopened>>
  <1>1. CASE Expand(r)
    BY <1>1 DEF Expand, Resize, clusterVars, historyVars
  <1>2. CASE WriteError(r)
    <2>1. CASE Carried(r)
      BY <1>2, <2>1 DEF Carried, Resize, Remove
    <2>2. CASE ~Carried(r)
      BY <1>2, <2>2 DEF WriteError, clusterVars, historyVars
    <2> QED BY <2>1, <2>2
  <1>3. CASE DrainCordons(r) \/ Cordon(r)
    BY <1>3 DEF DrainCordons, Cordon, clusterVars, historyVars
  <1>4. CASE EvictAccepted(r) \/ EvictPod(r) \/ DeleteJob(r)
    BY <1>4 DEF EvictAccepted, EvictPod, DeleteJob, Remove, clusterVars, historyVars
  <1> QED BY <1>1, <1>2, <1>3, <1>4
      DEF Work, StepNext, Fetch, FetchNotFound, Decide, Refuse, EvictGone, EvictRefused,
          NextPass, EvictedAll, WriteNotFound, VerifyPasses, VerifyFails, TryAgain, ReadError,
          clusterVars, historyVars

\* The claim keeps its shape and never loses capacity.
LEMMA ClaimStep ==
    ASSUME Typed, [Next]_nodeVars
    PROVE  /\ claim' \in [exists : BOOLEAN, request : Int, capacity : Int, expandable : BOOLEAN]
           /\ claim'.capacity >= claim.capacity
  <1> USE DEF Typed
  <1>1. CASE \E r \in Busy : Resize(r)
    <2>1. PICK r \in Busy : Resize(r)
      BY <1>1
    <2>2. want[r] \in Int
      BY <2>1, BusyRunners DEF StepTyped
    <2>3. claim' = [claim EXCEPT !.request = want[r]]
      BY <2>1 DEF Resize
    <2> QED BY <2>2, <2>3
  <1>2. CASE Resized
    BY <1>2 DEF Resized
  <1>3. CASE Edit
    <2>1. Unit \in Nat
      BY NodeAssumption
    <2>2. \/ claim' = claim \/ claim' = [claim EXCEPT !.exists = FALSE]
          \/ claim' = [claim EXCEPT !.expandable = FALSE] \/ claim' = [claim EXCEPT !.request = 4 * Unit]
      BY <1>3 DEF Edit
    <2>3. CASE claim' = [claim EXCEPT !.exists = FALSE]
      <3>1. claim' \in [exists : BOOLEAN, request : Int, capacity : Int, expandable : BOOLEAN]
        BY <2>3, FALSE \in BOOLEAN, Zenon
      <3>2. claim'.capacity = claim.capacity /\ claim.capacity \in Int
        BY <2>3
      <3> QED BY <3>1, <3>2
    <2>4. CASE claim' = [claim EXCEPT !.expandable = FALSE]
      <3>1. claim' \in [exists : BOOLEAN, request : Int, capacity : Int, expandable : BOOLEAN]
        BY <2>4, FALSE \in BOOLEAN, Zenon
      <3>2. claim'.capacity = claim.capacity /\ claim.capacity \in Int
        BY <2>4
      <3> QED BY <3>1, <3>2
    <2>5. CASE claim' = [claim EXCEPT !.request = 4 * Unit]
      BY <2>1, <2>5
    <2> QED BY <2>2, <2>3, <2>4, <2>5
  <1>4. CASE claim' = claim
    BY <1>4
  <1> QED BY <1>1, <1>2, <1>3, <1>4, WorkResizes
      DEF Next, Work, Terminated, Replaced, Bind, Death, BudgetChanges, nodeVars, clusterVars
-----------------------------------------------------------------------------
(* What a step of the system means for one runner *)

Quiet(q) ==
    /\ phase'[q] = phase[q] /\ seen'[q] = seen[q] /\ want'[q] = want[q]
    /\ listed'[q] = listed[q] /\ todo'[q] = todo[q] /\ again'[q] = again[q]
    /\ attempt'[q] = attempt[q]

Stops(q) == phase'[q] \in {"pending", "simulated", "failed", "skipped", "interrupted"}

\* A worker leaves what the others know alone.
LEMMA OthersUntouched ==
    ASSUME Typed, NEW r \in Busy, Work(r), NEW q \in Busy \ {r}
    PROVE  Quiet(q)
  <1>0. q \in Runners /\ r \in Runners
    BY BusyRunners DEF Typed, StepTyped
  <1>1. phase'[q] = phase[q] /\ attempt'[q] = attempt[q]
    <2>1. StepMove(r) => phase'[q] = phase[q] /\ attempt'[q] = attempt[q]
      BY <1>0, MoveOfStep DEF Typed
    <2> QED BY <2>1, WorkMoves DEF stepVars
  <1>2. (\E x : seen' = [seen EXCEPT ![r] = x]) \/ seen' = seen
    BY DEF Work, StepNext, Start, Fetch, FetchNotFound, Decide, Refuse, DrainCordons,
           EvictAccepted, EvictGone, EvictRefused, NextPass, EvictedAll, Cordon, EvictPod,
           DeleteJob, Expand, WriteNotFound, VerifyPasses, VerifyFails, TryAgain, WriteError,
           ReadError, ownVars
  <1>3. (\E x : want' = [want EXCEPT ![r] = x]) \/ want' = want
    BY DEF Work, StepNext, Start, Fetch, FetchNotFound, Decide, Refuse, DrainCordons,
           EvictAccepted, EvictGone, EvictRefused, NextPass, EvictedAll, Cordon, EvictPod,
           DeleteJob, Expand, WriteNotFound, VerifyPasses, VerifyFails, TryAgain, WriteError,
           ReadError, ownVars
  <1>4. (\E x : todo' = [todo EXCEPT ![r] = x]) \/ todo' = todo
    BY DEF Work, StepNext, Start, Fetch, FetchNotFound, Decide, Refuse, DrainCordons,
           EvictAccepted, EvictGone, EvictRefused, NextPass, EvictedAll, Cordon, EvictPod,
           DeleteJob, Expand, WriteNotFound, VerifyPasses, VerifyFails, TryAgain, WriteError,
           ReadError, ownVars
  <1>5. (\E x : again' = [again EXCEPT ![r] = x]) \/ again' = again
    BY DEF Work, StepNext, Start, Fetch, FetchNotFound, Decide, Refuse, DrainCordons,
           EvictAccepted, EvictGone, EvictRefused, NextPass, EvictedAll, Cordon, EvictPod,
           DeleteJob, Expand, WriteNotFound, VerifyPasses, VerifyFails, TryAgain, WriteError,
           ReadError, ownVars
  <1>6. (\E x : listed' = [listed EXCEPT ![r] = x]) \/ listed' = listed
    BY DEF Work, StepNext, Start, Fetch, FetchNotFound, Decide, Refuse, DrainCordons,
           EvictAccepted, EvictGone, EvictRefused, NextPass, EvictedAll, Cordon, EvictPod,
           DeleteJob, Expand, WriteNotFound, VerifyPasses, VerifyFails, TryAgain, WriteError,
           ReadError, ownVars
  <1> QED BY <1>0, <1>1, <1>2, <1>3, <1>4, <1>5, <1>6 DEF Typed, Quiet

\* The steps that say something of runner q.
LEMMA RunnerSteps ==
    ASSUME Typed, NEW q \in Busy, [Next]_nodeVars
    PROVE  \/ Quiet(q) \/ Stops(q)
           \/ Start(q) \/ Fetch(q) \/ Decide(q)
           \/ DrainCordons(q) \/ EvictAccepted(q) \/ EvictGone(q) \/ EvictRefused(q)
           \/ NextPass(q) \/ EvictedAll(q) \/ Cordon(q) \/ EvictPod(q) \/ DeleteJob(q)
           \/ Expand(q) \/ VerifyPasses(q)
  <1>0. q \in Runners /\ phase \in [Runners -> Phases]
    BY BusyRunners DEF Typed, StepTyped, StepTypeOK
  <1>1. CASE \E r \in Busy \ {q} : Work(r)
    BY <1>1, OthersUntouched
  <1>2. CASE Work(q)
    <2>1. CASE FetchNotFound(q) \/ Refuse(q) \/ WriteNotFound(q) \/ VerifyFails(q)
      BY <1>0, <2>1 DEF FetchNotFound, Refuse, WriteNotFound, VerifyFails, Refused, WriteRefused,
         VerifyTimesOut, Goes, Stops, ownVars
    <2>2. CASE TryAgain(q) \/ WriteError(q) \/ ReadError(q)
      BY <1>0, <2>2 DEF TryAgain, WriteError, ReadError, Retry, WriteFails, ReadFails, Goes, Stops,
         ownVars
    <2> QED BY <1>2, <2>1, <2>2 DEF Work, StepNext
  <1>3. CASE Death
    BY <1>0, <1>3 DEF Death, Die, Stops, Quiet, ownVars
  <1>4. CASE UNCHANGED <<phase, attempt, seen, want, listed, todo, again>>
    BY <1>4 DEF Quiet
  <1> QED BY <1>1, <1>2, <1>3, <1>4
      DEF Next, Work, Terminated, Replaced, Bind, BudgetChanges, Resized, Edit, nodeVars,
          stepVars, ownVars

\* What is written down as done stays written down, and nobody opens the node
\* without it being noted.
LEMMA HistoryStep ==
    ASSUME Typed, NEW q \in Busy, [Next]_nodeVars
    PROVE  /\ writes \subseteq writes'
           /\ q \in reopened => q \in reopened' \/ Start(q)
           /\ Target \in closed => Target \in closed' \/ q \in reopened'
  <1>1. CASE \E r \in Busy : Work(r)
    <2>1. PICK r \in Busy : Work(r)
      BY <1>1
    <2>2. writes \subseteq writes'
      BY <2>1, WorkResizes DEF Resize
    <2>3. CASE SetClosed(r)
      BY <2>2, <2>3 DEF SetClosed
    <2>4. CASE Start(r)
      BY <2>2, <2>4 DEF Start, clusterVars
    <2> QED BY <2>1, <2>2, <2>3, <2>4, WorkCloses
  <1>2. CASE Edit
    BY <1>2 DEF Edit
  <1>3. CASE UNCHANGED <<closed, reopened, writes>>
    BY <1>3
  <1> QED BY <1>1, <1>2, <1>3
      DEF Next, Work, Terminated, Replaced, Bind, Death, BudgetChanges, Resized, nodeVars,
          clusterVars, historyVars

\* What a step decides to write is an integer, and what it decides to evict is
\* what it may evict.
LEMMA Decision ==
    ASSUME Typed, NEW r \in Busy, Informed(r), Decide(r)
    PROVE  /\ want'[r] \in Int /\ todo'[r] \subseteq Cast(plan)
           /\ todo'[r] \subseteq DOMAIN listed'[r]
           /\ Deletes(r) => plan[r].name \in DOMAIN listed'[r]
           /\ phase'[r] = "writing" => \A n \in DOMAIN listed'[r] : Justified(r, n)'
           /\ Step(r, "pvc.expand") => /\ seen[r].request < want'[r]
                                       /\ plan[r].mode = "percent" => want'[r] <= plan[r].max
           /\ \E x \in Int : want' = [want EXCEPT ![r] = x]
           /\ \E x \in SUBSET Cast(plan) : todo' = [todo EXCEPT ![r] = x]
  <1>0. r \in Runners /\ DOMAIN objs = Cast(plan)
    BY PlanFacts DEF Typed
  <1> DEFINE w == IF Step(r, "pvc.expand")
                  THEN CHOOSE n \in TargetSizes(plan[r], seen[r].request) : TRUE ELSE 0
             t == IF Step(r, "drain") THEN Evictable(plan[r]) ELSE {}
  <1>1. want' = [want EXCEPT ![r] = w] /\ todo' = [todo EXCEPT ![r] = t]
    BY DEF Decide
  <1>2. w \in Int /\ (Step(r, "pvc.expand") => /\ seen[r].request < w
                                               /\ plan[r].mode = "percent" => w <= plan[r].max)
    <2>1. CASE Step(r, "pvc.expand")
      <3>1. TargetSizes(plan[r], seen[r].request) # {}
        BY <2>1 DEF Decide, Passes, Step
      <3>2. seen[r].request \in Int
        BY <2>1 DEF Decide, Informed, HasRead
      <3>3. w \in TargetSizes(plan[r], seen[r].request)
        BY <2>1, <3>1
      <3>4. plan[r].amount \in Int /\ plan[r].max \in Int
        BY PlanFacts DEF Typed
      <3> HIDE DEF w
      <3> QED BY <3>2, <3>3, <3>4, SizesGrow
    <2>2. CASE ~Step(r, "pvc.expand")
      BY <2>2
    <2> QED BY <2>1, <2>2
  <1>3. t \subseteq Cast(plan) /\ \A n \in t : Moves(plan[r], objs[n].class) /\ objs[n].node = Target
    BY <1>0 DEF Evictable
  <1>4. listed'[r] = ToRemove(r) /\ objs' = objs /\ plan' = plan
    BY <1>0 DEF Decide, Typed, clusterVars, Planned
  <1>5. /\ t \subseteq DOMAIN ToRemove(r)
        /\ Deletes(r) => plan[r].name \in DOMAIN ToRemove(r)
    <2>1. CASE Step(r, "drain")
      BY <2>1 DEF ToRemove, Deletes, Step
    <2>2. CASE Deletes(r)
      BY <2>2 DEF ToRemove, Deletes, Step
    <2>3. CASE ~Step(r, "drain") /\ ~Deletes(r)
      BY <2>3
    <2> QED BY <2>1, <2>2, <2>3
  <1>6. ASSUME phase'[r] = "writing", NEW n \in DOMAIN ToRemove(r)
        PROVE  Justified(r, n)'
    <2>1. CASE Step(r, "drain")
      <3>0. ToRemove(r) = [m \in Evictable(plan[r]) |-> objs[m]]
        BY <2>1 DEF ToRemove, Step
      <3>1. n \in Evictable(plan[r]) /\ ToRemove(r)[n] = objs[n]
        BY <1>6, <3>0
      <3>2. n \in Cast(plan) /\ Moves(plan[r], objs[n].class) /\ objs[n].node = Target
        BY <1>0, <3>1 DEF Evictable
      <3>3. objs[n] \in Object
        BY <3>2 DEF Typed
      <3>4. Expendable(plan[r], objs[n].class)
        BY <2>1, <3>2 DEF Expendable, Moves, Step
      <3>5. Descends(objs[n], objs[n])
        BY <3>3 DEF Descends, Object
      <3> QED BY <1>4, <3>1, <3>2, <3>3, <3>4, <3>5 DEF Justified
    <2>2. CASE Deletes(r)
      <3>1. n = plan[r].name /\ ToRemove(r)[n] = seen[r] /\ ~Step(r, "drain")
        BY <1>6, <2>2 DEF ToRemove, Deletes, Step
      <3>2. /\ seen[r] \in Object /\ Descends(seen[r], objs[n])
            /\ seen[r].class = "job" <=> Step(r, "job.delete")
        BY <2>2, <3>1 DEF Decide, Informed, HasRead
      <3>3. n \in Cast(plan)
        BY <2>2, <3>1, PlanFacts DEF Typed
      <3>4. Expendable(plan[r], seen[r].class)
        <4>1. CASE Step(r, "pod.delete")
          BY <3>2, <4>1 DEF Decide, Passes, Expendable, Step
        <4>2. CASE Step(r, "job.delete")
          BY <3>2, <4>2 DEF Expendable, Step
        <4> QED BY <2>2, <4>1, <4>2 DEF Deletes, Step
      <3> QED BY <1>4, <3>1, <3>2, <3>3, <3>4 DEF Justified, Step
    <2>3. CASE ~Step(r, "drain") /\ ~Deletes(r)
      <3>1. DOMAIN ToRemove(r) = {}
        BY <2>3 DEF ToRemove, Deletes
      <3> QED BY <1>6, <3>1
    <2> QED BY <2>1, <2>2, <2>3
  <1> HIDE DEF w, t
  <1>7. want'[r] = w /\ todo'[r] = t
    BY <1>0, <1>1 DEF Typed
  <1>8. (\E x \in Int : want' = [want EXCEPT ![r] = x])
        /\ (\E x \in SUBSET Cast(plan) : todo' = [todo EXCEPT ![r] = x])
    BY <1>1, <1>2, <1>3
  <1> QED BY <1>2, <1>3, <1>4, <1>5, <1>6, <1>7, <1>8

LEMMA TypedStep ==
    ASSUME Typed, \A r \in Busy : Informed(r), [Next]_nodeVars
    PROVE  Typed'
  <1>1. StepTyped' /\ plan' = plan
    BY StepFrame DEF Typed
  <1>0. Busy \subseteq Runners
    BY BusyRunners DEF Typed, StepTyped
  <1>2. objs' \in [Cast(plan) -> Object]
    BY ObjectsStep
  <1>7. Kinds'
    BY <1>1, ObjectsStep DEF Typed, Kinds, Follows
  <1>8. DOMAIN listed' = Runners
    BY DEF Typed, Next, StepNext, Start, Fetch, FetchNotFound, Decide, Refuse, DrainCordons,
           EvictAccepted, EvictGone, EvictRefused, NextPass, EvictedAll, Cordon, EvictPod,
           DeleteJob, Expand, WriteNotFound, VerifyPasses, VerifyFails, TryAgain, WriteError,
           ReadError, Terminated, Replaced, Bind, Death, BudgetChanges, Resized, Edit, nodeVars,
           ownVars
  <1>3. claim' \in [exists : BOOLEAN, request : Int, capacity : Int, expandable : BOOLEAN]
    BY ClaimStep
  <1>4. seen' \in [Runners -> Reads]
    <2>1. CASE \E r \in Busy : Start(r)
      BY <1>0, <2>1 DEF Start, Typed, Reads
    <2>2. CASE \E r \in Busy : Fetch(r)
      <3>1. PICK r \in Busy : Fetch(r)
        BY <2>2
      <3>2. plan[r].action \in Actions /\ r \in Runners
        BY PlanFacts DEF Typed
      <3> DEFINE x == CASE plan[r].action \in {"drain", "cordon", "uncordon"} -> [closed |-> Target \in closed]
                        [] plan[r].action \in {"pod.delete", "job.delete"} -> objs[plan[r].name]
                        [] Step(r, "pvc.expand") -> [request |-> claim.request]
      <3>3. seen' = [seen EXCEPT ![r] = x]
        BY <3>1 DEF Fetch
      <3>4. x \in Reads
        <4>1. CASE plan[r].action \in {"drain", "cordon", "uncordon"}
          <5>1. x = [closed |-> Target \in closed]
            BY <4>1 DEF Step
          <5>2. (Target \in closed) \in BOOLEAN
            OBVIOUS
          <5> HIDE DEF x
          <5> QED BY <5>1, <5>2, Zenon DEF Reads
        <4>2. CASE Deletes(r)
          <5>1. x = objs[plan[r].name]
            BY <4>2 DEF Step, Deletes
          <5>2. objs[plan[r].name] \in Object
            BY <4>2, PlanFacts DEF Typed
          <5> HIDE DEF x
          <5> QED BY <5>1, <5>2 DEF Reads
        <4>3. CASE Step(r, "pvc.expand")
          <5>1. x = [request |-> claim.request]
            BY <4>3 DEF Step
          <5>2. claim.request \in Int
            BY DEF Typed
          <5> HIDE DEF x
          <5> QED BY <5>1, <5>2 DEF Reads
        <4> QED BY <3>2, <4>1, <4>2, <4>3 DEF Actions, Deletes, Step
      <3> HIDE DEF x
      <3> QED BY <3>2, <3>3, <3>4 DEF Typed
    <2>3. CASE \E r \in Busy : DrainCordons(r)
      <3>1. PICK r \in Busy : DrainCordons(r)
        BY <2>3
      <3>2. seen[r] \in [closed : BOOLEAN]
        BY <3>1 DEF DrainCordons, Informed, HasRead, Live, Step
      <3> DEFINE x == [seen[r] EXCEPT !.closed = TRUE]
      <3>3. seen' = [seen EXCEPT ![r] = x]
        BY <3>1 DEF DrainCordons
      <3>4. x \in [closed : BOOLEAN]
        BY <3>2, TRUE \in BOOLEAN, Zenon
      <3> HIDE DEF x
      <3> QED BY <1>0, <3>3, <3>4 DEF Typed, Reads
    <2>4. CASE seen' = seen
      BY <2>4 DEF Typed
    <2> QED BY <2>1, <2>2, <2>3, <2>4
        DEF Next, StepNext, FetchNotFound, Decide, Refuse, EvictAccepted, EvictGone, EvictRefused,
            NextPass, EvictedAll, Cordon, EvictPod, DeleteJob, Expand, WriteNotFound, VerifyPasses,
            VerifyFails, TryAgain, WriteError, ReadError, Terminated, Replaced, Bind, Death,
            BudgetChanges, Resized, Edit, nodeVars, ownVars
  <1>5. want' \in [Runners -> Int]
    <2>1. CASE \E r \in Busy : Start(r)
      BY <1>0, <2>1 DEF Start, Typed
    <2>2. CASE \E r \in Busy : Decide(r)
      BY <1>0, <2>2, Decision DEF Typed
    <2>3. CASE want' = want
      BY <2>3 DEF Typed
    <2> QED BY <2>1, <2>2, <2>3
        DEF Next, StepNext, Fetch, FetchNotFound, Refuse, DrainCordons, EvictAccepted, EvictGone,
            EvictRefused, NextPass, EvictedAll, Cordon, EvictPod, DeleteJob, Expand, WriteNotFound,
            VerifyPasses, VerifyFails, TryAgain, WriteError, ReadError, Terminated, Replaced, Bind,
            Death, BudgetChanges, Resized, Edit, nodeVars, ownVars
  <1>6. todo' \in [Runners -> SUBSET Cast(plan)] /\ again' \in [Runners -> SUBSET Cast(plan)]
    <2>1. CASE \E r \in Busy : Start(r)
      BY <1>0, <2>1 DEF Start, Typed
    <2>2. CASE \E r \in Busy : Decide(r)
      <3>1. again' = again
        BY <2>2 DEF Decide
      <3> QED BY <1>0, <2>2, <3>1, Decision DEF Typed
    <2>3. CASE \E r \in Busy : EvictAccepted(r) \/ EvictGone(r) \/ EvictRefused(r)
      <3>1. PICK r \in Busy : EvictAccepted(r) \/ EvictGone(r) \/ EvictRefused(r)
        BY <2>3
      <3>2. Current(r) \in Cast(plan) /\ r \in Runners
        BY <1>0, <3>1, CurrentIsListed DEF EvictAccepted, EvictGone, EvictRefused, Evicting
      <3>3. /\ todo' = [todo EXCEPT ![r] = @ \ {Current(r)}]
            /\ again' = again \/ again' = [again EXCEPT ![r] = @ \cup {Current(r)}]
        BY <3>1 DEF EvictAccepted, EvictGone, EvictRefused
      <3> QED BY <3>2, <3>3 DEF Typed
    <2>4. CASE \E r \in Busy : NextPass(r)
      BY <1>0, <2>4 DEF NextPass, Typed
    <2>5. CASE UNCHANGED <<todo, again>>
      BY <2>5 DEF Typed
    <2> QED BY <2>1, <2>2, <2>3, <2>4, <2>5
        DEF Next, StepNext, Fetch, FetchNotFound, Refuse, DrainCordons, EvictedAll, Cordon,
            EvictPod, DeleteJob, Expand, WriteNotFound, VerifyPasses, VerifyFails, TryAgain,
            WriteError, ReadError, Terminated, Replaced, Bind, Death, BudgetChanges, Resized, Edit,
            nodeVars, ownVars
  <1> QED BY <1>1, <1>2, <1>3, <1>4, <1>5, <1>6, <1>7, <1>8 DEF Typed
-----------------------------------------------------------------------------
(* What a step has read *)

LEMMA InformedStays ==
    ASSUME Typed, NEW q \in Busy, Informed(q), [Next]_nodeVars,
           seen'[q] = seen[q], HasRead(q)' => HasRead(q)
    PROVE  Informed(q)'
  <1>1. plan' = plan
    BY StepFrame DEF Typed
  <1>2. ASSUME Deletes(q), seen[q] \in Object, Descends(seen[q], objs[plan[q].name])
        PROVE  Descends(seen[q], objs'[plan[q].name])
    <2>1. plan[q].name \in Cast(plan)
      BY <1>2, PlanFacts DEF Typed
    <2>2. /\ objs[plan[q].name] \in Object /\ objs'[plan[q].name] \in Object
          /\ Follows(objs[plan[q].name], objs'[plan[q].name])
      BY <2>1, ObjectsStep DEF Typed
    <2> QED BY <1>2, <2>2, DescentGoesOn
  <1> QED BY <1>1, <1>2 DEF Informed, Deletes, Step

LEMMA InformedStep ==
    ASSUME Typed, NEW q \in Busy, Informed(q), [Next]_nodeVars
    PROVE  Informed(q)'
  <1>0. /\ q \in Runners /\ phase \in [Runners -> Phases] /\ seen \in [Runners -> Reads]
        /\ plan' = plan
    BY BusyRunners, StepFrame DEF Typed, StepTyped, StepTypeOK
  <1>1. CASE Quiet(q)
    BY <1>1, InformedStays DEF Quiet, HasRead
  <1>2. CASE Stops(q)
    BY <1>2 DEF Stops, Informed, HasRead, Live
  <1>3. CASE Start(q)
    <2>1. seen'[q] = Nothing /\ phase'[q] \in {"checking", "failed"}
      BY <1>0, <1>3 DEF Start, Begin, Goes
    <2> QED BY <2>1 DEF Informed, HasRead, Live
  <1>4. CASE Fetch(q)
    <2>1. /\ seen'[q] = CASE plan[q].action \in {"drain", "cordon", "uncordon"} -> [closed |-> Target \in closed]
                          [] plan[q].action \in {"pod.delete", "job.delete"} -> objs[plan[q].name]
                          [] Step(q, "pvc.expand") -> [request |-> claim.request]
          /\ objs' = objs
      BY <1>0, <1>4 DEF Fetch, clusterVars
    <2>2. ASSUME plan[q].action \in {"drain", "cordon", "uncordon"}
          PROVE  seen'[q] \in [closed : BOOLEAN]
      <3>1. seen'[q] = [closed |-> Target \in closed]
        BY <2>1, <2>2 DEF Step
      <3>2. [closed |-> Target \in closed] \in [closed : BOOLEAN]
        <4>1. (Target \in closed) \in BOOLEAN
          OBVIOUS
        <4> QED BY <4>1, Zenon
      <3> QED BY <3>1, <3>2
    <2>3. ASSUME Deletes(q)
          PROVE  /\ seen'[q] \in Object /\ Descends(seen'[q], objs'[plan[q].name])
                 /\ seen'[q].class = "job" <=> Step(q, "job.delete")
      <3>1. seen'[q] = objs[plan[q].name] /\ objs' = objs
        BY <2>1, <2>3 DEF Deletes, Step
      <3>2. plan[q].name \in Cast(plan)
        BY <2>3, PlanFacts DEF Typed
      <3>3. objs[plan[q].name] \in Object
        BY <3>2 DEF Typed
      <3>4. Descends(objs[plan[q].name], objs[plan[q].name])
        BY <3>3 DEF Descends, Object
      <3>5. objs[plan[q].name].class = "job" <=> plan[q].name \notin Pods
        BY <3>2 DEF Typed, Kinds
      <3>6. plan[q].name \notin Pods <=> Step(q, "job.delete")
        BY <2>3, PlanFacts DEF Typed, Deletes, Step
      <3> QED BY <3>1, <3>3, <3>4, <3>5, <3>6
    <2>4. ASSUME Step(q, "pvc.expand")
          PROVE  seen'[q] \in [request : Int]
      <3>1. seen'[q] = [request |-> claim.request]
        BY <2>1, <2>4 DEF Step
      <3> QED BY <3>1 DEF Typed
    <2> QED BY <1>0, <2>2, <2>3, <2>4 DEF Informed, Deletes, Step
  <1>5. CASE Decide(q)
    BY <1>5, InformedStays DEF Decide, HasRead
  <1>6. CASE DrainCordons(q)
    <2>1. Step(q, "drain") /\ seen[q] \in [closed : BOOLEAN]
      BY <1>6 DEF DrainCordons, Informed, HasRead, Live, Step
    <2>2. seen'[q] = [seen[q] EXCEPT !.closed = TRUE]
      BY <1>0, <1>6 DEF DrainCordons
    <2>3. seen'[q] \in [closed : BOOLEAN]
      BY <2>1, <2>2, TRUE \in BOOLEAN, Zenon
    <2> QED BY <1>0, <2>1, <2>3 DEF Informed, Deletes, Step
  <1>7. CASE EvictAccepted(q) \/ EvictGone(q) \/ EvictRefused(q) \/ NextPass(q)
    BY <1>7, InformedStays DEF EvictAccepted, EvictGone, EvictRefused, NextPass, Evicting, HasRead,
       Live
  <1>8. CASE EvictedAll(q) \/ Cordon(q) \/ EvictPod(q) \/ DeleteJob(q) \/ Expand(q) \/ VerifyPasses(q)
    BY <1>8, InformedStays DEF EvictedAll, Cordon, EvictPod, DeleteJob, Expand, VerifyPasses,
       HasRead, Live, ownVars
  <1> QED BY <1>1, <1>2, <1>3, <1>4, <1>5, <1>6, <1>7, <1>8, RunnerSteps
-----------------------------------------------------------------------------
(* A drained node *)

LEMMA SealStays ==
    ASSUME Typed, NEW q \in Busy, Step(q, "drain"), Sealed(q), [Next]_nodeVars, ~Start(q),
           seen'[q] = seen[q], HasRead(q)' => HasRead(q)
    PROVE  HasRead(q)' /\ seen'[q].closed /\ q \notin reopened' => Target \in closed'
  BY HistoryStep DEF Sealed

LEMMA SealedStep ==
    ASSUME Typed, NEW q \in Busy, Informed(q), Sealed(q), [Next]_nodeVars
    PROVE  Sealed(q)'
  <1>0. /\ q \in Runners /\ phase \in [Runners -> Phases] /\ seen \in [Runners -> Reads]
        /\ plan' = plan /\ DOMAIN objs = Cast(plan) /\ DOMAIN objs' = Cast(plan)
    BY BusyRunners, StepFrame, ObjectsStep DEF Typed, StepTyped, StepTypeOK
  <1>a. CASE ~Step(q, "drain")
    BY <1>0, <1>a DEF Sealed, Step
  <1>b. CASE Step(q, "drain")
    <2>1. CASE Quiet(q)
      <3>1. phase'[q] = phase[q] /\ seen'[q] = seen[q] /\ (HasRead(q)' => HasRead(q))
        BY <2>1 DEF Quiet, HasRead
      <3>2. CASE Start(q)
        BY <1>0, <3>1, <3>2 DEF Start, Begin, Goes
      <3>3. CASE ~Start(q)
        <4>1. HasRead(q)' /\ seen'[q].closed /\ q \notin reopened' => Target \in closed'
          BY <1>b, <3>1, <3>3, SealStays
        <4>2. ASSUME phase[q] = "succeeded", q \notin reopened'
              PROVE  Evictable(plan[q])' = {}
          <5>1. q \notin reopened /\ Evictable(plan[q]) = {} /\ Target \in closed
            BY <1>b, <3>3, <4>2, HistoryStep DEF Sealed, HasRead, Live
          <5>2. \A n \in Cast(plan) : Follows(objs[n], objs'[n])
            BY ObjectsStep
          <5>3. ASSUME NEW n \in Cast(plan), n \in Evictable(plan[q])'
                PROVE  n \in Evictable(plan[q])
            <6>1. /\ objs'[n].node = Target /\ objs'[n].state \in {"running", "terminating"}
                  /\ Moves(plan[q], objs'[n].class)
              BY <1>0, <5>3 DEF Evictable, Moves
            <6>2. /\ objs[n].node = Target /\ objs[n].state \in {"running", "terminating"}
                  /\ \/ objs'[n].class = objs[n].class
                     \/ objs[n].class \in {"replicated", "stateful"}
              BY <5>1, <5>2, <6>1 DEF Follows
            <6>3. Moves(plan[q], objs[n].class)
              BY <6>1, <6>2 DEF Moves
            <6> QED BY <1>0, <6>2, <6>3 DEF Evictable
          <5> QED BY <1>0, <5>1, <5>3 DEF Evictable
        <4> QED BY <1>0, <1>b, <3>1, <4>1, <4>2 DEF Sealed
      <3> QED BY <3>2, <3>3
    <2>2. CASE Stops(q)
      BY <2>2 DEF Stops, Sealed, HasRead, Live
    <2>3. CASE Start(q)
      <3>1. seen'[q] = Nothing /\ phase'[q] \in {"checking", "failed"}
        BY <1>0, <2>3 DEF Start, Begin, Goes
      <3> QED BY <3>1 DEF Sealed, HasRead, Live
    <2>4. CASE Fetch(q)
      <3>1. seen'[q] = [closed |-> Target \in closed] /\ closed' = closed /\ phase'[q] = "checking"
        BY <1>0, <1>b, <2>4 DEF Fetch, clusterVars, stepVars, Step
      <3>2. [closed |-> Target \in closed].closed = (Target \in closed)
        BY Zenon
      <3>3. seen'[q].closed = (Target \in closed)
        BY <3>1, <3>2, Zenon
      <3> QED BY <3>1, <3>3 DEF Sealed
    <2>5. CASE Decide(q)
      <3>1. seen'[q] = seen[q] /\ HasRead(q) /\ phase'[q] \in {"simulated", "writing"} /\ ~Start(q)
        BY <1>0, <2>5 DEF Decide, HasRead, Planned, Goes, Start, Begin
      <3> QED BY <1>b, <3>1, SealStays DEF Sealed
    <2>6. CASE DrainCordons(q)
      <3>1. Target \in closed' /\ phase'[q] = "writing"
        BY <1>b, <2>6 DEF DrainCordons, SetClosed, Wanted, Step, stepVars
      <3> QED BY <3>1 DEF Sealed
    <2>7. CASE EvictAccepted(q) \/ EvictGone(q) \/ EvictRefused(q) \/ NextPass(q)
      <3>1. seen'[q] = seen[q] /\ HasRead(q) /\ phase'[q] = "writing" /\ ~Start(q)
        BY <1>0, <2>7 DEF EvictAccepted, EvictGone, EvictRefused, NextPass, Evicting, HasRead, Live,
           stepVars, Start, Begin, Goes
      <3> QED BY <1>b, <3>1, SealStays DEF Sealed
    <2>8. CASE EvictedAll(q)
      <3>1. /\ seen'[q] = seen[q] /\ HasRead(q) /\ phase'[q] \in {"verifying", "failed"} /\ ~Start(q)
            /\ seen[q].closed
        BY <1>0, <2>8 DEF EvictedAll, HasRead, Live, Executed, Start, Begin, Goes, ownVars
      <3> QED BY <1>b, <3>1, SealStays DEF Sealed
    <2>9. CASE VerifyPasses(q)
      <3>1. /\ seen'[q] = seen[q] /\ HasRead(q) /\ phase[q] = "verifying" /\ ~Start(q)
            /\ objs' = objs
        BY <1>0, <2>9 DEF VerifyPasses, HasRead, Live, Start, Begin, Goes, ownVars, clusterVars
      <3>2. Evictable(plan[q]) = {}
        BY <1>b, <2>9 DEF VerifyPasses, Achieved, Drained, Step
      <3>3. Evictable(plan[q])' = {}
        BY <1>0, <3>1, <3>2 DEF Evictable
      <3> QED BY <1>0, <1>b, <3>1, <3>3, SealStays DEF Sealed
    <2>10. ~Cordon(q) /\ ~EvictPod(q) /\ ~DeleteJob(q) /\ ~Expand(q)
      BY <1>b DEF Cordon, EvictPod, DeleteJob, Expand, Step
    <2> QED BY <2>1, <2>2, <2>3, <2>4, <2>5, <2>6, <2>7, <2>8, <2>9, <2>10, RunnerSteps
  <1> QED BY <1>a, <1>b
-----------------------------------------------------------------------------
(* What may be removed *)

LEMMA SparedStays ==
    ASSUME Typed, NEW q \in Busy, Spared(q), [Next]_nodeVars, phase[q] = "writing",
           listed'[q] = listed[q], todo'[q] \cup again'[q] \subseteq todo[q] \cup again[q]
    PROVE  Spared(q)'
  <1>0. plan' = plan
    BY StepFrame DEF Typed
  <1>1. ASSUME NEW n \in DOMAIN listed[q]
        PROVE  Justified(q, n)'
    <2>1. Justified(q, n)
      BY <1>1 DEF Spared
    <2>2. n \in Cast(plan) /\ listed[q][n] \in Object
      BY <2>1 DEF Justified
    <2>3. objs[n] \in Object /\ objs'[n] \in Object /\ Follows(objs[n], objs'[n])
      BY <2>2, ObjectsStep DEF Typed
    <2>4. Descends(listed[q][n], objs'[n])
      BY <2>1, <2>2, <2>3, DescentGoesOn DEF Justified
    <2> QED BY <1>0, <2>1, <2>4 DEF Justified, Step
  <1> QED BY <1>0, <1>1 DEF Spared, Deletes

LEMMA SparedStep ==
    ASSUME Typed, NEW q \in Busy, Informed(q), Spared(q), Unspent(q), [Next]_nodeVars
    PROVE  Spared(q)'
  <1>0. /\ q \in Runners /\ phase \in [Runners -> Phases] /\ plan' = plan
        /\ todo \in [Runners -> SUBSET Cast(plan)] /\ again \in [Runners -> SUBSET Cast(plan)]
    BY BusyRunners, StepFrame DEF Typed, StepTyped, StepTypeOK
  <1>1. CASE phase'[q] # "writing"
    BY <1>1 DEF Spared
  <1>2. CASE Quiet(q)
    <2>1. CASE phase[q] = "writing"
      BY <1>2, <2>1, SparedStays DEF Quiet
    <2> QED BY <1>1, <1>2, <2>1 DEF Quiet
  <1>3. CASE Stops(q) \/ Start(q) \/ Fetch(q)
    BY <1>0, <1>1, <1>3 DEF Stops, Start, Begin, Goes, Fetch, stepVars
  <1>4. CASE Decide(q)
    <2>1. phase[q] = "checking" /\ again' = again /\ again[q] = {}
      BY <1>4 DEF Decide, Unspent
    <2> QED BY <1>0, <1>4, <2>1, Decision DEF Spared, Deletes
  <1>5. CASE DrainCordons(q)
    <2>1. listed' = listed /\ todo' = todo /\ again' = again /\ phase[q] = "writing"
      BY <1>5 DEF DrainCordons
    <2> QED BY <2>1, SparedStays
  <1>6. CASE EvictAccepted(q) \/ EvictGone(q) \/ EvictRefused(q)
    <2>1. Current(q) \in todo[q] /\ listed' = listed /\ phase[q] = "writing"
      BY <1>6, CurrentIsListed DEF EvictAccepted, EvictGone, EvictRefused, Evicting
    <2>2. /\ todo' = [todo EXCEPT ![q] = @ \ {Current(q)}]
          /\ again' = again \/ again' = [again EXCEPT ![q] = @ \cup {Current(q)}]
      BY <1>6 DEF EvictAccepted, EvictGone, EvictRefused
    <2>3. todo'[q] \subseteq todo[q] /\ again'[q] \subseteq again[q] \cup todo[q]
      BY <1>0, <2>1, <2>2
    <2> QED BY <2>1, <2>3, SparedStays
  <1>7. CASE NextPass(q)
    <2>1. todo'[q] = again[q] /\ again'[q] = {} /\ listed' = listed /\ phase[q] = "writing"
      BY <1>0, <1>7 DEF NextPass
    <2> QED BY <2>1, SparedStays
  <1>8. CASE EvictedAll(q) \/ Cordon(q) \/ EvictPod(q) \/ DeleteJob(q) \/ Expand(q) \/ VerifyPasses(q)
    BY <1>0, <1>1, <1>8 DEF EvictedAll, Cordon, EvictPod, DeleteJob, Expand, VerifyPasses, Executed,
       WriteRefused, Verified, Goes
  <1> QED BY <1>2, <1>3, <1>4, <1>5, <1>6, <1>7, <1>8, RunnerSteps

\* A removal is noted under the attempt that asked for it.
LEMMA RemovalNoted ==
    ASSUME Typed, NEW r \in Busy, Removes(r)
    PROVE  \E n \in Cast(plan) :
             /\ removed' = removed \cup {[by |-> r, at |-> attempt[r], name |-> n,
                                         read |-> listed[r][n], hit |-> objs[n]]}
             /\ objs[n].state # "absent"
             /\ \/ Deletes(r) /\ n = plan[r].name
                \/ Step(r, "drain") /\ n = Current(r) /\ n \in todo[r]
  BY RemovesListed DEF Remove

\* Who removed something, if anything was removed.
LEMMA WhoRemoved ==
    ASSUME Typed, [Next]_nodeVars
    PROVE  removed' = removed \/ \E r \in Busy : Work(r) /\ Removes(r)
  BY WorkRemoves DEF Next, Work, Terminated, Replaced, Bind, Death, BudgetChanges, Resized, Edit,
     nodeVars, historyVars

LEMMA AttemptsGoOn ==
    ASSUME StepTyped, [Next]_nodeVars, NEW q \in Busy
    PROVE  attempt[q] \in Nat /\ attempt'[q] \in Nat /\ attempt[q] <= attempt'[q]
  <1>0. attempt \in [Runners -> Nat] /\ Busy \subseteq Runners
    BY BusyRunners DEF StepTyped, StepTypeOK
  <1>1. CASE \E r \in Busy : StepMove(r)
    <2>1. PICK r \in Busy : StepMove(r)
      BY <1>1
    <2>2. /\ attempt'[r] \in {attempt[r], attempt[r] + 1}
          /\ \A p \in Runners \ {r} : attempt'[p] = attempt[p]
      BY <2>1, MoveOfStep
    <2> QED BY <1>0, <2>2
  <1>2. CASE Die
    BY <1>0, <1>2, DeathOfSteps
  <1>3. CASE UNCHANGED stepVars
    BY <1>0, <1>3 DEF stepVars
  <1>4. (\E r \in Busy : Work(r)) \/ Die \/ UNCHANGED stepVars
    BY DEF Next, Work, Terminated, Replaced, Bind, Death, BudgetChanges, Resized, Edit, nodeVars
  <1> QED BY <1>1, <1>2, <1>3, <1>4, WorkMoves

LEMMA PastStep ==
    ASSUME Typed, Past, [Next]_nodeVars
    PROVE  Past'
  <1>0. Busy' = Busy /\ \A q \in Busy : attempt[q] \in Nat /\ attempt'[q] \in Nat /\ attempt[q] <= attempt'[q]
    BY StepFrame, AttemptsGoOn DEF Typed
  <1>1. CASE removed' = removed
    BY <1>0, <1>1 DEF Past
  <1>2. ASSUME NEW r \in Busy, Removes(r)
        PROVE  Past'
    <2>1. PICK n \in Cast(plan) : removed' = removed \cup {[by |-> r, at |-> attempt[r], name |-> n,
                                         read |-> listed[r][n], hit |-> objs[n]]}
      BY <1>2, RemovalNoted
    <2>2. ASSUME NEW x \in removed
          PROVE  x.by \in Busy /\ x.at \in Nat /\ x.at <= attempt'[x.by]
      BY <1>0, <2>2 DEF Past
    <2> DEFINE z == [by |-> r, at |-> attempt[r], name |-> n, read |-> listed[r][n], hit |-> objs[n]]
    <2>3. z.by = r /\ z.at = attempt[r]
      OBVIOUS
    <2> HIDE DEF z
    <2> QED BY <1>0, <1>2, <2>1, <2>2, <2>3 DEF Past, z
  <1> QED BY <1>1, <1>2, WhoRemoved

\* Nothing new was removed, and the attempt is the same.
LEMMA UnspentStays ==
    ASSUME NEW q, Unspent(q), plan' = plan, attempt'[q] = attempt[q],
           \A x \in removed' : x \in removed \/ x.by # q,
           phase'[q] = "checking" => phase[q] = "checking" /\ todo'[q] = todo[q] /\ again'[q] = again[q],
           phase'[q] = "writing" =>
               /\ phase[q] = "writing" /\ todo'[q] \cap again'[q] = {}
               /\ todo'[q] \cup again'[q] \subseteq todo[q] \cup again[q]
    PROVE  Unspent(q)'
  <1>1. \A x \in removed' : Mine(x, q)' => x \in removed /\ Mine(x, q)
    BY DEF Mine
  <1>2. Deletes(q)' <=> Deletes(q)
    BY DEF Deletes
  <1>3. ASSUME phase'[q] = "checking"
        PROVE  todo'[q] = {} /\ again'[q] = {} /\ \A x \in removed' : ~Mine(x, q)'
    BY <1>1, <1>3 DEF Unspent
  <1>4. ASSUME phase'[q] = "writing"
        PROVE  /\ todo'[q] \cap again'[q] = {}
               /\ \A x \in removed' : Mine(x, q)' => ~Deletes(q) /\ x.name \notin todo'[q] \cup again'[q]
    BY <1>1, <1>4 DEF Unspent
  <1> QED BY <1>2, <1>3, <1>4 DEF Unspent, Mine

LEMMA UnspentStep ==
    ASSUME Typed, Past, NEW q \in Busy, Unspent(q), [Next]_nodeVars
    PROVE  Unspent(q)'
  <1>0. /\ q \in Runners /\ phase \in [Runners -> Phases] /\ plan' = plan
        /\ todo \in [Runners -> SUBSET Cast(plan)] /\ again \in [Runners -> SUBSET Cast(plan)]
        /\ attempt \in [Runners -> Nat]
    BY BusyRunners, StepFrame DEF Typed, StepTyped, StepTypeOK
  <1>1. CASE phase'[q] \notin {"checking", "writing"}
    BY <1>1 DEF Unspent
  <1>2. CASE removed' = removed
    <2>1. CASE Quiet(q)
      BY <1>0, <1>2, <2>1, UnspentStays DEF Quiet, Unspent
    <2>2. CASE Stops(q)
      BY <1>1, <2>2 DEF Stops
    <2>3. CASE Start(q)
      <3>1. /\ todo'[q] = {} /\ again'[q] = {} /\ attempt'[q] = attempt[q] + 1
            /\ phase'[q] \in {"checking", "failed"}
        BY <1>0, <2>3 DEF Start, Begin, Goes
      <3>2. \A x \in removed : ~(x.by = q /\ x.at = attempt[q] + 1)
        BY <1>0 DEF Past
      <3> QED BY <1>2, <3>1, <3>2 DEF Unspent, Mine
    <2>4. CASE Fetch(q)
      BY <1>0, <1>2, <2>4, UnspentStays DEF Fetch, stepVars, Unspent
    <2>5. CASE Decide(q)
      <3>1. /\ phase[q] = "checking" /\ phase'[q] \in {"simulated", "writing"}
            /\ again' = again /\ attempt' = attempt
        BY <1>0, <2>5 DEF Decide, Planned, Goes
      <3>2. again[q] = {} /\ \A x \in removed : ~Mine(x, q)
        BY <3>1 DEF Unspent
      <3>3. again'[q] = {} /\ \A x \in removed' : ~Mine(x, q)'
        BY <1>2, <3>1, <3>2 DEF Mine
      <3> QED BY <3>1, <3>3 DEF Unspent
    <2>6. CASE DrainCordons(q)
      BY <1>0, <1>2, <2>6, UnspentStays DEF DrainCordons, stepVars, Unspent
    <2>7. CASE EvictAccepted(q) \/ EvictGone(q) \/ EvictRefused(q)
      <3>1. Current(q) \in todo[q] /\ phase' = phase /\ attempt' = attempt /\ phase[q] = "writing"
        BY <2>7, CurrentIsListed DEF EvictAccepted, EvictGone, EvictRefused, Evicting, stepVars
      <3>2. /\ todo' = [todo EXCEPT ![q] = @ \ {Current(q)}]
            /\ again' = again \/ again' = [again EXCEPT ![q] = @ \cup {Current(q)}]
        BY <2>7 DEF EvictAccepted, EvictGone, EvictRefused
      <3>3. todo[q] \cap again[q] = {}
        BY <3>1 DEF Unspent
      <3>4. /\ todo'[q] = todo[q] \ {Current(q)}
            /\ again'[q] \subseteq again[q] \cup {Current(q)}
        BY <1>0, <3>2
      <3>5. todo'[q] \cap again'[q] = {} /\ todo'[q] \cup again'[q] \subseteq todo[q] \cup again[q]
        BY <3>1, <3>3, <3>4
      <3> QED BY <1>0, <1>2, <3>1, <3>5, UnspentStays
    <2>8. CASE NextPass(q)
      <3>1. /\ todo'[q] = again[q] /\ again'[q] = {} /\ phase' = phase /\ attempt' = attempt
            /\ phase[q] = "writing"
        BY <1>0, <2>8 DEF NextPass, stepVars
      <3> QED BY <1>0, <1>2, <3>1, UnspentStays
    <2>9. CASE EvictedAll(q) \/ Cordon(q) \/ EvictPod(q) \/ DeleteJob(q) \/ Expand(q) \/ VerifyPasses(q)
      BY <1>0, <1>1, <2>9 DEF EvictedAll, Cordon, EvictPod, DeleteJob, Expand, VerifyPasses, Executed,
         WriteRefused, Verified, Goes
    <2> QED BY <2>1, <2>2, <2>3, <2>4, <2>5, <2>6, <2>7, <2>8, <2>9, RunnerSteps
  <1>3. CASE \E r \in Busy \ {q} : Work(r) /\ Removes(r)
    <2>1. PICK r \in Busy \ {q} : Work(r) /\ Removes(r)
      BY <1>3
    <2>2. Quiet(q)
      BY <2>1, OthersUntouched
    <2>3. \A x \in removed' : x \in removed \/ x.by # q
      BY <2>1, RemovalNoted
    <2> QED BY <1>0, <2>2, <2>3, UnspentStays DEF Quiet, Unspent
  <1>4. CASE Work(q) /\ Removes(q)
    <2>1. phase[q] = "writing"
      BY <1>4 DEF Removes
    <2>2. CASE EvictAccepted(q)
      <3>1. /\ phase' = phase /\ attempt' = attempt /\ again' = again /\ Step(q, "drain")
            /\ todo' = [todo EXCEPT ![q] = @ \ {Current(q)}] /\ Remove(q, Current(q))
        BY <2>2 DEF EvictAccepted, Evicting, stepVars
      <3>2. Current(q) \in todo[q]
        BY <2>2, CurrentIsListed DEF EvictAccepted, Evicting
      <3>3. todo[q] \cap again[q] = {} /\ \A x \in removed : Mine(x, q) => x.name \notin todo[q] \cup again[q]
        BY <2>1 DEF Unspent
      <3>4. todo'[q] = todo[q] \ {Current(q)} /\ again'[q] = again[q]
        BY <1>0, <3>1
      <3>5. \A x \in removed' : x \in removed \/ x.name = Current(q)
        BY <3>1 DEF Remove
      <3>6. \A x \in removed' : Mine(x, q)' => x.name \notin todo'[q] \cup again'[q]
        BY <3>1, <3>2, <3>3, <3>4, <3>5 DEF Mine
      <3>7. ~Deletes(q)'
        BY <1>0, <3>1 DEF Deletes, Step
      <3> QED BY <2>1, <3>1, <3>3, <3>4, <3>6, <3>7 DEF Unspent
    <2>3. CASE EvictPod(q) \/ DeleteJob(q) \/ WriteError(q)
      BY <1>0, <1>1, <2>3 DEF EvictPod, DeleteJob, WriteError, Executed, WriteRefused, WriteFails, Goes
    <2>4. CASE EvictedAll(q) \/ Cordon(q) \/ Expand(q) \/ WriteNotFound(q)
      BY <1>0, <1>1, <2>4 DEF EvictedAll, Cordon, Expand, WriteNotFound, Executed, WriteRefused, Goes
    <2>5. CASE removed' = removed /\ ~EvictAccepted(q)
      BY <1>2, <2>5
    <2> QED BY <1>4, <2>1, <2>2, <2>3, <2>4, <2>5
        DEF Work, StepNext, Start, Begin, Fetch, FetchNotFound, Decide, Refuse, DrainCordons,
            SetClosed, EvictGone, EvictRefused, NextPass, VerifyPasses, Verified, VerifyFails,
            VerifyTimesOut, TryAgain, Retry, ReadError, ReadFails, Goes, Refused, historyVars
  <1> QED BY <1>2, <1>3, <1>4, WhoRemoved

LEMMA ReadingsStep ==
    ASSUME Typed, RemovalsRestOnReadings, \A r \in Busy : Spared(r) /\ Unspent(r), [Next]_nodeVars
    PROVE  RemovalsRestOnReadings'
  <1>0. plan' = plan
    BY StepFrame DEF Typed
  <1>1. CASE removed' = removed
    BY <1>0, <1>1 DEF RemovalsRestOnReadings, Expendable
  <1>2. ASSUME NEW r \in Busy, Removes(r)
        PROVE  RemovalsRestOnReadings'
    <2>1. PICK n \in Cast(plan) :
             /\ removed' = removed \cup {[by |-> r, at |-> attempt[r], name |-> n,
                                         read |-> listed[r][n], hit |-> objs[n]]}
             /\ objs[n].state # "absent"
             /\ \/ Deletes(r) /\ n = plan[r].name
                \/ Step(r, "drain") /\ n = Current(r) /\ n \in todo[r]
      BY <1>2, RemovalNoted
    <2> DEFINE z == [by |-> r, at |-> attempt[r], name |-> n, read |-> listed[r][n], hit |-> objs[n]]
    <2>2. phase[r] = "writing"
      BY <1>2 DEF Removes
    <2>3. n \in DOMAIN listed[r]
      BY <2>1, <2>2 DEF Spared
    <2>4. Justified(r, n)
      BY <2>2, <2>3 DEF Spared
    <2>5. z.by = r /\ z.at = attempt[r] /\ z.name = n /\ z.read = listed[r][n] /\ z.hit = objs[n]
      OBVIOUS
    <2>6. removed' = removed \cup {z}
      BY <2>1
    <2> HIDE DEF z
    <2>7. \A x \in removed : ~(x.by = r /\ x.at = attempt[r] /\ x.name = n)
      BY <2>1, <2>2 DEF Unspent, Mine
    <2>8. /\ Expendable(plan[z.by], z.read.class)
          /\ plan[z.by].action = "drain" => z.read.node = Target
          /\ z.read.uid <= z.hit.uid
          /\ z.read.uid = z.hit.uid => /\ z.read.node \in {NoNode, z.hit.node}
                                       /\ z.hit.class \in {z.read.class, "bare"}
      BY <2>1, <2>4, <2>5 DEF Justified, Descends, Step
    <2>9. ASSUME NEW x \in removed', NEW y \in removed', x.by = y.by, x.at = y.at, x.name = y.name
          PROVE  x.hit.uid = y.hit.uid
      BY <2>5, <2>6, <2>7, <2>9 DEF RemovalsRestOnReadings
    <2>10. \A x \in removed' :
             /\ Expendable(plan[x.by], x.read.class)
             /\ plan[x.by].action = "drain" => x.read.node = Target
             /\ x.read.uid <= x.hit.uid
             /\ x.read.uid = x.hit.uid => /\ x.read.node \in {NoNode, x.hit.node}
                                          /\ x.hit.class \in {x.read.class, "bare"}
      BY <2>6, <2>8 DEF RemovalsRestOnReadings
    <2> QED BY <1>0, <2>9, <2>10 DEF RemovalsRestOnReadings, Expendable
  <1> QED BY <1>1, <1>2, WhoRemoved
-----------------------------------------------------------------------------
(* Sizes *)

LEMMA SizedStep ==
    ASSUME Typed, NEW q \in Busy, Informed(q), Sized(q), [Next]_nodeVars
    PROVE  Sized(q)'
  <1>0. /\ q \in Runners /\ phase \in [Runners -> Phases] /\ plan' = plan
        /\ want[q] \in Int
    BY BusyRunners, StepFrame DEF Typed, StepTyped, StepTypeOK
  <1>a. CASE ~Step(q, "pvc.expand")
    BY <1>0, <1>a DEF Sized, Step
  <1>b. CASE Step(q, "pvc.expand")
    <2>1. CASE Quiet(q)
      <3>1. writes \subseteq writes' /\ claim'.capacity >= claim.capacity
            /\ claim'.capacity \in Int /\ claim.capacity \in Int
        BY HistoryStep, ClaimStep DEF Typed
      <3>2. phase[q] = "succeeded" => want[q] <= claim'.capacity
        BY <1>0, <1>b, <3>1 DEF Sized
      <3>3. phase[q] \in {"verifying", "succeeded"} => \E w \in writes' : w.by = q /\ w.value = want[q]
        BY <1>b, <3>1 DEF Sized
      <3>4. phase[q] \in Live => seen[q].request < want[q] /\ (plan[q].mode = "percent" => want[q] <= plan[q].max)
        BY <1>b DEF Sized
      <3> QED BY <1>0, <2>1, <3>2, <3>3, <3>4 DEF Sized, Quiet
    <2>2. CASE Stops(q) \/ Start(q) \/ Fetch(q)
      <3>1. phase'[q] \notin Live
        BY <1>0, <2>2 DEF Stops, Start, Begin, Goes, Fetch, stepVars, Live
      <3> QED BY <3>1 DEF Sized, Live
    <2>3. CASE Decide(q)
      <3>1. phase'[q] \in {"simulated", "writing"} /\ seen' = seen
        BY <1>0, <2>3 DEF Decide, Planned, Goes
      <3>2. seen[q].request < want'[q] /\ (plan[q].mode = "percent" => want'[q] <= plan[q].max)
        BY <1>b, <2>3, Decision
      <3> QED BY <1>0, <3>1, <3>2 DEF Sized, Live
    <2>4. CASE Expand(q)
      <3>1. /\ phase[q] = "writing" /\ phase'[q] \in {"verifying", "failed"}
            /\ seen' = seen /\ want' = want
        BY <1>0, <2>4 DEF Expand, Executed, WriteRefused, Goes, ownVars
      <3>2. phase'[q] = "verifying" => \E w \in writes' : w.by = q /\ w.value = want[q]
        <4> DEFINE w == [by |-> q, read |-> seen[q].request, value |-> want[q]]
        <4>1. (writes' = writes \cup {w}) \/ WriteRefused(q)
          BY <2>4 DEF Expand, Resize
        <4>2. WriteRefused(q) => phase'[q] = "failed"
          BY <1>0 DEF WriteRefused, Goes
        <4>3. w.by = q /\ w.value = want[q]
          OBVIOUS
        <4> QED BY <4>1, <4>2, <4>3
      <3> QED BY <1>0, <1>b, <3>1, <3>2 DEF Sized, Live
    <2>5. CASE VerifyPasses(q)
      <3>1. /\ phase[q] = "verifying" /\ phase'[q] = "succeeded"
            /\ seen' = seen /\ want' = want /\ writes' = writes /\ claim' = claim
        BY <1>0, <2>5 DEF VerifyPasses, Verified, Goes, ownVars, historyVars, clusterVars
      <3>2. claim.capacity >= want[q] /\ claim.capacity \in Int
        BY <1>b, <2>5 DEF VerifyPasses, Achieved, Expanded, Step, Typed
      <3> QED BY <1>0, <1>b, <3>1, <3>2 DEF Sized, Live
    <2>6. /\ ~DrainCordons(q) /\ ~EvictAccepted(q) /\ ~EvictGone(q) /\ ~EvictRefused(q)
          /\ ~NextPass(q) /\ ~EvictedAll(q) /\ ~Cordon(q) /\ ~EvictPod(q) /\ ~DeleteJob(q)
      BY <1>b DEF DrainCordons, EvictAccepted, EvictGone, EvictRefused, Evicting, NextPass,
         EvictedAll, Cordon, EvictPod, DeleteJob, Step
    <2> QED BY <2>1, <2>2, <2>3, <2>4, <2>5, <2>6, RunnerSteps
  <1> QED BY <1>a, <1>b

LEMMA WrittenStep ==
    ASSUME Typed, Written, \A r \in Busy : Sized(r), [Next]_nodeVars
    PROVE  Written'
  <1>0. plan' = plan
    BY StepFrame DEF Typed
  <1>1. CASE writes' = writes
    BY <1>0, <1>1 DEF Written
  <1>2. CASE \E r \in Busy : phase[r] = "writing" /\ Step(r, "pvc.expand") /\ Resize(r)
    <2>1. PICK r \in Busy : phase[r] = "writing" /\ Step(r, "pvc.expand") /\ Resize(r)
      BY <1>2
    <2>2. writes' = writes \cup {[by |-> r, read |-> seen[r].request, value |-> want[r]]}
      BY <2>1 DEF Resize
    <2>3. seen[r].request < want[r] /\ (plan[r].mode = "percent" => want[r] <= plan[r].max)
      BY <2>1 DEF Sized, Live
    <2> QED BY <1>0, <2>2, <2>3 DEF Written
  <1> QED BY <1>1, <1>2, WorkResizes
      DEF Next, Work, Terminated, Replaced, Bind, Death, BudgetChanges, Resized, Edit, nodeVars,
          historyVars
-----------------------------------------------------------------------------
(* Deletions *)

LEMMA VanishedStep ==
    ASSUME Typed, NEW q \in Busy, Informed(q), Vanished(q), [Next]_nodeVars
    PROVE  Vanished(q)'
  <1>0. q \in Runners /\ phase \in [Runners -> Phases] /\ plan' = plan
    BY BusyRunners, StepFrame DEF Typed, StepTyped, StepTypeOK
  <1> DEFINE n == plan[q].name
  <1>1. CASE Quiet(q)
    <2> SUFFICES ASSUME Deletes(q), phase[q] = "succeeded"
                 PROVE  objs'[n].state = "absent" \/ objs'[n].uid # seen[q].uid
      BY <1>0, <1>1 DEF Quiet, Vanished, Deletes
    <2>1. n \in Cast(plan)
      BY PlanFacts DEF Typed
    <2>2. objs[n].uid \in Nat /\ objs'[n].uid \in Nat /\ Follows(objs[n], objs'[n])
      BY <2>1, ObjectsStep DEF Typed, Object
    <2>3. seen[q].uid \in Nat /\ seen[q].uid <= objs[n].uid
      BY DEF Informed, HasRead, Live, Descends, Object
    <2>4. objs[n].state = "absent" \/ objs[n].uid # seen[q].uid
      BY DEF Vanished
    <2> HIDE DEF n
    <2> QED BY <2>2, <2>3, <2>4 DEF Follows
  <1>2. CASE VerifyPasses(q)
    <2>1. objs' = objs /\ seen' = seen
      BY <1>2 DEF VerifyPasses, ownVars, clusterVars
    <2>2. Deletes(q) => Gone(q)
      BY <1>2 DEF VerifyPasses, Achieved, Deletes, Step
    <2> QED BY <1>0, <2>1, <2>2 DEF Vanished, Gone, Deletes
  <1>3. CASE phase'[q] # "succeeded"
    BY <1>3 DEF Vanished
  <1>4. CASE Stops(q) \/ Start(q) \/ Fetch(q) \/ Decide(q)
    BY <1>0, <1>3, <1>4 DEF Stops, Start, Begin, Goes, Fetch, Decide, Planned, stepVars
  <1>5. CASE DrainCordons(q) \/ EvictAccepted(q) \/ EvictGone(q) \/ EvictRefused(q) \/ NextPass(q)
    BY <1>0, <1>3, <1>5 DEF DrainCordons, EvictAccepted, EvictGone, EvictRefused, Evicting, NextPass,
       stepVars
  <1>6. CASE EvictedAll(q) \/ Cordon(q) \/ EvictPod(q) \/ DeleteJob(q) \/ Expand(q)
    BY <1>0, <1>3, <1>6 DEF EvictedAll, Cordon, EvictPod, DeleteJob, Expand, Executed, WriteRefused,
       Goes
  <1> QED BY <1>1, <1>2, <1>4, <1>5, <1>6, RunnerSteps
-----------------------------------------------------------------------------
LEMMA InvInit ==
    ASSUME Init
    PROVE  Inv
  <1>1. StepTyped /\ Busy \subseteq Runners
    BY StepTypedInit, BusyRunners DEF Init, StepTyped
  <1>2. objs \in [Cast(plan) -> Object]
    <2>1. \A n \in Cast(plan) : objs[n] \in Object
      <3>1. \A r \in DOMAIN plan : plan[r].name \in Objects \cup {0}
        BY <1>1, NodeAssumption DEF StepTyped, StepTypeOK
      <3>2. Cast(plan) \subseteq Objects
        BY <3>1 DEF Cast, Pods
      <3>3. \A n \in Cast(plan) : FirstClass[n] \in Classes
        BY <3>2, NodeAssumption
      <3> QED BY <3>3, NodeAssumption DEF Init, Object
    <2> QED BY <2>1 DEF Init
  <1>3. claim \in [exists : BOOLEAN, request : Int, capacity : Int, expandable : BOOLEAN]
    <2>1. Unit \in Nat
      BY NodeAssumption
    <2>2. 2 * Unit + 1 \in Int
      BY <2>1
    <2> HIDE DEF Init
    <2>3. claim = [exists |-> TRUE, request |-> 2 * Unit + 1, capacity |-> 2 * Unit + 1, expandable |-> TRUE]
      BY DEF Init
    <2> QED BY <2>2, <2>3, TRUE \in BOOLEAN, Zenon
  <1>4. Typed
    <2>1. Kinds
      <3>2. \A r \in DOMAIN plan : plan[r].name \in Objects \cup {0}
        BY <1>1, NodeAssumption DEF StepTyped, StepTypeOK
      <3>3. Cast(plan) \subseteq Objects
        BY <3>2 DEF Cast, Pods
      <3> QED BY <3>3 DEF Init, Kinds, Pods
    <2>2. DOMAIN listed = Runners /\ seen \in [Runners -> Reads] /\ want \in [Runners -> Int]
      BY DEF Init, Reads
    <2>3. todo \in [Runners -> SUBSET Cast(plan)] /\ again \in [Runners -> SUBSET Cast(plan)]
      BY DEF Init
    <2> QED BY <1>1, <1>2, <1>3, <2>1, <2>2, <2>3 DEF Typed
  <1>5. \A r \in Busy : phase[r] = "pending" /\ todo[r] = {} /\ again[r] = {}
    BY <1>1 DEF Init, StepInit
  <1>6. RemovalsRestOnReadings /\ Past /\ Written
    BY DEF Init, RemovalsRestOnReadings, Past, Written
  <1> QED BY <1>4, <1>5, <1>6
      DEF Inv, Informed, HasRead, Live, Sealed, Spared, Unspent, Sized, Vanished

LEMMA InvStep ==
    ASSUME Inv, [Next]_nodeVars
    PROVE  Inv'
  <1>1. Busy' = Busy
    BY StepFrame DEF Inv, Typed
  <1>2. Typed' /\ RemovalsRestOnReadings' /\ Past' /\ Written'
    BY TypedStep, ReadingsStep, PastStep, WrittenStep DEF Inv
  <1>3. \A r \in Busy : /\ Informed(r)' /\ Sealed(r)' /\ Spared(r)' /\ Unspent(r)'
                        /\ Sized(r)' /\ Vanished(r)'
    BY InformedStep, SealedStep, SparedStep, UnspentStep, SizedStep, VanishedStep DEF Inv
  <1> QED BY <1>1, <1>2, <1>3 DEF Inv

LEMMA Invariance == Spec => []Inv
  <1>1. Init => Inv
    BY InvInit
  <1>2. Inv /\ [Next]_nodeVars => Inv'
    BY InvStep
  <1> QED BY <1>1, <1>2, PTL DEF Spec

\* A drain that succeeded left nothing on the node for as long as nobody opened
\* it, with any number of pods, refusals and passes (evictAll, Drain.Verify).
THEOREM DrainEmpties == Spec => []DrainedMeansEmpty
  <1>1. Inv => DrainedMeansEmpty
    BY DEF Inv, Sealed, DrainedMeansEmpty
  <1> QED BY <1>1, Invariance, PTL

\* Whatever takes the names over meanwhile, of whatever kind and on whatever
\* node, a removal rests on a reading that allowed it, hits the object that was
\* read or a later one of its name, and no attempt hits two objects of one name
\* (classify, evictAll, checkOwner).
THEOREM RemovalsAreJustified == Spec => []RemovalsRestOnReadings
  <1>1. Inv => RemovalsRestOnReadings
    BY DEF Inv
  <1> QED BY <1>1, Invariance, PTL

\* A deletion recorded as Succeeded is of an object that is gone, for any
\* number of objects that carry the name one after the other
\* (PodDelete.Verify, JobDelete.Verify).
THEOREM DeletionIsReal == Spec => []DeletedMeansGone
  <1>1. Inv => DeletedMeansGone
    BY DEF Inv, Vanished, Deletes, DeletedMeansGone
  <1> QED BY <1>1, Invariance, PTL

\* Every size written is an increase within its ceiling and every expansion
\* recorded as Succeeded has arrived, for any width of the integers, whatever
\* the arithmetic wraps to (targetSize, checkGrowth, PVCExpand.Verify).
THEOREM ExpansionHolds == Spec => []ExpansionIsReal
  <1>1. Inv => ExpansionIsReal
    <2> SUFFICES ASSUME Inv
                 PROVE  ExpansionIsReal
      OBVIOUS
    <2>1. ASSUME NEW r \in Busy, Step(r, "pvc.expand"), phase[r] = "succeeded"
          PROVE  \E w \in writes : w.by = r /\ w.value <= claim.capacity
      BY <2>1 DEF Inv, Sized
    <2> QED BY <2>1 DEF Inv, Written, ExpansionIsReal
  <1> QED BY <1>1, Invariance, PTL
=============================================================================

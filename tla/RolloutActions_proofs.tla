------------------------ MODULE RolloutActions_proofs ------------------------
(***************************************************************************)
(* Proofs about RolloutActions, for any workload, steps, replica counts,     *)
(* revisions, edits and faults, and any width of the integers.               *)
(***************************************************************************)
EXTENDS RolloutActions, StepRunner_proofs

(* The inductive invariant, in parts. *)

Shape(o) ==
    o \in [exists : {o.exists}, gen : Nat, replicas : 1..IntMax, revision : {o.revision},
           template : {o.template}, managed : {o.managed}]

Listing(s) == \E S : s \in Seq(S)

Typed ==
    /\ StepTyped
    /\ kind \in WorkloadKinds /\ Shape(obj)
    /\ scaler \in [owns : BOOLEAN, max : 1..IntMax]
    /\ DOMAIN seen = Runners /\ DOMAIN want = Runners /\ DOMAIN writes = Runners
    /\ \A r \in Runners : Listing(writes[r])

\* A status is of a generation that was; one of the current generation is
\* measured against the replicas of the current generation; and it was noted
\* if it said that everything was done.
Observed ==
    /\ status.observed \in 0..obj.gen /\ complete \subseteq 0..obj.gen
    /\ status.desired \in Nat /\ status.updated \in Nat /\ status.current \in Nat
    /\ status.available \in Nat
    /\ status.updated <= status.current
    /\ kind # "DaemonSet" /\ status.observed = obj.gen => status.desired = obj.replicas
    /\ status.updated = status.current /\ status.updated >= status.desired
         /\ status.available >= status.desired => status.observed \in complete

\* Whatever the Deployment has, and each of its own ReplicaSets has, it ran.
Lineage == obj.template \in ran /\ \A s \in Owned : s.template \in ran

HasRead(r) == phase[r] = "checking" /\ seen[r] # Nothing

Read(r) == IF Step(r, "hpa") THEN seen[r].max ELSE seen[r].replicas

Scales(r) == plan[r].action \in {"scale", "hpa"}

\* What a step is about to write was decided within its bounds.
Decided(r) ==
    /\ HasRead(r) => seen[r].replicas \in 1..IntMax /\ seen[r].max \in 1..IntMax
    /\ phase[r] = "writing" /\ Scales(r) =>
         \A n \in want[r] : /\ n \in 1..IntMax
                            /\ Relative(plan[r]) => Read(r) < n /\ n <= plan[r].max
                            /\ Step(r, "hpa") => Read(r) < n
    /\ phase[r] = "writing" /\ Step(r, "rollback") => want[r] \subseteq ran

\* One write at most per attempt, none in a dry run, each within the bounds.
Wrote(r) ==
    /\ Len(writes[r]) <= attempt[r]
    /\ phase[r] \in {"checking", "writing"} => Len(writes[r]) < attempt[r]
    /\ phase[r] \in {"verifying", "succeeded"} => writes[r] # <<>>
    /\ plan[r].dryRun => writes[r] = <<>> /\ phase[r] \notin {"writing", "verifying", "succeeded"}
    /\ \A i \in DOMAIN writes[r] :
         /\ writes[r][i].gen \in 0..obj.gen
         /\ Scales(r) /\ Relative(plan[r]) =>
              writes[r][i].read < writes[r][i].value /\ writes[r][i].value <= plan[r].max
         /\ Step(r, "hpa") => writes[r][i].read < writes[r][i].value
         /\ Step(r, "rollback") => writes[r][i].own

Rolled(r) ==
    phase[r] = "succeeded" /\ plan[r].action \in {"restart", "rollback"}
    => \E g \in complete : g >= writes[r][Len(writes[r])].gen

Inv ==
    /\ Typed /\ Observed /\ Lineage
    /\ \A r \in Busy : Decided(r) /\ Wrote(r) /\ Rolled(r)
-----------------------------------------------------------------------------
(* Operators *)

LEMMA WrapIsInt ==
    ASSUME NEW n \in Int
    PROVE  Wrap(n) \in Int
  <1>1. 2 * (IntMax + 1) \in Nat \ {0} /\ n + IntMax + 1 \in Int
    BY FixedWidthAssumption
  <1> QED BY <1>1, FixedWidthAssumption DEF Wrap

LEMMA QuotientIsInt ==
    ASSUME NEW a \in Int, NEW b \in Nat \ {0}
    PROVE  Quotient(a, b) \in Int
  BY DEF Quotient

\* Whatever the arithmetic wraps to, a count that is not refused is one the
\* type holds, and a relative one is an increase within its ceiling.
LEMMA CountsWithinBounds ==
    ASSUME NEW p, NEW current \in 1..IntMax, p.amount \in 0..IntMax, p.max \in 0..IntMax,
           NEW n \in TargetCounts(p, current)
    PROVE  n \in 1..IntMax /\ (Relative(p) => current < n /\ n <= p.max)
  <1>1. IntMax \in Nat
    BY FixedWidthAssumption
  <1>2. CASE ~Relative(p)
    <2>1. n = p.amount /\ p.amount # 0
      BY <1>2 DEF TargetCounts
    <2> QED BY <1>1, <1>2, <2>1
  <1>3. CASE Relative(p)
    <2>1. Asked(p, current) \in Int
      <3>1. CASE p.mode = "increaseBy"
        <4>1. Asked(p, current) = Wrap(current + p.amount)
          BY <3>1 DEF Asked
        <4> QED BY <1>1, <4>1, WrapIsInt
      <3>2. CASE p.mode = "increasePercent"
        <4>1. Asked(p, current) = Wrap(current + Quotient(Wrap(Wrap(current * p.amount) + 99), 100))
          BY <3>2 DEF Asked
        <4>2. current * p.amount \in Int
          BY <1>1
        <4>3. Wrap(Wrap(current * p.amount) + 99) \in Int
          BY <4>2, WrapIsInt
        <4>4. Quotient(Wrap(Wrap(current * p.amount) + 99), 100) \in Int
          BY <4>3, QuotientIsInt
        <4> QED BY <1>1, <4>1, <4>4, WrapIsInt
      <3> QED BY <1>3, <3>1, <3>2 DEF Relative
    <2>2. n = (IF Asked(p, current) > p.max THEN p.max ELSE Asked(p, current)) /\ ~(n <= current)
      BY <1>3 DEF TargetCounts
    <2> HIDE DEF Asked
    <2> QED BY <1>1, <1>3, <2>1, <2>2
  <1> QED BY <1>2, <1>3

LEMMA Appended ==
    ASSUME NEW s, Listing(s), NEW e
    PROVE  /\ Listing(Append(s, e)) /\ Len(s) \in Nat /\ Len(Append(s, e)) = Len(s) + 1
           /\ DOMAIN s = 1..Len(s) /\ DOMAIN Append(s, e) = 1..(Len(s) + 1)
           /\ \A i \in DOMAIN s : Append(s, e)[i] = s[i]
           /\ Append(s, e)[Len(s) + 1] = e /\ Append(s, e) # <<>>
  <1>1. PICK S : s \in Seq(S)
    BY DEF Listing
  <1>2. s \in Seq(S \cup {e})
    BY <1>1
  <1>3. Append(s, e) \in Seq(S \cup {e})
    BY <1>2
  <1>4. Listing(Append(s, e))
    BY <1>3 DEF Listing
  <1> QED BY <1>2, <1>3, <1>4
-----------------------------------------------------------------------------
(* The object *)

LEMMA TemplateShape ==
    ASSUME Shape(obj), NEW t
    PROVE  LET o == [obj EXCEPT !.template = t]
           IN  Shape(o) /\ o.gen = obj.gen /\ o.replicas = obj.replicas /\ o.template = t
  BY DEF Shape

LEMMA ReplicasShape ==
    ASSUME Shape(obj), NEW n \in 1..IntMax
    PROVE  LET o == [obj EXCEPT !.replicas = n]
           IN  Shape(o) /\ o.gen = obj.gen /\ o.template = obj.template
  BY DEF Shape

LEMMA FlagShape ==
    ASSUME Shape(obj), NEW b
    PROVE  /\ Shape([obj EXCEPT !.exists = b]) /\ Shape([obj EXCEPT !.managed = b])
           /\ [obj EXCEPT !.exists = b].gen = obj.gen /\ [obj EXCEPT !.managed = b].gen = obj.gen
           /\ [obj EXCEPT !.exists = b].replicas = obj.replicas
           /\ [obj EXCEPT !.managed = b].replicas = obj.replicas
           /\ [obj EXCEPT !.exists = b].template = obj.template
           /\ [obj EXCEPT !.managed = b].template = obj.template
  BY DEF Shape

LEMMA PatchedShape ==
    ASSUME Shape(obj), NEW o, Shape(o), o.gen = obj.gen
    PROVE  /\ Shape(Patched(o)) /\ Patched(o).gen \in Nat /\ Patched(o).gen >= obj.gen
           /\ Patched(o).gen = obj.gen => o = obj
           /\ Patched(o).replicas = o.replicas /\ Patched(o).template = o.template
  <1> DEFINE g == IF o = obj THEN o.gen ELSE o.gen + 1
  <1>1. Patched(o) = [o EXCEPT !.gen = g]
    BY DEF Patched
  <1>2. g \in Nat /\ g >= obj.gen /\ (g = obj.gen => o = obj)
    BY DEF Shape
  <1> HIDE DEF g
  <1>3. Shape([o EXCEPT !.gen = g]) /\ [o EXCEPT !.gen = g].gen = g
        /\ [o EXCEPT !.gen = g].replicas = o.replicas /\ [o EXCEPT !.gen = g].template = o.template
    BY <1>2 DEF Shape
  <1> QED BY <1>1, <1>2, <1>3
-----------------------------------------------------------------------------
(* How a step of the system moves things *)

\* What one worker does.
Work(r) == StepNext(r) \/ WriteAnswerLost(r) \/ WriteNotSent(r) \/ ReadError(r)

LEMMA WorkMoves ==
    ASSUME NEW r \in Busy, Work(r)
    PROVE  StepMove(r) \/ UNCHANGED stepVars
  <1>1. (Step(r, "hpa") \in BOOLEAN)
    BY DEF Step
  <1> QED BY <1>1
      DEF Work, StepNext, Start, Fetch, FetchNotFound, Decide, Refuse, Write, WriteNotFound,
          VerifyPasses, VerifyNotFound, VerifyExpires, TryAgain, WriteAnswerLost, WriteNotSent,
          ReadError, StepMove

LEMMA StepFrame ==
    ASSUME StepTyped, [Next]_rolloutVars
    PROVE  StepTyped' /\ plan' = plan /\ Busy' = Busy
  <1>1. CASE \E r \in Busy : StepMove(r)
    BY <1>1, MoveOfStep DEF Busy
  <1>2. CASE Die
    BY <1>2, DeathOfSteps DEF Busy
  <1>3. CASE UNCHANGED stepVars
    BY <1>3 DEF stepVars, StepTyped, StepTypeOK, WithinBudget, Busy
  <1>4. (\E r \in Busy : Work(r)) \/ Die \/ UNCHANGED stepVars
    BY DEF Next, Work, Death, ControllerSync, Edit, rolloutVars
  <1> QED BY <1>1, <1>2, <1>3, <1>4, WorkMoves

LEMMA PlanFacts ==
    ASSUME StepTyped, NEW r \in Busy
    PROVE  /\ r \in Runners /\ plan[r].action \in {"restart", "rollback", "scale", "hpa"}
           /\ plan[r].amount \in 0..IntMax /\ plan[r].max \in 0..IntMax
           /\ plan[r].dryRun \in BOOLEAN
  <1>1. plan \in Plans /\ r \in Runners /\ r \in DOMAIN plan /\ plan[r].dryRun \in BOOLEAN
    BY BusyRunners DEF StepTyped, StepTypeOK, Busy
  <1>2. /\ plan[r].action \in {"restart", "rollback", "scale", "hpa"}
        /\ plan[r].amount \in 0..IntMax /\ plan[r].max \in 0..IntMax
    BY <1>1, RolloutAssumption
  <1> QED BY <1>1, <1>2

Quiet(q) ==
    /\ phase'[q] = phase[q] /\ attempt'[q] = attempt[q]
    /\ seen'[q] = seen[q] /\ want'[q] = want[q] /\ writes'[q] = writes[q]

Stops(q) ==
    /\ phase'[q] \in {"pending", "simulated", "failed", "skipped", "interrupted"}
    /\ attempt'[q] = attempt[q] /\ writes'[q] = writes[q]

\* What every write adds for the step that makes it.
LEMMA ApplyWrites ==
    ASSUME NEW r, Apply(r)
    PROVE  /\ UNCHANGED <<seen, want>> /\ phase[r] = "writing" /\ obj.exists
           /\ \E e : writes' = [writes EXCEPT ![r] = Append(@, e)]
  <1>1. CASE ApplyRestart(r)
    BY <1>1 DEF Apply, ApplyRestart, WriteTemplate
  <1>2. CASE ApplyRollback(r)
    BY <1>2 DEF Apply, ApplyRollback, WriteTemplate
  <1>3. CASE ApplyScale(r)
    BY <1>3 DEF Apply, ApplyScale
  <1>4. CASE ApplyHPA(r)
    BY <1>4 DEF Apply, ApplyHPA
  <1> QED BY <1>1, <1>2, <1>3, <1>4 DEF Apply

\* A worker leaves what the others know and wrote alone.
LEMMA OthersUntouched ==
    ASSUME Typed, NEW r \in Busy, Work(r), NEW q \in Busy \ {r}
    PROVE  Quiet(q)
  <1>0. q \in Runners /\ r \in Runners
    BY BusyRunners DEF Typed, StepTyped
  <1>1. phase'[q] = phase[q] /\ attempt'[q] = attempt[q]
    <2>1. StepMove(r) => phase'[q] = phase[q] /\ attempt'[q] = attempt[q]
      BY <1>0, MoveOfStep DEF Typed
    <2> QED BY <2>1, WorkMoves DEF stepVars
  <1>2. (\E x : seen' = [seen EXCEPT ![r] = x]) \/ seen' = seen
    BY ApplyWrites DEF Work, StepNext, Start, Fetch, FetchNotFound, Decide, Refuse, Write,
       WriteNotFound, VerifyPasses, VerifyNotFound, VerifyExpires, TryAgain, WriteAnswerLost,
       WriteNotSent, ReadError
  <1>3. (\E x : want' = [want EXCEPT ![r] = x]) \/ want' = want
    BY ApplyWrites DEF Work, StepNext, Start, Fetch, FetchNotFound, Decide, Refuse, Write,
       WriteNotFound, VerifyPasses, VerifyNotFound, VerifyExpires, TryAgain, WriteAnswerLost,
       WriteNotSent, ReadError
  <1>4. (\E e : writes' = [writes EXCEPT ![r] = Append(@, e)]) \/ writes' = writes
    BY ApplyWrites DEF Work, StepNext, Start, Fetch, FetchNotFound, Decide, Refuse, Write,
       WriteNotFound, VerifyPasses, VerifyNotFound, VerifyExpires, TryAgain, WriteAnswerLost,
       WriteNotSent, ReadError
  <1> QED BY <1>0, <1>1, <1>2, <1>3, <1>4 DEF Typed, Quiet

\* The steps that say something of runner q.
LEMMA RunnerSteps ==
    ASSUME Typed, NEW q \in Busy, [Next]_rolloutVars
    PROVE  \/ Quiet(q) \/ Stops(q)
           \/ Start(q) \/ Fetch(q) \/ Decide(q) \/ Write(q) \/ WriteAnswerLost(q)
           \/ VerifyPasses(q) /\ writes' = writes
  <1>0. q \in Runners /\ phase \in [Runners -> Phases]
    BY BusyRunners DEF Typed, StepTyped, StepTypeOK
  <1>1. CASE \E r \in Busy \ {q} : Work(r)
    BY <1>1, OthersUntouched
  <1>2. CASE Work(q)
    <2>1. CASE FetchNotFound(q) \/ Refuse(q) \/ WriteNotFound(q) \/ VerifyNotFound(q) \/ VerifyExpires(q)
      BY <1>0, <2>1 DEF FetchNotFound, Refuse, WriteNotFound, VerifyNotFound, VerifyExpires, Refused,
         WriteRefused, VerifyTimesOut, Goes, Stops
    <2>2. CASE TryAgain(q) \/ WriteNotSent(q) \/ ReadError(q)
      BY <1>0, <2>2 DEF TryAgain, WriteNotSent, ReadError, Retry, WriteFails, ReadFails, Goes, Stops
    <2>3. CASE VerifyPasses(q)
      BY <2>3 DEF VerifyPasses
    <2> QED BY <1>2, <2>1, <2>2, <2>3 DEF Work, StepNext
  <1>3. CASE Death
    BY <1>0, <1>3 DEF Death, Die, Stops, Quiet
  <1>4. CASE UNCHANGED <<phase, attempt, seen, want, writes>>
    BY <1>4 DEF Quiet
  <1> QED BY <1>1, <1>2, <1>3, <1>4
      DEF Next, Work, ControllerSync, Edit, rolloutVars, stepVars

LEMMA Decision ==
    ASSUME Typed, Lineage, NEW r \in Busy, Decided(r), Decide(r)
    PROVE  /\ Scales(r) =>
                \A n \in want'[r] : /\ n \in 1..IntMax
                                    /\ Relative(plan[r]) => Read(r) < n /\ n <= plan[r].max
                                    /\ Step(r, "hpa") => Read(r) < n
           /\ Step(r, "rollback") => want'[r] \subseteq ran
  <1>0. /\ r \in Runners /\ plan[r].amount \in 0..IntMax /\ plan[r].max \in 0..IntMax
        /\ DOMAIN want = Runners
    BY PlanFacts DEF Typed
  <1>1. PICK w \in Allowed(r) : want' = [want EXCEPT ![r] = {w}]
    BY DEF Decide
  <1>2. want'[r] = {w}
    BY <1>0, <1>1
  <1>3. seen[r].replicas \in 1..IntMax /\ seen[r].max \in 1..IntMax
    BY DEF Decide, Decided, HasRead
  <1>4. CASE Step(r, "scale")
    <2>1. w \in TargetCounts(plan[r], seen[r].replicas) /\ Read(r) = seen[r].replicas
      BY <1>1, <1>4 DEF Allowed, Step, Read
    <2>2. w \in 1..IntMax /\ (Relative(plan[r]) => Read(r) < w /\ w <= plan[r].max)
      BY <1>0, <1>3, <2>1, CountsWithinBounds
    <2> QED BY <1>2, <1>4, <2>2 DEF Step
  <1>5. CASE Step(r, "hpa")
    <2>1. w \in TargetCounts(plan[r], seen[r].max) /\ w > seen[r].max /\ Read(r) = seen[r].max
      BY <1>1, <1>5 DEF Allowed, Step, Read
    <2>2. w \in 1..IntMax /\ (Relative(plan[r]) => Read(r) < w /\ w <= plan[r].max)
      BY <1>0, <1>3, <2>1, CountsWithinBounds
    <2>3. Read(r) < w
      BY <1>3, <2>1, <2>2, FixedWidthAssumption
    <2> QED BY <1>2, <1>5, <2>2, <2>3 DEF Step
  <1>6. CASE Step(r, "rollback")
    <2>1. PICK s \in RollbackTargets(r) : w = s.template
      BY <1>1, <1>6 DEF Allowed, Step
    <2>2. s \in Owned
      BY <2>1 DEF RollbackTargets
    <2>3. w \in ran
      BY <2>1, <2>2 DEF Lineage
    <2> QED BY <1>2, <1>6, <2>3 DEF Step, Scales
  <1> QED BY <1>4, <1>5, <1>6 DEF Scales, Step

\* What a write does to the object.
LEMMA ApplyObject ==
    ASSUME Typed, NEW r \in Busy, Decided(r), Apply(r)
    PROVE  /\ Shape(obj') /\ obj'.gen >= obj.gen
           /\ obj'.gen = obj.gen => obj'.replicas = obj.replicas
           /\ scaler' \in [owns : BOOLEAN, max : 1..IntMax]
           /\ UNCHANGED <<kind, status, sets, complete>>
           /\ ran \subseteq ran' /\ (obj.template \in ran => obj'.template \in ran')
  <1>0. Shape(obj) /\ phase[r] = "writing" /\ obj.gen \in Nat /\ scaler \in [owns : BOOLEAN, max : 1..IntMax]
    BY ApplyWrites DEF Typed, Shape
  <1>1. ASSUME NEW t, NEW source, WriteTemplate(r, t, source)
        PROVE  /\ Shape(obj') /\ obj'.gen >= obj.gen /\ obj'.replicas = obj.replicas
               /\ scaler' = scaler /\ UNCHANGED <<kind, status, sets, complete>>
               /\ ran' = ran \cup {t} /\ obj'.template = t
    <2> DEFINE o == [obj EXCEPT !.template = t]
    <2>1. Shape(o) /\ o.gen = obj.gen /\ o.replicas = obj.replicas /\ o.template = t
      BY <1>0, TemplateShape
    <2>2. obj' = Patched(o) /\ scaler' = scaler /\ UNCHANGED <<kind, status, sets, complete>>
          /\ ran' = ran \cup {t}
      BY <1>1 DEF WriteTemplate
    <2> HIDE DEF o
    <2> QED BY <1>0, <2>1, <2>2, PatchedShape
  <1>2. CASE ApplyRestart(r)
    BY <1>0, <1>1, <1>2 DEF ApplyRestart
  <1>3. CASE ApplyRollback(r)
    BY <1>0, <1>1, <1>3 DEF ApplyRollback
  <1>4. CASE ApplyScale(r)
    <2>1. PICK n \in want[r] : obj' = Patched([obj EXCEPT !.replicas = n])
      BY <1>4 DEF ApplyScale
    <2>2. n \in 1..IntMax
      BY <1>0, <1>4, <2>1 DEF ApplyScale, Decided, Scales, Step
    <2> DEFINE o == [obj EXCEPT !.replicas = n]
    <2>3. Shape(o) /\ o.gen = obj.gen /\ o.template = obj.template
      BY <1>0, <2>2, ReplicasShape
    <2>4. obj' = Patched(o) /\ scaler' = scaler /\ UNCHANGED <<kind, status, sets, complete, ran>>
      BY <1>4, <2>1 DEF ApplyScale
    <2> HIDE DEF o
    <2>5. Shape(obj') /\ obj'.gen >= obj.gen /\ obj'.template = obj.template
          /\ (obj'.gen = obj.gen => o = obj) /\ obj'.replicas = o.replicas
      BY <1>0, <2>3, <2>4, PatchedShape
    <2> QED BY <1>0, <2>4, <2>5
  <1>5. CASE ApplyHPA(r)
    <2>1. PICK n \in want[r] : scaler' = [scaler EXCEPT !.max = n]
      BY <1>5 DEF ApplyHPA
    <2>2. n \in 1..IntMax
      BY <1>0, <1>5, <2>1 DEF ApplyHPA, Decided, Scales, Step
    <2>3. scaler' \in [owns : BOOLEAN, max : 1..IntMax]
      BY <1>0, <2>1, <2>2
    <2>4. UNCHANGED <<kind, obj, status, sets, complete, ran>>
      BY <1>5 DEF ApplyHPA
    <2> QED BY <1>0, <2>3, <2>4
  <1> QED BY <1>2, <1>3, <1>4, <1>5 DEF Apply

\* The revisions a controller keeps are those it had and the current one.
LEMMA RevisionsKept ==
    ASSUME NEW t, NEW s \in Revisions(t).kept
    PROVE  s \in sets \/ s.template = t
  BY DEF Revisions, Owned

\* What people do to the object.
LEMMA EditObject ==
    ASSUME Typed, Edit
    PROVE  /\ Shape(obj') /\ obj'.gen >= obj.gen
           /\ obj'.gen = obj.gen => obj'.replicas = obj.replicas
           /\ scaler' \in [owns : BOOLEAN, max : 1..IntMax]
           /\ UNCHANGED <<kind, status, sets, complete>>
           /\ ran \subseteq ran' /\ (obj.template \in ran => obj'.template \in ran')
  <1>0. /\ Shape(obj) /\ obj.gen \in Nat /\ scaler \in [owns : BOOLEAN, max : 1..IntMax]
        /\ UNCHANGED <<kind, status, sets, complete>>
    BY DEF Typed, Shape, Edit
  <1>1. CASE UNCHANGED scaler /\ \E t \in {Release(1), Release(3)} :
                                   obj' = Patched([obj EXCEPT !.template = t]) /\ ran' = ran \cup {t}
    <2>1. PICK t \in {Release(1), Release(3)} :
                 obj' = Patched([obj EXCEPT !.template = t]) /\ ran' = ran \cup {t}
      BY <1>1
    <2> DEFINE o == [obj EXCEPT !.template = t]
    <2>2. Shape(o) /\ o.gen = obj.gen /\ o.replicas = obj.replicas /\ o.template = t
      BY <1>0, TemplateShape
    <2>3. obj' = Patched(o)
      BY <2>1
    <2> HIDE DEF o
    <2> QED BY <1>0, <1>1, <2>1, <2>2, <2>3, PatchedShape
  <1>2. CASE UNCHANGED <<scaler, ran>> /\ \E n \in 1..MaxReplicas : obj' = Patched([obj EXCEPT !.replicas = n])
    <2>1. PICK n \in 1..MaxReplicas : obj' = Patched([obj EXCEPT !.replicas = n])
      BY <1>2
    <2>2. n \in 1..IntMax
      BY RolloutAssumption, FixedWidthAssumption
    <2> DEFINE o == [obj EXCEPT !.replicas = n]
    <2>3. Shape(o) /\ o.gen = obj.gen /\ o.template = obj.template
      BY <1>0, <2>2, ReplicasShape
    <2>4. obj' = Patched(o)
      BY <2>1
    <2> HIDE DEF o
    <2>5. Shape(obj') /\ obj'.gen >= obj.gen /\ obj'.template = obj.template
          /\ (obj'.gen = obj.gen => o = obj) /\ obj'.replicas = o.replicas
      BY <1>0, <2>3, <2>4, PatchedShape
    <2> QED BY <1>0, <1>2, <2>5
  <1>3. CASE UNCHANGED <<obj, ran>> /\ scaler' \in [owns : BOOLEAN, max : {scaler.max, MaxReplicas}]
    <2>1. MaxReplicas \in 1..IntMax /\ scaler.max \in 1..IntMax
      BY <1>0, RolloutAssumption, FixedWidthAssumption
    <2> QED BY <1>0, <1>3, <2>1
  <1>4. CASE UNCHANGED <<scaler, ran>> /\ obj' = [obj EXCEPT !.exists = FALSE]
    <2>1. Shape(obj') /\ obj'.gen = obj.gen /\ obj'.replicas = obj.replicas
          /\ obj'.template = obj.template
      BY <1>0, <1>4, FlagShape
    <2> QED BY <1>0, <1>4, <2>1
  <1>5. CASE UNCHANGED <<scaler, ran>> /\ obj' = [obj EXCEPT !.managed = TRUE]
    <2>1. Shape(obj') /\ obj'.gen = obj.gen /\ obj'.replicas = obj.replicas
          /\ obj'.template = obj.template
      BY <1>0, <1>5, FlagShape
    <2> QED BY <1>0, <1>5, <2>1
  <1> QED BY <1>1, <1>2, <1>3, <1>4, <1>5 DEF Edit

\* What the controller does.
LEMMA SyncObject ==
    ASSUME Typed, Observed, Lineage, ControllerSync
    PROVE  /\ Shape(obj') /\ obj'.gen = obj.gen
           /\ UNCHANGED <<kind, scaler, ran>> /\ complete \subseteq complete'
           /\ Observed' /\ Lineage'
  <1>1. /\ Shape(obj') /\ obj'.gen = obj.gen /\ obj'.replicas = obj.replicas
        /\ obj'.template = obj.template /\ obj.gen \in Nat /\ obj.replicas \in 1..IntMax
    BY DEF Typed, Shape, ControllerSync
  <1>2. UNCHANGED <<kind, scaler, ran>> /\ complete \subseteq complete'
    BY DEF ControllerSync
  <1>3. Lineage'
    <2>1. ASSUME NEW s \in sets', s.mine
          PROVE  s.template \in ran
      BY <2>1, RevisionsKept DEF ControllerSync, Lineage, Owned
    <2> QED BY <1>1, <1>2, <2>1 DEF Lineage, Owned
  <1>4. PICK n \in {2, MaxReplicas}, p \in Reports :
          status' = [observed |-> obj.gen, desired |-> IF kind = "DaemonSet" THEN n ELSE obj.replicas,
                     updated |-> p.updated, current |-> p.current, available |-> p.available]
    BY DEF ControllerSync
  <1>5. /\ status'.observed = obj.gen /\ status'.updated = p.updated /\ status'.current = p.current
        /\ status'.available = p.available
        /\ status'.desired = IF kind = "DaemonSet" THEN n ELSE obj.replicas
    BY <1>4
  <1>6. /\ p.updated \in Nat /\ p.current \in Nat /\ p.available \in Nat /\ p.updated <= p.current
        /\ n \in Nat /\ IntMax \in Nat
    BY RolloutAssumption, FixedWidthAssumption
  <1>7. complete' = IF /\ status'.updated = status'.current
                       /\ status'.updated >= status'.desired
                       /\ status'.available >= status'.desired
                    THEN complete \cup {obj.gen} ELSE complete
    BY DEF ControllerSync
  <1>8. Observed'
    <2>1. status'.observed \in 0..obj'.gen /\ complete' \subseteq 0..obj'.gen
      BY <1>1, <1>5, <1>7 DEF Observed
    <2>2. /\ status'.desired \in Nat /\ status'.updated \in Nat /\ status'.current \in Nat
          /\ status'.available \in Nat /\ status'.updated <= status'.current
      BY <1>1, <1>5, <1>6
    <2>3. kind' # "DaemonSet" => status'.desired = obj'.replicas
      BY <1>1, <1>2, <1>5
    <2>4. status'.updated = status'.current /\ status'.updated >= status'.desired
            /\ status'.available >= status'.desired => status'.observed \in complete'
      BY <1>5, <1>7
    <2> QED BY <2>1, <2>2, <2>3, <2>4 DEF Observed
  <1> QED BY <1>1, <1>2, <1>3, <1>8

LEMMA ClusterStep ==
    ASSUME Typed, Observed, Lineage, \A r \in Busy : Decided(r), [Next]_rolloutVars
    PROVE  /\ Shape(obj') /\ obj'.gen >= obj.gen /\ obj.gen \in Nat /\ obj'.gen \in Nat
           /\ scaler' \in [owns : BOOLEAN, max : 1..IntMax] /\ kind' = kind
           /\ ran \subseteq ran' /\ complete \subseteq complete'
           /\ Observed' /\ Lineage'
  <1>0. obj.gen \in Nat /\ Shape(obj) /\ scaler \in [owns : BOOLEAN, max : 1..IntMax]
    BY DEF Typed, Shape
  <1>1. CASE /\ Shape(obj') /\ obj'.gen >= obj.gen
             /\ obj'.gen = obj.gen => obj'.replicas = obj.replicas
             /\ scaler' \in [owns : BOOLEAN, max : 1..IntMax]
             /\ UNCHANGED <<kind, status, sets, complete>>
             /\ ran \subseteq ran' /\ (obj.template \in ran => obj'.template \in ran')
    <2>1. obj'.gen \in Nat
      BY <1>1 DEF Shape
    <2>2. Lineage'
      BY <1>1 DEF Lineage, Owned
    <2>3. Observed'
      BY <1>0, <1>1, <2>1 DEF Observed
    <2> QED BY <1>0, <1>1, <2>1, <2>2, <2>3
  <1>2. CASE \E r \in Busy : Apply(r)
    BY <1>1, <1>2, ApplyObject
  <1>3. CASE Edit
    BY <1>1, <1>3, EditObject
  <1>4. CASE ControllerSync
    BY <1>0, <1>4, SyncObject
  <1>5. CASE UNCHANGED clusterVars
    BY <1>0, <1>1, <1>5 DEF clusterVars
  <1> QED BY <1>2, <1>3, <1>4, <1>5
      DEF Next, StepNext, Start, Fetch, FetchNotFound, Decide, Refuse, Write, WriteNotFound,
          VerifyPasses, VerifyNotFound, VerifyExpires, TryAgain, WriteAnswerLost, WriteNotSent,
          ReadError, Death, rolloutVars

LEMMA TypedStep ==
    ASSUME Typed, Observed, Lineage, \A r \in Busy : Decided(r), [Next]_rolloutVars
    PROVE  Typed'
  <1>1. StepTyped' /\ Busy \subseteq Runners
    BY StepFrame, BusyRunners DEF Typed, StepTyped
  <1>2. DOMAIN seen' = Runners /\ DOMAIN want' = Runners
    <2>1. CASE \E r \in Busy : Apply(r)
      BY <2>1, ApplyWrites DEF Typed
    <2>2. CASE \E r \in Busy : Start(r) \/ Fetch(r) \/ Decide(r)
      BY <2>2 DEF Start, Fetch, Decide, Typed
    <2>3. CASE UNCHANGED <<seen, want>>
      BY <2>3 DEF Typed
    <2> QED BY <2>1, <2>2, <2>3
        DEF Next, StepNext, FetchNotFound, Refuse, Write, WriteNotFound, VerifyPasses,
            VerifyNotFound, VerifyExpires, TryAgain, WriteAnswerLost, WriteNotSent, ReadError,
            Death, ControllerSync, Edit, rolloutVars
  <1>3. DOMAIN writes' = Runners /\ \A r \in Runners : Listing(writes'[r])
    <2>1. CASE \E r \in Busy : Apply(r)
      <3>1. PICK r \in Busy : Apply(r)
        BY <2>1
      <3>2. PICK e : writes' = [writes EXCEPT ![r] = Append(@, e)]
        BY <3>1, ApplyWrites
      <3>3. Listing(Append(writes[r], e))
        BY <1>1, Appended DEF Typed
      <3> QED BY <1>1, <3>2, <3>3 DEF Typed
    <2>2. CASE UNCHANGED writes
      BY <2>2 DEF Typed
    <2> QED BY <2>1, <2>2
        DEF Next, StepNext, Start, Fetch, FetchNotFound, Decide, Refuse, Write, WriteNotFound,
            VerifyPasses, VerifyNotFound, VerifyExpires, TryAgain, WriteAnswerLost, WriteNotSent,
            ReadError, Death, ControllerSync, Edit, rolloutVars
  <1> QED BY <1>1, <1>2, <1>3, ClusterStep DEF Typed
-----------------------------------------------------------------------------
(* Steps *)

LEMMA DecidedStep ==
    ASSUME Typed, Observed, Lineage, \A r \in Busy : Decided(r), NEW q \in Busy,
           [Next]_rolloutVars
    PROVE  Decided(q)'
  <1>0. /\ q \in Runners /\ phase \in [Runners -> Phases] /\ plan' = plan
        /\ DOMAIN seen = Runners /\ ran \subseteq ran' /\ Decided(q)
    BY BusyRunners, StepFrame, ClusterStep DEF Typed, StepTyped, StepTypeOK
  <1>1. CASE Quiet(q)
    <2>1. phase'[q] = phase[q] /\ seen'[q] = seen[q] /\ want'[q] = want[q]
      BY <1>1 DEF Quiet
    <2> QED BY <1>0, <2>1 DEF Decided, HasRead, Scales, Step, Read
  <1>2. CASE phase'[q] \notin {"checking", "writing"}
    BY <1>2 DEF Decided, HasRead
  <1>3. CASE Start(q)
    <2>1. seen'[q] = Nothing /\ phase'[q] # "writing"
      BY <1>0, <1>3 DEF Start, Begin, Goes
    <2> QED BY <2>1 DEF Decided, HasRead
  <1>4. CASE Fetch(q)
    <2>1. /\ seen'[q] = [replicas |-> obj.replicas, revision |-> obj.revision,
                         template |-> obj.template, managed |-> obj.managed, max |-> scaler.max]
          /\ phase'[q] = "checking"
      BY <1>0, <1>4 DEF Fetch, stepVars
    <2>2. obj.replicas \in 1..IntMax /\ scaler.max \in 1..IntMax
      BY DEF Typed, Shape
    <2>3. seen'[q].replicas = obj.replicas /\ seen'[q].max = scaler.max
      BY <2>1
    <2> QED BY <2>1, <2>2, <2>3 DEF Decided
  <1>5. CASE Decide(q)
    <2>1. seen' = seen /\ ran' = ran /\ phase'[q] # "checking"
      BY <1>0, <1>5 DEF Decide, Planned, Goes, clusterVars
    <2>2. /\ Scales(q) =>
                \A n \in want'[q] : /\ n \in 1..IntMax
                                    /\ Relative(plan[q]) => Read(q) < n /\ n <= plan[q].max
                                    /\ Step(q, "hpa") => Read(q) < n
          /\ Step(q, "rollback") => want'[q] \subseteq ran
      BY <1>0, <1>5, Decision
    <2> QED BY <1>0, <2>1, <2>2 DEF Decided, HasRead, Scales, Step, Read
  <1>6. CASE Stops(q) \/ Write(q) \/ WriteAnswerLost(q) \/ VerifyPasses(q)
    <2>1. phase'[q] \notin {"checking", "writing"}
      BY <1>0, <1>6 DEF Stops, Write, WriteAnswerLost, VerifyPasses, Executed, WriteFails, Verified,
         Goes
    <2> QED BY <1>2, <2>1
  <1> QED BY <1>1, <1>3, <1>4, <1>5, <1>6, RunnerSteps

\* What is true of a write when it is made.
Entry(r, e) ==
    /\ e.gen = obj'.gen
    /\ Scales(r) /\ Relative(plan[r]) => e.read < e.value /\ e.value <= plan[r].max
    /\ Step(r, "hpa") => e.read < e.value
    /\ Step(r, "rollback") => e.own

LEMMA ApplyEntry ==
    ASSUME Typed, NEW r \in Busy, Decided(r), Apply(r)
    PROVE  \E e : writes' = [writes EXCEPT ![r] = Append(@, e)] /\ Entry(r, e)
  <1>0. phase[r] = "writing"
    BY DEF Apply
  <1>1. CASE ApplyRestart(r)
    <2>1. Step(r, "restart")
      BY <1>1 DEF ApplyRestart
    <2>2. PICK tick \in {0, 1} :
            WriteTemplate(r, [obj.template EXCEPT !.stamp = @ + tick], obj.template)
      BY <1>1 DEF ApplyRestart
    <2> DEFINE t == [obj.template EXCEPT !.stamp = @ + tick]
               e == [template |-> t, source |-> obj.template, own |-> obj.template \in ran,
                     left |-> seen[r].template, gen |-> obj'.gen]
    <2>3. WriteTemplate(r, t, obj.template)
      BY <2>2
    <2> HIDE DEF t
    <2>4. writes' = [writes EXCEPT ![r] = Append(@, e)]
      BY <2>3 DEF WriteTemplate
    <2>5. e.gen = obj'.gen
      BY Zenon
    <2> HIDE DEF e
    <2> QED BY <2>1, <2>4, <2>5 DEF Entry, Scales, Step
  <1>2. CASE ApplyRollback(r)
    <2>1. PICK t \in want[r] : WriteTemplate(r, Merged(obj.template, t), t)
      BY <1>2 DEF ApplyRollback
    <2> DEFINE e == [template |-> Merged(obj.template, t), source |-> t, own |-> t \in ran,
                     left |-> seen[r].template, gen |-> obj'.gen]
    <2>2. Step(r, "rollback") /\ t \in ran
      BY <1>0, <1>2, <2>1 DEF ApplyRollback, Decided
    <2>3. writes' = [writes EXCEPT ![r] = Append(@, e)]
      BY <2>1 DEF WriteTemplate
    <2>4. e.own = (t \in ran) /\ e.gen = obj'.gen
      BY Zenon
    <2> HIDE DEF e
    <2> QED BY <2>2, <2>3, <2>4 DEF Entry, Scales, Step
  <1>3. CASE ApplyScale(r)
    <2>1. PICK n \in want[r] : writes' = [writes EXCEPT ![r] =
                         Append(@, [read |-> seen[r].replicas, value |-> n, gen |-> obj'.gen])]
      BY <1>3 DEF ApplyScale
    <2> DEFINE e == [read |-> seen[r].replicas, value |-> n, gen |-> obj'.gen]
    <2>2. Step(r, "scale") /\ (Relative(plan[r]) => seen[r].replicas < n /\ n <= plan[r].max)
      BY <1>0, <1>3, <2>1 DEF ApplyScale, Decided, Scales, Step, Read
    <2>3. writes' = [writes EXCEPT ![r] = Append(@, e)]
      BY <2>1
    <2>4. e.read = seen[r].replicas /\ e.value = n /\ e.gen = obj'.gen
      OBVIOUS
    <2> HIDE DEF e
    <2> QED BY <2>2, <2>3, <2>4 DEF Entry, Step
  <1>4. CASE ApplyHPA(r)
    <2>1. PICK n \in want[r] : writes' = [writes EXCEPT ![r] =
                         Append(@, [read |-> seen[r].max, value |-> n, gen |-> obj.gen])]
      BY <1>4 DEF ApplyHPA
    <2> DEFINE e == [read |-> seen[r].max, value |-> n, gen |-> obj.gen]
    <2>2. /\ Step(r, "hpa") /\ (Relative(plan[r]) => seen[r].max < n /\ n <= plan[r].max)
          /\ seen[r].max < n /\ obj' = obj
      BY <1>0, <1>4, <2>1 DEF ApplyHPA, Decided, Scales, Step, Read
    <2>3. writes' = [writes EXCEPT ![r] = Append(@, e)]
      BY <2>1
    <2>4. e.read = seen[r].max /\ e.value = n /\ e.gen = obj.gen
      OBVIOUS
    <2> HIDE DEF e
    <2> QED BY <2>2, <2>3, <2>4 DEF Entry, Step
  <1> QED BY <1>1, <1>2, <1>3, <1>4 DEF Apply

\* The entries of a step that writes nothing stay what they were.
LEMMA EntriesStay ==
    ASSUME NEW q, Wrote(q), plan' = plan, writes'[q] = writes[q],
           obj.gen \in Nat, obj'.gen \in Nat, obj'.gen >= obj.gen
    PROVE  \A i \in DOMAIN writes'[q] :
             /\ writes'[q][i].gen \in 0..obj'.gen
             /\ Scales(q)' /\ Relative(plan'[q]) =>
                  writes'[q][i].read < writes'[q][i].value /\ writes'[q][i].value <= plan'[q].max
             /\ Step(q, "hpa")' => writes'[q][i].read < writes'[q][i].value
             /\ Step(q, "rollback")' => writes'[q][i].own
  <1> SUFFICES ASSUME NEW i \in DOMAIN writes[q]
               PROVE  /\ writes[q][i].gen \in 0..obj'.gen
                      /\ Scales(q)' /\ Relative(plan'[q]) =>
                           writes[q][i].read < writes[q][i].value /\ writes[q][i].value <= plan'[q].max
                      /\ Step(q, "hpa")' => writes[q][i].read < writes[q][i].value
                      /\ Step(q, "rollback")' => writes[q][i].own
    OBVIOUS
  <1>1. writes[q][i].gen \in 0..obj'.gen
    BY DEF Wrote
  <1> QED BY <1>1 DEF Wrote, Scales, Step

LEMMA WroteStep ==
    ASSUME Typed, Observed, Lineage, \A r \in Busy : Decided(r), NEW q \in Busy, Wrote(q),
           [Next]_rolloutVars
    PROVE  Wrote(q)'
  <1>0. /\ q \in Runners /\ phase \in [Runners -> Phases] /\ plan' = plan
        /\ DOMAIN writes = Runners /\ attempt \in [Runners -> Nat] /\ attempt[q] \in Nat
        /\ obj.gen \in Nat /\ obj'.gen \in Nat /\ obj'.gen >= obj.gen
        /\ Listing(writes[q])
    BY BusyRunners, StepFrame, ClusterStep DEF Typed, StepTyped, StepTypeOK
  <1>a. Len(writes[q]) \in Nat
    BY <1>0, Appended
  <1>1. CASE Quiet(q)
    <2>1. phase'[q] = phase[q] /\ attempt'[q] = attempt[q] /\ writes'[q] = writes[q]
      BY <1>1 DEF Quiet
    <2> QED BY <1>0, <2>1, EntriesStay DEF Wrote
  <1>2. CASE Stops(q)
    <2>1. phase'[q] \notin {"checking", "writing", "verifying", "succeeded"}
          /\ attempt'[q] = attempt[q] /\ writes'[q] = writes[q]
      BY <1>2 DEF Stops
    <2> QED BY <1>0, <2>1, EntriesStay DEF Wrote
  <1>3. CASE Start(q)
    <2>1. phase'[q] \in {"checking", "failed"}
          /\ attempt'[q] = attempt[q] + 1 /\ writes'[q] = writes[q]
      BY <1>0, <1>3 DEF Start, Begin, Goes
    <2> QED BY <1>0, <1>a, <2>1, EntriesStay DEF Wrote
  <1>4. CASE Fetch(q)
    <2>1. phase'[q] = phase[q] /\ attempt'[q] = attempt[q] /\ writes'[q] = writes[q]
      BY <1>4 DEF Fetch, stepVars
    <2> QED BY <1>0, <2>1, EntriesStay DEF Wrote
  <1>5. CASE Decide(q)
    <2>1. /\ phase[q] = "checking" /\ phase'[q] = IF plan[q].dryRun THEN "simulated" ELSE "writing"
          /\ attempt'[q] = attempt[q] /\ writes'[q] = writes[q]
      BY <1>0, <1>5 DEF Decide, Planned, Goes
    <2> QED BY <1>0, <2>1, EntriesStay DEF Wrote
  <1>6. CASE Write(q) \/ WriteAnswerLost(q)
    <2>1. /\ phase[q] = "writing" /\ phase'[q] \in {"verifying", "succeeded", "failed"}
          /\ attempt'[q] = attempt[q] /\ Apply(q)
      BY <1>0, <1>6 DEF Write, WriteAnswerLost, Executed, WriteFails, Goes
    <2>2. PICK e : writes' = [writes EXCEPT ![q] = Append(@, e)] /\ Entry(q, e)
      BY <2>1, ApplyEntry
    <2>3. writes'[q] = Append(writes[q], e)
      BY <1>0, <2>2
    <2>4. /\ Len(writes'[q]) = Len(writes[q]) + 1 /\ writes'[q] # <<>>
          /\ \A i \in DOMAIN writes'[q] : (i \in DOMAIN writes[q] /\ writes'[q][i] = writes[q][i])
                                          \/ writes'[q][i] = e
      <3> DEFINE s == writes[q]
      <3>1. Listing(s) /\ writes'[q] = Append(s, e)
        BY <1>0, <2>3
      <3> HIDE DEF s
      <3>2. /\ Len(s) \in Nat /\ Len(Append(s, e)) = Len(s) + 1 /\ Append(s, e) # <<>>
            /\ DOMAIN s = 1..Len(s) /\ DOMAIN Append(s, e) = 1..(Len(s) + 1)
            /\ \A i \in DOMAIN s : Append(s, e)[i] = s[i]
            /\ Append(s, e)[Len(s) + 1] = e
        BY <3>1, Appended, Zenon
      <3> DEFINE a == Append(s, e)
      <3> HIDE DEF a
      <3>3. /\ Len(s) \in Nat /\ DOMAIN s = 1..Len(s) /\ DOMAIN a = 1..(Len(s) + 1)
            /\ \A i \in DOMAIN s : a[i] = s[i]
            /\ a[Len(s) + 1] = e
        BY <3>2 DEF a
      <3>4. \A i \in DOMAIN a : (i \in DOMAIN s /\ a[i] = s[i]) \/ a[i] = e
        BY <3>3
      <3> QED BY <3>1, <3>2, <3>4 DEF a, s
    <2>5. ~plan[q].dryRun /\ Len(writes[q]) < attempt[q]
      BY <2>1 DEF Wrote
    <2>6. ASSUME NEW i \in DOMAIN writes'[q]
          PROVE  /\ writes'[q][i].gen \in 0..obj'.gen
                 /\ Scales(q) /\ Relative(plan[q]) =>
                      writes'[q][i].read < writes'[q][i].value /\ writes'[q][i].value <= plan[q].max
                 /\ Step(q, "hpa") => writes'[q][i].read < writes'[q][i].value
                 /\ Step(q, "rollback") => writes'[q][i].own
      <3>1. CASE writes'[q][i] = e
        BY <1>0, <2>2, <3>1 DEF Entry
      <3>2. CASE i \in DOMAIN writes[q] /\ writes'[q][i] = writes[q][i]
        <4>1. writes[q][i].gen \in 0..obj'.gen
          BY <1>0, <3>2 DEF Wrote
        <4> QED BY <3>2, <4>1 DEF Wrote
      <3> QED BY <2>4, <3>1, <3>2
    <2> QED BY <1>0, <1>a, <2>1, <2>4, <2>5, <2>6 DEF Wrote, Scales, Step
  <1>7. CASE VerifyPasses(q) /\ writes' = writes
    <2>1. phase[q] = "verifying" /\ phase'[q] = "succeeded" /\ attempt'[q] = attempt[q]
      BY <1>0, <1>7 DEF VerifyPasses, Verified, Goes
    <2> QED BY <1>0, <1>7, <2>1, EntriesStay DEF Wrote
  <1> QED BY <1>1, <1>2, <1>3, <1>4, <1>5, <1>6, <1>7, RunnerSteps

LEMMA RolledStep ==
    ASSUME Typed, Observed, Lineage, \A r \in Busy : Decided(r), NEW q \in Busy, Wrote(q),
           Rolled(q), [Next]_rolloutVars
    PROVE  Rolled(q)'
  <1>0. /\ q \in Runners /\ phase \in [Runners -> Phases] /\ plan' = plan
        /\ complete \subseteq complete' /\ Listing(writes[q])
        /\ kind \in WorkloadKinds /\ obj.gen \in Nat /\ obj.replicas \in Nat
    BY BusyRunners, StepFrame, ClusterStep, FixedWidthAssumption
    DEF Typed, StepTyped, StepTypeOK, Shape
  <1>1. CASE Quiet(q)
    BY <1>0, <1>1 DEF Quiet, Rolled
  <1>2. CASE phase'[q] # "succeeded"
    BY <1>2 DEF Rolled
  <1>3. CASE VerifyPasses(q) /\ writes' = writes
    <2> SUFFICES ASSUME plan[q].action \in {"restart", "rollback"}
                 PROVE  \E g \in complete : g >= writes[q][Len(writes[q])].gen
      BY <1>0, <1>3 DEF Rolled
    <2>1. phase[q] = "verifying" /\ RolledOut
      BY <1>3 DEF VerifyPasses, Achieved, Step
    <2>2. writes[q][Len(writes[q])].gen \in 0..obj.gen
      <3>1. writes[q] # <<>>
        BY <2>1 DEF Wrote
      <3>2. Len(writes[q]) \in DOMAIN writes[q]
        BY <1>0, <3>1 DEF Listing
      <3> QED BY <3>2 DEF Wrote
    <2>3. status.observed = obj.gen
      BY <1>0, <2>1 DEF RolledOut, Observed
    <2>4. Desired = status.desired
      BY <2>3 DEF Desired, Observed
    <2>5. status.observed \in complete
      BY <2>1, <2>4 DEF RolledOut, Observed
    <2> QED BY <1>0, <2>2, <2>3, <2>5
  <1>4. CASE Stops(q) \/ Start(q) \/ Fetch(q) \/ Decide(q) \/ WriteAnswerLost(q)
    <2>1. phase'[q] # "succeeded"
      BY <1>0, <1>4 DEF Stops, Start, Begin, Goes, Fetch, stepVars, Decide, Planned,
         WriteAnswerLost, WriteFails
    <2> QED BY <1>2, <2>1
  <1>5. CASE Write(q)
    <2>1. Step(q, "hpa") \/ phase'[q] # "succeeded"
      BY <1>0, <1>5 DEF Write, Executed, Goes
    <2> QED BY <1>0, <1>2, <2>1 DEF Rolled, Step
  <1> QED BY <1>1, <1>3, <1>4, <1>5, RunnerSteps
-----------------------------------------------------------------------------
LEMMA InvInit ==
    ASSUME Init
    PROVE  Inv
  <1>1. StepTyped /\ Busy \subseteq Runners
    BY StepTypedInit, BusyRunners DEF Init, StepTyped
  <1>2. 2 \in 1..IntMax
    BY RolloutAssumption, FixedWidthAssumption
  <1>3. Shape(obj) /\ scaler \in [owns : BOOLEAN, max : 1..IntMax]
    <2>1. PICK e, t, m : obj = [exists |-> e, gen |-> 2, replicas |-> 2, revision |-> 2,
                                template |-> t, managed |-> m]
      BY DEF Init
    <2>2. Shape(obj)
      BY <1>2, <2>1 DEF Shape
    <2>3. scaler = [owns |-> FALSE, max |-> 2]
      BY DEF Init
    <2>4. scaler \in [owns : BOOLEAN, max : 1..IntMax]
      BY <1>2, <2>3, FALSE \in BOOLEAN, Zenon
    <2> QED BY <2>2, <2>4
  <1>4. Listing(<<>>)
    BY DEF Listing
  <1>5. Typed
    BY <1>1, <1>3, <1>4, RolloutAssumption DEF Init, Typed
  <1>6. /\ obj.gen = 2 /\ obj.replicas = 2 /\ status.observed = 2 /\ status.desired = 2
        /\ status.updated = 2 /\ status.current = 2 /\ status.available = 2 /\ complete = {2}
    BY DEF Init
  <1>7. Observed
    BY <1>6 DEF Observed
  <1>8. Lineage
    BY DEF Init, Lineage, Owned
  <1>9. \A r \in Busy : phase[r] = "pending" /\ writes[r] = <<>> /\ attempt[r] = 0
    BY <1>1 DEF Init, StepInit
  <1> QED BY <1>5, <1>7, <1>8, <1>9 DEF Inv, Decided, HasRead, Wrote, Rolled

LEMMA InvStep ==
    ASSUME Inv, [Next]_rolloutVars
    PROVE  Inv'
  <1>1. Busy' = Busy
    BY StepFrame DEF Inv, Typed
  <1>2. Typed' /\ Observed' /\ Lineage'
    BY TypedStep, ClusterStep DEF Inv
  <1>3. \A r \in Busy : Decided(r)' /\ Wrote(r)' /\ Rolled(r)'
    BY DecidedStep, WroteStep, RolledStep DEF Inv
  <1> QED BY <1>1, <1>2, <1>3 DEF Inv

LEMMA Invariance == Spec => []Inv
  <1>1. Init => Inv
    BY InvInit
  <1>2. Inv /\ [Next]_rolloutVars => Inv'
    BY InvStep
  <1> QED BY <1>1, <1>2, PTL DEF Spec

\* Replica counts fit their type, a status is never of a generation that is yet
\* to come and a step writes at most once per attempt (runStep, targetCount).
THEOREM RolloutTypes == Spec => []TypeOK
  <1>1. Inv => TypeOK
    BY DEF Inv, Typed, StepTyped, Shape, Observed, Wrote, TypeOK
  <1> QED BY <1>1, Invariance, PTL

\* A restart or rollback that succeeded was reported as rolled out for its own
\* patch or a later one, whatever the controller reports and however late
\* (rollout.describe).
THEOREM VerifiedIsRolledOut == Spec => []VerifiedMeansRolledOut
  <1>1. Inv => VerifiedMeansRolledOut
    BY DEF Inv, Rolled, VerifiedMeansRolledOut
  <1> QED BY <1>1, Invariance, PTL

\* A relative change is an increase within its ceiling, for any width of the
\* integers and wherever the arithmetic wraps (targetCount, HPAScale.plan).
THEOREM ScalesWithinBounds == Spec => []ScalingWithinBounds
  <1>1. Inv => ScalingWithinBounds
    BY DEF Inv, Wrote, Scales, Step, ScalingWithinBounds
  <1> QED BY <1>1, Invariance, PTL

\* A rollback only installs a template the Deployment itself has had, for any
\* revision history and whatever else is in the namespace (ownedReplicaSets).
THEOREM RollsBackToOwn == Spec => []RollbackOnlyToOwnRevisions
  <1>1. Inv => RollbackOnlyToOwnRevisions
    BY DEF Inv, Wrote, Step, RollbackOnlyToOwnRevisions
  <1> QED BY <1>1, Invariance, PTL

\* A dry run never writes, in any attempt (runStep).
THEOREM DryRunsAreDry == Spec => []DryRunsChangeNothing
  <1>1. Inv => DryRunsChangeNothing
    BY DEF Inv, Wrote, DryRunsChangeNothing
  <1> QED BY <1>1, Invariance, PTL
=============================================================================

---------------------- MODULE RemediationSafety_proofs ----------------------
(***************************************************************************)
(* Type correctness of RemediationLifecycle, for any records, plans, budgets *)
(* and bounds, then its safety properties, proved from one inductive         *)
(* invariant.  A step of the system is first reduced to what it does to one *)
(* record (Move), so that each part of the invariant is shown for ten kinds *)
(* of moves instead of thirty actions.                                      *)
(***************************************************************************)
EXTENDS RemediationLifecycle, FiniteSetTheorems, TLAPS

-----------------------------------------------------------------------------
(* Types *)


\* What TypeOK needs to be inductive: a pass that is under way works from a
\* version that exists, and a prune deletes other records that exist.
Positions ==
    \A r \in Records :
        /\ worker[r].at # "idle" => worker[r].rv > 0
        /\ \A q \in worker[r].doomed : q # r /\ Exists(q)

Typed == TypeOK /\ Positions

\* What storing a version does to the logs.
LEMMA StoreLog ==
    ASSUME log \in [Records -> Seq(Version)], NEW r \in Records,
           NEW v \in Version, Store(r, v)
    PROVE  /\ log' \in [Records -> Seq(Version)]
           /\ Len(log'[r]) = Len(log[r]) + 1
           /\ log'[r] = Append(log[r], v)
           /\ \A q \in Records : q # r => log'[q] = log[q]
           /\ \A q \in Records : Exists(q) => Exists(q)'
           /\ \A q \in Records : Len(log[q]) <= Len(log'[q])
  <1>1. log' = [log EXCEPT ![r] = Append(log[r], v)]
    BY DEF Store
  <1>2. log'[r] = Append(log[r], v) /\ log[r] \in Seq(Version)
    BY <1>1
  <1>3. Len(log'[r]) = Len(log[r]) + 1 /\ log'[r] # <<>>
    BY <1>2
  <1>4. \A q \in Records : q # r => log'[q] = log[q]
    BY <1>1
  <1>5. log' \in [Records -> Seq(Version)]
    BY <1>1, <1>2
  <1>6. \A q \in Records : Len(log[q]) \in Nat
    OBVIOUS
  <1>7. \A q \in Records : Len(log[q]) <= Len(log'[q])
    BY <1>3, <1>4, <1>6
  <1>8. \A q \in Records : Exists(q) => Exists(q)'
    BY <1>3, <1>4 DEF Exists
  <1> QED BY <1>2, <1>3, <1>4, <1>5, <1>7, <1>8

\* The version a worker works from is a version.
LEMMA LocalType ==
    ASSUME Typed, NEW r \in Records, worker[r].at # "idle"
    PROVE  worker[r].rv \in 1 .. Len(log[r]) /\ Local(r) \in Version
  <1>1. worker[r] \in Worker /\ log[r] \in Seq(Version)
    BY DEF Typed, TypeOK
  <1>2. worker[r].rv \in Nat /\ worker[r].rv > 0 /\ worker[r].rv <= Len(log[r])
    BY <1>1 DEF Typed, TypeOK, Positions, Worker
  <1>3. worker[r].rv \in 1 .. Len(log[r])
    BY <1>1, <1>2
  <1> QED BY <1>1, <1>3 DEF Local

LEMMA CurrentType ==
    ASSUME Typed, NEW r \in Records, Exists(r)
    PROVE  Len(log[r]) \in Nat \ {0} /\ Current(r) \in Version
  <1>1. log[r] \in Seq(Version) /\ log[r] # <<>>
    BY DEF Typed, TypeOK, Exists
  <1>2. Len(log[r]) \in Nat \ {0}
    BY <1>1
  <1> QED BY <1>1, <1>2 DEF Current

\* Every status write stores a version.
LEMMA OutgoingType ==
    ASSUME Typed, NEW r \in Records, worker[r].at \in Writing
    PROVE  Outgoing(r) \in Version
  <1>1. worker[r] \in Worker /\ Local(r) \in Version
    BY LocalType DEF Typed, TypeOK, Writing
  <1>2. worker[r].verdict \in Verdict /\ worker[r].left \in Nat
    BY <1>1 DEF Worker
  <1>3. RunningVersion(r) \in Version
    <2>1. Local(r).attempt + 1 \in Nat
      BY <1>1 DEF Version
    <2> QED BY <1>1, <2>1 DEF RunningVersion, Version, States
  <1>4. RetryVersion(r) \in Version
    BY <1>1, <1>2 DEF RetryVersion, Version, States, Verdict
  <1>5. AwaitingVersion(r) \in Version
    BY <1>1, <1>2 DEF AwaitingVersion, Version, States, Reasons
  <1>6. FinalVersion(r) \in Version
    BY <1>1, <1>2 DEF FinalVersion, Version, States, Verdict, Terminal
  <1> QED BY <1>3, <1>4, <1>5, <1>6 DEF Outgoing, Writing

-----------------------------------------------------------------------------
(* Type correctness *)

LEMMA IdleType == Idle \in Worker
  BY DEF Idle, Worker, PCs, Failing, Verdict, Reasons, Phases

LEMMA IdleFields == Idle.at = "idle" /\ Idle.rv = 0 /\ Idle.doomed = {}
  BY DEF Idle

LEMMA TypedInit == Init => Typed
  <1> SUFFICES ASSUME Init PROVE Typed
    OBVIOUS
  <1>1. TypeOK
    <2>1. spec \in [Records -> Profile]
      BY LifecycleAssumption DEF Init
    <2>2. worker \in [Records -> Worker]
      BY IdleType DEF Init
    <2>3. /\ log \in [Records -> Seq(Version)]
          /\ ran \in [Records -> Seq(EffectRecord)]
      BY DEF Init
    <2>4. ASSUME NEW r \in Records
          PROVE  seen[r] <= Len(log[r]) /\ worker[r].rv <= Len(log[r])
      <3>1. log[r] = <<>> /\ seen[r] = 0 /\ worker[r] = Idle
        BY DEF Init
      <3>2. Idle.rv = 0 /\ Len(<<>>) = 0
        BY DEF Idle
      <3> QED BY <3>1, <3>2
    <2> QED BY <2>1, <2>2, <2>3, <2>4 DEF Init, TypeOK
  <1>2. Positions
    BY DEF Init, Positions, Idle
  <1> QED BY <1>1, <1>2 DEF Typed

\* Reading a record: only the queue, the timers and the worker change.
LEMMA TypedReconcile ==
    ASSUME Typed, NEW r \in Records, Reconcile(r)
    PROVE  Typed'
  <1> USE DEF Typed, TypeOK, apiVars, memoryVars, worldVars, boundVars
  <1>1. Dequeue(r)
    BY DEF Reconcile, ReconcileNothing, ReconcileInterrupted, ReconcileGaveUp,
           ReconcileRun, ReconcileDenied, ReconcileTimedOut, ReconcileWaiting
  <1>2. /\ UNCHANGED <<spec, deadline, born, log, up, seen, loader, listed,
                       counted, clock, ran, pages, patches, faults, crashes>>
        /\ queue' \subseteq Records
    BY <1>1 DEF Dequeue
  <1>3. seen[r] \in Nat /\ seen[r] <= Len(log[r])
    OBVIOUS
  <1>4. \/ worker' = worker
        \/ \E w \in Worker : /\ worker' = [worker EXCEPT ![r] = w]
                              /\ w.rv = seen[r] /\ seen[r] > 0
                              /\ w.doomed = {}
    <2> DEFINE Outcome(at, verdict) ==
                 [Idle EXCEPT !.at = at, !.rv = seen[r], !.verdict = verdict]
    <2>1. ASSUME NEW at \in PCs, NEW verdict \in Verdict, InCache(r),
                 Proceed(r, at, verdict)
          PROVE  \E w \in Worker : /\ worker' = [worker EXCEPT ![r] = w]
                                   /\ w.rv = seen[r] /\ seen[r] > 0
                                   /\ w.doomed = {}
      <3>1. worker' = [worker EXCEPT ![r] = Outcome(at, verdict)]
        BY <2>1 DEF Proceed
      <3>2. Outcome(at, verdict) \in Worker
        BY <2>1, <1>3, IdleType DEF Worker
      <3>3. Outcome(at, verdict).rv = seen[r] /\ Outcome(at, verdict).doomed = {}
        BY DEF Idle
      <3> QED BY <2>1, <3>1, <3>2, <3>3 DEF InCache
    <2>2. \A why \in Reasons : Failing(why) \in Verdict
      BY DEF Failing, Verdict, Phases
    <2>3. {"Interrupted", "GaveUp", "", "Denied", "ApprovalTimeout"} \subseteq Reasons
      BY DEF Reasons, PageReasons
    <2>4. {"start", "escalate", "finish", "await"} \subseteq PCs
      BY DEF PCs
    <2>5. CASE ReconcileNothing(r)
      BY <2>5 DEF ReconcileNothing
    <2>6. CASE ReconcileInterrupted(r)
      BY <2>6, <2>1, <2>2, <2>3, <2>4 DEF ReconcileInterrupted
    <2>7. CASE ReconcileGaveUp(r)
      BY <2>7, <2>1, <2>2, <2>3, <2>4 DEF ReconcileGaveUp, Open
    <2>8. CASE ReconcileRun(r)
      BY <2>8, <2>1, <2>2, <2>3, <2>4 DEF ReconcileRun, Open
    <2>9. CASE ReconcileDenied(r)
      BY <2>9, <2>1, <2>2, <2>3, <2>4 DEF ReconcileDenied, AwaitsApproval, Open
    <2>10. CASE ReconcileTimedOut(r)
      BY <2>10, <2>1, <2>2, <2>3, <2>4
         DEF ReconcileTimedOut, AwaitsApproval, Open
    <2>11. CASE ReconcileWaiting(r)
      <3> DEFINE W == [Idle EXCEPT !.at = "await", !.rv = seen[r],
                                   !.left = deadline[r] - clock]
      <3>1. deadline[r] - clock \in Nat /\ seen[r] > 0
        BY <2>11 DEF ReconcileWaiting, Expired, AwaitsApproval, Open, InCache
      <3>2. W \in Worker /\ W.rv = seen[r] /\ W.doomed = {}
        BY <3>1, <2>4, <1>3, IdleType DEF Worker, Idle
      <3>3. worker' = worker \/ worker' = [worker EXCEPT ![r] = W]
        BY <2>11 DEF ReconcileWaiting
      <3> QED BY <3>1, <3>2, <3>3
    <2> QED BY <2>5, <2>6, <2>7, <2>8, <2>9, <2>10, <2>11 DEF Reconcile
  <1>5. timers' \in [Records -> SUBSET {"poll", "backoff"}]
    <2>1. \/ timers' = timers
          \/ timers' = [timers EXCEPT ![r] = timers[r] \cup {"poll"}]
      BY DEF Reconcile, ReconcileNothing, ReconcileInterrupted, ReconcileGaveUp,
             ReconcileRun, ReconcileDenied, ReconcileTimedOut,
             ReconcileWaiting, Proceed
    <2> QED BY <2>1
  <1>6. /\ worker' \in [Records -> Worker]
        /\ \A q \in Records : worker'[q].rv <= Len(log[q])
    BY <1>3, <1>4
  <1>7. TypeOK'
    BY <1>2, <1>5, <1>6
  <1>8. Positions'
    BY <1>2, <1>3, <1>4 DEF Positions, Exists
  <1> QED BY <1>7, <1>8

\* A status write stores a version and moves its own worker.
LEMMA TypedWrite ==
    ASSUME Typed, NEW r \in Records, worker[r].at \in Writing,
           Store(r, Outgoing(r)), NEW w \in Worker,
           worker' = [worker EXCEPT ![r] = w],
           w.rv \in {0, worker[r].rv, worker[r].rv + 1},
           w.at # "idle" => w.rv = worker[r].rv + 1,
           w.doomed \in {{}, worker[r].doomed},
           Fresh(r), queue' \subseteq Records, faults' \in Nat,
           timers' \in [Records -> SUBSET {"poll", "backoff"}],
           UNCHANGED <<spec, deadline, born, up, seen, memoryVars, clock,
                       worldVars, patches, crashes>>
    PROVE  Typed'
  <1>1. Outgoing(r) \in Version
    BY OutgoingType
  <1>2. log \in [Records -> Seq(Version)]
    BY DEF Typed, TypeOK
  <1>3. /\ log' \in [Records -> Seq(Version)]
        /\ Len(log'[r]) = Len(log[r]) + 1
        /\ \A q \in Records : q # r => log'[q] = log[q]
        /\ \A q \in Records : Exists(q) => Exists(q)'
        /\ \A q \in Records : Len(log[q]) <= Len(log'[q])
    BY <1>1, <1>2, StoreLog
  <1>4. \A q \in Records : Len(log[q]) \in Nat /\ Len(log'[q]) \in Nat
    BY <1>2, <1>3
  <1>5. worker[r].rv \in Nat \ {0} /\ worker[r].rv <= Len(log[r])
    BY LocalType DEF Writing
  <1>6. worker' \in [Records -> Worker]
    BY DEF Typed, TypeOK
  <1>7. \A q \in Records : /\ seen'[q] <= Len(log'[q])
                           /\ worker'[q].rv <= Len(log'[q])
    <2>1. \A q \in Records : /\ seen[q] \in Nat /\ worker[q].rv \in Nat
                             /\ seen[q] <= Len(log[q])
                             /\ worker[q].rv <= Len(log[q])
      BY DEF Typed, TypeOK, Worker
    <2>2. worker'[r].rv <= Len(log[r]) + 1
      BY <1>4, <1>5, <1>6 DEF Typed, TypeOK
    <2>3. \A q \in Records : q # r => worker'[q] = worker[q]
      BY DEF Typed, TypeOK
    <2> QED BY <1>3, <1>4, <2>1, <2>2, <2>3
  <1>8. TypeOK'
    BY <1>3, <1>6, <1>7 DEF Typed, TypeOK, memoryVars, worldVars
  <1>9. Positions'
    <2>1. ASSUME NEW q \in Records
          PROVE  /\ worker'[q].at # "idle" => worker'[q].rv > 0
                 /\ \A d \in worker'[q].doomed : d # q /\ Exists(d)'
      <3>1. worker[q] \in Worker /\ worker[q].doomed \subseteq Records
        BY DEF Typed, TypeOK, Worker
      <3>2. \A d \in worker[q].doomed : d # q /\ Exists(d)'
        BY <1>3, <3>1 DEF Typed, Positions
      <3>3. CASE q = r
        <4>1. worker'[q] = w
          BY <3>3 DEF Typed, TypeOK
        <4> QED BY <1>5, <3>2, <3>3, <4>1
      <3>4. CASE q # r
        <4>1. worker'[q] = worker[q]
          BY <3>4 DEF Typed, TypeOK
        <4> QED BY <3>2, <4>1 DEF Typed, Positions
      <3> QED BY <3>3, <3>4
    <2> QED BY <2>1 DEF Positions
  <1> QED BY <1>8, <1>9 DEF Typed

\* The worker's own steps: those of an attempt ...
LEMMA TypedAttempt ==
    ASSUME Typed, NEW r \in Records, Attempt(r)
    PROVE  Typed'
  <1>1. worker[r] \in Worker /\ worker \in [Records -> Worker]
    BY DEF Typed, TypeOK
  <1>2. Idle.rv = 0 /\ Idle.at = "idle" /\ Idle.doomed = {}
    BY IdleFields
  <1>3. CASE StartAttempt(r)
    <2> DEFINE W == [worker[r] EXCEPT !.at = "execute", !.rv = worker[r].rv + 1]
    <2>1. worker' = [worker EXCEPT ![r] = W]
      BY <1>1, <1>3 DEF StartAttempt
    <2>2. W \in Worker /\ W.rv = worker[r].rv + 1 /\ W.doomed = worker[r].doomed
      <3>1. worker[r].rv + 1 \in Nat
        BY <1>1 DEF Worker
      <3> QED BY <1>1, <3>1 DEF Worker, PCs
    <2> QED BY <1>3, <2>1, <2>2, TypedWrite
            DEF StartAttempt, Write, Writing, Typed, TypeOK, boundVars
  <1>4. CASE RecordFailedAttempt(r)
    <2>1. timers' \in [Records -> SUBSET {"poll", "backoff"}]
      BY <1>4 DEF RecordFailedAttempt, Typed, TypeOK
    <2> QED BY <1>2, <1>4, <2>1, IdleType, TypedWrite
            DEF RecordFailedAttempt, Write, Writing, Typed, TypeOK, boundVars
  <1>5. CASE StepSucceeds(r) \/ \E why \in StepReasons, changed \in BOOLEAN :
                                   StepFails(r, why, changed)
    <2>1. worker[r].at = "execute" /\ UNCHANGED <<PassFrame, pages>>
      BY <1>5 DEF StepSucceeds, StepFails
    <2>2. Effect(r) \in EffectRecord
      BY <1>1, <2>1, LocalType DEF Effect, EffectRecord, Worker, Version
    <2>3. ran' = ran \/ ran' = [ran EXCEPT ![r] = Append(ran[r], Effect(r))]
      BY <1>5 DEF StepSucceeds, StepFails
    <2>4. ran' \in [Records -> Seq(EffectRecord)]
      <3>1. ran \in [Records -> Seq(EffectRecord)]
        BY DEF Typed, TypeOK
      <3>2. Append(ran[r], Effect(r)) \in Seq(EffectRecord)
        BY <2>2, <3>1
      <3> QED BY <2>3, <3>1, <3>2
    <2>5. PICK w \in Worker : /\ worker' = [worker EXCEPT ![r] = w]
                              /\ w.rv = worker[r].rv
                              /\ w.doomed = worker[r].doomed
      <3>1. CASE StepSucceeds(r)
        <4>1. Success(r) \in Verdict
          BY DEF Success, Verdict, Reasons, Phases
        <4>2. \/ worker' = [worker EXCEPT ![r].step = worker[r].step + 1]
              \/ worker' = [worker EXCEPT ![r].at = "finish",
                                          ![r].verdict = Success(r)]
          BY <3>1 DEF StepSucceeds
        <4> DEFINE W1 == [worker[r] EXCEPT !.step = worker[r].step + 1]
                   W2 == [worker[r] EXCEPT !.at = "finish", !.verdict = Success(r)]
        <4>3. /\ W1 \in Worker /\ W1.rv = worker[r].rv
              /\ W1.doomed = worker[r].doomed
          BY <1>1 DEF Worker
        <4>4. /\ W2 \in Worker /\ W2.rv = worker[r].rv
              /\ W2.doomed = worker[r].doomed
          BY <1>1, <4>1 DEF Worker, PCs
        <4>5. worker' = [worker EXCEPT ![r] = W1] \/ worker' = [worker EXCEPT ![r] = W2]
          BY <4>2
        <4> QED BY <4>3, <4>4, <4>5
      <3>2. ASSUME NEW why \in StepReasons, NEW changed \in BOOLEAN,
                   StepFails(r, why, changed)
            PROVE  \E w \in Worker : /\ worker' = [worker EXCEPT ![r] = w]
                                     /\ w.rv = worker[r].rv
                                     /\ w.doomed = worker[r].doomed
        <4> DEFINE W == [worker[r] EXCEPT
                           !.at = IF RetriesLeft(r) THEN "retry" ELSE "escalate",
                           !.verdict = Failing(why)]
        <4>1. Failing(why) \in Verdict
          BY DEF Failing, Verdict, Reasons, PageReasons, Phases
        <4>2. W \in Worker /\ W.rv = worker[r].rv /\ W.doomed = worker[r].doomed
          BY <1>1, <4>1 DEF Worker, PCs
        <4>3. worker' = [worker EXCEPT ![r] = W]
          BY <3>2 DEF StepFails
        <4> QED BY <4>2, <4>3
      <3> QED BY <1>5, <3>1, <3>2
    <2>6. TypeOK'
      BY <2>1, <2>4, <2>5
         DEF Typed, TypeOK, PassFrame, apiVars, memoryVars, boundVars
    <2>7. Positions'
      BY <2>1, <2>5 DEF Typed, TypeOK, Positions, Exists, PassFrame, apiVars
    <2> QED BY <2>6, <2>7 DEF Typed
  <1> QED BY <1>3, <1>4, <1>5 DEF Attempt

\* A worker moves on without writing, or having written to another record.
LEMMA WorkerMoves ==
    ASSUME Typed, NEW r \in Records, NEW w \in Worker,
           worker' = [worker EXCEPT ![r] = w],
           w.rv \in {0, worker[r].rv}, w.at # "idle" => w.rv > 0,
           \A d \in w.doomed : d # r /\ Exists(d),
           log' \in [Records -> Seq(Version)],
           \A q \in Records : Exists(q) => Exists(q)',
           \A q \in Records : Len(log[q]) <= Len(log'[q])
    PROVE  /\ worker' \in [Records -> Worker]
           /\ \A q \in Records : worker'[q].rv <= Len(log'[q])
           /\ Positions'
  <1>1. worker \in [Records -> Worker] /\ log \in [Records -> Seq(Version)]
    BY DEF Typed, TypeOK
  <1>2. worker' \in [Records -> Worker]
    BY <1>1
  <1>3. ASSUME NEW q \in Records
        PROVE  /\ worker'[q].rv <= Len(log'[q])
               /\ worker'[q].at # "idle" => worker'[q].rv > 0
               /\ \A d \in worker'[q].doomed : d # q /\ Exists(d)'
    <2>1. /\ worker[q].rv \in Nat /\ worker[q].rv <= Len(log[q])
          /\ worker[q].doomed \subseteq Records /\ w.doomed \subseteq Records
          /\ Len(log[q]) \in Nat /\ Len(log'[q]) \in Nat
          /\ Len(log[q]) <= Len(log'[q])
      <3>1. worker[q] \in Worker /\ worker[q].rv <= Len(log[q])
        BY DEF Typed, TypeOK
      <3>2. Len(log[q]) \in Nat /\ Len(log'[q]) \in Nat
        BY <1>1
      <3> QED BY <3>1, <3>2 DEF Worker
    <2>2. CASE q = r
      <3>1. worker'[q] = w
        BY <1>1, <2>2
      <3> QED BY <2>1, <2>2, <3>1
    <2>3. CASE q # r
      <3>1. worker'[q] = worker[q]
        BY <1>1, <2>3
      <3> QED BY <2>1, <3>1 DEF Typed, Positions
    <2> QED BY <2>2, <2>3
  <1> QED BY <1>2, <1>3 DEF Positions

\* ... those that conclude a pass ...
LEMMA TypedConclude ==
    ASSUME Typed, NEW r \in Records, Conclude(r)
    PROVE  Typed'
  <1>1. /\ worker[r] \in Worker /\ worker \in [Records -> Worker]
        /\ log \in [Records -> Seq(Version)]
    BY DEF Typed, TypeOK
  <1>2. Idle.rv = 0 /\ Idle.at = "idle" /\ Idle.doomed = {}
    BY IdleFields
  <1>3. worker[r].at # "idle" => worker[r].rv > 0 /\ worker[r].rv \in Nat
    BY <1>1 DEF Typed, Positions, Worker
  <1>4. \A d \in worker[r].doomed : d # r /\ Exists(d)
    BY DEF Typed, Positions
  <1>5. log' = log => /\ log' \in [Records -> Seq(Version)]
                      /\ \A q \in Records : Exists(q) => Exists(q)'
                      /\ \A q \in Records : Len(log[q]) <= Len(log'[q])
    <2>1. \A q \in Records : Len(log[q]) \in Nat
      BY <1>1
    <2> QED BY <1>1, <2>1 DEF Exists
  <1>6. ASSUME NEW S \in SUBSET Records, \A d \in S : d # r /\ Exists(d),
               worker[r].at # "idle", Deleting(r, S)
        PROVE  \E w \in Worker : /\ worker' = [worker EXCEPT ![r] = w]
                                 /\ w.rv \in {0, worker[r].rv}
                                 /\ w.at # "idle" => w.rv > 0
                                 /\ \A d \in w.doomed : d # r /\ Exists(d)
    <2> DEFINE W == [worker[r] EXCEPT !.at = "delete", !.doomed = S]
    <2>1. W \in Worker /\ W.rv = worker[r].rv /\ W.doomed = S
      BY <1>1 DEF Worker, PCs
    <2>2. worker' = [worker EXCEPT ![r] = Idle] \/ worker' = [worker EXCEPT ![r] = W]
      BY <1>6 DEF Deleting
    <2> QED BY <1>2, <1>3, <1>6, <2>1, <2>2, IdleType
  <1>7. CASE MarkAwaitingApproval(r)
    <2>1. timers' \in [Records -> SUBSET {"poll", "backoff"}]
      BY <1>7 DEF MarkAwaitingApproval, Typed, TypeOK
    <2> QED BY <1>2, <1>7, <2>1, IdleType, TypedWrite
            DEF MarkAwaitingApproval, Write, Writing, Typed, TypeOK, boundVars
  <1>8. CASE Finish(r)
    <2> DEFINE W == [worker[r] EXCEPT !.at = "record", !.rv = worker[r].rv + 1]
    <2>1. worker' = [worker EXCEPT ![r] = W]
      BY <1>1, <1>8 DEF Finish
    <2>2. W \in Worker /\ W.rv = worker[r].rv + 1 /\ W.doomed = worker[r].doomed
      <3>1. worker[r].rv + 1 \in Nat
        BY <1>1 DEF Worker
      <3> QED BY <1>1, <3>1 DEF Worker, PCs
    <2> QED BY <1>8, <2>1, <2>2, TypedWrite
            DEF Finish, Write, Writing, Typed, TypeOK, boundVars
  <1>9. CASE Escalate(r)
    <2>1. /\ worker[r].at = "escalate"
          /\ UNCHANGED <<PassFrame, ran>>
      BY <1>9 DEF Escalate
    <2>2. pages' \in [Records -> [PageReasons -> Nat]]
      <3>1. \/ pages' = pages
            \/ Paged(r, worker[r].verdict.reason)
        BY <1>9 DEF Escalate
      <3>2. pages \in [Records -> [PageReasons -> Nat]]
        BY DEF Typed, TypeOK
      <3> DEFINE why == worker[r].verdict.reason
                 n == IF pages[r][why] < 2 THEN pages[r][why] + 1 ELSE pages[r][why]
                 f == [pages[r] EXCEPT ![why] = n]
      <3>3. f \in [PageReasons -> Nat]
        <4>1. pages[r] \in [PageReasons -> Nat]
          BY <3>2
        <4>2. why \in PageReasons => n \in Nat
          BY <4>1
        <4> HIDE DEF n, why
        <4> QED BY <4>1, <4>2
      <3>4. CASE Paged(r, why)
        <4>1. pages' = [pages EXCEPT ![r] = f]
          BY <3>4 DEF Paged
        <4> QED BY <3>2, <3>3, <4>1
      <3> QED BY <3>1, <3>2, <3>4
    <2>3. PICK w \in Worker : /\ worker' = [worker EXCEPT ![r] = w]
                              /\ w.rv = worker[r].rv
                              /\ w.doomed = worker[r].doomed
      <3>1. PICK e \in Phases :
              worker' = [worker EXCEPT ![r].at = "finish", ![r].verdict.esc = e]
        <4>1. CASE spec[r].escalates
          BY <1>9, <4>1 DEF Escalate, Phases
        <4>2. CASE ~spec[r].escalates
          <5>1. worker' = [worker EXCEPT ![r].at = "finish"]
            BY <1>9, <4>2 DEF Escalate
          <5> DEFINE old == worker[r].verdict.esc
          <5>2. old \in Phases /\ worker[r].verdict \in Verdict
            BY <1>1 DEF Worker, Verdict
          <5>3. [worker[r] EXCEPT !.at = "finish"]
                  = [worker[r] EXCEPT !.at = "finish", !.verdict.esc = old]
            BY <1>1, <5>2 DEF Worker, Verdict
          <5>4. worker' = [worker EXCEPT ![r] = [worker[r] EXCEPT !.at = "finish"]]
            BY <5>1
          <5> QED BY <5>2, <5>3, <5>4
        <4> QED BY <4>1, <4>2
      <3> DEFINE W == [worker[r] EXCEPT !.at = "finish", !.verdict.esc = e]
      <3>2. worker[r].verdict \in Verdict
        BY <1>1 DEF Worker
      <3>3. [worker[r].verdict EXCEPT !.esc = e] \in Verdict
        BY <3>2 DEF Verdict
      <3>4. W \in Worker /\ W.rv = worker[r].rv /\ W.doomed = worker[r].doomed
        BY <1>1, <3>3 DEF Worker, PCs
      <3> QED BY <3>1, <3>4
    <2>4. /\ worker' \in [Records -> Worker] /\ Positions'
          /\ \A q \in Records : worker'[q].rv <= Len(log'[q])
      BY <1>3, <1>4, <1>5, <2>1, <2>3, WorkerMoves DEF PassFrame, apiVars
    <2> QED BY <2>1, <2>2, <2>4
            DEF Typed, TypeOK, PassFrame, apiVars, memoryVars, boundVars
  <1>10. CASE RecordAndPrune(r)
    <2>1. \A d \in Excess(r) : d \in Records /\ d # r /\ Exists(d)
      BY DEF Excess, Prunable, InCache, Exists, Typed, TypeOK
    <2>2. counted' \in [Records -> Nat]
      BY <1>10 DEF RecordAndPrune, Typed, TypeOK
    <2>3. worker[r].at # "idle" /\ Deleting(r, Excess(r)) /\ log' = log
      BY <1>10 DEF RecordAndPrune, apiVars
    <2>4. /\ worker' \in [Records -> Worker] /\ Positions'
          /\ \A q \in Records : worker'[q].rv <= Len(log'[q])
      BY <1>5, <1>6, <2>1, <2>3, WorkerMoves
    <2> QED BY <1>10, <2>2, <2>4
            DEF RecordAndPrune, Typed, TypeOK, apiVars, worldVars, boundVars
  <1>11. CASE PruneDelete(r)
    <2>1. PICK d \in worker[r].doomed :
            /\ \/ log' = log
               \/ Store(d, [Current(d) EXCEPT !.state = "Deleted"])
            /\ Deleting(r, worker[r].doomed \ {d})
      BY <1>11 DEF PruneDelete
    <2>2. d \in Records /\ Current(d) \in Version
      BY <1>1, <1>4, <2>1, CurrentType DEF Worker
    <2>3. [Current(d) EXCEPT !.state = "Deleted"] \in Version
      BY <2>2 DEF Version, States
    <2>4. /\ log' \in [Records -> Seq(Version)]
          /\ \A q \in Records : Exists(q) => Exists(q)'
          /\ \A q \in Records : Len(log[q]) <= Len(log'[q])
      BY <1>1, <1>5, <2>1, <2>2, <2>3, StoreLog
    <2>5. (worker[r].doomed \ {d}) \in SUBSET Records /\ worker[r].at # "idle"
      BY <1>1, <1>11 DEF Worker, PruneDelete
    <2>6. /\ worker' \in [Records -> Worker] /\ Positions'
          /\ \A q \in Records : worker'[q].rv <= Len(log'[q])
      BY <1>4, <1>6, <2>1, <2>4, <2>5, WorkerMoves
    <2>7. \A q \in Records : seen[q] <= Len(log'[q])
      BY <1>1, <2>4 DEF Typed, TypeOK
    <2> QED BY <1>11, <2>4, <2>6, <2>7
            DEF PruneDelete, Typed, TypeOK, memoryVars, worldVars, boundVars
  <1>12. CASE UpdateConflict(r)
    <2>1. worker' = [worker EXCEPT ![r] = Idle] /\ log' = log
      BY <1>12 DEF UpdateConflict, ReturnError
    <2>2. /\ worker' \in [Records -> Worker] /\ Positions'
          /\ \A q \in Records : worker'[q].rv <= Len(log'[q])
      BY <1>2, <1>5, <2>1, IdleType, WorkerMoves
    <2> QED BY <1>12, <2>2
            DEF UpdateConflict, ReturnError, Typed, TypeOK, memoryVars, worldVars
  <1> QED BY <1>7, <1>8, <1>9, <1>10, <1>11, <1>12 DEF Conclude

\* ... and those in which a request fails.
LEMMA TypedFault ==
    ASSUME Typed, NEW r \in Records, Fault(r)
    PROVE  Typed'
  <1>1. /\ worker \in [Records -> Worker] /\ faults' \in Nat
        /\ log \in [Records -> Seq(Version)]
    BY DEF Fault, UpdateFails, UpdateResponseLost, PruneFails, Typed, TypeOK
  <1>2. Idle.rv = 0 /\ Idle.at = "idle" /\ Idle.doomed = {}
    BY IdleFields
  <1>3. CASE UpdateFails(r) \/ PruneFails(r)
    <2>1. worker' = [worker EXCEPT ![r] = Idle] /\ log' = log
      BY <1>3 DEF UpdateFails, PruneFails, ReturnError, apiVars
    <2>2. /\ log' \in [Records -> Seq(Version)]
          /\ \A q \in Records : Exists(q) => Exists(q)'
          /\ \A q \in Records : Len(log[q]) <= Len(log'[q])
      <3>1. \A q \in Records : Len(log[q]) \in Nat
        BY <1>1
      <3> QED BY <1>1, <2>1, <3>1 DEF Exists
    <2>3. /\ worker' \in [Records -> Worker] /\ Positions'
          /\ \A q \in Records : worker'[q].rv <= Len(log'[q])
      BY <1>2, <2>1, <2>2, IdleType, WorkerMoves
    <2> QED BY <1>1, <1>3, <2>3
            DEF UpdateFails, PruneFails, ReturnError, Typed, TypeOK, apiVars,
                memoryVars, worldVars
  <1>4. CASE UpdateResponseLost(r)
    BY <1>1, <1>2, <1>4, IdleType, TypedWrite
       DEF UpdateResponseLost, ReturnError, Typed, TypeOK
  <1> QED BY <1>3, <1>4 DEF Fault

\* The cache, the queue, the loader and the process.
LEMMA TypedProcess ==
    ASSUME Typed,
           \/ \E r \in Records : Observe(r) \/ TimerFires(r)
           \/ LoadList \/ LoadApply \/ Crash \/ Restart \/ Tick
    PROVE  Typed'
  <1> USE DEF Typed, TypeOK, Positions, Exists, apiVars, workVars, memoryVars,
              worldVars, boundVars, WorldFrame
  <1>1. ASSUME NEW r \in Records, Observe(r) PROVE Typed'
    <2>1. seen' \in [Records -> Nat]
      BY <1>1 DEF Observe
    <2>2. \A q \in Records : seen'[q] <= Len(log[q])
      BY <1>1 DEF Observe
    <2> QED BY <1>1, <2>1, <2>2 DEF Observe
  <1>2. ASSUME NEW r \in Records, TimerFires(r) PROVE Typed'
    <2>1. timers' \in [Records -> SUBSET {"poll", "backoff"}]
      BY <1>2 DEF TimerFires
    <2> QED BY <1>2, <2>1 DEF TimerFires
  <1>3. CASE LoadList
    BY <1>3 DEF LoadList
  <1>4. CASE LoadApply
    BY <1>4 DEF LoadApply
  <1>5. CASE Crash
    <2>1. /\ worker' \in [Records -> Worker] /\ crashes' \in Nat
          /\ \A q \in Records : worker'[q] = Idle
      BY <1>5, IdleType DEF Crash
    <2>2. Idle.rv = 0 /\ Idle.at = "idle" /\ Idle.doomed = {}
      BY DEF Idle
    <2>3. \A q \in Records : Len(log[q]) \in Nat
      OBVIOUS
    <2>4. /\ UNCHANGED <<spec, deadline, born, log, seen, clock, ran, pages,
                         patches, faults>>
          /\ up' = FALSE /\ queue' = {} /\ listed' = {} /\ loader' = "list"
          /\ timers' \in [Records -> SUBSET {"poll", "backoff"}]
          /\ counted' \in [Records -> Nat]
      BY <1>5 DEF Crash
    <2>5. \A q \in Records : /\ worker'[q].rv <= Len(log[q])
                             /\ worker'[q].at = "idle"
                             /\ worker'[q].doomed = {}
      BY <2>1, <2>2, <2>3
    <2> QED BY <2>1, <2>4, <2>5
  <1>6. CASE Restart
    <2>1. PICK lag \in [Records -> 0 .. MaxLag] :
            seen' = [r \in Records |-> IF lag[r] <= Len(log[r])
                                      THEN Len(log[r]) - lag[r] ELSE 0]
      BY <1>6 DEF Restart
    <2>2. \A r \in Records : /\ Len(log[r]) \in Nat
                             /\ lag[r] \in Nat
      BY LifecycleAssumption
    <2>3. /\ seen' \in [Records -> Nat]
          /\ \A q \in Records : seen'[q] <= Len(log[q])
      <3> DEFINE n(q) == Len(log[q])
      <3>1. \A q \in Records : n(q) \in Nat /\ lag[q] \in Nat
        BY <2>2
      <3>2. seen' = [r \in Records |-> IF lag[r] <= n(r) THEN n(r) - lag[r] ELSE 0]
        BY <2>1
      <3> HIDE DEF n, TypeOK, Typed, Positions
      <3>3. ASSUME NEW q \in Records
            PROVE  seen'[q] \in Nat /\ seen'[q] <= n(q)
        <4>1. seen'[q] = IF lag[q] <= n(q) THEN n(q) - lag[q] ELSE 0
          BY <3>2, Zenon
        <4> QED BY <4>1, <3>1, SMT
      <3>4. DOMAIN seen' = Records /\ seen' = [q \in Records |-> seen'[q]]
        BY <3>2, Zenon
      <3>5. seen' \in [Records -> Nat]
        BY <3>3, <3>4, Zenon
      <3> QED BY <3>3, <3>5, Zenon DEF n
    <2>4. queue' \subseteq Records
      BY <1>6 DEF Restart
    <2>5. /\ UNCHANGED <<spec, deadline, born, log, timers, worker, loader,
                         listed, counted, clock, ran, pages, patches, faults,
                         crashes>>
          /\ up' = TRUE
      BY <1>6 DEF Restart
    <2> QED BY <2>3, <2>4, <2>5
  <1>7. CASE Tick
    BY <1>7 DEF Tick
  <1> QED BY <1>1, <1>2, <1>3, <1>4, <1>5, <1>6, <1>7

\* People and the sink only add versions.
LEMMA TypedWorld ==
    ASSUME Typed, NEW r \in Records, World(r)
    PROVE  Typed'
  <1>1. log \in [Records -> Seq(Version)]
    BY DEF Typed, TypeOK
  <1>2. PICK v \in Version : Store(r, v)
    <2>1. CASE Create(r)
      BY <2>1 DEF Create, NewRecord, Version, States, Reasons, Decisions, Phases
    <2>2. ASSUME NEW d \in Decisions, Decide(r, d)
          PROVE  \E v \in Version : Store(r, v)
      <3>1. Current(r) \in Version /\ Store(r, [Current(r) EXCEPT !.decision = d])
        BY <2>2, CurrentType DEF Decide
      <3>2. [Current(r) EXCEPT !.decision = d] \in Version
        BY <3>1 DEF Version
      <3> QED BY <3>1, <3>2
    <2>3. CASE Touch(r)
      BY <2>3, CurrentType DEF Touch
    <2> QED BY <2>1, <2>2, <2>3 DEF World
  <1>3. /\ log' \in [Records -> Seq(Version)]
        /\ \A q \in Records : Exists(q) => Exists(q)'
        /\ \A q \in Records : Len(log[q]) <= Len(log'[q])
    BY <1>1, <1>2, StoreLog
  <1>4. UNCHANGED <<WorldFrame, spec, clock>>
    BY DEF World, Create, Decide, Touch
  <1>5. /\ deadline' \in [Records -> Nat] /\ born' \in [Records -> Nat]
        /\ patches' \in Nat
    <2>1. CASE Create(r)
      <3>1. Cardinality({q \in Records : Exists(q)}) \in Nat
        BY LifecycleAssumption, FS_Subset, FS_CardinalityType
      <3>2. \A due \in Deadlines(r) : due \in Nat
        BY LifecycleAssumption DEF Deadlines, Typed, TypeOK
      <3> QED BY <2>1, <3>1, <3>2 DEF Create, Typed, TypeOK
    <2>2. CASE Touch(r) \/ \E d \in Decisions : Decide(r, d)
      <3>1. deadline' = deadline /\ born' = born /\ patches' = patches + 1
        BY <2>2 DEF Touch, Decide
      <3> QED BY <3>1 DEF Typed, TypeOK
    <2> QED BY <2>1, <2>2 DEF World
  <1>6. \A q \in Records : /\ seen'[q] <= Len(log'[q])
                           /\ worker'[q].rv <= Len(log'[q])
    <2>1. ASSUME NEW q \in Records
          PROVE  seen[q] <= Len(log'[q]) /\ worker[q].rv <= Len(log'[q])
      <3>1. Len(log[q]) \in Nat /\ Len(log'[q]) \in Nat
        BY <1>1, <1>3
      <3>2. seen[q] \in Nat /\ worker[q].rv \in Nat
        BY DEF Typed, TypeOK, Worker
      <3> QED BY <1>3, <3>1, <3>2 DEF Typed, TypeOK
    <2> QED BY <1>4, <2>1 DEF WorldFrame, workVars
  <1>7. TypeOK'
    BY <1>3, <1>4, <1>5, <1>6
       DEF Typed, TypeOK, WorldFrame, workVars, memoryVars, worldVars
  <1>8. Positions'
    <2>1. \A q \in Records : worker[q].doomed \subseteq Records
      BY DEF Typed, TypeOK, Worker
    <2> QED BY <1>3, <1>4, <2>1 DEF Typed, Positions, WorldFrame, workVars
  <1> QED BY <1>7, <1>8 DEF Typed

LEMMA TypedNext == Typed /\ [Next]_vars => Typed'
  <1> SUFFICES ASSUME Typed, [Next]_vars PROVE Typed'
    OBVIOUS
  <1>1. CASE Next
    BY <1>1, TypedReconcile, TypedAttempt, TypedConclude, TypedFault,
       TypedProcess, TypedWorld DEF Next
  <1>2. CASE UNCHANGED vars
    BY <1>2 DEF vars, apiVars, workVars, memoryVars, worldVars, boundVars,
                Typed, TypeOK, Positions, Exists
  <1> QED BY <1>1, <1>2

\* Every variable keeps its type and every position in a log stays inside it,
\* whatever the reconciler, the process, the API server and people do.
THEOREM TypeCorrect == Spec => []TypeOK
  <1>1. Typed => TypeOK
    BY DEF Typed
  <1> QED BY <1>1, TypedInit, TypedNext, PTL DEF Spec

-----------------------------------------------------------------------------
(* The states of a record, grouped *)

OpenStates == {"New", "Pending", "AwaitingApproval"}
Ended      == Terminal \cup {"Deleted"}

-----------------------------------------------------------------------------
(* What one step can do to one record *)

Frozen(r) == log'[r] = log[r] /\ ran'[r] = ran[r]

Stays(r)    == Frozen(r) /\ worker'[r] = worker[r]
Released(r) == Frozen(r) /\ worker'[r] = Idle

\* A pass starts from the cached version.
Reads(r) ==
    /\ Frozen(r)
    /\ seen[r] \in 1 .. Len(log[r])
    /\ worker'[r].rv = seen[r]
    /\ worker'[r].verdict.state = "Failed"
    /\ \/ /\ worker'[r].at = "start"
          /\ Cached(r).state \in OpenStates
          /\ spec[r].mode = "approval" => Cached(r).decision = "approve"
       \/ worker'[r].at \in {"await", "escalate"} /\ Cached(r).state \in OpenStates
       \/ /\ worker'[r].at = "finish"
          /\ Cached(r).state \in OpenStates \cup {"Running"}

\* A status write lands.
Writes(r) ==
    /\ worker[r].at \in Writing /\ Fresh(r)
    /\ log'[r] = Append(log[r], Outgoing(r)) /\ ran'[r] = ran[r]
    /\ \/ worker'[r] = Idle
       \/ /\ worker[r].at = "start"
          /\ worker'[r] = [worker[r] EXCEPT !.at = "execute", !.rv = @ + 1]
       \/ /\ worker[r].at = "finish"
          /\ worker'[r].at = "record"

\* A step of the plan ends.
Executes(r) ==
    /\ worker[r].at = "execute"
    /\ log'[r] = log[r]
    /\ ran'[r] \in {ran[r], Append(ran[r], Effect(r))}
    /\ worker'[r].rv = worker[r].rv
    /\ \/ worker'[r].at = "execute" /\ worker'[r].step = worker[r].step + 1
       \/ worker'[r].at = "finish"
       \/ worker'[r].at = "retry" /\ RetriesLeft(r)
       \/ worker'[r].at = "escalate" /\ worker'[r].verdict.state = "Failed"

\* The escalation ends.
Pages(r) ==
    /\ Frozen(r)
    /\ worker[r].at = "escalate" /\ worker'[r].at = "finish"
    /\ worker'[r].rv = worker[r].rv
    /\ worker'[r].verdict.state = worker[r].verdict.state

Cleans(r) == Frozen(r) /\ worker'[r].at = "delete"

\* Somebody else writes to the record.
Patched(r) ==
    /\ Exists(r) /\ Current(r).state # "Deleted"
    /\ \E d \in Decisions :
          log'[r] = Append(log[r], [Current(r) EXCEPT !.decision = d])
    /\ ran'[r] = ran[r] /\ worker'[r] = worker[r]

Pruned(r) ==
    /\ \E q \in Records : r \in worker[q].doomed
    /\ log'[r] = Append(log[r], [Current(r) EXCEPT !.state = "Deleted"])
    /\ ran'[r] = ran[r] /\ worker'[r] = worker[r]

Appears(r) ==
    /\ ~Exists(r)
    /\ log'[r] = Append(log[r], NewRecord)
    /\ ran'[r] = ran[r] /\ worker'[r] = worker[r]

Move(r) ==
    \/ Stays(r) \/ Released(r) \/ Reads(r) \/ Writes(r) \/ Executes(r)
    \/ Pages(r) \/ Cleans(r) \/ Patched(r) \/ Pruned(r) \/ Appears(r)

LEMMA MoveReconcile ==
    ASSUME Typed, NEW r \in Records, Reconcile(r)
    PROVE  Stays(r) \/ Reads(r)
  <1>1. /\ log' = log /\ ran' = ran /\ worker \in [Records -> Worker]
        /\ seen[r] \in Nat /\ seen[r] <= Len(log[r]) /\ Len(log[r]) \in Nat
    <2>1. Dequeue(r)
      BY DEF Reconcile, ReconcileNothing, ReconcileInterrupted,
             ReconcileGaveUp, ReconcileRun, ReconcileDenied,
             ReconcileTimedOut, ReconcileWaiting
    <2>2. log[r] \in Seq(Version)
      BY DEF Typed, TypeOK
    <2> QED BY <2>1, <2>2 DEF Dequeue, apiVars, worldVars, Typed, TypeOK
  <1>2. ASSUME NEW at, NEW verdict, Proceed(r, at, verdict)
        PROVE  /\ worker'[r].at = at /\ worker'[r].rv = seen[r]
               /\ worker'[r].verdict = verdict
    BY <1>1, <1>2 DEF Proceed, Idle
  <1>3. \A why : Failing(why).state = "Failed"
    BY DEF Failing
  <1>4. InCache(r) => seen[r] \in 1 .. Len(log[r])
    BY <1>1 DEF InCache
  <1>5. CASE ReconcileNothing(r)
    BY <1>1, <1>5 DEF ReconcileNothing, Stays, Frozen
  <1>6. CASE ReconcileInterrupted(r)
    BY <1>1, <1>2, <1>3, <1>4, <1>6 DEF ReconcileInterrupted, Reads, Frozen
  <1>7. CASE ReconcileGaveUp(r)
    BY <1>1, <1>2, <1>3, <1>4, <1>7
       DEF ReconcileGaveUp, Open, Reads, Frozen, OpenStates
  <1>8. CASE ReconcileRun(r)
    BY <1>1, <1>2, <1>3, <1>4, <1>8
       DEF ReconcileRun, Open, Reads, Frozen, OpenStates
  <1>9. CASE ReconcileDenied(r)
    BY <1>1, <1>2, <1>3, <1>4, <1>9
       DEF ReconcileDenied, AwaitsApproval, Open, Reads, Frozen, OpenStates
  <1>10. CASE ReconcileTimedOut(r)
    BY <1>1, <1>2, <1>3, <1>4, <1>10
       DEF ReconcileTimedOut, AwaitsApproval, Open, Reads, Frozen, OpenStates
  <1>11. CASE ReconcileWaiting(r)
    <2>1. \/ worker' = worker
          \/ /\ worker'[r].at = "await" /\ worker'[r].rv = seen[r]
             /\ worker'[r].verdict = Failing("")
      BY <1>1, <1>11 DEF ReconcileWaiting, Idle
    <2> QED BY <1>1, <1>3, <1>4, <1>11, <2>1
            DEF ReconcileWaiting, AwaitsApproval, Open, Reads, Stays, Frozen,
                OpenStates
  <1> QED BY <1>5, <1>6, <1>7, <1>8, <1>9, <1>10, <1>11 DEF Reconcile

LEMMA MoveAttempt ==
    ASSUME Typed, NEW r \in Records, Attempt(r)
    PROVE  Writes(r) \/ Executes(r)
  <1>1. /\ worker \in [Records -> Worker] /\ worker[r] \in Worker
        /\ log \in [Records -> Seq(Version)]
        /\ ran \in [Records -> Seq(EffectRecord)]
    BY DEF Typed, TypeOK
  <1>2. CASE StartAttempt(r)
    <2>1. log'[r] = Append(log[r], Outgoing(r)) /\ ran' = ran
      BY <1>1, <1>2 DEF StartAttempt, Write, Store, worldVars
    <2>2. worker'[r] = [worker[r] EXCEPT !.at = "execute", !.rv = worker[r].rv + 1]
      BY <1>1, <1>2 DEF StartAttempt
    <2> QED BY <1>2, <2>1, <2>2 DEF StartAttempt, Write, Writing, Writes
  <1>3. CASE RecordFailedAttempt(r)
    <2>1. log'[r] = Append(log[r], Outgoing(r)) /\ ran' = ran
      BY <1>1, <1>3 DEF RecordFailedAttempt, Write, Store, worldVars
    <2> QED BY <1>1, <1>3, <2>1 DEF RecordFailedAttempt, Write, Writing, Writes
  <1>4. CASE StepSucceeds(r)
    <2>1. /\ worker[r].at = "execute" /\ log' = log
          /\ ran'[r] \in {ran[r], Append(ran[r], Effect(r))}
      BY <1>1, <1>4 DEF StepSucceeds, PassFrame, apiVars
    <2>2. /\ worker'[r].rv = worker[r].rv
          /\ \/ worker'[r].at = "execute" /\ worker'[r].step = worker[r].step + 1
             \/ worker'[r].at = "finish"
      BY <1>1, <1>4 DEF StepSucceeds, Worker
    <2> QED BY <2>1, <2>2 DEF Executes
  <1>5. ASSUME NEW why \in StepReasons, NEW changed \in BOOLEAN,
               StepFails(r, why, changed)
        PROVE  Executes(r)
    <2>1. /\ worker[r].at = "execute" /\ log' = log
          /\ ran'[r] \in {ran[r], Append(ran[r], Effect(r))}
      BY <1>1, <1>5 DEF StepFails, PassFrame, apiVars
    <2>2. /\ worker'[r].rv = worker[r].rv
          /\ worker'[r].at = IF RetriesLeft(r) THEN "retry" ELSE "escalate"
          /\ worker'[r].verdict = Failing(why)
      BY <1>1, <1>5 DEF StepFails, Worker
    <2> QED BY <2>1, <2>2 DEF Executes, Failing
  <1> QED BY <1>2, <1>3, <1>4, <1>5 DEF Attempt

LEMMA MoveConclude ==
    ASSUME Typed, NEW r \in Records, Conclude(r) \/ Fault(r)
    PROVE  Writes(r) \/ Pages(r) \/ Cleans(r) \/ Released(r)
  <1>1. /\ worker \in [Records -> Worker] /\ worker[r] \in Worker
        /\ log \in [Records -> Seq(Version)]
    BY DEF Typed, TypeOK
  <1>2. ASSUME NEW S, Deleting(r, S)
        PROVE  worker'[r] = Idle \/ worker'[r].at = "delete"
    BY <1>1, <1>2 DEF Deleting, Worker
  <1>3. CASE MarkAwaitingApproval(r)
    <2>1. log'[r] = Append(log[r], Outgoing(r)) /\ ran' = ran
      BY <1>1, <1>3 DEF MarkAwaitingApproval, Write, Store, worldVars
    <2> QED BY <1>1, <1>3, <2>1 DEF MarkAwaitingApproval, Write, Writing, Writes
  <1>4. CASE Finish(r)
    <2>1. log'[r] = Append(log[r], Outgoing(r)) /\ ran' = ran
      BY <1>1, <1>4 DEF Finish, Write, Store, worldVars
    <2>2. worker'[r].at = "record"
      BY <1>1, <1>4 DEF Finish, Worker
    <2> QED BY <1>4, <2>1, <2>2 DEF Finish, Write, Writing, Writes
  <1>5. CASE Escalate(r)
    <2>1. worker[r].at = "escalate" /\ log' = log /\ ran' = ran
      BY <1>5 DEF Escalate, PassFrame, apiVars
    <2>2. \/ worker' = [worker EXCEPT ![r].at = "finish"]
          \/ \E phase \in {"Succeeded", "Failed"} :
                worker' = [worker EXCEPT ![r].at = "finish",
                                         ![r].verdict.esc = phase]
      BY <1>5 DEF Escalate
    <2>3. /\ worker'[r].at = "finish" /\ worker'[r].rv = worker[r].rv
          /\ worker'[r].verdict.state = worker[r].verdict.state
      BY <1>1, <2>2 DEF Worker, Verdict
    <2> QED BY <2>1, <2>3 DEF Pages, Frozen
  <1>6. CASE RecordAndPrune(r)
    <2>1. log' = log /\ ran' = ran /\ Deleting(r, Excess(r))
      BY <1>6 DEF RecordAndPrune, apiVars, worldVars
    <2> QED BY <1>2, <2>1 DEF Cleans, Released, Frozen
  <1>7. CASE PruneDelete(r)
    <2>1. PICK d \in worker[r].doomed :
            /\ \/ log' = log
               \/ Store(d, [Current(d) EXCEPT !.state = "Deleted"])
            /\ Deleting(r, worker[r].doomed \ {d})
      BY <1>7 DEF PruneDelete
    <2>2. d # r /\ ran' = ran
      BY <1>7, <2>1 DEF PruneDelete, worldVars, Typed, Positions
    <2>3. log'[r] = log[r]
      BY <1>1, <2>1, <2>2 DEF Store
    <2> QED BY <1>2, <2>1, <2>2, <2>3 DEF Cleans, Released, Frozen
  <1>8. CASE UpdateConflict(r) \/ UpdateFails(r) \/ PruneFails(r)
    <2>1. log' = log /\ ran' = ran /\ worker' = [worker EXCEPT ![r] = Idle]
      BY <1>8 DEF UpdateConflict, UpdateFails, PruneFails, ReturnError,
                  apiVars, worldVars
    <2> QED BY <1>1, <2>1 DEF Released, Frozen
  <1>9. CASE UpdateResponseLost(r)
    <2>1. /\ log'[r] = Append(log[r], Outgoing(r)) /\ ran' = ran
          /\ worker'[r] = Idle
      BY <1>1, <1>9 DEF UpdateResponseLost, ReturnError, Store, worldVars
    <2> QED BY <1>9, <2>1 DEF UpdateResponseLost, Writes
  <1> QED BY <1>3, <1>4, <1>5, <1>6, <1>7, <1>8, <1>9 DEF Conclude, Fault

\* A worker's steps leave other records alone, except that pruning deletes.
LEMMA MoveOthers ==
    ASSUME Typed, NEW r \in Records, NEW q \in Records, q # r,
           Reconcile(r) \/ Attempt(r) \/ Conclude(r) \/ Fault(r)
    PROVE  Stays(q) \/ Pruned(q)
  <1>1. /\ worker \in [Records -> Worker]
        /\ log \in [Records -> Seq(Version)]
        /\ ran \in [Records -> Seq(EffectRecord)]
    BY DEF Typed, TypeOK
  <1>2. CASE Reconcile(r)
    <2>1. Dequeue(r)
      BY <1>2 DEF Reconcile, ReconcileNothing, ReconcileInterrupted,
                  ReconcileGaveUp, ReconcileRun, ReconcileDenied,
                  ReconcileTimedOut, ReconcileWaiting
    <2>2. worker'[q] = worker[q]
      BY <1>1, <1>2
         DEF Reconcile, ReconcileNothing, ReconcileInterrupted,
             ReconcileGaveUp, ReconcileRun, ReconcileDenied,
             ReconcileTimedOut, ReconcileWaiting, Proceed
    <2> QED BY <2>1, <2>2 DEF Dequeue, apiVars, worldVars, Stays, Frozen
  <1>3. CASE Attempt(r)
    <2>1. /\ log' = log \/ Store(r, Outgoing(r))
          /\ ran' = ran \/ ran' = [ran EXCEPT ![r] = Append(ran[r], Effect(r))]
      BY <1>3 DEF Attempt, StartAttempt, StepSucceeds, StepFails,
                  RecordFailedAttempt, Write, PassFrame, apiVars, worldVars
    <2>2. worker'[q] = worker[q]
      BY <1>1, <1>3 DEF Attempt, StartAttempt, StepSucceeds, StepFails,
                        RecordFailedAttempt
    <2>3. log'[q] = log[q] /\ ran'[q] = ran[q]
      BY <1>1, <2>1 DEF Store
    <2> QED BY <2>2, <2>3 DEF Stays, Frozen
  <1>4. CASE PruneDelete(r)
    <2>1. PICK d \in worker[r].doomed :
            /\ \/ log' = log
               \/ Store(d, [Current(d) EXCEPT !.state = "Deleted"])
            /\ Deleting(r, worker[r].doomed \ {d})
      BY <1>4 DEF PruneDelete
    <2>2. worker'[q] = worker[q] /\ ran' = ran
      BY <1>1, <1>4, <2>1 DEF Deleting, PruneDelete, worldVars
    <2>3. \/ log'[q] = log[q]
          \/ /\ q = d
             /\ log'[q] = Append(log[q], [Current(q) EXCEPT !.state = "Deleted"])
      BY <1>1, <2>1 DEF Store
    <2> QED BY <2>1, <2>2, <2>3 DEF Stays, Pruned, Frozen
  <1>5. CASE Fault(r) \/ (Conclude(r) /\ ~PruneDelete(r))
    <2>1. ran' = ran /\ (log' = log \/ Store(r, Outgoing(r)))
      BY <1>5 DEF Conclude, Fault, MarkAwaitingApproval, Escalate, Finish,
                  RecordAndPrune, UpdateConflict, UpdateFails, PruneFails,
                  UpdateResponseLost, ReturnError, Write, PassFrame, apiVars,
                  worldVars
    <2>2. worker'[q] = worker[q]
      BY <1>1, <1>5
         DEF Conclude, Fault, MarkAwaitingApproval, Escalate, Finish,
             RecordAndPrune, UpdateConflict, UpdateFails, PruneFails,
             UpdateResponseLost, ReturnError, Deleting
    <2>3. log'[q] = log[q]
      BY <1>1, <2>1 DEF Store
    <2> QED BY <2>1, <2>2, <2>3 DEF Stays, Frozen
  <1> QED BY <1>2, <1>3, <1>4, <1>5

LEMMA MoveWorld ==
    ASSUME Typed, NEW r \in Records, World(r), NEW q \in Records
    PROVE  Stays(q) \/ Patched(q) \/ Appears(q)
  <1>1. log \in [Records -> Seq(Version)]
    BY DEF Typed, TypeOK
  <1>2. worker' = worker /\ ran' = ran
    BY DEF World, Create, Decide, Touch, WorldFrame, workVars, worldVars
  <1>3. CASE Create(r)
    BY <1>1, <1>2, <1>3 DEF Create, Store, Stays, Frozen, Appears
  <1>4. ASSUME NEW d \in Decisions, Decide(r, d)
        PROVE  Stays(q) \/ Patched(q)
    BY <1>1, <1>2, <1>4 DEF Decide, Store, Stays, Frozen, Patched
  <1>5. CASE Touch(r)
    <2>1. /\ Exists(r) /\ Current(r).state # "Deleted"
          /\ Store(r, Current(r)) /\ Current(r) \in Version
      BY <1>5, CurrentType DEF Touch
    <2>2. Current(r) = [Current(r) EXCEPT !.decision = Current(r).decision]
      BY <2>1 DEF Version
    <2>3. Current(r).decision \in Decisions
      BY <2>1 DEF Version
    <2>4. q # r => log'[q] = log[q]
      BY <1>1, <2>1 DEF Store
    <2>5. log'[r] = Append(log[r], [Current(r) EXCEPT !.decision = Current(r).decision])
      BY <1>1, <2>1, <2>2 DEF Store
    <2> QED BY <1>2, <2>1, <2>3, <2>4, <2>5 DEF Stays, Frozen, Patched
  <1> QED BY <1>3, <1>4, <1>5 DEF World

\* Every step moves every record in one of the ten ways.
LEMMA Moves ==
    ASSUME Typed, [Next]_vars, NEW q \in Records
    PROVE  Move(q)
  <1>1. ASSUME NEW r \in Records,
               Reconcile(r) \/ Attempt(r) \/ Conclude(r) \/ Fault(r)
        PROVE  Move(q)
    BY <1>1, MoveReconcile, MoveAttempt, MoveConclude, MoveOthers DEF Move
  <1>2. ASSUME NEW r \in Records, World(r) PROVE Move(q)
    BY <1>2, MoveWorld DEF Move
  <1>3. ASSUME NEW r \in Records, Observe(r) \/ TimerFires(r) PROVE Move(q)
    BY <1>3 DEF Observe, TimerFires, apiVars, worldVars, Move, Stays, Frozen
  <1>4. CASE LoadList \/ LoadApply \/ Restart \/ Tick \/ UNCHANGED vars
    <2>1. log' = log /\ ran' = ran /\ worker' = worker
      BY <1>4 DEF LoadList, LoadApply, Restart, Tick, vars, apiVars, workVars,
                  worldVars, WorldFrame
    <2> QED BY <2>1 DEF Move, Stays, Frozen
  <1>5. CASE Crash
    BY <1>5 DEF Crash, apiVars, worldVars, Move, Released, Frozen
  <1> QED BY <1>1, <1>2, <1>3, <1>4, <1>5 DEF Next

LEMMA SpecConstant == ASSUME [Next]_vars PROVE spec' = spec
  <1>1. ASSUME NEW r \in Records, Reconcile(r) PROVE spec' = spec
    <2>1. Dequeue(r)
      BY <1>1 DEF Reconcile, ReconcileNothing, ReconcileInterrupted,
                  ReconcileGaveUp, ReconcileRun, ReconcileDenied,
                  ReconcileTimedOut, ReconcileWaiting
    <2> QED BY <2>1 DEF Dequeue, apiVars
  <1>2. ASSUME NEW r \in Records, Attempt(r) PROVE spec' = spec
    BY <1>2 DEF Attempt, StartAttempt, StepSucceeds, StepFails,
                RecordFailedAttempt, Write, PassFrame, apiVars
  <1>3. ASSUME NEW r \in Records, Conclude(r) \/ Fault(r) PROVE spec' = spec
    BY <1>3 DEF Conclude, Fault, MarkAwaitingApproval, Escalate, Finish,
                RecordAndPrune, PruneDelete, UpdateConflict, UpdateFails,
                PruneFails, UpdateResponseLost, ReturnError, Write, PassFrame,
                apiVars
  <1>4. ASSUME NEW r \in Records, World(r) PROVE spec' = spec
    BY <1>4 DEF World, Create, Decide, Touch
  <1>5. ASSUME NEW r \in Records, Observe(r) \/ TimerFires(r) PROVE spec' = spec
    BY <1>5 DEF Observe, TimerFires, apiVars
  <1>6. CASE \/ LoadList \/ LoadApply \/ Crash \/ Restart \/ Tick
             \/ UNCHANGED vars
    BY <1>6 DEF LoadList, LoadApply, Crash, Restart, Tick, vars, apiVars
  <1> QED BY <1>1, <1>2, <1>3, <1>4, <1>5, <1>6 DEF Next

-----------------------------------------------------------------------------
(* The inductive invariant *)

\* What a pass under way may rely on: it works from a version that has not
\* ended, and nothing else moves the status of a record whose attempt runs.
Held(r) ==
    LET w == worker[r]
    IN  /\ w.at \in {"start", "await"} => Local(r).state \in OpenStates
        /\ w.at = "start" /\ spec[r].mode = "approval" =>
              Local(r).decision = "approve"
        /\ w.at \in {"escalate", "finish"} =>
              Local(r).state \in OpenStates \cup {"Running"}
        /\ w.at = "escalate" => w.verdict.state = "Failed"
        /\ w.at = "finish" /\ w.verdict.state # "Failed" =>
              Local(r).state = "Running"
        /\ w.at \in {"execute", "retry"} =>
              /\ Local(r).state = "Running"
              /\ Current(r).state = "Running"
              /\ Current(r).attempt = Local(r).attempt
        /\ w.at = "retry" => Local(r).attempt <= spec[r].retries

\* A record that has ended stays ended.
EndStays(r) ==
    \A n \in 1 .. Len(log[r]) :
        log[r][n].state \in Ended => Current(r).state \in Ended

\* Attempts are counted, approved and within the budget.
Counted(r) ==
    \A n \in 1 .. Len(log[r]) :
        /\ log[r][n].attempt <= spec[r].retries + 1
        /\ log[r][n].state \in OpenStates => log[r][n].attempt <= spec[r].retries
        /\ n > 1 => log[r][n].attempt \in {log[r][n - 1].attempt,
                                           log[r][n - 1].attempt + 1}
        /\ n > 1 /\ spec[r].mode = "approval"
              /\ log[r][n].attempt # log[r][n - 1].attempt =>
              log[r][n - 1].decision = "approve"

\* The steps executed so far are in order, belong to attempts that were
\* begun, and precede the step a running attempt executes next.
Ordered(r) ==
    /\ ran[r] # <<>> => Exists(r)
    /\ \A i \in 1 .. Len(ran[r]) : ran[r][i].attempt <= Current(r).attempt
    /\ worker[r].at = "execute" =>
          \A i \in 1 .. Len(ran[r]) : Before(ran[r][i], Effect(r))
    /\ \A i, j \in 1 .. Len(ran[r]) : i < j => Before(ran[r][i], ran[r][j])

\* A prune deletes only records that have ended.
DoomedEnded == \A r \in Records : \A q \in worker[r].doomed : Current(q).state \in Ended

IInv ==
    /\ Typed
    /\ DoomedEnded
    /\ \A r \in Records : Held(r) /\ EndStays(r) /\ Counted(r) /\ Ordered(r)

LEMMA IInvInit == Init => IInv
  <1> SUFFICES ASSUME Init PROVE IInv
    OBVIOUS
  <1>1. \A r \in Records : /\ worker[r] = Idle
                           /\ log[r] = <<>> /\ ran[r] = <<>>
    BY DEF Init
  <1>3. DoomedEnded
    BY <1>1, IdleFields DEF DoomedEnded
  <1>4. \A r \in Records : Held(r) /\ EndStays(r) /\ Counted(r) /\ Ordered(r)
    BY <1>1, IdleFields DEF Held, EndStays, Counted, Ordered
  <1> QED BY <1>3, <1>4, TypedInit DEF IInv

\* A record's log after it grew by one version.
LEMMA Grown ==
    ASSUME Typed, NEW r \in Records, NEW v \in Version,
           log'[r] = Append(log[r], v)
    PROVE  /\ Len(log[r]) \in Nat /\ Len(log'[r]) = Len(log[r]) + 1
           /\ Current(r)' = v /\ Exists(r)'
           /\ log'[r][Len(log[r]) + 1] = v
           /\ \A n \in 1 .. Len(log[r]) : log'[r][n] = log[r][n]
  <1>1. log[r] \in Seq(Version)
    BY DEF Typed, TypeOK
  <1>2. /\ Len(log[r]) \in Nat /\ Len(log'[r]) = Len(log[r]) + 1
        /\ log'[r][Len(log[r]) + 1] = v
        /\ \A n \in 1 .. Len(log[r]) : log'[r][n] = log[r][n]
    BY <1>1
  <1>3. log'[r] # <<>>
    BY <1>1, <1>2
  <1> QED BY <1>2, <1>3 DEF Current, Exists

\* What a write that is not refused replaces, and by what.
LEMMA WriteFacts ==
    ASSUME IInv, NEW r \in Records, worker[r].at \in Writing, Fresh(r)
    PROVE  /\ Exists(r) /\ Local(r) = Current(r)
           /\ Current(r) \in Version /\ Outgoing(r) \in Version
           /\ Outgoing(r).decision = Current(r).decision
           /\ worker[r].at = "start" =>
                 /\ Current(r).state \in OpenStates
                 /\ spec[r].mode = "approval" => Current(r).decision = "approve"
                 /\ Outgoing(r).state = "Running"
                 /\ Outgoing(r).attempt = Current(r).attempt + 1
           /\ worker[r].at = "retry" =>
                 /\ Current(r).state = "Running"
                 /\ Current(r).attempt <= spec[r].retries
                 /\ Outgoing(r).state = "Pending"
           /\ worker[r].at = "await" =>
                 /\ Current(r).state \in OpenStates
                 /\ Outgoing(r).state = "AwaitingApproval"
           /\ worker[r].at = "finish" =>
                 /\ Current(r).state \in OpenStates \cup {"Running"}
                 /\ Outgoing(r).state \in Terminal
                 /\ Current(r).state # "Running" => Outgoing(r).state = "Failed"
           /\ worker[r].at # "start" => Outgoing(r).attempt = Current(r).attempt
  <1>1. Typed /\ Held(r)
    BY DEF IInv
  <1>2. worker[r].rv \in 1 .. Len(log[r]) /\ Local(r) \in Version
    BY <1>1, LocalType DEF Writing
  <1>3. Local(r) = Current(r)
    BY DEF Local, Current, Fresh
  <1>4. log[r] \in Seq(Version) /\ worker[r] \in Worker
    BY <1>1 DEF Typed, TypeOK
  <1>5. Exists(r)
    BY <1>2, <1>4 DEF Exists
  <1>6. Outgoing(r) \in Version
    BY <1>1, OutgoingType
  <1>7. CASE worker[r].at = "start"
    <2>1. Outgoing(r) = RunningVersion(r)
      BY <1>7 DEF Outgoing
    <2> QED BY <1>1, <1>2, <1>3, <1>5, <1>6, <1>7, <2>1
            DEF Held, RunningVersion, Version
  <1>8. CASE worker[r].at = "retry"
    <2>1. Outgoing(r) = RetryVersion(r)
      BY <1>8 DEF Outgoing
    <2> QED BY <1>1, <1>2, <1>3, <1>5, <1>6, <1>8, <2>1
            DEF Held, RetryVersion, Version
  <1>9. CASE worker[r].at = "await"
    <2>1. Outgoing(r) = AwaitingVersion(r)
      BY <1>9 DEF Outgoing
    <2> QED BY <1>1, <1>2, <1>3, <1>5, <1>6, <1>9, <2>1
            DEF Held, AwaitingVersion, Version
  <1>10. CASE worker[r].at = "finish"
    <2>1. Outgoing(r) = FinalVersion(r)
      BY <1>10 DEF Outgoing
    <2>2. worker[r].verdict.state \in Terminal
      BY <1>4 DEF Worker, Verdict, Terminal
    <2> QED BY <1>1, <1>2, <1>3, <1>5, <1>6, <1>10, <2>1, <2>2
            DEF Held, FinalVersion, Version
  <1> QED BY <1>7, <1>8, <1>9, <1>10 DEF Writing

\* The other ways a record's log grows.
LEMMA PatchFacts ==
    ASSUME IInv, NEW r \in Records, Patched(r)
    PROVE  \E v \in Version :
              /\ log'[r] = Append(log[r], v) /\ v.attempt = Current(r).attempt
              /\ v.state = Current(r).state /\ v.reason = Current(r).reason
              /\ v.esc = Current(r).esc
  <1>1. Current(r) \in Version
    BY CurrentType DEF Patched, IInv
  <1>2. PICK d \in Decisions :
          log'[r] = Append(log[r], [Current(r) EXCEPT !.decision = d])
    BY DEF Patched
  <1>3. [Current(r) EXCEPT !.decision = d] \in Version
    BY <1>1 DEF Version
  <1> QED BY <1>1, <1>2, <1>3 DEF Version

LEMMA PruneFacts ==
    ASSUME IInv, NEW r \in Records, Pruned(r)
    PROVE  /\ Exists(r) /\ Current(r).state \in Ended
           /\ \E v \in Version :
                 /\ log'[r] = Append(log[r], v) /\ v.state = "Deleted"
                 /\ v.attempt = Current(r).attempt
                 /\ v.reason = Current(r).reason /\ v.esc = Current(r).esc
                 /\ v.decision = Current(r).decision
  <1>1. Exists(r) /\ Current(r).state \in Ended
    BY DEF Pruned, IInv, Typed, Positions, DoomedEnded
  <1>2. Current(r) \in Version
    BY <1>1, CurrentType DEF IInv
  <1>3. [Current(r) EXCEPT !.state = "Deleted"] \in Version
    BY <1>2 DEF Version, States
  <1> QED BY <1>1, <1>2, <1>3 DEF Pruned, Version

LEMMA NewRecordType == NewRecord \in Version
  BY DEF NewRecord, Version, States, Reasons, Decisions, Phases

\* A pass under way keeps what it relies on.
LEMMA HeldNext ==
    ASSUME IInv, [Next]_vars, NEW r \in Records
    PROVE  Held(r)'
  <1>1. Typed /\ Held(r) /\ spec' = spec
    BY SpecConstant DEF IInv
  <1>2. Move(r)
    BY <1>1, Moves
  <1>3. worker[r].at # "idle" =>
          worker[r].rv \in 1 .. Len(log[r]) /\ Local(r) \in Version
    BY <1>1, LocalType
  <1>4. log[r] \in Seq(Version) /\ worker[r] \in Worker
    BY <1>1 DEF Typed, TypeOK
  <1>5. CASE Stays(r)
    BY <1>1, <1>5 DEF Stays, Frozen, Held, Local, Current
  <1>6. CASE worker'[r].at \in {"idle", "record", "delete"}
    BY <1>6 DEF Held
  <1>7. CASE Reads(r)
    <2>1. Local(r)' = Cached(r)
      BY <1>7 DEF Reads, Frozen, Local, Cached
    <2> QED BY <1>1, <1>7, <2>1 DEF Reads, Held
  <1>8. CASE Writes(r)
    <2>1. CASE worker[r].at = "start" /\ worker'[r].at = "execute"
      <3>1. worker'[r].rv = worker[r].rv + 1
        <4>1. worker'[r] = [worker[r] EXCEPT !.at = "execute", !.rv = worker[r].rv + 1]
          BY <1>8, <2>1, IdleFields DEF Writes
        <4> QED BY <1>4, <4>1 DEF Worker
      <3>2. /\ Outgoing(r) \in Version /\ Outgoing(r).state = "Running"
            /\ worker[r].rv = Len(log[r]) /\ log'[r] = Append(log[r], Outgoing(r))
        BY <1>8, <2>1, WriteFacts DEF Writes, Fresh
      <3>3. Local(r)' = Outgoing(r) /\ Current(r)' = Outgoing(r)
        BY <1>1, <3>1, <3>2, Grown DEF Local
      <3> QED BY <2>1, <3>2, <3>3 DEF Held
    <2>2. worker'[r].at \in {"idle", "record", "execute"}
      <3>1. [worker[r] EXCEPT !.at = "execute", !.rv = worker[r].rv + 1].at = "execute"
        BY <1>4 DEF Worker
      <3> QED BY <1>8, <3>1, IdleFields DEF Writes
    <2>3. worker'[r].at = "execute" => worker[r].at = "start"
      BY <1>8, IdleFields DEF Writes
    <2> QED BY <1>6, <2>1, <2>2, <2>3
  <1>9. CASE Executes(r)
    <2>1. Local(r)' = Local(r) /\ Current(r)' = Current(r)
      BY <1>9 DEF Executes, Local, Current
    <2> QED BY <1>1, <1>9, <2>1 DEF Executes, Held, RetriesLeft
  <1>10. CASE Pages(r)
    <2>1. Local(r)' = Local(r)
      BY <1>10 DEF Pages, Frozen, Local
    <2> QED BY <1>1, <1>10, <2>1 DEF Pages, Held
  <1>11. CASE Patched(r)
    <2>1. PICK v \in Version :
            /\ log'[r] = Append(log[r], v) /\ v.attempt = Current(r).attempt
            /\ v.state = Current(r).state
      BY <1>11, PatchFacts
    <2>2. Current(r)' = v /\ worker'[r] = worker[r]
      BY <1>1, <1>11, <2>1, Grown DEF Patched
    <2>3. worker[r].at # "idle" => Local(r)' = Local(r)
      BY <1>1, <1>3, <2>1, <2>2, Grown DEF Local
    <2> QED BY <1>1, <2>1, <2>2, <2>3 DEF Held
  <1>12. CASE Pruned(r)
    <2>1. PICK v \in Version : log'[r] = Append(log[r], v)
      BY <1>12, PruneFacts
    <2>2. worker'[r] = worker[r] /\ worker[r].at \notin {"execute", "retry"}
      BY <1>1, <1>12, PruneFacts DEF Pruned, Held, Ended, Terminal
    <2>3. worker[r].at # "idle" => Local(r)' = Local(r)
      BY <1>1, <1>3, <2>1, <2>2, Grown DEF Local
    <2> QED BY <1>1, <2>2, <2>3 DEF Held
  <1>13. CASE Appears(r)
    <2>1. worker[r].at = "idle"
      BY <1>3, <1>4, <1>13 DEF Appears, Exists
    <2> QED BY <1>6, <1>13, <2>1 DEF Appears
  <1>14. Released(r) \/ Cleans(r) => worker'[r].at \in {"idle", "record", "delete"}
    BY IdleFields DEF Released, Cleans
  <1> QED BY <1>2, <1>5, <1>6, <1>7, <1>8, <1>9, <1>10, <1>11, <1>12, <1>13,
             <1>14 DEF Move

\* The log of a record either stays or grows by a version that does not revive
\* an ended record.
LEMMA LogNext ==
    ASSUME IInv, [Next]_vars, NEW r \in Records
    PROVE  \/ log'[r] = log[r]
           \/ \E v \in Version :
                 /\ log'[r] = Append(log[r], v)
                 /\ Exists(r) /\ Current(r).state \in Ended => v.state \in Ended
  <1>1. Typed /\ Move(r)
    BY Moves DEF IInv
  <1>2. CASE Writes(r)
    BY <1>2, WriteFacts DEF Writes, Writing, OpenStates, Ended, Terminal
  <1>3. CASE Patched(r)
    BY <1>3, PatchFacts
  <1>4. CASE Pruned(r)
    BY <1>4, PruneFacts DEF Ended
  <1>5. CASE Appears(r)
    BY <1>5, NewRecordType DEF Appears
  <1>6. CASE \/ Stays(r) \/ Released(r) \/ Reads(r) \/ Executes(r) \/ Pages(r)
             \/ Cleans(r)
    BY <1>6 DEF Stays, Released, Reads, Executes, Pages, Cleans, Frozen
  <1> QED BY <1>1, <1>2, <1>3, <1>4, <1>5, <1>6 DEF Move

\* Ended records stay ended.
LEMMA EndStaysNext ==
    ASSUME IInv, [Next]_vars, NEW r \in Records
    PROVE  /\ EndStays(r)'
           /\ Exists(r) /\ Current(r).state \in Ended =>
                 Exists(r)' /\ Current(r)'.state \in Ended
  <1>1. Typed /\ EndStays(r) /\ log[r] \in Seq(Version)
    BY DEF IInv, Typed, TypeOK
  <1>2. CASE log'[r] = log[r]
    BY <1>1, <1>2 DEF EndStays, Current, Exists
  <1>3. ASSUME NEW v \in Version, log'[r] = Append(log[r], v),
               Exists(r) /\ Current(r).state \in Ended => v.state \in Ended
        PROVE  /\ EndStays(r)'
               /\ Exists(r) /\ Current(r).state \in Ended =>
                     Exists(r)' /\ Current(r)'.state \in Ended
    <2>1. /\ Len(log[r]) \in Nat /\ Len(log'[r]) = Len(log[r]) + 1
          /\ Current(r)' = v /\ Exists(r)'
          /\ log'[r][Len(log[r]) + 1] = v
          /\ \A n \in 1 .. Len(log[r]) : log'[r][n] = log[r][n]
      BY <1>1, <1>3, Grown
    <2>2. ASSUME NEW n \in 1 .. Len(log'[r]), log'[r][n].state \in Ended
          PROVE  v.state \in Ended
      <3>1. CASE n = Len(log[r]) + 1
        BY <2>1, <2>2, <3>1
      <3>2. CASE n \in 1 .. Len(log[r])
        BY <1>1, <1>3, <2>1, <2>2, <3>2 DEF EndStays, Exists
      <3> QED BY <2>1, <3>1, <3>2
    <2> QED BY <1>3, <2>1, <2>2 DEF EndStays
  <1> QED BY <1>2, <1>3, LogNext

\* The records a worker is about to delete: those it was about to delete
\* before, or terminal ones from the cache.
LEMMA DoomedNext ==
    ASSUME IInv, [Next]_vars
    PROVE  DoomedEnded'
  <1>1. Typed /\ Typed'
    BY TypedNext DEF IInv
  <1>2. /\ worker \in [Records -> Worker]
        /\ \A r \in Records : worker[r].doomed \subseteq Records
    BY <1>1 DEF Typed, TypeOK, Worker
  <1>3. ASSUME NEW r \in Records
        PROVE  /\ worker'[r].doomed \subseteq Records
               /\ \A q \in worker'[r].doomed :
                     Exists(q) /\ Current(q).state \in Ended
    <2>1. \A q \in worker[r].doomed : Exists(q) /\ Current(q).state \in Ended
      BY DEF IInv, Typed, Positions, DoomedEnded
    <2>2. ASSUME NEW q \in Excess(r)
          PROVE  q \in Records /\ Exists(q) /\ Current(q).state \in Ended
      <3>1. /\ q \in Records /\ seen[q] > 0
            /\ log[q][seen[q]].state \in Terminal
        BY <2>2 DEF Excess, Prunable, InCache, Cached
      <3>2. /\ seen[q] \in Nat /\ seen[q] <= Len(log[q])
            /\ log[q] \in Seq(Version)
        BY <1>1, <3>1 DEF Typed, TypeOK
      <3>3. seen[q] \in 1 .. Len(log[q]) /\ log[q] # <<>>
        BY <3>1, <3>2
      <3> QED BY <3>1, <3>3 DEF IInv, EndStays, Exists, Ended
    <2>3. \/ worker'[r].doomed \subseteq worker[r].doomed
          \/ worker'[r].doomed = Excess(r)
      <3>1. ASSUME NEW a \in Records,
                   Reconcile(a) \/ Attempt(a) \/ Conclude(a) \/ Fault(a)
            PROVE  \/ worker'[r].doomed \subseteq worker[r].doomed
                   \/ worker'[r].doomed = Excess(r)
        <4>1. a # r => worker'[r] = worker[r]
          BY <1>1, <3>1, MoveOthers DEF Stays, Pruned
        <4>2. worker[a] \in Worker
          BY <1>2
        <4>3. CASE Reconcile(a)
          <5>1. \/ worker' = worker
                \/ worker'[a].doomed = {}
            <6>1. ASSUME NEW at, NEW verdict, Proceed(a, at, verdict)
                  PROVE  worker'[a].doomed = {}
              BY <1>2, <6>1 DEF Proceed, Idle
            <6>2. ReconcileWaiting(a) => worker' = worker \/ worker'[a].doomed = {}
              BY <1>2 DEF ReconcileWaiting, Idle
            <6> QED BY <4>3, <6>1, <6>2
                    DEF Reconcile, ReconcileNothing, ReconcileInterrupted,
                        ReconcileGaveUp, ReconcileRun, ReconcileDenied,
                        ReconcileTimedOut
          <5> QED BY <4>1, <5>1
        <4>4. CASE Attempt(a)
          <5>1. worker'[a] = Idle \/ worker'[a].doomed = worker[a].doomed
            BY <1>2, <4>2, <4>4 DEF Attempt, StartAttempt, StepSucceeds,
                                StepFails, RecordFailedAttempt, Worker
          <5> QED BY <4>1, <5>1, IdleFields
        <4>5. CASE RecordAndPrune(a)
          <5>1. worker'[a] = Idle \/ worker'[a].doomed = Excess(a)
            BY <1>2, <4>2, <4>5 DEF RecordAndPrune, Deleting, Worker
          <5> QED BY <4>1, <5>1, IdleFields
        <4>6. CASE PruneDelete(a)
          <5>1. worker'[a] = Idle \/ worker'[a].doomed \subseteq worker[a].doomed
            BY <1>2, <4>2, <4>6 DEF PruneDelete, Deleting, Worker
          <5> QED BY <4>1, <5>1, IdleFields
        <4>7. CASE \/ MarkAwaitingApproval(a) \/ Escalate(a) \/ Finish(a)
                   \/ UpdateConflict(a) \/ Fault(a)
          <5>1. worker'[a] = Idle \/ worker'[a].doomed = worker[a].doomed
            BY <1>2, <4>2, <4>7
               DEF MarkAwaitingApproval, Escalate, Finish, UpdateConflict,
                   Fault, UpdateFails, UpdateResponseLost, PruneFails,
                   ReturnError, Worker
          <5> QED BY <4>1, <5>1, IdleFields
        <4> QED BY <3>1, <4>3, <4>4, <4>5, <4>6, <4>7 DEF Conclude
      <3>2. ASSUME NEW a \in Records, Observe(a) \/ TimerFires(a) \/ World(a)
            PROVE  worker' = worker
        BY <3>2 DEF Observe, TimerFires, World, Create, Decide, Touch,
                    WorldFrame, workVars
      <3>3. CASE LoadList \/ LoadApply \/ Restart \/ Tick \/ UNCHANGED vars
        BY <3>3 DEF LoadList, LoadApply, Restart, Tick, vars, workVars, WorldFrame
      <3>4. CASE Crash
        BY <3>4, IdleFields DEF Crash
      <3> QED BY <3>1, <3>2, <3>3, <3>4 DEF Next
    <2> QED BY <1>2, <2>1, <2>2, <2>3
  <1>4. ASSUME NEW r \in Records, NEW q \in worker'[r].doomed
        PROVE  Current(q)'.state \in Ended
    BY <1>3, <1>4, EndStaysNext
  <1> QED BY <1>4 DEF DoomedEnded

\* Attempts stay counted, approved and within the budget.
LEMMA CountedNext ==
    ASSUME IInv, [Next]_vars, NEW r \in Records
    PROVE  Counted(r)'
  <1>1. /\ Typed /\ Counted(r) /\ spec' = spec /\ log[r] \in Seq(Version)
        /\ Move(r) /\ spec[r].retries \in Nat
    BY SpecConstant, Moves DEF IInv, Typed, TypeOK, Profile
  <1>2. CASE log'[r] = log[r]
    BY <1>1, <1>2 DEF Counted
  <1>3. ASSUME NEW v \in Version, log'[r] = Append(log[r], v),
               v.attempt <= spec[r].retries + 1,
               v.state \in OpenStates => v.attempt <= spec[r].retries,
               Exists(r) => /\ v.attempt \in {Current(r).attempt,
                                              Current(r).attempt + 1}
                            /\ spec[r].mode = "approval"
                                  /\ v.attempt # Current(r).attempt =>
                                  Current(r).decision = "approve"
        PROVE  Counted(r)'
    <2>1. /\ Len(log[r]) \in Nat /\ Len(log'[r]) = Len(log[r]) + 1
          /\ log'[r][Len(log[r]) + 1] = v
          /\ \A n \in 1 .. Len(log[r]) : log'[r][n] = log[r][n]
      BY <1>1, <1>3, Grown
    <2>2. ASSUME NEW n \in 1 .. Len(log'[r])
          PROVE  /\ log'[r][n].attempt <= spec[r].retries + 1
                 /\ log'[r][n].state \in OpenStates =>
                       log'[r][n].attempt <= spec[r].retries
                 /\ n > 1 => log'[r][n].attempt \in {log'[r][n - 1].attempt,
                                                     log'[r][n - 1].attempt + 1}
                 /\ n > 1 /\ spec[r].mode = "approval"
                       /\ log'[r][n].attempt # log'[r][n - 1].attempt =>
                       log'[r][n - 1].decision = "approve"
      <3>1. CASE n = Len(log[r]) + 1
        <4>1. log'[r][n] = v
          BY <2>1, <3>1
        <4>2. n > 1 => Exists(r) /\ log'[r][n - 1] = Current(r)
          BY <1>1, <2>1, <3>1 DEF Exists, Current
        <4> QED BY <1>3, <4>1, <4>2
      <3>2. CASE n \in 1 .. Len(log[r])
        <4>1. log'[r][n] = log[r][n] /\ (n > 1 => log'[r][n - 1] = log[r][n - 1])
          BY <2>1, <3>2
        <4> QED BY <1>1, <3>2, <4>1 DEF Counted
      <3> QED BY <2>1, <3>1, <3>2
    <2> QED BY <1>1, <2>2 DEF Counted
  <1>4. ASSUME Exists(r)
        PROVE  /\ Current(r).attempt \in Nat
               /\ Current(r).attempt <= spec[r].retries + 1
               /\ Current(r).state \in OpenStates =>
                     Current(r).attempt <= spec[r].retries
    <2>1. Len(log[r]) \in 1 .. Len(log[r]) /\ Current(r) \in Version
      BY <1>1, <1>4, CurrentType
    <2>2. Current(r).attempt \in Nat
      BY <2>1 DEF Version
    <2>3. /\ Current(r).attempt <= spec[r].retries + 1
          /\ Current(r).state \in OpenStates => Current(r).attempt <= spec[r].retries
      BY <1>1, <2>1 DEF Counted, Current
    <2> QED BY <2>2, <2>3
  <1>5. CASE Writes(r)
    <2> DEFINE v == Outgoing(r)
    <2>1. /\ v \in Version /\ log'[r] = Append(log[r], v)
          /\ v.attempt <= spec[r].retries + 1
          /\ v.state \in OpenStates => v.attempt <= spec[r].retries
          /\ v.attempt \in {Current(r).attempt, Current(r).attempt + 1}
          /\ spec[r].mode = "approval" /\ v.attempt # Current(r).attempt =>
                Current(r).decision = "approve"
      BY <1>1, <1>4, <1>5, WriteFacts
         DEF Writes, Writing, OpenStates, Terminal
    <2> QED BY <1>3, <2>1
  <1>6. CASE Patched(r)
    <2>1. PICK v \in Version :
            /\ log'[r] = Append(log[r], v) /\ v.attempt = Current(r).attempt
            /\ v.state = Current(r).state
      BY <1>6, PatchFacts
    <2>2. Exists(r)
      BY <1>6 DEF Patched
    <2> QED BY <1>3, <1>4, <2>1, <2>2
  <1>7. CASE Pruned(r)
    <2>1. Exists(r)
      BY <1>7, PruneFacts
    <2>2. PICK v \in Version :
            /\ log'[r] = Append(log[r], v) /\ v.state = "Deleted"
            /\ v.attempt = Current(r).attempt
      BY <1>7, PruneFacts
    <2> QED BY <1>3, <1>4, <2>1, <2>2 DEF OpenStates
  <1>8. CASE Appears(r)
    <2>1. NewRecord.attempt = 0 /\ ~Exists(r) /\ log'[r] = Append(log[r], NewRecord)
      BY <1>8 DEF Appears, NewRecord
    <2> QED BY <1>1, <1>3, <2>1, NewRecordType
  <1>9. \/ log'[r] = log[r] \/ Writes(r) \/ Patched(r) \/ Pruned(r) \/ Appears(r)
    BY <1>1 DEF Move, Stays, Released, Reads, Executes, Pages, Cleans, Frozen
  <1> QED BY <1>2, <1>5, <1>6, <1>7, <1>8, <1>9

\* Before orders effects by attempt, then by step.
LEMMA BeforeLater ==
    ASSUME NEW e \in EffectRecord, NEW f \in EffectRecord,
           NEW g \in EffectRecord, Before(e, f),
           g.attempt = f.attempt, g.step = f.step + 1
    PROVE  Before(e, g) /\ Before(f, g)
  BY DEF Before, EffectRecord

\* The executed steps stay in order.
LEMMA OrderedNext ==
    ASSUME IInv, [Next]_vars, NEW r \in Records
    PROVE  Ordered(r)'
  <1>1. /\ Typed /\ Held(r) /\ Ordered(r) /\ Move(r)
        /\ log[r] \in Seq(Version) /\ ran[r] \in Seq(EffectRecord)
        /\ worker[r] \in Worker
    BY Moves DEF IInv, Typed, TypeOK
  <1>2. worker[r].at # "idle" =>
          worker[r].rv \in 1 .. Len(log[r]) /\ Local(r) \in Version /\ Exists(r)
    BY <1>1, LocalType DEF Exists
  <1>3. Len(ran[r]) \in Nat /\ \A i \in 1 .. Len(ran[r]) : ran[r][i] \in EffectRecord
    BY <1>1
  <1>4. ran[r] = <<>> => 1 .. Len(ran[r]) = {}
    BY <1>1
  <1>5. Exists(r) => Current(r).attempt \in Nat
    BY <1>1, CurrentType DEF Version
  \* The steps stay as they are when the log does not shrink the attempt count
  \* and the next step of a running attempt is unchanged.
  <1>6. ASSUME ran'[r] = ran[r],
               Exists(r) => Exists(r)' /\ Current(r)'.attempt \in Nat
                              /\ Current(r).attempt <= Current(r)'.attempt,
               worker'[r].at = "execute" =>
                  \A i \in 1 .. Len(ran[r]) : Before(ran[r][i], Effect(r)')
        PROVE  Ordered(r)'
    <2>1. \A i \in 1 .. Len(ran[r]) : ran[r][i].attempt <= Current(r)'.attempt
      <3>1. ASSUME NEW i \in 1 .. Len(ran[r])
            PROVE  ran[r][i].attempt <= Current(r)'.attempt
        <4>1. Exists(r)
          BY <1>1, <1>4, <3>1 DEF Ordered
        <4>2. /\ ran[r][i].attempt \in Nat
              /\ ran[r][i].attempt <= Current(r).attempt
          BY <1>1, <1>3, <3>1 DEF Ordered, EffectRecord
        <4> QED BY <1>5, <1>6, <4>1, <4>2
      <3> QED BY <3>1
    <2>2. ran[r] # <<>> => Exists(r)'
      BY <1>1, <1>6 DEF Ordered
    <2> QED BY <1>1, <1>6, <2>1, <2>2 DEF Ordered
  <1>7. CASE Stays(r)
    <2>1. /\ Current(r)' = Current(r) /\ Effect(r)' = Effect(r)
          /\ Exists(r)' = Exists(r)
      BY <1>7 DEF Stays, Frozen, Current, Effect, Local, Exists
    <2> QED BY <1>1, <1>5, <1>6, <1>7, <2>1 DEF Stays, Frozen, Ordered
  <1>8. CASE Released(r) \/ Reads(r) \/ Pages(r) \/ Cleans(r)
    <2>1. Frozen(r) /\ worker'[r].at # "execute"
      BY <1>8, IdleFields DEF Released, Reads, Pages, Cleans
    <2>2. Current(r)' = Current(r) /\ Exists(r)' = Exists(r)
      BY <2>1 DEF Frozen, Current, Exists
    <2> QED BY <1>5, <1>6, <2>1, <2>2 DEF Frozen
  <1>9. CASE Writes(r)
    <2>1. /\ Exists(r) /\ Local(r) = Current(r) /\ Outgoing(r) \in Version
          /\ ran'[r] = ran[r] /\ log'[r] = Append(log[r], Outgoing(r))
          /\ worker[r].rv = Len(log[r])
      BY <1>9, WriteFacts DEF Writes, Fresh
    <2>2. /\ Current(r)' = Outgoing(r) /\ Exists(r)'
          /\ log'[r][Len(log[r]) + 1] = Outgoing(r)
      BY <1>1, <2>1, Grown
    <2>3. /\ Outgoing(r).attempt \in Nat
          /\ Current(r).attempt <= Outgoing(r).attempt
      BY <1>5, <1>9, <2>1, WriteFacts DEF Writes, Version
    <2>4. ASSUME worker'[r].at = "execute"
          PROVE  \A i \in 1 .. Len(ran[r]) : Before(ran[r][i], Effect(r)')
      <3>1. /\ worker[r].at = "start"
            /\ worker'[r] = [worker[r] EXCEPT !.at = "execute",
                                              !.rv = worker[r].rv + 1]
        BY <1>9, <2>4, IdleFields DEF Writes
      <3>2. worker'[r].rv = Len(log[r]) + 1
        BY <1>1, <2>1, <3>1 DEF Worker
      <3>3. Effect(r)'.attempt = Current(r).attempt + 1
        BY <1>9, <2>2, <3>1, <3>2, WriteFacts DEF Writes, Effect, Local
      <3>4. ASSUME NEW i \in 1 .. Len(ran[r])
            PROVE  ran[r][i].attempt < Effect(r)'.attempt
        BY <1>1, <1>3, <1>5, <2>1, <3>3 DEF Ordered, EffectRecord
      <3> QED BY <3>4 DEF Before
    <2> QED BY <1>6, <2>1, <2>2, <2>3, <2>4
  <1>10. CASE Patched(r) \/ Pruned(r)
    <2>1. PICK v \in Version :
            log'[r] = Append(log[r], v) /\ v.attempt = Current(r).attempt
      BY <1>10, PatchFacts, PruneFacts
    <2>2. worker'[r] = worker[r] /\ ran'[r] = ran[r]
      BY <1>10 DEF Patched, Pruned
    <2>3. Current(r)' = v /\ Exists(r)'
      BY <1>1, <2>1, Grown
    <2>4. worker[r].at = "execute" => Effect(r)' = Effect(r)
      <3>1. worker[r].at = "execute" => Local(r)' = Local(r)
        BY <1>1, <1>2, <2>1, <2>2, Grown DEF Local
      <3> QED BY <2>2, <3>1 DEF Effect
    <2>5. Exists(r) => Current(r).attempt <= v.attempt /\ v.attempt \in Nat
      BY <1>5, <2>1
    <2> QED BY <1>1, <1>6, <2>2, <2>3, <2>4, <2>5 DEF Ordered
  <1>11. CASE Appears(r)
    <2>1. worker'[r].at # "execute" /\ ran'[r] = ran[r] /\ ~Exists(r)
      BY <1>2, <1>11 DEF Appears
    <2> QED BY <1>6, <2>1
  <1>12. CASE Executes(r)
    <2>1. /\ worker[r].at = "execute" /\ Exists(r) /\ Exists(r)'
          /\ Current(r)' = Current(r) /\ Local(r)' = Local(r)
          /\ Local(r).attempt = Current(r).attempt /\ Local(r) \in Version
      BY <1>1, <1>2, <1>12 DEF Executes, Current, Local, Exists, Held
    <2>2. /\ Effect(r) \in EffectRecord
          /\ Effect(r).attempt = Current(r).attempt
      BY <1>1, <2>1 DEF Effect, EffectRecord, Version, Worker
    <2>3. \A i \in 1 .. Len(ran[r]) : Before(ran[r][i], Effect(r))
      BY <1>1, <2>1 DEF Ordered
    <2>4. worker'[r].at = "execute" =>
            /\ Effect(r)' \in EffectRecord
            /\ Effect(r)'.attempt = Effect(r).attempt
            /\ Effect(r)'.step = Effect(r).step + 1
      BY <1>1, <1>12, <2>1 DEF Executes, Effect, EffectRecord, Version, Worker
    <2>5. worker'[r].at = "execute" =>
            /\ \A i \in 1 .. Len(ran[r]) : Before(ran[r][i], Effect(r)')
            /\ Before(Effect(r), Effect(r)')
      <3>1. ASSUME worker'[r].at = "execute", NEW i \in 1 .. Len(ran[r])
            PROVE  Before(ran[r][i], Effect(r)')
        BY <1>3, <2>2, <2>3, <2>4, <3>1, BeforeLater
      <3>2. worker'[r].at = "execute" => Before(Effect(r), Effect(r)')
        BY <2>2, <2>4 DEF Before, EffectRecord
      <3> QED BY <3>1, <3>2
    <2>6. CASE ran'[r] = ran[r]
      BY <1>5, <1>6, <2>1, <2>5, <2>6
    <2>7. CASE ran'[r] = Append(ran[r], Effect(r))
      <3>1. /\ Len(ran'[r]) = Len(ran[r]) + 1
            /\ ran'[r][Len(ran[r]) + 1] = Effect(r)
            /\ \A i \in 1 .. Len(ran[r]) : ran'[r][i] = ran[r][i]
        BY <1>1, <2>2, <2>7
      <3>2. \A i \in 1 .. Len(ran'[r]) : i \in 1 .. Len(ran[r]) \/ i = Len(ran[r]) + 1
        BY <1>3, <3>1
      <3>3. \A i \in 1 .. Len(ran'[r]) : ran'[r][i].attempt <= Current(r)'.attempt
        BY <1>1, <1>5, <2>1, <2>2, <3>1, <3>2 DEF Ordered
      <3>4. worker'[r].at = "execute" =>
              \A i \in 1 .. Len(ran'[r]) : Before(ran'[r][i], Effect(r)')
        BY <2>5, <3>1, <3>2
      <3>5. ASSUME NEW i \in 1 .. Len(ran'[r]), NEW j \in 1 .. Len(ran'[r]), i < j
            PROVE  Before(ran'[r][i], ran'[r][j])
        <4>1. i \in 1 .. Len(ran[r])
          BY <1>3, <3>1, <3>5
        <4> QED BY <1>1, <2>3, <3>1, <3>2, <3>5, <4>1 DEF Ordered
      <3> QED BY <2>1, <3>3, <3>4, <3>5 DEF Ordered
    <2> QED BY <1>12, <2>6, <2>7 DEF Executes
  <1> QED BY <1>1, <1>7, <1>8, <1>9, <1>10, <1>11, <1>12 DEF Move

LEMMA IInvNext == IInv /\ [Next]_vars => IInv'
  BY TypedNext, HeldNext, EndStaysNext, CountedNext, OrderedNext, DoomedNext
     DEF IInv

LEMMA Invariance == Spec => []IInv
  BY IInvInit, IInvNext, PTL DEF Spec

-----------------------------------------------------------------------------
(* Theorems *)

\* No step of an attempt is executed twice and steps keep the order of the
\* plan: runAttempt stores Running, under the version it read, before it
\* executes anything, and a Running record is never resumed.
THEOREM NoStepRepeats == Spec => []StepsNeverRepeat
  <1>1. IInv => StepsNeverRepeat
    BY DEF IInv, Ordered, StepsNeverRepeat
  <1> QED BY <1>1, Invariance, PTL

\* Every attempt of an approval-mode record replaces a version that carries the
\* approval.
THEOREM EveryAttemptApproved == Spec => []AttemptsAreApproved
  <1>1. IInv => AttemptsAreApproved
    <2> SUFFICES ASSUME IInv, NEW r \in Records, spec[r].mode = "approval",
                        NEW n \in 2 .. Len(log[r]),
                        log[r][n].attempt # log[r][n - 1].attempt
                 PROVE  log[r][n - 1].decision = "approve"
      BY DEF AttemptsAreApproved
    <2>1. Len(log[r]) \in Nat /\ n \in 1 .. Len(log[r]) /\ n > 1
      BY DEF IInv, Typed, TypeOK
    <2> QED BY <2>1 DEF IInv, Counted
  <1> QED BY <1>1, Invariance, PTL

\* The retry budget copied onto a record bounds its attempts, which are
\* counted one by one.
THEOREM RetryBudgetKept == Spec => []AttemptsWithinBudget
  <1>1. IInv => AttemptsWithinBudget
    BY DEF IInv, Counted, AttemptsWithinBudget
  <1> QED BY <1>1, Invariance, PTL

\* A step changes the cluster only while the stored record says that this
\* attempt is running.
THEOREM EffectsAreAnnounced == Spec => EffectsOnlyWhileRunning
  <1>1. ASSUME IInv, [Next]_vars, NEW r \in Records, ran'[r] # ran[r]
        PROVE  /\ Current(r).state = "Running"
               /\ ran'[r][Len(ran'[r])].attempt = Current(r).attempt
    <2>1. /\ Typed /\ Held(r) /\ ran[r] \in Seq(EffectRecord)
          /\ worker[r] \in Worker
      BY <1>1 DEF IInv, Typed, TypeOK
    <2>2. Executes(r)
      BY <1>1, <2>1, Moves
         DEF Move, Stays, Released, Reads, Writes, Pages, Cleans, Patched,
             Pruned, Appears, Frozen
    <2>3. ran'[r] = Append(ran[r], Effect(r)) /\ worker[r].at = "execute"
      BY <1>1, <2>2 DEF Executes
    <2>4. Local(r) \in Version
      BY <2>1, <2>3, LocalType
    <2>5. Effect(r) \in EffectRecord /\ Effect(r).attempt = Local(r).attempt
      BY <2>1, <2>4 DEF Effect, EffectRecord, Version, Worker
    <2>6. ran'[r][Len(ran'[r])] = Effect(r)
      BY <2>1, <2>3, <2>5
    <2> QED BY <2>1, <2>3, <2>5, <2>6 DEF Held
  <1>2. IInv /\ [Next]_vars =>
          [\A r \in Records : ran'[r] # ran[r] =>
              /\ Current(r).state = "Running"
              /\ ran'[r][Len(ran'[r])].attempt = Current(r).attempt]_vars
    BY <1>1
  <1> QED BY <1>2, Invariance, PTL DEF Spec, EffectsOnlyWhileRunning

\* What a step does to a record that has ended.
LEMMA EndedStep ==
    ASSUME IInv, [Next]_vars, NEW r \in Records, Exists(r),
           Current(r).state \in Ended
    PROVE  /\ Current(r)'.attempt = Current(r).attempt
           /\ Current(r)'.reason = Current(r).reason
           /\ Current(r)'.esc = Current(r).esc
           /\ Current(r)'.state \in {Current(r).state, "Deleted"}
  <1>1. Typed /\ Move(r)
    BY Moves DEF IInv
  <1>2. CASE Patched(r)
    BY <1>1, <1>2, PatchFacts, Grown
  <1>3. CASE Pruned(r)
    BY <1>1, <1>3, PruneFacts, Grown
  <1>4. CASE log'[r] = log[r]
    BY <1>4 DEF Current
  <1>5. ~Writes(r) /\ ~Appears(r)
    BY WriteFacts DEF Writes, Writing, Appears, OpenStates, Ended, Terminal
  <1> QED BY <1>1, <1>2, <1>3, <1>4, <1>5
          DEF Move, Stays, Released, Reads, Executes, Pages, Cleans, Frozen

\* Once a terminal state is stored no pass changes the outcome: the conflict
\* refuses the verdict of a pass that read a stale Running.
THEOREM OutcomeIsFinal == Spec => TerminalIsFinal
  <1>1. IInv /\ [Next]_vars =>
          [\A r \in Records :
              Exists(r) /\ Current(r).state \in Terminal =>
                 LET v == Current(r)  w == Current(r)'
                 IN  /\ w.attempt = v.attempt /\ w.reason = v.reason
                     /\ w.esc = v.esc
                     /\ w.state \in {v.state, "Deleted"}]_vars
    BY EndedStep DEF Ended
  <1> QED BY <1>1, Invariance, PTL DEF Spec, TerminalIsFinal

\* Pruning deletes only records that have ended, however stale the list.
THEOREM PruningIsSafe == Spec => PruneOnlyTerminal
  <1>1. ASSUME IInv, [Next]_vars, NEW r \in Records, Exists(r),
               Current(r)'.state = "Deleted"
        PROVE  Current(r).state \in Ended
    <2>1. Typed /\ Move(r)
      BY <1>1, Moves DEF IInv
    <2>2. CASE Writes(r)
      <3>1. Outgoing(r).state # "Deleted" /\ Outgoing(r) \in Version
        BY <1>1, <2>2, WriteFacts DEF Writes, Writing, Terminal
      <3> QED BY <1>1, <2>1, <2>2, <3>1, Grown DEF Writes
    <2>3. CASE Patched(r)
      BY <1>1, <2>1, <2>3, PatchFacts, Grown DEF Patched
    <2>4. CASE Pruned(r)
      BY <1>1, <2>4, PruneFacts
    <2>5. CASE log'[r] = log[r]
      BY <1>1, <2>5 DEF Current, Ended
    <2> QED BY <1>1, <2>1, <2>2, <2>3, <2>4, <2>5
            DEF Move, Stays, Released, Reads, Executes, Pages, Cleans, Frozen,
                Appears
  <1>2. IInv /\ [Next]_vars =>
          [\A r \in Records :
              Exists(r) /\ Current(r)'.state = "Deleted" =>
                 Current(r).state \in Terminal \cup {"Deleted"}]_vars
    BY <1>1 DEF Ended
  <1> QED BY <1>2, Invariance, PTL DEF Spec, PruneOnlyTerminal

-----------------------------------------------------------------------------
(* Refinement *)

\* A step changes the log and the effects of at most one record.
LEMMA OneRecord ==
    ASSUME Typed, [Next]_vars
    PROVE  \/ log' = log /\ ran' = ran
           \/ \E r \in Records : \A q \in Records :
                 q # r => log'[q] = log[q] /\ ran'[q] = ran[q]
  <1>1. log \in [Records -> Seq(Version)] /\ ran \in [Records -> Seq(EffectRecord)]
    BY DEF Typed, TypeOK
  <1>2. ASSUME NEW r \in Records, NEW v, Store(r, v), ran' = ran
        PROVE  \A q \in Records : q # r => log'[q] = log[q] /\ ran'[q] = ran[q]
    BY <1>1, <1>2 DEF Store
  <1>3. ASSUME NEW a \in Records, Reconcile(a) PROVE log' = log /\ ran' = ran
    <2>1. Dequeue(a)
      BY <1>3 DEF Reconcile, ReconcileNothing, ReconcileInterrupted,
                  ReconcileGaveUp, ReconcileRun, ReconcileDenied,
                  ReconcileTimedOut, ReconcileWaiting
    <2> QED BY <2>1 DEF Dequeue, apiVars, worldVars
  <1>4. ASSUME NEW a \in Records, Attempt(a)
        PROVE  \A q \in Records : q # a => log'[q] = log[q] /\ ran'[q] = ran[q]
    <2>1. /\ log' = log \/ Store(a, Outgoing(a))
          /\ ran' = ran \/ ran' = [ran EXCEPT ![a] = Append(ran[a], Effect(a))]
      BY <1>4 DEF Attempt, StartAttempt, StepSucceeds, StepFails,
                  RecordFailedAttempt, Write, PassFrame, apiVars, worldVars
    <2> QED BY <1>1, <2>1 DEF Store
  <1>5. ASSUME NEW a \in Records, Conclude(a) \/ Fault(a)
        PROVE  \/ log' = log /\ ran' = ran
               \/ \E r \in Records : \A q \in Records :
                     q # r => log'[q] = log[q] /\ ran'[q] = ran[q]
    <2>1. CASE PruneDelete(a)
      <3>1. /\ ran' = ran
            /\ \E d \in worker[a].doomed :
                  \/ log' = log
                  \/ Store(d, [Current(d) EXCEPT !.state = "Deleted"])
        BY <2>1 DEF PruneDelete, worldVars
      <3>2. worker[a].doomed \subseteq Records
        BY DEF Typed, TypeOK, Worker
      <3> QED BY <1>2, <3>1, <3>2
    <2>2. CASE Fault(a) \/ (Conclude(a) /\ ~PruneDelete(a))
      <3>1. ran' = ran /\ (log' = log \/ Store(a, Outgoing(a)))
        BY <2>2 DEF Conclude, Fault, MarkAwaitingApproval, Escalate, Finish,
                    RecordAndPrune, UpdateConflict, UpdateFails, PruneFails,
                    UpdateResponseLost, ReturnError, Write, PassFrame,
                    apiVars, worldVars
      <3> QED BY <1>2, <3>1
    <2> QED BY <1>5, <2>1, <2>2
  <1>6. ASSUME NEW a \in Records, World(a)
        PROVE  \A q \in Records : q # a => log'[q] = log[q] /\ ran'[q] = ran[q]
    <2>1. ran' = ran
      BY <1>6 DEF World, Create, Decide, Touch, WorldFrame, worldVars
    <2>2. \E v : Store(a, v)
      BY <1>6 DEF World, Create, Decide, Touch
    <2> QED BY <1>2, <2>1, <2>2
  <1>7. ASSUME NEW a \in Records, Observe(a) \/ TimerFires(a)
        PROVE  log' = log /\ ran' = ran
    BY <1>7 DEF Observe, TimerFires, apiVars, worldVars
  <1>8. CASE LoadList \/ LoadApply \/ Crash \/ Restart \/ Tick \/ UNCHANGED vars
    BY <1>8 DEF LoadList, LoadApply, Crash, Restart, Tick, vars, apiVars,
                worldVars, WorldFrame
  <1> QED BY <1>3, <1>4, <1>5, <1>6, <1>7, <1>8 DEF Next

\* The reconciler implements the record's state machine.
THEOREM LifecycleImplementsRecord == Spec => ImplementsRecord
  <1> DEFINE retriesBar == [r \in Records |-> spec[r].retries]
             phaseBar   == [r \in Records |-> Phase(r)]
             attemptBar == [r \in Records |-> Attempts(r)]
  <1>1. Init => Record!RecordInit
    <2> SUFFICES ASSUME Init PROVE Record!RecordInit
      OBVIOUS
    <2>1. \A r \in Records : Phase(r) = "Absent" /\ Attempts(r) = 0
      BY DEF Init, Phase, Attempts, Exists
    <2>2. \A r \in Records : spec[r].retries \in Nat
      BY LifecycleAssumption DEF Init, Profile
    <2>3. ran = [r \in Records |-> <<>>]
      BY DEF Init
    <2> QED BY <2>1, <2>2, <2>3 DEF Record!RecordInit
  <1>2. ASSUME IInv, [Next]_vars
        PROVE  [Record!RecordNext]_(Record!recordVars)
    <2>1. /\ Typed /\ Typed' /\ spec' = spec
          /\ log \in [Records -> Seq(Version)] /\ log' \in [Records -> Seq(Version)]
          /\ ran \in [Records -> Seq(EffectRecord)]
          /\ ran' \in [Records -> Seq(EffectRecord)]
      BY <1>2, TypedNext, SpecConstant DEF IInv, Typed, TypeOK
    <2>2. retriesBar' = retriesBar
      BY <2>1
    <2>3. CASE log' = log /\ ran' = ran
      <3>1. phaseBar' = phaseBar /\ attemptBar' = attemptBar
        BY <2>3 DEF Phase, Attempts, Exists, Current
      <3> QED BY <2>2, <2>3, <3>1 DEF Record!recordVars
    <2>4. ASSUME NEW r \in Records,
                 \A q \in Records : q # r => log'[q] = log[q] /\ ran'[q] = ran[q]
          PROVE  [Record!RecordNext]_(Record!recordVars)
      <3>1. /\ phaseBar' = [phaseBar EXCEPT ![r] = Phase(r)']
            /\ attemptBar' = [attemptBar EXCEPT ![r] = Attempts(r)']
            /\ ran' = [ran EXCEPT ![r] = ran'[r]]
        <4>1. \A q \in Records : q # r => /\ Phase(q)' = Phase(q)
                                          /\ Attempts(q)' = Attempts(q)
          BY <2>4 DEF Phase, Attempts, Exists, Current
        <4>2. ran' = [ran EXCEPT ![r] = ran'[r]]
          BY <2>1, <2>4
        <4> QED BY <4>1, <4>2
      <3>2. phaseBar[r] = Phase(r) /\ attemptBar[r] = Attempts(r)
        OBVIOUS
      <3>3. ASSUME Phase(r)' = Phase(r), Attempts(r)' = Attempts(r), ran'[r] = ran[r]
            PROVE  UNCHANGED Record!recordVars
        <4>1. phaseBar' = phaseBar /\ attemptBar' = attemptBar /\ ran' = ran
          BY <2>1, <3>1, <3>2, <3>3
        <4> QED BY <2>2, <4>1 DEF Record!recordVars
      <3>4. Move(r)
        BY <1>2, <2>1, Moves
      <3>5. CASE Writes(r)
        <4>1. /\ Exists(r) /\ Current(r) \in Version /\ Outgoing(r) \in Version
              /\ Exists(r)' /\ Current(r)' = Outgoing(r) /\ ran' = ran
              /\ worker[r].at \in Writing
          <5>1. /\ Exists(r) /\ Current(r) \in Version /\ Outgoing(r) \in Version
                /\ log'[r] = Append(log[r], Outgoing(r)) /\ ran'[r] = ran[r]
                /\ worker[r].at \in Writing
            BY <1>2, <3>5, WriteFacts DEF Writes
          <5>2. Exists(r)' /\ Current(r)' = Outgoing(r)
            BY <2>1, <5>1, Grown
          <5>3. ran' = ran
            BY <2>1, <3>1, <5>1
          <5> QED BY <5>1, <5>2, <5>3
        <4>2. /\ Phase(r) = Current(r).state /\ Attempts(r) = Current(r).attempt
              /\ Phase(r)' = Outgoing(r).state
              /\ Attempts(r)' = Outgoing(r).attempt
          BY <4>1 DEF Phase, Attempts
        <4>3. CASE worker[r].at = "start"
          <5>1. Current(r).attempt <= spec[r].retries
            <6>1. Len(log[r]) \in 1 .. Len(log[r])
              BY <2>1, <4>1, CurrentType
            <6> QED BY <1>2, <3>5, <4>3, <6>1, WriteFacts
                    DEF IInv, Counted, Current, Writes
          <5>2. Record!Begin(r)
            BY <1>2, <2>2, <3>1, <3>2, <3>5, <4>1, <4>2, <4>3, <5>1, WriteFacts
               DEF Record!Begin, Record!Move, Record!WaitingPhases, OpenStates,
                   Writes
          <5> QED BY <5>2 DEF Record!RecordNext, Record!RecordStep
        <4>4. attemptBar' = attemptBar \/ worker[r].at = "start"
          <5>1. worker[r].at # "start" => Attempts(r)' = attemptBar[r]
            BY <1>2, <3>2, <3>5, <4>2, WriteFacts DEF Writes
          <5> HIDE DEF attemptBar
          <5>2. attemptBar = [q \in Records |-> Attempts(q)]
            BY DEF attemptBar
          <5> QED BY <3>1, <5>1, <5>2
        <4>5. CASE worker[r].at = "retry"
          <5>1. Record!Retry(r)
            BY <1>2, <2>2, <3>1, <3>2, <3>5, <4>1, <4>2, <4>4, <4>5, WriteFacts
               DEF Record!Retry, Record!Move, Writes
          <5> QED BY <5>1 DEF Record!RecordNext, Record!RecordStep
        <4>6. CASE worker[r].at = "await"
          <5>1. Record!Wait(r)
            BY <1>2, <2>2, <3>1, <3>2, <3>5, <4>1, <4>2, <4>4, <4>6, WriteFacts
               DEF Record!Wait, Record!Move, Record!WaitingPhases, OpenStates,
                   Writes
          <5> QED BY <5>1 DEF Record!RecordNext, Record!RecordStep
        <4>7. CASE worker[r].at = "finish"
          <5>1. Record!End(r, Outgoing(r).state)
            BY <1>2, <2>2, <3>1, <3>2, <3>5, <4>1, <4>2, <4>4, <4>7, WriteFacts
               DEF Record!End, Record!Move, Record!WaitingPhases, OpenStates,
                   Writes
          <5>2. Outgoing(r).state \in Record!EndedPhases
            BY <1>2, <3>5, <4>7, WriteFacts DEF Record!EndedPhases, Terminal, Writes
          <5> QED BY <5>1, <5>2 DEF Record!RecordNext, Record!RecordStep
        <4> QED BY <4>1, <4>3, <4>5, <4>6, <4>7 DEF Writing
      <3>6. CASE Patched(r)
        <4>1. PICK v \in Version :
                /\ log'[r] = Append(log[r], v) /\ v.attempt = Current(r).attempt
                /\ v.state = Current(r).state
          BY <1>2, <3>6, PatchFacts
        <4>2. Exists(r) /\ Exists(r)' /\ Current(r)' = v
          BY <2>1, <3>6, <4>1, Grown DEF Patched
        <4> QED BY <3>3, <3>6, <4>1, <4>2 DEF Phase, Attempts, Patched
      <3>7. CASE Pruned(r)
        <4>1. Exists(r) /\ Current(r).state \in Ended
          BY <1>2, <3>7, PruneFacts
        <4>2. PICK v \in Version :
                /\ log'[r] = Append(log[r], v) /\ v.state = "Deleted"
                /\ v.attempt = Current(r).attempt
          BY <1>2, <3>7, PruneFacts
        <4>3. Exists(r)' /\ Current(r)' = v
          BY <2>1, <4>2, Grown
        <4>4. /\ Phase(r)' = "Deleted" /\ Attempts(r)' = Attempts(r)
              /\ Phase(r) \in Ended /\ ran'[r] = ran[r]
          BY <3>7, <4>1, <4>2, <4>3 DEF Phase, Attempts, Pruned
        <4>5. CASE Phase(r) = "Deleted"
          BY <3>3, <4>4, <4>5
        <4>6. CASE Phase(r) \in Terminal
          <5>1. Record!Vanish(r)
            BY <2>1, <2>2, <3>1, <3>2, <4>4, <4>6
               DEF Record!Vanish, Record!Move, Record!EndedPhases, Terminal
          <5> QED BY <5>1 DEF Record!RecordNext, Record!RecordStep
        <4> QED BY <4>4, <4>5, <4>6 DEF Ended
      <3>8. CASE Appears(r)
        <4>1. Exists(r)' /\ Current(r)' = NewRecord /\ ran'[r] = ran[r] /\ ~Exists(r)
          BY <2>1, <3>8, NewRecordType, Grown DEF Appears
        <4>2. /\ Phase(r)' = "New" /\ Phase(r) = "Absent"
              /\ Attempts(r)' = 0 /\ Attempts(r) = 0
          <5>1. NewRecord.state = "New" /\ NewRecord.attempt = 0
            BY DEF NewRecord
          <5> QED BY <4>1, <5>1 DEF Phase, Attempts
        <4>3. attemptBar' = attemptBar /\ ran' = ran
          <5>1. ran' = ran
            BY <2>1, <3>1, <4>1
          <5>2. Attempts(r)' = attemptBar[r]
            BY <3>2, <4>2
          <5> HIDE DEF attemptBar
          <5>3. attemptBar = [q \in Records |-> Attempts(q)]
            BY DEF attemptBar
          <5> QED BY <3>1, <5>1, <5>2, <5>3
        <4>4. Record!Appear(r)
          BY <2>2, <3>1, <3>2, <4>2, <4>3 DEF Record!Appear, Record!Move
        <4> QED BY <4>4 DEF Record!RecordNext, Record!RecordStep
      <3>9. CASE log'[r] = log[r] /\ ran'[r] = ran[r]
        <4>1. Phase(r)' = Phase(r) /\ Attempts(r)' = Attempts(r)
          BY <3>9 DEF Phase, Attempts, Exists, Current
        <4> QED BY <3>3, <3>9, <4>1
      <3>10. CASE Executes(r) /\ ran'[r] # ran[r]
        <4>1. /\ worker[r].at = "execute" /\ log'[r] = log[r]
              /\ ran'[r] = Append(ran[r], Effect(r))
          BY <3>10 DEF Executes
        <4>2. /\ Local(r) \in Version /\ Exists(r) /\ worker[r] \in Worker
              /\ ran[r] \in Seq(EffectRecord)
          <5>1. worker[r].rv \in 1 .. Len(log[r]) /\ Local(r) \in Version
            BY <2>1, <4>1, LocalType
          <5>2. log[r] # <<>>
            BY <2>1, <5>1
          <5>3. worker[r] \in Worker /\ ran[r] \in Seq(EffectRecord)
            BY <2>1 DEF Typed, TypeOK
          <5> QED BY <5>1, <5>2, <5>3 DEF Exists
        <4>3. /\ Effect(r) \in EffectRecord
              /\ Effect(r).attempt = Current(r).attempt
              /\ Current(r).state = "Running"
          BY <1>2, <4>1, <4>2 DEF IInv, Held, Effect, EffectRecord, Version, Worker
        <4>4. /\ Phase(r) = "Running" /\ Attempts(r) = Current(r).attempt
              /\ phaseBar' = phaseBar /\ attemptBar' = attemptBar
          <5>1. Phase(r)' = Phase(r) /\ Attempts(r)' = Attempts(r)
            BY <4>1 DEF Phase, Attempts, Exists, Current
          <5> QED BY <3>1, <3>2, <4>2, <4>3, <5>1 DEF Phase, Attempts
        <4>5. /\ Len(ran'[r]) = Len(ran[r]) + 1
              /\ ran'[r][Len(ran[r]) + 1] = Effect(r)
          BY <4>1, <4>2, <4>3
        <4>6. \A i \in 1 .. Len(ran[r]) : Record!Precedes(ran[r][i], Effect(r))
          BY <1>2, <4>1 DEF IInv, Ordered, Before, Record!Precedes
        <4>7. Effect(r) \in [attempt : {attemptBar[r]}, step : Nat]
          BY <3>2, <4>3, <4>4 DEF EffectRecord
        <4>8. Record!Act(r)
          BY <2>2, <3>1, <3>2, <4>1, <4>4, <4>5, <4>6, <4>7 DEF Record!Act
        <4> QED BY <4>8 DEF Record!RecordNext, Record!RecordStep
      <3> QED BY <3>4, <3>5, <3>6, <3>7, <3>8, <3>9, <3>10
              DEF Move, Stays, Released, Reads, Executes, Pages, Cleans, Frozen
    <2> QED BY <1>2, <2>1, <2>3, <2>4, OneRecord
  <1> QED BY <1>1, <1>2, Invariance, PTL
          DEF Spec, ImplementsRecord, Record!RecordSpec
=============================================================================

--------------------------- MODULE GuardedIntake ---------------------------
(***************************************************************************)
(* From an alert to a Remediation: the sink (internal/engine/sink.go), the *)
(* guards it asks (internal/guards/guards.go), the in-memory history they  *)
(* read (internal/guards/memory.go), the replay that rebuilds it after a   *)
(* restart (internal/engine/history.go) and the two policies that delete   *)
(* the records it is rebuilt from (prune in controller.go, sweeper.go).    *)
(*                                                                         *)
(* One strategy.  The gateway calls Consume from its HTTP handlers, so      *)
(* several run at once; Handlers are those calls, each of which takes one   *)
(* alert after the other.  A handler is interrupted between its guards'    *)
(* answer and the creation, and between the creation and RecordStart.       *)
(*                                                                         *)
(* Time is the clock's value, 0 meaning "not yet".  Alerts that are          *)
(* resolved, match nothing, belong to a manual strategy or are refused by   *)
(* blastRadius change no state here and are steps of nobody.  How a record   *)
(* executes is RemediationLifecycle's subject: here it starts at most once  *)
(* and completes.                                                           *)
(***************************************************************************)
EXTENDS Integers, Sequences, FiniteSets, SequencesExt

CONSTANTS
    AlertTargets,     \* what alerts are about
    NoTarget,         \* the empty target of an alert that resolves to none
    Handlers,         \* concurrent deliveries
    Cooldown,         \* spec.guards.cooldown; 0: not enforced
    MaxPerHour,       \* spec.guards.maxPerHour; 0: not enforced
    Hour,             \* rateWindow
    GiveUpCount,      \* spec.guards.giveUpAfter.count; 0: not enforced
    GiveUpWithin,     \* spec.guards.giveUpAfter.within
    Retention,        \* DefaultRetention of the in-memory history
    HistoryLimit,     \* records kept per strategy, by prune and by the sweeper
    MaxAge,           \* the sweeper's age limit; 0: none
    FloorMargin,      \* floorMargin
    MaxClock,         \* bounds: clock units,
    MaxRecords,       \*   records created,
    MaxFaults,        \*   failed create requests,
    MaxCrashes        \*   process deaths

Targets == AlertTargets \ {NoTarget}

ASSUME IntakeAssumption ==
    /\ IsFiniteSet(AlertTargets)
    /\ IsFiniteSet(Handlers) /\ Handlers # {}
    /\ Cooldown \in Nat /\ MaxPerHour \in Nat /\ Hour \in Nat \ {0}
    /\ GiveUpCount \in Nat /\ GiveUpWithin \in Nat
    /\ Retention \in Nat /\ Retention >= Hour /\ HistoryLimit \in Nat \ {0}
    /\ MaxAge \in Nat /\ FloorMargin \in Nat \ {0}
    /\ MaxClock \in Nat /\ MaxRecords \in Nat
    /\ MaxFaults \in Nat /\ MaxCrashes \in Nat

VARIABLES
    records,      \* every record ever created, oldest first
    cache,        \* the give-up records in the sink's cache
    handler,      \* handler[h]: what delivery h is about to do, and on what
    finishing,    \* records whose terminal write is done and not yet counted
    starts,       \* MemoryHistory.starts of the strategy, ascending
    completions,  \* MemoryHistory.completions per target, ascending
    loader,       \* "list", "apply" or "warm"; the gateway accepts when warm
    listed,       \* what HistoryLoader listed and has yet to replay, by record
    clock, faults, crashes

memoryVars == <<starts, completions, loader, listed>>
boundVars  == <<faults, crashes>>
vars       == <<records, cache, handler, finishing, memoryVars, clock,
                boundVars>>

Record == [target : AlertTargets, created : Nat, started : Nat,
           completed : Nat, gaveUp : BOOLEAN, deleted : BOOLEAN]

Idle == [at |-> "idle", target |-> NoTarget]

Ids       == DOMAIN records
Stored(i) == ~records[i].deleted
\* Records that stand for an execution: a give-up record is a decision.
Executions == {i \in Ids : ~records[i].gaveUp}

-----------------------------------------------------------------------------
(* MemoryHistory *)

\* Mutant: the out-of-order entry is left where it was appended.
InsertUnsorted(s, t) == Append(s, t)

\* How many entries of a sorted slice are older than t.
Older(s, t) ==
    CHOOSE n \in 0 .. Len(s) : /\ \A k \in 1 .. n : s[k] < t
                               /\ \A k \in n + 1 .. Len(s) : s[k] >= t

\* Append, and sort when the new entry is older than the last one: the sort
\* moves it in front of the entries that are not older.
Insert(s, t) ==
    LET n == IF s # <<>> /\ t < Last(s) THEN Older(s, t) ELSE Len(s)
    IN  [k \in 1 .. Len(s) + 1 |-> IF k <= n THEN s[k]
                                   ELSE IF k = n + 1 THEN t ELSE s[k - 1]]

\* Mutant: an entry at the very start of the window is missed.
SearchSinceAfter(s, since) ==
    LET find[w \in (0 .. Len(s)) \X (0 .. Len(s))] ==
            LET mid == (w[1] + w[2]) \div 2
            IN  IF w[1] >= w[2] THEN w[1]
                ELSE IF s[mid + 1] > since THEN find[<<w[1], mid>>]
                                           ELSE find[<<mid + 1, w[2]>>]
    IN  find[<<0, Len(s)>>]

\* sort.Search: the number of entries before the first that is not older than
\* since, by bisection of w[1] .. w[2].
SearchSince(s, since) ==
    LET find[w \in (0 .. Len(s)) \X (0 .. Len(s))] ==
            LET mid == (w[1] + w[2]) \div 2
            IN  IF w[1] >= w[2] THEN w[1]
                ELSE IF s[mid + 1] >= since THEN find[<<w[1], mid>>]
                                            ELSE find[<<mid + 1, w[2]>>]
    IN  find[<<0, Len(s)>>]

CountSince(s, since) == Len(s) - SearchSince(s, since)

\* pruneLocked
Pruned(s) == SubSeq(s, SearchSince(s, clock - Retention) + 1, Len(s))

CompletionsOf(t) == IF t = NoTarget THEN <<>> ELSE completions[t]

-----------------------------------------------------------------------------
(* The guards *)

\* evaluateCooldown
CoolingDown(t) ==
    LET done == CompletionsOf(t)
    IN  Cooldown > 0 /\ done # <<>> /\ clock - Last(done) < Cooldown

\* Mutant: one more than the limit is let through.
RateReachedLate ==
    MaxPerHour > 0 /\ CountSince(starts, clock - Hour) > MaxPerHour

\* evaluateRate
RateReached ==
    MaxPerHour > 0 /\ CountSince(starts, clock - Hour) >= MaxPerHour

\* evaluateGiveUp
KeepsComingBack(t) ==
    /\ GiveUpCount > 0 /\ GiveUpWithin > 0
    /\ CountSince(CompletionsOf(t), clock - GiveUpWithin) >= GiveUpCount

\* Evaluate: the first guard that refuses.
Evaluate(t) ==
    CASE CoolingDown(t) -> "cooldown"
      [] ~CoolingDown(t) /\ RateReached -> "maxPerHour"
      [] ~CoolingDown(t) /\ ~RateReached /\ KeepsComingBack(t) -> "giveUpAfter"
      [] OTHER -> "allowed"

-----------------------------------------------------------------------------
(* The sink *)

\* gaveUpRecently: a give-up record of the target in the cache, inside the
\* window.
GaveUpRecently(t) ==
    \E i \in cache : /\ records[i].target = t
                     /\ records[i].created >= clock - GiveUpWithin

\* Mutant: alerts are accepted before the history has been replayed.
ConsumeCold(h, t) ==
    /\ handler[h] = Idle
    /\ Evaluate(t) = "allowed"
    /\ handler' = [handler EXCEPT ![h] = [at |-> "create", target |-> t]]
    /\ UNCHANGED <<cache, records, finishing, memoryVars, clock, boundVars>>

\* consumeOne up to the guards' answer.  A refusal ends it, unless it is
\* giveUpAfter's and no give-up record is in the cache yet.
Consume(h, t) ==
    /\ loader = "warm"
    /\ handler[h] = Idle
    /\ \/ /\ Evaluate(t) = "allowed"
          /\ handler' = [handler EXCEPT ![h] = [at |-> "create", target |-> t]]
       \/ /\ Evaluate(t) = "giveUpAfter" /\ ~GaveUpRecently(t)
          /\ handler' = [handler EXCEPT ![h] = [at |-> "giveUp", target |-> t]]
    /\ UNCHANGED <<cache, records, finishing, memoryVars, clock, boundVars>>

NewRecord(t, gaveUp) ==
    [target |-> t, created |-> clock, started |-> 0, completed |-> 0,
     gaveUp |-> gaveUp, deleted |-> FALSE]

Creating(h) == handler[h].at \in {"create", "giveUp"}

Stores(h) ==
    /\ Len(records) < MaxRecords
    /\ records' = Append(records, NewRecord(handler[h].target,
                                            handler[h].at = "giveUp"))

\* Sink.create; the create of recordGiveUp, which counts no start.
Create(h) ==
    /\ Creating(h)
    /\ Stores(h)
    /\ handler' = [handler EXCEPT ![h] =
                     IF handler[h].at = "create" THEN [@ EXCEPT !.at = "start"]
                                                 ELSE Idle]
    /\ UNCHANGED <<cache, finishing, memoryVars, clock, boundVars>>

\* The create request reports an error, whether or not it reached the store;
\* the alert is logged and dropped.
CreateFails(h) ==
    /\ Creating(h)
    /\ faults < MaxFaults
    /\ faults' = faults + 1
    /\ Stores(h) \/ UNCHANGED records
    /\ handler' = [handler EXCEPT ![h] = Idle]
    /\ UNCHANGED <<cache, finishing, memoryVars, clock, crashes>>

RecordStart(h) ==
    /\ handler[h].at = "start"
    /\ starts' = Insert(starts, clock)
    /\ handler' = [handler EXCEPT ![h] = Idle]
    /\ UNCHANGED <<cache, records, finishing, completions, loader, listed,
                   clock, boundVars>>

-----------------------------------------------------------------------------
(* Executions, as the history sees them *)

\* runAttempt sets StartedAt on the first attempt.
StartExecution(i) ==
    /\ Stored(i) /\ i \in Executions
    /\ records[i].started = 0 /\ records[i].completed = 0
    /\ records' = [records EXCEPT ![i].started = clock]
    /\ UNCHANGED <<cache, handler, finishing, memoryVars, clock, boundVars>>

\* finish stores the terminal state; a record that never started may also end
\* (denied, timed out, given up).
Complete(i) ==
    /\ Stored(i) /\ records[i].completed = 0
    /\ records' = [records EXCEPT ![i].completed = clock]
    /\ finishing' = finishing \cup {i}
    /\ UNCHANGED <<cache, handler, memoryVars, clock, boundVars>>

Ended == {i \in Ids : Stored(i) /\ records[i].completed > 0}

\* prune: all but the newest HistoryLimit of the records that ended; the record
\* that just completed is one of those kept.
Excess(i) ==
    LET others == Ended \ {i}
        newer(j) == {k \in others : k > j}
    IN  {j \in others : Cardinality(newer(j)) >= HistoryLimit - 1}

Without(gone) ==
    [i \in Ids |-> IF i \in gone THEN [records[i] EXCEPT !.deleted = TRUE]
                                 ELSE records[i]]

\* Mutant: a give-up record counts as a completion.
CountsAlways(i) == records[i].target # NoTarget

Counts(i) == records[i].target # NoTarget /\ i \in Executions

\* The rest of finish: RecordCompletion, then prune, whose cache may lag and
\* whose deletes may fail, so that some of the excess may stay.
RecordCompletion(i) ==
    /\ i \in finishing
    /\ finishing' = finishing \ {i}
    /\ completions' =
          IF Counts(i)
          THEN [completions EXCEPT ![records[i].target] =
                                      Insert(@, records[i].completed)]
          ELSE completions
    /\ \E gone \in SUBSET Excess(i) : records' = Without(gone)
    /\ UNCHANGED <<cache, handler, starts, loader, listed, clock, boundVars>>

-----------------------------------------------------------------------------
(* Retention: the sweeper, and the history's own *)

Longest ==
    Max({Cooldown, GiveUpWithin} \cup (IF MaxPerHour > 0 THEN {Hour} ELSE {}))

\* Mutant: only the configured age protects a record.
GuardFloorNone == clock

GuardFloor == clock - (Longest + FloorMargin)

\* candidates.  Records that completed at the same moment may be ranked either
\* way.
Sweepable ==
    LET done(i) == records[i].completed
        rank(i) == Cardinality({j \in Ended \ {i} : done(j) >= done(i)})
    IN  {i \in Ended :
           /\ \/ MaxAge > 0 /\ done(i) < clock - MaxAge
              \/ rank(i) >= HistoryLimit
           /\ done(i) <= GuardFloor}

\* A lagging cache, a failed delete or the limit on deletes per sweep may leave
\* some for the next sweep.
Sweep ==
    /\ \E gone \in SUBSET Sweepable \ {{}} : records' = Without(gone)
    /\ UNCHANGED <<cache, handler, finishing, memoryVars, clock, boundVars>>

\* historyPruner
PruneHistory ==
    /\ starts' = Pruned(starts)
    /\ completions' = [t \in Targets |-> Pruned(completions[t])]
    /\ UNCHANGED <<cache, records, handler, finishing, loader, listed, clock,
                   boundVars>>

-----------------------------------------------------------------------------
(* The replay, restarts, the cache and time *)

LoadList ==
    /\ loader = "list"
    /\ listed' = [i \in {j \in Executions : Stored(j)} |-> records[i]]
    /\ loader' = "apply"
    /\ UNCHANGED <<cache, records, handler, finishing, starts, completions,
                   clock, boundVars>>

StartedAt(r) == IF r.started > 0 THEN r.started ELSE r.created

\* Mutant: only records that really started are replayed as starts.
ReplayStartStarted(s, r) ==
    IF r.started > 0 THEN Insert(s, r.started) ELSE s

ReplayStart(s, r) == Insert(s, StartedAt(r))

\* One record of the list, which comes in no particular order.  The replay
\* races the reconcilers, which run before the history is warm.
LoadRecord(i) ==
    /\ loader = "apply" /\ i \in DOMAIN listed
    /\ starts' = ReplayStart(starts, listed[i])
    /\ completions' =
          IF listed[i].completed > 0 /\ listed[i].target # NoTarget
          THEN [completions EXCEPT ![listed[i].target] =
                                      Insert(@, listed[i].completed)]
          ELSE completions
    /\ listed' = [j \in DOMAIN listed \ {i} |-> listed[j]]
    /\ UNCHANGED <<cache, records, handler, finishing, loader, clock, boundVars>>

\* The prune at the end of the replay uses the real clock.
LoadDone ==
    /\ loader = "apply" /\ DOMAIN listed = {}
    /\ starts' = Pruned(starts)
    /\ completions' = [t \in Targets |-> Pruned(completions[t])]
    /\ loader' = "warm"
    /\ UNCHANGED <<cache, records, handler, finishing, listed, clock, boundVars>>

\* The process dies and another takes over with an empty history.
Crash ==
    /\ crashes < MaxCrashes
    /\ crashes' = crashes + 1
    /\ handler' = [h \in Handlers |-> Idle]
    /\ finishing' = {}
    /\ starts' = <<>>
    /\ completions' = [t \in Targets |-> <<>>]
    /\ loader' = "list"
    /\ listed' = <<>>
    /\ UNCHANGED <<cache, records, clock, faults>>

\* The watch tells the cache that a give-up record was created or deleted.
Observe(i) ==
    /\ i \notin Executions
    /\ \/ Stored(i) /\ i \notin cache /\ cache' = cache \cup {i}
       \/ ~Stored(i) /\ i \in cache /\ cache' = cache \ {i}
    /\ UNCHANGED <<records, handler, finishing, memoryVars, clock, boundVars>>

Tick ==
    /\ clock < MaxClock
    /\ clock' = clock + 1
    /\ UNCHANGED <<cache, records, handler, finishing, memoryVars, boundVars>>

-----------------------------------------------------------------------------
Init ==
    /\ records = <<>>
    /\ cache = {}
    /\ handler = [h \in Handlers |-> Idle]
    /\ finishing = {}
    /\ starts = <<>>
    /\ completions = [t \in Targets |-> <<>>]
    /\ loader = "list"
    /\ listed = <<>>
    /\ clock = 1
    /\ faults = 0 /\ crashes = 0

Next ==
    \/ \E h \in Handlers :
          \/ \E t \in AlertTargets : Consume(h, t)
          \/ Create(h) \/ CreateFails(h) \/ RecordStart(h)
    \/ \E i \in Ids :
          \/ StartExecution(i) \/ Complete(i) \/ RecordCompletion(i)
          \/ Observe(i) \/ LoadRecord(i)
    \/ Sweep \/ PruneHistory \/ LoadList \/ LoadDone \/ Crash \/ Tick

Spec == Init /\ [][Next]_vars

-----------------------------------------------------------------------------
(* Properties *)

Ascending(s) == \A j, k \in DOMAIN s : j < k => s[j] <= s[k]

\* Every variable stays within its type; the slices of the history are sorted.
TypeOK ==
    /\ records \in Seq(Record)
    /\ cache \subseteq Ids
    /\ handler \in [Handlers -> [at : {"idle", "create", "giveUp", "start"},
                                 target : AlertTargets \cup {NoTarget}]]
    /\ finishing \subseteq Ids
    /\ starts \in Seq(Nat) /\ Ascending(starts)
    /\ completions \in [Targets -> Seq(Nat)]
    /\ \A t \in Targets : Ascending(completions[t])
    /\ loader \in {"list", "apply", "warm"}
    /\ DOMAIN listed \subseteq Executions
    /\ \A i \in DOMAIN listed : listed[i] \in Record
    /\ clock \in Nat /\ faults \in Nat /\ crashes \in Nat

\* The bisection over the history counts exactly the entries inside the
\* window, although the replay and late completions insert out of order.
SearchIsExact ==
    \A s \in {starts} \cup {completions[t] : t \in Targets} :
        \A since \in 0 .. MaxClock :
            CountSince(s, since) =
                Cardinality({k \in DOMAIN s : s[k] >= since})

Allows(h)   == handler[h].at = "idle" /\ handler'[h].at = "create"
Concludes(h) == handler[h].at = "idle" /\ handler'[h].at = "giveUp"

\* The executions of a target that completed at or after since, whatever was
\* deleted in the meantime.
CompletedSince(t, since) ==
    {i \in Executions : /\ records[i].target = t
                        /\ records[i].completed > 0
                        /\ records[i].completed >= since}

\* Those the guards must know of: all but the ones whose pass has yet to call
\* RecordCompletion.
SettledSince(t, since) == CompletedSince(t, since) \ finishing

\* The cooldown holds across restarts, replays, the sweeper's deletions and
\* the history's own expiry: no execution of a target is let through within
\* Cooldown of the completion of an earlier one.
CooldownHonoured ==
    [][\A h \in Handlers : Allows(h) /\ handler'[h].target # NoTarget =>
          SettledSince(handler'[h].target, clock - Cooldown + 1) = {}]_vars

\* giveUpAfter really stops: after GiveUpCount completed executions of a target
\* inside the window nothing is let through, also when a restart or a sweep
\* came in between.
GiveUpHonoured ==
    [][\A h \in Handlers :
          Allows(h) /\ handler'[h].target # NoTarget /\ GiveUpCount > 0 =>
             LET done == SettledSince(handler'[h].target, clock - GiveUpWithin)
             IN  Cardinality(done) < GiveUpCount]_vars

\* giveUpAfter is never drawn from its own decisions, nor from other targets or
\* from before the window.  A restart may count a completion twice, once by the
\* replay and once by the pass that was finishing it, but never more often: half
\* of GiveUpCount executions of the target have really completed.
GiveUpIsEarned ==
    [][\A h \in Handlers : Concludes(h) =>
          LET done == CompletedSince(handler'[h].target, clock - GiveUpWithin)
          IN  2 * Cardinality(done) >= GiveUpCount]_vars

\* The executions created in the hour that ends with the creation of i.
HourBefore(i) ==
    {j \in Executions : /\ records[j].created <= records[i].created
                        /\ records[j].created >= records[i].created - Hour}

\* maxPerHour bounds what is created in any hour, across restarts, up to what
\* escapes a check that is not atomic: one execution for every other delivery
\* in progress, and one for every create whose response was lost.
RateBounded ==
    MaxPerHour > 0 =>
        \A i \in Executions :
            Cardinality(HourBefore(i)) <=
                MaxPerHour + Cardinality(Handlers) - 1 + faults
=============================================================================

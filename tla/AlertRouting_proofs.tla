------------------------ MODULE AlertRouting_proofs ------------------------
(***************************************************************************)
(* Proofs about AlertRouting, for any replicas, deliveries, strategies,      *)
(* requests and budgets.                                                     *)
(***************************************************************************)
EXTENDS AlertRouting, FiniteSetTheorems, TLAPS

\* Every spec a strategy can ever have, and a rule as a delivery lists it.
Specs == Catalogue \cup UNION {{f[n] : n \in DOMAIN f} : f \in Stores}
Rule == [name : Names, spec : Specs]

(* The inductive invariant, in parts. *)

\* Who may accept: only a process that runs has replayed the history, and only
\* the holder of the lease while it is up.
Tenure ==
    /\ life \in [Replicas -> {"down", "up", "stopping"}]
    /\ warm \in [Replicas -> BOOLEAN]
    /\ \A p \in Replicas : warm[p] => life[p] # "down"
    /\ \A p \in Replicas : warm[p] /\ life[p] = "up" => lease = p

\* Whoever has been told of the stop still knows it.
Informed ==
    /\ paused \in [Replicas -> BOOLEAN] /\ DOMAIN told = Replicas
    /\ \A p \in Replicas : told[p].known \in BOOLEAN /\ (told[p].known => paused[p])

\* A finite store of strategies, each with a spec somebody wrote.
Store(f) ==
    /\ DOMAIN f \subseteq Names /\ IsFiniteSet(DOMAIN f)
    /\ \A n \in DOMAIN f :
         /\ DOMAIN f[n] = {"spec", "generation", "status"}
         /\ f[n].spec \in Specs

Stocked ==
    /\ Store(strategies)
    /\ DOMAIN cached = Replicas
    /\ \A p \in Replicas : Store(cached[p])

\* The rules a delivery listed: each strategy once.
Listed(rules) ==
    /\ rules \in Seq(Rule)
    /\ \A i, j \in DOMAIN rules : i # j => rules[i].name # rules[j].name

\* A delivery is served by a process; what it is about to label was selected from
\* its list and allowed by the guard.
Delivery(d) ==
    /\ d = Idle \/ d.on \in Replicas
    /\ d.at \in {"alert", "label", "create"} => Listed(d.rules)
    /\ d.at = "label" =>
         LET entry == d.request.alerts[d.next]
         IN  /\ d.rule \in Select(entry.labels, d.rules)
             /\ entry.status = "firing" /\ ~d.rule.spec.manual
             /\ d.reading \in Readings \cup {Unread}
             /\ BlastRadiusAllows(d.rule.spec, d.reading)

Served ==
    /\ DOMAIN handler = Handlers
    /\ \A h \in Handlers : Delivery(handler[h])

Recorded ==
    /\ records \in Seq({records[i] : i \in DOMAIN records})
    /\ \A i \in DOMAIN records :
         {"dryRun", "labelled", "gaveUp", "by", "from"} \subseteq DOMAIN records[i]

\* A delivery that has read DryRun: a dry run, and labelled once that is decided.
Harmless(d) == d.dryRun /\ (d.at = "create" => d.labelled)

\* What p does about a stop it was told of.  A delivery that has read DryRun is
\* harmless, or was overtaken and has not made its one record yet.
Obeyed(p) ==
    /\ \A i \in Astray(p) :
         /\ records[i].from \in told[p].pending
         /\ \A j \in Since(p) : records[j].from = records[i].from => i <= j
    /\ \A h \in Pending(p) :
         \/ Harmless(handler[h])
         \/ h \in told[p].pending /\ \A j \in Since(p) : records[j].from # h

Heeded == \A p \in Replicas : told[p].known => Obeyed(p)

Inv == Tenure /\ Informed /\ Stocked /\ Served /\ Recorded /\ Heeded
-----------------------------------------------------------------------------
(* Processes *)

\* Boots, kills, hand-overs and warm-ups keep the lease and the gates in step.
LEMMA TenureStep ==
    ASSUME Tenure, [Next]_vars
    PROVE  Tenure'
  <1> USE RoutingAssumption DEF Tenure
  <1>1. ASSUME NEW p \in Replicas, Process(p)
        PROVE  Tenure'
    <2>1. CASE Boot(p)
      BY <2>1 DEF Boot
    <2>2. CASE Lead(p)
      BY <2>2 DEF Lead
    <2>3. CASE Warm(p)
      BY <2>3 DEF Warm
    <2>4. CASE Signal(p)
      BY <2>4 DEF Signal
    <2>5. CASE Release(p)
      BY <2>5 DEF Release
    <2>6. CASE Exit(p)
      BY <2>6 DEF Exit, Gone
    <2>7. CASE Crash(p)
      BY <2>7 DEF Crash, Gone
    <2>8. CASE Poll(p) \/ PollFails(p) \/ ObserveStrategies(p) \/ ObserveRecords(p)
      BY <2>8 DEF Poll, PollFails, ObserveStrategies, ObserveRecords, processVars
    <2> QED BY <1>1, <2>1, <2>2, <2>3, <2>4, <2>5, <2>6, <2>7, <2>8 DEF Process
  <1>2. ASSUME NEW h \in Handlers, Deliver(h)
        PROVE  Tenure'
    BY <1>2 DEF Deliver, Reject, Consume, ListFails, Ignore, GuardsRefuse, Decide, Label, Create,
                CreateFails, GiveUp, Respond, processVars
  <1>3. ASSUME \/ \E h \in Handlers, p \in Replicas, q \in Requests : Receive(h, p, q)
               \/ \E n \in Names : Reconcile(n) \/ Edit(n)
               \/ \E to \in {"absent", "off", "on"} : SetSwitch(to)
               \/ \E i \in DOMAIN records : RemoveRecord(i)
               \/ UNCHANGED vars
        PROVE  Tenure'
    BY <1>3 DEF Receive, Reconcile, Edit, SetSwitch, RemoveRecord, vars, processVars
  <1> QED BY <1>1, <1>2, <1>3 DEF Next

\* Polls, failed polls and turns of the switch: a process told of the stop has
\* it in its own copy.
LEMMA InformedStep ==
    ASSUME Informed, [Next]_vars
    PROVE  Informed'
  <1> USE DEF Informed
  <1>1. ASSUME NEW p \in Replicas, Process(p)
        PROVE  Informed'
    <2>1. CASE Exit(p) \/ Crash(p)
      <3>1. /\ paused' = [paused EXCEPT ![p] = FALSE]
            /\ told' = [told EXCEPT ![p] = Untold]
        BY <2>1 DEF Exit, Crash, Gone
      <3>2. Untold.known = FALSE
        BY DEF Untold
      <3>3. \A q \in Replicas : q # p => paused'[q] = paused[q] /\ told'[q] = told[q]
        BY <3>1
      <3>4. told'[p] = Untold /\ DOMAIN told' = Replicas /\ paused' \in [Replicas -> BOOLEAN]
        BY <3>1
      <3> QED BY <3>2, <3>3, <3>4
    <2>2. CASE Poll(p)
      <3>1. /\ paused' = [paused EXCEPT ![p] = switch = "on"]
            /\ told' = [told EXCEPT ![p] = IF switch = "on" THEN Telling(p) ELSE Untold]
        BY <2>2 DEF Poll
      <3>2. Telling(p).known = TRUE /\ Untold.known = FALSE
        BY DEF Telling, Untold
      <3>3. CASE switch = "on"
        <4>1. /\ paused' = [paused EXCEPT ![p] = TRUE]
              /\ told' = [told EXCEPT ![p] = Telling(p)]
          BY <3>1, <3>3
        <4> QED BY <3>2, <4>1
      <3>4. CASE switch # "on"
        <4>1. /\ paused' = [paused EXCEPT ![p] = FALSE]
              /\ told' = [told EXCEPT ![p] = Untold]
          BY <3>1, <3>4
        <4> QED BY <3>2, <4>1
      <3> QED BY <3>3, <3>4
    <2>3. CASE \/ Boot(p) \/ Lead(p) \/ Warm(p) \/ Signal(p) \/ Release(p)
               \/ PollFails(p) \/ ObserveStrategies(p) \/ ObserveRecords(p)
      BY <2>3 DEF Boot, Lead, Warm, Signal, Release, PollFails, ObserveStrategies,
                  ObserveRecords, processVars
    <2> QED BY <1>1, <2>1, <2>2, <2>3 DEF Process
  <1>2. ASSUME NEW h \in Handlers, Deliver(h)
        PROVE  Informed'
    BY <1>2 DEF Deliver, Reject, Consume, ListFails, Ignore, GuardsRefuse, Decide, Label, Create,
                CreateFails, GiveUp, Respond, processVars
  <1>3. ASSUME NEW to \in {"absent", "off", "on"}, SetSwitch(to)
        PROVE  Informed'
    BY <1>3 DEF SetSwitch, Untold
  <1>4. ASSUME \/ \E h \in Handlers, p \in Replicas, q \in Requests : Receive(h, p, q)
               \/ \E n \in Names : Reconcile(n) \/ Edit(n)
               \/ \E i \in DOMAIN records : RemoveRecord(i)
               \/ UNCHANGED vars
        PROVE  Informed'
    BY <1>4 DEF Receive, Reconcile, Edit, RemoveRecord, vars, processVars
  <1> QED BY <1>1, <1>2, <1>3, <1>4 DEF Next
-----------------------------------------------------------------------------
(* Strategies *)

\* What a store becomes when one strategy is edited, described, made or removed.
LEMMA StockedStep ==
    ASSUME Stocked, [Next]_vars
    PROVE  Stocked'
  <1> USE DEF Stocked
  <1>1. ASSUME NEW p \in Replicas, Process(p)
        PROVE  Stocked'
    <2>1. CASE Boot(p) \/ ObserveStrategies(p)
      BY <2>1 DEF Boot, ObserveStrategies
    <2>2. CASE Exit(p) \/ Crash(p)
      <3>1. Store(<<>>)
        BY FS_EmptySet DEF Store
      <3> QED BY <2>2, <3>1 DEF Exit, Crash, Gone
    <2>3. CASE \/ Lead(p) \/ Warm(p) \/ Signal(p) \/ Release(p) \/ Poll(p)
               \/ PollFails(p) \/ ObserveRecords(p)
      BY <2>3 DEF Lead, Warm, Signal, Release, Poll, PollFails, ObserveRecords, statusVars
    <2> QED BY <1>1, <2>1, <2>2, <2>3 DEF Process
  <1>2. ASSUME NEW h \in Handlers, Deliver(h)
        PROVE  Stocked'
    BY <1>2 DEF Deliver, Reject, Consume, ListFails, Ignore, GuardsRefuse, Decide, Label, Create,
                CreateFails, GiveUp, Respond, statusVars
  <1>3. ASSUME NEW n \in Names, Reconcile(n)
        PROVE  Stocked'
    <2>1. CASE UNCHANGED strategies
      BY <1>3, <2>1 DEF Reconcile
    <2>2. CASE \E fresh : n \in DOMAIN strategies /\ strategies' = [strategies EXCEPT ![n].status = fresh]
      BY <1>3, <2>2 DEF Reconcile, Store
    <2> QED BY <1>3, <2>1, <2>2 DEF Reconcile
  <1>4. ASSUME NEW n \in Names, Edit(n)
        PROVE  Stocked'
    <2>0. UNCHANGED cached
      BY <1>4 DEF Edit
    <2>1. ASSUME NEW s \in Catalogue, n \in DOMAIN strategies,
                 strategies' = [strategies EXCEPT ![n].spec = s, ![n].generation = @ + 1]
          PROVE  Store(strategies')
      BY <2>1 DEF Store, Specs
    <2>2. ASSUME NEW s \in Catalogue, n \notin DOMAIN strategies,
                 strategies' = [m \in DOMAIN strategies \cup {n} |->
                                  IF m = n THEN Stored(s, NoStatus) ELSE strategies[m]]
          PROVE  Store(strategies')
      <3>1. DOMAIN strategies' = DOMAIN strategies \cup {n}
        BY <2>2
      <3>2. IsFiniteSet(DOMAIN strategies')
        BY <3>1, FS_AddElement DEF Store
      <3>3. \A m \in DOMAIN strategies' :
              strategies'[m] = IF m = n THEN Stored(s, NoStatus) ELSE strategies[m]
        BY <2>2
      <3> QED BY <3>1, <3>2, <3>3 DEF Store, Stored, Specs
    <2>3. ASSUME n \in DOMAIN strategies,
                 strategies' = [m \in DOMAIN strategies \ {n} |-> strategies[m]]
          PROVE  Store(strategies')
      <3>1. DOMAIN strategies' = DOMAIN strategies \ {n}
        BY <2>3
      <3>2. IsFiniteSet(DOMAIN strategies')
        BY <3>1, FS_RemoveElement DEF Store
      <3> QED BY <2>3, <3>1, <3>2 DEF Store
    <2>4. Store(strategies')
      BY <1>4, <2>1, <2>2, <2>3 DEF Edit
    <2> QED BY <2>0, <2>4
  <1>5. ASSUME \/ \E h \in Handlers, p \in Replicas, q \in Requests : Receive(h, p, q)
               \/ \E to \in {"absent", "off", "on"} : SetSwitch(to)
               \/ \E i \in DOMAIN records : RemoveRecord(i)
               \/ UNCHANGED vars
        PROVE  Stocked'
    BY <1>5 DEF Receive, SetSwitch, RemoveRecord, vars, statusVars
  <1> QED BY <1>1, <1>2, <1>3, <1>4, <1>5 DEF Next
-----------------------------------------------------------------------------
(* Listing and selecting *)

\* Listing a finite store yields each strategy once, in whatever order.
LEMMA ListingIsListed ==
    ASSUME NEW f, Store(f),
           NEW rules \in SetToSeqs({[name |-> n, spec |-> f[n].spec] : n \in DOMAIN f})
    PROVE  Listed(rules)
  <1> DEFINE All == {[name |-> n, spec |-> f[n].spec] : n \in DOMAIN f}
             g == [n \in DOMAIN f |-> [name |-> n, spec |-> f[n].spec]]
             k == Cardinality(All)
  <1>1. g \in Surjection(DOMAIN f, All)
    BY DEF Surjection
  <1>2. IsFiniteSet(All)
    BY <1>1, FS_Surjection DEF Store
  <1>3. k \in Nat
    BY <1>2, FS_CardinalityType
  <1>4. rules \in [1..k -> All] /\ \A i, j \in 1..k : i # j => rules[i] # rules[j]
    BY DEF SetToSeqs
  <1>5. All \subseteq Rule
    BY DEF Store, Rule
  <1> HIDE DEF k
  <1>6. rules \in Seq(Rule) /\ DOMAIN rules = 1..k
    BY <1>3, <1>4, <1>5
  <1>7. \A a, b \in All : a.name = b.name => a = b
    OBVIOUS
  <1> QED BY <1>4, <1>6, <1>7 DEF Listed

\* A list of rules holds finitely many.
LEMMA RangeFinite ==
    ASSUME NEW rules \in Seq(Rule)
    PROVE  IsFiniteSet(Range(rules)) /\ Range(rules) \subseteq Rule
  <1>1. rules \in Surjection(1..Len(rules), Range(rules))
    BY DEF Surjection, Range
  <1>2. Len(rules) \in Nat /\ IsFiniteSet(1..Len(rules))
    BY FS_Interval
  <1>3. Range(rules) \subseteq Rule
    BY DEF Range
  <1> QED BY <1>1, <1>2, <1>3, FS_Surjection

\* The limits of a strategy, and a reading, are numbers.
LEMMA LimitTypes ==
    ASSUME NEW s \in Specs
    PROVE  s.maxUnavailable \in Nat /\ s.minAvailable \in Nat
  <1>1. s.maxUnavailable \in 0..100 /\ s.minAvailable \in Nat
    BY RoutingAssumption DEF Specs
  <1> QED BY <1>1

LEMMA ReadingTypes ==
    ASSUME NEW w \in Readings \cup {Unread}
    PROVE  w.desired \in Nat /\ w.available \in Nat
  <1>1. CASE w \in Readings
    BY <1>1, RoutingAssumption
  <1>2. CASE w = Unread
    BY <1>2 DEF Unread
  <1> QED BY <1>1, <1>2

\* How many matchers a strategy has is a number.
LEMMA SpecificityType ==
    ASSUME NEW s \in Specs
    PROVE  Specificity(s) \in Nat
  <1>1. IsFiniteSet(DOMAIN s.match)
    BY RoutingAssumption DEF Specs
  <1> QED BY <1>1, FS_CardinalityType DEF Specificity

\* Select: the first of the sorted candidates is a match, and precedes every
\* other one, whatever the order of the list.
LEMMA SelectedPrecedes ==
    ASSUME NEW rules, Listed(rules), NEW labels, NEW rule \in Select(labels, rules)
    PROVE  /\ rule \in Range(rules) /\ rule \in Rule /\ Matches(labels, rule.spec)
           /\ \A r \in Range(rules) \ {rule} : Matches(labels, r.spec) => Precedes(rule, r)
  <1> DEFINE M == {r \in Range(rules) : Matches(labels, r.spec)}
             c == Cardinality(M)
  <1>1. PICK s \in Candidates(labels, rules) \ {<<>>} : rule = Head(s)
    BY DEF Select
  <1>2. s \in SetToSeqs(M) /\ \A i, j \in DOMAIN s : i < j => ~Precedes(s[j], s[i])
    BY <1>1 DEF Candidates
  <1>3. IsFiniteSet(Range(rules)) /\ Range(rules) \subseteq Rule
    BY RangeFinite DEF Listed
  <1>4. IsFiniteSet(M) /\ c \in Nat
    BY <1>3, FS_Subset, FS_CardinalityType
  <1>5. s \in [1..c -> M] /\ \A i, j \in 1..c : i # j => s[i] # s[j]
    BY <1>2 DEF SetToSeqs
  <1>6. \A r \in M : \E i \in 1..c : s[i] = r
    <2>1. s \in Injection(1..c, M)
      BY <1>5 DEF Injection, IsInjective
    <2>2. IsFiniteSet(1..c) /\ Cardinality(1..c) = c
      BY <1>4, FS_Interval
    <2>3. s \in Surjection(1..c, M)
      BY <1>4, <2>1, <2>2, FS_Injection
    <2> QED BY <2>3 DEF Surjection
  <1> HIDE DEF c
  <1>7. s \in Seq(M) /\ s # <<>> /\ Len(s) = c
    BY <1>1, <1>4, <1>5
  <1>8. 1 \in 1..c /\ rule = s[1]
    BY <1>1, <1>4, <1>7
  <1>9. rule \in M
    BY <1>5, <1>8
  <1>10. ASSUME NEW r \in M \ {rule}
         PROVE  Precedes(rule, r)
    <2>1. PICK i \in 1..c : s[i] = r
      BY <1>6
    <2>2. 1 < i
      BY <1>8, <2>1
    <2>3. ~Precedes(r, rule)
      BY <1>2, <1>5, <1>8, <2>1, <2>2
    <2>4. r \in Rule /\ rule \in Rule /\ r.name # rule.name
      <3>1. PICK a \in DOMAIN rules, b \in DOMAIN rules : r = rules[a] /\ rule = rules[b]
        BY <1>9 DEF Range
      <3> QED BY <1>3, <1>9, <3>1 DEF Listed
    <2>5. Specificity(r.spec) \in Nat /\ Specificity(rule.spec) \in Nat
      BY <2>4, SpecificityType DEF Rule
    <2>6. r.name \in Nat /\ rule.name \in Nat
      BY <2>4, RoutingAssumption DEF Rule
    <2> QED BY <2>3, <2>4, <2>5, <2>6 DEF Precedes
  <1> QED BY <1>3, <1>9, <1>10
-----------------------------------------------------------------------------
(* Deliveries *)

LEMMA DeliveryMoves ==
    ASSUME Served, NEW h \in Handlers, NEW d, Delivery(d),
           handler' = [handler EXCEPT ![h] = d]
    PROVE  Served'
  <1>1. DOMAIN handler' = Handlers
    BY DEF Served
  <1>2. \A g \in Handlers : handler'[g] = IF g = h THEN d ELSE handler[g]
    BY DEF Served
  <1> QED BY <1>1, <1>2 DEF Served

LEMMA IdleDelivery == Delivery(Idle)
  BY DEF Delivery, Idle

\* The next alert is taken with the same list.
LEMMA NextAlertServed ==
    ASSUME Served, NEW h \in Handlers, handler[h].at \in {"alert", "label", "create"}, NextAlert(h)
    PROVE  Served'
  <1> DEFINE d == [at |-> "alert", on |-> handler[h].on, request |-> handler[h].request,
                   rules |-> handler[h].rules, next |-> handler[h].next + 1]
  <1>1. handler' = [handler EXCEPT ![h] = d]
    BY DEF NextAlert, Served
  <1>2. handler[h].on \in Replicas /\ Listed(handler[h].rules)
    BY DEF Served, Delivery, Idle
  <1>3. Delivery(d)
    BY <1>2 DEF Delivery
  <1> HIDE DEF d
  <1> QED BY <1>1, <1>3, DeliveryMoves

LEMMA DecideServed ==
    ASSUME Served, NEW h \in Handlers, Decide(h)
    PROVE  Served'
  <1>1. handler[h].at = "alert" /\ handler[h].on \in Replicas /\ Listed(handler[h].rules)
    BY DEF Decide, AtAlert, Served, Delivery, Idle
  <1>2. PICK rule \in Started(h), w \in Readings \cup {Unread} :
          /\ BlastRadiusAllows(rule.spec, w)
          /\ handler' = [handler EXCEPT ![h] =
               [at |-> "label", on |-> handler[h].on, request |-> handler[h].request,
                rules |-> handler[h].rules, next |-> handler[h].next, rule |-> rule,
                reading |-> w,
                dryRun |-> DryRunFor(rule.spec.namespace) \/ paused[handler[h].on]]]
    BY DEF Decide, Served
  <1> DEFINE d == [at |-> "label", on |-> handler[h].on, request |-> handler[h].request,
                   rules |-> handler[h].rules, next |-> handler[h].next, rule |-> rule,
                   reading |-> w,
                   dryRun |-> DryRunFor(rule.spec.namespace) \/ paused[handler[h].on]]
  <1>3. /\ rule \in Select(handler[h].request.alerts[handler[h].next].labels, handler[h].rules)
        /\ handler[h].request.alerts[handler[h].next].status = "firing"
        /\ ~rule.spec.manual
    BY DEF Started, Chosen, Entry
  <1>4. Delivery(d)
    BY <1>1, <1>2, <1>3 DEF Delivery
  <1> HIDE DEF d
  <1> QED BY <1>2, <1>4, DeliveryMoves DEF d

LEMMA LabelServed ==
    ASSUME Served, NEW h \in Handlers, Label(h)
    PROVE  Served'
  <1> DEFINE d == [at |-> "create", on |-> handler[h].on, request |-> handler[h].request,
                   rules |-> handler[h].rules, next |-> handler[h].next, rule |-> handler[h].rule,
                   dryRun |-> handler[h].dryRun, labelled |-> paused[handler[h].on]]
  <1>1. handler' = [handler EXCEPT ![h] = d]
    BY DEF Label, Served
  <1>2. Delivery(d)
    BY DEF Label, Served, Delivery, Idle
  <1> HIDE DEF d
  <1> QED BY <1>1, <1>2, DeliveryMoves

LEMMA ServedStep ==
    ASSUME Stocked, Served, [Next]_vars
    PROVE  Served'
  <1>1. ASSUME NEW p \in Replicas, Process(p)
        PROVE  Served'
    <2>1. CASE Exit(p) \/ Crash(p)
      <3>1. \A g \in Handlers : handler'[g] = Idle \/ handler'[g] = handler[g]
        BY <2>1 DEF Exit, Crash, Gone
      <3>2. DOMAIN handler' = Handlers
        BY <2>1 DEF Exit, Crash, Gone
      <3> QED BY <3>1, <3>2, IdleDelivery DEF Served
    <2>2. CASE ~(Exit(p) \/ Crash(p))
      BY <1>1, <2>2 DEF Process, Boot, Lead, Warm, Signal, Release, Poll, PollFails,
                        ObserveStrategies, ObserveRecords, Served
    <2> QED BY <2>1, <2>2
  <1>2. ASSUME NEW h \in Handlers, Deliver(h)
        PROVE  Served'
    <2>1. CASE Reject(h) \/ ListFails(h) \/ Respond(h)
      BY <2>1, IdleDelivery, DeliveryMoves DEF Reject, ListFails, Respond
    <2>2. CASE Consume(h)
      <3>1. handler[h].at = "body" /\ handler[h].on \in Replicas
        BY <2>2 DEF Consume, Served, Delivery, Idle
      <3> DEFINE here == cached[handler[h].on]
      <3>2. PICK rules \in SetToSeqs({[name |-> n, spec |-> here[n].spec] : n \in DOMAIN here}) :
              handler' = [handler EXCEPT ![h] =
                            [at |-> "alert", on |-> handler[h].on,
                             request |-> handler[h].request, rules |-> rules, next |-> 1]]
        BY <2>2 DEF Consume, Served
      <3>3. Store(here)
        BY <3>1 DEF Stocked
      <3> HIDE DEF here
      <3>4. Listed(rules)
        BY <3>3, ListingIsListed
      <3> DEFINE d == [at |-> "alert", on |-> handler[h].on, request |-> handler[h].request,
                       rules |-> rules, next |-> 1]
      <3>5. Delivery(d)
        BY <3>1, <3>4 DEF Delivery
      <3> HIDE DEF d
      <3> QED BY <3>2, <3>5, DeliveryMoves DEF d
    <2>3. CASE Ignore(h) \/ GuardsRefuse(h) \/ Create(h) \/ CreateFails(h) \/ GiveUp(h)
      <3>1. handler[h].at \in {"alert", "label", "create"} /\ NextAlert(h)
        BY <2>3 DEF Ignore, GuardsRefuse, Create, CreateFails, GiveUp, AtAlert
      <3> QED BY <3>1, NextAlertServed
    <2>4. CASE Decide(h)
      BY <2>4, DecideServed
    <2>5. CASE Label(h)
      BY <2>5, LabelServed
    <2> QED BY <1>2, <2>1, <2>2, <2>3, <2>4, <2>5 DEF Deliver
  <1>3. ASSUME NEW h \in Handlers, NEW p \in Replicas, NEW q \in Requests, Receive(h, p, q)
        PROVE  Served'
    <2>1. CASE handler' = handler
      BY <2>1 DEF Served
    <2>2. CASE handler' = [handler EXCEPT ![h] = [at |-> "body", on |-> p, request |-> q]]
      <3>1. Delivery([at |-> "body", on |-> p, request |-> q])
        BY DEF Delivery
      <3> QED BY <2>2, <3>1, DeliveryMoves
    <2> QED BY <1>3, <2>1, <2>2 DEF Receive
  <1>4. ASSUME \/ \E n \in Names : Reconcile(n) \/ Edit(n)
               \/ \E to \in {"absent", "off", "on"} : SetSwitch(to)
               \/ \E i \in DOMAIN records : RemoveRecord(i)
               \/ UNCHANGED vars
        PROVE  Served'
    BY <1>4 DEF Reconcile, Edit, SetSwitch, RemoveRecord, vars, Served
  <1> QED BY <1>1, <1>2, <1>3, <1>4 DEF Next
-----------------------------------------------------------------------------
(* Records *)

\* What appending does, place by place.
LEMMA Appended ==
    ASSUME Recorded, NEW r, records' = Append(records, r)
    PROVE  /\ Len(records) \in Nat /\ DOMAIN records = 1..Len(records)
           /\ DOMAIN records' = 1..Len(records) + 1
           /\ records'[Len(records) + 1] = r
           /\ \A i \in DOMAIN records : records'[i] = records[i]
           /\ records' \in Seq({records'[i] : i \in DOMAIN records'})
  <1> DEFINE S == {records[i] : i \in DOMAIN records} \cup {r}
  <1>1. records \in Seq({records[i] : i \in DOMAIN records})
    BY DEF Recorded
  <1>2. records \in Seq(S)
    BY <1>1
  <1> HIDE DEF S
  <1>3. r \in S
    BY DEF S
  <1>4. /\ records' \in Seq(S) /\ DOMAIN records' = 1..Len(records) + 1
        /\ \A i \in DOMAIN records' :
             records'[i] = IF i = Len(records) + 1 THEN r ELSE records[i]
        /\ DOMAIN records = 1..Len(records) /\ Len(records) \in Nat
    BY <1>2, <1>3
  <1>5. records' \in Seq({records'[i] : i \in DOMAIN records'})
    BY <1>4
  <1> QED BY <1>4, <1>5

\* Removal marks a record and changes nothing else of it.
LEMMA Removed ==
    ASSUME Recorded, NEW i \in DOMAIN records, RemoveRecord(i)
    PROVE  /\ Recorded' /\ DOMAIN records' = DOMAIN records
           /\ \A j \in DOMAIN records :
                /\ records'[j].dryRun = records[j].dryRun
                /\ records'[j].labelled = records[j].labelled
                /\ records'[j].gaveUp = records[j].gaveUp
                /\ records'[j].by = records[j].by /\ records'[j].from = records[j].from
  <1>1. records' = [records EXCEPT ![i].deleted = TRUE]
    BY DEF RemoveRecord
  <1>2. DOMAIN records = 1..Len(records) /\ Len(records) \in Nat
    BY DEF Recorded
  <1>3. DOMAIN records' = 1..Len(records)
    BY <1>1, <1>2
  <1>4. records' = [j \in 1..Len(records) |-> records'[j]]
    BY <1>1, <1>2
  <1>5. \A j \in DOMAIN records : records'[j] = records[j] \/ records'[j] = [records[j] EXCEPT !.deleted = TRUE]
    BY <1>1
  <1>6. ASSUME NEW j \in DOMAIN records
        PROVE  /\ {"dryRun", "labelled", "gaveUp", "by", "from"} \subseteq DOMAIN records'[j]
               /\ records'[j].dryRun = records[j].dryRun
               /\ records'[j].labelled = records[j].labelled
               /\ records'[j].gaveUp = records[j].gaveUp
               /\ records'[j].by = records[j].by /\ records'[j].from = records[j].from
    <2>1. {"dryRun", "labelled", "gaveUp", "by", "from"} \subseteq DOMAIN records[j]
      BY DEF Recorded
    <2> QED BY <1>5, <2>1
  <1>7. records' \in Seq({records'[j] : j \in DOMAIN records'})
    BY <1>2, <1>3, <1>4
  <1> QED BY <1>2, <1>3, <1>6, <1>7 DEF Recorded

\* Which steps leave the records alone.
LEMMA RecordsStay ==
    ASSUME [Next]_vars, \A h \in Handlers : ~Create(h) /\ ~GiveUp(h),
           \A i \in DOMAIN records : ~RemoveRecord(i)
    PROVE  UNCHANGED records
  <1>1. ASSUME NEW h \in Handlers, Deliver(h)
        PROVE  UNCHANGED records
    BY <1>1 DEF Deliver, Reject, Consume, ListFails, Ignore, GuardsRefuse, Decide, Label,
                CreateFails, Respond
  <1>2. ASSUME NEW p \in Replicas, Process(p)
        PROVE  UNCHANGED records
    BY <1>2 DEF Process, Boot, Lead, Warm, Signal, Release, Exit, Crash, Gone, Poll,
                PollFails, ObserveStrategies, ObserveRecords
  <1>3. ASSUME \/ \E h \in Handlers, p \in Replicas, q \in Requests : Receive(h, p, q)
               \/ \E n \in Names : Reconcile(n) \/ Edit(n)
               \/ \E to \in {"absent", "off", "on"} : SetSwitch(to)
               \/ UNCHANGED vars
        PROVE  UNCHANGED records
    BY <1>3 DEF Receive, Reconcile, Edit, SetSwitch, vars
  <1> QED BY <1>1, <1>2, <1>3 DEF Next

LEMMA RecordedStep ==
    ASSUME Recorded, [Next]_vars
    PROVE  Recorded'
  <1>1. ASSUME NEW h \in Handlers, NEW name, NEW dryRun, NEW labelled, NEW gaveUp,
               records' = Append(records, Record(h, name, dryRun, labelled, gaveUp))
        PROVE  Recorded'
    <2> DEFINE r == Record(h, name, dryRun, labelled, gaveUp)
    <2>1. {"dryRun", "labelled", "gaveUp", "by", "from"} \subseteq DOMAIN r
      BY DEF Record
    <2>2. records' = Append(records, r)
      BY <1>1
    <2> HIDE DEF r
    <2> QED BY <2>1, <2>2, Appended DEF Recorded
  <1>2. ASSUME NEW h \in Handlers, Create(h) \/ GiveUp(h)
        PROVE  Recorded'
    BY <1>1, <1>2 DEF Create, GiveUp
  <1>3. ASSUME NEW i \in DOMAIN records, RemoveRecord(i)
        PROVE  Recorded'
    BY <1>3, Removed
  <1>4. CASE UNCHANGED records
    BY <1>4 DEF Recorded
  <1> QED BY <1>2, <1>3, <1>4, RecordsStay
-----------------------------------------------------------------------------
(* The stop *)

\* Obedience looks only at the records, at what was told, and at the deliveries
\* that have read DryRun.
LEMMA StillObeyed ==
    ASSUME NEW p \in Replicas, Obeyed(p), UNCHANGED records, told'[p] = told[p],
           \A h \in Pending(p)' : h \in Pending(p) /\ handler'[h] = handler[h]
    PROVE  Obeyed(p)'
  <1>1. Since(p)' = Since(p) /\ Astray(p)' = Astray(p)
    BY DEF Since, Astray
  <1> QED BY <1>1 DEF Obeyed, Harmless

\* A record is created.
LEMMA CreateObeyed ==
    ASSUME Served, Recorded, NEW p \in Replicas, Obeyed(p), NEW h \in Handlers, Create(h)
    PROVE  Obeyed(p)'
  <1> DEFINE r == Record(h, handler[h].rule.name, handler[h].dryRun, handler[h].labelled, FALSE)
             n == Len(records) + 1
  <1>1. records' = Append(records, r) /\ UNCHANGED told
    BY DEF Create, processVars
  <1>2. /\ r.dryRun = handler[h].dryRun /\ r.labelled = handler[h].labelled /\ r.gaveUp = FALSE
        /\ r.by = handler[h].on /\ r.from = h
    BY DEF Record
  <1> HIDE DEF r
  <1>3. /\ Len(records) \in Nat /\ DOMAIN records = 1..Len(records)
        /\ DOMAIN records' = 1..n /\ records'[n] = r
        /\ \A i \in DOMAIN records : records'[i] = records[i]
    BY <1>1, Appended
  <1>4. Since(p)' \subseteq Since(p) \cup {n} /\ (handler[h].on # p => n \notin Since(p)')
    BY <1>1, <1>2, <1>3 DEF Since
  <1>5. \A i \in Since(p)' \ {n} : i \in Since(p) /\ records'[i] = records[i] /\ i < n
    BY <1>3, <1>4 DEF Since
  <1>6. \A i \in Since(p) : i \in Nat /\ i < n /\ records'[i] = records[i]
    BY <1>3 DEF Since
  <1>7. \A i \in Astray(p)' \ {n} : i \in Astray(p)
    BY <1>5 DEF Astray
  <1>8. \A g \in Pending(p)' : g \in Pending(p) /\ g # h /\ handler'[g] = handler[g]
    BY DEF Create, NextAlert, Pending, Served
  <1>9. ASSUME NEW i \in Astray(p)'
        PROVE  /\ records'[i].from \in told'[p].pending
               /\ \A j \in Since(p)' : records'[j].from = records'[i].from => i <= j
    <2>1. CASE i = n
      <3>1. i \in Since(p)' /\ ~(records'[i].dryRun /\ records'[i].labelled)
        BY DEF Astray
      <3>2. handler[h].on = p /\ ~(handler[h].dryRun /\ handler[h].labelled)
        BY <1>2, <1>3, <1>4, <2>1, <3>1
      <3>3. h \in Pending(p) /\ ~Harmless(handler[h])
        BY <3>2 DEF Pending, Create, Harmless
      <3>4. h \in told[p].pending /\ \A j \in Since(p) : records[j].from # h
        BY <3>3 DEF Obeyed
      <3>5. \A j \in Since(p)' : records'[j].from = h => j = n
        BY <1>5, <3>4
      <3>6. records'[i].from = h /\ i \in Nat
        BY <1>2, <1>3, <2>1
      <3>7. \A j \in Since(p)' : records'[j].from = records'[i].from => i <= j
        BY <2>1, <3>5, <3>6
      <3> QED BY <1>1, <3>4, <3>6, <3>7
    <2>2. CASE i # n
      <3>1. i \in Astray(p) /\ records'[i] = records[i] /\ i \in Nat /\ i < n
        BY <1>5, <1>6, <1>7, <2>2 DEF Astray
      <3>2. /\ records[i].from \in told[p].pending
            /\ \A j \in Since(p) : records[j].from = records[i].from => i <= j
        BY <3>1 DEF Obeyed
      <3>3. ASSUME NEW j \in Since(p)', records'[j].from = records'[i].from
            PROVE  i <= j
        BY <1>3, <1>5, <3>1, <3>2, <3>3
      <3> QED BY <1>1, <3>1, <3>2, <3>3
    <2> QED BY <2>1, <2>2
  <1>10. ASSUME NEW g \in Pending(p)', ~Harmless(handler'[g])
         PROVE  g \in told'[p].pending /\ \A j \in Since(p)' : records'[j].from # g
    <2>1. g \in Pending(p) /\ g # h /\ ~Harmless(handler[g])
      BY <1>8, <1>10
    <2>2. g \in told[p].pending /\ \A j \in Since(p) : records[j].from # g
      BY <2>1 DEF Obeyed
    <2>3. records'[n].from = h
      BY <1>2, <1>3
    <2> QED BY <1>1, <1>5, <2>1, <2>2, <2>3
  <1> QED BY <1>9, <1>10 DEF Obeyed, Harmless

\* A give-up record is no execution, and a removed record still one.
LEMMA GiveUpObeyed ==
    ASSUME Served, Recorded, NEW p \in Replicas, Obeyed(p), NEW h \in Handlers, GiveUp(h)
    PROVE  Obeyed(p)'
  <1>1. PICK rule : records' = Append(records, Record(h, rule.name, FALSE, FALSE, TRUE))
    BY DEF GiveUp
  <1> DEFINE r == Record(h, rule.name, FALSE, FALSE, TRUE)
  <1>2. r.gaveUp = TRUE
    BY DEF Record
  <1>3. records' = Append(records, r)
    BY <1>1
  <1> HIDE DEF r
  <1>4. /\ Len(records) \in Nat /\ DOMAIN records = 1..Len(records)
        /\ DOMAIN records' = 1..Len(records) + 1 /\ records'[Len(records) + 1] = r
        /\ \A i \in DOMAIN records : records'[i] = records[i]
    BY <1>3, Appended
  <1>5. UNCHANGED told
    BY DEF GiveUp, processVars
  <1>6. Since(p)' = Since(p) /\ \A i \in Since(p) : records'[i] = records[i]
    BY <1>2, <1>4, <1>5 DEF Since
  <1>7. Astray(p)' = Astray(p) /\ Astray(p) \subseteq Since(p)
    BY <1>6 DEF Astray
  <1>8. \A g \in Pending(p)' : g \in Pending(p) /\ handler'[g] = handler[g]
    BY DEF GiveUp, AtAlert, NextAlert, Pending, Served
  <1> QED BY <1>5, <1>6, <1>7, <1>8 DEF Obeyed, Harmless

LEMMA RemoveObeyed ==
    ASSUME Recorded, NEW p \in Replicas, Obeyed(p), NEW i \in DOMAIN records, RemoveRecord(i)
    PROVE  Obeyed(p)'
  <1>1. /\ DOMAIN records' = DOMAIN records
        /\ \A j \in DOMAIN records :
             /\ records'[j].dryRun = records[j].dryRun
             /\ records'[j].labelled = records[j].labelled
             /\ records'[j].gaveUp = records[j].gaveUp
             /\ records'[j].by = records[j].by /\ records'[j].from = records[j].from
    BY Removed
  <1>2. UNCHANGED <<told, handler>>
    BY DEF RemoveRecord, processVars
  <1>3. Since(p)' = Since(p)
    BY <1>1, <1>2 DEF Since
  <1>4. Since(p) \subseteq DOMAIN records
    BY DEF Since
  <1>5. Astray(p)' = Astray(p)
    BY <1>1, <1>3, <1>4 DEF Astray
  <1>6. \A j \in Since(p) : records'[j].from = records[j].from
    BY <1>1, <1>4
  <1>7. Pending(p)' = Pending(p) /\ Astray(p) \subseteq Since(p)
    BY <1>2 DEF Pending, Astray
  <1> QED BY <1>2, <1>3, <1>5, <1>6, <1>7 DEF Obeyed, Harmless

\* DryRun and the label are read while the process knows of the stop.
LEMMA ReadObeyed ==
    ASSUME Informed, Served, NEW p \in Replicas, told[p].known, Obeyed(p),
           NEW h \in Handlers, Decide(h) \/ Label(h)
    PROVE  Obeyed(p)'
  <1>1. UNCHANGED <<told, records>> /\ paused[p]
    BY DEF Decide, Label, processVars, Informed
  <1>2. \A g \in Handlers \ {h} : handler'[g] = handler[g]
    BY DEF Decide, Label, Served
  <1>3. Since(p)' = Since(p) /\ Astray(p)' = Astray(p)
    BY <1>1 DEF Since, Astray
  <1>4. ASSUME h \in Pending(p)'
        PROVE  \/ Harmless(handler'[h])
               \/ h \in told[p].pending /\ \A j \in Since(p) : records[j].from # h
    <2>1. CASE Decide(h)
      <3>1. handler'[h].at = "label" /\ handler'[h].on = handler[h].on
        BY <2>1 DEF Decide, Served
      <3>2. handler[h].on = p
        BY <1>4, <3>1 DEF Pending
      <3>3. handler'[h].dryRun
        <4>1. PICK rule \in Started(h) :
                handler'[h].dryRun = (DryRunFor(rule.spec.namespace) \/ paused[handler[h].on])
          BY <2>1 DEF Decide, Served
        <4> QED BY <1>1, <3>2, <4>1
      <3> QED BY <3>1, <3>3 DEF Harmless
    <2>2. CASE Label(h)
      <3>1. /\ handler'[h].at = "create" /\ handler'[h].on = handler[h].on
            /\ handler'[h].dryRun = handler[h].dryRun
            /\ handler'[h].labelled = paused[handler[h].on] /\ handler[h].at = "label"
        BY <2>2 DEF Label, Served
      <3>2. handler[h].on = p /\ h \in Pending(p)
        BY <1>4, <3>1 DEF Pending
      <3>3. \/ Harmless(handler[h])
            \/ h \in told[p].pending /\ \A j \in Since(p) : records[j].from # h
        BY <3>2 DEF Obeyed
      <3>4. Harmless(handler[h]) => Harmless(handler'[h])
        BY <1>1, <3>1, <3>2 DEF Harmless
      <3> QED BY <3>3, <3>4
    <2> QED BY <2>1, <2>2
  <1>5. \A g \in Pending(p)' : g # h => g \in Pending(p) /\ handler'[g] = handler[g]
    BY <1>2 DEF Pending
  <1> QED BY <1>1, <1>3, <1>4, <1>5 DEF Obeyed, Harmless

\* The moment p is told: it has recorded nothing since, and everything pending is
\* accounted for.
LEMMA PollHeeded ==
    ASSUME Informed, Recorded, Heeded, NEW q \in Replicas, Poll(q),
           NEW p \in Replicas, told'[p].known
    PROVE  Obeyed(p)'
  <1>1. UNCHANGED <<records, handler>>
    BY DEF Poll
  <1>2. Pending(p)' = Pending(p)
    BY <1>1 DEF Pending
  <1>3. CASE told'[p] = told[p]
    BY <1>1, <1>2, <1>3, StillObeyed DEF Heeded
  <1>4. CASE told'[p] # told[p]
    <2>1. told'[p].after = Len(records) /\ told'[p].pending = Pending(p)
      BY <1>4 DEF Poll, Telling, Untold, Informed
    <2>2. DOMAIN records = 1..Len(records) /\ Len(records) \in Nat
      BY DEF Recorded
    <2>3. Since(p)' = {} /\ Astray(p)' = {}
      BY <1>1, <2>1, <2>2 DEF Since, Astray
    <2> QED BY <1>2, <2>1, <2>3 DEF Obeyed
  <1> QED BY <1>3, <1>4

LEMMA HeededStep ==
    ASSUME Informed, Served, Recorded, Heeded, [Next]_vars
    PROVE  Heeded'
  <1> SUFFICES ASSUME NEW p \in Replicas, told'[p].known
               PROVE  Obeyed(p)'
    BY DEF Heeded
  <1>1. ASSUME NEW q \in Replicas, Process(q)
        PROVE  Obeyed(p)'
    <2>1. CASE Poll(q)
      BY <2>1, PollHeeded
    <2>2. CASE Exit(q) \/ Crash(q)
      <3>1. p # q /\ told'[p] = told[p] /\ UNCHANGED records
        BY <2>2 DEF Exit, Crash, Gone, Informed, Untold
      <3>2. \A h \in Pending(p)' : h \in Pending(p) /\ handler'[h] = handler[h]
        BY <2>2 DEF Exit, Crash, Gone, Pending, Idle
      <3> QED BY <3>1, <3>2, StillObeyed DEF Heeded
    <2>3. CASE ~Poll(q) /\ ~Exit(q) /\ ~Crash(q)
      <3>1. UNCHANGED <<told, records, handler>>
        BY <1>1, <2>3 DEF Process, Boot, Lead, Warm, Signal, Release, PollFails,
                          ObserveStrategies, ObserveRecords, processVars
      <3>2. \A h \in Pending(p)' : h \in Pending(p) /\ handler'[h] = handler[h]
        BY <3>1 DEF Pending
      <3> QED BY <3>1, <3>2, StillObeyed DEF Heeded
    <2> QED BY <2>1, <2>2, <2>3
  <1>2. ASSUME NEW h \in Handlers, Deliver(h)
        PROVE  Obeyed(p)'
    <2>1. UNCHANGED told
      BY <1>2 DEF Deliver, Reject, Consume, ListFails, Ignore, GuardsRefuse, Decide, Label,
                  Create, CreateFails, GiveUp, Respond, processVars
    <2>2. told[p].known /\ Obeyed(p)
      BY <2>1 DEF Heeded
    <2>3. CASE Create(h)
      BY <2>2, <2>3, CreateObeyed
    <2>4. CASE GiveUp(h)
      BY <2>2, <2>4, GiveUpObeyed
    <2>5. CASE Decide(h) \/ Label(h)
      BY <2>2, <2>5, ReadObeyed
    <2>6. CASE \/ Reject(h) \/ Consume(h) \/ ListFails(h) \/ Ignore(h) \/ GuardsRefuse(h)
               \/ CreateFails(h) \/ Respond(h)
      <3>1. UNCHANGED records
        BY <2>6 DEF Reject, Consume, ListFails, Ignore, GuardsRefuse, CreateFails, Respond
      <3>2. /\ \A g \in Handlers \ {h} : handler'[g] = handler[g]
            /\ handler'[h].at \notin {"label", "create"}
        <4>1. CASE Reject(h) \/ ListFails(h) \/ Respond(h)
          BY <4>1 DEF Reject, ListFails, Respond, Idle, Served
        <4>2. CASE Ignore(h) \/ GuardsRefuse(h) \/ CreateFails(h)
          BY <4>2 DEF Ignore, GuardsRefuse, CreateFails, NextAlert, Served
        <4>3. CASE Consume(h)
          BY <4>3 DEF Consume, Served
        <4> QED BY <2>6, <4>1, <4>2, <4>3
      <3>3. \A g \in Pending(p)' : g \in Pending(p) /\ handler'[g] = handler[g]
        BY <3>2 DEF Pending
      <3> QED BY <2>1, <2>2, <3>1, <3>3, StillObeyed
    <2> QED BY <1>2, <2>3, <2>4, <2>5, <2>6 DEF Deliver
  <1>3. ASSUME NEW h \in Handlers, NEW q \in Replicas, NEW z \in Requests, Receive(h, q, z)
        PROVE  Obeyed(p)'
    <2>1. UNCHANGED <<told, records>>
      BY <1>3 DEF Receive, processVars
    <2>2. \A g \in Handlers :
            \/ handler'[g] = handler[g]
            \/ handler'[g].at = "body"
      BY <1>3 DEF Receive, Served
    <2>3. \A g \in Pending(p)' : g \in Pending(p) /\ handler'[g] = handler[g]
      BY <2>2 DEF Pending
    <2> QED BY <2>1, <2>3, StillObeyed DEF Heeded
  <1>4. ASSUME NEW to \in {"absent", "off", "on"}, SetSwitch(to)
        PROVE  Obeyed(p)'
    BY <1>4 DEF SetSwitch, Untold
  <1>5. ASSUME NEW i \in DOMAIN records, RemoveRecord(i)
        PROVE  Obeyed(p)'
    <2>1. Obeyed(p)
      BY <1>5 DEF RemoveRecord, processVars, Heeded
    <2> QED BY <1>5, <2>1, RemoveObeyed
  <1>6. CASE \/ \E n \in Names : Reconcile(n) \/ Edit(n)
             \/ UNCHANGED vars
    <2>1. UNCHANGED <<told, records, handler>>
      BY <1>6 DEF Reconcile, Edit, vars, processVars
    <2>2. \A h \in Pending(p)' : h \in Pending(p) /\ handler'[h] = handler[h]
      BY <2>1 DEF Pending
    <2> QED BY <2>1, <2>2, StillObeyed DEF Heeded
  <1> QED BY <1>1, <1>2, <1>3, <1>4, <1>5, <1>6 DEF Next
-----------------------------------------------------------------------------
(* The invariant, and what it says *)

LEMMA InvInit == Init => Inv
  <1> SUFFICES ASSUME Init PROVE Inv
    OBVIOUS
  <1>1. Tenure
    BY DEF Init, Tenure
  <1>2. Informed
    BY DEF Init, Informed, Untold
  <1>3. Stocked
    <2>1. PICK f \in Stores : strategies =
            [n \in DOMAIN f |->
               Stored(f[n], [NoStatus EXCEPT !.generation = 1, !.ready = Ready(f[n])])]
      BY DEF Init
    <2>2. Store(strategies)
      <3>1. DOMAIN strategies = DOMAIN f
        BY <2>1
      <3>2. DOMAIN f \subseteq Names /\ IsFiniteSet(DOMAIN f)
        BY RoutingAssumption
      <3>3. ASSUME NEW n \in DOMAIN f
            PROVE  /\ DOMAIN strategies[n] = {"spec", "generation", "status"}
                   /\ strategies[n].spec \in Specs
        <4>1. strategies[n] =
                Stored(f[n], [NoStatus EXCEPT !.generation = 1, !.ready = Ready(f[n])])
          BY <2>1
        <4>2. f[n] \in Specs
          BY DEF Specs
        <4> QED BY <4>1, <4>2 DEF Stored
      <3> QED BY <3>1, <3>2, <3>3 DEF Store
    <2>3. Store(<<>>)
      BY FS_EmptySet DEF Store
    <2> QED BY <2>2, <2>3 DEF Init, Stocked
  <1>4. Served
    BY IdleDelivery DEF Init, Served
  <1>5. Recorded
    <2>1. records = <<>>
      BY DEF Init
    <2>2. DOMAIN records = {} /\ \A S : records \in Seq(S)
      BY <2>1
    <2> QED BY <2>2 DEF Recorded
  <1>6. Heeded
    BY DEF Init, Heeded, Untold
  <1> QED BY <1>1, <1>2, <1>3, <1>4, <1>5, <1>6 DEF Inv

LEMMA InvStep == Inv /\ [Next]_vars => Inv'
  BY TenureStep, InformedStep, StockedStep, ServedStep, RecordedStep, HeededStep DEF Inv

\* The inductive invariant holds of every behaviour.
LEMMA Invariance == Spec => []Inv
  BY InvInit, InvStep, PTL DEF Spec

\* The gate of main.go: at most one replica accepts alerts at any moment, however
\* many there are, through boots, kills, releases and hand-overs of the lease.
THEOREM OneAcceptor == Spec => []OnlyOneAccepts
  <1>1. Inv => OnlyOneAccepts
    BY DEF Inv, Tenure, OnlyOneAccepts, Accepting
  <1> QED BY <1>1, Invariance, PTL

\* pause.go and sink.go: from when a process has read the switch on until somebody
\* turns it, each of its executions is a dry run and says so, whatever polls fail,
\* but for one record of each delivery that had read DryRun before: a bound of one
\* late execution per delivery in flight, however many alerts these bring.
THEOREM StopIsKept == Spec => []StopHolds
  <1>1. Inv => StopHolds
    BY DEF Inv, Heeded, Obeyed, StopHolds
  <1> QED BY <1>1, Invariance, PTL

\* matching.go: the rule a delivery acts on has the most matchers of those that
\* match its alert, and the first name among equals, for any set of strategies in
\* any order, and is never a manual strategy's.
THEOREM RoutesToMostSpecific == Spec => []RoutedToMostSpecific
  <1>1. ASSUME Inv, NEW h \in Handlers, handler[h].at = "label"
        PROVE  /\ Entry(h).status = "firing" /\ ~handler[h].rule.spec.manual
               /\ Listed(handler[h].rules)
               /\ handler[h].rule \in Select(Entry(h).labels, handler[h].rules)
    BY <1>1 DEF Inv, Served, Delivery, Entry
  <1>2. ASSUME NEW labels, NEW s
        PROVE  Matches(labels, s) <=>
                 /\ s.enabled /\ DOMAIN s.match # {}
                 /\ \A k \in DOMAIN s.match :
                      \/ k \in DOMAIN labels /\ labels[k] = s.match[k]
                      \/ k \notin DOMAIN labels /\ s.match[k] = ""
    BY DEF Matches, Usable, LabelOf
  <1>3. Inv => RoutedToMostSpecific
    <2> SUFFICES ASSUME Inv, NEW h \in Handlers, handler[h].at = "label"
                 PROVE  LET rule == handler[h].rule
                            matching == {r \in Range(handler[h].rules) :
                               /\ r.spec.enabled /\ DOMAIN r.spec.match # {}
                               /\ \A k \in DOMAIN r.spec.match :
                                    \/ k \in DOMAIN Entry(h).labels /\ Entry(h).labels[k] = r.spec.match[k]
                                    \/ k \notin DOMAIN Entry(h).labels /\ r.spec.match[k] = ""}
                        IN  /\ Entry(h).status = "firing" /\ ~rule.spec.manual
                            /\ rule \in matching
                            /\ \A r \in matching \ {rule} :
                                 LET mine == Cardinality(DOMAIN rule.spec.match)
                                     theirs == Cardinality(DOMAIN r.spec.match)
                                 IN  mine > theirs \/ (mine = theirs /\ rule.name < r.name)
      BY DEF RoutedToMostSpecific
    <2> DEFINE rule == handler[h].rule
               labels == Entry(h).labels
               matching == {r \in Range(handler[h].rules) : Matches(labels, r.spec)}
    <2>1. rule \in matching /\ \A r \in matching \ {rule} : Precedes(rule, r)
      BY <1>1, SelectedPrecedes
    <2>2. \A r \in matching \ {rule} :
            \/ Cardinality(DOMAIN rule.spec.match) > Cardinality(DOMAIN r.spec.match)
            \/ /\ Cardinality(DOMAIN rule.spec.match) = Cardinality(DOMAIN r.spec.match)
               /\ rule.name < r.name
      BY <2>1 DEF Precedes, Specificity
    <2>3. matching = {r \in Range(handler[h].rules) :
                        /\ r.spec.enabled /\ DOMAIN r.spec.match # {}
                        /\ \A k \in DOMAIN r.spec.match :
                             \/ k \in DOMAIN labels /\ labels[k] = r.spec.match[k]
                             \/ k \notin DOMAIN labels /\ r.spec.match[k] = ""}
      BY <1>2
    <2> HIDE DEF matching
    <2> QED BY <1>1, <2>1, <2>2, <2>3
  <1> QED BY <1>3, Invariance, PTL

\* UnavailablePercent is rounded up: below the limit as a whole number is below
\* it as an exact fraction.
LEMMA RoundedUp ==
    ASSUME NEW d \in Nat, d > 0, NEW a \in Nat, NEW m \in Nat,
           (IF a >= d THEN 0 ELSE d - a) * 100 + d - 1 >= 0,
           ((IF a >= d THEN 0 ELSE d - a) * 100 + d - 1) \div d < m
    PROVE  (d - a) * 100 < m * d
  <1> DEFINE u == IF a >= d THEN 0 ELSE d - a
             q == (u * 100 + d - 1) \div d
  <1>1. u \in Nat /\ d - a <= u
    OBVIOUS
  <1>2. q \in Int /\ q < m
    BY <1>1
  <1>3. u * 100 + d - 1 < (q + 1) * d
    <2> DEFINE n == u * 100 + d - 1
    <2>1. n \in Int
      BY <1>1
    <2> HIDE DEF n, u
    <2>2. n = d * (n \div d) + (n % d) /\ n % d < d /\ n \div d \in Int
      BY <2>1
    <2>3. (n \div d + 1) * d = d * (n \div d) + d
      BY <2>2
    <2> QED BY <2>1, <2>2, <2>3 DEF n
  <1> HIDE DEF q, u
  <1>4. (q + 1) * d <= m * d
    BY <1>2
  <1>5. u * 100 + d - 1 < m * d
    <2>1. (q + 1) * d \in Int /\ m * d \in Int
      BY <1>2
    <2> QED BY <1>1, <1>3, <1>4, <2>1
  <1>6. m * d \in Int
    OBVIOUS
  <1> QED BY <1>1, <1>5, <1>6

\* The share a strategy tolerates, as WithinLimits measures it.
LEMMA ShareIsExact ==
    ASSUME NEW s, NEW w, s.maxUnavailable \in Nat, w.desired \in Nat, w.available \in Nat,
           WithinLimits(s, w), s.maxUnavailable > 0, w.desired > 0
    PROVE  (w.desired - w.available) * 100 < s.maxUnavailable * w.desired
  <1>1. UnavailablePercent(w) < s.maxUnavailable
    BY DEF WithinLimits
  <1>2. ((IF w.available >= w.desired THEN 0 ELSE w.desired - w.available) * 100
          + w.desired - 1) \div w.desired < s.maxUnavailable
    BY <1>1 DEF UnavailablePercent, Unavailable
  <1>3. (IF w.available >= w.desired THEN 0 ELSE w.desired - w.available) * 100
          + w.desired - 1 >= 0
    OBVIOUS
  <1> QED BY <1>2, <1>3, RoundedUp

\* guards/blastradius.go and workload.go: a workload acted on while a limit is
\* set was measured, and keeps its margin exactly.
THEOREM MarginIsKept == Spec => []ActsOnlyWithMargin
  <1>1. Inv => ActsOnlyWithMargin
    <2> SUFFICES ASSUME Inv, NEW h \in Handlers, handler[h].at = "label",
                        Configured(handler[h].rule.spec),
                        handler[h].rule.spec.kind \notin {"Node", ""}
                 PROVE  LET s == handler[h].rule.spec
                            w == handler[h].reading
                        IN  /\ w.readable
                            /\ Applicable(s, w) =>
                                 /\ s.minAvailable > 0 => w.available > s.minAvailable
                                 /\ s.maxUnavailable > 0 /\ w.desired > 0 =>
                                      (w.desired - w.available) * 100 < s.maxUnavailable * w.desired
      BY DEF ActsOnlyWithMargin
    <2> DEFINE s == handler[h].rule.spec
               w == handler[h].reading
    <2>1. /\ Listed(handler[h].rules) /\ BlastRadiusAllows(s, w)
          /\ handler[h].rule \in Select(Entry(h).labels, handler[h].rules)
          /\ w \in Readings \cup {Unread}
      BY DEF Inv, Served, Delivery, Entry
    <2>2. s \in Specs
      <3> DEFINE rules == handler[h].rules
                 labels == Entry(h).labels
                 rule == handler[h].rule
      <3>0. Listed(rules) /\ rule \in Select(labels, rules)
        BY <2>1
      <3> HIDE DEF rules, labels, rule
      <3>1. rule \in Rule
        BY <3>0, SelectedPrecedes
      <3> USE DEF rule
      <3> QED BY <3>1 DEF Rule
    <2>3. s.maxUnavailable \in Nat /\ s.minAvailable \in Nat
      BY <2>2, LimitTypes
    <2>4. w.readable /\ (Applicable(s, w) => WithinLimits(s, w))
      <3>1. LookedUp(s)
        BY <2>2, RoutingAssumption DEF LookedUp, Specs
      <3> QED BY <2>1, <3>1 DEF BlastRadiusAllows
    <2>5. w.desired \in Nat /\ w.available \in Nat
      BY <2>1, ReadingTypes
    <2> HIDE DEF s, w
    <2>6. ASSUME Applicable(s, w), s.maxUnavailable > 0, w.desired > 0
          PROVE  (w.desired - w.available) * 100 < s.maxUnavailable * w.desired
      BY <2>3, <2>4, <2>5, <2>6, ShareIsExact
    <2> QED BY <2>4, <2>6 DEF WithinLimits, s, w
  <1> QED BY <1>1, Invariance, PTL
=============================================================================

------------------------- MODULE TradeEngineProofs -------------------------
(***************************************************************************)
(* Proofs about module TradeEngine, for any plans, executions, outcomes,   *)
(* sales and any number of actions, crashes and requests: money is issued  *)
(* once and accounted for (the refinement of MonetaryLedger), a block is   *)
(* permanent and stops trading, and recovery never has to choose.          *)
(*                                                                         *)
(* None of these is inductive by itself.  What carries them is a chain     *)
(* from the journal over the checkpoints to the progress of a saga: an     *)
(* action a checkpoint covers succeeded, was sent for that saga, and lies  *)
(* behind it; and while TRADE is on, or about to be, every other action    *)
(* that may have left is the one the running tick holds in hand.           *)
(***************************************************************************)
EXTENDS TradeEngine, SagaFacts, FiniteSetTheorems

\* A trade in memory or in the database.
Deals == [saga : Sagas(Plans), covered : SUBSET Actions]

\* The directive of step i, attempt j lies behind the saga: it will never be
\* issued again.
Past(s, i, j) ==
    \/ i < s.step
    \/ i = s.step /\ (j < s.attempt \/ (j = s.attempt /\ s.status # "RUNNING"))

GoodSaga(s) ==
    SagaInv(s) /\ s.attempt <= MaxStepAttempts /\ s.step <= Len(s.plan.steps) + 1

\* A covered action succeeded; it was sent for a directive of this very trade
\* that the trade has left behind.
ExplainedBy(d, pair) == pair[2][1] = d.saga.id /\ Past(d.saga, pair[2][2], pair[2][3])
Explained(d) ==
    \A a \in d.covered :
        journal[a] = "success" /\ \E pair \in sent : pair[1] = a /\ ExplainedBy(d, pair)

\* The journal and the checkpoints agree that nothing is open about an action.
Accounted(a) == journal[a] \in {"none", "unsent"} \/ a \in Covered

-----------------------------------------------------------------------------
(* The inductive invariant.                                                *)

Types ==
    /\ mode \in {"PAUSED", "TRADE"}
    /\ stale \in BOOLEAN /\ blocked \in BOOLEAN /\ savedBlocked \in BOOLEAN
    /\ live \in Deals \cup {NoTrade}
    /\ pc \in {"recover", "idle", "run", "send", "await", "apply", "save", "stop", "pause",
               "persist"}
    /\ current \in Actions \cup {NoAction}
    /\ event \in Events \cup {NoEvent}
    /\ store \in [Executions -> Deals \cup {NoTrade}]
    /\ journal \in [Actions -> {"none", "requested", "success", "failure", "unsent"}]
    /\ sent \subseteq Actions \X Directives
    /\ authPc \in {"idle", "check", "coverage", "audit", "gate", "open"}
    /\ authCovered \subseteq Actions

SoundDeals ==
    /\ live # NoTrade => GoodSaga(live.saga)
    /\ \A x \in Saved : store[x].saga.id = x /\ GoodSaga(store[x].saga)

\* Where the goroutine stands says what it holds.
Control ==
    /\ pc = "recover" => live = NoTrade /\ mode = "PAUSED" /\ authPc = "idle"
    /\ pc \in {"send", "await", "apply", "save"} => live # NoTrade
    /\ pc \in {"send", "await"} => current \in Actions
    /\ pc \notin {"send", "await", "apply", "stop"} => current = NoAction
    /\ pc = "apply" => event \in Events /\ event.outcome.action = current

\* The action in hand is new to every record but the journal.
InHand ==
    pc \in {"send", "await", "apply"} /\ current \in Actions =>
        /\ live.saga.status = "RUNNING"
        /\ current \notin Covered
        /\ pc = "send" => journal[current] = "requested" /\ \A pair \in sent : pair[1] # current
        /\ pc # "send" => <<current, Directive>> \in sent
        /\ pc = "apply" => journal[current] = "success"

SentOnce ==
    /\ \A pair \in sent : journal[pair[1]] \in {"requested", "success", "failure"}
    /\ \A p, q \in sent : p[1] = q[1] => p = q

AllExplained ==
    /\ live # NoTrade => Explained(live)
    /\ \A x \in Saved : Explained(store[x])

\* How far the trade in memory may be ahead of its checkpoint.
LiveIsStored ==
    live # NoTrade =>
        /\ store[live.saga.id] # NoTrade => store[live.saga.id].covered \subseteq live.covered
        /\ pc \in {"run", "send", "await", "apply"} => store[live.saga.id] = live
        /\ pc = "idle" /\ ~blocked => store[live.saga.id] = live
        /\ pc = "save" => \A a, b \in live.covered \ Covered : a = b

OneUnfinished ==
    /\ \A x, y \in Unfinished : x = y
    /\ live # NoTrade => \A x \in Unfinished : x = live.saga.id
    /\ live = NoTrade /\ pc # "recover" => Unfinished = {}

Blocks ==
    /\ authPc # "idle" => mode = "PAUSED"
    /\ savedBlocked /\ pc # "recover" => blocked
    /\ pc \in {"pause", "persist"} => blocked
    /\ blocked /\ (mode = "TRADE" \/ authPc \in {"coverage", "audit", "gate", "open"}) =>
          pc \in {"pause", "persist", "idle"}
    /\ Mismatched # {} => blocked \/ pc \in {"stop", "recover"}

Settled ==
    /\ authPc = "audit" => authCovered \subseteq Covered
    /\ authPc \in {"gate", "open"} => \A a \in Actions : Accounted(a)
    /\ mode = "TRADE" /\ pc \notin {"stop", "pause"} =>
          \A a \in Actions :
              Accounted(a) \/ a = current \/ (pc = "save" /\ a \in live.covered)

IInv ==
    /\ Types /\ SoundDeals /\ Control /\ InHand /\ SentOnce /\ AllExplained
    /\ LiveIsStored /\ OneUnfinished /\ Blocks /\ Settled

-----------------------------------------------------------------------------
(* Values.                                                                 *)

\* A plan has a step.
LEMMA PlanLength == \A p \in Plans : Len(p.steps) \in Nat \ {0}
  BY PlansAssumption, PlanFacts

\* A directive is an execution, a step and an attempt.
LEMMA DirectiveFacts ==
  \A d \in Directives :
      d[1] \in Executions /\ d[2] \in Nat /\ d[3] \in Nat /\ d = <<d[1], d[2], d[3]>>
  <1> SUFFICES ASSUME NEW p \in Plans,
                      NEW d \in Executions \X (1 .. Len(p.steps)) \X (0 .. MaxStepAttempts)
               PROVE  /\ d[1] \in Executions /\ d[2] \in Nat /\ d[3] \in Nat
                      /\ d = <<d[1], d[2], d[3]>>
    BY DEF Directives
  <1> QED BY PlanLength, AttemptsAssumption

\* The parts of a good trade, and the directive it is running.
LEMMA DealFacts ==
  ASSUME NEW d \in Deals, GoodSaga(d.saga)
  PROVE  /\ d.saga \in Sagas(Plans) /\ CanonicalPlan(d.saga.plan) /\ d.saga.plan \in Plans
         /\ d.saga.id \in Executions /\ d.saga.step \in Nat /\ d.saga.attempt \in Nat
         /\ d.covered \in SUBSET Actions
         /\ d.saga.status = "RUNNING" =>
               /\ StepOf(d.saga) \in Steps /\ Remaining(d.saga) \in Nat
               /\ <<d.saga.id, d.saga.step, d.saga.attempt>> \in Directives
  <1>1. /\ d.saga \in Sagas(Plans) /\ d.saga.plan \in Plans /\ d.saga.id \in Executions
        /\ d.saga.step \in Nat /\ d.saga.attempt \in Nat /\ d.covered \in SUBSET Actions
    BY DEF Deals, Sagas
  <1>2. CanonicalPlan(d.saga.plan)
    BY <1>1, PlansAssumption
  <1>3. ASSUME d.saga.status = "RUNNING"
        PROVE  /\ StepOf(d.saga) \in Steps /\ Remaining(d.saga) \in Nat
               /\ <<d.saga.id, d.saga.step, d.saga.attempt>> \in Directives
    <2>1. Working(d.saga) /\ Positioned(d.saga)
      BY <1>3 DEF GoodSaga, SagaInv, Sound, Working
    <2>2. d.saga.step \in 1 .. Len(d.saga.plan.steps) /\ StepOf(d.saga) \in Steps
          /\ Remaining(d.saga) \in Nat
      BY <1>1, <1>2, <2>1, PositionFacts
    <2>3. d.saga.attempt \in 0 .. MaxStepAttempts
      BY <1>1, AttemptsAssumption DEF GoodSaga
    <2> QED BY <1>1, <2>2, <2>3 DEF Directives
  <1> QED BY <1>1, <1>2, <1>3

\* What a directive leaves behind stays behind.
LEMMA PastFacts ==
  ASSUME NEW s \in Sagas(Plans), GoodSaga(s), NEW e \in Events,
         Accepted(s, e, MaxStepAttempts)
  PROVE  LET t == After(s, e) IN
         /\ t \in Sagas(Plans) /\ GoodSaga(t) /\ t.id = s.id
         /\ \A i, j \in Nat : Past(s, i, j) => Past(t, i, j)
         /\ s.status = "RUNNING" => Past(t, s.step, s.attempt)
  <1> DEFINE t == After(s, e)
  <1>1. CanonicalPlan(s.plan) /\ s.step \in Nat /\ s.attempt \in Nat
    BY PlansAssumption DEF Sagas
  <1>2. NoSettlement \notin Settlements /\ MaxStepAttempts \in Nat
    BY SalesAssumption, AttemptsAssumption
  <1>3. /\ SagaInv(s) /\ s.step <= Len(s.plan.steps) + 1 /\ s.attempt <= MaxStepAttempts
    BY DEF GoodSaga
  <1>4. t \in Sagas(Plans) /\ SagaInv(t) /\ t.id = s.id /\ t.plan = s.plan
    BY <1>1, <1>2, <1>3, AfterFacts
  <1>5. /\ t.step <= Len(s.plan.steps) + 1 /\ t.attempt <= MaxStepAttempts
        /\ \/ t.step > s.step
           \/ t.step = s.step /\ t.attempt > s.attempt
           \/ t.step = s.step /\ t.attempt = s.attempt /\ t.status # "RUNNING"
    BY <1>1, <1>2, <1>3, ProgressFacts
  <1>6. t.step \in Nat /\ t.attempt \in Nat
    BY <1>4 DEF Sagas
  <1> HIDE DEF t
  <1>7. \A i, j \in Nat : Past(s, i, j) => Past(t, i, j)
    BY <1>1, <1>5, <1>6 DEF Past
  <1>8. s.status = "RUNNING" => Past(t, s.step, s.attempt)
    BY <1>1, <1>5, <1>6 DEF Past
  <1> QED BY <1>3, <1>4, <1>5, <1>7, <1>8 DEF GoodSaga, t

-----------------------------------------------------------------------------
(* The events the runner returns.                                          *)

\* Doing nothing is an outcome.
LEMMA EmptyOutcomeType == EmptyOutcome \in Outcomes /\ EmptyOutcome.action = NoAction
  BY DEF EmptyOutcome, Outcomes, NoItems, NoAction

\* The event of a step has the type of an event.
LEMMA StepEventType ==
  ASSUME live \in Deals, GoodSaga(live.saga), NEW o \in Outcomes, NEW reason \in Reasons,
         NEW now \in Times
  PROVE  StepEvent(o, reason, now) \in Events /\ StepEvent(o, reason, now).outcome = o
  <1>1. /\ live.saga.id \in Executions /\ live.saga.step \in Nat /\ live.saga.attempt \in Nat
        /\ now \in Nat
    BY DealFacts, TimesAssumption
  <1> QED BY <1>1 DEF StepEvent, Event, Events, EventIDs, Facts, Kinds, Resolutions

\* So has that of a recovery,
LEMMA RecoveryEventType ==
  ASSUME live \in Deals, GoodSaga(live.saga), NEW now \in Times,
         NEW resolution \in {"RETRY", "HOLD"}
  PROVE  LET e == Event("RECOVERY_RESOLVED", resolution, EmptyOutcome, "", resolution,
                        NoSettlement, now)
         IN  e \in Events /\ e.outcome = EmptyOutcome
  <1>1. /\ live.saga.id \in Executions /\ live.saga.step \in Nat /\ live.saga.attempt \in Nat
        /\ now \in Nat
    BY DealFacts, TimesAssumption
  <1> QED BY <1>1, EmptyOutcomeType DEF Event, Events, EventIDs, Facts, Kinds, Resolutions, Reasons

\* that of a sale,
LEMMA SaleEventType ==
  ASSUME live \in Deals, GoodSaga(live.saga), NEW now \in Times, NEW a \in Settlements
  PROVE  LET e == Event("SALE_SETTLED", "settled", EmptyOutcome, "", "", a, now)
         IN  e \in Events /\ e.outcome = EmptyOutcome
  <1>1. /\ live.saga.id \in Executions /\ live.saga.step \in Nat /\ live.saga.attempt \in Nat
        /\ now \in Nat
    BY DealFacts, TimesAssumption
  <1> QED BY <1>1, EmptyOutcomeType DEF Event, Events, EventIDs, Facts, Kinds, Resolutions, Reasons

\* and what a sale is settled with.
LEMMA SettlementType ==
  ASSUME live \in Deals, GoodSaga(live.saga), NEW sale \in Sales
  PROVE  [execution |-> live.saga.id, order |-> live.saga.order,
          cost |-> live.saga.cost, revenue |-> sale.revenue, fees |-> sale.fees,
          item |-> live.saga.plan.item, quantity |-> sale.quantity] \in Settlements
  <1>1. live.saga \in Sagas(Plans) /\ CanonicalPlan(live.saga.plan)
    BY DealFacts
  <1>2. live.saga.plan.item \in Items
    <2> DEFINE steps == live.saga.plan.steps
    <2>1. Len(steps) \in 1 .. Len(steps)
      BY <1>1, PlanFacts
    <2>2. steps[Len(steps)] \in Steps
      BY <1>1, <2>1, PlanFacts
    <2>3. live.saga.plan.item = steps[Len(steps)].item
      BY <1>1 DEF CanonicalPlan
    <2> QED BY <2>2, <2>3 DEF Steps
  <1>3. sale.revenue \in Nat /\ sale.fees \in Nat /\ sale.quantity \in Nat
    BY SalesAssumption
  <1> QED BY <1>1, <1>2, <1>3 DEF Settlements, Sagas

\* What the screen can confirm is an outcome, and keeps being one with the
\* action written into it.
LEMMA ConfirmedType ==
  ASSUME live \in Deals, GoodSaga(live.saga), live.saga.status = "RUNNING",
         NEW o \in Confirmed, NEW a \in Actions \cup {NoAction}
  PROVE  LET b == [o EXCEPT !.action = a] IN b \in Outcomes /\ b.action = a
  <1> DEFINE step == StepOf(live.saga)
             rest == Remaining(live.saga)
  <1>1. step \in Steps /\ rest \in Nat
    BY DealFacts
  <1>2. /\ step.kind \in {"BUY", "BARTER", "LIST"} /\ step.item \in Items
        /\ step.price \in Nat
    BY <1>1 DEF Steps
  <1>3. o \in Outcomes
    <2>1. CASE step.kind = "BUY"
      <3>1. PICK n \in 0 .. rest :
               o = [EmptyOutcome EXCEPT !.completed = n, !.cost = n * step.price,
                      !.deltas = [i \in Items |-> IF i = step.item THEN n ELSE 0]]
        BY <2>1 DEF Confirmed, BuyOutcomes
      <3>2. n \in Nat /\ n * step.price \in Nat
        BY <1>1, <1>2
      <3>3. [i \in Items |-> IF i = step.item THEN n ELSE 0] \in [Items -> Int]
        BY <3>2
      <3> DEFINE cost == n * step.price
                 deltas == [i \in Items |-> IF i = step.item THEN n ELSE 0]
      <3>4. cost \in Nat /\ deltas \in [Items -> Int]
            /\ o = [EmptyOutcome EXCEPT !.completed = n, !.cost = cost, !.deltas = deltas]
        BY <3>1, <3>2, <3>3
      <3> HIDE DEF cost, deltas
      <3> QED BY <3>2, <3>4, EmptyOutcomeType DEF Outcomes
    <2>2. CASE step.kind = "BARTER"
      BY <2>2, OutcomesAssumption DEF Confirmed
    <2>3. CASE step.kind = "LIST"
      <3> DEFINE deltas == [i \in Items |-> IF i = step.item THEN -rest ELSE 0]
      <3>1. PICK listing \in [fees : ListingFees, order : Orders] :
               o = [EmptyOutcome EXCEPT !.completed = rest, !.fees = listing.fees,
                                        !.order = listing.order, !.deltas = deltas]
        BY <2>3 DEF Confirmed, ListOutcomes
      <3>2. listing.fees \in Nat /\ listing.order \in Orders
        BY OutcomesAssumption
      <3>3. deltas \in [Items -> Int]
        BY <1>1
      <3> HIDE DEF deltas
      <3> QED BY <1>1, <3>1, <3>2, <3>3, EmptyOutcomeType DEF Outcomes
    <2> QED BY <1>2, <2>1, <2>2, <2>3
  <1>4. a \in Nat
    BY BoundsAssumption DEF Actions, NoAction
  <1> QED BY <1>3, <1>4 DEF Outcomes

-----------------------------------------------------------------------------
(* The inductive invariant holds initially.                                *)

\* The invariant holds at first.
LEMMA InitFacts == Init => IInv
  <1> SUFFICES ASSUME Init PROVE IInv
    OBVIOUS
  <1>1. Saved = {}
    BY DEF Init, Saved
  <1>2. Types
    BY DEF Init, Types
  <1>3. SoundDeals /\ AllExplained /\ LiveIsStored /\ SentOnce
    BY <1>1 DEF Init, SoundDeals, AllExplained, LiveIsStored, SentOnce
  <1>4. Control /\ InHand /\ Settled
    BY DEF Init, Control, InHand, Settled
  <1>5. Unfinished = {} /\ Mismatched = {}
    BY <1>1 DEF Unfinished, Mismatched
  <1>6. OneUnfinished /\ Blocks
    BY <1>5 DEF Init, OneUnfinished, Blocks
  <1> QED BY <1>2, <1>3, <1>4, <1>6 DEF IInv

-----------------------------------------------------------------------------
(* Steps that leave the trade and its records alone.                       *)

\* What is derived from the checkpoints depends on nothing else.
LEMMA StoreFrame ==
  ASSUME UNCHANGED store
  PROVE  Saved' = Saved /\ Covered' = Covered /\ Unfinished' = Unfinished
         /\ Mismatched' = Mismatched
  BY DEF Saved, Covered, CoveredBy, Unfinished, Mismatched

\* What depends on the records only stays with them.
LEMMA RecordsFrame ==
  ASSUME IInv, UNCHANGED <<live, store, journal, sent>>
  PROVE  /\ SoundDeals' /\ AllExplained' /\ SentOnce' /\ Directive' = Directive
         /\ \A a : Accounted(a)' = Accounted(a)
  BY StoreFrame DEF IInv, SoundDeals, AllExplained, Explained, ExplainedBy, SentOnce, Directive, Accounted

\* The goroutine moves on without touching anything but its own position.
LEMMA MoveOn ==
  ASSUME IInv, StartTick \/ EndTick \/ RunnerFails \/ ActionUnclear
  PROVE  IInv'
  <1> USE DEF IInv
  <1>1. UNCHANGED <<mode, stale, blocked, savedBlocked, live, current, event, store, journal,
                    sent, auth>>
    BY DEF StartTick, EndTick, RunnerFails, ActionUnclear, Driving
  <1>2. SoundDeals' /\ AllExplained' /\ SentOnce' /\ Directive' = Directive
        /\ \A a : Accounted(a)' = Accounted(a)
    BY <1>1, RecordsFrame
  <1>3. \/ pc = "idle" /\ ~blocked /\ pc' = "run"
        \/ pc = "run" /\ pc' \in {"idle", "stop"}
        \/ pc = "await" /\ pc' = "stop"
    BY DEF StartTick, EndTick, RunnerFails, ActionUnclear, Driving, Goto
  <1>4. Types' /\ Control' /\ InHand'
    BY <1>1, <1>3, StoreFrame DEF Types, Control, InHand, auth
  <1>5. LiveIsStored' /\ OneUnfinished' /\ Blocks' /\ Settled'
    BY <1>1, <1>2, <1>3, StoreFrame DEF LiveIsStored, OneUnfinished, Blocks, Settled, auth, Control
  <1> QED BY <1>2, <1>4, <1>5

\* The runner returns an event that is bound to no action.
LEMMA ReturnStep ==
  ASSUME IInv, NEW e \in Events, e.outcome = EmptyOutcome, pc = "run", live # NoTrade, Return(e)
  PROVE  IInv'
  <1> USE DEF IInv, auth
  <1>1. /\ UNCHANGED <<mode, stale, blocked, savedBlocked, live, current, store, journal,
                       sent, auth>>
        /\ event' = e /\ pc' = "apply" /\ current = NoAction /\ e.outcome.action = NoAction
    BY EmptyOutcomeType DEF Return, Goto, Control
  <1>2. SoundDeals' /\ AllExplained' /\ SentOnce' /\ Directive' = Directive
        /\ \A a : Accounted(a)' = Accounted(a)
    BY <1>1, RecordsFrame
  <1>3. Types' /\ Control'
    BY <1>1 DEF Types, Control
  <1>4. InHand'
    BY <1>1 DEF InHand, Actions, NoAction
  <1>5. LiveIsStored' /\ OneUnfinished' /\ Blocks' /\ Settled'
    BY <1>1, <1>2, StoreFrame DEF LiveIsStored, OneUnfinished, Blocks, Settled
  <1> QED BY <1>2, <1>3, <1>4, <1>5

\* An event that needs no action is applied to the saga.
LEMMA EventStep ==
  ASSUME IInv,
         \/ \E reason \in Reasons \ {""}, now \in Times : FailBeforeInput(reason, now)
         \/ \E now \in Times : ResolveRecovery(now)
         \/ \E sale \in Sales, now \in Times : ObserveSale(sale, now)
  PROVE  IInv'
  <1>1. ASSUME live # NoTrade PROVE live \in Deals /\ GoodSaga(live.saga)
    BY <1>1 DEF IInv, Types, SoundDeals
  <1>2. ASSUME NEW reason \in Reasons \ {""}, NEW now \in Times, FailBeforeInput(reason, now)
        PROVE  IInv'
    <2>1. pc = "run" /\ live # NoTrade /\ Return(StepEvent(EmptyOutcome, reason, now))
      BY <1>2 DEF FailBeforeInput, Driving
    <2>2. /\ StepEvent(EmptyOutcome, reason, now) \in Events
          /\ StepEvent(EmptyOutcome, reason, now).outcome = EmptyOutcome
      BY <1>1, <2>1, StepEventType, EmptyOutcomeType
    <2> QED BY <2>1, <2>2, ReturnStep
  <1>3. ASSUME NEW now \in Times, ResolveRecovery(now)
        PROVE  IInv'
    <2> DEFINE E(resolution) == Event("RECOVERY_RESOLVED", resolution, EmptyOutcome, "", resolution,
                                      NoSettlement, now)
    <2>1. PICK resolution \in {"RETRY", "HOLD"} :
             pc = "run" /\ live # NoTrade /\ Return(E(resolution))
      BY <1>3 DEF ResolveRecovery, Driving
    <2>2. E(resolution) \in Events /\ E(resolution).outcome = EmptyOutcome
      BY <1>1, <2>1, RecoveryEventType
    <2> HIDE DEF E
    <2> QED BY <2>1, <2>2, ReturnStep
  <1>4. ASSUME NEW sale \in Sales, NEW now \in Times, ObserveSale(sale, now)
        PROVE  IInv'
    <2> DEFINE a == [execution |-> live.saga.id, order |-> live.saga.order,
                     cost |-> live.saga.cost, revenue |-> sale.revenue, fees |-> sale.fees,
                     item |-> live.saga.plan.item, quantity |-> sale.quantity]
               E(settlement) ==
                   Event("SALE_SETTLED", "settled", EmptyOutcome, "", "", settlement, now)
    <2>1. pc = "run" /\ live # NoTrade /\ Return(E(a))
      BY <1>4 DEF ObserveSale, Driving
    <2>2. a \in Settlements
      BY <1>1, <2>1, SettlementType
    <2> HIDE DEF a
    <2>3. E(a) \in Events /\ E(a).outcome = EmptyOutcome
      BY <1>1, <2>1, <2>2, SaleEventType
    <2> HIDE DEF E
    <2> QED BY <2>1, <2>3, ReturnStep
  <1> QED BY <1>2, <1>3, <1>4

\* The engine blocks, pauses and saves the block; anybody else pauses.
LEMMA BlockStep ==
  ASSUME IInv, Block \/ PauseBlocked \/ SaveBlock \/ SaveSnapshot \/ Pause
  PROVE  IInv'
  <1> USE DEF IInv, auth, engine
  <1>1. UNCHANGED <<live, event, store, journal, sent, auth>>
    BY DEF Block, PauseBlocked, SaveBlock, SaveSnapshot, Pause
  <1>2. \/ /\ pc = "stop" /\ pc' = "pause" /\ blocked' = TRUE /\ current' = NoAction
           /\ UNCHANGED <<mode, stale, savedBlocked>>
        \/ /\ pc = "pause" /\ pc' = "persist" /\ mode' = "PAUSED" /\ stale' = TRUE
           /\ UNCHANGED <<blocked, savedBlocked, current>>
        \/ /\ pc = "persist" /\ pc' = "idle" /\ savedBlocked' \in {blocked, savedBlocked}
           /\ UNCHANGED <<mode, stale, blocked, current>>
        \/ /\ pc = "idle" /\ savedBlocked' = blocked
           /\ UNCHANGED <<pc, mode, stale, blocked, current>>
        \/ /\ mode' = "PAUSED" /\ stale' = TRUE
           /\ UNCHANGED <<pc, blocked, savedBlocked, current>>
    BY DEF Block, PauseBlocked, SaveBlock, SaveSnapshot, Pause, Goto
  <1>3. SoundDeals' /\ AllExplained' /\ SentOnce' /\ Directive' = Directive
        /\ \A a : Accounted(a)' = Accounted(a)
    BY <1>1, RecordsFrame
  <1>4. Types'
    <2>1. stale' \in BOOLEAN /\ blocked' \in BOOLEAN /\ savedBlocked' \in BOOLEAN
      BY <1>2, Zenon DEF Types
    <2>2. /\ mode' \in {"PAUSED", "TRADE"} /\ current' \in Actions \cup {NoAction}
          /\ pc' \in {"recover", "idle", "run", "send", "await", "apply", "save", "stop", "pause",
                      "persist"}
      BY <1>2 DEF Types
    <2> QED BY <1>1, <2>1, <2>2 DEF Types
  <1>5. Control' /\ InHand'
    <2>1. Control'
      BY <1>1, <1>2 DEF Control
    <2>2. InHand'
      BY <1>1, <1>2, <1>3, StoreFrame DEF InHand
    <2> QED BY <2>1, <2>2
  <1>6. LiveIsStored' /\ OneUnfinished'
    BY <1>1, <1>2, StoreFrame DEF LiveIsStored, OneUnfinished, Blocks
  <1>7. Blocks' /\ Settled'
    BY <1>1, <1>2, <1>3, StoreFrame DEF Blocks, Settled, Control
  <1> QED BY <1>3, <1>4, <1>5, <1>6, <1>7

-----------------------------------------------------------------------------
(* The operator's request for TRADE.                                       *)

\* Covered actions are actions, and they succeeded.
LEMMA CoveredFacts ==
  ASSUME IInv
  PROVE  /\ Covered \subseteq Actions
         /\ \A a \in Covered : journal[a] = "success"
         /\ CoverageValid
  <1> USE DEF IInv
  <1>1. ASSUME NEW x \in Saved PROVE store[x] \in Deals /\ store[x].covered \in SUBSET Actions
    BY <1>1 DEF Types, Saved, Deals
  <1>2. ASSUME NEW x \in Saved, NEW a \in store[x].covered
        PROVE  a \in Actions /\ journal[a] = "success"
               /\ \A pair \in sent : pair[1] = a => pair[2][1] = x
    <2>1. Explained(store[x]) /\ store[x].saga.id = x
      BY DEF AllExplained, SoundDeals
    <2> QED BY <1>1, <2>1 DEF Explained, ExplainedBy, SentOnce
  <1>3. \A x \in Saved : \A a \in store[x].covered : \E pair \in sent : pair[1] = a
    BY DEF AllExplained, Explained
  <1>4. CoverageValid
    BY <1>2, <1>3 DEF CoverageValid
  <1> QED BY <1>2, <1>4 DEF Covered, CoveredBy

\* Reading the coverage, and TRADE authorised from it.
LEMMA AuthorizationStep ==
  ASSUME IInv, Authorization
  PROVE  IInv'
  <1> USE DEF IInv, auth, engine
  <1>1. UNCHANGED <<live, pc, current, event, store, journal, sent, savedBlocked>>
    BY DEF Authorization, RequestTrade, CheckBlocked, ReadCoverage, AuditBoundary, EpochCheck,
           OpenTrade
  <1>2. SoundDeals' /\ AllExplained' /\ SentOnce' /\ Directive' = Directive
        /\ \A a : Accounted(a)' = Accounted(a)
    BY <1>1, RecordsFrame
  <1>3. \/ /\ authPc = "idle" /\ pc # "recover" /\ authPc' = "check" /\ mode' = "PAUSED"
           /\ stale' = FALSE /\ UNCHANGED <<blocked, authCovered>>
        \/ /\ authPc = "check" /\ authPc' = "idle" /\ UNCHANGED <<mode, stale, blocked, authCovered>>
        \/ /\ authPc = "check" /\ ~blocked /\ authPc' = "coverage"
           /\ UNCHANGED <<mode, stale, blocked, authCovered>>
        \/ /\ authPc = "coverage" /\ authPc' = "audit" /\ authCovered' = Covered
           /\ UNCHANGED <<mode, stale, blocked>>
        \/ /\ authPc = "audit" /\ AuditPasses(authCovered) /\ authPc' = "gate" /\ authCovered' = {}
           /\ UNCHANGED <<mode, stale, blocked>>
        \/ /\ authPc \in {"coverage", "audit"} /\ authPc' = "idle" /\ blocked' = TRUE
           /\ authCovered' \in {{}, authCovered} /\ UNCHANGED <<mode, stale>>
        \/ /\ authPc = "gate" /\ authPc' \in {"idle", "open"}
           /\ UNCHANGED <<mode, stale, blocked, authCovered>>
        \/ /\ authPc = "open" /\ authPc' = "idle" /\ mode' = "TRADE"
           /\ UNCHANGED <<stale, blocked, authCovered>>
    BY DEF Authorization, RequestTrade, CheckBlocked, ReadCoverage, AuditBoundary, EpochCheck,
           OpenTrade
  <1>4. Types' /\ Control'
    <2>1. stale' \in BOOLEAN /\ blocked' \in BOOLEAN
      BY <1>3, Zenon DEF Types
    <2>2. /\ mode' \in {"PAUSED", "TRADE"} /\ authCovered' \subseteq Actions
          /\ authPc' \in {"idle", "check", "coverage", "audit", "gate", "open"}
      BY <1>3, CoveredFacts DEF Types
    <2>3. Types'
      BY <1>1, <2>1, <2>2 DEF Types
    <2>4. Control'
      BY <1>1, <1>3 DEF Control
    <2> QED BY <2>3, <2>4
  <1>5. InHand' /\ OneUnfinished'
    BY <1>1, <1>2, StoreFrame DEF InHand, OneUnfinished
  <1>6. LiveIsStored'
    BY <1>1, <1>3, StoreFrame DEF LiveIsStored
  <1>7. Blocks'
    BY <1>1, <1>3, StoreFrame DEF Blocks
  <1>8. Settled'
    <2>1. AuditPasses(authCovered) /\ authCovered \subseteq Covered => \A a \in Actions : Accounted(a)
      BY DEF AuditPasses, Accounted
    <2> QED BY <1>1, <1>2, <1>3, <2>1, StoreFrame DEF Settled
  <1> QED BY <1>2, <1>4, <1>5, <1>6, <1>7, <1>8

-----------------------------------------------------------------------------
(* The monetary action.                                                    *)

\* An action is written to the journal.
LEMMA JournalStep ==
  ASSUME IInv, NEW a \in Actions, JournalAction(a)
  PROVE  IInv'
  <1> USE DEF IInv, auth
  <1>1. /\ UNCHANGED <<mode, stale, blocked, savedBlocked, live, event, store, sent, auth>>
        /\ mode = "TRADE" /\ pc = "run" /\ pc' = "send" /\ current' = a
        /\ live # NoTrade /\ live.saga.status = "RUNNING"
        /\ journal[a] = "none" /\ journal' = [journal EXCEPT ![a] = "requested"]
    BY DEF JournalAction, Driving, Goto
  <1>2. \A b \in Actions \ {a} : journal'[b] = journal[b]
    BY <1>1 DEF Types
  <1>3. journal'[a] = "requested"
    BY <1>1 DEF Types
  <1>4. Types' /\ Control'
    BY <1>1 DEF Types, Control
  <1>5. SoundDeals' /\ LiveIsStored' /\ OneUnfinished' /\ Blocks'
    BY <1>1, StoreFrame DEF SoundDeals, LiveIsStored, OneUnfinished, Blocks
  <1>6. \A pair \in sent : pair[1] \in Actions /\ pair[1] # a
    BY <1>1 DEF SentOnce, Types
  <1>7. SentOnce'
    BY <1>1, <1>2, <1>6 DEF SentOnce
  <1>8. AllExplained'
    <2>1. ASSUME NEW d \in Deals, Explained(d) PROVE Explained(d)'
      BY <1>1, <1>2, <2>1 DEF Explained, ExplainedBy, Deals
    <2> QED BY <1>1, <2>1, StoreFrame DEF AllExplained, Types, Saved
  <1>9. InHand'
    <2>1. a \notin Covered
      BY <1>1, CoveredFacts
    <2> QED BY <1>1, <1>3, <1>6, <2>1, StoreFrame DEF InHand
  <1>10. Settled'
    <2>1. authPc = "idle" /\ \A b \in Actions : Accounted(b)
      <3>1. authPc = "idle" /\ current = NoAction
        BY <1>1 DEF Blocks, Control
      <3> QED BY <1>1, <3>1 DEF Settled, Actions, NoAction
    <2>2. \A b \in Actions : Accounted(b)' \/ b = a
      BY <1>1, <1>2, <2>1, StoreFrame DEF Accounted
    <2> QED BY <1>1, <2>1, <2>2 DEF Settled
  <1> QED BY <1>4, <1>5, <1>7, <1>8, <1>9, <1>10

\* Everything that may have left before the action in hand is accounted for,
\* and its directive is new.
LEMMA SendFacts ==
  ASSUME IInv, Send
  PROVE  /\ live \in Deals /\ GoodSaga(live.saga) /\ live.saga.status = "RUNNING"
         /\ Directive \in Directives /\ current \in Actions /\ ~blocked
         /\ \A pair \in sent : pair[1] # current /\ pair[1] \in Covered /\ pair[2] # Directive
  <1> USE DEF IInv
  <1>1. pc = "send" /\ mode = "TRADE" /\ live # NoTrade /\ current \in Actions
    BY DEF Send, Control
  <1>2. live \in Deals /\ GoodSaga(live.saga) /\ live.saga.status = "RUNNING"
    BY <1>1 DEF Types, SoundDeals, InHand
  <1>3. Directive \in Directives
    BY <1>2, DealFacts DEF Directive
  <1>4. ~blocked
    BY <1>1 DEF Blocks
  <1>5. ASSUME NEW pair \in sent
        PROVE  pair[1] # current /\ pair[1] \in Covered
    <2>1. pair[1] # current
      BY <1>1 DEF InHand
    <2>2. pair[1] \in Actions /\ journal[pair[1]] \notin {"none", "unsent"}
      BY DEF SentOnce, Types
    <2>3. Accounted(pair[1])
      BY <1>1, <2>1, <2>2 DEF Settled
    <2> QED BY <2>1, <2>2, <2>3 DEF Accounted
  <1>6. ASSUME NEW pair \in sent, pair[2] = Directive
        PROVE  FALSE
    <2>1. PICK y \in Saved : pair[1] \in store[y].covered
      BY <1>5 DEF Covered, CoveredBy
    <2>2. store[y].saga.id = y /\ Explained(store[y])
      BY <2>1 DEF SoundDeals, AllExplained
    <2>3. ExplainedBy(store[y], pair)
      BY <2>1, <2>2 DEF Explained, SentOnce
    <2>4. y = live.saga.id /\ store[y] = live
      BY <1>1, <1>6, <2>2, <2>3 DEF ExplainedBy, Directive, LiveIsStored
    <2>5. Past(live.saga, live.saga.step, live.saga.attempt)
      BY <1>6, <2>3, <2>4 DEF ExplainedBy, Directive
    <2>6. live.saga.step \in Nat /\ live.saga.attempt \in Nat
      BY <1>2, DealFacts
    <2> QED BY <1>2, <2>5, <2>6 DEF Past
  <1> QED BY <1>1, <1>2, <1>3, <1>4, <1>5, <1>6

\* An action leaves.
LEMMA SendStep ==
  ASSUME IInv, Send
  PROVE  IInv'
  <1> USE DEF IInv, auth
  <1>1. /\ UNCHANGED <<mode, stale, blocked, savedBlocked, live, current, event, store, journal, auth>>
        /\ sent' = sent \cup {<<current, Directive>>} /\ pc = "send" /\ pc' \in {"await", "stop"}
    BY DEF Send, Goto
  <1>2. /\ live \in Deals /\ Directive \in Directives /\ current \in Actions
        /\ \A pair \in sent : pair[1] # current
    BY SendFacts
  <1>3. <<current, Directive>> \in Actions \X Directives
    BY <1>2
  <1>4. Types' /\ Control'
    BY <1>1, <1>3 DEF Types, Control
  <1>5. SoundDeals' /\ LiveIsStored' /\ OneUnfinished' /\ Blocks'
    BY <1>1, StoreFrame DEF SoundDeals, LiveIsStored, OneUnfinished, Blocks
  <1>6. SentOnce'
    BY <1>1, <1>2 DEF SentOnce, InHand
  <1>7. AllExplained'
    BY <1>1, StoreFrame DEF AllExplained, Explained, ExplainedBy
  <1>8. InHand'
    BY <1>1, StoreFrame DEF InHand, Directive
  <1>9. Settled'
    BY <1>1, StoreFrame DEF Settled, Accounted
  <1> QED BY <1>4, <1>5, <1>6, <1>7, <1>8, <1>9

\* Whoever writes the journal about an action that was only requested.
LEMMA NotSentStep ==
  ASSUME IInv, NotSent
  PROVE  IInv'
  <1> USE DEF IInv, auth
  <1>1. /\ UNCHANGED <<blocked, savedBlocked, live, current, event, store, sent, auth>>
        /\ pc = "send" /\ pc' = "stop" /\ current \in Actions
        /\ \/ journal' = [journal EXCEPT ![current] = "unsent"] /\ UNCHANGED <<mode, stale>>
           \/ mode' = "PAUSED" /\ stale' = TRUE /\ UNCHANGED journal
    BY DEF NotSent, Goto, Control
  <1>2. /\ \A b \in Actions \ {current} : journal'[b] = journal[b]
        /\ journal'[current] \in {journal[current], "unsent"}
    BY <1>1 DEF Types
  <1>3. journal[current] = "requested" /\ \A pair \in sent : pair[1] # current
    BY <1>1 DEF InHand
  <1>4. Types' /\ Control'
    BY <1>1 DEF Types, Control
  <1>5. SoundDeals' /\ LiveIsStored' /\ OneUnfinished' /\ Blocks' /\ InHand'
    BY <1>1, StoreFrame DEF SoundDeals, LiveIsStored, OneUnfinished, Blocks, InHand
  <1>6. SentOnce'
    BY <1>1, <1>2, <1>3 DEF SentOnce, Types
  <1>7. AllExplained'
    <2>1. ASSUME NEW d \in Deals, Explained(d) PROVE Explained(d)'
      BY <1>1, <1>2, <1>3, <2>1 DEF Explained, ExplainedBy, Deals
    <2> QED BY <1>1, <2>1, StoreFrame DEF AllExplained, Types, Saved
  <1>8. Settled'
    BY <1>1, <1>2, StoreFrame DEF Settled, Accounted
  <1> QED BY <1>4, <1>5, <1>6, <1>7, <1>8

\* The answer to an action arrives.
LEMMA AnswerStep ==
  ASSUME IInv, NEW a \in Actions, NEW result \in {"success", "failure"}, Answer(a, result)
  PROVE  IInv'
  <1> USE DEF IInv, auth, engine
  <1>1. /\ UNCHANGED <<mode, stale, blocked, savedBlocked, live, pc, current, event, store, sent, auth>>
        /\ journal[a] = "requested" /\ journal' = [journal EXCEPT ![a] = result]
        /\ \E pair \in sent : pair[1] = a
    BY DEF Answer
  <1>2. /\ \A b \in Actions \ {a} : journal'[b] = journal[b]
        /\ journal'[a] = result
    BY <1>1 DEF Types
  <1>3. Types' /\ Control'
    BY <1>1 DEF Types, Control
  <1>4. SoundDeals' /\ LiveIsStored' /\ OneUnfinished' /\ Blocks'
    BY <1>1, StoreFrame DEF SoundDeals, LiveIsStored, OneUnfinished, Blocks
  <1>5. SentOnce'
    BY <1>1, <1>2 DEF SentOnce, Types
  <1>6. AllExplained'
    <2>1. ASSUME NEW d \in Deals, Explained(d) PROVE Explained(d)'
      BY <1>1, <1>2, <2>1 DEF Explained, ExplainedBy, Deals
    <2> QED BY <1>1, <2>1, StoreFrame DEF AllExplained, Types, Saved
  <1>7. InHand'
    BY <1>1, <1>2, StoreFrame DEF InHand, Directive
  <1>8. Settled'
    BY <1>1, <1>2, StoreFrame DEF Settled, Accounted
  <1> QED BY <1>3, <1>4, <1>5, <1>6, <1>7, <1>8

\* The runner confirms an outcome.
LEMMA ConfirmStep ==
  ASSUME IInv, pc = "await", NEW o \in Confirmed, NEW now \in Times, ConfirmAction(o, now)
  PROVE  IInv'
  <1> USE DEF IInv, auth
  <1> DEFINE b == [o EXCEPT !.action = current]
             reason == IF o.completed = Remaining(live.saga) THEN "" ELSE "OTHER"
  <1>1. /\ UNCHANGED <<mode, stale, blocked, savedBlocked, live, current, store, journal, sent, auth>>
        /\ pc' = "apply" /\ event' = StepEvent(b, reason, now) /\ journal[current] = "success"
    BY DEF ConfirmAction, Goto
  <1>2. /\ live # NoTrade /\ live \in Deals /\ GoodSaga(live.saga) /\ live.saga.status = "RUNNING"
        /\ current \in Actions
    BY DEF Control, Types, SoundDeals, InHand
  <1>3. b \in Outcomes /\ b.action = current
    BY <1>2, ConfirmedType
  <1>4. reason \in Reasons
    BY DEF Reasons
  <1> HIDE DEF b, reason
  <1>5. event' \in Events /\ event'.outcome.action = current
    BY <1>1, <1>2, <1>3, <1>4, StepEventType
  <1>6. SoundDeals' /\ AllExplained' /\ SentOnce' /\ Directive' = Directive
        /\ \A a : Accounted(a)' = Accounted(a)
    BY <1>1, RecordsFrame
  <1>7. Types' /\ Control'
    BY <1>1, <1>5 DEF Types, Control
  <1>8. InHand' /\ LiveIsStored' /\ OneUnfinished'
    BY <1>1, <1>6, StoreFrame DEF InHand, LiveIsStored, OneUnfinished
  <1>9. Blocks' /\ Settled'
    BY <1>1, <1>6, StoreFrame DEF Blocks, Settled
  <1> QED BY <1>6, <1>7, <1>8, <1>9

-----------------------------------------------------------------------------
(* The trade: a new one, an event applied, a checkpoint.                   *)

\* A trade begins.
LEMMA BeginStep ==
  ASSUME IInv, NEW x \in Executions, NEW p \in Plans, NEW now \in Times, BeginTrade(x, p, now)
  PROVE  IInv'
  <1> USE DEF IInv, auth
  <1> DEFINE s == InitialSaga(x, p, now)
  <1>1. /\ UNCHANGED <<mode, stale, blocked, savedBlocked, current, event, store, journal, sent, auth>>
        /\ pc = "run" /\ pc' = "save" /\ live = NoTrade /\ store[x] = NoTrade
        /\ live' = [saga |-> s, covered |-> {}]
    BY DEF BeginTrade, Goto
  <1>2. s \in Sagas(Plans) /\ SagaInv(s)
    BY PlansAssumption, TimesAssumption, InitialSagaFacts
  <1>3. s.id = x /\ s.step = 1 /\ s.attempt = 0 /\ s.plan = p
    BY DEF InitialSaga
  <1> HIDE DEF s
  <1>4. GoodSaga(s)
    BY <1>2, <1>3, PlanLength, AttemptsAssumption DEF GoodSaga
  <1>5. live' \in Deals /\ live' # NoTrade /\ live'.saga = s /\ live'.covered = {}
    BY <1>1, <1>2, NothingAssumption DEF Deals
  <1>6. Types' /\ Control' /\ InHand'
    BY <1>1, <1>5 DEF Types, Control, InHand
  <1>7. SoundDeals' /\ SentOnce'
    BY <1>1, <1>4, <1>5, StoreFrame DEF SoundDeals, SentOnce
  <1>8. AllExplained'
    BY <1>1, <1>5, StoreFrame DEF AllExplained, Explained, ExplainedBy
  <1>9. LiveIsStored'
    BY <1>1, <1>3, <1>5 DEF LiveIsStored
  <1>10. OneUnfinished'
    BY <1>1, <1>5, StoreFrame DEF OneUnfinished
  <1>11. Blocks' /\ Settled'
    BY <1>1, StoreFrame DEF Blocks, Settled, Accounted
  <1> QED BY <1>6, <1>7, <1>8, <1>9, <1>10, <1>11

\* A refused event stops the engine; an accepted one may cover the action in
\* hand, and leaves its directive behind.
LEMMA ApplyStep ==
  ASSUME IInv, ApplyEvent
  PROVE  IInv'
  <1> USE DEF IInv, auth
  <1> DEFINE s == live.saga
             t == After(s, event)
             action == event.outcome.action
             covered == live.covered \cup ({action} \ {NoAction})
  <1>1. /\ UNCHANGED <<mode, stale, blocked, savedBlocked, store, journal, sent, auth>>
        /\ pc = "apply" /\ event' = NoEvent /\ current' = NoAction
        /\ live # NoTrade /\ event \in Events /\ action = current
    BY DEF ApplyEvent, Control
  <1>2. live \in Deals /\ GoodSaga(s) /\ store[s.id] = live /\ current \in Actions \cup {NoAction}
    BY <1>1 DEF Types, SoundDeals, LiveIsStored
  <1>3. s \in Sagas(Plans) /\ s.id \in Executions /\ live.covered \in SUBSET Actions
        /\ s.step \in Nat /\ s.attempt \in Nat
    BY <1>2, DealFacts
  <1>4. live.covered \subseteq Covered
    BY <1>1, <1>2, <1>3 DEF Covered, CoveredBy, Saved
  <1>5. CASE ~Accepted(s, event, MaxStepAttempts)
    <2>1. UNCHANGED live /\ pc' = "stop"
      BY <1>5 DEF ApplyEvent, Goto
    <2>2. SoundDeals' /\ AllExplained' /\ SentOnce' /\ Directive' = Directive
          /\ \A a : Accounted(a)' = Accounted(a)
      BY <1>1, <2>1, RecordsFrame
    <2>3. Types' /\ Control' /\ InHand'
      BY <1>1, <2>1 DEF Types, Control, InHand
    <2>4. LiveIsStored' /\ OneUnfinished' /\ Blocks' /\ Settled'
      BY <1>1, <2>1, <2>2, StoreFrame DEF LiveIsStored, OneUnfinished, Blocks, Settled
    <2> QED BY <2>2, <2>3, <2>4
  <1>6. CASE Accepted(s, event, MaxStepAttempts)
    <2>1. live' = [saga |-> t, covered |-> covered] /\ pc' = "save"
      BY <1>6 DEF ApplyEvent, Goto
    <2>2. /\ t \in Sagas(Plans) /\ GoodSaga(t) /\ t.id = s.id
          /\ \A i, j \in Nat : Past(s, i, j) => Past(t, i, j)
          /\ s.status = "RUNNING" => Past(t, s.step, s.attempt)
      BY <1>1, <1>2, <1>3, <1>6, PastFacts
    <2> HIDE DEF t
    <2>3. covered \in SUBSET Actions /\ covered \subseteq live.covered \cup {current}
          /\ live.covered \subseteq covered /\ (current \in Actions => current \in covered)
      BY <1>1, <1>2, <1>3 DEF Actions, NoAction
    <2> HIDE DEF covered
    <2>4. live' \in Deals /\ live' # NoTrade /\ live'.saga = t /\ live'.covered = covered
      BY <2>1, <2>2, <2>3, NothingAssumption DEF Deals
    <2>5. Types' /\ Control' /\ InHand'
      BY <1>1, <2>1, <2>4 DEF Types, Control, InHand
    <2>6. SoundDeals' /\ SentOnce'
      BY <1>1, <2>2, <2>4, StoreFrame DEF SoundDeals, SentOnce
    <2>7. AllExplained'
      <3>1. ASSUME NEW a \in live.covered
            PROVE  journal[a] = "success"
                   /\ \E pair \in sent : pair[1] = a /\ pair[2][1] = t.id /\ Past(t, pair[2][2], pair[2][3])
        <4>1. PICK pair \in sent : pair[1] = a /\ ExplainedBy(live, pair)
          BY <1>1 DEF AllExplained, Explained
        <4>2. pair[2] \in Directives
          BY DEF Types
        <4>3. pair[2][2] \in Nat /\ pair[2][3] \in Nat
          BY <4>2, DirectiveFacts
        <4> QED BY <1>1, <2>2, <4>1, <4>3 DEF ExplainedBy, AllExplained, Explained
      <3>2. ASSUME current \in Actions
            PROVE  journal[current] = "success"
                   /\ \E pair \in sent :
                         pair[1] = current /\ pair[2][1] = t.id /\ Past(t, pair[2][2], pair[2][3])
        <4>1. <<current, Directive>> \in sent /\ s.status = "RUNNING" /\ journal[current] = "success"
          BY <1>1, <3>2 DEF InHand
        <4> QED BY <2>2, <4>1 DEF Directive
      <3>3. Explained(live)'
        BY <1>1, <2>3, <2>4, <3>1, <3>2, <1>3 DEF Explained, ExplainedBy
      <3> QED BY <1>1, <3>3, StoreFrame DEF AllExplained, Explained, ExplainedBy
    <2>8. LiveIsStored'
      BY <1>1, <1>2, <1>4, <2>1, <2>2, <2>3, <2>4, StoreFrame DEF LiveIsStored
    <2>9. OneUnfinished' /\ Blocks'
      BY <1>1, <2>1, <2>2, <2>4, StoreFrame DEF OneUnfinished, Blocks
    <2>10. Settled'
      BY <1>1, <2>1, <2>3, <2>4, StoreFrame DEF Settled, Accounted
    <2> QED BY <2>5, <2>6, <2>7, <2>8, <2>9, <2>10
  <1> QED BY <1>5, <1>6

\* What a saved checkpoint changes: it covers what the trade covers, and one
\* more action at most.
LEMMA SaveFacts ==
  ASSUME IInv, pc = "save", store' = [store EXCEPT ![live.saga.id] = live]
  PROVE  /\ live \in Deals /\ live # NoTrade /\ live.saga.id \in Executions
         /\ store'[live.saga.id] = live
         /\ \A x \in Executions \ {live.saga.id} : store'[x] = store[x]
         /\ Saved' = Saved \cup {live.saga.id}
         /\ Covered' = Covered \cup live.covered
         /\ \A a, b \in Covered' \ Covered : a = b
  <1> USE DEF IInv
  <1> DEFINE x == live.saga.id
  <1>1. live # NoTrade /\ live \in Deals /\ GoodSaga(live.saga)
    BY DEF Control, Types, SoundDeals
  <1>2. x \in Executions
    BY <1>1, DealFacts
  <1>3. store'[x] = live /\ \A y \in Executions \ {x} : store'[y] = store[y]
    BY <1>2 DEF Types
  <1>4. Saved' = Saved \cup {x}
    BY <1>1, <1>2, <1>3 DEF Saved
  <1>5. Covered' = Covered \cup live.covered
    <2>1. ASSUME NEW a \in Covered' PROVE a \in Covered \cup live.covered
      BY <1>3, <1>4, <2>1 DEF Covered, CoveredBy, Saved
    <2>2. ASSUME NEW a \in live.covered PROVE a \in Covered'
      BY <1>3, <1>4 DEF Covered, CoveredBy
    <2>3. ASSUME NEW a \in Covered PROVE a \in Covered'
      <3>1. PICK y \in Saved : a \in store[y].covered
        BY DEF Covered, CoveredBy
      <3>2. y = x => a \in live.covered
        BY <1>1, <3>1 DEF LiveIsStored, Saved
      <3>3. y # x => a \in store'[y].covered /\ y \in Saved'
        BY <1>3, <1>4, <3>1 DEF Saved
      <3> QED BY <2>2, <3>2, <3>3 DEF Covered, CoveredBy
    <2> QED BY <2>1, <2>2, <2>3
  <1>6. \A a, b \in live.covered \ Covered : a = b
    BY <1>1 DEF LiveIsStored
  <1> QED BY <1>1, <1>2, <1>3, <1>4, <1>5, <1>6

\* A checkpoint is saved.
LEMMA SaveStep ==
  ASSUME IInv, SaveSaga
  PROVE  IInv'
  <1> USE DEF IInv, auth
  <1> DEFINE x == live.saga.id
             finished == IsTerminal(live.saga)
  <1>1. /\ UNCHANGED <<mode, stale, blocked, savedBlocked, current, event, journal, sent, auth>>
        /\ pc = "save" /\ live # NoTrade /\ current = NoAction
    BY DEF SaveSaga, Control
  <1>2. CASE UNCHANGED <<store, live>> /\ pc' = "stop"
    <2>1. SoundDeals' /\ AllExplained' /\ SentOnce' /\ Directive' = Directive
          /\ \A a : Accounted(a)' = Accounted(a)
      BY <1>1, <1>2, RecordsFrame
    <2>2. Types' /\ Control' /\ InHand'
      BY <1>1, <1>2 DEF Types, Control, InHand
    <2>3. LiveIsStored' /\ OneUnfinished' /\ Blocks' /\ Settled'
      BY <1>1, <1>2, <2>1, StoreFrame DEF LiveIsStored, OneUnfinished, Blocks, Settled
    <2> QED BY <2>1, <2>2, <2>3
  <1>3. CASE /\ store' = [store EXCEPT ![x] = live]
             /\ live' = IF finished THEN NoTrade ELSE live
             /\ pc' = IF live.saga.status = "COMPLETED_MISMATCH" THEN "stop" ELSE "idle"
    <2>1. /\ live \in Deals /\ x \in Executions /\ store'[x] = live
          /\ \A y \in Executions \ {x} : store'[y] = store[y]
          /\ Saved' = Saved \cup {x} /\ Covered' = Covered \cup live.covered
      BY <1>1, <1>3, SaveFacts
    <2>2. live' \in {live, NoTrade} /\ pc' \in {"stop", "idle"}
      BY <1>3
    <2>3. Types'
      BY <1>1, <1>3, <2>1, <2>2 DEF Types
    <2>4. Control' /\ InHand'
      BY <1>1, <2>2 DEF Control, InHand
    <2>5. SoundDeals' /\ SentOnce'
      <3>1. GoodSaga(live.saga)
        BY <1>1 DEF SoundDeals
      <3>2. ASSUME NEW y \in Saved' PROVE store'[y].saga.id = y /\ GoodSaga(store'[y].saga)
        BY <2>1, <3>1 DEF SoundDeals, Saved
      <3>3. SoundDeals'
        BY <2>2, <3>1, <3>2 DEF SoundDeals
      <3> QED BY <1>1, <3>3 DEF SentOnce
    <2>6. AllExplained'
      <3>1. ASSUME NEW d, Explained(d) PROVE Explained(d)'
        BY <1>1, <3>1 DEF Explained, ExplainedBy
      <3>2. ASSUME NEW y \in Saved' PROVE Explained(store'[y])
        BY <1>1, <2>1 DEF AllExplained, Saved
      <3>3. live' # NoTrade => Explained(live')
        BY <1>1, <2>2 DEF AllExplained
      <3> QED BY <1>1, <3>2, <3>3 DEF AllExplained, Explained, ExplainedBy
    <2>7. LiveIsStored'
      BY <1>1, <2>1, <2>2 DEF LiveIsStored
    <2>8. Unfinished' \subseteq {x} /\ (finished => Unfinished' = {})
      <3>1. ASSUME NEW y \in Unfinished' PROVE y = x /\ ~finished
        <4>1. y \in Saved' /\ ~IsTerminal(store'[y].saga)
          BY DEF Unfinished
        <4>2. y # x => y \in Unfinished
          BY <2>1, <4>1 DEF Unfinished, Saved
        <4>3. y = x
          BY <1>1, <4>2 DEF OneUnfinished
        <4> QED BY <2>1, <4>1, <4>3
      <3> QED BY <3>1
    <2>9. OneUnfinished'
      <3> HIDE DEF finished
      <3> QED BY <1>1, <1>3, <2>8 DEF OneUnfinished
    <2>10. Blocks'
      <3>1. ASSUME Mismatched' # {} PROVE Mismatched # {} \/ pc' = "stop"
        BY <1>3, <2>1, <3>1 DEF Mismatched, Saved
      <3> QED BY <1>1, <2>2, <3>1 DEF Blocks
    <2>11. Settled'
      BY <1>1, <2>1, <2>2 DEF Settled, Accounted
    <2> QED BY <2>3, <2>4, <2>5, <2>6, <2>7, <2>9, <2>10, <2>11
  <1> QED BY <1>2, <1>3 DEF SaveSaga, Goto

-----------------------------------------------------------------------------
(* Crashes.                                                                *)

\* The process dies.
LEMMA CrashStep ==
  ASSUME IInv, Crash
  PROVE  IInv'
  <1> USE DEF IInv
  <1>1. /\ UNCHANGED <<savedBlocked, store, journal, sent>>
        /\ mode' = "PAUSED" /\ stale' = FALSE /\ blocked' = FALSE /\ live' = NoTrade
        /\ current' = NoAction /\ event' = NoEvent /\ pc' = "recover"
        /\ authPc' = "idle" /\ authCovered' = {}
    BY DEF Crash, Goto
  <1>2. Types' /\ Control' /\ InHand'
    BY <1>1 DEF Types, Control, InHand
  <1>3. SoundDeals' /\ SentOnce' /\ LiveIsStored' /\ OneUnfinished'
    BY <1>1, StoreFrame DEF SoundDeals, SentOnce, LiveIsStored, OneUnfinished
  <1>4. AllExplained'
    BY <1>1, StoreFrame DEF AllExplained, Explained, ExplainedBy
  <1>5. Blocks' /\ Settled'
    BY <1>1 DEF Blocks, Settled
  <1> QED BY <1>2, <1>3, <1>4, <1>5

\* The process starts again.
LEMMA RecoverStep ==
  ASSUME IInv, Recover
  PROVE  IInv'
  <1> USE DEF IInv, auth
  <1>1. /\ UNCHANGED <<mode, stale, current, event, store, journal, sent, auth>>
        /\ pc = "recover" /\ pc' = "idle" /\ live = NoTrade /\ mode = "PAUSED" /\ authPc = "idle"
    BY DEF Recover, Goto, Control
  <1>2. /\ blocked' \in BOOLEAN /\ savedBlocked' = blocked'
        /\ (savedBlocked => blocked') /\ (Mismatched # {} => blocked')
    BY Zenon DEF Recover
  <1>3. CASE Unfinished = {}
    <2>1. live' = NoTrade
      BY <1>3 DEF Recover
    <2>2. Types' /\ Control' /\ InHand'
      BY <1>1, <1>2, <2>1 DEF Types, Control, InHand
    <2>3. SoundDeals' /\ SentOnce' /\ LiveIsStored' /\ OneUnfinished'
      BY <1>1, <1>3, <2>1, StoreFrame DEF SoundDeals, SentOnce, LiveIsStored, OneUnfinished
    <2>4. AllExplained'
      BY <1>1, <2>1, StoreFrame DEF AllExplained, Explained, ExplainedBy
    <2>5. Blocks' /\ Settled'
      BY <1>1, <1>2, StoreFrame DEF Blocks, Settled
    <2> QED BY <2>2, <2>3, <2>4, <2>5
  <1>4. CASE Unfinished # {}
    <2>1. PICK x \in Unfinished : live' = store[x]
      BY <1>4, CoveredFacts DEF Recover
    <2>2. x \in Saved /\ store[x] \in Deals /\ store[x] # NoTrade /\ store[x].saga.id = x
      BY DEF Unfinished, Saved, Types, SoundDeals
    <2>3. Types' /\ Control' /\ InHand'
      BY <1>1, <1>2, <2>1, <2>2 DEF Types, Control, InHand
    <2>4. SoundDeals' /\ SentOnce' /\ LiveIsStored'
      BY <1>1, <2>1, <2>2, StoreFrame DEF SoundDeals, SentOnce, LiveIsStored
    <2>5. AllExplained'
      BY <1>1, <2>1, <2>2, StoreFrame DEF AllExplained, Explained, ExplainedBy
    <2>6. OneUnfinished'
      BY <1>1, <2>1, <2>2, StoreFrame DEF OneUnfinished
    <2>7. Blocks' /\ Settled'
      BY <1>1, <1>2, StoreFrame DEF Blocks, Settled
    <2> QED BY <2>3, <2>4, <2>5, <2>6, <2>7
  <1> QED BY <1>3, <1>4

-----------------------------------------------------------------------------
(* Invariance.                                                             *)

\* Nothing happens.
LEMMA StutterStep ==
  ASSUME IInv, UNCHANGED vars
  PROVE  IInv'
  <1> USE DEF IInv, vars, engine, auth
  <1>1. SoundDeals' /\ AllExplained' /\ SentOnce' /\ Directive' = Directive
        /\ \A a : Accounted(a)' = Accounted(a)
    BY RecordsFrame
  <1>2. Types' /\ Control' /\ InHand' /\ LiveIsStored'
    BY <1>1, StoreFrame DEF Types, Control, InHand, LiveIsStored
  <1>3. OneUnfinished' /\ Blocks' /\ Settled'
    BY <1>1, StoreFrame DEF OneUnfinished, Blocks, Settled
  <1> QED BY <1>1, <1>2, <1>3

\* Every step keeps the invariant.
LEMMA InductiveStep == IInv /\ [Next]_vars => IInv'
  <1> SUFFICES ASSUME IInv, [Next]_vars PROVE IInv'
    OBVIOUS
  <1>1. CASE Tick
    <2>1. CASE StartTick \/ EndTick \/ RunnerFails \/ ActionUnclear
      BY <2>1, MoveOn
    <2>2. CASE \E x \in Executions, p \in Plans, now \in Times : BeginTrade(x, p, now)
      BY <2>2, BeginStep
    <2>3. CASE \/ \E reason \in Reasons \ {""}, now \in Times : FailBeforeInput(reason, now)
               \/ \E now \in Times : ResolveRecovery(now)
               \/ \E sale \in Sales, now \in Times : ObserveSale(sale, now)
      BY <2>3, EventStep
    <2>4. CASE \E a \in Actions : JournalAction(a)
      BY <2>4, JournalStep
    <2>5. CASE Send
      BY <2>5, SendStep
    <2>6. CASE NotSent
      BY <2>6, NotSentStep
    <2>7. CASE pc = "await" /\ \E o \in Confirmed, now \in Times : ConfirmAction(o, now)
      BY <2>7, ConfirmStep
    <2>8. CASE ApplyEvent
      BY <2>8, ApplyStep
    <2>9. CASE SaveSaga
      BY <2>9, SaveStep
    <2>10. CASE Block \/ PauseBlocked \/ SaveBlock \/ SaveSnapshot
      BY <2>10, BlockStep
    <2> QED BY <1>1, <2>1, <2>2, <2>3, <2>4, <2>5, <2>6, <2>7, <2>8, <2>9, <2>10 DEF Tick
  <1>2. CASE \E a \in Actions, result \in {"success", "failure"} : Answer(a, result)
    BY <1>2, AnswerStep
  <1>3. CASE Authorization
    BY <1>3, AuthorizationStep
  <1>4. CASE Pause
    BY <1>4, BlockStep
  <1>5. CASE Crash
    BY <1>5, CrashStep
  <1>6. CASE Recover
    BY <1>6, RecoverStep
  <1>7. CASE UNCHANGED vars
    BY <1>7, StutterStep
  <1> QED BY <1>1, <1>2, <1>3, <1>4, <1>5, <1>6, <1>7 DEF Next

\* The inductive invariant holds in every reachable state of the engine.
THEOREM Invariance == Spec => []IInv
  <1>1. Init => IInv
    BY InitFacts
  <1>2. IInv /\ [Next]_vars => IInv'
    BY InductiveStep
  <1> QED BY <1>1, <1>2, PTL DEF Spec

\* Every variable of the engine, the journal and the controller holds a value
\* of its type.
THEOREM TypeCorrectness == Spec => []TypeOK
  <1>1. IInv => TypeOK
    <2> SUFFICES ASSUME IInv PROVE TypeOK
      OBVIOUS
    <2> USE DEF IInv
    <2>1. live # NoTrade => live.saga.status \in Statuses /\ live.covered \subseteq Actions
      BY DEF Types, Deals, Sagas
    <2>2. /\ pc \in {"send", "await"} => live # NoTrade /\ current # NoAction
          /\ pc = "apply" => live # NoTrade /\ event # NoEvent
      BY NothingAssumption DEF Control, Actions, NoAction
    <2>3. \A x \in Saved : store[x].saga.id = x /\ store[x].covered \subseteq Actions
      BY DEF Types, Deals, SoundDeals, Saved
    <2>4. {stale, blocked, savedBlocked} \subseteq BOOLEAN
      BY Zenon DEF Types
    <2> QED BY <2>1, <2>2, <2>3, <2>4 DEF TypeOK, Types
  <1> QED BY <1>1, Invariance, PTL

-----------------------------------------------------------------------------
(* The properties.                                                         *)

\* At most one checkpoint is unfinished, so the recovery after a crash never
\* has to choose which trade to go on with (Engine.recover).
THEOREM OneUnfinishedTheorem == Spec => []OneUnfinishedCheckpoint
  <1>1. IInv => OneUnfinishedCheckpoint
    <2> SUFFICES ASSUME IInv PROVE Cardinality(Unfinished) <= 1
      BY DEF OneUnfinishedCheckpoint
    <2>1. CASE Unfinished = {}
      BY <2>1, FS_EmptySet
    <2>2. CASE Unfinished # {}
      <3>1. PICK x : Unfinished = {x}
        BY <2>2 DEF IInv, OneUnfinished
      <3>2. Cardinality({x}) = 1
        BY FS_Singleton, Zenon
      <3> QED BY <3>1, <3>2
    <2> QED BY <2>1, <2>2
  <1> QED BY <1>1, Invariance, PTL

\* A saved block survives every save of the engine snapshot, every crash and
\* every recovery (Engine.stopForReconciliation, Engine.recover).
THEOREM BlockTheorem == Spec => BlockIsForever
  <1>1. IInv /\ [Next]_vars => [savedBlocked => savedBlocked']_vars
    <2> SUFFICES ASSUME IInv, Next, savedBlocked PROVE savedBlocked'
      OBVIOUS
    <2>1. pc # "recover" => blocked
      BY DEF IInv, Blocks
    <2>2. CASE UNCHANGED savedBlocked
      BY <2>2
    <2>3. CASE SaveBlock \/ SaveSnapshot
      BY <2>1, <2>3 DEF SaveBlock, SaveSnapshot
    <2>4. CASE Recover
      BY <2>4 DEF Recover
    <2>5. UNCHANGED savedBlocked \/ SaveBlock \/ SaveSnapshot \/ Recover
      BY DEF Next, Tick, Authorization, StartTick, EndTick, BeginTrade, FailBeforeInput, Return,
             JournalAction, ResolveRecovery, ObserveSale, RunnerFails, Send, NotSent, ConfirmAction,
             ActionUnclear, ApplyEvent, SaveSaga, Block, PauseBlocked, Answer, RequestTrade,
             CheckBlocked, ReadCoverage, AuditBoundary, EpochCheck, OpenTrade, Pause, Crash
    <2> QED BY <2>2, <2>3, <2>4, <2>5
  <1> QED BY <1>1, Invariance, PTL DEF Spec, BlockIsForever

\* Only the sender adds to the actions that may have left.
LEMMA OnlySendSends == Next => Send \/ UNCHANGED sent
  BY DEF Next, Tick, Authorization, StartTick, EndTick, BeginTrade, FailBeforeInput, Return,
         JournalAction, ResolveRecovery, ObserveSale, RunnerFails, NotSent, ConfirmAction,
         ActionUnclear, ApplyEvent, SaveSaga, Block, PauseBlocked, SaveBlock, SaveSnapshot, Answer,
         RequestTrade, CheckBlocked, ReadCoverage, AuditBoundary, EpochCheck, OpenTrade, Pause,
         Crash, Recover

\* Nothing leaves while the engine is blocked, also when the block is raised by
\* an audit that runs beside a tick (Engine.AuthorizeMode, Server.sendRequest).
THEOREM BlockedTheorem == Spec => BlockedSendsNothing
  <1>1. IInv /\ [Next]_vars => [sent' # sent => ~blocked]_vars
    BY OnlySendSends, SendFacts
  <1> QED BY <1>1, Invariance, PTL DEF Spec, BlockedSendsNothing

\* Once a trade is saved as not reconciled, no monetary action leaves any more,
\* in this process or after a restart (Engine.recover, Engine.driveSaga).
THEOREM MismatchTheorem == Spec => NothingAfterMismatch
  <1>1. IInv /\ [Next]_vars => [Mismatched # {} => sent' = sent]_vars
    <2> SUFFICES ASSUME IInv, Next, Mismatched # {} PROVE sent' = sent
      OBVIOUS
    <2>1. blocked \/ pc \in {"stop", "recover"}
      BY DEF IInv, Blocks
    <2>2. ~Send
      BY <2>1, SendFacts DEF Send
    <2> QED BY <2>2, OnlySendSends
  <1> QED BY <1>1, Invariance, PTL DEF Spec, NothingAfterMismatch

-----------------------------------------------------------------------------
(* The engine implements the ledger.                                       *)

\* No other step changes the checkpoints.
LEMMA OnlySaveStores == Next => SaveSaga \/ UNCHANGED store
  BY DEF Next, Tick, Authorization, StartTick, EndTick, BeginTrade, FailBeforeInput, Return,
         JournalAction, ResolveRecovery, ObserveSale, RunnerFails, Send, NotSent, ConfirmAction,
         ActionUnclear, ApplyEvent, Block, PauseBlocked, SaveBlock, SaveSnapshot, Answer,
         RequestTrade, CheckBlocked, ReadCoverage, AuditBoundary, EpochCheck, OpenTrade, Pause,
         Crash, Recover

\* Sending is issuing.
LEMMA SendIssues ==
  ASSUME IInv, Send
  PROVE  Ledger!Issue(current, Directive) /\ current \in Actions /\ Directive \in Directives
  <1>1. UNCHANGED store /\ sent' = sent \cup {<<current, Directive>>}
    BY DEF Send
  <1> QED BY <1>1, SendFacts, StoreFrame DEF Ledger!Issue, Ledger!IssuedActions

\* Saving is accounting.
LEMMA SaveAccounts ==
  ASSUME IInv, SaveSaga
  PROVE  UNCHANGED <<sent, Covered>> \/ \E a \in Actions : Ledger!Account(a)
  <1>1. pc = "save" /\ UNCHANGED sent
    BY DEF SaveSaga
  <1>2. CASE UNCHANGED store
    BY <1>1, <1>2, StoreFrame
  <1>3. CASE store' = [store EXCEPT ![live.saga.id] = live]
    <2>1. /\ live \in Deals /\ live # NoTrade /\ Covered' = Covered \cup live.covered
          /\ \A a, b \in Covered' \ Covered : a = b
      BY <1>1, <1>3, SaveFacts
    <2>2. CASE Covered' = Covered
      BY <1>1, <2>2
    <2>3. CASE Covered' # Covered
      <3>1. PICK a \in live.covered : Covered' = Covered \cup {a}
        BY <2>1, <2>3
      <3>2. a \in Ledger!IssuedActions
        BY <2>1 DEF IInv, AllExplained, Explained, Ledger!IssuedActions
      <3>3. a \in Actions
        BY <2>1 DEF Deals
      <3> QED BY <1>1, <3>1, <3>2, <3>3 DEF Ledger!Account
    <2> QED BY <2>2, <2>3
  <1> QED BY <1>2, <1>3 DEF SaveSaga

\* Trading never outruns its records: whatever crashes, fails to save or stays
\* unanswered, the engine around the saga, the journal and the controller
\* implement MonetaryLedger.  An action is issued once for a directive, and only
\* when a saved checkpoint explains every action that may have left before.
THEOREM Refinement == Spec => OnceAndAccounted
  <1>1. Init => Ledger!Init
    <2>1. Init => Saved = {}
      BY DEF Init, Saved
    <2> QED BY <2>1 DEF Init, Ledger!Init, Covered, CoveredBy
  <1>2. IInv /\ [Next]_vars => [Ledger!Next]_Ledger!vars
    <2> SUFFICES ASSUME IInv, [Next]_vars PROVE Ledger!Next \/ UNCHANGED <<sent, Covered>>
      BY DEF Ledger!vars
    <2>1. CASE Next
      <3>1. CASE Send
        <4>1. Ledger!Issue(current, Directive) /\ current \in Actions /\ Directive \in Directives
          BY <3>1, SendIssues
        <4> QED BY <4>1 DEF Ledger!Next
      <3>2. CASE SaveSaga
        BY <3>2, SaveAccounts DEF Ledger!Next
      <3>3. CASE UNCHANGED <<sent, store>>
        BY <3>3, StoreFrame
      <3> QED BY <2>1, <3>1, <3>2, <3>3, OnlySendSends, OnlySaveStores
    <2>2. CASE UNCHANGED vars
      BY <2>2, StoreFrame DEF vars
    <2> QED BY <2>1, <2>2
  <1> QED BY <1>1, <1>2, Invariance, PTL DEF Spec, OnceAndAccounted, Ledger!Spec
=============================================================================

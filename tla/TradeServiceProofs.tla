-------------------------- MODULE TradeServiceProofs --------------------------
(***************************************************************************)
(* Invariants of TradeService, for every set of executions, items, orders  *)
(* and canonical plans, whatever the observer reports, and any number of   *)
(* actions and restarts.  Module SagaFacts says what one accepted event    *)
(* does to one saga; here the service interleaves sagas, saves, restarts   *)
(* and restores.                                                           *)
(***************************************************************************)
EXTENDS TradeService, SagaFacts, SequenceTheorems, FiniteSetTheorems

Saved(x) == store[x] # NoCheckpoint

\* A saga is filed under its own identifier, in memory and on disk.
Filed ==
    \A x \in Executions :
        /\ Loaded(x) => sagas[x].id = x
        /\ Saved(x) => store[x].saga.id = x

\* Memory and disk only ever hold sound sagas.
SoundSagas ==
    \A x \in Executions :
        /\ Loaded(x) => SagaInv(sagas[x])
        /\ Saved(x) => SagaInv(store[x].saga)

\* A checkpoint of a live saga carries an inventory that holds its items:
\* restoring it cannot strand the saga.
SavedHoldings ==
    \A x \in Executions : Saved(x) /\ ~IsTerminal(store[x].saga) =>
        \A i \in Items : store[x].saga.holdings[i] <= store[x].inventory[i]

\* A finished saga on disk is the one in memory, if it is loaded at all.
SavedIsFinal ==
    \A x \in Executions : Saved(x) /\ IsTerminal(store[x].saga) /\ Loaded(x) =>
        sagas[x] = store[x].saga

IInv ==
    /\ TypeOK
    /\ Filed
    /\ SoundSagas
    /\ OneActiveSaga
    /\ HoldingsInInventory
    /\ SavedHoldings
    /\ SavedIsFinal

-----------------------------------------------------------------------------
(* What the steps of the service have in common.                           *)

\* A loaded saga is a saga of a canonical plan.
LEMMA LoadedFacts ==
  ASSUME TypeOK, NEW x \in Executions, Loaded(x)
  PROVE  sagas[x] \in Sagas(Plans) /\ CanonicalPlan(sagas[x].plan)
  <1>1. sagas[x] \in Sagas(Plans)
    BY DEF TypeOK, Loaded, SagaType
  <1>2. sagas[x].plan \in Plans
    BY <1>1 DEF Sagas
  <1> QED BY <1>1, <1>2, PlansAssumption

\* A checkpoint on disk has the types of one.
LEMMA SavedFacts ==
  ASSUME TypeOK, NEW x \in Executions, Saved(x)
  PROVE  /\ store[x].saga \in Sagas(Plans) /\ store[x].processed \in Seq(RecordType)
         /\ store[x].inventory \in [Items -> Nat]
  BY DEF TypeOK, Saved, CheckpointType, SagaType

\* The invariant holds before anything is begun.
LEMMA InitFacts == ASSUME Init PROVE IInv
  <1>1. \A x \in Executions : ~Loaded(x) /\ ~Saved(x)
    BY DEF Init, Loaded, Saved
  <1>2. TypeOK
    BY DEF Init, TypeOK, NoItems
  <1> QED BY <1>1, <1>2, NothingAssumption
          DEF IInv, Filed, SoundSagas, OneActiveSaga, HoldingsInInventory, SavedHoldings,
              SavedIsFinal, Init

\* Begin needs an idle service and starts with nothing held.
LEMMA BeginFacts ==
  ASSUME IInv, NEW x \in Executions, NEW p \in Plans, NEW now \in Nat, Begin(x, p, now)
  PROVE  IInv'
  <1> DEFINE new == InitialSaga(x, p, now)
  <1> USE DEF IInv
  <1>1. new \in Sagas(Plans) /\ SagaInv(new) /\ ~IsTerminal(new) /\ new.holdings = NoItems
    BY InitialSagaFacts, PlansAssumption
  <1>2. new.id = x
    BY DEF InitialSaga
  <1>3. new # NoSaga
    BY <1>1, NothingAssumption
  <1> HIDE DEF new
  <1>4. /\ sagas' = [sagas EXCEPT ![x] = new] /\ activeID = NoExecution /\ activeID' = x
        /\ processed' = processed /\ inventory' = inventory /\ store' = store
        /\ actions' = actions /\ restarts' = restarts /\ ~Saved(x)
    BY DEF Begin, new, Saved
  <1>5. sagas \in [Executions -> Sagas(Plans) \cup {NoSaga}]
    BY DEF TypeOK, SagaType
  <1>6. sagas'[x] = new /\ \A y \in Executions : y # x => sagas'[y] = sagas[y]
    BY <1>4, <1>5
  <1>7. TypeOK'
    BY <1>1, <1>4, <1>5 DEF TypeOK, SagaType
  <1>8. Filed' /\ SoundSagas'
    BY <1>1, <1>2, <1>4, <1>6 DEF Filed, SoundSagas, Loaded, Saved
  <1>9. OneActiveSaga'
    BY <1>1, <1>3, <1>4, <1>6, NothingAssumption DEF OneActiveSaga, Loaded
  <1>10. HoldingsInInventory'
    <2>1. \A i \in Items : new.holdings[i] = 0 /\ inventory[i] \in Nat
      BY <1>1 DEF NoItems, TypeOK
    <2> QED BY <1>4, <1>6, <2>1 DEF HoldingsInInventory
  <1>11. SavedHoldings' /\ SavedIsFinal'
    BY <1>4, <1>6 DEF SavedHoldings, SavedIsFinal, Saved, Loaded
  <1> QED BY <1>7, <1>8, <1>9, <1>10, <1>11

\* The inventory is replaced only while no saga is live.
LEMMA SynchronizeFacts ==
  ASSUME IInv, NEW snapshot \in [Items -> Nat], SynchronizeInventory(snapshot)
  PROVE  IInv'
  <1> USE DEF IInv, SynchronizeInventory
  <1>1. TypeOK'
    BY DEF TypeOK
  <1>2. Filed' /\ SoundSagas' /\ SavedHoldings' /\ SavedIsFinal'
    BY DEF Filed, SoundSagas, SavedHoldings, SavedIsFinal, Loaded, Saved
  <1>3. OneActiveSaga' /\ HoldingsInInventory'
    BY DEF OneActiveSaga, HoldingsInInventory, Loaded
  <1> QED BY <1>1, <1>2, <1>3

\* An applied event moves the holdings of its saga and the inventory by the
\* same amounts, and releases the service when it finishes the saga.
LEMMA ApplyNewFacts ==
  ASSUME IInv, NEW e \in Events, ApplyNew(e)
  PROVE  IInv'
  <1> DEFINE x == e.execution
             s == sagas[x]
             next == After(s, e)
             record == [event |-> e, snapshot |-> next]
  <1> USE DEF IInv
  <1>1. x \in Executions /\ e.outcome \in Outcomes /\ Loaded(x)
    BY DEF Events, ApplyNew
  <1>2. s \in Sagas(Plans) /\ CanonicalPlan(s.plan)
    BY <1>1, LoadedFacts
  <1>3. /\ Accepted(s, e, MaxStepAttempts) /\ ~IsTerminal(s)
        /\ SagaInv(s) /\ s.id = x
    BY <1>1, AcceptedIsLive DEF ApplyNew, SoundSagas, Filed
  <1>4. /\ next \in Sagas(Plans) /\ SagaInv(next) /\ next.id = x
        /\ next.holdings = HoldingsAfter(s, e.outcome)
    BY <1>2, <1>3, AfterFacts, AttemptsAssumption, SettlementsAssumption
  <1>5. activeID = x
    BY <1>1, <1>3 DEF OneActiveSaga
  <1>6. next # NoSaga
    BY <1>4, NothingAssumption
  <1>7. /\ sagas' = [sagas EXCEPT ![x] = next]
        /\ processed' = [processed EXCEPT ![x] = Append(processed[x], record)]
        /\ activeID' = (IF IsTerminal(next) THEN NoExecution ELSE x)
        /\ inventory' = InventoryAfter(e.outcome) /\ InventoryAccepts(e.outcome)
        /\ actions' = (IF e.outcome.action > actions THEN e.outcome.action ELSE actions)
        /\ store' = store /\ restarts' = restarts
    BY <1>5 DEF ApplyNew
  <1> HIDE DEF next
  <1>8. sagas \in [Executions -> Sagas(Plans) \cup {NoSaga}]
    BY DEF TypeOK, SagaType
  <1>9. sagas'[x] = next /\ \A y \in Executions : y # x => sagas'[y] = sagas[y]
    BY <1>1, <1>7, <1>8
  <1>10. /\ inventory \in [Items -> Nat] /\ e.outcome.deltas \in [Items -> Int]
         /\ s.holdings \in [Items -> Nat] /\ e.outcome.action \in Nat
    BY <1>1, <1>2 DEF TypeOK, Outcomes, Sagas
  <1>11. inventory' \in [Items -> Nat]
    <2>1. inventory' = [i \in Items |-> inventory[i] + e.outcome.deltas[i]]
      BY <1>7 DEF InventoryAfter
    <2>2. \A i \in Items : inventory'[i] >= 0
      BY <1>7 DEF InventoryAccepts
    <2> QED BY <1>10, <2>1, <2>2
  <1>12. TypeOK'
    <2>1. sagas' \in [Executions -> SagaType \cup {NoSaga}]
      BY <1>4, <1>7, <1>8 DEF SagaType
    <2>2. processed' \in [Executions -> Seq(RecordType)]
      <3>1. record \in RecordType
        BY <1>4 DEF RecordType, SagaType
      <3>2. processed \in [Executions -> Seq(RecordType)]
        BY DEF TypeOK
      <3> HIDE DEF record
      <3>3. Append(processed[x], record) \in Seq(RecordType)
        BY <1>1, <3>1, <3>2
      <3> QED BY <1>7, <3>2, <3>3
    <2>3. activeID' \in Executions \cup {NoExecution} /\ actions' \in Nat
      BY <1>1, <1>7, <1>10 DEF TypeOK
    <2> QED BY <1>7, <1>11, <2>1, <2>2, <2>3 DEF TypeOK
  <1>13. Filed' /\ SoundSagas'
    BY <1>4, <1>7, <1>9 DEF Filed, SoundSagas, Loaded, Saved
  <1>14. OneActiveSaga'
    BY <1>1, <1>5, <1>6, <1>7, <1>9, NothingAssumption DEF OneActiveSaga, Loaded
  <1>15. HoldingsInInventory'
    <2>1. CASE IsTerminal(next)
      BY <1>7, <2>1 DEF HoldingsInInventory
    <2>2. CASE ~IsTerminal(next)
      <3>1. \A i \in Items : s.holdings[i] <= inventory[i]
        BY <1>1, <1>5, NothingAssumption DEF HoldingsInInventory
      <3>2. \A i \in Items : next.holdings[i] <= inventory'[i]
        BY <1>4, <1>7, <1>10, <3>1 DEF HoldingsAfter, InventoryAfter
      <3> QED BY <1>7, <1>9, <2>2, <3>2 DEF HoldingsInInventory
    <2> QED BY <2>1, <2>2
  <1>16. SavedHoldings'
    BY <1>7 DEF SavedHoldings, Saved
  <1>17. SavedIsFinal'
    BY <1>1, <1>3, <1>7, <1>9 DEF SavedIsFinal, Saved, Loaded
  <1> QED BY <1>12, <1>13, <1>14, <1>15, <1>16, <1>17

\* A checkpoint copies the saga and the inventory at one moment.
LEMMA SaveFacts ==
  ASSUME IInv, NEW x \in Executions, Save(x)
  PROVE  IInv'
  <1> DEFINE c == Checkpoint(x)
  <1> USE DEF IInv
  <1>1. /\ c.saga = sagas[x] /\ c.processed = processed[x] /\ c.inventory = inventory
        /\ Loaded(x)
    BY DEF Checkpoint, Save
  <1>2. sagas[x] \in Sagas(Plans)
    BY <1>1, LoadedFacts
  <1>3. c \in CheckpointType
    BY <1>2 DEF Checkpoint, CheckpointType, TypeOK, SagaType
  <1> HIDE DEF c
  <1>4. /\ store' = [store EXCEPT ![x] = c]
        /\ sagas' = sagas /\ processed' = processed /\ activeID' = activeID
        /\ inventory' = inventory /\ actions' = actions /\ restarts' = restarts
    BY DEF Save, c
  <1>5. store \in [Executions -> CheckpointType \cup {NoCheckpoint}]
    BY DEF TypeOK
  <1>6. store'[x] = c /\ \A y \in Executions : y # x => store'[y] = store[y]
    BY <1>4, <1>5
  <1>7. TypeOK'
    BY <1>3, <1>4, <1>5 DEF TypeOK
  <1>8. Filed' /\ SoundSagas' /\ SavedIsFinal'
    BY <1>1, <1>4, <1>6 DEF Filed, SoundSagas, SavedIsFinal, Loaded, Saved
  <1>9. OneActiveSaga' /\ HoldingsInInventory'
    BY <1>4 DEF OneActiveSaga, HoldingsInInventory, Loaded
  <1>10. SavedHoldings'
    <2>1. ASSUME NEW y \in Executions, Saved(y)', ~IsTerminal(store'[y].saga), NEW i \in Items
          PROVE  store'[y].saga.holdings[i] <= store'[y].inventory[i]
      <3>1. CASE y = x
        <4>1. activeID = x
          BY <1>1, <1>6, <2>1, <3>1 DEF OneActiveSaga
        <4> QED BY <1>1, <1>6, <3>1, <4>1, NothingAssumption DEF HoldingsInInventory
      <3>2. CASE y # x
        BY <1>6, <2>1, <3>2 DEF SavedHoldings, Saved
      <3> QED BY <3>1, <3>2
    <2> QED BY <2>1 DEF SavedHoldings
  <1> QED BY <1>7, <1>8, <1>9, <1>10

\* A restart loses the memory of the service and nothing else.
LEMMA RestartFacts ==
  ASSUME IInv, Restart
  PROVE  IInv'
  <1> USE DEF IInv
  <1>1. \A x \in Executions : ~Loaded(x)'
    BY DEF Restart, Loaded
  <1>2. activeID' = NoExecution /\ store' = store
    BY DEF Restart
  <1>3. TypeOK'
    BY DEF Restart, TypeOK, NoItems
  <1>4. Filed' /\ SoundSagas' /\ SavedIsFinal' /\ SavedHoldings'
    BY <1>1, <1>2 DEF Filed, SoundSagas, SavedIsFinal, SavedHoldings, Saved
  <1>5. OneActiveSaga' /\ HoldingsInInventory'
    BY <1>1, <1>2 DEF OneActiveSaga, HoldingsInInventory
  <1> QED BY <1>3, <1>4, <1>5

\* The engine restores a live saga into an idle service.
LEMMA RestoreFacts ==
  ASSUME IInv, NEW x \in Executions, RestoreLive(x)
  PROVE  IInv'
  <1> DEFINE c == store[x]
  <1> USE DEF IInv
  <1>1. Saved(x) /\ ~IsTerminal(c.saga) /\ activeID = NoExecution /\ ~Loaded(x)
    BY DEF RestoreLive, Restore, Saved
  <1>2. /\ c.saga \in Sagas(Plans) /\ c.processed \in Seq(RecordType)
        /\ c.inventory \in [Items -> Nat]
    BY <1>1, SavedFacts
  <1>3. c.saga # NoSaga
    BY <1>2, NothingAssumption
  <1>4. /\ sagas' = [sagas EXCEPT ![x] = c.saga]
        /\ processed' = [processed EXCEPT ![x] = c.processed]
        /\ inventory' = c.inventory /\ activeID' = x /\ store' = store
        /\ actions' = actions /\ restarts' = restarts
    BY <1>1 DEF RestoreLive, Restore
  <1>5. sagas \in [Executions -> Sagas(Plans) \cup {NoSaga}]
    BY DEF TypeOK, SagaType
  <1>6. sagas'[x] = c.saga /\ \A y \in Executions : y # x => sagas'[y] = sagas[y]
    BY <1>4, <1>5
  <1>7. TypeOK'
    BY <1>2, <1>4 DEF TypeOK, SagaType
  <1>8. Filed' /\ SoundSagas' /\ SavedIsFinal' /\ SavedHoldings'
    BY <1>1, <1>4, <1>6
       DEF Filed, SoundSagas, SavedIsFinal, SavedHoldings, Loaded, Saved
  <1>9. OneActiveSaga'
    BY <1>1, <1>3, <1>4, <1>6, NothingAssumption DEF OneActiveSaga, Loaded
  <1>10. HoldingsInInventory'
    BY <1>1, <1>4, <1>6 DEF HoldingsInInventory, SavedHoldings
  <1> QED BY <1>7, <1>8, <1>9, <1>10

-----------------------------------------------------------------------------
(* Every event the service is given is well typed.                         *)

\* An event is typed when its fields are.
LEMMA EventType ==
  ASSUME NEW key \in EventIDs, NEW x \in Executions, NEW kind \in Kinds, NEW step \in Nat,
         NEW o \in Outcomes, NEW reason \in Reasons, NEW resolution \in Resolutions,
         NEW a \in Settlements \cup {NoSettlement}, NEW now \in Nat
  PROVE  [id |-> key, execution |-> x, step |-> step, kind |-> kind,
          outcome |-> o, reason |-> reason, resolution |-> resolution,
          settlement |-> a, at |-> now] \in Events
  BY DEF Events

\* The names an event is built from.
LEMMA EventNames ==
  /\ "STEP_SUCCEEDED" \in Kinds /\ "STEP_FAILED" \in Kinds
  /\ "RECOVERY_RESOLVED" \in Kinds /\ "SALE_SETTLED" \in Kinds
  /\ "" \in Reasons /\ "" \in Resolutions
  /\ "success" \in Facts /\ "failed" \in Facts /\ "settled" \in Facts
  /\ \A resolution \in Resolutions : resolution # "" => resolution \in Facts
  BY DEF Kinds, Reasons, Resolutions, Facts

\* The identity of an event comes from its saga.
LEMMA KeyFacts ==
  ASSUME TypeOK, NEW x \in Executions, Loaded(x)
  PROVE  /\ sagas[x].id \in Executions /\ sagas[x].step \in Nat
         /\ \A suffix \in Facts : Key(sagas[x], suffix) \in EventIDs
  <1>1. sagas[x].id \in Executions /\ sagas[x].step \in Nat /\ sagas[x].attempt \in Nat
    BY LoadedFacts DEF Sagas
  <1> QED BY <1>1 DEF Key, EventIDs

\* Whatever action the observer's outcome is bound to, it is an outcome.
LEMMA OutcomeTypes ==
  /\ EmptyOutcome \in Outcomes
  /\ TypeOK => \A o \in Outcomes, a \in ActionIDs : [o EXCEPT !.action = a] \in Outcomes
  <1>1. NoItems \in [Items -> Int]
    BY DEF NoItems
  <1>2. EmptyOutcome \in Outcomes
    BY <1>1 DEF Outcomes, EmptyOutcome, NoAction
  <1>3. ASSUME TypeOK, NEW o \in Outcomes, NEW a \in ActionIDs
        PROVE  [o EXCEPT !.action = a] \in Outcomes
    <2>1. a = 0 \/ a = actions \/ a = actions + 1
      BY Zenon DEF ActionIDs, NoAction
    <2>2. a \in Nat
      BY <1>3, <2>1 DEF TypeOK
    <2> QED BY <2>2 DEF Outcomes
  <1> QED BY <1>2, <1>3

\* What the runner reports of a step is an event.
LEMMA StepEventType ==
  ASSUME TypeOK, NEW x \in Executions, Loaded(x),
         NEW o \in Outcomes, NEW reason \in Reasons, NEW now \in Nat
  PROVE  StepEvent(sagas[x], o, reason, now) \in Events
  <1> DEFINE s == sagas[x]
             suffix == IF reason = "" THEN "success" ELSE "failed"
             kind == IF reason = "" THEN "STEP_SUCCEEDED" ELSE "STEP_FAILED"
             key == Key(s, suffix)
  <1>1. suffix \in Facts /\ kind \in Kinds /\ "" \in Resolutions
    BY EventNames
  <1>2. key \in EventIDs /\ s.id \in Executions /\ s.step \in Nat
    BY <1>1, KeyFacts
  <1>3. StepEvent(s, o, reason, now)
          = [id |-> key, execution |-> s.id, step |-> s.step, kind |-> kind,
             outcome |-> o, reason |-> reason, resolution |-> "",
             settlement |-> NoSettlement, at |-> now]
    BY DEF StepEvent
  <1> HIDE DEF s, suffix, kind, key
  <1>4. StepEvent(s, o, reason, now) \in Events
    BY <1>1, <1>2, <1>3, EventType
  <1> QED BY <1>4 DEF s

\* What it reports of a recovery is an event.
LEMMA RecoveryEventType ==
  ASSUME TypeOK, NEW x \in Executions, Loaded(x),
         NEW o \in Outcomes, NEW resolution \in Resolutions, resolution # "", NEW now \in Nat
  PROVE  RecoveryEvent(sagas[x], o, resolution, now) \in Events
  <1> DEFINE s == sagas[x]
             key == Key(s, resolution)
  <1>1. resolution \in Facts /\ "RECOVERY_RESOLVED" \in Kinds /\ "" \in Reasons
    BY EventNames
  <1>2. key \in EventIDs /\ s.id \in Executions /\ s.step \in Nat
    BY <1>1, KeyFacts
  <1>3. RecoveryEvent(s, o, resolution, now)
          = [id |-> key, execution |-> s.id, step |-> s.step, kind |-> "RECOVERY_RESOLVED",
             outcome |-> o, reason |-> "", resolution |-> resolution,
             settlement |-> NoSettlement, at |-> now]
    BY DEF RecoveryEvent
  <1> HIDE DEF s, key
  <1>4. RecoveryEvent(s, o, resolution, now) \in Events
    BY <1>1, <1>2, <1>3, EventType
  <1> QED BY <1>4 DEF s

\* What it reports of a sale is an event.
LEMMA SettlementEventType ==
  ASSUME TypeOK, NEW x \in Executions, Loaded(x), NEW a \in Settlements, NEW now \in Nat
  PROVE  SettlementEvent(sagas[x], a, now) \in Events
  <1> DEFINE s == sagas[x]
             key == Key(s, "settled")
  <1>1. /\ "settled" \in Facts /\ "SALE_SETTLED" \in Kinds
        /\ "" \in Reasons /\ "" \in Resolutions
    BY EventNames
  <1>2. key \in EventIDs /\ s.id \in Executions /\ s.step \in Nat
    BY <1>1, KeyFacts
  <1>3. SettlementEvent(s, a, now)
          = [id |-> key, execution |-> s.id, step |-> s.step, kind |-> "SALE_SETTLED",
             outcome |-> EmptyOutcome, reason |-> "", resolution |-> "",
             settlement |-> a, at |-> now]
    BY DEF SettlementEvent
  <1> HIDE DEF s, key
  <1>4. SettlementEvent(s, a, now) \in Events
    BY <1>1, <1>2, <1>3, OutcomeTypes, EventType
  <1> QED BY <1>4 DEF s

\* Every fact of one execution, delivered first or again, is an Apply.
LEMMA DeliveryFacts ==
  ASSUME TypeOK, NEW x \in Executions,
         \/ ApplyStep(x) \/ ApplyRetryOrHold(x) \/ ApplyCompensated(x)
         \/ ApplySettlement(x) \/ Redeliver(x)
  PROVE  \E e \in Events : Apply(e)
  <1>1. ASSUME NEW now \in Times PROVE now \in Nat
    BY TimesAssumption
  <1>2. ASSUME NEW o \in ObservedOutcomes, NEW a \in ActionIDs
        PROVE  [o EXCEPT !.action = a] \in Outcomes
    BY OutcomesAssumption, OutcomeTypes
  <1>3. CASE ApplyStep(x)
    <2>1. Loaded(x)
      BY <1>3 DEF ApplyStep
    <2>2. PICK o \in ObservedOutcomes, a \in ActionIDs, reason \in Reasons, now \in Times :
              Apply(StepEvent(sagas[x], [o EXCEPT !.action = a], reason, now))
      BY <1>3 DEF ApplyStep
    <2>3. StepEvent(sagas[x], [o EXCEPT !.action = a], reason, now) \in Events
      BY <1>1, <1>2, <2>1, StepEventType
    <2> QED BY <2>2, <2>3
  <1>4. CASE ApplyRetryOrHold(x)
    <2>1. Loaded(x)
      BY <1>4 DEF ApplyRetryOrHold
    <2>2. PICK resolution \in {"RETRY", "HOLD"}, now \in Times :
              Apply(RecoveryEvent(sagas[x], EmptyOutcome, resolution, now))
      BY <1>4 DEF ApplyRetryOrHold
    <2>3. resolution \in Resolutions /\ resolution # ""
      BY <2>2 DEF Resolutions
    <2>4. RecoveryEvent(sagas[x], EmptyOutcome, resolution, now) \in Events
      BY <1>1, <2>1, <2>3, OutcomeTypes, RecoveryEventType
    <2> QED BY <2>2, <2>4
  <1>5. CASE ApplyCompensated(x)
    <2>1. Loaded(x)
      BY <1>5 DEF ApplyCompensated
    <2>2. PICK o \in ObservedOutcomes, a \in ActionIDs, now \in Times :
              Apply(RecoveryEvent(sagas[x], [o EXCEPT !.action = a], "COMPENSATED", now))
      BY <1>5 DEF ApplyCompensated
    <2>3. "COMPENSATED" \in Resolutions
      BY DEF Resolutions
    <2>4. RecoveryEvent(sagas[x], [o EXCEPT !.action = a], "COMPENSATED", now) \in Events
      BY <1>1, <1>2, <2>1, <2>3, RecoveryEventType
    <2> QED BY <2>2, <2>4
  <1>6. CASE ApplySettlement(x)
    <2>1. Loaded(x)
      BY <1>6 DEF ApplySettlement
    <2>2. PICK a \in ObservedSettlements, now \in Times :
              Apply(SettlementEvent(sagas[x], a, now))
      BY <1>6 DEF ApplySettlement
    <2>3. SettlementEvent(sagas[x], a, now) \in Events
      BY <1>1, <2>1, SettlementsAssumption, SettlementEventType
    <2> QED BY <2>2, <2>3
  <1>7. CASE Redeliver(x)
    <2>1. PICK k \in DOMAIN processed[x] : Apply(processed[x][k].event)
      BY <1>7 DEF Redeliver
    <2>2. processed[x] \in Seq(RecordType)
      BY DEF TypeOK
    <2>3. processed[x][k] \in RecordType
      BY <2>1, <2>2
    <2>4. processed[x][k].event \in Events
      BY <2>3 DEF RecordType
    <2> QED BY <2>1, <2>4
  <1> QED BY <1>3, <1>4, <1>5, <1>6, <1>7

\* The steps of the service, seen from outside.
LEMMA NextCases ==
  ASSUME TypeOK, [Next]_vars
  PROVE  \/ \E x \in Executions, p \in Plans, now \in Nat : Begin(x, p, now)
         \/ \E e \in Events : ApplyNew(e)
         \/ \E x \in Executions : Save(x)
         \/ \E x \in Executions : RestoreLive(x)
         \/ \E snapshot \in [Items -> Nat] : SynchronizeInventory(snapshot)
         \/ Restart
         \/ UNCHANGED vars
  <1>1. ASSUME NEW x \in Executions, ServiceStep(x)
        PROVE  \/ \E p \in Plans, now \in Nat : Begin(x, p, now)
               \/ \E e \in Events : ApplyNew(e)
               \/ Save(x)
               \/ UNCHANGED vars
    <2>1. CASE \E p \in Plans, now \in Times : Begin(x, p, now)
      BY <2>1, TimesAssumption
    <2>2. CASE \/ ApplyStep(x) \/ ApplyRetryOrHold(x) \/ ApplyCompensated(x)
               \/ ApplySettlement(x) \/ Redeliver(x)
      BY <2>2, DeliveryFacts DEF Apply, AnswerDuplicate
    <2> QED BY <1>1, <2>1, <2>2 DEF ServiceStep
  <1> QED BY <1>1, InventoriesAssumption DEF Next

\* The invariant is inductive.
LEMMA StepFacts == ASSUME IInv, [Next]_vars PROVE IInv'
  <1>1. CASE UNCHANGED vars
    BY <1>1 DEF vars, IInv, TypeOK, Filed, SoundSagas, OneActiveSaga,
                HoldingsInInventory, SavedHoldings, SavedIsFinal, Loaded, Saved
  <1>2. TypeOK
    BY DEF IInv
  <1> QED BY <1>1, <1>2, NextCases, BeginFacts, ApplyNewFacts, SaveFacts, RestoreFacts,
             SynchronizeFacts, RestartFacts

-----------------------------------------------------------------------------
(* The theorems.                                                           *)

\* The inductive invariant of the service, from which the rest follows.
THEOREM Invariance == Spec => []IInv
  <1>1. Init => IInv
    BY InitFacts
  <1>2. IInv /\ [Next]_vars => IInv'
    BY StepFacts
  <1> QED BY <1>1, <1>2, PTL DEF Spec

\* Service keeps its types: sagas, replies, checkpoints and inventory.
THEOREM TypeCorrectness == Spec => []TypeOK
  <1>1. IInv => TypeOK
    BY DEF IInv
  <1> QED BY <1>1, Invariance, PTL

\* Begin, Apply, restarts and restores leave at most one live saga, and
\* activeID names it.
THEOREM OneActiveSagaTheorem == Spec => []OneActiveSaga
  <1>1. IInv => OneActiveSaga
    BY DEF IInv
  <1> QED BY <1>1, Invariance, PTL

\* What the active saga holds is in the account inventory, whatever is
\* redelivered, synchronized, saved, lost and restored.
THEOREM HoldingsTheorem == Spec => []HoldingsInInventory
  <1>1. IInv => HoldingsInInventory
    BY DEF IInv
  <1> QED BY <1>1, Invariance, PTL

\* Verified purchases, partial and retried ones included, never add up to more
\* than the budget Begin reserved.
THEOREM BudgetTheorem == Spec => []BudgetCoversCost
  <1>1. ASSUME IInv, NEW x \in Executions, Loaded(x)
        PROVE  /\ sagas[x].cost <= InputCost(sagas[x].plan)
               /\ sagas[x].budget = IF IsTerminal(sagas[x]) THEN 0
                                    ELSE InputCost(sagas[x].plan)
    <2>1. SagaInv(sagas[x]) /\ TypeOK
      BY <1>1 DEF IInv, SoundSagas
    <2>2. sagas[x] \in Sagas(Plans) /\ CanonicalPlan(sagas[x].plan)
      BY <1>1, <2>1, LoadedFacts
    <2> QED BY <2>1, <2>2, WithinPlan DEF SagaInv, BudgetHeld
  <1>2. IInv => BudgetCoversCost
    BY <1>1 DEF BudgetCoversCost
  <1> QED BY <1>2, Invariance, PTL

\* A trade that ends FAILED has spent nothing and left nothing behind.
THEOREM FailedTheorem == Spec => []FailedSpentNothing
  <1>1. IInv => FailedSpentNothing
    BY DEF IInv, SoundSagas, SagaInv, Sound, FailedIsClean, Unlisted, FailedSpentNothing
  <1> QED BY <1>1, Invariance, PTL

\* A trade closed by a sale or a compensation holds nothing, and COMPLETED
\* means that the plan's money was met to the unit.
THEOREM ClosedTheorem == Spec => []ClosedTradeIsWhole
  <1>1. IInv => ClosedTradeIsWhole
    BY DEF IInv, SoundSagas, SagaInv, Sound, ClosedIsWhole, ClosedTradeIsWhole
  <1> QED BY <1>1, Invariance, PTL

\* A finished trade stays as it ended, in memory and on disk.
THEOREM TerminalTheorem == Spec => TerminalIsFinal
  <1>1. ASSUME IInv, [Next]_vars, NEW x \in Executions
        PROVE  /\ Loaded(x) /\ IsTerminal(sagas[x]) => sagas'[x] \in {sagas[x], NoSaga}
               /\ store[x] # NoCheckpoint /\ IsTerminal(store[x].saga) =>
                     store'[x].saga = store[x].saga
    <2> USE <1>1 DEF IInv
    <2>1. CASE \E y \in Executions, p \in Plans, now \in Nat : Begin(y, p, now)
      BY <2>1 DEF Begin, TypeOK, Loaded
    <2>2. CASE \E e \in Events : ApplyNew(e)
      <3>1. PICK e \in Events : ApplyNew(e)
        BY <2>2
      <3>2. /\ e.execution \in Executions /\ ~IsTerminal(sagas[e.execution])
            /\ sagas' = [sagas EXCEPT ![e.execution] = After(sagas[e.execution], e)]
            /\ store' = store
        BY <3>1, AcceptedIsLive DEF ApplyNew, Events
      <3> QED BY <3>2 DEF TypeOK
    <2>3. CASE \E y \in Executions : Save(y)
      <3>1. PICK y \in Executions : Save(y)
        BY <2>3
      <3>2. /\ Loaded(y) /\ sagas' = sagas
            /\ store' = [store EXCEPT ![y] = Checkpoint(y)]
        BY <3>1 DEF Save
      <3>3. Checkpoint(y).saga = sagas[y]
        BY DEF Checkpoint
      <3> QED BY <3>2, <3>3 DEF TypeOK, SavedIsFinal, Saved
    <2>4. CASE \E y \in Executions : RestoreLive(y)
      BY <2>4 DEF RestoreLive, Restore, TypeOK, Loaded
    <2>5. CASE \E snapshot \in [Items -> Nat] : SynchronizeInventory(snapshot)
      BY <2>5 DEF SynchronizeInventory
    <2>6. CASE Restart
      BY <2>6 DEF Restart
    <2>7. CASE UNCHANGED vars
      BY <2>7 DEF vars
    <2> QED BY <2>1, <2>2, <2>3, <2>4, <2>5, <2>6, <2>7, NextCases
  <1>2. IInv /\ [Next]_vars =>
          [\A x \in Executions :
              /\ Loaded(x) /\ IsTerminal(sagas[x]) => sagas'[x] \in {sagas[x], NoSaga}
              /\ store[x] # NoCheckpoint /\ IsTerminal(store[x].saga) =>
                    store'[x].saga = store[x].saga]_vars
    BY <1>1
  <1> QED BY <1>2, Invariance, PTL DEF Spec, TerminalIsFinal

-----------------------------------------------------------------------------
(* The processed events kept with each saga, in memory and in the          *)
(* checkpoints: that the saga they are kept with is their sum, that the    *)
(* identifier of the next answer is free, and that a later checkpoint      *)
(* extends an earlier one, through redeliveries, restarts and restores.    *)

\* The saga an event of a history was applied to.
Before(s, h, k) ==
    IF k = 1 THEN InitialSaga(s.id, s.plan, s.started) ELSE h[k - 1].snapshot

\* The identifier belongs to a directive the saga is past: of an earlier step,
\* of an earlier attempt, or of the failure it is recovering from.
Used(s, id) ==
    \/ id[1] < s.step
    \/ id[1] = s.step /\ id[2] < s.attempt
    \/ /\ id[1] = s.step /\ id[2] = s.attempt
       /\ \/ IsTerminal(s)
          \/ s.status \in RecoveryStatuses /\ id[3] = "failed"

\* The event answers the current directive of the saga.
Answers(s, e) ==
    /\ e.id[1] = s.step /\ e.id[2] = s.attempt /\ e.step = s.step
    /\ e.kind = "STEP_FAILED" => e.id[3] = "failed"

\* The saga is the sum of the events, and none of them is of a later step.
Tallied(s, h) ==
    /\ Explained(s, h) /\ Selling(s)
    /\ \A k \in 1 .. Len(h) : h[k].event.step <= s.step

\* The events a saga has come from, each applied to what the one before left.
History(x, s, h) ==
    /\ Shaped(s) /\ DistinctFacts(h) /\ Tallied(s, h)
    /\ \A k \in 1 .. Len(h) :
          /\ BoundToAction(h[k].event) /\ h[k].event.execution = x
          /\ Used(s, h[k].event.id)
          /\ Accepted(Before(s, h, k), h[k].event, MaxStepAttempts)
          /\ h[k].snapshot = After(Before(s, h, k), h[k].event)
    /\ s = Before(s, h, Len(h) + 1)

\* A history begins with another.
Continues(h, earlier) ==
    Len(earlier) <= Len(h) /\ \A k \in 1 .. Len(earlier) : h[k] = earlier[k]

Recorded ==
    \A x \in Executions :
        /\ Loaded(x) => History(x, sagas[x], processed[x])
        /\ Saved(x) => History(x, store[x].saga, store[x].processed)
        /\ Saved(x) /\ Loaded(x) => Continues(processed[x], store[x].processed)
        /\ ~Loaded(x) => processed[x] = <<>>

HInv == IInv /\ Recorded

-----------------------------------------------------------------------------
(* Running totals.                                                         *)

\* Induction over the naturals, for a set: the smallest number outside of it
\* would bound the smallest of the intervals 1 .. n with n outside of it.
LEMMA NatFacts ==
  ASSUME NEW T, 0 \in T, \A n \in Nat : n \in T => n + 1 \in T
  PROVE  Nat \subseteq T
  <1> SUFFICES ASSUME NEW m \in Nat, m \notin T PROVE FALSE
    OBVIOUS
  <1>1. PICK R, U : R = StrictSubsetOrdering(Nat) /\ U = {1 .. n : n \in Nat \ T}
    OBVIOUS
  <1>2. U \subseteq FiniteSubsetsOf(Nat) /\ U # {}
    <2>1. ASSUME NEW n \in Nat PROVE 1 .. n \in FiniteSubsetsOf(Nat)
      <3>1. 1 .. n \subseteq Nat
        OBVIOUS
      <3> QED BY <3>1, FS_Interval DEF FiniteSubsetsOf
    <2> QED BY <1>1, <2>1
  <1>3. IsWellFoundedOn(R, FiniteSubsetsOf(Nat))
    BY <1>1, FS_StrictSubsetOrderingWellFounded
  <1>4. PICK x \in U : \A y \in U : <<y, x>> \notin R
    BY <1>2, <1>3, WFMin
  <1>5. PICK n \in Nat \ T : x = 1 .. n
    BY <1>1
  <1>6. n - 1 \in Nat /\ n - 1 \notin T
    BY <1>5
  <1>7. 1 .. (n - 1) \in U
    BY <1>1, <1>6
  <1>8. <<1 .. (n - 1), 1 .. n>> \in R
    <2>1. 1 .. (n - 1) \in SUBSET Nat /\ 1 .. n \in SUBSET Nat
      OBVIOUS
    <2>2. n \in 1 .. n /\ n \notin 1 .. (n - 1)
      BY <1>6
    <2>3. 1 .. (n - 1) \subseteq 1 .. n
      BY <1>6
    <2> QED BY <1>1, <2>1, <2>2, <2>3 DEF StrictSubsetOrdering
  <1> QED BY <1>4, <1>5, <1>7, <1>8

\* The totals up to n.
Totals(f, a, n) == f = [k \in 0 .. n |-> IF k = 0 THEN 0 ELSE f[k - 1] + a[k]]

\* There are totals up to every n, and any two agree.
LEMMA TotalsFacts ==
  ASSUME NEW a
  PROVE  /\ \A n \in Nat : \E f : Totals(f, a, n)
         /\ \A k, n, m \in Nat : \A f, g :
               k <= n /\ k <= m /\ Totals(f, a, n) /\ Totals(g, a, m) => f[k] = g[k]
  <1>1. PICK T : T = {n \in Nat : \E f : Totals(f, a, n)}
    OBVIOUS
  <1>2. 0 \in T
    <2>1. PICK f : f = [k \in 0 .. 0 |-> 0]
      OBVIOUS
    <2>2. f = [k \in 0 .. 0 |-> IF k = 0 THEN 0 ELSE f[k - 1] + a[k]]
      BY <2>1
    <2> QED BY <1>1, <2>2 DEF Totals
  <1>3. ASSUME NEW n \in Nat, n \in T PROVE n + 1 \in T
    <2>1. PICK f : Totals(f, a, n)
      BY <1>1, <1>3
    <2>2. PICK g : g = [k \in 0 .. n + 1 |-> IF k = n + 1 THEN f[n] + a[n + 1] ELSE f[k]]
      OBVIOUS
    <2>3. \A k \in 0 .. n : f[k] = IF k = 0 THEN 0 ELSE f[k - 1] + a[k]
      BY <2>1 DEF Totals
    <2>4. \A k \in 0 .. n : g[k] = f[k]
      BY <2>2
    <2>5. \A k \in 0 .. n + 1 : g[k] = IF k = 0 THEN 0 ELSE g[k - 1] + a[k]
      <3> TAKE k \in 0 .. n + 1
      <3>1. CASE k = n + 1
        <4>1. k # 0 /\ k - 1 = n /\ g[k] = f[n] + a[n + 1]
          BY <2>2, <3>1
        <4>2. g[k - 1] = f[n]
          BY <2>4, <4>1
        <4> QED BY <3>1, <4>1, <4>2
      <3>2. CASE k \in 1 .. n
        <4>1. k \in 0 .. n /\ k - 1 \in 0 .. n /\ k # 0
          BY <3>2
        <4>2. g[k] = f[k] /\ g[k - 1] = f[k - 1] /\ f[k] = f[k - 1] + a[k]
          BY <2>3, <2>4, <4>1
        <4> QED BY <4>1, <4>2
      <3>3. CASE k = 0
        <4>1. k \in 0 .. n
          BY <3>3
        <4> QED BY <2>3, <2>4, <3>3, <4>1
      <3> QED BY <3>1, <3>2, <3>3
    <2>6. g = [k \in 0 .. n + 1 |-> g[k]]
      BY <2>2
    <2>7. g = [k \in 0 .. n + 1 |-> IF k = 0 THEN 0 ELSE g[k - 1] + a[k]]
      BY <2>5, <2>6
    <2> QED BY <1>1, <2>7 DEF Totals
  <1>4. \A n \in Nat : \E f : Totals(f, a, n)
    BY <1>1, <1>2, <1>3, NatFacts
  <1>5. PICK V : V = {k \in Nat : \A n, m \in Nat : \A f, g :
                         k <= n /\ k <= m /\ Totals(f, a, n) /\ Totals(g, a, m) => f[k] = g[k]}
    OBVIOUS
  <1>6. 0 \in V
    <2>1. ASSUME NEW n \in Nat, NEW f, Totals(f, a, n) PROVE f[0] = 0
      BY <2>1 DEF Totals
    <2> QED BY <1>5, <2>1
  <1>7. ASSUME NEW k \in Nat, k \in V PROVE k + 1 \in V
    <2>1. ASSUME NEW n \in Nat, NEW m \in Nat, NEW f, NEW g, k + 1 <= n, k + 1 <= m,
                 Totals(f, a, n), Totals(g, a, m)
          PROVE  f[k + 1] = g[k + 1]
      <3>1. f[k] = g[k]
        BY <1>5, <1>7, <2>1
      <3>2. k + 1 \in 0 .. n /\ k + 1 \in 0 .. m /\ k + 1 # 0 /\ k + 1 - 1 = k
        BY <2>1
      <3>3. f[k + 1] = f[k] + a[k + 1] /\ g[k + 1] = g[k] + a[k + 1]
        BY <2>1, <3>2 DEF Totals
      <3> QED BY <3>1, <3>3
    <2> QED BY <1>5, <2>1
  <1>8. Nat \subseteq V
    BY <1>6, <1>7, NatFacts
  <1> QED BY <1>4, <1>5, <1>8

\* A running total begins at nothing and grows by one amount at a time.
LEMMA RunningTotalFacts ==
  ASSUME NEW a
  PROVE  /\ RunningTotal(a, 0) = 0
         /\ \A n \in Nat : RunningTotal(a, n + 1) = RunningTotal(a, n) + a[n + 1]
  <1>1. PICK c : c = [n \in Nat |-> CHOOSE f : Totals(f, a, n)]
    OBVIOUS
  <1>2. \A n \in Nat : Totals(c[n], a, n)
    BY <1>1, TotalsFacts
  <1>3. PICK h : h = [n \in Nat |-> c[n][n]]
    OBVIOUS
  <1>4. \A n \in Nat : h[n] = IF n = 0 THEN 0 ELSE h[n - 1] + a[n]
    <2> TAKE n \in Nat
    <2>1. n \in 0 .. n /\ c[n] = [k \in 0 .. n |-> IF k = 0 THEN 0 ELSE c[n][k - 1] + a[k]]
      BY <1>2 DEF Totals
    <2>2. CASE n = 0
      BY <1>3, <2>1, <2>2
    <2>3. CASE n # 0
      <3>1. n - 1 \in Nat /\ n - 1 <= n
        BY <2>3
      <3>2. c[n][n - 1] = c[n - 1][n - 1]
        <4>1. Totals(c[n], a, n) /\ Totals(c[n - 1], a, n - 1)
          BY <1>2, <3>1
        <4>2. \A f, g : Totals(f, a, n) /\ Totals(g, a, n - 1) => f[n - 1] = g[n - 1]
          BY <3>1, TotalsFacts
        <4> QED BY <4>1, <4>2
      <3>3. c[n][n] = c[n][n - 1] + a[n]
        BY <2>1, <2>3
      <3> QED BY <1>3, <2>3, <3>1, <3>2, <3>3
    <2> QED BY <2>2, <2>3
  <1>5. h = [n \in Nat |-> IF n = 0 THEN 0 ELSE h[n - 1] + a[n]]
    <2>1. h = [n \in Nat |-> h[n]]
      BY <1>3
    <2> QED BY <1>4, <2>1
  <1>6. PICK total : total = CHOOSE f : f = [n \in Nat |-> IF n = 0 THEN 0 ELSE f[n - 1] + a[n]]
    OBVIOUS
  <1>7. total = [n \in Nat |-> IF n = 0 THEN 0 ELSE total[n - 1] + a[n]]
    BY <1>5, <1>6
  <1>8. \A n \in Nat : RunningTotal(a, n) = total[n]
    BY <1>6 DEF RunningTotal
  <1>9. total[0] = 0
    BY <1>7
  <1>10. \A n \in Nat : total[n + 1] = total[n] + a[n + 1]
    BY <1>7
  <1> QED BY <1>8, <1>9, <1>10

\* Totals of amounts that agree agree, and the total of nothings is nothing.
LEMMA SameTotals ==
  ASSUME NEW n \in Nat, NEW a
  PROVE  /\ \A b : (\A k \in 1 .. n : a[k] = b[k]) => RunningTotal(a, n) = RunningTotal(b, n)
         /\ (\A k \in 1 .. n : a[k] = 0) => RunningTotal(a, n) = 0
         /\ (\A k \in 1 .. n : a[k] \in Int) => RunningTotal(a, n) \in Int
  <1>1. ASSUME NEW b, \A k \in 1 .. n : a[k] = b[k]
        PROVE  RunningTotal(a, n) = RunningTotal(b, n)
    <2>1. PICK T : T = {m \in Nat : m <= n => RunningTotal(a, m) = RunningTotal(b, m)}
      OBVIOUS
    <2>2. 0 \in T
      BY <2>1, RunningTotalFacts
    <2>3. ASSUME NEW m \in Nat, m \in T PROVE m + 1 \in T
      <3> SUFFICES ASSUME m + 1 <= n
                   PROVE  RunningTotal(a, m + 1) = RunningTotal(b, m + 1)
        BY <2>1
      <3>1. RunningTotal(a, m) = RunningTotal(b, m) /\ a[m + 1] = b[m + 1]
        BY <1>1, <2>1, <2>3
      <3> QED BY <3>1, RunningTotalFacts
    <2> QED BY <2>1, <2>2, <2>3, NatFacts
  <1>2. ASSUME \A k \in 1 .. n : a[k] = 0 PROVE RunningTotal(a, n) = 0
    <2>1. PICK T : T = {m \in Nat : m <= n => RunningTotal(a, m) = 0}
      OBVIOUS
    <2>2. 0 \in T
      BY <2>1, RunningTotalFacts
    <2>3. ASSUME NEW m \in Nat, m \in T PROVE m + 1 \in T
      <3> SUFFICES ASSUME m + 1 <= n PROVE RunningTotal(a, m + 1) = 0
        BY <2>1
      <3>1. RunningTotal(a, m) = 0 /\ a[m + 1] = 0
        BY <1>2, <2>1, <2>3
      <3> QED BY <3>1, RunningTotalFacts
    <2> QED BY <2>1, <2>2, <2>3, NatFacts
  <1>3. ASSUME \A k \in 1 .. n : a[k] \in Int PROVE RunningTotal(a, n) \in Int
    <2>1. PICK T : T = {m \in Nat : m <= n => RunningTotal(a, m) \in Int}
      OBVIOUS
    <2>2. 0 \in T
      BY <2>1, RunningTotalFacts
    <2>3. ASSUME NEW m \in Nat, m \in T PROVE m + 1 \in T
      <3> SUFFICES ASSUME m + 1 <= n PROVE RunningTotal(a, m + 1) \in Int
        BY <2>1
      <3>1. RunningTotal(a, m) \in Int /\ a[m + 1] \in Int
        BY <1>3, <2>1, <2>3
      <3> QED BY <3>1, RunningTotalFacts
    <2> QED BY <2>1, <2>2, <2>3, NatFacts
  <1> QED BY <1>1, <1>2, <1>3

\* One amount more adds to the total.
LEMMA AddedTotal ==
  ASSUME NEW n \in Nat, NEW a, NEW b, \A k \in 1 .. n : b[k] = a[k]
  PROVE  RunningTotal(b, n + 1) = RunningTotal(a, n) + b[n + 1]
  <1>1. RunningTotal(b, n) = RunningTotal(a, n)
    BY SameTotals
  <1> QED BY <1>1, RunningTotalFacts

\* A record more adds its amounts to the totals of the history.
LEMMA GrownTotals ==
  ASSUME NEW h \in Seq(RecordType), NEW r \in RecordType, NEW g, g = Append(h, r)
  PROVE  /\ Total(g, LAMBDA e : e.outcome.cost)
              = Total(h, LAMBDA e : e.outcome.cost) + r.event.outcome.cost
         /\ Total(g, LAMBDA e : e.outcome.fees)
              = Total(h, LAMBDA e : e.outcome.fees) + r.event.outcome.fees
         /\ \A i \in Items :
              Total(g, LAMBDA e : e.outcome.deltas[i])
                = Total(h, LAMBDA e : e.outcome.deltas[i]) + r.event.outcome.deltas[i]
         /\ \A step \in Nat :
              /\ Total(g, LAMBDA e : Progress(e, step))
                   = Total(h, LAMBDA e : Progress(e, step)) + Progress(r.event, step)
              /\ Total(g, LAMBDA e : Retries(e, step))
                   = Total(h, LAMBDA e : Retries(e, step)) + Retries(r.event, step)
  <1>1. PICK n \in Nat : n = Len(h)
    OBVIOUS
  <1>2. /\ Len(g) = n + 1 /\ g[n + 1] = r /\ \A k \in 1 .. n : g[k] = h[k]
        /\ DOMAIN g = 1 .. n + 1 /\ DOMAIN h = 1 .. n
    BY <1>1
  <1>3. ASSUME NEW a, NEW b, NEW amount,
               \A k \in 1 .. n : b[k] = a[k], b[n + 1] = amount
        PROVE  RunningTotal(b, n + 1) = RunningTotal(a, n) + amount
    BY <1>3, AddedTotal
  <1>4. RunningTotal([k \in 1 .. n + 1 |-> g[k].event.outcome.cost], n + 1)
          = RunningTotal([k \in 1 .. n |-> h[k].event.outcome.cost], n) + r.event.outcome.cost
    <2>1. PICK a, b : /\ a = [k \in 1 .. n |-> h[k].event.outcome.cost]
                      /\ b = [k \in 1 .. n + 1 |-> g[k].event.outcome.cost]
      OBVIOUS
    <2>2. \A k \in 1 .. n : b[k] = a[k]
      BY <1>2, <2>1
    <2>3. b[n + 1] = r.event.outcome.cost
      BY <1>2, <2>1
    <2>4. RunningTotal(b, n + 1) = RunningTotal(a, n) + b[n + 1]
      BY <2>2, AddedTotal, Zenon
    <2> QED BY <2>1, <2>3, <2>4, Zenon
  <1>5. RunningTotal([k \in 1 .. n + 1 |-> g[k].event.outcome.fees], n + 1)
          = RunningTotal([k \in 1 .. n |-> h[k].event.outcome.fees], n) + r.event.outcome.fees
    <2>1. PICK a, b : /\ a = [k \in 1 .. n |-> h[k].event.outcome.fees]
                      /\ b = [k \in 1 .. n + 1 |-> g[k].event.outcome.fees]
      OBVIOUS
    <2>2. \A k \in 1 .. n : b[k] = a[k]
      BY <1>2, <2>1
    <2>3. b[n + 1] = r.event.outcome.fees
      BY <1>2, <2>1
    <2>4. RunningTotal(b, n + 1) = RunningTotal(a, n) + b[n + 1]
      BY <2>2, AddedTotal, Zenon
    <2> QED BY <2>1, <2>3, <2>4, Zenon
  <1>6. ASSUME NEW i \in Items
        PROVE  RunningTotal([k \in 1 .. n + 1 |-> g[k].event.outcome.deltas[i]], n + 1)
                 = RunningTotal([k \in 1 .. n |-> h[k].event.outcome.deltas[i]], n)
                     + r.event.outcome.deltas[i]
    <2>1. PICK a, b : /\ a = [k \in 1 .. n |-> h[k].event.outcome.deltas[i]]
                      /\ b = [k \in 1 .. n + 1 |-> g[k].event.outcome.deltas[i]]
      OBVIOUS
    <2>2. \A k \in 1 .. n : b[k] = a[k]
      BY <1>2, <2>1
    <2>3. b[n + 1] = r.event.outcome.deltas[i]
      BY <1>2, <2>1
    <2>4. RunningTotal(b, n + 1) = RunningTotal(a, n) + b[n + 1]
      BY <2>2, AddedTotal, Zenon
    <2> QED BY <2>1, <2>3, <2>4, Zenon
  <1>7. ASSUME NEW step \in Nat
        PROVE  RunningTotal([k \in 1 .. n + 1 |-> Progress(g[k].event, step)], n + 1)
                 = RunningTotal([k \in 1 .. n |-> Progress(h[k].event, step)], n)
                     + Progress(r.event, step)
    BY <1>2, <1>3
  <1>8. ASSUME NEW step \in Nat
        PROVE  RunningTotal([k \in 1 .. n + 1 |-> Retries(g[k].event, step)], n + 1)
                 = RunningTotal([k \in 1 .. n |-> Retries(h[k].event, step)], n)
                     + Retries(r.event, step)
    BY <1>2, <1>3
  <1> QED BY <1>1, <1>2, <1>4, <1>5, <1>6, <1>7, <1>8 DEF Total

\* Events of earlier steps say nothing of a step.
LEMMA EarlierTotals ==
  ASSUME NEW h \in Seq(RecordType), NEW step \in Nat,
         \A k \in 1 .. Len(h) : h[k].event.step # step
  PROVE  /\ Total(h, LAMBDA e : Progress(e, step)) = 0
         /\ Total(h, LAMBDA e : Retries(e, step)) = 0
  <1>1. Len(h) \in Nat /\ DOMAIN h = 1 .. Len(h)
    OBVIOUS
  <1>2. RunningTotal([k \in 1 .. Len(h) |-> Progress(h[k].event, step)], Len(h)) = 0
    <2>1. PICK a : a = [k \in 1 .. Len(h) |-> Progress(h[k].event, step)]
      OBVIOUS
    <2>2. \A k \in 1 .. Len(h) : a[k] = 0
      BY <2>1 DEF Progress
    <2> QED BY <1>1, <2>1, <2>2, SameTotals
  <1>3. RunningTotal([k \in 1 .. Len(h) |-> Retries(h[k].event, step)], Len(h)) = 0
    <2>1. PICK a : a = [k \in 1 .. Len(h) |-> Retries(h[k].event, step)]
      OBVIOUS
    <2>2. \A k \in 1 .. Len(h) : a[k] = 0
      BY <2>1 DEF Retries
    <2> QED BY <1>1, <2>1, <2>2, SameTotals
  <1> QED BY <1>1, <1>2, <1>3 DEF Total

-----------------------------------------------------------------------------
(* Histories.                                                              *)

\* A saga that begins has an empty history.
LEMMA FreshFacts ==
  ASSUME NEW x \in Executions, NEW p \in Plans, NEW now \in Nat
  PROVE  History(x, InitialSaga(x, p, now), <<>>)
  <1> DEFINE n == Len(p.steps)
  <1>1. PICK s : s = InitialSaga(x, p, now)
    OBVIOUS
  <1>2. /\ s.id = x /\ s.plan = p /\ s.started = now /\ s.updated = now /\ s.step = 1
        /\ s.status = "RUNNING" /\ s.progress = 0 /\ s.attempt = 0 /\ s.version = 1
        /\ s.cost = 0 /\ s.fees = 0 /\ \A i \in Items : s.holdings[i] = 0
    BY <1>1 DEF InitialSaga, NoItems
  <1>3. n \in Nat \ {0} /\ p.steps[1] \in Steps
    <2>1. n \in Nat \ {0} /\ \A k \in 1 .. n : p.steps[k] \in Steps
      BY PlansAssumption, PlanFacts
    <2> QED BY <2>1
  <1>4. p.steps[1].quantity \in Nat \ {0}
    BY <1>3 DEF Steps
  <1>5. Shaped(s)
    BY <1>2, <1>3, <1>4 DEF Shaped, StepOf
  <1>6. Len(<<>>) = 0 /\ DistinctFacts(<<>>)
    BY DEF DistinctFacts
  <1>7. s = Before(s, <<>>, 1)
    BY <1>1, <1>2 DEF Before
  <1>8. Tallied(s, <<>>)
    <2>1. \A a : RunningTotal(a, 0) = 0
      BY RunningTotalFacts
    <2>2. Explained(s, <<>>)
      BY <1>2, <1>6, <2>1 DEF Explained, Total
    <2> QED BY <1>2, <1>6, <2>2 DEF Tallied, Selling
  <1> QED BY <1>1, <1>5, <1>6, <1>7, <1>8 DEF History

\* What was used before an event still is after it, and so is the event's own
\* identifier.
LEMMA UsedFacts ==
  ASSUME NEW s \in Sagas(Plans), NEW t \in Sagas(Plans), NEW e \in Events,
         CanonicalPlan(s.plan), Shaped(s), Turn(s, e, t)
  PROVE  /\ \A id \in EventIDs : Used(s, id) => Used(t, id)
         /\ Answers(s, e) => Used(t, e.id)
  <1>1. /\ s.step \in Nat /\ s.attempt \in Nat /\ t.step \in Nat /\ t.attempt \in Nat
        /\ Len(s.plan.steps) \in Nat
    BY PlanFacts DEF Sagas
  <1>2. s.step <= Len(s.plan.steps) + 1
    <2>1. s.step <= Len(s.plan.steps) + (IF s.status = "RUNNING" THEN 0 ELSE 1)
      BY DEF Shaped
    <2>2. CASE s.status = "RUNNING" BY <1>1, <2>1, <2>2
    <2>3. CASE s.status # "RUNNING" BY <2>1, <2>3
    <2> QED BY <2>2, <2>3
  <1>3. ASSUME NEW id \in EventIDs
        PROVE  /\ Used(s, id) => Used(t, id)
               /\ e.id = id /\ Answers(s, e) => Used(t, id)
    <2>1. id[1] \in Nat /\ id[2] \in Nat
      BY DEF EventIDs
    <2>2. CASE t.step > s.step
      BY <1>1, <2>1, <2>2 DEF Used, Answers
    <2>3. CASE t.step = s.step /\ t.attempt = s.attempt + 1
      BY <1>1, <2>1, <2>3 DEF Used, Answers
    <2>4. CASE t.step = s.step /\ t.attempt = s.attempt /\ IsTerminal(t)
      BY <2>4 DEF Used, Answers
    <2>5. CASE /\ t.step = s.step /\ t.attempt = s.attempt /\ t.status \in RecoveryStatuses
               /\ e.kind = "STEP_FAILED" /\ s.status = "RUNNING"
      <3>1. ~IsTerminal(s) /\ s.status \notin RecoveryStatuses
        BY <2>5 DEF IsTerminal, TerminalStatuses, RecoveryStatuses
      <3> QED BY <2>5, <3>1 DEF Used, Answers
    <2>6. \/ t.step > s.step
          \/ t.step = s.step /\ t.attempt = s.attempt + 1
          \/ t.step = s.step /\ t.attempt = s.attempt /\ IsTerminal(t)
          \/ /\ t.step = s.step /\ t.attempt = s.attempt /\ t.status \in RecoveryStatuses
             /\ e.kind = "STEP_FAILED" /\ s.status = "RUNNING"
      <3>1. CASE e.kind = "STEP_SUCCEEDED"
        BY <1>1, <3>1 DEF Turn
      <3>2. CASE e.kind = "STEP_FAILED"
        BY <3>2 DEF Turn, IsTerminal, TerminalStatuses
      <3>3. CASE e.kind = "RECOVERY_RESOLVED"
        BY <3>3 DEF Turn, IsTerminal, TerminalStatuses
      <3>4. CASE e.kind = "SALE_SETTLED"
        <4>1. /\ t.step = Len(s.plan.steps) + 1 /\ t.attempt = s.attempt
              /\ t.status \in {"COMPLETED", "COMPLETED_MISMATCH"}
          BY <3>4 DEF Turn
        <4>2. IsTerminal(t) BY <4>1 DEF IsTerminal, TerminalStatuses
        <4> QED BY <1>1, <1>2, <4>1, <4>2
      <3> QED BY <3>1, <3>2, <3>3, <3>4 DEF Turn
    <2> QED BY <2>2, <2>3, <2>4, <2>5, <2>6
  <1>4. e.id \in EventIDs
    BY DEF Events
  <1> QED BY <1>3, <1>4

\* An accepted answer adds to the saga what its record adds to the totals.
LEMMA TalliedFacts ==
  ASSUME NEW s \in Sagas(Plans), CanonicalPlan(s.plan), SagaInv(s),
         NEW h \in Seq(RecordType), Tallied(s, h),
         NEW e \in Events, e.step = s.step, Accepted(s, e, MaxStepAttempts),
         NEW r \in RecordType, r.event = e, NEW g, g = Append(h, r)
  PROVE  Tallied(After(s, e), g)
  <1>1. PICK t : t = After(s, e)
    OBVIOUS
  <1>2. /\ Adds(s, e, t) /\ t.version = s.version + 1
        /\ \A i \in Items : t.holdings[i] = s.holdings[i] + e.outcome.deltas[i]
    BY <1>1, BookedFacts, AttemptsAssumption, SettlementsAssumption DEF Tallied
  <1>3. /\ s.step \in Nat /\ s.attempt \in Nat /\ s.progress \in Nat /\ e.step \in Nat
        /\ s.version \in Nat /\ e.outcome.completed \in Nat
    BY DEF Sagas, Events, Outcomes
  <1>4. /\ Len(g) = Len(h) + 1 /\ g[Len(h) + 1] = r /\ Len(h) \in Nat
        /\ \A k \in 1 .. Len(h) : g[k] = h[k]
    OBVIOUS
  <1>5. ~Closed(s)
    BY DEF Accepted, StepAccepted, RecoveryAccepted, SettlementAccepted, Closed, RecoveryStatuses
  <1>6. \A k \in 1 .. Len(h) : h[k].event.step \in Nat
    <2>1. \A k \in 1 .. Len(h) : h[k] \in RecordType
      OBVIOUS
    <2> QED BY <2>1 DEF RecordType, Events
  <1>7. t.step \in Nat /\ s.step <= t.step
    BY <1>2, <1>3 DEF Adds
  <1>8. t.cost = Total(g, LAMBDA f : f.outcome.cost)
    <2>1. Total(g, LAMBDA f : f.outcome.cost)
            = Total(h, LAMBDA f : f.outcome.cost) + r.event.outcome.cost
      BY GrownTotals
    <2>2. s.cost = Total(h, LAMBDA f : f.outcome.cost)
      BY DEF Tallied, Explained
    <2> QED BY <1>2, <2>1, <2>2 DEF Adds
  <1>9. ASSUME NEW i \in Items
        PROVE  t.holdings[i] = Total(g, LAMBDA f : f.outcome.deltas[i])
    <2>1. Total(g, LAMBDA f : f.outcome.deltas[i])
            = Total(h, LAMBDA f : f.outcome.deltas[i]) + r.event.outcome.deltas[i]
      BY GrownTotals
    <2>2. s.holdings[i] = Total(h, LAMBDA f : f.outcome.deltas[i])
      BY DEF Tallied, Explained
    <2> QED BY <1>2, <2>1, <2>2
  <1>10. ~Closed(t) => t.fees = Total(g, LAMBDA f : f.outcome.fees)
    <2>1. Total(g, LAMBDA f : f.outcome.fees)
            = Total(h, LAMBDA f : f.outcome.fees) + r.event.outcome.fees
      BY GrownTotals
    <2>2. s.fees = Total(h, LAMBDA f : f.outcome.fees)
      BY <1>5 DEF Tallied, Explained, Closed
    <2> QED BY <1>2, <2>1, <2>2 DEF Adds
  <1>11. /\ t.progress = Total(g, LAMBDA f : Progress(f, t.step))
         /\ t.attempt = Total(g, LAMBDA f : Retries(f, t.step))
    <2>1. /\ Total(g, LAMBDA f : Progress(f, t.step))
               = Total(h, LAMBDA f : Progress(f, t.step)) + Progress(e, t.step)
          /\ Total(g, LAMBDA f : Retries(f, t.step))
               = Total(h, LAMBDA f : Retries(f, t.step)) + Retries(e, t.step)
      BY <1>7, GrownTotals
    <2>2. CASE t.step = s.step + 1 /\ t.progress = 0 /\ t.attempt = 0
      <3>1. \A k \in 1 .. Len(h) : h[k].event.step # t.step
        BY <1>3, <1>6, <2>2 DEF Tallied
      <3>2. Progress(e, t.step) = 0 /\ Retries(e, t.step) = 0
        BY <1>3, <2>2 DEF Progress, Retries
      <3>3. /\ Total(h, LAMBDA f : Progress(f, t.step)) = 0
            /\ Total(h, LAMBDA f : Retries(f, t.step)) = 0
        BY <1>7, <3>1, EarlierTotals
      <3> QED BY <2>2, <2>1, <3>2, <3>3
    <2>3. CASE /\ t.step = s.step /\ t.progress = s.progress + e.outcome.completed
               /\ t.attempt = s.attempt + (IF e.resolution = "RETRY" THEN 1 ELSE 0)
      <3>1. /\ Progress(e, t.step) = e.outcome.completed
            /\ Retries(e, t.step) = IF e.resolution = "RETRY" THEN 1 ELSE 0
        BY <2>3 DEF Progress, Retries
      <3>2. /\ s.progress = Total(h, LAMBDA f : Progress(f, t.step))
            /\ s.attempt = Total(h, LAMBDA f : Retries(f, t.step))
        BY <2>3 DEF Tallied, Explained
      <3> QED BY <2>3, <2>1, <3>1, <3>2
    <2> QED BY <1>2, <2>2, <2>3 DEF Adds
  <1>12. t.version = Len(g) + 1
    BY <1>2, <1>3, <1>4 DEF Tallied, Explained
  <1>13. Explained(t, g)
    BY <1>8, <1>9, <1>10, <1>11, <1>12 DEF Explained, Closed
  <1>14. \A k \in 1 .. Len(g) : g[k].event.step <= t.step
    <2> TAKE k \in 1 .. Len(g)
    <2>1. CASE k = Len(h) + 1
      BY <1>4, <1>7, <2>1
    <2>2. CASE k \in 1 .. Len(h)
      <3>1. h[k].event.step <= s.step
        BY <2>2 DEF Tallied
      <3> QED BY <1>3, <1>4, <1>6, <1>7, <2>2, <3>1
    <2> QED BY <1>4, <2>1, <2>2
  <1> QED BY <1>1, <1>2, <1>13, <1>14 DEF Tallied, Adds

\* An accepted answer with an identifier and an action of its own makes a
\* longer history.
LEMMA GrowsFacts ==
  ASSUME NEW x \in Executions, NEW s \in Sagas(Plans), CanonicalPlan(s.plan), SagaInv(s),
         NEW h \in Seq(RecordType), History(x, s, h),
         NEW e \in Events, e.execution = x, Answers(s, e), Accepted(s, e, MaxStepAttempts),
         \A k \in 1 .. Len(h) :
             /\ h[k].event.id # e.id
             /\ e.outcome.action # NoAction => h[k].event.outcome.action # e.outcome.action
  PROVE  History(x, After(s, e), Append(h, [event |-> e, snapshot |-> After(s, e)]))
  <1>1. PICK t : t = After(s, e)
    OBVIOUS
  <1>2. /\ Shaped(s) /\ DistinctFacts(h) /\ Tallied(s, h) /\ s = Before(s, h, Len(h) + 1)
        /\ \A k \in 1 .. Len(h) :
              /\ BoundToAction(h[k].event) /\ h[k].event.execution = x
              /\ Used(s, h[k].event.id)
              /\ Accepted(Before(s, h, k), h[k].event, MaxStepAttempts)
              /\ h[k].snapshot = After(Before(s, h, k), h[k].event)
    BY DEF History
  <1>3. t \in Sagas(Plans) /\ t.id = s.id /\ t.plan = s.plan
    BY <1>1, AfterFacts, AttemptsAssumption, SettlementsAssumption
  <1>4. Shaped(t) /\ t.started = s.started /\ BoundToAction(e) /\ Turn(s, e, t)
    BY <1>1, <1>2, ShapeFacts, AttemptsAssumption, SettlementsAssumption
  <1>5. PICK r : r = [event |-> e, snapshot |-> t]
    OBVIOUS
  <1>6. r.event = e /\ r.snapshot = t /\ r \in RecordType
    BY <1>3, <1>5 DEF RecordType, SagaType
  <1>7. PICK g : g = Append(h, r)
    OBVIOUS
  <1>8. /\ g \in Seq(RecordType) /\ Len(g) = Len(h) + 1 /\ Len(h) \in Nat
        /\ g[Len(h) + 1] = r /\ \A k \in 1 .. Len(h) : g[k] = h[k]
        /\ DOMAIN g = 1 .. Len(h) + 1 /\ DOMAIN h = 1 .. Len(h)
    BY <1>6, <1>7
  <1>9. \A k \in 1 .. Len(h) : h[k].event.id \in EventIDs
    <2>1. \A k \in 1 .. Len(h) : h[k] \in RecordType
      OBVIOUS
    <2> QED BY <2>1 DEF RecordType, Events
  <1>10. DistinctFacts(g)
    <2>1. ASSUME NEW j \in 1 .. Len(h) + 1, NEW k \in 1 .. Len(h) + 1, j # k
          PROVE  /\ g[j].event.id # g[k].event.id
                 /\ g[j].event.outcome.action # NoAction =>
                       g[j].event.outcome.action # g[k].event.outcome.action
      <3>1. CASE j \in 1 .. Len(h) /\ k \in 1 .. Len(h)
        BY <1>2, <1>8, <2>1, <3>1 DEF DistinctFacts
      <3>2. CASE j = Len(h) + 1
        <4>1. k \in 1 .. Len(h) BY <1>8, <2>1, <3>2
        <4> QED BY <1>6, <1>8, <3>2, <4>1
      <3>3. CASE k = Len(h) + 1
        <4>1. j \in 1 .. Len(h) BY <1>8, <2>1, <3>3
        <4> QED BY <1>6, <1>8, <3>3, <4>1
      <3>4. j \in 1 .. Len(h) \/ j = Len(h) + 1
        BY <1>8
      <3>5. k \in 1 .. Len(h) \/ k = Len(h) + 1
        BY <1>8
      <3> QED BY <3>1, <3>2, <3>3, <3>4, <3>5
    <2> QED BY <1>8, <2>1 DEF DistinctFacts
  <1>11. \A k \in 1 .. Len(h) + 1 : Before(t, g, k) = Before(s, h, k)
    <2> TAKE k \in 1 .. Len(h) + 1
    <2>1. CASE k = 1 BY <1>3, <1>4, <2>1 DEF Before
    <2>2. CASE k # 1
      <3>1. k - 1 \in 1 .. Len(h) BY <1>8, <2>2
      <3> QED BY <1>8, <2>2, <3>1 DEF Before
    <2> QED BY <2>1, <2>2
  <1>12. ASSUME NEW k \in 1 .. Len(h) + 1
         PROVE  /\ BoundToAction(g[k].event) /\ g[k].event.execution = x
                /\ Used(t, g[k].event.id)
                /\ Accepted(Before(t, g, k), g[k].event, MaxStepAttempts)
                /\ g[k].snapshot = After(Before(t, g, k), g[k].event)
    <2>1. CASE k = Len(h) + 1
      <3>1. Before(t, g, k) = s /\ g[k] = r
        BY <1>2, <1>8, <1>11, <2>1
      <3>2. Used(t, e.id)
        BY <1>2, <1>3, <1>4, UsedFacts
      <3> QED BY <1>1, <1>4, <1>6, <3>1, <3>2
    <2>2. CASE k \in 1 .. Len(h)
      <3>1. Before(t, g, k) = Before(s, h, k) /\ g[k] = h[k]
        BY <1>8, <1>11, <2>2
      <3>2. Used(t, h[k].event.id)
        BY <1>2, <1>3, <1>4, <1>9, <2>2, UsedFacts
      <3> QED BY <1>2, <2>2, <3>1, <3>2
    <2> QED BY <1>8, <2>1, <2>2
  <1>13. t = Before(t, g, Len(g) + 1)
    <2>1. Len(g) + 1 # 1 /\ Len(g) + 1 - 1 = Len(h) + 1 BY <1>8
    <2> QED BY <1>6, <1>8, <2>1 DEF Before
  <1>14. Tallied(t, g)
    BY <1>1, <1>2, <1>6, <1>7, TalliedFacts DEF Answers
  <1>15. History(x, t, g)
    BY <1>4, <1>8, <1>10, <1>12, <1>13, <1>14 DEF History
  <1> QED BY <1>1, <1>5, <1>7, <1>15

\* A saga with its history passes strict validation.
LEMMA StrictFacts ==
  ASSUME NEW x \in Executions, NEW c, c.saga \in Sagas(Plans), SagaInv(c.saga),
         c.processed \in Seq(RecordType), History(x, c.saga, c.processed)
  PROVE  StrictlyValid(c, MaxStepAttempts)
  <1>0. DOMAIN c.processed = 1 .. Len(c.processed) /\ Len(c.processed) \in Nat
    OBVIOUS
  <1>1. WellFormed(c)
    <2>1. Shaped(c.saga) /\ DistinctFacts(c.processed)
      BY DEF History
    <2>2. \A k \in DOMAIN c.processed : BoundToAction(c.processed[k].event)
      BY <1>0 DEF History
    <2>3. c.saga.budget = IF IsTerminal(c.saga) THEN 0 ELSE InputCost(c.saga.plan)
      BY DEF SagaInv, BudgetHeld
    <2> QED BY <2>1, <2>2, <2>3 DEF WellFormed, Shaped
  <1>2. \A k \in DOMAIN c.processed :
           /\ Accepted(Before(c.saga, c.processed, k), c.processed[k].event, MaxStepAttempts)
           /\ c.processed[k].snapshot
                = After(Before(c.saga, c.processed, k), c.processed[k].event)
    BY <1>0 DEF History
  <1>3. c.saga = Before(c.saga, c.processed, Len(c.processed) + 1)
    BY DEF History
  <1> QED BY <1>1, <1>2, <1>3 DEF StrictlyValid, Before

-----------------------------------------------------------------------------
(* Every event that changes something answers its saga's directive.        *)

\* The parts of an identifier.
LEMMA KeyParts ==
  ASSUME NEW s, NEW suffix
  PROVE  /\ Key(s, suffix)[1] = s.step /\ Key(s, suffix)[2] = s.attempt
         /\ Key(s, suffix)[3] = suffix
  BY DEF Key

\* What the runner reports of a directive answers it.
LEMMA ReportFacts ==
  ASSUME IInv, NEW x \in Executions, Loaded(x), NEW o, NEW a, NEW now,
         NEW reason, NEW resolution
  PROVE  /\ LET e == StepEvent(sagas[x], o, reason, now) IN
            e.execution = x /\ Answers(sagas[x], e)
         /\ LET e == RecoveryEvent(sagas[x], o, resolution, now) IN
            e.execution = x /\ Answers(sagas[x], e)
         /\ LET e == SettlementEvent(sagas[x], a, now) IN
            e.execution = x /\ Answers(sagas[x], e)
  <1>1. PICK s : s = sagas[x]
    OBVIOUS
  <1>2. s.id = x
    BY <1>1 DEF IInv, Filed
  <1>3. StepEvent(s, o, reason, now).execution = x /\ Answers(s, StepEvent(s, o, reason, now))
    <2>1. PICK suffix, kind :
             /\ suffix = IF reason = "" THEN "success" ELSE "failed"
             /\ kind = IF reason = "" THEN "STEP_SUCCEEDED" ELSE "STEP_FAILED"
      OBVIOUS
    <2>2. PICK e : e = StepEvent(s, o, reason, now)
      OBVIOUS
    <2>3. e.id = Key(s, suffix) /\ e.kind = kind /\ e.execution = x /\ e.step = s.step
      BY <1>2, <2>1, <2>2, Zenon DEF StepEvent
    <2>4. "STEP_SUCCEEDED" # "STEP_FAILED"
      OBVIOUS
    <2>5. kind = "STEP_FAILED" => suffix = "failed"
      BY <2>1, <2>4, Zenon
    <2> QED BY <2>2, <2>3, <2>5, KeyParts DEF Answers
  <1>4. /\ RecoveryEvent(s, o, resolution, now).execution = x
        /\ Answers(s, RecoveryEvent(s, o, resolution, now))
    <2>1. PICK e : e = RecoveryEvent(s, o, resolution, now)
      OBVIOUS
    <2>2. e.id = Key(s, resolution) /\ e.kind = "RECOVERY_RESOLVED" /\ e.execution = x
          /\ e.step = s.step
      BY <1>2, <2>1, Zenon DEF RecoveryEvent
    <2> QED BY <2>1, <2>2, KeyParts DEF Answers
  <1>5. /\ SettlementEvent(s, a, now).execution = x
        /\ Answers(s, SettlementEvent(s, a, now))
    <2>1. PICK e : e = SettlementEvent(s, a, now)
      OBVIOUS
    <2>2. e.id = Key(s, "settled") /\ e.kind = "SALE_SETTLED" /\ e.execution = x
          /\ e.step = s.step
      BY <1>2, <2>1, Zenon DEF SettlementEvent
    <2> QED BY <2>1, <2>2, KeyParts DEF Answers
  <1> QED BY <1>1, <1>3, <1>4, <1>5

\* An event that is answered for the first time answers the current directive;
\* one of the record is a duplicate.
LEMMA FirstAnswerFacts ==
  ASSUME HInv, NEW x \in Executions,
         \/ ApplyStep(x) \/ ApplyRetryOrHold(x) \/ ApplyCompensated(x)
         \/ ApplySettlement(x) \/ Redeliver(x)
  PROVE  \/ \E e \in Events : ApplyNew(e) /\ Answers(sagas[e.execution], e)
         \/ UNCHANGED vars
  <1>1. IInv /\ TypeOK
    BY DEF HInv, IInv
  <1>2. ASSUME NEW now \in Times PROVE now \in Nat
    BY TimesAssumption
  <1>3. ASSUME NEW o \in ObservedOutcomes, NEW a \in ActionIDs
        PROVE  [o EXCEPT !.action = a] \in Outcomes
    BY <1>1, OutcomesAssumption, OutcomeTypes
  <1>4. ASSUME NEW e \in Events, Apply(e), e.execution = x, Answers(sagas[x], e)
        PROVE  \/ \E f \in Events : ApplyNew(f) /\ Answers(sagas[f.execution], f)
               \/ UNCHANGED vars
    BY <1>4 DEF Apply, AnswerDuplicate
  <1>5. CASE ApplyStep(x)
    <2>1. Loaded(x)
      BY <1>5 DEF ApplyStep
    <2>2. PICK o \in ObservedOutcomes, a \in ActionIDs, reason \in Reasons, now \in Times :
              Apply(StepEvent(sagas[x], [o EXCEPT !.action = a], reason, now))
      BY <1>5 DEF ApplyStep
    <2>3. PICK e : e = StepEvent(sagas[x], [o EXCEPT !.action = a], reason, now)
      OBVIOUS
    <2>4. e \in Events
      BY <1>1, <1>2, <1>3, <2>1, <2>3, StepEventType
    <2>5. e.execution = x /\ Answers(sagas[x], e)
      BY <1>1, <2>1, <2>3, ReportFacts
    <2> QED BY <1>4, <2>2, <2>3, <2>4, <2>5
  <1>6. CASE ApplyRetryOrHold(x)
    <2>1. Loaded(x)
      BY <1>6 DEF ApplyRetryOrHold
    <2>2. PICK resolution \in {"RETRY", "HOLD"}, now \in Times :
              Apply(RecoveryEvent(sagas[x], EmptyOutcome, resolution, now))
      BY <1>6 DEF ApplyRetryOrHold
    <2>3. PICK e : e = RecoveryEvent(sagas[x], EmptyOutcome, resolution, now)
      OBVIOUS
    <2>4. resolution \in Resolutions /\ resolution # ""
      BY <2>2 DEF Resolutions
    <2>5. e \in Events
      BY <1>1, <1>2, <2>1, <2>3, <2>4, OutcomeTypes, RecoveryEventType
    <2>6. e.execution = x /\ Answers(sagas[x], e)
      BY <1>1, <2>1, <2>3, ReportFacts
    <2> QED BY <1>4, <2>2, <2>3, <2>5, <2>6
  <1>7. CASE ApplyCompensated(x)
    <2>1. Loaded(x)
      BY <1>7 DEF ApplyCompensated
    <2>2. PICK o \in ObservedOutcomes, a \in ActionIDs, now \in Times :
              Apply(RecoveryEvent(sagas[x], [o EXCEPT !.action = a], "COMPENSATED", now))
      BY <1>7 DEF ApplyCompensated
    <2>3. PICK e : e = RecoveryEvent(sagas[x], [o EXCEPT !.action = a], "COMPENSATED", now)
      OBVIOUS
    <2>4. "COMPENSATED" \in Resolutions
      BY DEF Resolutions
    <2>5. e \in Events
      BY <1>1, <1>2, <1>3, <2>1, <2>3, <2>4, RecoveryEventType
    <2>6. e.execution = x /\ Answers(sagas[x], e)
      BY <1>1, <2>1, <2>3, ReportFacts
    <2> QED BY <1>4, <2>2, <2>3, <2>5, <2>6
  <1>8. CASE ApplySettlement(x)
    <2>1. Loaded(x)
      BY <1>8 DEF ApplySettlement
    <2>2. PICK a \in ObservedSettlements, now \in Times :
              Apply(SettlementEvent(sagas[x], a, now))
      BY <1>8 DEF ApplySettlement
    <2>3. PICK e : e = SettlementEvent(sagas[x], a, now)
      OBVIOUS
    <2>4. e \in Events
      BY <1>1, <1>2, <2>1, <2>3, SettlementsAssumption, SettlementEventType
    <2>5. e.execution = x /\ Answers(sagas[x], e)
      BY <1>1, <2>1, <2>3, ReportFacts
    <2> QED BY <1>4, <2>2, <2>3, <2>4, <2>5
  <1>9. CASE Redeliver(x)
    <2>1. PICK k \in DOMAIN processed[x] : Apply(processed[x][k].event)
      BY <1>9 DEF Redeliver
    <2>2. processed[x] \in Seq(RecordType)
      BY <1>1 DEF TypeOK
    <2>3. Loaded(x)
      <3>1. processed[x] # <<>>
        BY <2>1, <2>2
      <3> QED BY <3>1 DEF HInv, Recorded
    <2>4. processed[x][k].event.execution = x
      <3>1. k \in 1 .. Len(processed[x])
        BY <2>1, <2>2
      <3> QED BY <2>3, <3>1 DEF HInv, Recorded, History
    <2>5. Duplicate(x, processed[x][k].event)
      BY <2>1 DEF Duplicate
    <2> QED BY <2>1, <2>4, <2>5 DEF Apply, ApplyNew, AnswerDuplicate
  <1> QED BY <1>5, <1>6, <1>7, <1>8, <1>9

\* The steps of the service, with what is known of a first answer.
LEMMA AnsweredCases ==
  ASSUME HInv, [Next]_vars
  PROVE  \/ \E x \in Executions, p \in Plans, now \in Nat : Begin(x, p, now)
         \/ \E e \in Events : ApplyNew(e) /\ Answers(sagas[e.execution], e)
         \/ \E x \in Executions : Save(x)
         \/ \E x \in Executions : RestoreLive(x)
         \/ \E snapshot \in [Items -> Nat] : SynchronizeInventory(snapshot)
         \/ Restart
         \/ UNCHANGED vars
  <1>1. ASSUME NEW x \in Executions, ServiceStep(x)
        PROVE  \/ \E p \in Plans, now \in Nat : Begin(x, p, now)
               \/ \E e \in Events : ApplyNew(e) /\ Answers(sagas[e.execution], e)
               \/ Save(x)
               \/ UNCHANGED vars
    <2>1. CASE \E p \in Plans, now \in Times : Begin(x, p, now)
      BY <2>1, TimesAssumption
    <2>2. CASE \/ ApplyStep(x) \/ ApplyRetryOrHold(x) \/ ApplyCompensated(x)
               \/ ApplySettlement(x) \/ Redeliver(x)
      BY <2>2, FirstAnswerFacts
    <2> QED BY <1>1, <2>1, <2>2 DEF ServiceStep
  <1> QED BY <1>1, InventoriesAssumption DEF Next

-----------------------------------------------------------------------------
(* The record is kept with the saga by every step.                         *)

\* What is known of one execution is untouched where nothing of it changes.
LEMMA UntouchedFacts ==
  ASSUME Recorded, NEW x \in Executions,
         sagas'[x] = sagas[x], processed'[x] = processed[x], store'[x] = store[x]
  PROVE  /\ Loaded(x)' => History(x, sagas'[x], processed'[x])
         /\ Saved(x)' => History(x, store'[x].saga, store'[x].processed)
         /\ Saved(x)' /\ Loaded(x)' => Continues(processed'[x], store'[x].processed)
         /\ ~Loaded(x)' => processed'[x] = <<>>
  BY DEF Recorded, Loaded, Saved

\* A history continues itself, and stays continued when it grows.
LEMMA ContinuesFacts ==
  ASSUME NEW h \in Seq(RecordType)
  PROVE  /\ Continues(h, h)
         /\ \A r \in RecordType, earlier \in Seq(RecordType) :
               Continues(h, earlier) => Continues(Append(h, r), earlier)
  <1>1. Len(h) \in Nat
    OBVIOUS
  <1>2. Continues(h, h)
    BY <1>1 DEF Continues
  <1>3. ASSUME NEW r \in RecordType, NEW earlier \in Seq(RecordType), Continues(h, earlier)
        PROVE  Continues(Append(h, r), earlier)
    <2>1. PICK g : g = Append(h, r)
      OBVIOUS
    <2>2. Len(g) = Len(h) + 1 /\ \A k \in 1 .. Len(h) : g[k] = h[k]
      BY <2>1
    <2>3. Len(earlier) \in Nat /\ Len(earlier) <= Len(h)
      BY <1>3 DEF Continues
    <2>4. \A k \in 1 .. Len(earlier) : g[k] = earlier[k]
      BY <1>1, <1>3, <2>2, <2>3 DEF Continues
    <2> QED BY <1>1, <2>1, <2>2, <2>3, <2>4 DEF Continues
  <1> QED BY <1>2, <1>3

\* Begin starts a record where there was none.
LEMMA BeginRecorded ==
  ASSUME HInv, NEW y \in Executions, NEW p \in Plans, NEW now \in Nat, Begin(y, p, now)
  PROVE  Recorded'
  <1>1. Recorded /\ TypeOK
    BY DEF HInv, IInv
  <1>2. /\ ~Loaded(y) /\ store[y] = NoCheckpoint /\ processed' = processed /\ store' = store
        /\ sagas' = [sagas EXCEPT ![y] = InitialSaga(y, p, now)]
    BY DEF Begin
  <1>3. processed[y] = <<>>
    BY <1>1, <1>2 DEF Recorded
  <1>4. sagas'[y] = InitialSaga(y, p, now) /\ \A x \in Executions : x # y => sagas'[x] = sagas[x]
    BY <1>1, <1>2 DEF TypeOK
  <1>5. History(y, sagas'[y], processed'[y])
    BY <1>2, <1>3, <1>4, FreshFacts
  <1>6. ASSUME NEW x \in Executions
        PROVE  /\ Loaded(x)' => History(x, sagas'[x], processed'[x])
               /\ Saved(x)' => History(x, store'[x].saga, store'[x].processed)
               /\ Saved(x)' /\ Loaded(x)' => Continues(processed'[x], store'[x].processed)
               /\ ~Loaded(x)' => processed'[x] = <<>>
    <2>1. CASE x = y
      BY <1>2, <1>3, <1>5, <2>1 DEF Saved
    <2>2. CASE x # y
      BY <1>1, <1>2, <1>4, <2>2, UntouchedFacts
    <2> QED BY <2>1, <2>2
  <1> QED BY <1>6 DEF Recorded

\* A first answer adds itself to the record of its saga.
LEMMA AnswerRecorded ==
  ASSUME HInv, NEW e \in Events, ApplyNew(e), Answers(sagas[e.execution], e)
  PROVE  Recorded'
  <1>1. Recorded /\ TypeOK
    BY DEF HInv, IInv
  <1>2. PICK y \in Executions : y = e.execution
    BY DEF Events
  <1>3. PICK s, h, t : s = sagas[y] /\ h = processed[y] /\ t = After(s, e)
    OBVIOUS
  <1>4. /\ Loaded(y) /\ ~Duplicate(y, e) /\ ~ActionReused(y, e.outcome.action)
        /\ Accepted(s, e, MaxStepAttempts) /\ store' = store
        /\ sagas' = [sagas EXCEPT ![y] = t]
        /\ processed' = [processed EXCEPT ![y] = Append(h, [event |-> e, snapshot |-> t])]
    BY <1>2, <1>3 DEF ApplyNew
  <1>5. s \in Sagas(Plans) /\ CanonicalPlan(s.plan) /\ SagaInv(s)
    BY <1>1, <1>3, <1>4, LoadedFacts DEF HInv, IInv, SoundSagas
  <1>6. t \in Sagas(Plans)
    BY <1>3, <1>4, <1>5, AfterFacts, AttemptsAssumption, SettlementsAssumption
  <1>7. h \in Seq(RecordType) /\ History(y, s, h)
    BY <1>1, <1>3, <1>4 DEF TypeOK, Recorded
  <1>8. \A k \in 1 .. Len(h) :
           /\ h[k].event.id # e.id
           /\ e.outcome.action # NoAction => h[k].event.outcome.action # e.outcome.action
    BY <1>3, <1>4, <1>7 DEF Duplicate, ActionReused
  <1>9. PICK r : r = [event |-> e, snapshot |-> t]
    OBVIOUS
  <1>10. r \in RecordType
    BY <1>6, <1>9 DEF RecordType, SagaType
  <1>11. History(y, t, Append(h, r))
    BY <1>2, <1>3, <1>4, <1>5, <1>7, <1>8, <1>9, GrowsFacts
  <1>12. /\ sagas'[y] = t /\ processed'[y] = Append(h, r) /\ Loaded(y)'
         /\ \A x \in Executions : x # y => sagas'[x] = sagas[x] /\ processed'[x] = processed[x]
    BY <1>1, <1>4, <1>6, <1>9, NothingAssumption DEF TypeOK, Loaded
  <1>13. Saved(y) => Continues(Append(h, r), store[y].processed)
    <2> HAVE Saved(y)
    <2>1. store[y].processed \in Seq(RecordType) /\ Continues(h, store[y].processed)
      BY <1>1, <1>3, <1>4, SavedFacts DEF Recorded
    <2> QED BY <1>7, <1>10, <2>1, ContinuesFacts
  <1>14. ASSUME NEW x \in Executions
         PROVE  /\ Loaded(x)' => History(x, sagas'[x], processed'[x])
                /\ Saved(x)' => History(x, store'[x].saga, store'[x].processed)
                /\ Saved(x)' /\ Loaded(x)' => Continues(processed'[x], store'[x].processed)
                /\ ~Loaded(x)' => processed'[x] = <<>>
    <2>1. CASE x = y
      BY <1>1, <1>4, <1>11, <1>12, <1>13, <2>1 DEF Recorded, Saved
    <2>2. CASE x # y
      BY <1>1, <1>4, <1>12, <2>2, UntouchedFacts
    <2> QED BY <2>1, <2>2
  <1> QED BY <1>14 DEF Recorded

\* Checkpoint copies the record with the saga, Restore brings it back with it.
LEMMA CopyRecorded ==
  ASSUME HInv, NEW y \in Executions, Save(y) \/ RestoreLive(y)
  PROVE  Recorded'
  <1>1. Recorded /\ TypeOK
    BY DEF HInv, IInv
  <1>2. ASSUME NEW x \in Executions, x = y
        PROVE  /\ Loaded(x)' => History(x, sagas'[x], processed'[x])
               /\ Saved(x)' => History(x, store'[x].saga, store'[x].processed)
               /\ Saved(x)' /\ Loaded(x)' => Continues(processed'[x], store'[x].processed)
               /\ ~Loaded(x)' => processed'[x] = <<>>
    <2>1. CASE Save(y)
      <3>1. Loaded(y) /\ sagas' = sagas /\ processed' = processed /\ store'[y] = Checkpoint(y)
        BY <1>1, <2>1 DEF Save, TypeOK
      <3>2. /\ store'[y].saga = sagas[y] /\ store'[y].processed = processed[y]
        BY <3>1 DEF Checkpoint
      <3>3. processed[y] \in Seq(RecordType) /\ History(y, sagas[y], processed[y])
        BY <1>1, <3>1 DEF TypeOK, Recorded
      <3> QED BY <1>2, <3>1, <3>2, <3>3, ContinuesFacts DEF Loaded
    <2>2. CASE RestoreLive(y)
      <3>1. /\ Saved(y) /\ store' = store
            /\ sagas'[y] = store[y].saga /\ processed'[y] = store[y].processed
        BY <1>1, <2>2 DEF RestoreLive, Restore, Saved, TypeOK
      <3>2. /\ store[y].saga \in Sagas(Plans) /\ store[y].processed \in Seq(RecordType)
            /\ History(y, store[y].saga, store[y].processed)
        BY <1>1, <3>1, SavedFacts DEF Recorded
      <3>3. Loaded(y)'
        BY <3>1, <3>2, NothingAssumption DEF Loaded
      <3> QED BY <1>2, <3>1, <3>2, <3>3, ContinuesFacts
    <2> QED BY <2>1, <2>2
  <1>3. ASSUME NEW x \in Executions, x # y
        PROVE  /\ Loaded(x)' => History(x, sagas'[x], processed'[x])
               /\ Saved(x)' => History(x, store'[x].saga, store'[x].processed)
               /\ Saved(x)' /\ Loaded(x)' => Continues(processed'[x], store'[x].processed)
               /\ ~Loaded(x)' => processed'[x] = <<>>
    <2>1. sagas'[x] = sagas[x] /\ processed'[x] = processed[x] /\ store'[x] = store[x]
      BY <1>1, <1>3 DEF Save, RestoreLive, Restore, TypeOK
    <2> QED BY <1>1, <2>1, UntouchedFacts
  <1> QED BY <1>2, <1>3 DEF Recorded

\* A restart forgets the memory and keeps the disk.
LEMMA RestartRecorded == ASSUME HInv, Restart PROVE Recorded'
  <1>1. /\ \A x \in Executions : ~Loaded(x)' /\ processed'[x] = <<>>
        /\ store' = store
    BY DEF Restart, Loaded
  <1> QED BY <1>1 DEF HInv, Recorded, Saved

\* The invariant is inductive.
LEMMA HistorySteps == ASSUME HInv, [Next]_vars PROVE HInv'
  <1>1. IInv'
    BY StepFacts DEF HInv
  <1>2. Recorded'
    <2>1. CASE \E snapshot \in [Items -> Nat] : SynchronizeInventory(snapshot)
      BY <2>1 DEF SynchronizeInventory, HInv, Recorded, Loaded, Saved
    <2>2. CASE UNCHANGED vars
      BY <2>2 DEF vars, HInv, Recorded, Loaded, Saved
    <2> QED BY <2>1, <2>2, AnsweredCases, BeginRecorded, AnswerRecorded, CopyRecorded,
               RestartRecorded
  <1> QED BY <1>1, <1>2 DEF HInv

\* Nothing is recorded before anything is begun.
LEMMA NothingRecorded == ASSUME Init PROVE HInv
  <1>1. \A x \in Executions : ~Loaded(x) /\ ~Saved(x) /\ processed[x] = <<>>
    BY DEF Init, Loaded, Saved
  <1> QED BY <1>1, InitFacts DEF HInv, Recorded

-----------------------------------------------------------------------------
(* The theorems.                                                           *)

\* The inductive invariant of the service with its records.
THEOREM HistoryInvariance == Spec => []HInv
  <1>1. Init => HInv
    BY NothingRecorded
  <1>2. HInv /\ [Next]_vars => HInv'
    BY HistorySteps
  <1> QED BY <1>1, <1>2, PTL DEF Spec

\* A fresh answer to the current directive is never taken for a redelivery:
\* the steps and attempts of its key have not been used, whatever was retried,
\* lost and restored before.
THEOREM AnswerTheorem == Spec => []AnswerIsNew
  <1>1. ASSUME HInv, NEW x \in Executions, Loaded(x),
               NEW suffix \in AnswerSuffixes(sagas[x]), NEW k \in DOMAIN processed[x]
        PROVE  processed[x][k].event.id # Key(sagas[x], suffix)
    <2>1. PICK s, h : s = sagas[x] /\ h = processed[x]
      OBVIOUS
    <2>2. h \in Seq(RecordType) /\ History(x, s, h) /\ s \in Sagas(Plans)
      BY <1>1, <2>1, LoadedFacts DEF HInv, IInv, TypeOK, Recorded
    <2>3. Used(s, h[k].event.id)
      <3>1. k \in 1 .. Len(h)
        BY <2>1, <2>2
      <3> QED BY <2>2, <3>1 DEF History
    <2>4. s.step \in Nat /\ s.attempt \in Nat
      BY <2>2 DEF Sagas
    <2>5. ~Used(s, Key(s, suffix))
      <3>1. ~IsTerminal(s)
        BY <1>1, <2>1 DEF AnswerSuffixes, IsTerminal, TerminalStatuses, RecoveryStatuses
      <3>2. ~(s.status \in RecoveryStatuses /\ suffix = "failed")
        BY <1>1, <2>1 DEF AnswerSuffixes, RecoveryStatuses
      <3> QED BY <2>4, <3>1, <3>2, KeyParts DEF Used
    <2> QED BY <2>1, <2>3, <2>5
  <1>2. HInv => AnswerIsNew
    BY <1>1 DEF AnswerIsNew
  <1> QED BY <1>2, HistoryInvariance, PTL

\* Restore accepts every checkpoint the service can take: replaying the
\* recorded events under its own limit yields the recorded snapshots and the
\* saga, at any moment of any number of sagas, retries and restarts.
THEOREM ReplayTheorem == Spec => []CheckpointsReplay
  <1>1. ASSUME HInv, NEW x \in Executions, Loaded(x)
        PROVE  StrictlyValid(Checkpoint(x), MaxStepAttempts)
    <2>1. PICK c : c = Checkpoint(x)
      OBVIOUS
    <2>2. c.saga = sagas[x] /\ c.processed = processed[x]
      BY <2>1 DEF Checkpoint
    <2>3. /\ sagas[x] \in Sagas(Plans) /\ SagaInv(sagas[x])
          /\ processed[x] \in Seq(RecordType) /\ History(x, sagas[x], processed[x])
      BY <1>1, LoadedFacts DEF HInv, IInv, TypeOK, SoundSagas, Recorded
    <2> QED BY <2>1, <2>2, <2>3, StrictFacts
  <1>2. HInv => CheckpointsReplay
    BY <1>1 DEF CheckpointsReplay
  <1> QED BY <1>2, HistoryInvariance, PTL

\* A sequence that continues another has it as a prefix.
LEMMA PrefixFacts ==
  ASSUME NEW h \in Seq(RecordType), NEW earlier \in Seq(RecordType), Continues(h, earlier)
  PROVE  IsPrefix(earlier, h)
  <1>1. Len(earlier) \in Nat /\ Len(h) \in Nat /\ Len(earlier) <= Len(h)
    BY DEF Continues
  <1>2. SubSeq(h, 1, Len(earlier)) = earlier
    <2>1. PICK g : g = SubSeq(h, 1, Len(earlier))
      OBVIOUS
    <2>2. g \in Seq(RecordType) /\ Len(g) = Len(earlier)
      BY <1>1, <2>1, SubSeqProperties
    <2>3. \A k \in 1 .. Len(earlier) : g[k] = h[k]
      BY <1>1, <2>1
    <2>4. \A k \in 1 .. Len(earlier) : g[k] = earlier[k]
      BY <2>3 DEF Continues
    <2> QED BY <2>1, <2>2, <2>4, SeqEqual
  <1>3. SubSeq(earlier, 1, Len(earlier)) = earlier
    BY <1>1, SubSeqProperties
  <1> QED BY <1>1, <1>2, <1>3 DEF IsPrefix

\* A saved answer is never forgotten: the record on disk only grows, however
\* often the process restarts between two saves.
THEOREM DurableTheorem == Spec => DurableHistory
  <1>1. ASSUME HInv, [Next]_vars, NEW x \in Executions, store[x] # NoCheckpoint
        PROVE  IsPrefix(store[x].processed, store'[x].processed)
    <2>1. Saved(x) /\ TypeOK /\ Recorded
      BY <1>1 DEF Saved, HInv, IInv
    <2>2. store[x].processed \in Seq(RecordType)
      BY <2>1, SavedFacts
    <2>3. CASE store' = store
      <3>1. Continues(store[x].processed, store[x].processed)
        BY <2>2, ContinuesFacts
      <3> QED BY <2>2, <2>3, <3>1, PrefixFacts
    <2>4. CASE \E y \in Executions : Save(y)
      <3>1. PICK y \in Executions : Save(y)
        BY <2>4
      <3>2. /\ Loaded(y) /\ store' = [store EXCEPT ![y] = Checkpoint(y)]
            /\ Checkpoint(y).processed = processed[y]
        BY <3>1 DEF Save, Checkpoint
      <3>3. CASE x = y
        <4>1. store'[x].processed = processed[x]
          BY <2>1, <3>2, <3>3 DEF TypeOK
        <4>2. processed[x] \in Seq(RecordType) /\ Continues(processed[x], store[x].processed)
          BY <2>1, <3>2, <3>3 DEF TypeOK, Recorded
        <4> QED BY <2>2, <4>1, <4>2, PrefixFacts
      <3>4. CASE x # y
        <4>1. store'[x] = store[x]
          BY <2>1, <3>2, <3>4 DEF TypeOK
        <4>2. Continues(store[x].processed, store[x].processed)
          BY <2>2, ContinuesFacts
        <4> QED BY <2>2, <4>1, <4>2, PrefixFacts
      <3> QED BY <3>3, <3>4
    <2>5. store' = store \/ \E y \in Executions : Save(y)
      BY <1>1, AnsweredCases
         DEF Begin, ApplyNew, RestoreLive, Restore, SynchronizeInventory, Restart, vars
    <2> QED BY <2>3, <2>4, <2>5
  <1>2. HInv /\ [Next]_vars =>
          [\A x \in Executions : store[x] # NoCheckpoint =>
              IsPrefix(store[x].processed, store'[x].processed)]_vars
    BY <1>1
  <1> QED BY <1>2, HistoryInvariance, PTL DEF Spec, DurableHistory

\* The saga is the sum of its facts, for every plan, whatever the outcomes,
\* and however the events are redelivered, saved and restored.
THEOREM FactsTheorem == Spec => []FactsExplainSaga
  <1>1. HInv => FactsExplainSaga
    BY DEF HInv, Recorded, History, Tallied, FactsExplainSaga
  <1> QED BY <1>1, HistoryInvariance, PTL
=============================================================================

---------------------------- MODULE TradeService ----------------------------
(***************************************************************************)
(* trading.Service: the in-memory owner of every saga and of the account   *)
(* inventory, with the checkpoints its caller saves and gives back after a *)
(* restart.  Every method runs under one mutex, so an action is a method.  *)
(*                                                                         *)
(* Events are the ones automation.TradeRunner builds: their ID is the      *)
(* idempotency key of the directive (step, attempt) and a suffix naming    *)
(* the fact.  What the observer read (the outcome, the settlement, the     *)
(* time) is arbitrary, and a processed event may be delivered again at any *)
(* later time, after a restart included.  An event whose effect a restart  *)
(* lost dies with the process that built it.                               *)
(***************************************************************************)
EXTENDS Saga, SequencesExt

CONSTANTS
    Plans,                \* canonical opportunities that pass the risk checks
    MaxStepAttempts,      \* Config.MaxStepAttempts
    NoSaga, NoExecution, NoCheckpoint,
    ObservedOutcomes,     \* outcomes the observer may report, action left out
    ObservedSettlements,  \* settlements the observer may report
    ObservedInventories,  \* account snapshots the scanner may report
    Times,                \* readings of the clock
    MaxActions,           \* bound: monetary UI actions in a behaviour
    MaxRestarts           \* bound: process restarts in a behaviour

ASSUME AttemptsAssumption == MaxStepAttempts \in Nat \ {0}
ASSUME PlansAssumption == \A p \in Plans : CanonicalPlan(p)
ASSUME OutcomesAssumption == ObservedOutcomes \subseteq Outcomes
ASSUME SettlementsAssumption ==
    ObservedSettlements \subseteq Settlements /\ NoSettlement \notin Settlements
ASSUME InventoriesAssumption == ObservedInventories \subseteq [Items -> Nat]
ASSUME TimesAssumption == Times \subseteq Nat
ASSUME NothingAssumption ==
    NoExecution \notin Executions /\ NoSaga \notin Sagas(Plans)
ASSUME BoundsAssumption == MaxActions \in Nat /\ MaxRestarts \in Nat

VARIABLES
    sagas,       \* Service.sagas: the snapshot of each execution, or NoSaga
    processed,   \* sagaState.processed of each execution, in version order
    activeID,    \* Service.activeID
    inventory,   \* quantities held by inventory.Tracker
    store,       \* the checkpoint last saved for each execution
    actions,     \* monetary UI actions confirmed so far; the next ID is new
    restarts     \* process restarts so far

vars == <<sagas, processed, activeID, inventory, store, actions, restarts>>

-----------------------------------------------------------------------------
Loaded(x) == sagas[x] # NoSaga

Init ==
    /\ sagas = [x \in Executions |-> NoSaga]
    /\ processed = [x \in Executions |-> <<>>]
    /\ activeID = NoExecution
    /\ inventory = NoItems
    /\ store = [x \in Executions |-> NoCheckpoint]
    /\ actions = 0
    /\ restarts = 0

\* Mutant: a second trade may start while one is live.
BeginWhileActive(x, p, now) ==
    /\ ~Loaded(x) /\ store[x] = NoCheckpoint
    /\ sagas' = [sagas EXCEPT ![x] = InitialSaga(x, p, now)]
    /\ activeID' = x
    /\ UNCHANGED <<processed, inventory, store, actions, restarts>>

(***************************************************************************)
(* Begin.  Repeating the request of a known execution returns its snapshot *)
(* (or a conflict) and changes nothing.  Execution identifiers are fresh:  *)
(* the engine builds them from the clock and a counter.                    *)
(***************************************************************************)
Begin(x, p, now) ==
    /\ ~Loaded(x) /\ store[x] = NoCheckpoint
    /\ activeID = NoExecution
    /\ sagas' = [sagas EXCEPT ![x] = InitialSaga(x, p, now)]
    /\ activeID' = x
    /\ UNCHANGED <<processed, inventory, store, actions, restarts>>

\* Mutant: a scan replaces the inventory under a live saga.
SynchronizeAnytime(snapshot) ==
    /\ inventory' = snapshot
    /\ UNCHANGED <<sagas, processed, activeID, store, actions, restarts>>

(* SynchronizeInventory: a complete account snapshot, never during a saga. *)
SynchronizeInventory(snapshot) ==
    /\ activeID = NoExecution
    /\ inventory' = snapshot
    /\ UNCHANGED <<sagas, processed, activeID, store, actions, restarts>>

-----------------------------------------------------------------------------
(***************************************************************************)
(* Apply.  A known event ID is answered from the record (or refused if its *)
(* content differs): nothing changes.  A monetary action already bound to  *)
(* another event of the saga is refused.                                   *)
(***************************************************************************)
\* Mutant: event identifiers are not remembered.
NeverDuplicate(x, e) == FALSE

Duplicate(x, e) == \E k \in DOMAIN processed[x] : processed[x][k].event.id = e.id

ActionReused(x, a) ==
    /\ a # NoAction
    /\ \E k \in DOMAIN processed[x] : processed[x][k].event.outcome.action = a

\* Tracker.Apply: all deltas or none, and no quantity below zero.
InventoryAfter(o) == [i \in Items |-> inventory[i] + o.deltas[i]]
InventoryAccepts(o) == \A i \in Items : InventoryAfter(o)[i] >= 0

ApplyNew(e) ==
    LET x == e.execution
        s == sagas[x]
        next == After(s, e)
    IN  /\ Loaded(x)
        /\ ~Duplicate(x, e)
        /\ ~ActionReused(x, e.outcome.action)
        /\ Accepted(s, e, MaxStepAttempts)
        /\ InventoryAccepts(e.outcome)
        /\ inventory' = InventoryAfter(e.outcome)
        /\ sagas' = [sagas EXCEPT ![x] = next]
        /\ processed' = [processed EXCEPT ![x] =
                            Append(@, [event |-> e, snapshot |-> next])]
        /\ activeID' = IF IsTerminal(next) /\ activeID = x THEN NoExecution
                       ELSE activeID
        /\ actions' = IF e.outcome.action > actions THEN e.outcome.action ELSE actions
        /\ UNCHANGED <<store, restarts>>

AnswerDuplicate(e) ==
    /\ Loaded(e.execution) /\ Duplicate(e.execution, e)
    /\ UNCHANGED vars

Apply(e) == ApplyNew(e) \/ AnswerDuplicate(e)

\* Next: the directive of a live saga, and so the ID of the event that answers it.
Key(s, suffix) == <<s.step, s.attempt, suffix>>

\* No action, the latest one again, or a new one.
ActionIDs == {NoAction, actions} \cup (IF actions < MaxActions THEN {actions + 1} ELSE {})

StepEvent(s, o, reason, now) ==
    [id |-> Key(s, IF reason = "" THEN "success" ELSE "failed"),
     execution |-> s.id, step |-> s.step,
     kind |-> IF reason = "" THEN "STEP_SUCCEEDED" ELSE "STEP_FAILED",
     outcome |-> o, reason |-> reason, resolution |-> "",
     settlement |-> NoSettlement, at |-> now]

RecoveryEvent(s, o, resolution, now) ==
    [id |-> Key(s, resolution), execution |-> s.id, step |-> s.step,
     kind |-> "RECOVERY_RESOLVED", outcome |-> o, reason |-> "",
     resolution |-> resolution, settlement |-> NoSettlement, at |-> now]

SettlementEvent(s, a, now) ==
    [id |-> Key(s, "settled"), execution |-> s.id, step |-> s.step,
     kind |-> "SALE_SETTLED", outcome |-> EmptyOutcome, reason |-> "",
     resolution |-> "", settlement |-> a, at |-> now]

\* The runner reports a missing market slot only while listing.
AtListing(s) == s.step = Len(s.plan.steps)

ApplyStep(x) ==
    /\ Loaded(x)
    /\ \E o \in ObservedOutcomes, a \in ActionIDs, reason \in Reasons, now \in Times :
          /\ reason = "MARKET_SLOT_UNAVAILABLE" => AtListing(sagas[x])
          /\ Apply(StepEvent(sagas[x], [o EXCEPT !.action = a], reason, now))

ApplyRetryOrHold(x) ==
    /\ Loaded(x)
    /\ \E resolution \in {"RETRY", "HOLD"}, now \in Times :
          Apply(RecoveryEvent(sagas[x], EmptyOutcome, resolution, now))

ApplyCompensated(x) ==
    /\ Loaded(x)
    /\ \E o \in ObservedOutcomes, a \in ActionIDs, now \in Times :
          Apply(RecoveryEvent(sagas[x], [o EXCEPT !.action = a], "COMPENSATED", now))

ApplySettlement(x) ==
    /\ Loaded(x)
    /\ \E a \in ObservedSettlements, now \in Times :
          Apply(SettlementEvent(sagas[x], a, now))

Redeliver(x) == \E k \in DOMAIN processed[x] : Apply(processed[x][k].event)

-----------------------------------------------------------------------------
(* Checkpoint, a restart of the process, Restore.                          *)

Checkpoint(x) ==
    [saga |-> sagas[x], processed |-> processed[x], inventory |-> inventory]

Save(x) ==
    /\ Loaded(x)
    /\ store' = [store EXCEPT ![x] = Checkpoint(x)]
    /\ UNCHANGED <<sagas, processed, activeID, inventory, actions, restarts>>

Restart ==
    /\ restarts < MaxRestarts
    /\ restarts' = restarts + 1
    /\ sagas' = [x \in Executions |-> NoSaga]
    /\ processed' = [x \in Executions |-> <<>>]
    /\ activeID' = NoExecution
    /\ inventory' = NoItems
    /\ UNCHANGED <<store, actions>>

\* Mutant: the saga comes back without the events it has processed.
RestoreWithoutHistory(x) ==
    LET c == store[x] IN
    /\ c # NoCheckpoint /\ ~Loaded(x) /\ activeID = NoExecution
    /\ inventory' = c.inventory
    /\ sagas' = [sagas EXCEPT ![x] = c.saga]
    /\ activeID' = x
    /\ UNCHANGED <<processed, store, actions, restarts>>

(***************************************************************************)
(* Restore.  An execution that is loaded already is answered or refused.   *)
(* Only a checkpoint of a live saga needs the service to be idle.          *)
(***************************************************************************)
Restore(x) ==
    LET c == store[x] IN
    /\ c # NoCheckpoint
    /\ StrictlyValid(c, MaxStepAttempts)
    /\ ~Loaded(x)
    /\ activeID = NoExecution \/ IsTerminal(c.saga)
    /\ inventory' = c.inventory
    /\ sagas' = [sagas EXCEPT ![x] = c.saga]
    /\ processed' = [processed EXCEPT ![x] = c.processed]
    /\ activeID' = IF IsTerminal(c.saga) THEN activeID ELSE x
    /\ UNCHANGED <<store, actions, restarts>>

\* The engine gives back live sagas only (engine.recover skips the rest).
RestoreLive(x) ==
    /\ store[x] # NoCheckpoint /\ ~IsTerminal(store[x].saga)
    /\ Restore(x)

-----------------------------------------------------------------------------
ServiceStep(x) ==
    \/ \E p \in Plans, now \in Times : Begin(x, p, now)
    \/ ApplyStep(x)
    \/ ApplyRetryOrHold(x)
    \/ ApplyCompensated(x)
    \/ ApplySettlement(x)
    \/ Redeliver(x)
    \/ Save(x)

Next ==
    \/ \E x \in Executions : ServiceStep(x) \/ RestoreLive(x)
    \/ \E snapshot \in ObservedInventories : SynchronizeInventory(snapshot)
    \/ Restart

Spec == Init /\ [][Next]_vars

-----------------------------------------------------------------------------
(* Properties.                                                             *)

\* Every variable holds a value the code's types and validations allow.
SagaType == Sagas(Plans)

RecordType == [event : Events, snapshot : SagaType]

CheckpointType ==
    [saga : SagaType, processed : Seq(RecordType), inventory : [Items -> Nat]]

TypeOK ==
    /\ sagas \in [Executions -> SagaType \cup {NoSaga}]
    /\ processed \in [Executions -> Seq(RecordType)]
    /\ activeID \in Executions \cup {NoExecution}
    /\ inventory \in [Items -> Nat]
    /\ store \in [Executions -> CheckpointType \cup {NoCheckpoint}]
    /\ actions \in Nat
    /\ restarts \in Nat

\* At most one trade is under way: the live saga, if any, is the active one,
\* and the active identifier never points at a finished or unknown saga.
OneActiveSaga ==
    /\ \A x \in Executions : Loaded(x) /\ ~IsTerminal(sagas[x]) => activeID = x
    /\ activeID # NoExecution => Loaded(activeID) /\ ~IsTerminal(sagas[activeID])

\* What the active saga claims to hold is in the account inventory, through
\* redeliveries, restarts and synchronisations.
HoldingsInInventory ==
    activeID # NoExecution =>
        \A i \in Items : sagas[activeID].holdings[i] <= inventory[i]

\* The budget is reserved exactly while the saga lives, and verified purchases
\* never exceed what Begin reserved.
BudgetCoversCost ==
    \A x \in Executions : Loaded(x) =>
        /\ sagas[x].cost <= InputCost(sagas[x].plan)
        /\ sagas[x].budget = IF IsTerminal(sagas[x]) THEN 0 ELSE InputCost(sagas[x].plan)

\* FAILED is reserved for trades that left nothing behind: no money, no items,
\* no market order.
FailedSpentNothing ==
    \A x \in Executions : Loaded(x) /\ sagas[x].status = "FAILED" =>
        /\ sagas[x].cost = 0 /\ sagas[x].revenue = 0 /\ sagas[x].fees = 0
        /\ sagas[x].holdings = NoItems /\ sagas[x].order = NoOrder

\* A trade closed by a sale or a compensation holds no items; COMPLETED also
\* means the plan's money was met to the unit.
ClosedTradeIsWhole ==
    \A x \in Executions : Loaded(x) =>
        LET s == sagas[x] IN
        /\ s.status \in {"COMPLETED", "COMPLETED_MISMATCH", "COMPENSATED"} =>
              s.holdings = NoItems
        /\ s.status = "COMPLETED" =>
              /\ s.cost = InputCost(s.plan) /\ s.revenue = s.plan.revenue
              /\ s.fees = s.plan.fees /\ s.order # NoOrder

\* The event that answers the current directive has an identifier no processed
\* event has, so a fresh fact is never mistaken for a redelivery.
AnswerSuffixes(s) ==
    CASE s.status = "RUNNING" -> {"success", "failed"}
      [] s.status \in RecoveryStatuses -> {"RETRY", "HOLD", "COMPENSATED"}
      [] s.status = "AWAITING_SALE" -> {"settled"}
      [] OTHER -> {}

AnswerIsNew ==
    \A x \in Executions : Loaded(x) =>
        \A suffix \in AnswerSuffixes(sagas[x]), k \in DOMAIN processed[x] :
            processed[x][k].event.id # Key(sagas[x], suffix)

\* a[1] + ... + a[n].
RunningTotal(a, n) ==
    LET total[k \in Nat] == IF k = 0 THEN 0 ELSE total[k - 1] + a[k]
    IN  total[n]

Total(history, Amount(_)) ==
    RunningTotal([k \in DOMAIN history |-> Amount(history[k].event)], Len(history))

Progress(e, step) == IF e.step = step THEN e.outcome.completed ELSE 0
Retries(e, step) == IF e.step = step /\ e.resolution = "RETRY" THEN 1 ELSE 0

Explained(s, history) ==
    /\ s.cost = Total(history, LAMBDA e : e.outcome.cost)
    /\ \A i \in Items : s.holdings[i] = Total(history, LAMBDA e : e.outcome.deltas[i])
    /\ s.status \notin {"COMPLETED", "COMPLETED_MISMATCH"} =>
          s.fees = Total(history, LAMBDA e : e.outcome.fees)
    /\ s.progress = Total(history, LAMBDA e : Progress(e, s.step))
    /\ s.attempt = Total(history, LAMBDA e : Retries(e, s.step))
    /\ s.version = Len(history) + 1

\* The saga is the sum of its facts: money, items, progress on the current
\* step, attempts and version all follow from the distinct processed events,
\* however they were redelivered, saved and restored.
FactsExplainSaga == \A x \in Executions : Loaded(x) => Explained(sagas[x], processed[x])

\* Whatever the service can save, strict validation accepts: a checkpoint
\* taken at any moment can be restored.
CheckpointsReplay ==
    \A x \in Executions : Loaded(x) => StrictlyValid(Checkpoint(x), MaxStepAttempts)

\* The audit of the engine reads every checkpoint through MonetaryActionIDs,
\* which validates it under a limit of its own.
AuditedAttempts == 3
AuditReadsCheckpoints ==
    \A x \in Executions : store[x] # NoCheckpoint => StrictlyValid(store[x], AuditedAttempts)

\* A finished trade never changes again, in memory or on disk, whatever is
\* delivered, saved or restored afterwards.
TerminalIsFinal ==
    [][\A x \in Executions :
          /\ Loaded(x) /\ IsTerminal(sagas[x]) => sagas'[x] \in {sagas[x], NoSaga}
          /\ store[x] # NoCheckpoint /\ IsTerminal(store[x].saga) =>
                store'[x].saga = store[x].saga]_vars

\* A saved answer is never forgotten: later checkpoints extend the recorded
\* events and replies of earlier ones, across restarts.
DurableHistory ==
    [][\A x \in Executions : store[x] # NoCheckpoint =>
          IsPrefix(store[x].processed, store'[x].processed)]_vars

=============================================================================

-------------------------------- MODULE Saga --------------------------------
(***************************************************************************)
(* The workflow of one trade, without its owner: the state a saga keeps,   *)
(* the facts it accepts and what each fact does to it.  It models          *)
(* internal/trading/transitions.go and the parts of service.go that work   *)
(* on one saga (initial state, settlement, strict checkpoint validation).  *)
(*                                                                         *)
(* Steps are numbered from 1 (the code counts from 0); a saga whose step   *)
(* is Len(plan.steps)+1 has run its whole plan.  Money is a natural        *)
(* number: the code's int64 arithmetic is checked and an overflow refuses  *)
(* the event, which leaves the saga as it was.  Inventory deltas are       *)
(* already aggregated per item.  Messages and the reconciliation report    *)
(* are left out, except for the verdict of the report.                     *)
(***************************************************************************)
EXTENDS Integers, Sequences

CONSTANTS
    Executions,      \* identifiers of trade executions
    Items,           \* identifiers of items
    Orders,          \* identifiers of market orders
    NoOrder,         \* the empty market order identifier
    NoSettlement     \* an event without a settlement

-----------------------------------------------------------------------------
(* Values.                                                                 *)

RecoveryStatuses == {"RECOVERING", "WAITING_COOLDOWN", "WAITING_MARKET_SLOT"}

TerminalStatuses ==
    {"COMPLETED", "COMPLETED_MISMATCH", "COMPENSATED", "HELD", "FAILED"}

Statuses == {"RUNNING", "AWAITING_SALE"} \cup RecoveryStatuses \cup TerminalStatuses

Compensations ==
    {"nil", "NONE", "SELL_OR_WAIT", "WAIT_FOR_COOLDOWN", "HOLD_RESULT",
     "QUEUE_FOR_MARKET_SLOT"}

Kinds == {"STEP_SUCCEEDED", "STEP_FAILED", "RECOVERY_RESOLVED", "SALE_SETTLED"}

\* Every failure reason but one is treated alike.
Reasons == {"", "OTHER", "MARKET_SLOT_UNAVAILABLE"}

Resolutions == {"", "RETRY", "HOLD", "COMPENSATED"}

NoAction == 0
NoItems == [i \in Items |-> 0]

Steps ==
    [kind : {"BUY", "BARTER", "LIST"}, item : Items, quantity : Nat \ {0}, price : Nat]

\* What an observer verified after one UI action.
Outcomes ==
    [completed : Nat, cost : Nat, revenue : Nat, fees : Nat,
     action : Nat, order : Orders \cup {NoOrder}, deltas : [Items -> Int]]

Settlements ==
    [execution : Executions, order : Orders \cup {NoOrder}, cost : Nat,
     revenue : Nat, fees : Nat, item : Items, quantity : Nat]

\* An event ID is the step, the attempt and the suffix that names the fact.
Facts == {"success", "failed", "RETRY", "HOLD", "COMPENSATED", "settled"}
EventIDs == Nat \X Nat \X Facts

Events ==
    [id : EventIDs, execution : Executions, kind : Kinds,
     step : Nat, outcome : Outcomes, reason : Reasons, resolution : Resolutions,
     settlement : Settlements \cup {NoSettlement}, at : Nat]

EmptyOutcome ==
    [completed |-> 0, cost |-> 0, revenue |-> 0, fees |-> 0,
     action |-> NoAction, order |-> NoOrder, deltas |-> NoItems]

(***************************************************************************)
(* A canonical plan.  ceiling[k] is the running total buyCost of the first *)
(* k steps, so ceiling[Len(steps)] is the input cost the saga reserves;    *)
(* it never decreases because every line is a product of naturals.         *)
(***************************************************************************)
CanonicalPlan(p) ==
    /\ p.steps \in Seq(Steps) /\ p.steps # <<>>
    /\ p.revenue \in Nat /\ p.fees \in Nat
    /\ p.ceiling \in [0 .. Len(p.steps) -> Nat]
    /\ p.ceiling[0] = 0
    /\ \A k \in 1 .. Len(p.steps) :
          LET step == p.steps[k] IN
          /\ p.ceiling[k] = p.ceiling[k - 1]
                + (IF step.kind = "BUY" THEN step.price * step.quantity ELSE 0)
          /\ step.kind = "BARTER" => step.price = 0
          /\ step.kind = "LIST" <=> k = Len(p.steps)
    /\ \A j, k \in 0 .. Len(p.steps) : j <= k => p.ceiling[j] <= p.ceiling[k]
    /\ \E k \in 1 .. Len(p.steps) : p.steps[k].kind = "BUY"
    /\ LET last == p.steps[Len(p.steps)] IN
          /\ p.revenue = last.price * last.quantity
          /\ p.item = last.item /\ p.quantity = last.quantity

InputCost(p) == p.ceiling[Len(p.steps)]

-----------------------------------------------------------------------------
(* The saga.                                                               *)

Sagas(plans) ==
    [id : Executions, plan : plans, status : Statuses, step : Nat, progress : Nat,
     attempt : Nat, budget : Nat, cost : Nat, revenue : Nat, fees : Nat,
     order : Orders \cup {NoOrder}, holdings : [Items -> Nat],
     compensation : Compensations, version : Nat, started : Nat, updated : Nat]

InitialSaga(x, p, now) ==
    [id |-> x, plan |-> p, status |-> "RUNNING", step |-> 1, progress |-> 0,
     attempt |-> 0, budget |-> InputCost(p), cost |-> 0, revenue |-> 0, fees |-> 0,
     order |-> NoOrder, holdings |-> NoItems, compensation |-> "nil",
     version |-> 1, started |-> now, updated |-> now]

IsTerminal(s) == s.status \in TerminalStatuses

StepOf(s) == s.plan.steps[s.step]
Remaining(s) == StepOf(s).quantity - s.progress

-----------------------------------------------------------------------------
(* Outcomes.                                                               *)

NoEffect(o) ==
    /\ o.cost = 0 /\ o.revenue = 0 /\ o.fees = 0
    /\ o.order = NoOrder /\ o.deltas = NoItems

OnlyDelta(o, item, n) ==
    o.deltas = [i \in Items |-> IF i = item THEN n ELSE 0]

HoldingsAfter(s, o) == [i \in Items |-> s.holdings[i] + o.deltas[i]]

\* Mutant: nobody checks whose items a step consumes.
AttributionUnchecked(s, o) == TRUE

\* A step or a compensation may consume only what the saga itself acquired.
Attributed(s, o) == \A i \in Items : HoldingsAfter(s, o)[i] >= 0

\* Holdings and actual financials move together, once per accepted outcome.
Book(s, o) ==
    [s EXCEPT !.holdings = HoldingsAfter(s, o),
              !.cost = @ + o.cost,
              !.revenue = @ + o.revenue,
              !.fees = @ + o.fees]

\* Mutant: the purchase is not held to its limit price.
BuyWithoutCeiling(s, o) ==
    /\ o.order = NoOrder /\ o.revenue = 0 /\ o.fees = 0
    /\ OnlyDelta(o, StepOf(s).item, o.completed)

BuyVerified(s, o) ==
    /\ o.order = NoOrder /\ o.revenue = 0 /\ o.fees = 0
    /\ o.cost <= StepOf(s).price * o.completed
    /\ OnlyDelta(o, StepOf(s).item, o.completed)

BarterVerified(s, o) ==
    /\ o.order = NoOrder /\ o.cost = 0 /\ o.revenue = 0 /\ o.fees = 0
    /\ o.deltas[StepOf(s).item] >= o.completed

ListVerified(s, o) ==
    /\ o.order # NoOrder /\ s.order \in {NoOrder, o.order}
    /\ o.cost = 0 /\ o.revenue = 0
    /\ s.fees + o.fees <= s.plan.fees
    /\ OnlyDelta(o, StepOf(s).item, -o.completed)

OutcomeVerified(s, o) ==
    \/ o.completed = 0 /\ NoEffect(o)
    \/ /\ o.completed > 0 /\ Attributed(s, o)
       /\ \/ StepOf(s).kind = "BUY" /\ BuyVerified(s, o)
          \/ StepOf(s).kind = "BARTER" /\ BarterVerified(s, o)
          \/ StepOf(s).kind = "LIST" /\ ListVerified(s, o)

\* LIST remembers the order it created; no other outcome carries one.
BookStep(s, o) ==
    [Book(s, o) EXCEPT !.order = IF o.order = NoOrder THEN @ ELSE o.order]

-----------------------------------------------------------------------------
(* STEP_SUCCEEDED and STEP_FAILED.                                         *)

\* Mutant: the status of the saga is not looked at.
StepAcceptedInAnyStatus(s, e) ==
    LET o == e.outcome IN
    /\ e.step = s.step /\ s.step <= Len(s.plan.steps)
    /\ IF e.kind = "STEP_SUCCEEDED"
       THEN e.reason = "" /\ o.completed = Remaining(s)
       ELSE e.reason # "" /\ o.completed < Remaining(s)
    /\ o.completed > 0 => o.action # NoAction
    /\ OutcomeVerified(s, o)

StepAccepted(s, e) ==
    LET o == e.outcome IN
    /\ s.status = "RUNNING" /\ e.step = s.step
    /\ e.settlement = NoSettlement /\ e.resolution = ""
    /\ o.completed <= Remaining(s)
    /\ IF e.kind = "STEP_SUCCEEDED"
       THEN e.reason = "" /\ o.completed = Remaining(s)
       ELSE e.reason # "" /\ o.completed < Remaining(s)
    /\ o.completed > 0 => o.action # NoAction
    /\ OutcomeVerified(s, o)

\* Mutant: the attempts of the finished step are charged to the next one.
AfterSuccessKeepingAttempts(s, o) ==
    [BookStep(s, o) EXCEPT
        !.step = @ + 1, !.progress = 0, !.compensation = "nil",
        !.status = IF s.step = Len(s.plan.steps) THEN "AWAITING_SALE" ELSE "RUNNING"]

AfterSuccess(s, o) ==
    [BookStep(s, o) EXCEPT
        !.step = @ + 1, !.progress = 0, !.attempt = 0, !.compensation = "nil",
        !.status = IF s.step = Len(s.plan.steps) THEN "AWAITING_SALE" ELSE "RUNNING"]

\* Mutant: a failed purchase ends the trade even when part of it was bought.
RouteIgnoringHoldings(kind, reason, empty) ==
    CASE kind = "BUY" -> <<"FAILED", "NONE">>
      [] kind = "BARTER" -> <<"WAITING_COOLDOWN", "WAIT_FOR_COOLDOWN">>
      [] OTHER -> <<"RECOVERING", "HOLD_RESULT">>

\* Where a failed step leads: <<status, compensation plan>>.
FailureRoute(kind, reason, empty) ==
    CASE kind = "BUY" /\ empty -> <<"FAILED", "NONE">>
      [] kind = "BUY" /\ ~empty -> <<"RECOVERING", "SELL_OR_WAIT">>
      [] kind = "BARTER" -> <<"WAITING_COOLDOWN", "WAIT_FOR_COOLDOWN">>
      [] kind = "LIST" /\ reason = "MARKET_SLOT_UNAVAILABLE" ->
            <<"WAITING_MARKET_SLOT", "QUEUE_FOR_MARKET_SLOT">>
      [] OTHER -> <<"RECOVERING", "HOLD_RESULT">>

AfterFailure(s, o, reason) ==
    LET booked == BookStep(s, o)
        route == FailureRoute(StepOf(s).kind, reason, booked.holdings = NoItems)
    IN  [booked EXCEPT !.progress = @ + o.completed,
                       !.status = route[1], !.compensation = route[2]]

-----------------------------------------------------------------------------
(* RECOVERY_RESOLVED.                                                      *)

CompensationVerified(s, o) ==
    /\ o.completed = 0 /\ o.cost = 0 /\ o.order = NoOrder
    /\ o.action # NoAction
    /\ o.deltas # NoItems
    /\ HoldingsAfter(s, o) = NoItems

RecoveryAccepted(s, e, max) ==
    /\ s.status \in RecoveryStatuses /\ e.step = s.step
    /\ e.settlement = NoSettlement /\ e.reason = ""
    /\ \/ /\ e.resolution = "RETRY" /\ e.outcome = EmptyOutcome
          /\ s.attempt + 1 < max
       \/ e.resolution = "HOLD" /\ e.outcome = EmptyOutcome
       \/ e.resolution = "COMPENSATED" /\ CompensationVerified(s, e.outcome)

\* Mutant: a retry is not counted.
RetryUncounted(s) ==
    [s EXCEPT !.status = "RUNNING", !.compensation = "nil"]

AfterRetry(s) ==
    [s EXCEPT !.attempt = @ + 1, !.status = "RUNNING", !.compensation = "nil"]

AfterRecovery(s, e) ==
    CASE e.resolution = "RETRY" -> AfterRetry(s)
      [] e.resolution = "HOLD" -> [s EXCEPT !.status = "HELD"]
      [] OTHER -> [Book(s, e.outcome) EXCEPT !.status = "COMPENSATED",
                                             !.compensation = "nil"]

-----------------------------------------------------------------------------
(* SALE_SETTLED.                                                           *)

\* Reconciliation is exact: any difference is a mismatch.  Profit differs
\* only if one of the three amounts does.
Matched(s, a) ==
    /\ a.cost = InputCost(s.plan) /\ a.revenue = s.plan.revenue /\ a.fees = s.plan.fees
    /\ a.item = s.plan.item /\ a.quantity = s.plan.quantity

\* Mutant: items left over from the plan are ignored.
SettlementIgnoringHoldings(s, e) ==
    LET a == e.settlement IN
    /\ s.status = "AWAITING_SALE" /\ a # NoSettlement
    /\ a.execution = s.id /\ a.order = s.order
    /\ a.cost = s.cost /\ a.revenue >= s.revenue /\ a.fees >= s.fees

SettlementAccepted(s, e) ==
    LET a == e.settlement IN
    /\ s.status = "AWAITING_SALE" /\ a # NoSettlement
    /\ e.outcome = EmptyOutcome /\ e.reason = "" /\ e.resolution = ""
    /\ s.holdings = NoItems
    /\ a.execution = s.id /\ a.order # NoOrder /\ a.order = s.order
    /\ a.cost = s.cost /\ a.revenue >= s.revenue /\ a.fees >= s.fees

AfterSettlement(s, a) ==
    [s EXCEPT !.revenue = a.revenue, !.fees = a.fees,
              !.step = Len(s.plan.steps) + 1, !.progress = 0, !.compensation = "nil",
              !.status = IF Matched(s, a) THEN "COMPLETED" ELSE "COMPLETED_MISMATCH"]

-----------------------------------------------------------------------------
(* One event: the switch over its kind, then the stamping every accepted   *)
(* event gets.                                                             *)

Accepted(s, e, max) ==
    /\ e.at >= s.updated
    /\ \/ e.kind \in {"STEP_SUCCEEDED", "STEP_FAILED"} /\ StepAccepted(s, e)
       \/ e.kind = "RECOVERY_RESOLVED" /\ RecoveryAccepted(s, e, max)
       \/ e.kind = "SALE_SETTLED" /\ SettlementAccepted(s, e)

Transition(s, e) ==
    CASE e.kind = "STEP_SUCCEEDED" -> AfterSuccess(s, e.outcome)
      [] e.kind = "STEP_FAILED" -> AfterFailure(s, e.outcome, e.reason)
      [] e.kind = "RECOVERY_RESOLVED" -> AfterRecovery(s, e)
      [] OTHER -> AfterSettlement(s, e.settlement)

Stamp(s, now) ==
    [s EXCEPT !.version = @ + 1, !.updated = now,
              !.budget = IF IsTerminal(s) THEN 0 ELSE @]

After(s, e) == Stamp(Transition(s, e), e.at)

-----------------------------------------------------------------------------
(***************************************************************************)
(* Strict checkpoint validation: the saga is well formed, events and       *)
(* monetary actions are distinct, and replaying the events from the        *)
(* initial saga, under the limit `max` on step attempts, yields every      *)
(* recorded snapshot and the saved saga.  A checkpoint is [saga,           *)
(* processed, inventory]; processed is in version order, each record an    *)
(* event with the snapshot it produced.                                    *)
(***************************************************************************)
DistinctFacts(processed) ==
    \A j, k \in DOMAIN processed :
        j # k => /\ processed[j].event.id # processed[k].event.id
                 /\ processed[j].event.outcome.action # NoAction =>
                       processed[j].event.outcome.action
                          # processed[k].event.outcome.action

\* Which facts name a monetary action, and what the saved saga must look like.
BoundToAction(e) ==
    IF e.kind = "STEP_FAILED" THEN e.outcome.completed > 0 => e.outcome.action # NoAction
    ELSE e.outcome.action # NoAction
            <=> e.kind = "STEP_SUCCEEDED" \/ e.resolution = "COMPENSATED"

WellFormed(c) ==
    LET s == c.saga IN
    /\ s.updated >= s.started
    /\ s.step <= Len(s.plan.steps) + (IF s.status = "RUNNING" THEN 0 ELSE 1)
    /\ s.status = "AWAITING_SALE" => s.order # NoOrder
    /\ s.budget = IF IsTerminal(s) THEN 0 ELSE InputCost(s.plan)
    /\ s.step <= Len(s.plan.steps) => s.progress < StepOf(s).quantity
    /\ DistinctFacts(c.processed)
    /\ \A k \in DOMAIN c.processed : BoundToAction(c.processed[k].event)

StrictlyValid(c, max) ==
    LET before(k) == IF k = 1 THEN InitialSaga(c.saga.id, c.saga.plan, c.saga.started)
                     ELSE c.processed[k - 1].snapshot
    IN  /\ WellFormed(c)
        /\ \A k \in DOMAIN c.processed :
              LET record == c.processed[k] IN
              /\ Accepted(before(k), record.event, max)
              /\ record.snapshot = After(before(k), record.event)
        /\ c.saga = before(Len(c.processed) + 1)
=============================================================================

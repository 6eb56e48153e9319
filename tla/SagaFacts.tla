------------------------------ MODULE SagaFacts ------------------------------
(***************************************************************************)
(* Facts about one saga, for every plan, outcome and settlement: an        *)
(* accepted event keeps the saga well typed and keeps the invariant        *)
(* SagaInv, which bounds the money it spends and says what its terminal    *)
(* statuses mean.  Module TradeServiceProofs lifts them to the service.    *)
(***************************************************************************)
EXTENDS Saga, TLAPS

\* A saga that still works on its plan: step is within it.
Working(s) == s.status \in {"RUNNING"} \cup RecoveryStatuses

\* The current step exists and is not complete.
Positioned(s) ==
    Working(s) => s.step \in 1 .. Len(s.plan.steps) /\ s.progress < StepOf(s).quantity

\* What the finished purchases and the finished part of the current one may
\* have cost.
Allowance(s) ==
    IF Working(s)
    THEN s.plan.ceiling[s.step - 1]
            + (IF StepOf(s).kind = "BUY" THEN StepOf(s).price * s.progress ELSE 0)
    ELSE InputCost(s.plan)

\* Before the listing there is no order, fee or revenue, and only a saga that
\* holds something has paid for something.
Unlisted(s) ==
    /\ s.revenue = 0 /\ s.fees = 0 /\ s.order = NoOrder
    /\ s.holdings = NoItems => s.cost = 0

EarlyIsUnlisted(s) == Working(s) /\ s.step < Len(s.plan.steps) => Unlisted(s)

FailedIsClean(s) ==
    s.status = "FAILED" => Unlisted(s) /\ s.holdings = NoItems

ClosedIsWhole(s) ==
    /\ s.status \in {"COMPLETED", "COMPLETED_MISMATCH", "COMPENSATED"} =>
          s.holdings = NoItems
    /\ s.status = "COMPLETED" =>
          /\ s.cost = InputCost(s.plan) /\ s.revenue = s.plan.revenue
          /\ s.fees = s.plan.fees /\ s.order # NoOrder

BudgetHeld(s) == s.budget = IF IsTerminal(s) THEN 0 ELSE InputCost(s.plan)

\* What every transition keeps; the stamp that follows it settles the budget.
Sound(s) ==
    /\ Positioned(s)
    /\ s.cost <= Allowance(s)
    /\ EarlyIsUnlisted(s)
    /\ FailedIsClean(s)
    /\ ClosedIsWhole(s)

SagaInv(s) == Sound(s) /\ BudgetHeld(s)

-----------------------------------------------------------------------------
(* Plans.                                                                  *)

\* A canonical plan is a non-empty sequence of steps under a growing ceiling,
\* and only its last step lists.
LEMMA PlanFacts ==
  ASSUME NEW p, CanonicalPlan(p)
  PROVE  /\ p.steps \in Seq(Steps) /\ Len(p.steps) \in Nat \ {0}
         /\ InputCost(p) \in Nat
         /\ \A k \in 1 .. Len(p.steps) :
               /\ p.steps[k] \in Steps
               /\ p.ceiling[k - 1] \in Nat /\ p.ceiling[k] \in Nat
               /\ p.ceiling[k - 1] <= p.ceiling[k]
               /\ p.ceiling[k] <= InputCost(p)
               /\ p.steps[k].kind = "LIST" <=> k = Len(p.steps)
  <1> DEFINE n == Len(p.steps)
  <1>1. p.steps \in Seq(Steps) /\ p.steps # <<>>
    BY DEF CanonicalPlan
  <1>2. n \in Nat \ {0}
    BY <1>1
  <1>3. p.ceiling \in [0 .. n -> Nat]
    BY DEF CanonicalPlan
  <1>4. \A j, k \in 0 .. n : j <= k => p.ceiling[j] <= p.ceiling[k]
    BY DEF CanonicalPlan
  <1>5. \A k \in 1 .. n : p.steps[k].kind = "LIST" <=> k = n
    BY DEF CanonicalPlan
  <1>6. InputCost(p) \in Nat
    BY <1>2, <1>3 DEF InputCost
  <1>7. ASSUME NEW k \in 1 .. n
        PROVE  /\ p.steps[k] \in Steps
               /\ p.ceiling[k - 1] \in Nat /\ p.ceiling[k] \in Nat
               /\ p.ceiling[k - 1] <= p.ceiling[k]
               /\ p.ceiling[k] <= InputCost(p)
    <2>1. k - 1 \in 0 .. n /\ k \in 0 .. n /\ n \in 0 .. n /\ k - 1 <= k /\ k <= n
      BY <1>2
    <2>2. p.steps[k] \in Steps
      BY <1>1
    <2>3. p.ceiling[k - 1] <= p.ceiling[k] /\ p.ceiling[k] <= p.ceiling[n]
      BY <1>4, <2>1
    <2> QED BY <1>3, <2>1, <2>2, <2>3 DEF InputCost
  <1> QED BY <1>1, <1>2, <1>5, <1>6, <1>7

\* The ceiling grows by the limit price of each purchased unit.
LEMMA CeilingStep ==
  ASSUME NEW p, CanonicalPlan(p), NEW k \in 1 .. Len(p.steps), p.steps[k].kind = "BUY"
  PROVE  p.ceiling[k] = p.ceiling[k - 1] + p.steps[k].price * p.steps[k].quantity
  BY DEF CanonicalPlan

\* A canonical plan starts a saga that satisfies the invariant.
LEMMA InitialSagaFacts ==
  ASSUME NEW plans, NEW p \in plans, CanonicalPlan(p), NEW x \in Executions, NEW now \in Nat
  PROVE  LET s == InitialSaga(x, p, now) IN
         s \in Sagas(plans) /\ SagaInv(s) /\ ~IsTerminal(s) /\ s.holdings = NoItems
  <1> DEFINE s == InitialSaga(x, p, now)
  <1>1. InputCost(p) \in Nat /\ Len(p.steps) \in Nat \ {0} /\ 1 \in 1 .. Len(p.steps)
    BY PlanFacts
  <1>2. p.steps[1] \in Steps /\ p.ceiling[0] = 0
    BY <1>1, PlanFacts DEF CanonicalPlan
  <1>3. s \in Sagas(plans)
    BY <1>1 DEF InitialSaga, Sagas, Statuses, Compensations, NoItems
  <1>4. /\ s.plan = p /\ s.status = "RUNNING" /\ s.step = 1 /\ s.progress = 0
        /\ s.budget = InputCost(p) /\ s.cost = 0 /\ s.revenue = 0 /\ s.fees = 0
        /\ s.order = NoOrder /\ s.holdings = NoItems
    BY DEF InitialSaga
  <1> HIDE DEF s
  <1>5. ~IsTerminal(s)
    BY <1>4 DEF IsTerminal, TerminalStatuses
  <1>6. Positioned(s)
    BY <1>1, <1>2, <1>4 DEF Positioned, StepOf, Steps
  <1>7. s.cost <= Allowance(s)
    <2>1. p.steps[1].price * 0 = 0
      BY <1>2 DEF Steps
    <2> QED BY <1>2, <1>4, <2>1 DEF Allowance, Working, StepOf
  <1> QED BY <1>3, <1>4, <1>5, <1>6, <1>7
          DEF SagaInv, Sound, EarlyIsUnlisted, Unlisted, FailedIsClean, ClosedIsWhole, BudgetHeld, s

-----------------------------------------------------------------------------
(* Booking an outcome.                                                     *)

\* A verified outcome never drives the holdings of the saga below zero.
LEMMA HoldingsType ==
  ASSUME NEW plans, NEW s \in Sagas(plans), NEW o \in Outcomes,
         OutcomeVerified(s, o) \/ HoldingsAfter(s, o) = NoItems
  PROVE  HoldingsAfter(s, o) \in [Items -> Nat]
  <1>1. s.holdings \in [Items -> Nat] /\ o.deltas \in [Items -> Int]
    BY DEF Sagas, Outcomes
  <1>2. HoldingsAfter(s, o) \in [Items -> Int]
    BY <1>1 DEF HoldingsAfter
  <1>3. CASE HoldingsAfter(s, o) = NoItems
    BY <1>3 DEF NoItems
  <1>4. CASE o.completed = 0 /\ NoEffect(o)
    BY <1>1, <1>4 DEF NoEffect, HoldingsAfter, NoItems
  <1>5. CASE Attributed(s, o)
    <2>1. \A i \in Items : HoldingsAfter(s, o)[i] \in Nat
      BY <1>2, <1>5 DEF Attributed
    <2> QED BY <1>2, <2>1
  <1> QED BY <1>3, <1>4, <1>5 DEF OutcomeVerified

\* Book moves the holdings and the financials and nothing else.
LEMMA BookFacts ==
  ASSUME NEW plans, NEW s \in Sagas(plans), NEW o \in Outcomes,
         HoldingsAfter(s, o) \in [Items -> Nat]
  PROVE  LET b == Book(s, o) IN
         /\ b \in Sagas(plans)
         /\ b.holdings = HoldingsAfter(s, o) /\ b.cost = s.cost + o.cost
         /\ b.revenue = s.revenue + o.revenue /\ b.fees = s.fees + o.fees
         /\ b.id = s.id /\ b.plan = s.plan /\ b.status = s.status /\ b.step = s.step
         /\ b.progress = s.progress /\ b.attempt = s.attempt /\ b.budget = s.budget
         /\ b.order = s.order /\ b.updated = s.updated
  <1> DEFINE a == [s EXCEPT !.holdings = HoldingsAfter(s, o), !.cost = s.cost + o.cost]
  <1>1. o.cost \in Nat /\ o.revenue \in Nat /\ o.fees \in Nat
    BY DEF Outcomes
  <1>2. s.cost + o.cost \in Nat /\ s.revenue + o.revenue \in Nat /\ s.fees + o.fees \in Nat
    BY <1>1 DEF Sagas
  <1>3. a \in Sagas(plans)
    BY <1>2 DEF Sagas
  <1> HIDE DEF a
  <1>4. [a EXCEPT !.revenue = s.revenue + o.revenue, !.fees = s.fees + o.fees] \in Sagas(plans)
    BY <1>2, <1>3 DEF Sagas
  <1>5. Book(s, o) = [a EXCEPT !.revenue = s.revenue + o.revenue, !.fees = s.fees + o.fees]
    BY DEF Book, Sagas, a
  <1> QED BY <1>4, <1>5 DEF Book, Sagas

\* A step that finds an order keeps it; everything else is booked.
LEMMA BookStepFacts ==
  ASSUME NEW plans, NEW s \in Sagas(plans), NEW o \in Outcomes,
         HoldingsAfter(s, o) \in [Items -> Nat]
  PROVE  LET b == BookStep(s, o) IN
         /\ b \in Sagas(plans)
         /\ b.holdings = HoldingsAfter(s, o) /\ b.cost = s.cost + o.cost
         /\ b.revenue = s.revenue + o.revenue /\ b.fees = s.fees + o.fees
         /\ b.id = s.id /\ b.plan = s.plan /\ b.status = s.status /\ b.step = s.step
         /\ b.progress = s.progress /\ b.attempt = s.attempt /\ b.budget = s.budget
         /\ b.order = (IF o.order = NoOrder THEN s.order ELSE o.order)
  <1> DEFINE a == Book(s, o)
             order == IF o.order = NoOrder THEN s.order ELSE o.order
  <1>1. order \in Orders \cup {NoOrder}
    BY DEF Outcomes, Sagas
  <1>2. /\ a \in Sagas(plans)
        /\ a.holdings = HoldingsAfter(s, o) /\ a.cost = s.cost + o.cost
        /\ a.revenue = s.revenue + o.revenue /\ a.fees = s.fees + o.fees
        /\ a.id = s.id /\ a.plan = s.plan /\ a.status = s.status /\ a.step = s.step
        /\ a.progress = s.progress /\ a.attempt = s.attempt /\ a.budget = s.budget
        /\ a.order = s.order
    BY BookFacts
  <1>3. BookStep(s, o) = [a EXCEPT !.order = order]
    BY <1>2 DEF BookStep, Sagas
  <1> HIDE DEF a, order
  <1>4. [a EXCEPT !.order = order] \in Sagas(plans)
    BY <1>1, <1>2 DEF Sagas
  <1>5. /\ [a EXCEPT !.order = order].holdings = a.holdings
        /\ [a EXCEPT !.order = order].cost = a.cost
        /\ [a EXCEPT !.order = order].revenue = a.revenue
        /\ [a EXCEPT !.order = order].fees = a.fees
        /\ [a EXCEPT !.order = order].id = a.id
        /\ [a EXCEPT !.order = order].plan = a.plan
        /\ [a EXCEPT !.order = order].status = a.status
        /\ [a EXCEPT !.order = order].step = a.step
        /\ [a EXCEPT !.order = order].progress = a.progress
        /\ [a EXCEPT !.order = order].attempt = a.attempt
        /\ [a EXCEPT !.order = order].budget = a.budget
        /\ [a EXCEPT !.order = order].order = order
    BY <1>2 DEF Sagas
  <1> QED BY <1>2, <1>3, <1>4, <1>5 DEF order

\* The current step of a running saga and what is left of it.
LEMMA PositionFacts ==
  ASSUME NEW plans, NEW s \in Sagas(plans), CanonicalPlan(s.plan), Positioned(s), Working(s)
  PROVE  /\ s.step \in 1 .. Len(s.plan.steps) /\ StepOf(s) \in Steps
         /\ StepOf(s).quantity \in Nat \ {0} /\ StepOf(s).price \in Nat
         /\ s.progress \in Nat /\ s.progress < StepOf(s).quantity
         /\ Remaining(s) \in Nat \ {0}
         /\ s.plan.ceiling[s.step - 1] \in Nat
         /\ StepOf(s).kind = "LIST" <=> s.step = Len(s.plan.steps)
  <1>1. s.step \in 1 .. Len(s.plan.steps) /\ s.progress < StepOf(s).quantity /\ s.progress \in Nat
    BY DEF Positioned, Sagas
  <1>2. /\ StepOf(s) \in Steps /\ s.plan.ceiling[s.step - 1] \in Nat
        /\ StepOf(s).kind = "LIST" <=> s.step = Len(s.plan.steps)
    BY <1>1, PlanFacts DEF StepOf
  <1>3. StepOf(s).quantity \in Nat \ {0} /\ StepOf(s).price \in Nat
    BY <1>2 DEF Steps
  <1> QED BY <1>1, <1>2, <1>3 DEF Remaining

\* A verified outcome of a step stays within the limit price of what it
\* completed, and before the listing leaves the saga without order or revenue.
LEMMA OutcomeFacts ==
  ASSUME NEW plans, NEW s \in Sagas(plans), CanonicalPlan(s.plan), Sound(s),
         s.status = "RUNNING", NEW o \in Outcomes, o.completed <= Remaining(s),
         OutcomeVerified(s, o)
  PROVE  LET b == BookStep(s, o) IN
         /\ b.cost <= s.plan.ceiling[s.step - 1]
                        + (IF StepOf(s).kind = "BUY"
                           THEN StepOf(s).price * (s.progress + o.completed) ELSE 0)
         /\ s.step < Len(s.plan.steps) => Unlisted(b)
  <1> DEFINE b == BookStep(s, o)
             n == Len(s.plan.steps)
             base == s.plan.ceiling[s.step - 1]
             price == StepOf(s).price
             buying == StepOf(s).kind = "BUY"
  <1>1. Working(s)
    BY DEF Working
  <1>2. /\ s.step \in 1 .. n /\ StepOf(s) \in Steps /\ price \in Nat /\ s.progress \in Nat
        /\ base \in Nat /\ (StepOf(s).kind = "LIST" <=> s.step = n)
    BY <1>1, PositionFacts DEF Sound
  <1>3. n \in Nat \ {0}
    BY PlanFacts
  <1>4. HoldingsAfter(s, o) \in [Items -> Nat]
    BY HoldingsType
  <1>5. /\ b.holdings = HoldingsAfter(s, o) /\ b.cost = s.cost + o.cost
        /\ b.revenue = s.revenue + o.revenue /\ b.fees = s.fees + o.fees
        /\ b.order = (IF o.order = NoOrder THEN s.order ELSE o.order)
    BY <1>4, BookStepFacts
  <1>6. o.completed \in Nat /\ o.cost \in Nat /\ o.deltas \in [Items -> Int] /\ s.cost \in Nat
    BY DEF Outcomes, Sagas
  <1>7. s.cost <= base + (IF buying THEN price * s.progress ELSE 0)
    BY <1>1 DEF Sound, Allowance
  <1>8. o.cost <= IF buying THEN price * o.completed ELSE 0
    <2>1. CASE o.completed = 0 /\ NoEffect(o)
      <3>1. price * 0 = 0
        BY <1>2
      <3> QED BY <2>1, <3>1 DEF NoEffect
    <2>2. CASE buying /\ BuyVerified(s, o)
      BY <2>2 DEF BuyVerified
    <2>3. CASE StepOf(s).kind = "BARTER" /\ BarterVerified(s, o)
      BY <2>3 DEF BarterVerified
    <2>4. CASE StepOf(s).kind = "LIST" /\ ListVerified(s, o)
      BY <2>4 DEF ListVerified
    <2> QED BY <2>1, <2>2, <2>3, <2>4 DEF OutcomeVerified
  <1>9. b.cost <= base + (IF buying THEN price * (s.progress + o.completed) ELSE 0)
    <2>1. CASE buying
      <3> DEFINE before == price * s.progress
                 now == price * o.completed
      <3>1. price * (s.progress + o.completed) = before + now
        BY <1>2, <1>6
      <3>2. before \in Nat /\ now \in Nat
        BY <1>2, <1>6
      <3>3. s.cost <= base + before /\ o.cost <= now
        BY <1>7, <1>8, <2>1
      <3> HIDE DEF before, now, base
      <3>4. s.cost + o.cost <= base + (before + now)
        BY <1>2, <1>6, <3>2, <3>3
      <3> QED BY <1>5, <2>1, <3>1, <3>4
    <2>2. CASE ~buying
      <3> HIDE DEF price, base, b
      <3> QED BY <1>2, <1>5, <1>6, <1>7, <1>8, <2>2
    <2> QED BY <2>1, <2>2
  <1>10. ASSUME s.step < n PROVE Unlisted(b)
    <2>1. Unlisted(s) /\ StepOf(s).kind # "LIST"
      BY <1>1, <1>2, <1>10 DEF Sound, EarlyIsUnlisted
    <2>2. CASE o.completed = 0 /\ NoEffect(o)
      <3>1. HoldingsAfter(s, o) = s.holdings
        <4>1. s.holdings \in [Items -> Nat]
          BY DEF Sagas
        <4> QED BY <2>2, <4>1 DEF NoEffect, NoItems, HoldingsAfter
      <3> QED BY <1>5, <1>6, <2>1, <2>2, <3>1 DEF Unlisted, NoEffect
    <2>3. ASSUME o.completed > 0, o.order = NoOrder, o.revenue = 0, o.fees = 0,
                 o.deltas[StepOf(s).item] >= o.completed
          PROVE  Unlisted(b)
      <3>1. StepOf(s).item \in Items
        BY <1>2 DEF Steps
      <3>2. s.holdings[StepOf(s).item] \in Nat /\ o.deltas[StepOf(s).item] \in Int
        BY <1>6, <3>1 DEF Sagas
      <3>3. HoldingsAfter(s, o)[StepOf(s).item] > 0
        BY <1>6, <2>3, <3>1, <3>2 DEF HoldingsAfter
      <3>4. b.holdings # NoItems
        BY <1>5, <3>1, <3>3 DEF NoItems
      <3> QED BY <1>5, <2>1, <2>3, <3>4 DEF Unlisted
    <2>4. CASE o.completed > 0 /\ buying /\ BuyVerified(s, o)
      <3>1. o.deltas[StepOf(s).item] >= o.completed
        BY <1>2, <1>6, <2>4 DEF BuyVerified, OnlyDelta, Steps
      <3> QED BY <2>3, <2>4, <3>1 DEF BuyVerified
    <2>5. CASE o.completed > 0 /\ StepOf(s).kind = "BARTER" /\ BarterVerified(s, o)
      BY <2>3, <2>5 DEF BarterVerified
    <2> QED BY <2>1, <2>2, <2>4, <2>5 DEF OutcomeVerified
  <1> QED BY <1>9, <1>10

-----------------------------------------------------------------------------
(* The four transitions.                                                   *)

\* What a transition may change of the identity and the reservation of a saga.
Same(s, t) == t.id = s.id /\ t.plan = s.plan /\ t.budget = s.budget

\* STEP_SUCCEEDED moves to the next step, or to the sale after the last one.
LEMMA SuccessFacts ==
  ASSUME NEW plans, NEW s \in Sagas(plans), CanonicalPlan(s.plan), Sound(s),
         s.status = "RUNNING", NEW o \in Outcomes, o.completed = Remaining(s),
         OutcomeVerified(s, o)
  PROVE  LET t == AfterSuccess(s, o) IN
         t \in Sagas(plans) /\ Sound(t) /\ Same(s, t) /\ t.holdings = HoldingsAfter(s, o)
  <1> DEFINE b == BookStep(s, o)
             n == Len(s.plan.steps)
             status == IF s.step = n THEN "AWAITING_SALE" ELSE "RUNNING"
             a == [b EXCEPT !.step = s.step + 1, !.progress = 0]
             t == AfterSuccess(s, o)
  <1>1. HoldingsAfter(s, o) \in [Items -> Nat]
    BY HoldingsType
  <1>2. /\ b \in Sagas(plans)
        /\ b.holdings = HoldingsAfter(s, o) /\ b.step = s.step
        /\ b.id = s.id /\ b.plan = s.plan /\ b.budget = s.budget
    BY <1>1, BookStepFacts
  <1>3. Working(s)
    BY DEF Working
  <1>4. /\ s.step \in 1 .. n /\ n \in Nat \ {0} /\ StepOf(s) \in Steps
        /\ StepOf(s).quantity \in Nat /\ StepOf(s).price \in Nat
        /\ s.progress \in Nat /\ Remaining(s) \in Nat \ {0}
    BY <1>3, PositionFacts, PlanFacts DEF Sound
  <1>5. /\ t \in Sagas(plans) /\ Same(s, t)
        /\ t.holdings = b.holdings /\ t.cost = b.cost /\ t.revenue = b.revenue
        /\ t.fees = b.fees /\ t.order = b.order
        /\ t.step = s.step + 1 /\ t.progress = 0 /\ t.status = status /\ t.plan = s.plan
    <2>1. status \in Statuses /\ "nil" \in Compensations
      BY DEF Statuses, Compensations
    <2>2. t = [b EXCEPT !.step = s.step + 1, !.progress = 0, !.attempt = 0,
                        !.compensation = "nil", !.status = status]
      BY <1>2 DEF AfterSuccess, Sagas
    <2> HIDE DEF b, status, t
    <2>3. a \in Sagas(plans)
      <3>1. s.step + 1 \in Nat /\ 0 \in Nat
        BY <1>4
      <3> QED BY <1>2, <3>1 DEF Sagas
    <2>4. t = [a EXCEPT !.attempt = 0, !.compensation = "nil", !.status = status]
      BY <2>2, <1>2 DEF Sagas
    <2>5. a.id = b.id /\ a.plan = b.plan /\ a.budget = b.budget
      BY <1>2 DEF Sagas
    <2>6. /\ t.id = b.id /\ t.plan = b.plan /\ t.budget = b.budget
          /\ t.holdings = b.holdings /\ t.cost = b.cost /\ t.revenue = b.revenue
          /\ t.fees = b.fees /\ t.order = b.order
          /\ t.step = s.step + 1 /\ t.progress = 0 /\ t.status = status
      BY <2>2, <1>2 DEF Sagas
    <2> HIDE DEF a
    <2>7. t \in Sagas(plans)
      BY <2>1, <2>3, <2>4 DEF Sagas
    <2> QED BY <2>6, <2>7, <1>2 DEF Same
  <1>6. /\ b.cost <= s.plan.ceiling[s.step - 1]
                        + (IF StepOf(s).kind = "BUY"
                           THEN StepOf(s).price * (s.progress + o.completed) ELSE 0)
        /\ s.step < n => Unlisted(b)
    BY <1>4, OutcomeFacts DEF Remaining
  <1>7. b.cost <= s.plan.ceiling[s.step]
    <2>1. s.progress + o.completed = StepOf(s).quantity
      BY <1>4 DEF Remaining
    <2>2. b.cost \in Nat /\ s.plan.ceiling[s.step - 1] \in Nat /\ s.plan.ceiling[s.step] \in Nat
          /\ s.plan.ceiling[s.step - 1] <= s.plan.ceiling[s.step]
      BY <1>2, <1>4, PlanFacts DEF Sagas
    <2>3. CASE StepOf(s).kind = "BUY"
      <3>1. s.plan.ceiling[s.step] = s.plan.ceiling[s.step - 1]
                                        + StepOf(s).price * StepOf(s).quantity
        BY <1>4, <2>3, CeilingStep DEF StepOf
      <3> QED BY <1>6, <2>1, <2>3, <3>1
    <2>4. CASE StepOf(s).kind # "BUY"
      <3> HIDE DEF b
      <3> QED BY <1>6, <2>2, <2>4
    <2> QED BY <2>3, <2>4
  <1> HIDE DEF t, b
  <1>8. Positioned(t) /\ t.cost <= Allowance(t)
    <2>1. CASE s.step = n
      <3>1. ~Working(t)
        BY <1>5, <2>1 DEF Working, RecoveryStatuses
      <3>2. InputCost(s.plan) = s.plan.ceiling[s.step]
        BY <2>1 DEF InputCost
      <3> QED BY <1>5, <1>7, <3>1, <3>2 DEF Positioned, Allowance
    <2>2. CASE s.step < n
      <3>1. t.step \in 1 .. n /\ t.step - 1 = s.step
        BY <1>4, <1>5, <2>2
      <3>2. StepOf(t) \in Steps
        BY <1>5, <3>1, PlanFacts DEF StepOf
      <3>3. StepOf(t).quantity \in Nat \ {0} /\ StepOf(t).price * 0 = 0
        BY <3>2 DEF Steps
      <3>4. s.plan.ceiling[s.step] \in Nat
        BY <1>4, PlanFacts
      <3>5. Working(t)
        BY <1>5, <2>2 DEF Working
      <3>6. Allowance(t) = s.plan.ceiling[s.step]
        BY <1>5, <3>1, <3>3, <3>4, <3>5 DEF Allowance
      <3> QED BY <1>5, <1>7, <3>1, <3>3, <3>6 DEF Positioned
    <2> QED BY <1>4, <2>1, <2>2
  <1>9. EarlyIsUnlisted(t)
    <2>1. ASSUME t.step < n PROVE Unlisted(t)
      <3>1. Unlisted(b)
        BY <1>4, <1>5, <1>6, <2>1
      <3> QED BY <1>5, <3>1 DEF Unlisted
    <2> QED BY <1>5, <2>1 DEF EarlyIsUnlisted
  <1>10. FailedIsClean(t) /\ ClosedIsWhole(t)
    BY <1>5 DEF FailedIsClean, ClosedIsWhole
  <1> QED BY <1>2, <1>5, <1>8, <1>9, <1>10 DEF Sound, t

\* No saga has spent more than its plan allows.
LEMMA WithinPlan ==
  ASSUME NEW plans, NEW s \in Sagas(plans), CanonicalPlan(s.plan), Sound(s)
  PROVE  s.cost <= InputCost(s.plan)
  <1> DEFINE base == s.plan.ceiling[s.step - 1]
  <1>1. CASE ~Working(s)
    BY <1>1 DEF Sound, Allowance
  <1>2. CASE Working(s)
    <2>1. /\ s.step \in 1 .. Len(s.plan.steps) /\ StepOf(s) \in Steps
          /\ StepOf(s).quantity \in Nat /\ StepOf(s).price \in Nat
          /\ s.progress \in Nat /\ s.progress < StepOf(s).quantity /\ base \in Nat
      BY <1>2, PositionFacts DEF Sound
    <2>2. /\ base <= s.plan.ceiling[s.step] /\ s.plan.ceiling[s.step] <= InputCost(s.plan)
          /\ s.plan.ceiling[s.step] \in Nat /\ InputCost(s.plan) \in Nat
      BY <2>1, PlanFacts
    <2>3. s.cost \in Nat
      BY DEF Sagas
    <2>4. CASE StepOf(s).kind = "BUY"
      <3>1. s.plan.ceiling[s.step] = base + StepOf(s).price * StepOf(s).quantity
        BY <2>1, <2>4, CeilingStep DEF StepOf
      <3>2. s.cost <= base + StepOf(s).price * s.progress
        BY <1>2, <2>4 DEF Sound, Allowance
      <3> DEFINE spent == StepOf(s).price * s.progress
                 limit == StepOf(s).price * StepOf(s).quantity
      <3>3. spent <= limit /\ spent \in Nat /\ limit \in Nat
        BY <2>1
      <3> HIDE DEF spent, limit, base
      <3> QED BY <2>1, <2>2, <2>3, <3>1, <3>2, <3>3 DEF spent, limit
    <2>5. CASE StepOf(s).kind # "BUY"
      <3>1. s.cost <= base + 0
        BY <1>2, <2>5 DEF Sound, Allowance
      <3> HIDE DEF base
      <3> QED BY <2>1, <2>2, <2>3, <3>1
    <2> QED BY <2>4, <2>5
  <1> QED BY <1>1, <1>2

\* STEP_FAILED books what was verified and leads to a recovery, or to FAILED
\* when a purchase left nothing behind.
LEMMA FailureFacts ==
  ASSUME NEW plans, NEW s \in Sagas(plans), CanonicalPlan(s.plan), Sound(s),
         s.status = "RUNNING", NEW o \in Outcomes, o.completed < Remaining(s),
         OutcomeVerified(s, o), NEW reason \in Reasons
  PROVE  LET t == AfterFailure(s, o, reason) IN
         t \in Sagas(plans) /\ Sound(t) /\ Same(s, t) /\ t.holdings = HoldingsAfter(s, o)
  <1> DEFINE b == BookStep(s, o)
             n == Len(s.plan.steps)
             route == FailureRoute(StepOf(s).kind, reason, b.holdings = NoItems)
             t == AfterFailure(s, o, reason)
  <1>1. HoldingsAfter(s, o) \in [Items -> Nat]
    BY HoldingsType
  <1>2. /\ b \in Sagas(plans)
        /\ b.holdings = HoldingsAfter(s, o) /\ b.step = s.step /\ b.progress = s.progress
        /\ b.id = s.id /\ b.plan = s.plan /\ b.budget = s.budget
    BY <1>1, BookStepFacts
  <1>3. Working(s)
    BY DEF Working
  <1>4. /\ s.step \in 1 .. n /\ n \in Nat \ {0} /\ StepOf(s) \in Steps
        /\ StepOf(s).quantity \in Nat /\ StepOf(s).price \in Nat
        /\ s.progress \in Nat /\ Remaining(s) \in Nat \ {0}
        /\ (StepOf(s).kind = "LIST" <=> s.step = n)
    BY <1>3, PositionFacts, PlanFacts DEF Sound
  <1>5. o.completed \in Nat
    BY DEF Outcomes
  <1>6. /\ route[1] \in RecoveryStatuses \cup {"FAILED"} /\ route[2] \in Compensations
        /\ route[1] = "FAILED" => StepOf(s).kind = "BUY" /\ b.holdings = NoItems
    <2>1. StepOf(s).kind \in {"BUY", "BARTER", "LIST"}
      BY <1>4 DEF Steps
    <2> HIDE DEF b
    <2> QED BY <2>1 DEF FailureRoute, RecoveryStatuses, Compensations
  <1>7. /\ t \in Sagas(plans) /\ Same(s, t)
        /\ t.holdings = b.holdings /\ t.cost = b.cost /\ t.revenue = b.revenue
        /\ t.fees = b.fees /\ t.order = b.order /\ t.plan = s.plan
        /\ t.step = s.step /\ t.progress = s.progress + o.completed /\ t.status = route[1]
    <2>1. t = [b EXCEPT !.progress = s.progress + o.completed,
                        !.status = route[1], !.compensation = route[2]]
      BY <1>2 DEF AfterFailure, Sagas
    <2>2. s.progress + o.completed \in Nat /\ route[1] \in Statuses
      BY <1>4, <1>5, <1>6 DEF Statuses, TerminalStatuses
    <2> HIDE DEF b, t, route
    <2>3. t \in Sagas(plans)
      BY <1>2, <1>6, <2>1, <2>2 DEF Sagas
    <2>4. /\ t.id = b.id /\ t.plan = b.plan /\ t.budget = b.budget
          /\ t.holdings = b.holdings /\ t.cost = b.cost /\ t.revenue = b.revenue
          /\ t.fees = b.fees /\ t.order = b.order /\ t.step = b.step
          /\ t.progress = s.progress + o.completed /\ t.status = route[1]
      BY <2>1, <1>2 DEF Sagas
    <2> QED BY <2>3, <2>4, <1>2 DEF Same
  <1>8. /\ b.cost <= s.plan.ceiling[s.step - 1]
                        + (IF StepOf(s).kind = "BUY"
                           THEN StepOf(s).price * (s.progress + o.completed) ELSE 0)
        /\ s.step < n => Unlisted(b)
    BY <1>4, <1>5, OutcomeFacts
  <1>9. StepOf(t) = StepOf(s)
    BY <1>7 DEF StepOf
  <1> HIDE DEF t, b, route
  <1>10. Positioned(t)
    BY <1>4, <1>5, <1>7, <1>9 DEF Positioned, Remaining
  <1>11. t.status = "FAILED" => Unlisted(t) /\ t.holdings = NoItems /\ t.cost = 0
    <2>1. SUFFICES ASSUME t.status = "FAILED"
                   PROVE  Unlisted(t) /\ t.holdings = NoItems /\ t.cost = 0
      OBVIOUS
    <2>2. StepOf(s).kind = "BUY" /\ b.holdings = NoItems
      BY <1>6, <1>7, <2>1
    <2>3. s.step < n
      BY <1>4, <2>2
    <2> QED BY <1>7, <1>8, <2>2, <2>3 DEF Unlisted
  <1>12. t.cost <= Allowance(t)
    <2>1. CASE t.status = "FAILED"
      <3>1. ~Working(t)
        BY <2>1 DEF Working, RecoveryStatuses
      <3>2. InputCost(s.plan) \in Nat
        BY PlanFacts
      <3> QED BY <1>7, <1>11, <2>1, <3>1, <3>2 DEF Allowance
    <2>2. CASE t.status # "FAILED"
      <3>1. Working(t)
        BY <1>6, <1>7, <2>2 DEF Working
      <3> QED BY <1>7, <1>8, <1>9, <3>1 DEF Allowance
    <2> QED BY <2>1, <2>2
  <1>13. EarlyIsUnlisted(t)
    BY <1>7, <1>8 DEF EarlyIsUnlisted, Unlisted
  <1>14. FailedIsClean(t) /\ ClosedIsWhole(t)
    BY <1>6, <1>7, <1>11 DEF FailedIsClean, ClosedIsWhole, RecoveryStatuses
  <1> QED BY <1>2, <1>7, <1>10, <1>12, <1>13, <1>14 DEF Sound, t, b

\* The empty outcome leaves the holdings alone.
LEMMA EmptyOutcomeFacts ==
  ASSUME NEW plans, NEW s \in Sagas(plans)
  PROVE  HoldingsAfter(s, EmptyOutcome) = s.holdings
  <1>1. s.holdings \in [Items -> Nat]
    BY DEF Sagas
  <1> QED BY <1>1 DEF HoldingsAfter, EmptyOutcome, NoItems

\* RECOVERY_RESOLVED runs the step again, holds what there is, or closes the
\* trade once everything it held is disposed of.
LEMMA RecoveryFacts ==
  ASSUME NEW plans, NEW s \in Sagas(plans), CanonicalPlan(s.plan), Sound(s),
         NEW e \in Events, NEW max \in Nat, RecoveryAccepted(s, e, max)
  PROVE  LET t == AfterRecovery(s, e) IN
         /\ t \in Sagas(plans) /\ Sound(t) /\ Same(s, t)
         /\ t.holdings = HoldingsAfter(s, e.outcome)
  <1> DEFINE t == AfterRecovery(s, e)
  <1>1. Working(s) /\ s.status \in RecoveryStatuses
    BY DEF RecoveryAccepted, Working
  <1>2. s.cost <= InputCost(s.plan) /\ s.attempt + 1 \in Nat /\ s.cost \in Nat
    BY WithinPlan DEF Sagas
  <1>3. e.outcome \in Outcomes
    BY DEF Events
  <1>4. CASE e.resolution = "RETRY"
    <2>1. e.outcome = EmptyOutcome
      BY <1>4 DEF RecoveryAccepted
    <2>2. t = [s EXCEPT !.attempt = s.attempt + 1, !.status = "RUNNING", !.compensation = "nil"]
      BY <1>4 DEF AfterRecovery, AfterRetry, Sagas
    <2>3. t \in Sagas(plans)
      BY <1>2, <2>2 DEF Sagas, Statuses, Compensations
    <2>4. /\ t.id = s.id /\ t.plan = s.plan /\ t.budget = s.budget /\ t.holdings = s.holdings
          /\ t.cost = s.cost /\ t.revenue = s.revenue /\ t.fees = s.fees /\ t.order = s.order
          /\ t.step = s.step /\ t.progress = s.progress /\ t.status = "RUNNING"
      BY <2>2 DEF Sagas
    <2>5. Working(t) /\ StepOf(t) = StepOf(s)
      BY <2>4 DEF Working, StepOf
    <2>6. Positioned(t) /\ t.cost <= Allowance(t)
      BY <1>1, <2>4, <2>5 DEF Sound, Positioned, Allowance
    <2>7. EarlyIsUnlisted(t)
      BY <1>1, <2>4 DEF Sound, EarlyIsUnlisted, Unlisted
    <2>8. FailedIsClean(t) /\ ClosedIsWhole(t)
      BY <2>4 DEF FailedIsClean, ClosedIsWhole
    <2> QED BY <2>1, <2>3, <2>4, <2>6, <2>7, <2>8, EmptyOutcomeFacts DEF Sound, Same
  <1>5. CASE e.resolution = "HOLD"
    <2>1. e.outcome = EmptyOutcome
      BY <1>5 DEF RecoveryAccepted
    <2>2. t = [s EXCEPT !.status = "HELD"]
      BY <1>5 DEF AfterRecovery
    <2>3. t \in Sagas(plans)
      BY <2>2 DEF Sagas, Statuses, TerminalStatuses
    <2>4. /\ t.id = s.id /\ t.plan = s.plan /\ t.budget = s.budget /\ t.holdings = s.holdings
          /\ t.cost = s.cost /\ t.status = "HELD"
      BY <2>2 DEF Sagas
    <2>5. ~Working(t)
      BY <2>4 DEF Working, RecoveryStatuses
    <2>6. Sound(t)
      BY <1>2, <2>4, <2>5
         DEF Sound, Positioned, Allowance, EarlyIsUnlisted, FailedIsClean, ClosedIsWhole
    <2> QED BY <2>1, <2>3, <2>4, <2>6, EmptyOutcomeFacts DEF Same
  <1>6. CASE e.resolution = "COMPENSATED"
    <2> DEFINE b == Book(s, e.outcome)
    <2>1. CompensationVerified(s, e.outcome)
      BY <1>6 DEF RecoveryAccepted
    <2>2. HoldingsAfter(s, e.outcome) = NoItems /\ e.outcome.cost = 0
      BY <2>1 DEF CompensationVerified
    <2>3. /\ b \in Sagas(plans)
          /\ b.holdings = HoldingsAfter(s, e.outcome) /\ b.cost = s.cost + 0
          /\ b.id = s.id /\ b.plan = s.plan /\ b.budget = s.budget
      BY <1>3, <2>2, BookFacts, HoldingsType
    <2>4. t = [b EXCEPT !.status = "COMPENSATED", !.compensation = "nil"]
      BY <1>6 DEF AfterRecovery
    <2> HIDE DEF b
    <2>5. t \in Sagas(plans)
      BY <2>3, <2>4 DEF Sagas, Statuses, TerminalStatuses, Compensations
    <2>6. /\ t.id = b.id /\ t.plan = b.plan /\ t.budget = b.budget
          /\ t.holdings = b.holdings /\ t.cost = b.cost /\ t.status = "COMPENSATED"
      BY <2>3, <2>4 DEF Sagas
    <2>7. ~Working(t)
      BY <2>6 DEF Working, RecoveryStatuses
    <2>8. Sound(t)
      BY <1>2, <2>2, <2>3, <2>6, <2>7
         DEF Sound, Positioned, Allowance, EarlyIsUnlisted, FailedIsClean, ClosedIsWhole
    <2> QED BY <2>3, <2>5, <2>6, <2>8 DEF Same
  <1> QED BY <1>4, <1>5, <1>6 DEF RecoveryAccepted

\* SALE_SETTLED closes a trade that holds nothing, with the facts of the sale.
LEMMA SettlementFacts ==
  ASSUME NEW plans, NEW s \in Sagas(plans), CanonicalPlan(s.plan), Sound(s),
         NEW e \in Events, NoSettlement \notin Settlements, SettlementAccepted(s, e)
  PROVE  LET t == AfterSettlement(s, e.settlement) IN
         /\ t \in Sagas(plans) /\ Sound(t) /\ Same(s, t)
         /\ t.holdings = HoldingsAfter(s, e.outcome)
  <1> DEFINE a == e.settlement
             status == IF Matched(s, a) THEN "COMPLETED" ELSE "COMPLETED_MISMATCH"
             h == [s EXCEPT !.revenue = a.revenue, !.fees = a.fees]
             t == AfterSettlement(s, a)
  <1>1. /\ a \in Settlements /\ a.cost = s.cost /\ a.order # NoOrder /\ a.order = s.order
        /\ s.holdings = NoItems /\ e.outcome = EmptyOutcome
    BY DEF SettlementAccepted, Events
  <1>2. a.revenue \in Nat /\ a.fees \in Nat
    BY <1>1 DEF Settlements
  <1>3. s.cost <= InputCost(s.plan) /\ Len(s.plan.steps) + 1 \in Nat
    BY WithinPlan, PlanFacts
  <1>4. status \in Statuses /\ "nil" \in Compensations /\ status \in {"COMPLETED", "COMPLETED_MISMATCH"}
    BY DEF Statuses, TerminalStatuses, Compensations
  <1>5. t \in Sagas(plans)
    <2>1. h \in Sagas(plans)
      BY <1>2 DEF Sagas
    <2>2. t = [h EXCEPT !.step = Len(s.plan.steps) + 1, !.progress = 0,
                        !.compensation = "nil", !.status = status]
      BY DEF AfterSettlement, Sagas
    <2> DEFINE i == [h EXCEPT !.step = Len(s.plan.steps) + 1, !.progress = 0]
    <2> HIDE DEF h, status
    <2>3. i \in Sagas(plans)
      BY <1>3, <2>1 DEF Sagas
    <2>4. t = [i EXCEPT !.compensation = "nil", !.status = status]
      BY <2>1, <2>2 DEF Sagas
    <2> HIDE DEF i, t
    <2> QED BY <1>4, <2>3, <2>4 DEF Sagas
  <1>6. /\ t.id = s.id /\ t.plan = s.plan /\ t.budget = s.budget /\ t.holdings = s.holdings
        /\ t.cost = s.cost /\ t.revenue = a.revenue /\ t.fees = a.fees /\ t.order = s.order
        /\ t.status = status
    BY DEF AfterSettlement, Sagas
  <1> HIDE DEF t
  <1>7. ~Working(t)
    BY <1>4, <1>6 DEF Working, RecoveryStatuses
  <1>8. ClosedIsWhole(t)
    <2>1. t.status = "COMPLETED" => Matched(s, a)
      BY <1>6
    <2> QED BY <1>1, <1>6, <2>1 DEF ClosedIsWhole, Matched
  <1>9. Sound(t)
    BY <1>3, <1>4, <1>6, <1>7, <1>8
       DEF Sound, Positioned, Allowance, EarlyIsUnlisted, FailedIsClean
  <1> QED BY <1>1, <1>5, <1>6, <1>9, EmptyOutcomeFacts DEF Same, t

-----------------------------------------------------------------------------
(* One event.                                                              *)

\* The stamp counts the event and releases the budget of a finished saga.
LEMMA StampFacts ==
  ASSUME NEW plans, NEW s \in Sagas(plans), Sound(s), s.budget = InputCost(s.plan),
         NEW now \in Nat
  PROVE  LET t == Stamp(s, now) IN
         /\ t \in Sagas(plans) /\ SagaInv(t)
         /\ t.id = s.id /\ t.plan = s.plan /\ t.holdings = s.holdings
  <1> DEFINE budget == IF IsTerminal(s) THEN 0 ELSE s.budget
             t == Stamp(s, now)
  <1>1. budget \in Nat /\ s.version + 1 \in Nat
    BY DEF Sagas
  <1>2. t = [s EXCEPT !.version = s.version + 1, !.updated = now, !.budget = budget]
    BY DEF Stamp, Sagas
  <1>3. t \in Sagas(plans)
    <2> HIDE DEF t, budget
    <2> QED BY <1>1, <1>2 DEF Sagas
  <1>4. /\ t.id = s.id /\ t.plan = s.plan /\ t.holdings = s.holdings
        /\ t.status = s.status /\ t.step = s.step /\ t.progress = s.progress
        /\ t.cost = s.cost /\ t.revenue = s.revenue /\ t.fees = s.fees /\ t.order = s.order
        /\ t.budget = budget
    BY <1>2 DEF Sagas
  <1> HIDE DEF t
  <1>5. /\ Working(t) = Working(s) /\ StepOf(t) = StepOf(s) /\ Allowance(t) = Allowance(s)
        /\ Unlisted(t) = Unlisted(s) /\ IsTerminal(t) = IsTerminal(s)
    BY <1>4 DEF Working, StepOf, Allowance, Unlisted, IsTerminal
  <1>6. Positioned(t) /\ t.cost <= Allowance(t) /\ EarlyIsUnlisted(t)
    BY <1>4, <1>5 DEF Sound, Positioned, EarlyIsUnlisted
  <1>7. FailedIsClean(t) /\ ClosedIsWhole(t)
    BY <1>4, <1>5 DEF Sound, FailedIsClean, ClosedIsWhole
  <1>8. BudgetHeld(t)
    BY <1>4, <1>5 DEF BudgetHeld
  <1> QED BY <1>3, <1>4, <1>6, <1>7, <1>8 DEF SagaInv, Sound, t

\* A finished saga accepts nothing.
LEMMA AcceptedIsLive ==
  ASSUME NEW s, NEW e, NEW max, Accepted(s, e, max)
  PROVE  ~IsTerminal(s)
  BY DEF Accepted, StepAccepted, RecoveryAccepted, SettlementAccepted,
         IsTerminal, TerminalStatuses, RecoveryStatuses

\* The transition an accepted event chooses keeps the saga typed, sound and on
\* its plan, and moves its holdings by exactly the outcome the event reports.
LEMMA TransitionFacts ==
  ASSUME NEW plans, NEW s \in Sagas(plans), CanonicalPlan(s.plan), SagaInv(s),
         NoSettlement \notin Settlements,
         NEW e \in Events, NEW max \in Nat, Accepted(s, e, max)
  PROVE  LET t == Transition(s, e) IN
         /\ t \in Sagas(plans) /\ Sound(t) /\ Same(s, t) /\ s.budget = InputCost(s.plan)
         /\ t.holdings = HoldingsAfter(s, e.outcome)
  <1> DEFINE t == Transition(s, e)
  <1>1. Sound(s) /\ s.budget = InputCost(s.plan)
    BY AcceptedIsLive DEF SagaInv, BudgetHeld
  <1>2. /\ e.outcome \in Outcomes /\ e.reason \in Reasons /\ e.at \in Nat
        /\ e.kind \in Kinds
    BY DEF Events
  <1>3. ASSUME StepAccepted(s, e)
        PROVE  /\ s.status = "RUNNING" /\ OutcomeVerified(s, e.outcome)
               /\ e.kind = "STEP_SUCCEEDED" => e.outcome.completed = Remaining(s)
               /\ e.kind # "STEP_SUCCEEDED" => e.outcome.completed < Remaining(s)
    BY <1>3 DEF StepAccepted
  <1>4. /\ t \in Sagas(plans) /\ Sound(t) /\ Same(s, t)
        /\ t.holdings = HoldingsAfter(s, e.outcome)
    <2>1. CASE e.kind = "STEP_SUCCEEDED"
      <3>1. StepAccepted(s, e)
        BY <2>1 DEF Accepted
      <3>2. t = AfterSuccess(s, e.outcome)
        BY <2>1 DEF Transition
      <3> HIDE DEF t
      <3> QED BY <1>1, <1>2, <1>3, <2>1, <3>1, <3>2, SuccessFacts
    <2>2. CASE e.kind = "STEP_FAILED"
      <3>1. StepAccepted(s, e)
        BY <2>2 DEF Accepted
      <3>2. t = AfterFailure(s, e.outcome, e.reason)
        BY <2>2 DEF Transition
      <3> HIDE DEF t
      <3> QED BY <1>1, <1>2, <1>3, <2>2, <3>1, <3>2, FailureFacts
    <2>3. CASE e.kind = "RECOVERY_RESOLVED"
      <3>1. RecoveryAccepted(s, e, max)
        BY <2>3 DEF Accepted
      <3>2. t = AfterRecovery(s, e)
        BY <2>3 DEF Transition
      <3> HIDE DEF t
      <3> QED BY <1>1, <3>1, <3>2, RecoveryFacts
    <2>4. CASE e.kind = "SALE_SETTLED"
      <3>1. SettlementAccepted(s, e)
        BY <2>4 DEF Accepted
      <3>2. t = AfterSettlement(s, e.settlement)
        BY <2>4 DEF Transition
      <3> HIDE DEF t
      <3> QED BY <1>1, <3>1, <3>2, SettlementFacts
    <2> QED BY <1>2, <2>1, <2>2, <2>3, <2>4 DEF Kinds
  <1> QED BY <1>1, <1>4

\* An accepted event keeps the saga typed, sound and on its plan, and moves
\* its holdings by exactly the outcome the event reports.
LEMMA AfterFacts ==
  ASSUME NEW plans, NEW s \in Sagas(plans), CanonicalPlan(s.plan), SagaInv(s),
         NoSettlement \notin Settlements,
         NEW e \in Events, NEW max \in Nat, Accepted(s, e, max)
  PROVE  LET t == After(s, e) IN
         /\ t \in Sagas(plans) /\ SagaInv(t)
         /\ t.id = s.id /\ t.plan = s.plan
         /\ t.holdings = HoldingsAfter(s, e.outcome)
  <1> DEFINE t == Transition(s, e)
  <1>1. /\ t \in Sagas(plans) /\ Sound(t) /\ Same(s, t) /\ s.budget = InputCost(s.plan)
        /\ t.holdings = HoldingsAfter(s, e.outcome) /\ e.at \in Nat
    BY TransitionFacts DEF Events
  <1>2. After(s, e) = Stamp(t, e.at)
    BY DEF After
  <1> HIDE DEF t
  <1>3. t.budget = InputCost(t.plan)
    BY <1>1 DEF Same
  <1> QED BY <1>1, <1>2, <1>3, StampFacts DEF Same

-----------------------------------------------------------------------------
(* Progress.                                                               *)

\* An accepted event never takes a saga back: it moves to a later step, counts
\* an attempt of the same step, or leaves the saga where it is but no longer
\* running; and the attempts stay within the limit.
LEMMA ProgressFacts ==
  ASSUME NEW plans, NEW s \in Sagas(plans), CanonicalPlan(s.plan), SagaInv(s),
         s.step <= Len(s.plan.steps) + 1, NEW max \in Nat, s.attempt <= max,
         NoSettlement \notin Settlements, NEW e \in Events, Accepted(s, e, max)
  PROVE  LET t == After(s, e) IN
         /\ t.step <= Len(s.plan.steps) + 1 /\ t.attempt <= max
         /\ \/ t.step > s.step
            \/ t.step = s.step /\ t.attempt > s.attempt
            \/ t.step = s.step /\ t.attempt = s.attempt /\ t.status # "RUNNING"
  <1> DEFINE n == Len(s.plan.steps)
             t == Transition(s, e)
             Progress(u) == /\ u.step <= n + 1 /\ u.attempt <= max
                            /\ \/ u.step > s.step
                               \/ u.step = s.step /\ u.attempt > s.attempt
                               \/ u.step = s.step /\ u.attempt = s.attempt
                                     /\ u.status # "RUNNING"
  <1>1. /\ s.step \in Nat /\ s.attempt \in Nat /\ n \in Nat \ {0} /\ Sound(s)
        /\ e.outcome \in Outcomes /\ e.kind \in Kinds /\ e.reason \in Reasons
    BY PlanFacts DEF Sagas, SagaInv, Events
  <1>2. Progress(t)
    <2>1. CASE StepAccepted(s, e) /\ e.kind \in {"STEP_SUCCEEDED", "STEP_FAILED"}
      <3> DEFINE b == BookStep(s, e.outcome)
                 route == FailureRoute(StepOf(s).kind, e.reason, b.holdings = NoItems)
                 end == IF s.step = n THEN "AWAITING_SALE" ELSE "RUNNING"
      <3>1. s.status = "RUNNING" /\ OutcomeVerified(s, e.outcome)
        BY <2>1 DEF StepAccepted
      <3>2. Working(s) /\ Positioned(s)
        BY <1>1, <3>1 DEF Working, Sound
      <3>3. s.step \in 1 .. n /\ StepOf(s) \in Steps
        BY <3>2, PositionFacts
      <3>4. b \in Sagas(plans) /\ b.step = s.step /\ b.attempt = s.attempt
        BY <1>1, <3>1, HoldingsType, BookStepFacts
      <3>5. CASE e.kind = "STEP_SUCCEEDED"
        <4>1. t = [b EXCEPT !.step = s.step + 1, !.progress = 0, !.attempt = 0,
                            !.compensation = "nil", !.status = end]
          BY <3>4, <3>5 DEF Transition, AfterSuccess, Sagas
        <4> HIDE DEF t, b, end
        <4>2. t.step = s.step + 1 /\ t.attempt = 0
          BY <3>4, <4>1 DEF Sagas
        <4> QED BY <1>1, <3>3, <4>2
      <3>6. CASE e.kind = "STEP_FAILED"
        <4>1. route[1] # "RUNNING"
          <5>1. StepOf(s).kind \in {"BUY", "BARTER", "LIST"}
            BY <3>3 DEF Steps
          <5> HIDE DEF b
          <5> QED BY <5>1 DEF FailureRoute
        <4>2. t = [b EXCEPT !.progress = b.progress + e.outcome.completed,
                            !.status = route[1], !.compensation = route[2]]
          BY <3>4, <3>6 DEF Transition, AfterFailure, Sagas
        <4> HIDE DEF t, b, route
        <4>3. t.step = s.step /\ t.attempt = s.attempt /\ t.status = route[1]
          BY <3>4, <4>2 DEF Sagas
        <4> QED BY <1>1, <3>3, <4>1, <4>3
      <3> QED BY <2>1, <3>5, <3>6
    <2>2. CASE RecoveryAccepted(s, e, max) /\ e.kind = "RECOVERY_RESOLVED"
      <3>1. t = AfterRecovery(s, e)
        BY <2>2 DEF Transition
      <3>2. CASE e.resolution = "RETRY"
        <4>1. t = [s EXCEPT !.attempt = s.attempt + 1, !.status = "RUNNING",
                            !.compensation = "nil"]
          BY <3>1, <3>2 DEF AfterRecovery, AfterRetry, Sagas
        <4> HIDE DEF t
        <4>2. t.step = s.step /\ t.attempt = s.attempt + 1
          BY <4>1 DEF Sagas
        <4>3. s.attempt + 1 < max
          BY <2>2, <3>2 DEF RecoveryAccepted
        <4> QED BY <1>1, <4>2, <4>3
      <3>3. CASE e.resolution = "HOLD"
        <4>1. t = [s EXCEPT !.status = "HELD"]
          BY <3>1, <3>3 DEF AfterRecovery
        <4> HIDE DEF t
        <4>2. t.step = s.step /\ t.attempt = s.attempt /\ t.status = "HELD"
          BY <4>1 DEF Sagas
        <4> QED BY <1>1, <4>2
      <3>4. CASE e.resolution = "COMPENSATED"
        <4> DEFINE b == Book(s, e.outcome)
        <4>1. HoldingsAfter(s, e.outcome) = NoItems
          BY <2>2, <3>4 DEF RecoveryAccepted, CompensationVerified
        <4>2. b \in Sagas(plans) /\ b.step = s.step /\ b.attempt = s.attempt
          BY <1>1, <4>1, HoldingsType, BookFacts
        <4>3. t = [b EXCEPT !.status = "COMPENSATED", !.compensation = "nil"]
          BY <3>1, <3>4 DEF AfterRecovery
        <4> HIDE DEF t, b
        <4>4. t.step = s.step /\ t.attempt = s.attempt /\ t.status = "COMPENSATED"
          BY <4>2, <4>3 DEF Sagas
        <4> QED BY <1>1, <4>4
      <3> QED BY <2>2, <3>2, <3>3, <3>4 DEF RecoveryAccepted
    <2>3. CASE SettlementAccepted(s, e) /\ e.kind = "SALE_SETTLED"
      <3> DEFINE a == e.settlement
                 end == IF Matched(s, a) THEN "COMPLETED" ELSE "COMPLETED_MISMATCH"
      <3>1. t = [s EXCEPT !.revenue = a.revenue, !.fees = a.fees, !.step = n + 1,
                          !.progress = 0, !.compensation = "nil", !.status = end]
        BY <2>3 DEF Transition, AfterSettlement
      <3>2. end # "RUNNING"
        OBVIOUS
      <3> HIDE DEF t, end
      <3>3. t.step = n + 1 /\ t.attempt = s.attempt /\ t.status = end
        BY <3>1 DEF Sagas
      <3> QED BY <1>1, <3>2, <3>3
    <2> QED BY <2>1, <2>2, <2>3 DEF Accepted
  <1>3. t \in Sagas(plans)
    BY TransitionFacts
  <1> HIDE DEF t
  <1>4. After(s, e).step = t.step /\ After(s, e).attempt = t.attempt
        /\ After(s, e).status = t.status
    BY <1>3 DEF After, Stamp, Sagas, t
  <1> QED BY <1>2, <1>4

-----------------------------------------------------------------------------
(* The history of a saga.                                                  *)

\* What strict validation asks of a saga besides its budget.
Shaped(s) ==
    /\ s.updated >= s.started
    /\ s.step <= Len(s.plan.steps) + (IF s.status = "RUNNING" THEN 0 ELSE 1)
    /\ s.status = "AWAITING_SALE" => s.order # NoOrder
    /\ s.step <= Len(s.plan.steps) => s.progress < StepOf(s).quantity

\* Where an event of each kind takes the saga.
Turn(s, e, t) ==
    \/ /\ e.kind = "STEP_SUCCEEDED" /\ s.status = "RUNNING"
       /\ t.step = s.step + 1 /\ t.attempt = 0
    \/ /\ e.kind = "STEP_FAILED" /\ s.status = "RUNNING"
       /\ t.step = s.step /\ t.attempt = s.attempt
       /\ t.status = "FAILED" \/ t.status \in RecoveryStatuses
    \/ /\ e.kind = "RECOVERY_RESOLVED" /\ s.status \in RecoveryStatuses /\ t.step = s.step
       /\ \/ t.attempt = s.attempt + 1
          \/ t.attempt = s.attempt /\ t.status \in {"HELD", "COMPENSATED"}
    \/ /\ e.kind = "SALE_SETTLED" /\ s.status = "AWAITING_SALE"
       /\ t.step = Len(s.plan.steps) + 1 /\ t.attempt = s.attempt
       /\ t.status \in {"COMPLETED", "COMPLETED_MISMATCH"}

\* The transition of an accepted event, before the stamp: where it leads, and
\* that strict validation will have nothing to say against it.
LEMMA TurnFacts ==
  ASSUME NEW plans, NEW s \in Sagas(plans), CanonicalPlan(s.plan), SagaInv(s), Shaped(s),
         NoSettlement \notin Settlements, NEW e \in Events, NEW max \in Nat, Accepted(s, e, max)
  PROVE  LET t == Transition(s, e) IN
         /\ t.started = s.started /\ BoundToAction(e) /\ Turn(s, e, t)
         /\ t.step <= Len(s.plan.steps) + (IF t.status = "RUNNING" THEN 0 ELSE 1)
         /\ t.status = "AWAITING_SALE" => t.order # NoOrder
         /\ t.step <= Len(s.plan.steps) => t.progress < s.plan.steps[t.step].quantity
  <1> DEFINE n == Len(s.plan.steps)
             Fits(u) == /\ u.step <= n + (IF u.status = "RUNNING" THEN 0 ELSE 1)
                        /\ u.status = "AWAITING_SALE" => u.order # NoOrder
                        /\ u.step <= n => u.progress < s.plan.steps[u.step].quantity
             Goal(u) == u.started = s.started /\ BoundToAction(e) /\ Turn(s, e, u) /\ Fits(u)
  <1> SUFFICES Goal(Transition(s, e))
    OBVIOUS
  <1>0. PICK t : t = Transition(s, e)
    OBVIOUS
  <1>1. /\ s.step \in Nat /\ s.attempt \in Nat /\ s.progress \in Nat /\ n \in Nat \ {0} /\ Sound(s)
        /\ e.outcome \in Outcomes /\ e.kind \in Kinds /\ e.reason \in Reasons
        /\ e.outcome.completed \in Nat
        /\ \A k \in 1 .. n : s.plan.steps[k] \in Steps /\ s.plan.steps[k].quantity \in Nat \ {0}
    <2>1. e.outcome \in Outcomes /\ e.kind \in Kinds /\ e.reason \in Reasons BY DEF Events
    <2>2. \A k \in 1 .. n : s.plan.steps[k] \in Steps BY PlanFacts
    <2>3. \A q \in Steps : q.quantity \in Nat \ {0} BY DEF Steps
    <2>4. n \in Nat \ {0} BY PlanFacts
    <2> QED BY <2>1, <2>2, <2>3, <2>4 DEF Sagas, SagaInv, Outcomes
  <1>2. ASSUME StepAccepted(s, e), e.kind \in {"STEP_SUCCEEDED", "STEP_FAILED"} PROVE Goal(t)
    <2> DEFINE o == e.outcome
               b == BookStep(s, o)
               route == FailureRoute(StepOf(s).kind, e.reason, b.holdings = NoItems)
               end == IF s.step = n THEN "AWAITING_SALE" ELSE "RUNNING"
    <2>1. s.status = "RUNNING" /\ OutcomeVerified(s, o) /\ (o.completed > 0 => o.action # NoAction)
      BY <1>2 DEF StepAccepted
    <2>2. Working(s) /\ Positioned(s)
      BY <1>1, <2>1 DEF Working, Sound
    <2>3. /\ s.step \in 1 .. n /\ StepOf(s) \in Steps /\ s.progress < StepOf(s).quantity
          /\ StepOf(s) = s.plan.steps[s.step] /\ StepOf(s).quantity \in Nat \ {0}
      BY <1>1, <2>2, PositionFacts DEF Positioned, StepOf
    <2>4. /\ b \in Sagas(plans) /\ b.step = s.step /\ b.attempt = s.attempt
          /\ b.progress = s.progress
      BY <1>1, <2>1, HoldingsType, BookStepFacts
    <2>5. b.started = s.started /\ (o.order # NoOrder => b.order = o.order)
      BY DEF BookStep, Book, Sagas
    <2>6. CASE e.kind = "STEP_SUCCEEDED"
      <3>1. t = [b EXCEPT !.step = s.step + 1, !.progress = 0, !.attempt = 0,
                          !.compensation = "nil", !.status = end]
        BY <1>0, <2>4, <2>6 DEF Transition, AfterSuccess, Sagas
      <3>2. o.completed = Remaining(s) /\ Remaining(s) > 0
        <4>1. o.completed = Remaining(s) BY <1>2, <2>6, Zenon DEF StepAccepted
        <4>2. Remaining(s) \in Nat \ {0} BY <1>1, <2>2, PositionFacts
        <4> QED BY <4>1, <4>2
      <3>3. BoundToAction(e)
        <4>1. o.action # NoAction BY <1>1, <2>1, <3>2
        <4> QED BY <2>6, <4>1, Zenon DEF BoundToAction
      <3>4. s.step = n => o.order # NoOrder
        <4>1. s.step = n => StepOf(s).kind = "LIST" BY <2>3, PlanFacts
        <4> QED BY <2>1, <3>2, <4>1 DEF OutcomeVerified, ListVerified
      <3> HIDE DEF b
      <3>5. /\ t.started = s.started /\ t.step = s.step + 1 /\ t.attempt = 0 /\ t.status = end
            /\ t.progress = 0 /\ t.order = b.order
        BY <2>4, <2>5, <3>1 DEF Sagas
      <3>6. Fits(t)
        <4>1. t.step <= n => s.plan.steps[t.step].quantity \in Nat \ {0}
          BY <1>1, <2>3, <3>5
        <4>2. CASE s.step = n
          <5>1. t.status = "AWAITING_SALE" /\ t.order # NoOrder
            BY <2>5, <3>4, <3>5, <4>2
          <5>2. t.step = n + 1 BY <3>5, <4>2
          <5> QED BY <1>1, <5>1, <5>2
        <4>3. CASE s.step # n
          <5>1. t.status = "RUNNING" BY <3>5, <4>3
          <5>2. t.step \in 1 .. n /\ s.plan.steps[t.step].quantity \in Nat \ {0}
            BY <1>1, <2>3, <3>5, <4>1, <4>3
          <5>3. t.progress < s.plan.steps[t.step].quantity
            BY <3>5, <5>2
          <5> HIDE DEF end
          <5> QED BY <1>1, <5>1, <5>2, <5>3
        <4> QED BY <4>2, <4>3
      <3> QED BY <2>1, <2>6, <3>3, <3>5, <3>6 DEF Turn
    <2>7. CASE e.kind = "STEP_FAILED"
      <3>1. route[1] = "FAILED" \/ route[1] \in RecoveryStatuses
        <4>1. StepOf(s).kind \in {"BUY", "BARTER", "LIST"}
          BY <2>3 DEF Steps
        <4> HIDE DEF b
        <4> QED BY <4>1 DEF FailureRoute, RecoveryStatuses
      <3>2. t = [b EXCEPT !.progress = b.progress + o.completed,
                          !.status = route[1], !.compensation = route[2]]
        BY <1>0, <2>4, <2>7 DEF Transition, AfterFailure, Sagas
      <3>3. o.completed < Remaining(s)
        BY <1>2, <2>7 DEF StepAccepted
      <3>4. BoundToAction(e)
        BY <2>1, <2>7, Zenon DEF BoundToAction
      <3>5. s.progress + o.completed < StepOf(s).quantity
        BY <1>1, <2>3, <3>3 DEF Remaining
      <3> HIDE DEF b, route
      <3>6. /\ t.started = s.started /\ t.step = s.step /\ t.attempt = s.attempt
            /\ t.status = route[1] /\ t.progress = s.progress + o.completed
        BY <2>4, <2>5, <3>2 DEF Sagas
      <3>7. Fits(t)
        <4>1. t.status # "RUNNING" /\ t.status # "AWAITING_SALE"
          BY <3>1, <3>6 DEF RecoveryStatuses
        <4>2. t.step <= n + 1 BY <1>1, <2>3, <3>6
        <4> QED BY <2>3, <3>5, <3>6, <4>1, <4>2
      <3> QED BY <2>1, <2>7, <3>1, <3>4, <3>6, <3>7 DEF Turn
    <2> QED BY <1>2, <2>6, <2>7
  <1>3. ASSUME RecoveryAccepted(s, e, max), e.kind = "RECOVERY_RESOLVED" PROVE Goal(t)
    <2>1. t = AfterRecovery(s, e) /\ s.status \in RecoveryStatuses
      BY <1>0, <1>3 DEF Transition, RecoveryAccepted
    <2>2. s.step \in 1 .. n /\ s.progress < s.plan.steps[s.step].quantity
      BY <1>1, <2>1 DEF Sound, Positioned, Working, StepOf
    <2>3. BoundToAction(e)
      <3>1. e.resolution = "COMPENSATED" <=> e.outcome.action # NoAction
        <4>1. EmptyOutcome.action = NoAction BY DEF EmptyOutcome
        <4> QED BY <1>3, <4>1, Zenon DEF RecoveryAccepted, CompensationVerified
      <3> QED BY <1>3, <3>1, Zenon DEF BoundToAction
    <2>4. CASE e.resolution = "RETRY"
      <3>1. t = [s EXCEPT !.attempt = s.attempt + 1, !.status = "RUNNING",
                          !.compensation = "nil"]
        BY <2>1, <2>4 DEF AfterRecovery, AfterRetry, Sagas
      <3>2. /\ t.started = s.started /\ t.step = s.step /\ t.attempt = s.attempt + 1
            /\ t.status = "RUNNING" /\ t.progress = s.progress
        BY <3>1 DEF Sagas
      <3> QED BY <1>3, <2>1, <2>2, <2>3, <3>2 DEF Turn
    <2>5. CASE e.resolution = "HOLD"
      <3>1. t = [s EXCEPT !.status = "HELD"]
        BY <2>1, <2>5 DEF AfterRecovery
      <3>2. /\ t.started = s.started /\ t.step = s.step /\ t.attempt = s.attempt
            /\ t.status = "HELD" /\ t.progress = s.progress
        BY <3>1 DEF Sagas
      <3> QED BY <1>1, <1>3, <2>1, <2>2, <2>3, <3>2 DEF Turn
    <2>6. CASE e.resolution = "COMPENSATED"
      <3> DEFINE b == Book(s, e.outcome)
      <3>1. HoldingsAfter(s, e.outcome) = NoItems
        BY <1>3, <2>6 DEF RecoveryAccepted, CompensationVerified
      <3>2. /\ b \in Sagas(plans) /\ b.step = s.step /\ b.attempt = s.attempt
            /\ b.progress = s.progress
        BY <1>1, <3>1, HoldingsType, BookFacts
      <3>3. b.started = s.started
        BY DEF Book, Sagas
      <3>4. t = [b EXCEPT !.status = "COMPENSATED", !.compensation = "nil"]
        BY <2>1, <2>6 DEF AfterRecovery
      <3> HIDE DEF b
      <3>5. /\ t.started = s.started /\ t.step = s.step /\ t.attempt = s.attempt
            /\ t.status = "COMPENSATED" /\ t.progress = s.progress
        BY <3>2, <3>3, <3>4 DEF Sagas
      <3> QED BY <1>1, <1>3, <2>1, <2>2, <2>3, <3>5 DEF Turn
    <2> QED BY <1>3, <2>4, <2>5, <2>6 DEF RecoveryAccepted
  <1>4. ASSUME SettlementAccepted(s, e), e.kind = "SALE_SETTLED" PROVE Goal(t)
    <2> DEFINE a == e.settlement
               end == IF Matched(s, a) THEN "COMPLETED" ELSE "COMPLETED_MISMATCH"
    <2>1. t = [s EXCEPT !.revenue = a.revenue, !.fees = a.fees, !.step = n + 1,
                        !.progress = 0, !.compensation = "nil", !.status = end]
      BY <1>0, <1>4 DEF Transition, AfterSettlement
    <2>2. end \in {"COMPLETED", "COMPLETED_MISMATCH"} /\ s.status = "AWAITING_SALE"
      BY <1>4 DEF SettlementAccepted
    <2>3. BoundToAction(e)
      <3>1. e.outcome.action = NoAction /\ e.resolution # "COMPENSATED"
        <4>1. EmptyOutcome.action = NoAction BY DEF EmptyOutcome
        <4> QED BY <1>4, <4>1, Zenon DEF SettlementAccepted
      <3> QED BY <1>4, <3>1, Zenon DEF BoundToAction
    <2> HIDE DEF end
    <2>4. t.started = s.started /\ t.step = n + 1 /\ t.attempt = s.attempt /\ t.status = end
      BY <2>1 DEF Sagas
    <2> QED BY <1>1, <1>4, <2>2, <2>3, <2>4 DEF Turn
  <1>5. Goal(t)
    BY <1>2, <1>3, <1>4 DEF Accepted
  <1> QED BY <1>0, <1>5

\* An accepted event keeps the saga in the shape strict validation asks for.
LEMMA ShapeFacts ==
  ASSUME NEW plans, NEW s \in Sagas(plans), CanonicalPlan(s.plan), SagaInv(s), Shaped(s),
         NoSettlement \notin Settlements, NEW e \in Events, NEW max \in Nat, Accepted(s, e, max)
  PROVE  LET t == After(s, e) IN
         Shaped(t) /\ t.started = s.started /\ BoundToAction(e) /\ Turn(s, e, t)
  <1> DEFINE t == Transition(s, e)
  <1>1. t \in Sagas(plans) /\ Same(s, t)
    BY TransitionFacts
  <1>2. /\ t.started = s.started /\ BoundToAction(e) /\ Turn(s, e, t)
        /\ t.step <= Len(s.plan.steps) + (IF t.status = "RUNNING" THEN 0 ELSE 1)
        /\ t.status = "AWAITING_SALE" => t.order # NoOrder
        /\ t.step <= Len(s.plan.steps) => t.progress < s.plan.steps[t.step].quantity
    BY TurnFacts
  <1>3. e.at \in Nat /\ s.updated \in Nat /\ s.started \in Nat /\ e.at >= s.updated
    BY DEF Events, Sagas, Accepted
  <1> HIDE DEF t
  <1>4. PICK u : u = After(s, e)
    OBVIOUS
  <1>5. /\ u.step = t.step /\ u.attempt = t.attempt /\ u.status = t.status
        /\ u.progress = t.progress /\ u.order = t.order /\ u.plan = s.plan
        /\ u.started = s.started /\ u.updated = e.at
    BY <1>1, <1>2, <1>4 DEF After, Stamp, Sagas, Same, t
  <1>6. Shaped(u)
    <2>1. u.updated >= u.started
      BY <1>3, <1>5 DEF Shaped
    <2>2. /\ u.step <= Len(u.plan.steps) + (IF u.status = "RUNNING" THEN 0 ELSE 1)
          /\ u.status = "AWAITING_SALE" => u.order # NoOrder
          /\ u.step <= Len(u.plan.steps) => u.progress < u.plan.steps[u.step].quantity
      BY <1>2, <1>5
    <2> QED BY <2>1, <2>2 DEF Shaped, StepOf
  <1>7. Turn(s, e, u)
    BY <1>2, <1>5 DEF Turn
  <1> QED BY <1>2, <1>4, <1>5, <1>6, <1>7

-----------------------------------------------------------------------------
(* What one event adds to the totals of a saga.                            *)

\* A saga that waits for its sale is past its plan.
Selling(s) ==
    s.status = "AWAITING_SALE" => s.step = Len(s.plan.steps) + 1 /\ s.progress = 0

Closed(s) == s.status \in {"COMPLETED", "COMPLETED_MISMATCH"}

\* The event's outcome is added to the totals, once, and its progress and its
\* retry to those of the current step, which start again with the next one.
Adds(s, e, t) ==
    /\ t.cost = s.cost + e.outcome.cost
    /\ ~Closed(t) => t.fees = s.fees + e.outcome.fees
    /\ Selling(t)
    /\ \/ t.step = s.step + 1 /\ t.progress = 0 /\ t.attempt = 0
       \/ /\ t.step = s.step /\ t.progress = s.progress + e.outcome.completed
          /\ t.attempt = s.attempt + (IF e.resolution = "RETRY" THEN 1 ELSE 0)

\* The transition of an accepted event, before the stamp.
LEMMA AddsFacts ==
  ASSUME NEW plans, NEW s \in Sagas(plans), CanonicalPlan(s.plan), SagaInv(s), Selling(s),
         NoSettlement \notin Settlements, NEW e \in Events, NEW max \in Nat, Accepted(s, e, max)
  PROVE  Adds(s, e, Transition(s, e))
  <1> DEFINE n == Len(s.plan.steps)
  <1>0. PICK t : t = Transition(s, e)
    OBVIOUS
  <1>1. /\ s.step \in Nat /\ s.attempt \in Nat /\ s.progress \in Nat /\ s.cost \in Nat
        /\ s.fees \in Nat /\ n \in Nat \ {0} /\ Sound(s)
        /\ e.outcome \in Outcomes /\ e.kind \in Kinds /\ e.reason \in Reasons
        /\ e.outcome.completed \in Nat /\ e.outcome.cost \in Nat /\ e.outcome.fees \in Nat
    <2>1. e.outcome \in Outcomes /\ e.kind \in Kinds /\ e.reason \in Reasons BY DEF Events
    <2>2. n \in Nat \ {0} BY PlanFacts
    <2> QED BY <2>1, <2>2 DEF Sagas, SagaInv, Outcomes
  <1>2. ASSUME StepAccepted(s, e), e.kind \in {"STEP_SUCCEEDED", "STEP_FAILED"}
        PROVE  Adds(s, e, t)
    <2> DEFINE o == e.outcome
               b == BookStep(s, o)
               route == FailureRoute(StepOf(s).kind, e.reason, b.holdings = NoItems)
               end == IF s.step = n THEN "AWAITING_SALE" ELSE "RUNNING"
    <2>1. s.status = "RUNNING" /\ OutcomeVerified(s, o)
      BY <1>2 DEF StepAccepted
    <2>2. e.resolution # "RETRY"
      BY <1>2, Zenon DEF StepAccepted
    <2>3. Working(s) /\ Positioned(s)
      BY <1>1, <2>1 DEF Working, Sound
    <2>4. s.step \in 1 .. n /\ StepOf(s) \in Steps
      BY <1>1, <2>3, PositionFacts
    <2>5. /\ b \in Sagas(plans) /\ b.step = s.step /\ b.attempt = s.attempt
          /\ b.progress = s.progress /\ b.plan = s.plan
          /\ b.cost = s.cost + o.cost /\ b.fees = s.fees + o.fees
      BY <1>1, <2>1, HoldingsType, BookStepFacts
    <2>6. CASE e.kind = "STEP_SUCCEEDED"
      <3>1. t = [b EXCEPT !.step = s.step + 1, !.progress = 0, !.attempt = 0,
                          !.compensation = "nil", !.status = end]
        BY <1>0, <2>5, <2>6 DEF Transition, AfterSuccess, Sagas
      <3> HIDE DEF b, end
      <3>2. /\ t.step = s.step + 1 /\ t.attempt = 0 /\ t.status = end /\ t.progress = 0
            /\ t.plan = s.plan /\ t.cost = s.cost + o.cost /\ t.fees = s.fees + o.fees
        BY <2>5, <3>1 DEF Sagas
      <3>3. Selling(t)
        BY <3>2 DEF Selling, end
      <3> QED BY <3>2, <3>3 DEF Adds
    <2>7. CASE e.kind = "STEP_FAILED"
      <3>1. route[1] # "AWAITING_SALE"
        <4>1. StepOf(s).kind \in {"BUY", "BARTER", "LIST"}
          BY <2>4 DEF Steps
        <4> HIDE DEF b
        <4> QED BY <4>1 DEF FailureRoute
      <3>2. t = [b EXCEPT !.progress = b.progress + o.completed,
                          !.status = route[1], !.compensation = route[2]]
        BY <1>0, <2>5, <2>7 DEF Transition, AfterFailure, Sagas
      <3> HIDE DEF b, route
      <3>3. /\ t.step = s.step /\ t.attempt = s.attempt /\ t.status = route[1]
            /\ t.progress = s.progress + o.completed
            /\ t.cost = s.cost + o.cost /\ t.fees = s.fees + o.fees
        BY <2>5, <3>2 DEF Sagas
      <3>4. Selling(t)
        BY <3>1, <3>3 DEF Selling
      <3>5. t.attempt = s.attempt + (IF e.resolution = "RETRY" THEN 1 ELSE 0)
        BY <1>1, <2>2, <3>3
      <3> QED BY <3>3, <3>4, <3>5 DEF Adds
    <2> QED BY <1>2, <2>6, <2>7
  <1>3. ASSUME RecoveryAccepted(s, e, max), e.kind = "RECOVERY_RESOLVED" PROVE Adds(s, e, t)
    <2>1. t = AfterRecovery(s, e) /\ s.status \in RecoveryStatuses
      BY <1>0, <1>3 DEF Transition, RecoveryAccepted
    <2>2. EmptyOutcome.cost = 0 /\ EmptyOutcome.fees = 0 /\ EmptyOutcome.completed = 0
      BY DEF EmptyOutcome
    <2>3. CASE e.resolution = "RETRY"
      <3>1. t = [s EXCEPT !.attempt = s.attempt + 1, !.status = "RUNNING",
                          !.compensation = "nil"]
        BY <2>1, <2>3 DEF AfterRecovery, AfterRetry, Sagas
      <3>2. /\ t.step = s.step /\ t.attempt = s.attempt + 1 /\ t.status = "RUNNING"
            /\ t.progress = s.progress /\ t.cost = s.cost /\ t.fees = s.fees
        BY <3>1 DEF Sagas
      <3>3. e.outcome = EmptyOutcome
        BY <1>3, <2>3 DEF RecoveryAccepted
      <3> QED BY <1>1, <2>2, <2>3, <3>2, <3>3 DEF Adds, Selling
    <2>4. CASE e.resolution = "HOLD"
      <3>1. t = [s EXCEPT !.status = "HELD"]
        BY <2>1, <2>4 DEF AfterRecovery
      <3>2. /\ t.step = s.step /\ t.attempt = s.attempt /\ t.status = "HELD"
            /\ t.progress = s.progress /\ t.cost = s.cost /\ t.fees = s.fees
        BY <3>1 DEF Sagas
      <3>3. e.outcome = EmptyOutcome
        BY <1>3, <2>4 DEF RecoveryAccepted
      <3> QED BY <1>1, <2>2, <2>4, <3>2, <3>3 DEF Adds, Selling
    <2>5. CASE e.resolution = "COMPENSATED"
      <3> DEFINE b == Book(s, e.outcome)
      <3>1. HoldingsAfter(s, e.outcome) = NoItems /\ e.outcome.completed = 0
        BY <1>3, <2>5 DEF RecoveryAccepted, CompensationVerified
      <3>2. /\ b \in Sagas(plans) /\ b.step = s.step /\ b.attempt = s.attempt
            /\ b.progress = s.progress /\ b.cost = s.cost + e.outcome.cost
            /\ b.fees = s.fees + e.outcome.fees
        BY <1>1, <3>1, HoldingsType, BookFacts
      <3>3. t = [b EXCEPT !.status = "COMPENSATED", !.compensation = "nil"]
        BY <2>1, <2>5 DEF AfterRecovery
      <3> HIDE DEF b
      <3>4. /\ t.step = s.step /\ t.attempt = s.attempt /\ t.status = "COMPENSATED"
            /\ t.progress = s.progress /\ t.cost = s.cost + e.outcome.cost
            /\ t.fees = s.fees + e.outcome.fees
        BY <3>2, <3>3 DEF Sagas
      <3> QED BY <1>1, <2>5, <3>1, <3>4 DEF Adds, Selling
    <2> QED BY <1>3, <2>3, <2>4, <2>5 DEF RecoveryAccepted
  <1>4. ASSUME SettlementAccepted(s, e), e.kind = "SALE_SETTLED" PROVE Adds(s, e, t)
    <2> DEFINE a == e.settlement
               end == IF Matched(s, a) THEN "COMPLETED" ELSE "COMPLETED_MISMATCH"
    <2>1. t = [s EXCEPT !.revenue = a.revenue, !.fees = a.fees, !.step = n + 1,
                        !.progress = 0, !.compensation = "nil", !.status = end]
      BY <1>0, <1>4 DEF Transition, AfterSettlement
    <2>2. end \in {"COMPLETED", "COMPLETED_MISMATCH"} /\ s.step = n + 1 /\ s.progress = 0
      BY <1>4 DEF SettlementAccepted, Selling
    <2>3. /\ e.outcome.cost = 0 /\ e.outcome.completed = 0 /\ e.resolution # "RETRY"
      <3>1. EmptyOutcome.cost = 0 /\ EmptyOutcome.completed = 0
        BY DEF EmptyOutcome
      <3> QED BY <1>4, <3>1, Zenon DEF SettlementAccepted
    <2> HIDE DEF end
    <2>4. /\ t.step = s.step /\ t.attempt = s.attempt /\ t.status = end /\ t.progress = 0
          /\ t.cost = s.cost
      BY <2>1, <2>2 DEF Sagas
    <2>5. Closed(t) /\ Selling(t)
      BY <2>2, <2>4 DEF Closed, Selling
    <2>6. t.attempt = s.attempt + (IF e.resolution = "RETRY" THEN 1 ELSE 0)
      BY <1>1, <2>3, <2>4
    <2> QED BY <1>1, <2>2, <2>3, <2>4, <2>5, <2>6 DEF Adds
  <1>5. Adds(s, e, t)
    BY <1>2, <1>3, <1>4 DEF Accepted
  <1> QED BY <1>0, <1>5

\* An accepted event adds its outcome, and one to the version.
LEMMA BookedFacts ==
  ASSUME NEW plans, NEW s \in Sagas(plans), CanonicalPlan(s.plan), SagaInv(s), Selling(s),
         NoSettlement \notin Settlements, NEW e \in Events, NEW max \in Nat, Accepted(s, e, max)
  PROVE  LET t == After(s, e) IN
         /\ Adds(s, e, t) /\ t.version = s.version + 1
         /\ \A i \in Items : t.holdings[i] = s.holdings[i] + e.outcome.deltas[i]
  <1>1. PICK t : t = Transition(s, e)
    OBVIOUS
  <1>2. t \in Sagas(plans) /\ Same(s, t) /\ Adds(s, e, t)
    BY <1>1, TransitionFacts, AddsFacts
  <1>3. t.version = s.version
    BY <1>1 DEF Transition, AfterSuccess, AfterFailure, AfterRecovery, AfterRetry,
                AfterSettlement, BookStep, Book, Sagas
  <1>4. PICK u : u = After(s, e)
    OBVIOUS
  <1>5. /\ u.step = t.step /\ u.attempt = t.attempt /\ u.status = t.status
        /\ u.progress = t.progress /\ u.cost = t.cost /\ u.fees = t.fees
        /\ u.plan = t.plan /\ u.version = t.version + 1
    BY <1>1, <1>2, <1>4 DEF After, Stamp, Sagas
  <1>6. Adds(s, e, u)
    BY <1>2, <1>5 DEF Adds, Selling, Closed
  <1>7. u.holdings = HoldingsAfter(s, e.outcome)
    BY <1>4, AfterFacts
  <1> QED BY <1>3, <1>4, <1>5, <1>6, <1>7 DEF HoldingsAfter
=============================================================================

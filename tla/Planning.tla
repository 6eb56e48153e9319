------------------------------- MODULE Planning -------------------------------
(***************************************************************************)
(* From quotes and recipes to the plan a saga begins with: the finder of   *)
(* opportunities, its checked arithmetic, the economics, the risk limits   *)
(* and the two moments they are applied at, Evaluate and Begin, with time  *)
(* passing in between.                                                     *)
(*                                                                         *)
(* Items and recipes are numbered in the order of their identifiers.       *)
(* Money and quantities have the width of int64 shrunk to                  *)
(* -MaxInt - 1 .. MaxInt.  A quote keeps the prices, the fee and the time  *)
(* it was observed; of the floating-point figures none decides more than a *)
(* threshold or the ranking, so they are left out and any candidate may be *)
(* the one with the highest score.  The order in which plans are listed is *)
(* left out too.                                                           *)
(***************************************************************************)
EXTENDS Integers, FiniteSets, Sequences, SequencesExt

CONSTANTS
    Inputs,          \* [quotes, recipes, limits, account] a trade may start from
    NumItems,        \* bound: the items there are
    MaxInt,          \* bound: the largest int64
    MaxDepth,        \* opportunity.Config.MaxMultistepDepth
    MaxExpansions,   \* opportunity.Config.MaxRecipeExpansions
    QuoteTTL,        \* opportunity.Config.QuoteTTL, 0 for none
    EvaluatedAt,     \* the time of the evaluation
    MaxTime,         \* bound: the clock
    NoQuote,         \* an item without a quote
    NoPlan,          \* nothing evaluated, no saga
    NoAmount         \* an amount out of the range of int64

VARIABLES
    input,    \* the planning input
    found,    \* the [status, plans, used, candidates] of the evaluation, or NoPlan
    begun,    \* the [plan, at] a saga began with, or NoPlan
    now

vars == <<input, found, begun, now>>

-----------------------------------------------------------------------------
(* Package money.                                                          *)

MinInt == -MaxInt - 1

\* What a register of this width holds after an operation.
Wrap(x) == ((x - MinInt) % (MaxInt - MinInt + 1)) + MinInt

Abs(x) == IF x < 0 THEN -x ELSE x
Quotient(x, y) == IF (x < 0) = (y < 0) THEN Abs(x) \div Abs(y) ELSE -(Abs(x) \div Abs(y))

Add(x, y) ==
    IF x = NoAmount \/ y = NoAmount THEN NoAmount
    ELSE IF (y > 0 /\ x > MaxInt - y) \/ (y < 0 /\ x < MinInt - y) THEN NoAmount
    ELSE Wrap(x + y)

Subtract(x, y) ==
    IF x = NoAmount \/ y = NoAmount THEN NoAmount
    ELSE IF (y > 0 /\ x < MinInt + y) \/ (y < 0 /\ x > MaxInt + y) THEN NoAmount
    ELSE Wrap(x - y)

\* Mutant: the product is not divided back.
MultiplyUnchecked(x, y) ==
    IF x = NoAmount \/ y = NoAmount THEN NoAmount ELSE Wrap(x * y)

\* The product is checked by dividing it again.
Multiply(x, y) ==
    IF x = NoAmount \/ y = NoAmount THEN NoAmount
    ELSE IF x = 0 \/ y = 0 THEN 0
    ELSE IF (x = -1 /\ y = MinInt) \/ (y = -1 /\ x = MinInt) THEN NoAmount
    ELSE IF Quotient(Wrap(x * y), y) # x THEN NoAmount
    ELSE Wrap(x * y)

\* Mutant: the last, partial run of a recipe is not counted.
FloorDivPositive(x, y) == IF x < y THEN 1 ELSE x \div y

CeilDivPositive(x, y) == (x \div y) + (IF x % y # 0 THEN 1 ELSE 0)

\* Add of many values, one after another.
CheckedSum(values) ==
    LET sum[n \in 0 .. Len(values)] ==
            IF n = 0 THEN 0 ELSE Add(sum[n - 1], values[n])
    IN  sum[Len(values)]

\* The same without a width, for counters and for reference.
Sum(values) ==
    LET sum[n \in 0 .. Len(values)] == IF n = 0 THEN 0 ELSE sum[n - 1] + values[n]
    IN  sum[Len(values)]

-----------------------------------------------------------------------------
(* The inputs.  Recipes are those indexRecipes accepts, quotes those         *)
(* indexQuotes accepts.                                                      *)

Items == 1 .. NumItems

\* What so many runs take of each item: 0 of one that is no ingredient.
AggregateIngredients(ingredients, runs) ==
    [item \in Items |->
        CheckedSum([n \in DOMAIN ingredients |->
                       IF ingredients[n].item # item THEN 0
                       ELSE Multiply(ingredients[n].quantity, runs)])]

Prices == 0 .. MaxInt
MarketQuotes ==
    [purchase : Prices, sale : Prices, commission : Prices, listingFee : Prices, observedAt : Int]
Recipes ==
    [id : Nat, result : Items, count : 1 .. MaxInt, availableAt : Int,
     ingredients : Seq([item : Items, quantity : 1 .. MaxInt])]

ASSUME BoundsAssumption ==
    /\ MaxInt \in Nat \ {0} /\ NoAmount \notin Int /\ NumItems \in Nat
    /\ {MaxDepth, MaxExpansions} \subseteq Nat
    /\ {EvaluatedAt, MaxTime, QuoteTTL} \subseteq Int

ASSUME InputsAssumption ==
    \A i \in Inputs :
        /\ i.quotes \in [Items -> {NoQuote} \cup MarketQuotes]
        /\ i.recipes \in Seq(Recipes)
        /\ \A m, n \in DOMAIN i.recipes : i.recipes[m].id = i.recipes[n].id => m = n
        /\ \A n \in DOMAIN i.recipes :
              /\ i.recipes[n].ingredients # <<>>
              /\ \A item \in Items :
                    AggregateIngredients(i.recipes[n].ingredients, 1)[item] # NoAmount
        /\ i.limits \in [budget : Int, minProfit : Int, itemPrice : Int, slots : Int,
                          maxQuoteAge : Int]
        /\ i.account \in [balance : Int, slots : Int]

-----------------------------------------------------------------------------
(* Acquisitions: the cheapest way to get a quantity of an item.            *)

Quotes == input.quotes
Quoted(item) == Quotes[item] # NoQuote

RecipeAvailable(r) == r.availableAt <= EvaluatedAt

\* A plan so far: its cost, steps, oldest quote and number of recipes.
Acquisition(status, cost, steps, observedAt, recipes) ==
    [status |-> status, cost |-> cost, steps |-> steps, observedAt |-> observedAt,
     recipes |-> recipes]

Unavailable == Acquisition("unavailable", 0, <<>>, {}, 0)
Failed == Acquisition("error", 0, <<>>, {}, 0)

BuyStep(item, quantity) ==
    [kind |-> "BUY", item |-> item, recipe |-> 0, quantity |-> quantity,
     price |-> Quotes[item].purchase]
BarterStep(r, runs) ==
    [kind |-> "BARTER", item |-> r.result, recipe |-> r.id, quantity |-> runs, price |-> 0]
ListStep(item, quantity) ==
    [kind |-> "LIST", item |-> item, recipe |-> 0, quantity |-> quantity,
     price |-> Quotes[item].sale]

\* Mutant: the age of the newest quote.
NewestObservation(times) == CHOOSE t \in times : \A u \in times : t >= u

\* Times of the quotes a plan is made of; its age is that of the oldest one.
OldestObservation(times) == CHOOSE t \in times : \A u \in times : t <= u

BuyOnMarket(item, quantity) ==
    LET cost == Multiply(Quotes[item].purchase, quantity)
    IN  IF ~Quoted(item) THEN Unavailable
        ELSE IF cost = NoAmount THEN Failed
        ELSE Acquisition("ok", cost, <<BuyStep(item, quantity)>>, {Quotes[item].observedAt}, 0)

\* The ingredient's plan joins the plan of the recipe.
Join(plan, child) ==
    LET cost == Add(plan.cost, child.cost)
    IN  IF child.status # "ok" THEN child
        ELSE IF cost = NoAmount THEN Failed
        ELSE Acquisition("ok", cost, plan.steps \o child.steps,
                         plan.observedAt \cup child.observedAt, plan.recipes + child.recipes)

\* Mutant: the last candidate wins.
LastCandidate(x, y) == IF y.status = "ok" THEN y ELSE x

\* The cheaper plan; of equal ones the market's, then the first recipe's.
Cheaper(x, y) ==
    IF y.status # "ok" THEN x
    ELSE IF x.status # "ok" \/ y.cost < x.cost THEN y
    ELSE x

\* What the recursion is asked for: visiting are the recipes it is inside of,
\* used counts the expansions of the whole search, abandoned past its limit.
\* It returns [plan, used].
Requests == [item : Items, quantity : Int, visiting : SUBSET Nat, used : Nat]
Request(item, quantity, visiting, used) ==
    [item |-> item, quantity |-> quantity, visiting |-> visiting, used |-> used]

Market == [q \in Requests |-> [plan |-> BuyOnMarket(q.item, q.quantity), used |-> q.used]]

\* The plans of the ingredients, one after another in the order of the items,
\* each by the search one level below.
Gather(below, needs, visiting, used) ==
    LET done[item \in 0 .. NumItems] ==
            IF item = 0 THEN [plan |-> Acquisition("ok", 0, <<>>, {}, 0), used |-> used]
            ELSE LET before == done[item - 1]
                     child == below[Request(item, needs[item], visiting, before.used)]
                 IN  IF before.plan.status # "ok" \/ needs[item] = 0 THEN before
                     ELSE [plan |-> Join(before.plan, child.plan), used |-> child.used]
    IN  done[NumItems]

\* The exchange, after the plan of its ingredients.
Exchange(plan, r, runs) ==
    Acquisition(plan.status, plan.cost, Append(plan.steps, BarterStep(r, runs)),
                plan.observedAt, plan.recipes + 1)

AcquireWithRecipe(below, depth, r, q) ==
    LET runs == CeilDivPositive(q.quantity, r.count)
        needs == AggregateIngredients(r.ingredients, runs)
        done == Gather(below, needs, q.visiting \cup {r.id}, q.used + 1)
    IN  IF depth = 0 \/ r.id \in q.visiting \/ ~RecipeAvailable(r)
        THEN [plan |-> Unavailable, used |-> q.used]
        ELSE IF q.used + 1 > MaxExpansions \/ \E item \in Items : needs[item] = NoAmount
        THEN [plan |-> Failed, used |-> q.used + 1]
        ELSE IF done.plan.status # "ok" THEN done
        ELSE [plan |-> Exchange(done.plan, r, runs), used |-> done.used]

\* The market's plan against those of the recipes, one after another.
Cheapest(below, depth, q) ==
    LET best[n \in 0 .. Len(input.recipes)] ==
            IF n = 0 THEN Market[q]
            ELSE LET r == input.recipes[n]
                     before == best[n - 1]
                     child == AcquireWithRecipe(below, depth, r, [q EXCEPT !.used = before.used])
                 IN  IF before.plan.status = "error" \/ r.result # q.item
                        \/ r.id \in q.visiting \/ ~RecipeAvailable(r)
                     THEN before
                     ELSE IF child.plan.status = "error" THEN child
                     ELSE [plan |-> Cheaper(before.plan, child.plan), used |-> child.used]
    IN  best[Len(input.recipes)]

BestAcquisition[depth \in 0 .. MaxDepth] ==
    IF depth = 0 THEN Market
    ELSE LET below == BestAcquisition[depth - 1]
         IN  [q \in Requests |-> Cheapest(below, depth, q)]

-----------------------------------------------------------------------------
(* Opportunities.                                                          *)

RequiredSlots(steps) ==
    Cardinality({steps[n].item : n \in {m \in DOMAIN steps : steps[m].kind = "BUY"}})

\* Revenue, fees and profit of selling so many of the item; economy.Complete.
Opportunity(kind, item, quantity, plan) ==
    LET quote == Quotes[item]
        revenue == Multiply(quote.sale, quantity)
        fees == Add(Multiply(quote.commission, quantity), quote.listingFee)
        profit == Subtract(Subtract(revenue, fees), plan.cost)
        times == plan.observedAt \cup {quote.observedAt}
    IN  [kind |-> kind, item |-> item, quantity |-> quantity, cost |-> plan.cost,
         revenue |-> revenue, fees |-> fees, profit |-> profit, slots |-> RequiredSlots(plan.steps),
         observedAt |-> OldestObservation(times), quotedAt |-> times,
         steps |-> Append(plan.steps, ListStep(item, quantity))]

Complete(o) == \A amount \in {o.cost, o.revenue, o.fees, o.profit} : amount # NoAmount

DirectOpportunity(item) == Opportunity("DIRECT", item, 1, BuyOnMarket(item, 1))

\* Every ingredient bought on the market and one run of the recipe.
ContactPlan(r) ==
    Exchange(Gather(Market, AggregateIngredients(r.ingredients, 1), {}, 0).plan, r, 1)

\* The cheapest plan for one run, if it needs a second recipe.
MultistepPlan(r, used) ==
    AcquireWithRecipe(BestAcquisition[MaxDepth - 1], MaxDepth, r,
                      Request(r.result, r.count, {}, used))

NoPlans == [status |-> "ok", plans |-> {}, used |-> 0, candidates |-> {}]

\* One more opportunity, an error for all, or nothing to add.
Include(result, kind, r, plan) ==
    LET o == Opportunity(kind, r.result, r.count, plan)
    IN  IF plan.status = "unavailable" \/ (kind = "MULTISTEP" /\ plan.status = "ok"
                                           /\ plan.recipes < 2)
        THEN result
        ELSE IF plan.status = "error" \/ ~Complete(o) THEN [result EXCEPT !.status = "error"]
        ELSE [result EXCEPT !.plans = @ \cup {o}]

FindDirect ==
    LET direct == {DirectOpportunity(item) : item \in {i \in DOMAIN Quotes : Quoted(i)}}
    IN  IF \A o \in direct : Complete(o) THEN [NoPlans EXCEPT !.plans = direct]
        ELSE [NoPlans EXCEPT !.status = "error"]

Sellable(r) == RecipeAvailable(r) /\ Quoted(r.result)

FindContact(result, r) ==
    IF result.status = "error" \/ ~Sellable(r) THEN result
    ELSE Include(result, "CONTACT", r, ContactPlan(r))

FindMultistep(result, r) ==
    IF result.status = "error" \/ ~Sellable(r) THEN result
    ELSE LET search == MultistepPlan(r, result.used)
         IN  Include([result EXCEPT !.used = search.used], "MULTISTEP", r, search.plan)

\* Direct flips, then the contact barter of each recipe, then its multistep
\* trade.  An error anywhere leaves no opportunity at all.
Find ==
    LET k == Len(input.recipes)
        result[n \in 0 .. 2 * k] ==
            IF n = 0 THEN FindDirect
            ELSE IF n <= k THEN FindContact(result[n - 1], input.recipes[n])
            ELSE FindMultistep(result[n - 1], input.recipes[n - k])
        last == result[IF MaxDepth < 2 THEN k ELSE 2 * k]
    IN  IF last.status = "error" THEN [NoPlans EXCEPT !.status = "error"] ELSE last

-----------------------------------------------------------------------------
(* Evaluate and Begin.                                                     *)

StepsOf(o, kind) == {n \in DOMAIN o.steps : o.steps[n].kind = kind}

\* What Evaluate and Begin check of a plan before anything else.
CanonicalOpportunity(o) ==
    LET BuyCost == CheckedSum([n \in DOMAIN o.steps |->
                                  IF o.steps[n].kind # "BUY" THEN 0
                                  ELSE Multiply(o.steps[n].price, o.steps[n].quantity)])
        final == o.steps[Len(o.steps)]
        barters == Sum([n \in DOMAIN o.steps |-> IF o.steps[n].kind = "BARTER" THEN 1 ELSE 0])
    IN  /\ \A n \in DOMAIN o.steps : o.steps[n].quantity > 0 /\ o.steps[n].price >= 0
        /\ StepsOf(o, "BUY") # {} /\ StepsOf(o, "LIST") = {Len(o.steps)}
        /\ final.item = o.item /\ final.quantity = o.quantity
        /\ CASE o.kind = "DIRECT" -> barters = 0
             [] o.kind = "CONTACT" -> barters = 1
             [] o.kind = "MULTISTEP" -> barters >= 2
        /\ BuyCost = o.cost /\ Multiply(final.price, final.quantity) = o.revenue

\* risk.Manager.Validate.
RiskAccepts(o, limits) ==
    /\ o.cost <= limits.budget /\ o.profit >= limits.minProfit
    /\ o.slots <= limits.slots
    /\ QuoteTTL > 0 => now < o.observedAt + QuoteTTL
    /\ limits.maxQuoteAge > 0 => /\ o.observedAt <= now
                                 /\ now - o.observedAt <= limits.maxQuoteAge
    /\ \A n \in StepsOf(o, "BUY") : o.steps[n].price <= limits.itemPrice

Init ==
    /\ input \in Inputs
    /\ found = NoPlan /\ begun = NoPlan /\ now = EvaluatedAt

Lesser(x, y) == IF x < y THEN x ELSE y

\* What Evaluate and Begin know of the limits: the free slots of the account
\* bound theirs, and its balance the budget of the plan that is begun.
SlotLimits == [input.limits EXCEPT !.slots = Lesser(@, input.account.slots)]
BeginLimits == [SlotLimits EXCEPT !.budget = Lesser(@, input.account.balance)]

\* One plan that is not canonical refuses the evaluation.
Evaluate ==
    /\ found = NoPlan
    /\ LET result == Find
       IN  found' = IF \E o \in result.plans : ~CanonicalOpportunity(o)
                    THEN [result EXCEPT !.status = "error"]
                    ELSE [result EXCEPT !.candidates =
                              {o \in result.plans : RiskAccepts(o, SlotLimits)}]
    /\ UNCHANGED <<input, begun, now>>

\* beginTrade: the first candidate, whichever it is, under the limits of the
\* account and at the time it is now.
Begin(o) ==
    /\ begun = NoPlan
    /\ CanonicalOpportunity(o) /\ RiskAccepts(o, BeginLimits)
    /\ begun' = [plan |-> o, at |-> now]
    /\ UNCHANGED <<input, found, now>>

\* The evaluation is saved before the trade begins, and that takes time.
Advance ==
    /\ found # NoPlan /\ begun = NoPlan /\ now < MaxTime
    /\ now' = now + 1
    /\ UNCHANGED <<input, found, begun>>

Next ==
    \/ Evaluate
    \/ Advance
    \/ found # NoPlan /\ \E o \in found.candidates : Begin(o)

Spec == Init /\ [][Next]_vars

-----------------------------------------------------------------------------
(* Reference definitions, in unbounded arithmetic.                         *)

Plans == IF found = NoPlan THEN {} ELSE found.plans

Spent(steps) ==
    Sum([n \in DOMAIN steps |->
            IF steps[n].kind = "BUY" THEN steps[n].price * steps[n].quantity ELSE 0])

RecipeOf(id) == CHOOSE r \in ToSet(input.recipes) : r.id = id

Needs(r, item) ==
    Sum([n \in DOMAIN r.ingredients |->
            IF r.ingredients[n].item = item THEN r.ingredients[n].quantity ELSE 0])

\* What a step brings and what it takes.
Gain(step, item) ==
    IF item # step.item THEN 0
    ELSE CASE step.kind = "BUY" -> step.quantity
           [] step.kind = "BARTER" -> step.quantity * RecipeOf(step.recipe).count
           [] step.kind = "LIST" -> 0

Loss(step, item) ==
    CASE step.kind = "BUY" -> 0
      [] step.kind = "BARTER" -> step.quantity * Needs(RecipeOf(step.recipe), item)
      [] step.kind = "LIST" -> IF item = step.item THEN step.quantity ELSE 0

\* What is held after so many steps carried out with what was held at first.
Held(start, steps) ==
    LET held[n \in 0 .. Len(steps)] ==
            IF n = 0 THEN start
            ELSE LET before == held[n - 1]
                 IN  [item \in Items |-> before[item] - Loss(steps[n], item) + Gain(steps[n], item)]
    IN  held

\* What an exchange or a listing takes must be held before.
Feasible(start, steps) ==
    \A n \in DOMAIN steps, item \in Items :
        Loss(steps[n], item) <= Held(start, steps)[n - 1][item]

EmptyHands == [item \in Items |-> 0]

\* Costs of every way to get the item, recipes nested to the depth given and
\* none inside itself.
Wishes == [item : Items, quantity : Int, visiting : SUBSET Nat]
Wish(item, quantity, visiting) == [item |-> item, quantity |-> quantity, visiting |-> visiting]

\* One way for each ingredient, in any combination.
GatherCosts(below, needs, visiting) ==
    LET sums[item \in 0 .. NumItems] ==
            IF item = 0 THEN {0}
            ELSE IF needs[item] = 0 THEN sums[item - 1]
            ELSE {x + y : x \in sums[item - 1], y \in below[Wish(item, needs[item], visiting)]}
    IN  sums[NumItems]

CostsWith(below, r, w) ==
    LET runs == (w.quantity + r.count - 1) \div r.count
    IN  IF r.id \in w.visiting \/ ~RecipeAvailable(r) THEN {}
        ELSE GatherCosts(below, [item \in Items |-> Needs(r, item) * runs],
                         w.visiting \cup {r.id})

MarketCosts ==
    [w \in Wishes |-> IF Quoted(w.item) THEN {Quotes[w.item].purchase * w.quantity} ELSE {}]

Costs[depth \in 0 .. MaxDepth] ==
    IF depth = 0 THEN MarketCosts
    ELSE LET below == Costs[depth - 1]
         IN  [w \in Wishes |->
                 MarketCosts[w] \cup UNION {CostsWith(below, r, w) :
                     r \in {s \in ToSet(input.recipes) : s.result = w.item}}]

-----------------------------------------------------------------------------
(* Properties.                                                             *)

\* No amount of any plan wraps: cost, revenue, fees and profit are those of
\* unbounded arithmetic, up to the largest prices.  (Package money.)
AmountsAreExact ==
    \A o \in Plans :
        LET quote == Quotes[o.item]
        IN  /\ o.cost = Spent(o.steps)
            /\ o.revenue = quote.sale * o.quantity
            /\ o.fees = quote.commission * o.quantity + quote.listingFee
            /\ o.profit = o.revenue - o.fees - o.cost

\* Every plan can be carried out step by step: each exchange finds all its
\* ingredients, though recipes feed each other and batches do not come out
\* even, the listing finds its goods, and the service will not refuse the plan
\* (which would refuse the whole evaluation).  (acquireWithRecipe.)
PlansAreExecutable ==
    \A o \in Plans :
        /\ CanonicalOpportunity(o)
        /\ Feasible(EmptyHands, o.steps)

\* A multistep plan costs the least of all ways to carry out its recipe within
\* the depth, if no batch is shared between ingredients.  (bestAcquisition.)
MultistepIsCheapest ==
    \A o \in Plans : o.kind = "MULTISTEP" =>
        \E r \in ToSet(input.recipes) :
            /\ r.id = o.steps[Len(o.steps) - 1].recipe
            /\ LET costs == CostsWith(Costs[MaxDepth - 1], r, Wish(r.result, r.count, {}))
               IN  o.cost \in costs /\ \A cost \in costs : o.cost <= cost

\* The plan a saga begins with was within the limits at that very moment: all
\* it will spend is in the account, it buys no more kinds of items than the
\* account has slots, and each quote it was made of, of whatever ingredient, was
\* fresh, however long the evaluation had been waiting.  (Service.Begin, the
\* merging of acquisitionMeta.)
BegunWithinLimits ==
    begun # NoPlan =>
        LET o == begun.plan
        IN  /\ Spent(o.steps) <= input.account.balance /\ Spent(o.steps) <= input.limits.budget
            /\ Cardinality({o.steps[n].item : n \in StepsOf(o, "BUY")}) <= input.account.slots
            /\ \A t \in o.quotedAt :
                  /\ input.limits.maxQuoteAge > 0 => begun.at - t <= input.limits.maxQuoteAge
                  /\ QuoteTTL > 0 => begun.at < t + QuoteTTL
=============================================================================

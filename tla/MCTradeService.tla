--------------------------- MODULE MCTradeService ---------------------------
(* Small instances of TradeService for TLC. *)
EXTENDS TradeService

CONSTANTS x1, x2, raw, made, o1, o2

Step(kind, item, quantity, price) ==
    [kind |-> kind, item |-> item, quantity |-> quantity, price |-> price]

Line(step) == IF step.kind = "BUY" THEN step.price * step.quantity ELSE 0

Plan(steps, fees) ==
    LET last == steps[Len(steps)] IN
    [steps |-> steps, fees |-> fees, revenue |-> last.price * last.quantity,
     item |-> last.item, quantity |-> last.quantity,
     ceiling |-> [k \in 0 .. Len(steps) |->
                    FoldLeft(LAMBDA sum, step : sum + Line(step), 0, SubSeq(steps, 1, k))]]

\* Buy two, list both at once or in two parts.
DirectFlip == Plan(<<Step("BUY", raw, 2, 1), Step("LIST", raw, 2, 2)>>, 1)

\* Buy two, exchange them for one, list it.
ContactBarter ==
    Plan(<<Step("BUY", raw, 2, 1), Step("BARTER", made, 1, 0), Step("LIST", made, 1, 5)>>, 1)

Deltas(r, m) == (raw :> r) @@ (made :> m)

Outcome(completed, cost, fees, order, deltas) ==
    [completed |-> completed, cost |-> cost, revenue |-> 0, fees |-> fees,
     action |-> NoAction, order |-> order, deltas |-> deltas]

MCItems == {raw, made}
MCExecutions == {x1, x2}
MCOneExecution == {x1}
MCDirectFlip == {DirectFlip}
MCContactBarter == {ContactBarter}

\* Whole, partial and empty purchases and listings, one listing on another
\* order, and a disposal of what was bought.
MCFlipOutcomes ==
    {Outcome(0, 0, 0, NoOrder, NoItems),
     Outcome(2, 2, 0, NoOrder, Deltas(2, 0)), Outcome(1, 1, 0, NoOrder, Deltas(1, 0)),
     Outcome(2, 0, 1, o1, Deltas(-2, 0)), Outcome(1, 0, 1, o1, Deltas(-1, 0)),
     Outcome(1, 0, 0, o2, Deltas(-1, 0)), Outcome(0, 0, 0, NoOrder, Deltas(-1, 0))}

\* Whole and partial purchases, one above its ceiling; an exchange, one with a surplus, one that takes
\* more than the saga holds; a listing; disposals.
MCBarterOutcomes ==
    {Outcome(0, 0, 0, NoOrder, NoItems),
     Outcome(2, 2, 0, NoOrder, Deltas(2, 0)), Outcome(2, 3, 0, NoOrder, Deltas(2, 0)),
     Outcome(1, 1, 0, NoOrder, Deltas(1, 0)),
     Outcome(1, 0, 0, NoOrder, Deltas(-2, 1)), Outcome(1, 0, 0, NoOrder, Deltas(-2, 2)),
     Outcome(1, 0, 0, NoOrder, Deltas(-3, 1)),
     Outcome(1, 0, 1, o1, Deltas(0, -1)), Outcome(0, 0, 0, NoOrder, Deltas(-2, 0))}

\* Just enough to finish, fail or hold a trade.
MCFewOutcomes ==
    {Outcome(0, 0, 0, NoOrder, NoItems), Outcome(2, 2, 0, NoOrder, Deltas(2, 0)),
     Outcome(2, 0, 1, o1, Deltas(-2, 0))}

Settled(revenue, fees, item, quantity) ==
    {[execution |-> x, order |-> o1, cost |-> 2, revenue |-> revenue, fees |-> fees,
      item |-> item, quantity |-> quantity] : x \in Executions}

MCSettlements ==
    Settled(5, 1, made, 1) \cup Settled(4, 1, raw, 2) \cup Settled(4, 0, raw, 2)

MCOneSettlement == Settled(4, 1, raw, 2)

Symmetry == Permutations(MCExecutions)

MCInventories == {Deltas(0, 0), Deltas(2, 0)}
MCOneInventory == {Deltas(1, 0)}
=============================================================================

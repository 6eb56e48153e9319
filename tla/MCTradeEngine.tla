---------------------------- MODULE MCTradeEngine ----------------------------
(* Small instances of TradeEngine for TLC. *)
EXTENDS TradeEngine, TLC

CONSTANTS x1, x2, raw, made, o1

Step(kind, item, quantity, price) ==
    [kind |-> kind, item |-> item, quantity |-> quantity, price |-> price]

\* Buy two at one each, list them at two each.
DirectFlip ==
    [steps |-> <<Step("BUY", raw, 2, 1), Step("LIST", raw, 2, 2)>>, fees |-> 1,
     revenue |-> 4, item |-> raw, quantity |-> 2,
     ceiling |-> (0 :> 0) @@ (1 :> 2) @@ (2 :> 2)]

\* Buy one, exchange it, list the result.
ContactBarter ==
    [steps |-> <<Step("BUY", raw, 1, 1), Step("BARTER", made, 1, 0), Step("LIST", made, 1, 4)>>,
     fees |-> 1, revenue |-> 4, item |-> made, quantity |-> 1,
     ceiling |-> (0 :> 0) @@ (1 :> 1) @@ (2 :> 1) @@ (3 :> 1)]

MCBoth == {DirectFlip, ContactBarter}
MCExecutions == {x1, x2}
MCItems == {raw, made}

MCExchange ==
    {[EmptyOutcome EXCEPT !.completed = 1, !.deltas = (raw :> -1) @@ (made :> 1)]}

\* A sale that matches the plan, one that does not, one the saga refuses.
MCSales ==
    {[revenue |-> 4, fees |-> 1, quantity |-> 2], [revenue |-> 3, fees |-> 1, quantity |-> 2],
     [revenue |-> 4, fees |-> 0, quantity |-> 2]}
MCBothSales == MCSales \cup {[revenue |-> 4, fees |-> 1, quantity |-> 1]}

Symmetry == Permutations(Executions)
=============================================================================

---- MODULE MCPlanning ----
EXTENDS Planning

\* Items 1 .. 4; the library holds a chain, two recipes for one item, a batch
\* that does not come out even, a cycle and an ingredient listed twice.
Ingredient(item, quantity) == [item |-> item, quantity |-> quantity]
Recipe(id, result, count, ingredients, availableAt) ==
    [id |-> id, result |-> result, count |-> count, ingredients |-> ingredients,
     availableAt |-> availableAt]

Library ==
    <<Recipe(1, 2, 1, <<Ingredient(1, 2)>>, 1),
      Recipe(2, 3, 1, <<Ingredient(2, 1), Ingredient(1, 1), Ingredient(2, 2)>>, 1),
      Recipe(3, 2, 2, <<Ingredient(1, 1)>>, 2),
      Recipe(4, 1, 3, <<Ingredient(3, 1)>>, 1),
      Recipe(5, 4, 1, <<Ingredient(3, 1), Ingredient(2, 1)>>, 1)>>

MCRecipes == {SelectSeq(Library, LAMBDA r : r.id \in ids) : ids \in SUBSET (1 .. 5)}

Quote(price, at) ==
    [purchase |-> price, sale |-> 3 * price, commission |-> 1, listingFee |-> 1,
     observedAt |-> at]

MCQuotes ==
    {[item \in 1 .. 4 |-> IF prices[item] = 0 THEN NoQuote
                          ELSE Quote(prices[item], times[item])] :
        prices \in {0, 2, 20} \X {0, 1, 9} \X {0, 7} \X {5, 20},
        times \in {<<2, 2, 2, 2>>, <<1, 2, 2, 2>>}}

MCAccounts == {[balance |-> 10, slots |-> 2], [balance |-> 40, slots |-> 1]}

MCInputs ==
    {[quotes |-> q, recipes |-> r,
      limits |-> [budget |-> 25, minProfit |-> 1, itemPrice |-> 9, slots |-> 2,
                  maxQuoteAge |-> 2],
      account |-> a] : q \in MCQuotes, r \in MCRecipes, a \in MCAccounts}
====

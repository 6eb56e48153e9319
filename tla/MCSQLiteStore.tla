---- MODULE MCSQLiteStore ----
EXTENDS SQLiteStore

Write(table, record) == [table |-> table, record |-> record]

Unit(writes, nestedFrom, nestedFails, swallows) ==
    [writes |-> writes, nestedFrom |-> nestedFrom, nestedFails |-> nestedFails,
     swallows |-> swallows, alone |-> FALSE]

Alone(write) ==
    [writes |-> <<write>>, nestedFrom |-> 0, nestedFails |-> FALSE, swallows |-> FALSE,
     alone |-> TRUE]

\* Engine.persistSaga after the transition `version` of an execution.
PersistSaga(id, version) ==
    Unit(<<Write("runtime", [key |-> id, kind |-> "checkpoint", body |-> version, at |-> version]),
           Write("execution", [id |-> id, body |-> version, at |-> version])>>, 0, FALSE, FALSE)

\* MarketScanner.scanItem.
SaveScan(price, at) ==
    Unit(<<Write("tradeQuote", [item |-> 1, price |-> price, at |-> at]),
           Write("quote", [item |-> 1, price |-> price, at |-> at])>>, 0, FALSE, FALSE)

\* A nested unit that fails, by itself or at a conflict, and is swallowed.
Swallowing(nestedFails) ==
    Unit(<<Write("quote", [item |-> 2, price |-> 1, at |-> 1]),
           Write("event", [id |-> 1, body |-> 2, at |-> 1])>>, 2, nestedFails, TRUE)

Audit ==
    {Alone(Write("action", [id |-> 1, body |-> 1, at |-> 1])),
     Alone(Write("action", [id |-> 1, body |-> 2, at |-> 1])),
     Alone(Write("result", [action |-> 1, notSent |-> TRUE, success |-> FALSE, error |-> TRUE,
                            retrySafe |-> TRUE])),
     Alone(Write("result", [action |-> 1, notSent |-> FALSE, success |-> TRUE, error |-> FALSE,
                            retrySafe |-> FALSE])),
     Alone(Write("event", [id |-> 1, body |-> 1, at |-> 2])),
     Alone(Write("observation", [frame |-> 1, state |-> 2, at |-> 1])),
     Alone(Write("observation", [frame |-> 2, state |-> 1, at |-> 1])),
     Alone(Write("execution", [id |-> 2, body |-> 1, at |-> 1])),
     Alone(Write("runtime", [key |-> 2, kind |-> "snapshot", body |-> 1, at |-> 1]))}

MCUnits ==
    Audit \cup {PersistSaga(1, 1), PersistSaga(1, 2), SaveScan(1, 1), SaveScan(2, 1),
                SaveScan(3, 2), Swallowing(TRUE), Swallowing(FALSE)}

Times == {[since |-> t, until |-> u] : t \in {0, 2}, u \in {0, 1}}
Pages == {[limit |-> l, offset |-> o] : l \in {0, 1}, o \in {0, 1}}
NoWish == [item |-> 0, state |-> 0, body |-> 0, kind |-> "", prefix |-> 0]

\* Nothing asked for, or one field, or a kind and a prefix.
Wishes ==
    {NoWish, [NoWish EXCEPT !.item = 1], [NoWish EXCEPT !.state = 1],
     [NoWish EXCEPT !.body = 1], [NoWish EXCEPT !.kind = "checkpoint"],
     [NoWish EXCEPT !.prefix = 1], [NoWish EXCEPT !.prefix = 2],
     [NoWish EXCEPT !.kind = "snapshot", !.prefix = 2]}

\* Bounds of time beside no other wish, or beside that for an item.
MCFilters ==
    {wish @@ time @@ page :
        wish \in {NoWish, [NoWish EXCEPT !.item = 1]}, time \in Times, page \in Pages}
    \cup {wish @@ [since |-> 0, until |-> 0] @@ page :
              wish \in Wishes, page \in {p \in Pages : p.limit = p.offset}}

\* Both keys begin with prefix 1 but for case, which is key 2's own; prefix 2
\* is a beginning of key 2 alone.
MCHasPrefix == {<<2, 1>>, <<2, 2>>}
MCLike == MCHasPrefix \cup {<<1, 1>>}

====

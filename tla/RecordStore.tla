------------------------------ MODULE RecordStore ------------------------------
(***************************************************************************)
(* What repository.Store promises, as its in-memory implementation keeps   *)
(* it: maps of records by key, journals in the order of their insertion,   *)
(* and units of work that happen as a whole or not at all.  SQLiteStore    *)
(* shows that the database the controller runs on keeps the same promise.  *)
(*                                                                         *)
(* Identifiers, bodies and times are natural numbers; time 0 is the zero   *)
(* time, which a filter takes for "no bound".  A record keeps the fields   *)
(* that a key, an order or a comparison reads, all other fields being its  *)
(* body.  Frame numbers fit the INTEGER column and payloads are well       *)
(* formed, as every caller's are; a cancelled context is a refused unit.   *)
(***************************************************************************)
EXTENDS Naturals, FiniteSets, Sequences, SequencesExt

CONSTANTS
    Units,       \* the units of work callers ask for
    HasPrefix    \* pairs of a key and a prefix it begins with

VARIABLE state   \* the maps and journals of Memory

Empty ==
    [observations |-> <<>>, quotes |-> <<>>, tradeQuotes |-> <<>>, executions |-> <<>>,
     executionHistory |-> <<>>, actions |-> <<>>, actionResults |-> <<>>,
     events |-> <<>>, runtimeRecords |-> <<>>]

-----------------------------------------------------------------------------
(* Writes: the store afterwards, or Refused.                               *)

\* The outcome of a write that returns an error.
Refused == [error |-> TRUE]

Put(map, key, value) == [k \in DOMAIN map \cup {key} |-> IF k = key THEN value ELSE map[k]]

JournalOf(map, key) == IF key \in DOMAIN map THEN map[key] ELSE <<>>

\* An immutable record may be written again only with the same content.
PutOnce(s, field, key, r) ==
    IF key \notin DOMAIN s[field] THEN [s EXCEPT ![field] = Put(@, key, r)]
    ELSE IF s[field][key] = r THEN s
    ELSE Refused

SaveObservation(s, r) == PutOnce(s, "observations", r.frame, r)
SaveAction(s, r) == PutOnce(s, "actions", r.id, r)
SaveEvent(s, r) == PutOnce(s, "events", r.id, r)

SaveQuote(s, r) == [s EXCEPT !.quotes = Append(@, r)]
SaveTradeQuote(s, r) == [s EXCEPT !.tradeQuotes = Append(@, r)]

SaveExecution(s, r) ==
    [s EXCEPT !.executions = Put(@, r.id, r),
              !.executionHistory = Put(@, r.id, Append(JournalOf(@, r.id), r))]

\* An action that was not sent failed, says why, and may be repeated.
ValidActionResult(r) == r.notSent => ~r.success /\ r.error /\ r.retrySafe

SaveActionResult(s, r) ==
    IF ValidActionResult(r) /\ r.action \in DOMAIN s.actions
    THEN [s EXCEPT !.actionResults = Put(@, r.action, Append(JournalOf(@, r.action), r))]
    ELSE Refused

SaveRuntimeRecord(s, r) == [s EXCEPT !.runtimeRecords = Put(@, r.key, r)]

Save(s, write) ==
    CASE write.table = "observation" -> SaveObservation(s, write.record)
      [] write.table = "quote" -> SaveQuote(s, write.record)
      [] write.table = "tradeQuote" -> SaveTradeQuote(s, write.record)
      [] write.table = "execution" -> SaveExecution(s, write.record)
      [] write.table = "action" -> SaveAction(s, write.record)
      [] write.table = "result" -> SaveActionResult(s, write.record)
      [] write.table = "event" -> SaveEvent(s, write.record)
      [] write.table = "runtime" -> SaveRuntimeRecord(s, write.record)

-----------------------------------------------------------------------------
(* Reads.  Lists come newest first.                                        *)

InTime(at, filter) ==
    /\ filter.since # 0 => at >= filter.since
    /\ filter.until # 0 => at <= filter.until

Page(list, limit, offset) ==
    IF offset >= Len(list) THEN <<>>
    ELSE SubSeq(list, offset + 1,
                IF limit > 0 /\ limit < Len(list) - offset THEN offset + limit ELSE Len(list))

\* Sorted, given what comes before each element: the n-th has n - 1 before it.
Sorted(before) ==
    [n \in 1 .. Cardinality(DOMAIN before) |->
        CHOOSE x \in DOMAIN before : Cardinality(before[x]) = n - 1]

\* Walked backwards and sorted stably: of two quotes of one time the one
\* written last comes first.
NewestFirst(journal, filter) ==
    LET matching == {i \in DOMAIN journal :
                        /\ filter.item # 0 => journal[i].item = filter.item
                        /\ InTime(journal[i].at, filter)}
        order == Sorted([j \in matching |->
                            {i \in matching : \/ journal[i].at > journal[j].at
                                              \/ journal[i].at = journal[j].at /\ i > j}])
    IN  Page([n \in DOMAIN order |-> journal[order[n]]], filter.limit, filter.offset)

ListQuotes(s, filter) == NewestFirst(s.quotes, filter)
ListTradeQuotes(s, filter) == NewestFirst(s.tradeQuotes, filter)

\* One pass that lets a later quote of the same time win.
LatestQuote(s, item) ==
    LET Wins(q, best) == q.item = item /\ (best = <<>> \/ q.at >= best[1].at)
        best[n \in 0 .. Len(s.quotes)] ==
            IF n = 0 THEN <<>>
            ELSE IF Wins(s.quotes[n], best[n - 1]) THEN <<s.quotes[n]>> ELSE best[n - 1]
    IN  best[Len(s.quotes)]

LatestTradeQuote(s, item) ==
    ListTradeQuotes(s, [item |-> item, since |-> 0, until |-> 0, limit |-> 1, offset |-> 0])

\* Records of a map, by time and then by identifier, both descending.
ByTimeAndID(records, id, filter) ==
    LET matching == {r \in records : InTime(r.at, filter)}
    IN  Page(Sorted([r \in matching |->
                        {x \in matching : x.at > r.at \/ (x.at = r.at /\ x[id] > r[id])}]),
             filter.limit, filter.offset)

Values(map) == {map[key] : key \in DOMAIN map}

\* The other fields a filter names must be equal; the body stands for them.
OfBody(records, filter) == {r \in records : filter.body # 0 => r.body = filter.body}

ListObservations(s, filter) ==
    ByTimeAndID({r \in Values(s.observations) : filter.state # 0 => r.state = filter.state},
                "frame", filter)
ListExecutions(s, filter) == ByTimeAndID(OfBody(Values(s.executions), filter), "id", filter)
ListEvents(s, filter) == ByTimeAndID(OfBody(Values(s.events), filter), "id", filter)
ListActions(s, pendingOnly, filter) ==
    ByTimeAndID({r \in OfBody(Values(s.actions), filter) :
                    pendingOnly => JournalOf(s.actionResults, r.id) = <<>>}, "id", filter)

\* Newest first, and records of one time by their keys.
ListRuntimeRecords(s, filter) ==
    LET matching == {r \in Values(s.runtimeRecords) :
                        /\ filter.kind # "" => r.kind = filter.kind
                        /\ filter.prefix # 0 => <<r.key, filter.prefix>> \in HasPrefix}
    IN  Page(Sorted([r \in matching |->
                        {x \in matching : x.at > r.at \/ (x.at = r.at /\ x.key < r.key)}]),
             filter.limit, filter.offset)

ExecutionHistory(s, id, limit) ==
    Page(Reverse(JournalOf(s.executionHistory, id)), limit, 0)

ListActionResults(s, action, limit) ==
    Page(Reverse(JournalOf(s.actionResults, action)), limit, 0)

\* The last result counts, or there is none.
ActionResult(s, action) ==
    LET results == JournalOf(s.actionResults, action)
    IN  IF results = <<>> THEN <<>> ELSE <<Last(results)>>

-----------------------------------------------------------------------------
(* Units of work.                                                          *)

\* The private copy after so many writes: the function of a unit stops at the
\* first that fails.
Stages(s, unit) ==
    LET after[n \in 0 .. Len(unit.writes)] ==
            IF n = 0 THEN s
            ELSE IF after[n - 1] = Refused THEN Refused
            ELSE Save(after[n - 1], unit.writes[n])
    IN  after

RunUnit(s, unit) ==
    IF unit.nestedFails THEN Refused ELSE Stages(s, unit)[Len(unit.writes)]

Init == state = Empty

\* fn runs against a private copy, published only when nothing failed, be it
\* in a nested unit whose error fn swallowed.
WithinTransaction(unit) ==
    LET published == RunUnit(state, unit)
    IN  published # Refused /\ state' = published

Next == \E unit \in Units : WithinTransaction(unit)

Spec == Init /\ [][Next]_state
=============================================================================

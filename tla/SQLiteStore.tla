------------------------------ MODULE SQLiteStore ------------------------------
(***************************************************************************)
(* repository.SQLite: units of work as statements of SQL transactions on   *)
(* the one connection of the pool, for callers of the controller that run  *)
(* at the same time, any of whose statements, commits and contexts may     *)
(* fail, and for crashes of the process at any point.                      *)
(*                                                                         *)
(* A unit is a function given to WithinTransaction: its writes in order,   *)
(* the first of those it makes in a nested WithinTransaction, whether the  *)
(* nested function then returns an error of its own, and whether the unit  *)
(* ignores what the nested call returned.  A unit marked "alone" is one    *)
(* Save call outside a transaction.  Every caller returns the error of a   *)
(* Save call, as all code does.  SQLite is external: a commit is durable   *)
(* (synchronous = FULL) or fails and leaves nothing, and a transaction cut *)
(* by a crash is gone.                                                     *)
(***************************************************************************)
EXTENDS Naturals, FiniteSets, Sequences, SequencesExt

CONSTANTS
    Callers,      \* goroutines with a unit of work to run
    Units,        \* the units they may ask for
    Nobody,       \* the connection is in the pool
    NoUnit,
    Filters,      \* filters of the list queries compared
    HasPrefix,    \* pairs of a key and a prefix it begins with
    Like,         \* pairs of a key and a prefix it begins with but for ASCII case
    MaxCalls,     \* bound: units asked for in a behaviour
    MaxFaults,    \* bound: statements, commits and contexts that fail, panics
    MaxCrashes    \* bound: crashes of the process

WriteTables ==
    {"observation", "quote", "tradeQuote", "execution", "action", "result", "event",
     "runtime"}

ASSUME NobodyAssumption == Nobody \notin Callers /\ NoUnit \notin Units
ASSUME UnitsAssumption ==
    \A u \in Units :
        /\ DOMAIN u.writes = 1 .. Len(u.writes) /\ Len(u.writes) \in Nat
        /\ \A n \in DOMAIN u.writes :
              /\ u.writes[n].table \in WriteTables
              /\ u.writes[n].table \in {"quote", "tradeQuote"} => u.writes[n].record.at \in Nat
        /\ u.alone => Len(u.writes) = 1 /\ ~u.nestedFails

ASSUME FiltersAssumption == \A f \in Filters : f.limit \in Nat /\ f.offset \in Nat
ASSUME PrefixAssumption == HasPrefix \subseteq Like

\* The execution a write is about, as its record or as its checkpoint.
About(write) ==
    IF write.table = "execution" THEN {write.record.id}
    ELSE IF write.table = "runtime" THEN {write.record.key} ELSE {}

IsCheckpoint(write) == write.table = "runtime" /\ write.record.kind = "checkpoint"

\* A checkpoint and its execution, saved in one unit by Engine.persistSaga.
PersistsSaga(u) ==
    /\ Len(u.writes) = 2 /\ IsCheckpoint(u.writes[1]) /\ u.writes[2].table = "execution"
    /\ u.writes[2].record.id = u.writes[1].record.key
    /\ u.writes[2].record.body = u.writes[1].record.body

\* Nothing else saves checkpoints, or executions that have one.
ASSUME CheckpointsAssumption ==
    \A u \in Units : \A n \in DOMAIN u.writes :
        IsCheckpoint(u.writes[n]) =>
            \A v \in Units :
                (\E m \in DOMAIN v.writes : About(v.writes[m]) = About(u.writes[n]))
                    => PersistsSaga(v)

VARIABLES
    disk,          \* the committed tables
    work,          \* the tables as the open transaction sees them
    owner,         \* who holds the connection
    unit,          \* the unit each caller waits for, or NoUnit
    next,          \* the write the transaction is at
    part,          \* the statement of that write: 1 or 2
    failed,        \* transactionState.failure is set
    acknowledged,  \* history: the units whose call returned nil
    calls, faults, crashes

transaction == <<work, owner, next, part, failed>>
bounds == <<calls, faults, crashes>>
vars == <<disk, transaction, unit, acknowledged, bounds>>

\* Keyed tables are sets of rows; AUTOINCREMENT tables keep a sequence.
NoRows ==
    [observations |-> {}, market_quotes |-> {}, trade_quotes |-> {},
     trade_executions |-> {}, trade_execution_history |-> {}, action_requests |-> {},
     action_results |-> {}, agent_events |-> {}, runtime_records |-> {}]

Init ==
    /\ disk = NoRows /\ work = NoRows /\ owner = Nobody
    /\ unit = [c \in Callers |-> NoUnit]
    /\ next = 1 /\ part = 1 /\ failed = FALSE
    /\ acknowledged = {}
    /\ calls = 0 /\ faults = 0 /\ crashes = 0

-----------------------------------------------------------------------------
(* Statements: the tables afterwards, or Refused.                          *)

\* The outcome of a statement that returns an error.
Refused == [error |-> TRUE]

SameKey(table, key, r) == {row \in table : row[key] = r[key]}

AppendRow(db, table, r) ==
    LET last == {row.sequence : row \in db[table]}
        sequence == 1 + Cardinality(last)      \* rows are never deleted
    IN  [db EXCEPT ![table] = @ \cup {[sequence |-> sequence, record |-> r]}]

\* ON CONFLICT DO NOTHING, and then a comparison with the row that is there.
InsertOnce(db, table, key, r) ==
    LET existing == SameKey(db[table], key, r)
    IN  IF existing = {} THEN [db EXCEPT ![table] = @ \cup {r}]
        ELSE IF existing = {r} THEN db
        ELSE Refused

\* ON CONFLICT DO UPDATE.
Upsert(db, table, key, r) ==
    [db EXCEPT ![table] = (@ \ SameKey(@, key, r)) \cup {r}]

SaveObservation(db, r) == InsertOnce(db, "observations", "frame", r)
SaveAction(db, r) == InsertOnce(db, "action_requests", "id", r)
SaveEvent(db, r) == InsertOnce(db, "agent_events", "id", r)
SaveQuote(db, r) == AppendRow(db, "market_quotes", r)
SaveTradeQuote(db, r) == AppendRow(db, "trade_quotes", r)
SaveRuntimeRecord(db, r) == Upsert(db, "runtime_records", "key", r)

\* The current snapshot, and then its line of the history.
SaveExecution(db, r, statement) ==
    IF statement = 1 THEN Upsert(db, "trade_executions", "id", r)
    ELSE AppendRow(db, "trade_execution_history", r)

ValidActionResult(r) == r.notSent => ~r.success /\ r.error /\ r.retrySafe

\* The foreign key holds the result to a stored action.
SaveActionResult(db, r) ==
    IF ValidActionResult(r) /\ \E row \in db.action_requests : row.id = r.action
    THEN AppendRow(db, "action_results", r)
    ELSE Refused

Execute(db, write, statement) ==
    CASE write.table = "observation" -> SaveObservation(db, write.record)
      [] write.table = "quote" -> SaveQuote(db, write.record)
      [] write.table = "tradeQuote" -> SaveTradeQuote(db, write.record)
      [] write.table = "execution" -> SaveExecution(db, write.record, statement)
      [] write.table = "action" -> SaveAction(db, write.record)
      [] write.table = "result" -> SaveActionResult(db, write.record)
      [] write.table = "event" -> SaveEvent(db, write.record)
      [] write.table = "runtime" -> SaveRuntimeRecord(db, write.record)

Statements(write) == IF write.table = "execution" THEN 2 ELSE 1

-----------------------------------------------------------------------------
(* Queries.                                                                *)

InTime(at, filter) ==
    /\ filter.since # 0 => at >= filter.since
    /\ filter.until # 0 => at <= filter.until

\* LIMIT and OFFSET; limit 0 sets no LIMIT, or LIMIT -1 before an OFFSET.
Paginate(rows, limit, offset) ==
    [n \in 1 .. Cardinality({i \in DOMAIN rows :
                                i > offset /\ (limit > 0 => i <= offset + limit)})
       |-> rows[offset + n]]

Records(rows) == [n \in DOMAIN rows |-> rows[n].record]

\* ORDER BY, given the rows before each: the n-th row has n - 1 before it.
OrderBy(before) ==
    [n \in 1 .. Cardinality(DOMAIN before) |->
        CHOOSE row \in DOMAIN before : Cardinality(before[row]) = n - 1]

\* ORDER BY sequence.
InOrder(rows) ==
    Records(OrderBy([row \in rows |-> {x \in rows : x.sequence < row.sequence}]))

\* ORDER BY sequence DESC.
ByInsertion(rows) == Reverse(InOrder(rows))

\* Mutant: quotes of one time in any order, here the oldest write first.
SelectOldestOfTie(rows, filter) ==
    LET matching == {row \in rows : /\ filter.item # 0 => row.record.item = filter.item
                                    /\ InTime(row.record.at, filter)}
        before == [row \in matching |->
                      {x \in matching : \/ x.record.at > row.record.at
                                        \/ /\ x.record.at = row.record.at
                                           /\ x.sequence < row.sequence}]
    IN  Paginate(Records(OrderBy(before)), filter.limit, filter.offset)

\* ORDER BY observed_at DESC, sequence DESC.
SelectQuotes(rows, filter) ==
    LET matching == {row \in rows : /\ filter.item # 0 => row.record.item = filter.item
                                    /\ InTime(row.record.at, filter)}
        before == [row \in matching |->
                      {x \in matching : \/ x.record.at > row.record.at
                                        \/ /\ x.record.at = row.record.at
                                           /\ x.sequence > row.sequence}]
    IN  Paginate(Records(OrderBy(before)), filter.limit, filter.offset)

ListQuotes(db, filter) == SelectQuotes(db.market_quotes, filter)
ListTradeQuotes(db, filter) == SelectQuotes(db.trade_quotes, filter)

One(item) == [item |-> item, since |-> 0, until |-> 0, limit |-> 1, offset |-> 0]

LatestQuote(db, item) == ListQuotes(db, One(item))
LatestTradeQuote(db, item) == ListTradeQuotes(db, One(item))

\* ORDER BY the time DESC, id DESC.
SelectByTime(rows, id, filter) ==
    LET matching == {row \in rows : InTime(row.at, filter)}
    IN  Paginate(OrderBy([row \in matching |->
                     {x \in matching : x.at > row.at \/ (x.at = row.at /\ x[id] > row[id])}]),
                 filter.limit, filter.offset)

\* Conditions of equality with the other columns, which the body stands for.
OfBody(rows, filter) == {row \in rows : filter.body # 0 => row.body = filter.body}

ListObservations(db, filter) ==
    SelectByTime({row \in db.observations : filter.state # 0 => row.state = filter.state},
                 "frame", filter)
ListExecutions(db, filter) == SelectByTime(OfBody(db.trade_executions, filter), "id", filter)
ListEvents(db, filter) == SelectByTime(OfBody(db.agent_events, filter), "id", filter)
ListActions(db, pendingOnly, filter) ==
    SelectByTime({row \in OfBody(db.action_requests, filter) :
                     pendingOnly => ~\E result \in db.action_results :
                                        result.record.action = row.id}, "id", filter)

\* key LIKE prefix%, the wildcards in the prefix escaped: LIKE is blind to the
\* case of ASCII letters.  ORDER BY updated_at DESC, key ASC.
ListRuntimeRecords(db, filter) ==
    LET matching == {row \in db.runtime_records :
                        /\ filter.kind # "" => row.kind = filter.kind
                        /\ filter.prefix # 0 => <<row.key, filter.prefix>> \in Like}
    IN  Paginate(OrderBy([row \in matching |->
                     {x \in matching : x.at > row.at \/ (x.at = row.at /\ x.key < row.key)}]),
                 filter.limit, filter.offset)

ExecutionHistory(db, id, limit) ==
    Paginate(ByInsertion({row \in db.trade_execution_history : row.record.id = id}), limit, 0)

ListActionResults(db, action, limit) ==
    Paginate(ByInsertion({row \in db.action_results : row.record.action = action}), limit, 0)

ActionResult(db, action) == ListActionResults(db, action, 1)

-----------------------------------------------------------------------------
(* Units of work.                                                          *)

Working(c) == owner = c /\ unit[c] # NoUnit
Waiting(c) == unit[c] # NoUnit /\ owner # c

Call(c, u) ==
    /\ unit[c] = NoUnit /\ calls < MaxCalls
    /\ unit' = [unit EXCEPT ![c] = u] /\ calls' = calls + 1
    /\ UNCHANGED <<disk, transaction, acknowledged, faults, crashes>>

\* Mutant: a panic leaves the connection with the transaction nobody ends.
ReturnHoldingConnection(c) ==
    /\ unit' = [unit EXCEPT ![c] = NoUnit]
    /\ UNCHANGED transaction

\* The connection is back in the pool and the caller has its answer.
Return(c) ==
    /\ owner' = Nobody /\ work' = NoRows /\ next' = 1 /\ part' = 1 /\ failed' = FALSE
    /\ unit' = [unit EXCEPT ![c] = NoUnit]

Rollback(c) == Return(c) /\ UNCHANGED <<disk, acknowledged>>

Fault == faults < MaxFaults /\ faults' = faults + 1
NoFault == UNCHANGED faults

\* A Save call outside a transaction of one statement commits by itself;
\* SaveExecution opens a transaction of its own.
IsStatement(u) == u.alone /\ Statements(u.writes[1]) = 1

Autocommit(c) ==
    /\ Waiting(c) /\ owner = Nobody /\ IsStatement(unit[c])
    /\ LET after == Execute(disk, unit[c].writes[1], 1)
       IN  IF after = Refused THEN UNCHANGED <<disk, acknowledged>>
           ELSE disk' = after /\ acknowledged' = acknowledged \cup {unit[c]}
    /\ unit' = [unit EXCEPT ![c] = NoUnit]
    /\ UNCHANGED <<transaction, bounds>>

Begin(c) ==
    /\ Waiting(c) /\ owner = Nobody /\ ~IsStatement(unit[c])
    /\ owner' = c /\ work' = disk /\ next' = 1 /\ part' = 1 /\ failed' = FALSE
    /\ UNCHANGED <<disk, unit, acknowledged, bounds>>

\* The context ends, or the database fails, before there is a transaction.
NeverBegins(c) ==
    /\ Waiting(c) /\ Fault
    /\ unit' = [unit EXCEPT ![c] = NoUnit]
    /\ UNCHANGED <<disk, transaction, acknowledged, calls, crashes>>

InNested(c) == unit[c].nestedFrom > 0 /\ next >= unit[c].nestedFrom
AtEnd(c) == next > Len(unit[c].writes)

\* Mutant: only the caller of the nested unit hears of its error.
LeaveUnmarked(err) == failed

\* markFailed: the first error of a nested unit dooms the whole transaction.
MarkFailed(err) == failed \/ err

\* Mutant: the error of a write is logged and the unit goes on.
IgnoreWriteError(c) ==
    /\ next' = next + 1 /\ part' = 1
    /\ UNCHANGED <<disk, work, owner, unit, failed, acknowledged>>

\* A write failed.  The error leaves the nested call, marking the unit; a
\* function that ignores it goes on to its end, any other returns it.
WriteFails(c) ==
    IF InNested(c) /\ unit[c].swallows
    THEN /\ failed' = MarkFailed(TRUE)
         /\ next' = Len(unit[c].writes) + 1 /\ part' = 1
         /\ UNCHANGED <<disk, work, owner, unit, acknowledged>>
    ELSE Rollback(c)

RunStatement(c) ==
    /\ Working(c) /\ ~AtEnd(c)
    /\ LET write == unit[c].writes[next]
           after == Execute(work, write, part)
       IN  IF after = Refused THEN WriteFails(c)
           ELSE /\ work' = after
                /\ IF part < Statements(write) THEN part' = part + 1 /\ UNCHANGED next
                   ELSE part' = 1 /\ next' = next + 1
                /\ UNCHANGED <<disk, owner, unit, failed, acknowledged>>
    /\ UNCHANGED bounds

StatementFails(c) ==
    /\ Working(c) /\ ~AtEnd(c) /\ Fault
    /\ WriteFails(c)
    /\ UNCHANGED <<calls, crashes>>

\* The nested function ends with an error of its own.
NestedError(c) == unit[c].nestedFails /\ ~failed

Commit(c) ==
    /\ Working(c) /\ AtEnd(c)
    /\ LET doomed == MarkFailed(NestedError(c)) \/ (NestedError(c) /\ ~unit[c].swallows)
       IN  IF doomed THEN Rollback(c)
           ELSE disk' = work /\ acknowledged' = acknowledged \cup {unit[c]} /\ Return(c)
    /\ UNCHANGED bounds

\* Mutant: the error of COMMIT is dropped.
CommitErrorDropped(c) ==
    /\ Working(c) /\ AtEnd(c) /\ Fault
    /\ Return(c) /\ acknowledged' = acknowledged \cup {unit[c]}
    /\ UNCHANGED <<disk, calls, crashes>>

CommitFails(c) ==
    /\ Working(c) /\ AtEnd(c) /\ Fault
    /\ Rollback(c)
    /\ UNCHANGED <<calls, crashes>>

\* Deferred: a panic in the unit, or the end of its context.
Panic(c) ==
    /\ Working(c) /\ Fault
    /\ Rollback(c)
    /\ UNCHANGED <<calls, crashes>>

Crash ==
    /\ crashes < MaxCrashes /\ crashes' = crashes + 1
    /\ owner' = Nobody /\ work' = NoRows /\ next' = 1 /\ part' = 1 /\ failed' = FALSE
    /\ unit' = [c \in Callers |-> NoUnit]
    /\ UNCHANGED <<disk, acknowledged, calls, faults>>

Step(c) == Autocommit(c) \/ Begin(c) \/ RunStatement(c) \/ Commit(c)

Next ==
    \/ \E c \in Callers :
          \/ \E u \in Units : Call(c, u)
          \/ Step(c)
          \/ NeverBegins(c) \/ StatementFails(c) \/ CommitFails(c) \/ Panic(c)
    \/ Crash

\* A goroutine goes on, and the pool hands a free connection to who waits.
Spec == Init /\ [][Next]_vars /\ \A c \in Callers : WF_vars(Step(c))

-----------------------------------------------------------------------------
(* The maps and journals the tables stand for.                             *)

ByKey(rows, key) ==
    [k \in {row[key] : row \in rows} |-> CHOOSE row \in rows : row[key] = k]

JournalBy(rows, key) ==
    [k \in {row.record[key] : row \in rows} |->
        InOrder({row \in rows : row.record[key] = k})]

View(db) ==
    [observations |-> ByKey(db.observations, "frame"),
     quotes |-> InOrder(db.market_quotes),
     tradeQuotes |-> InOrder(db.trade_quotes),
     executions |-> ByKey(db.trade_executions, "id"),
     executionHistory |-> JournalBy(db.trade_execution_history, "id"),
     actions |-> ByKey(db.action_requests, "id"),
     actionResults |-> JournalBy(db.action_results, "action"),
     events |-> ByKey(db.agent_events, "id"),
     runtimeRecords |-> ByKey(db.runtime_records, "key")]

Memory == INSTANCE RecordStore WITH state <- View(disk)

-----------------------------------------------------------------------------
(* Properties.                                                             *)

\* Through failures of any statement, swallowed errors, panics and crashes the
\* committed tables change only as Memory would change: by a whole unit, run
\* against what the units before it left.  (WithinTransaction of both stores.)
ImplementsMemory == Memory!Spec

\* No stored key differs from the prefix a filter asks for in case only.
PrefixIsPlain(filter) ==
    filter.prefix # 0 =>
        \A row \in disk.runtime_records :
            <<row.key, filter.prefix>> \in Like => <<row.key, filter.prefix>> \in HasPrefix

\* Every list, and the latest quote and result, that the database answers is
\* what Memory answers for the same records: conditions, order, ties of equal
\* times, bounds of time and pages included.  A list of runtime records by a key
\* prefix is so only where no key differs from the prefix in case alone: there
\* LIKE selects records that strings.HasPrefix does not.
QueriesAgree ==
    LET kept == View(disk)
    IN  /\ \A f \in Filters :
              /\ ListQuotes(disk, f) = Memory!ListQuotes(kept, f)
              /\ ListTradeQuotes(disk, f) = Memory!ListTradeQuotes(kept, f)
              /\ f.item # 0 =>
                    /\ LatestQuote(disk, f.item) = Memory!LatestQuote(kept, f.item)
                    /\ LatestTradeQuote(disk, f.item) = Memory!LatestTradeQuote(kept, f.item)
              /\ ListObservations(disk, f) = Memory!ListObservations(kept, f)
              /\ PrefixIsPlain(f) =>
                    ListRuntimeRecords(disk, f) = Memory!ListRuntimeRecords(kept, f)
              /\ ListExecutions(disk, f) = Memory!ListExecutions(kept, f)
              /\ ListEvents(disk, f) = Memory!ListEvents(kept, f)
              /\ \A p \in BOOLEAN : ListActions(disk, p, f) = Memory!ListActions(kept, p, f)
              /\ \A row \in disk.trade_executions :
                    ExecutionHistory(disk, row.id, f.limit)
                        = Memory!ExecutionHistory(kept, row.id, f.limit)
              /\ \A row \in disk.action_requests :
                    ListActionResults(disk, row.id, f.limit)
                        = Memory!ListActionResults(kept, row.id, f.limit)
        /\ \A row \in disk.action_requests :
              ActionResult(disk, row.id) = Memory!ActionResult(kept, row.id)

\* At whatever point the process died, the checkpoint it will resume from, the
\* execution and the last line of its history are of one transition of the
\* saga.  (Engine.persistSaga saves them in one unit.)
CheckpointMatchesExecution ==
    \A row \in disk.runtime_records : row.kind = "checkpoint" =>
        /\ \E e \in disk.trade_executions : e.id = row.key /\ e.body = row.body
        /\ LET history == ExecutionHistory(disk, row.key, 1)
           IN  history # <<>> /\ history[1].body = row.body

Holds(db, write) ==
    LET r == write.record
    IN  CASE write.table = "observation" -> r \in db.observations
          [] write.table = "action" -> r \in db.action_requests
          [] write.table = "event" -> r \in db.agent_events
          [] write.table = "quote" -> \E row \in db.market_quotes : row.record = r
          [] write.table = "tradeQuote" -> \E row \in db.trade_quotes : row.record = r
          [] write.table = "execution" -> \E row \in db.trade_execution_history : row.record = r
          [] write.table = "result" -> \E row \in db.action_results : row.record = r
          [] write.table = "runtime" -> \E row \in db.runtime_records : row.key = r.key

\* What a call reported as saved is in the tables from then on, after any
\* crash: the audit finds the actions and the results it relies on.
AcknowledgedIsDurable ==
    \A u \in acknowledged : \A n \in DOMAIN u.writes : Holds(disk, u.writes[n])

\* However a unit ends, its connection, the only one, goes on to the next: no
\* call waits for ever.  (Deferred Rollback in WithinTransaction.)
EveryCallReturns == \A c \in Callers : unit[c] # NoUnit ~> unit[c] = NoUnit
=============================================================================

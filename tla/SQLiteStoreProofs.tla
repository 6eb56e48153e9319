-------------------------- MODULE SQLiteStoreProofs --------------------------
(***************************************************************************)
(* Proofs about the units of work of SQLiteStore, for every set of callers *)
(* and units, any number of calls, failures and crashes.                   *)
(*                                                                         *)
(* First, rows that were committed stay, and a call that returned nil left *)
(* every one of its records in the committed tables.                       *)
(*                                                                         *)
(* Then the refinement: the tables on the disk stand for the maps and the  *)
(* journals of RecordStore and change as those change, by whole units.     *)
(* Each statement is compared with the Save call it belongs to, and the    *)
(* open transaction with the stages of its unit.                           *)
(*                                                                         *)
(* Last, with the concurrency gone, what units of work alone decide: that  *)
(* the checkpoints agree with the executions; and that every query answers *)
(* what the in-memory store answers.                                       *)
(***************************************************************************)
EXTENDS SQLiteStore, FiniteSetTheorems, SequenceTheorems, TLAPS

TableNames ==
    {"observations", "market_quotes", "trade_quotes", "trade_executions",
     "trade_execution_history", "action_requests", "action_results", "agent_events",
     "runtime_records"}

\* The schema: these tables and no others.
Tabular(db) == db = [t \in TableNames |-> db[t]]

\* The tables in which a row, once written, is neither changed nor deleted.
Journals ==
    {"observations", "market_quotes", "trade_quotes", "trade_execution_history",
     "action_requests", "action_results", "agent_events"}

\* Nothing of db is lost: its journal rows are there, and a checkpoint for
\* every key that had one.
Grows(db, later) ==
    /\ \A t \in Journals : db[t] \subseteq later[t]
    /\ \A row \in db["runtime_records"] :
          \E new \in later["runtime_records"] : new.key = row.key

\* The open transaction: it has begun from the committed tables, and, unless it
\* is doomed, holds every write it has passed.
Open(c) ==
    /\ unit[c] # NoUnit /\ Tabular(work) /\ Grows(disk, work)
    /\ ~failed => \A n \in DOMAIN unit[c].writes :
                     n < next => Holds(work, unit[c].writes[n])

SInv ==
    /\ Tabular(disk)
    /\ unit \in [Callers -> Units \cup {NoUnit}]
    /\ owner \in Callers \cup {Nobody}
    /\ next \in Nat \ {0} /\ part \in {1, 2}
    /\ acknowledged \subseteq Units
    /\ owner # Nobody => Open(owner)
    /\ AcknowledgedIsDurable

-----------------------------------------------------------------------------
(* Statements.                                                             *)

\* Growth is a preorder.
LEMMA GrowsFacts ==
  ASSUME NEW db, NEW middle, NEW later
  PROVE  /\ Grows(db, db)
         /\ Grows(db, middle) /\ Grows(middle, later) => Grows(db, later)
  BY DEF Grows

\* What was saved is still there when the tables have grown.
LEMMA HoldsFacts ==
  ASSUME NEW db, NEW later, Grows(db, later),
         NEW write, write.table \in WriteTables, Holds(db, write)
  PROVE  Holds(later, write)
  BY DEF Grows, Journals, Holds, WriteTables

\* Replacing one table leaves the others as they are.
LEMMA ReplaceFacts ==
  ASSUME NEW db, Tabular(db), NEW t \in TableNames, NEW rows,
         NEW after, after = [db EXCEPT ![t] = rows]
  PROVE  /\ Tabular(after) /\ after[t] = rows
         /\ \A u \in TableNames : u # t => after[u] = db[u]
         /\ t \in Journals /\ db[t] \subseteq rows => Grows(db, after)
         /\ t = "trade_executions" => Grows(db, after)
  <1>1. after = [u \in TableNames |-> IF u = t THEN rows ELSE db[u]]
    BY DEF Tabular
  <1>2. after[t] = rows /\ \A u \in TableNames : u # t => after[u] = db[u]
    BY <1>1
  <1>3. Tabular(after)
    BY <1>1 DEF Tabular
  <1>4. /\ Journals \subseteq TableNames /\ "runtime_records" \in TableNames
        /\ "runtime_records" \notin Journals /\ "trade_executions" \notin Journals
        /\ "trade_executions" # "runtime_records"
    BY DEF Journals, TableNames
  <1>5. ASSUME t \in Journals, db[t] \subseteq rows PROVE Grows(db, after)
    <2>1. after["runtime_records"] = db["runtime_records"]
      BY <1>2, <1>4, <1>5
    <2>2. \A u \in Journals : db[u] \subseteq after[u]
      BY <1>2, <1>4, <1>5
    <2> QED BY <2>1, <2>2 DEF Grows
  <1>6. ASSUME t = "trade_executions" PROVE Grows(db, after)
    <2>1. /\ after["runtime_records"] = db["runtime_records"]
          /\ \A u \in Journals : after[u] = db[u]
      BY <1>2, <1>4, <1>6
    <2> QED BY <2>1 DEF Grows
  <1> QED BY <1>2, <1>3, <1>5, <1>6

\* A statement of an append-only table adds its row.
LEMMA AppendFacts ==
  ASSUME NEW db, Tabular(db), NEW t \in Journals, NEW r
  PROVE  LET after == AppendRow(db, t, r) IN
         /\ Tabular(after) /\ Grows(db, after)
         /\ \E row \in after[t] : row.record = r
  <1>1. t \in TableNames
    BY DEF Journals, TableNames
  <1>2. PICK last : last = 1 + Cardinality({row.sequence : row \in db[t]})
    OBVIOUS
  <1>3. PICK new, rows : new = [sequence |-> last, record |-> r] /\ rows = db[t] \cup {new}
    OBVIOUS
  <1>4. AppendRow(db, t, r) = [db EXCEPT ![t] = rows]
    BY <1>2, <1>3 DEF AppendRow
  <1>5. db[t] \subseteq rows /\ new \in rows /\ new.record = r
    BY <1>3
  <1>6. PICK after : after = AppendRow(db, t, r)
    OBVIOUS
  <1>7. Tabular(after) /\ after[t] = rows /\ Grows(db, after)
    BY <1>1, <1>4, <1>5, <1>6, ReplaceFacts
  <1> QED BY <1>5, <1>6, <1>7

\* An immutable record is there afterwards, unless the statement is refused.
LEMMA OnceFacts ==
  ASSUME NEW db, Tabular(db), NEW t \in Journals, NEW key, NEW r,
         InsertOnce(db, t, key, r) # Refused
  PROVE  LET after == InsertOnce(db, t, key, r) IN
         Tabular(after) /\ Grows(db, after) /\ r \in after[t]
  <1>1. t \in TableNames
    BY DEF Journals, TableNames
  <1>2. CASE SameKey(db[t], key, r) = {}
    <2>1. PICK rows : rows = db[t] \cup {r}
      OBVIOUS
    <2>2. InsertOnce(db, t, key, r) = [db EXCEPT ![t] = rows]
      BY <1>2, <2>1 DEF InsertOnce
    <2>3. db[t] \subseteq rows /\ r \in rows
      BY <2>1
    <2> QED BY <1>1, <2>2, <2>3, ReplaceFacts
  <1>3. CASE SameKey(db[t], key, r) # {}
    <2>1. SameKey(db[t], key, r) = {r} /\ InsertOnce(db, t, key, r) = db
      BY <1>3 DEF InsertOnce
    <2>2. r \in db[t]
      BY <2>1 DEF SameKey
    <2> QED BY <2>1, <2>2, GrowsFacts
  <1> QED BY <1>2, <1>3

\* A checkpoint replaces the one of its key.
LEMMA UpsertFacts ==
  ASSUME NEW db, Tabular(db), NEW r
  PROVE  /\ LET after == Upsert(db, "runtime_records", "key", r) IN
            Tabular(after) /\ Grows(db, after) /\ r \in after["runtime_records"]
         /\ LET after == Upsert(db, "trade_executions", "id", r) IN
            Tabular(after) /\ Grows(db, after)
  <1>1. PICK old, rows : /\ old = db["runtime_records"]
                         /\ rows = (old \ SameKey(old, "key", r)) \cup {r}
    OBVIOUS
  <1>2. PICK after : after = Upsert(db, "runtime_records", "key", r)
    OBVIOUS
  <1>3. after = [db EXCEPT !["runtime_records"] = rows]
    BY <1>1, <1>2 DEF Upsert
  <1>4. "runtime_records" \in TableNames /\ "trade_executions" \in TableNames
    BY DEF TableNames
  <1>5. /\ Tabular(after) /\ after["runtime_records"] = rows
        /\ \A u \in TableNames : u # "runtime_records" => after[u] = db[u]
    <2>1. PICK t \in TableNames : t = "runtime_records"
      BY <1>4
    <2>2. after = [db EXCEPT ![t] = rows]
      BY <1>3, <2>1
    <2>3. Tabular(after)
      BY <2>2, ReplaceFacts
    <2>4. DOMAIN db = TableNames
      BY DEF Tabular
    <2>5. after[t] = rows
      BY <2>2, <2>4
    <2>6. \A u \in TableNames : u # t => after[u] = db[u]
      BY <2>2, ReplaceFacts
    <2> QED BY <2>1, <2>3, <2>6, <2>5
  <1>6. \A u \in Journals : u \in TableNames /\ u # "runtime_records"
    BY DEF Journals, TableNames
  <1>7. \A row \in old : \E new \in rows : new.key = row.key
    <2> TAKE row \in old
    <2>1. CASE row.key = r.key BY <1>1, <2>1
    <2>2. CASE row.key # r.key
      <3>1. row \in rows BY <1>1, <2>2 DEF SameKey
      <3> QED BY <3>1
    <2> QED BY <2>1, <2>2
  <1>8. Grows(db, after)
    BY <1>1, <1>5, <1>6, <1>7 DEF Grows
  <1>9. r \in rows
    BY <1>1
  <1>10. PICK kept, others : /\ kept = db["trade_executions"]
                             /\ others = (kept \ SameKey(kept, "id", r)) \cup {r}
    OBVIOUS
  <1>11. PICK changed : changed = Upsert(db, "trade_executions", "id", r)
    OBVIOUS
  <1>12. changed = [db EXCEPT !["trade_executions"] = others]
    BY <1>10, <1>11 DEF Upsert
  <1>13. Tabular(changed) /\ Grows(db, changed)
    BY <1>4, <1>12, ReplaceFacts
  <1> QED BY <1>2, <1>5, <1>8, <1>9, <1>11, <1>13

\* A statement that is not refused keeps the schema and what was saved, and the
\* last one of a write saves its record.
LEMMA ExecuteFacts ==
  ASSUME NEW db, Tabular(db), NEW write, write.table \in WriteTables, NEW statement \in {1, 2},
         Execute(db, write, statement) # Refused
  PROVE  LET after == Execute(db, write, statement) IN
         /\ Tabular(after) /\ Grows(db, after)
         /\ statement >= Statements(write) => Holds(after, write)
  <1>1. PICK r, after : r = write.record /\ after = Execute(db, write, statement)
    OBVIOUS
  <1>2. /\ "observations" \in Journals /\ "market_quotes" \in Journals
        /\ "trade_quotes" \in Journals /\ "trade_execution_history" \in Journals
        /\ "action_requests" \in Journals /\ "action_results" \in Journals
        /\ "agent_events" \in Journals
    BY DEF Journals
  <1>3. CASE write.table = "observation"
    <2>1. after = InsertOnce(db, "observations", "frame", r)
      BY <1>1, <1>3 DEF Execute, SaveObservation
    <2>2. Tabular(after) /\ Grows(db, after) /\ r \in after["observations"]
      BY <1>1, <1>2, <2>1, OnceFacts
    <2> QED BY <1>1, <1>3, <2>2 DEF Holds
  <1>4. CASE write.table = "action"
    <2>1. after = InsertOnce(db, "action_requests", "id", r)
      BY <1>1, <1>4 DEF Execute, SaveAction
    <2>2. Tabular(after) /\ Grows(db, after) /\ r \in after["action_requests"]
      BY <1>1, <1>2, <2>1, OnceFacts
    <2> QED BY <1>1, <1>4, <2>2 DEF Holds
  <1>5. CASE write.table = "event"
    <2>1. after = InsertOnce(db, "agent_events", "id", r)
      BY <1>1, <1>5 DEF Execute, SaveEvent
    <2>2. Tabular(after) /\ Grows(db, after) /\ r \in after["agent_events"]
      BY <1>1, <1>2, <2>1, OnceFacts
    <2> QED BY <1>1, <1>5, <2>2 DEF Holds
  <1>6. CASE write.table = "quote"
    <2>1. after = AppendRow(db, "market_quotes", r)
      BY <1>1, <1>6 DEF Execute, SaveQuote
    <2>2. /\ Tabular(after) /\ Grows(db, after)
          /\ \E row \in after["market_quotes"] : row.record = r
      BY <1>2, <2>1, AppendFacts
    <2> QED BY <1>1, <1>6, <2>2 DEF Holds
  <1>7. CASE write.table = "tradeQuote"
    <2>1. after = AppendRow(db, "trade_quotes", r)
      BY <1>1, <1>7 DEF Execute, SaveTradeQuote
    <2>2. /\ Tabular(after) /\ Grows(db, after)
          /\ \E row \in after["trade_quotes"] : row.record = r
      BY <1>2, <2>1, AppendFacts
    <2> QED BY <1>1, <1>7, <2>2 DEF Holds
  <1>8. CASE write.table = "result"
    <2>1. after = SaveActionResult(db, r)
      BY <1>1, <1>8 DEF Execute
    <2>2. after = AppendRow(db, "action_results", r)
      BY <1>1, <2>1 DEF SaveActionResult
    <2>3. /\ Tabular(after) /\ Grows(db, after)
          /\ \E row \in after["action_results"] : row.record = r
      BY <1>2, <2>2, AppendFacts
    <2> QED BY <1>1, <1>8, <2>3 DEF Holds
  <1>9. CASE write.table = "runtime"
    <2>1. after = Upsert(db, "runtime_records", "key", r)
      BY <1>1, <1>9 DEF Execute, SaveRuntimeRecord
    <2>2. Tabular(after) /\ Grows(db, after) /\ r \in after["runtime_records"]
      BY <2>1, UpsertFacts
    <2> QED BY <1>1, <1>9, <2>2 DEF Holds
  <1>10. CASE write.table = "execution"
    <2>1. after = SaveExecution(db, r, statement)
      BY <1>1, <1>10 DEF Execute
    <2>2. CASE statement = 1
      <3>1. after = Upsert(db, "trade_executions", "id", r)
        BY <2>1, <2>2 DEF SaveExecution
      <3>2. ~(statement >= Statements(write))
        BY <1>10, <2>2 DEF Statements
      <3> QED BY <1>1, <3>1, <3>2, UpsertFacts
    <2>3. CASE statement = 2
      <3>1. after = AppendRow(db, "trade_execution_history", r)
        BY <2>1, <2>3 DEF SaveExecution
      <3>2. /\ Tabular(after) /\ Grows(db, after)
            /\ \E row \in after["trade_execution_history"] : row.record = r
        BY <1>2, <3>1, AppendFacts
      <3> QED BY <1>1, <1>10, <3>2 DEF Holds
    <2> QED BY <2>2, <2>3
  <1> QED BY <1>3, <1>4, <1>5, <1>6, <1>7, <1>8, <1>9, <1>10 DEF WriteTables

-----------------------------------------------------------------------------
(* Steps.                                                                  *)

\* Where a caller stands in a unit changes nothing of what was saved.
LEMMA IdleFacts ==
  ASSUME SInv, disk' = disk, acknowledged' = acknowledged,
         unit' \in [Callers -> Units \cup {NoUnit}],
         owner' \in Callers \cup {Nobody}, next' \in Nat \ {0}, part' \in {1, 2},
         owner' # Nobody => Open(owner)'
  PROVE  SInv'
  BY DEF SInv, AcknowledgedIsDurable

\* The connection goes back to the pool; what was saved stays.
LEMMA ReturnFacts ==
  ASSUME SInv, NEW c \in Callers, Return(c), Tabular(disk)', Grows(disk, disk'),
         acknowledged' \in SUBSET Units,
         \A u \in acknowledged' :
            u \notin acknowledged => \A n \in DOMAIN u.writes : Holds(disk', u.writes[n])
  PROVE  SInv'
  <1>1. /\ owner' = Nobody /\ next' \in Nat \ {0} /\ part' \in {1, 2}
        /\ unit' \in [Callers -> Units \cup {NoUnit}]
    BY DEF Return, SInv
  <1>2. AcknowledgedIsDurable'
    <2>1. ASSUME NEW u \in acknowledged', NEW n \in DOMAIN u.writes
          PROVE  Holds(disk', u.writes[n])
      <3>1. CASE u \in acknowledged
        <4>1. Holds(disk, u.writes[n])
          BY <2>1, <3>1 DEF SInv, AcknowledgedIsDurable
        <4>2. u.writes[n].table \in WriteTables
          BY <2>1, UnitsAssumption
        <4> QED BY <4>1, <4>2, HoldsFacts
      <3>2. CASE u \notin acknowledged
        BY <2>1, <3>2
      <3> QED BY <3>1, <3>2
    <2> QED BY <2>1 DEF AcknowledgedIsDurable
  <1> QED BY <1>1, <1>2 DEF SInv

\* A unit that is rolled back leaves everything as it was.
LEMMA RollbackFacts ==
  ASSUME SInv, NEW c \in Callers, Rollback(c)
  PROVE  SInv'
  <1>1. Return(c) /\ disk' = disk /\ acknowledged' = acknowledged
    BY DEF Rollback
  <1>2. Grows(disk, disk') /\ Tabular(disk)'
    BY <1>1, GrowsFacts DEF SInv
  <1> QED BY <1>1, <1>2, ReturnFacts DEF SInv

\* The owner of the connection has a unit, whose transaction is open.
LEMMA WorkingFacts ==
  ASSUME SInv, NEW c \in Callers, Working(c)
  PROVE  /\ owner = c /\ Open(c) /\ unit[c] \in Units
         /\ DOMAIN unit[c].writes = 1 .. Len(unit[c].writes) /\ Len(unit[c].writes) \in Nat
         /\ \A n \in DOMAIN unit[c].writes : unit[c].writes[n].table \in WriteTables
  <1>1. owner = c /\ owner # Nobody /\ unit[c] \in Units
    BY NobodyAssumption DEF Working, SInv
  <1> QED BY <1>1, UnitsAssumption DEF SInv

\* A failed write returns the connection, or dooms the transaction.
LEMMA WriteFailsFacts ==
  ASSUME SInv, NEW c \in Callers, Working(c), WriteFails(c)
  PROVE  SInv'
  <1>1. CASE InNested(c) /\ unit[c].swallows
    <2>1. /\ failed' = TRUE /\ next' = Len(unit[c].writes) + 1 /\ part' = 1
          /\ disk' = disk /\ work' = work /\ owner' = owner /\ unit' = unit
          /\ acknowledged' = acknowledged
      BY <1>1 DEF WriteFails, MarkFailed
    <2>2. Open(c)'
      BY <2>1, WorkingFacts DEF Open
    <2>3. next' \in Nat \ {0}
      BY <2>1, WorkingFacts
    <2> QED BY <2>1, <2>2, <2>3, WorkingFacts, IdleFacts DEF SInv
  <1>2. CASE ~(InNested(c) /\ unit[c].swallows)
    BY <1>2, RollbackFacts DEF WriteFails
  <1> QED BY <1>1, <1>2

\* A statement adds its write to the transaction.
LEMMA RunFacts ==
  ASSUME SInv, NEW c \in Callers, RunStatement(c)
  PROVE  SInv'
  <1>1. PICK u, write, after : /\ u = unit[c] /\ write = u.writes[next]
                               /\ after = Execute(work, write, part)
    OBVIOUS
  <1>2. Working(c) /\ ~AtEnd(c)
    BY DEF RunStatement
  <1>3. CASE after = Refused
    BY <1>1, <1>2, <1>3, WriteFailsFacts DEF RunStatement
  <1>4. CASE after # Refused
    <2>1. /\ work' = after
          /\ \/ part < Statements(write) /\ part' = part + 1 /\ next' = next
             \/ ~(part < Statements(write)) /\ part' = 1 /\ next' = next + 1
          /\ disk' = disk /\ owner' = owner /\ unit' = unit /\ failed' = failed
          /\ acknowledged' = acknowledged
      BY <1>1, <1>4 DEF RunStatement
    <2>2. /\ owner = c /\ u \in Units /\ Tabular(work) /\ Grows(disk, work)
          /\ DOMAIN u.writes = 1 .. Len(u.writes) /\ Len(u.writes) \in Nat
          /\ \A n \in DOMAIN u.writes : u.writes[n].table \in WriteTables
          /\ ~failed => \A n \in DOMAIN u.writes : n < next => Holds(work, u.writes[n])
          /\ u # NoUnit
      BY <1>1, <1>2, WorkingFacts DEF Open
    <2>3. next \in Nat \ {0} /\ part \in {1, 2} /\ Statements(write) \in {1, 2}
      BY DEF SInv, Statements
    <2>4. /\ Tabular(after) /\ Grows(work, after)
          /\ part >= Statements(write) => Holds(after, write)
      <3>1. next \in DOMAIN u.writes
        BY <1>1, <1>2, <2>2, <2>3 DEF AtEnd
      <3> QED BY <1>1, <1>4, <2>2, <2>3, <3>1, ExecuteFacts
    <2>5. Grows(disk, after)
      BY <2>2, <2>4, GrowsFacts
    <2>6. ~failed => \A n \in DOMAIN u.writes : n < next' => Holds(after, u.writes[n])
      <3> HAVE ~failed
      <3> TAKE n \in DOMAIN u.writes
      <3> HAVE n < next'
      <3>1. CASE n < next
        BY <2>2, <2>4, <3>1, HoldsFacts
      <3>2. CASE ~(n < next)
        <4>1. n = next /\ ~(part < Statements(write))
          BY <2>1, <2>2, <2>3, <3>2
        <4> QED BY <1>1, <2>3, <2>4, <4>1
      <3> QED BY <3>1, <3>2
    <2>7. next' \in Nat \ {0} /\ part' \in {1, 2}
      BY <2>1, <2>3
    <2>8. Open(c)'
      BY <1>1, <2>1, <2>2, <2>4, <2>5, <2>6 DEF Open
    <2> QED BY <2>1, <2>2, <2>7, <2>8, IdleFacts DEF SInv
  <1> QED BY <1>3, <1>4

\* A commit publishes the tables of the transaction, with every write of its
\* unit, and only then answers.
LEMMA CommitFacts ==
  ASSUME SInv, NEW c \in Callers, Commit(c)
  PROVE  SInv'
  <1>1. Working(c) /\ AtEnd(c)
    BY DEF Commit
  <1>2. CASE Rollback(c)
    BY <1>2, RollbackFacts
  <1>3. CASE ~failed /\ disk' = work /\ acknowledged' = acknowledged \cup {unit[c]} /\ Return(c)
    <2>1. Tabular(work) /\ Grows(disk, work) /\ unit[c] \in Units
      BY <1>1, WorkingFacts DEF Open
    <2>2. \A n \in DOMAIN unit[c].writes : n < next
      BY <1>1, WorkingFacts DEF AtEnd, SInv
    <2>3. \A n \in DOMAIN unit[c].writes : Holds(work, unit[c].writes[n])
      BY <1>1, <1>3, <2>2, WorkingFacts DEF Open
    <2>4. acknowledged' \in SUBSET Units
      BY <1>3, <2>1 DEF SInv
    <2> QED BY <1>3, <2>1, <2>3, <2>4, ReturnFacts
  <1>4. \/ Rollback(c)
        \/ ~failed /\ disk' = work /\ acknowledged' = acknowledged \cup {unit[c]} /\ Return(c)
    BY DEF Commit, MarkFailed
  <1> QED BY <1>2, <1>3, <1>4

\* A Save call outside a transaction commits its only statement.
LEMMA AutocommitFacts ==
  ASSUME SInv, NEW c \in Callers, Autocommit(c)
  PROVE  SInv'
  <1>1. PICK u, write, after : /\ u = unit[c] /\ write = u.writes[1]
                               /\ after = Execute(disk, write, 1)
    OBVIOUS
  <1>2. /\ u # NoUnit /\ owner = Nobody /\ u.alone /\ Statements(write) = 1
        /\ unit' = [unit EXCEPT ![c] = NoUnit]
        /\ work' = work /\ owner' = owner /\ next' = next /\ part' = part
        /\ failed' = failed
        /\ \/ after = Refused /\ disk' = disk /\ acknowledged' = acknowledged
           \/ /\ after # Refused /\ disk' = after
              /\ acknowledged' = acknowledged \cup {u}
    BY <1>1 DEF Autocommit, Waiting, IsStatement, transaction
  <1>3. unit' \in [Callers -> Units \cup {NoUnit}]
    BY <1>2 DEF SInv
  <1>4. CASE after = Refused
    <2>1. disk' = disk /\ acknowledged' = acknowledged
      BY <1>2, <1>4
    <2> QED BY <1>2, <1>3, <2>1, IdleFacts DEF SInv
  <1>5. CASE after # Refused
    <2>1. u \in Units /\ DOMAIN u.writes = {1} /\ write.table \in WriteTables
      <3>1. u \in Units
        BY <1>1, <1>2 DEF SInv
      <3>2. Len(u.writes) = 1 /\ DOMAIN u.writes = 1 .. 1
        BY <1>2, <3>1, UnitsAssumption
      <3>3. DOMAIN u.writes = {1}
        BY <3>2
      <3> QED BY <1>1, <3>1, <3>3, UnitsAssumption
    <2>2. Tabular(after) /\ Grows(disk, after) /\ Holds(after, write)
      BY <1>1, <1>2, <1>5, <2>1, ExecuteFacts DEF SInv
    <2>3. AcknowledgedIsDurable'
      <3>1. ASSUME NEW v \in acknowledged', NEW n \in DOMAIN v.writes
            PROVE  Holds(disk', v.writes[n])
        <4>1. CASE v = u
          BY <1>1, <1>2, <1>5, <2>1, <2>2, <3>1, <4>1
        <4>2. CASE v \in acknowledged
          <5>1. Holds(disk, v.writes[n])
            BY <3>1, <4>2 DEF SInv, AcknowledgedIsDurable
          <5>2. v.writes[n].table \in WriteTables
            BY <3>1, <4>2, UnitsAssumption DEF SInv
          <5> QED BY <1>2, <1>5, <2>2, <5>1, <5>2, HoldsFacts
        <4> QED BY <1>2, <1>5, <3>1, <4>1, <4>2
      <3> QED BY <3>1 DEF AcknowledgedIsDurable
    <2> QED BY <1>2, <1>3, <1>5, <2>1, <2>2, <2>3 DEF SInv
  <1> QED BY <1>4, <1>5

\* A caller that does not hold the connection comes, or gives up waiting.
LEMMA CallerFacts ==
  ASSUME SInv, NEW c \in Callers, owner # c, NEW u \in Units \cup {NoUnit},
         unit' = [unit EXCEPT ![c] = u],
         UNCHANGED <<disk, transaction, acknowledged>>
  PROVE  SInv'
  <1>1. /\ disk' = disk /\ work' = work /\ owner' = owner /\ next' = next /\ part' = part
        /\ failed' = failed /\ acknowledged' = acknowledged
    BY DEF transaction
  <1>2. unit' \in [Callers -> Units \cup {NoUnit}]
    BY DEF SInv
  <1>3. ASSUME owner' # Nobody PROVE Open(owner)'
    <2>1. owner \in Callers /\ owner # c /\ Open(owner) /\ unit'[owner] = unit[owner]
      BY <1>1, <1>3 DEF SInv
    <2> QED BY <1>1, <2>1 DEF Open
  <1> QED BY <1>1, <1>2, <1>3, IdleFacts DEF SInv

\* A transaction begins from the committed tables.
LEMMA BeginFacts ==
  ASSUME SInv, NEW c \in Callers, Begin(c)
  PROVE  SInv'
  <1>1. /\ unit[c] # NoUnit /\ owner' = c /\ work' = disk /\ next' = 1 /\ part' = 1
        /\ failed' = FALSE /\ disk' = disk /\ unit' = unit /\ acknowledged' = acknowledged
    BY DEF Begin, Waiting
  <1>2. DOMAIN unit[c].writes = 1 .. Len(unit[c].writes)
    BY <1>1, UnitsAssumption DEF SInv
  <1>3. \A n \in DOMAIN unit[c].writes : ~(n < 1)
    BY <1>2
  <1>4. Open(c)'
    BY <1>1, <1>3, GrowsFacts DEF Open, SInv
  <1> QED BY <1>1, <1>4, IdleFacts DEF SInv

\* The process dies: the transaction is gone, the committed tables are not.
LEMMA CrashFacts == ASSUME SInv, Crash PROVE SInv'
  <1>1. /\ owner' = Nobody /\ next' = 1 /\ part' = 1 /\ disk' = disk
        /\ acknowledged' = acknowledged /\ unit' = [c \in Callers |-> NoUnit]
    BY DEF Crash
  <1>2. unit' \in [Callers -> Units \cup {NoUnit}]
    BY <1>1
  <1> QED BY <1>1, <1>2, IdleFacts

\* The invariant is inductive.
LEMMA StepFacts == ASSUME SInv, [Next]_vars PROVE SInv'
  <1>1. ASSUME NEW c \in Callers, NEW u \in Units, Call(c, u) PROVE SInv'
    <2>1. owner # c
      BY <1>1, NobodyAssumption DEF Call, SInv, Open
    <2>2. unit' = [unit EXCEPT ![c] = u] /\ UNCHANGED <<disk, transaction, acknowledged>>
      BY <1>1 DEF Call
    <2> QED BY <2>1, <2>2, CallerFacts
  <1>2. ASSUME NEW c \in Callers, NeverBegins(c) PROVE SInv'
    <2>1. owner # c
      BY <1>2 DEF NeverBegins, Waiting
    <2>2. unit' = [unit EXCEPT ![c] = NoUnit] /\ UNCHANGED <<disk, transaction, acknowledged>>
      BY <1>2 DEF NeverBegins
    <2> QED BY <2>1, <2>2, CallerFacts
  <1>3. ASSUME NEW c \in Callers, StatementFails(c) \/ CommitFails(c) \/ Panic(c) PROVE SInv'
    BY <1>3, WriteFailsFacts, RollbackFacts DEF StatementFails, CommitFails, Panic
  <1>4. ASSUME NEW c \in Callers, Step(c) PROVE SInv'
    BY <1>4, AutocommitFacts, BeginFacts, RunFacts, CommitFacts DEF Step
  <1>5. CASE UNCHANGED vars
    BY <1>5 DEF vars, transaction, SInv, Open, AcknowledgedIsDurable
  <1> QED BY <1>1, <1>2, <1>3, <1>4, <1>5, CrashFacts DEF Next

\* Nothing is saved at first, and nothing acknowledged.
LEMMA InitFacts == ASSUME Init PROVE SInv
  <1>1. DOMAIN NoRows = TableNames
    BY DEF NoRows, TableNames
  <1>2. Tabular(NoRows)
    BY <1>1 DEF Tabular, NoRows
  <1> QED BY <1>2 DEF Init, SInv, AcknowledgedIsDurable

-----------------------------------------------------------------------------
(* The theorems.                                                           *)

\* The inductive invariant of the units of work.
THEOREM Invariance == Spec => []SInv
  <1>1. Init => SInv
    BY InitFacts
  <1>2. SInv /\ [Next]_vars => SInv'
    BY StepFacts
  <1> QED BY <1>1, <1>2, PTL DEF Spec

\* A Save or a unit that returned nil is in the committed tables from then on,
\* whatever other callers do, fail or leave half done, and however often the
\* process dies.
THEOREM DurableTheorem == Spec => []AcknowledgedIsDurable
  <1>1. SInv => AcknowledgedIsDurable
    BY DEF SInv
  <1> QED BY <1>1, Invariance, PTL

\* The committed journals only grow, and no checkpoint disappears.
RowsStay == [][Grows(disk, disk')]_vars

\* No step of any caller, no statement that fails, and no crash takes back a
\* row another call has committed (deferred Rollback in WithinTransaction).
THEOREM RowsTheorem == Spec => RowsStay
  <1>1. ASSUME SInv, [Next]_vars PROVE Grows(disk, disk')
    <2>1. CASE disk' = disk
      BY <2>1, GrowsFacts
    <2>2. ASSUME NEW c \in Callers, Commit(c) PROVE Grows(disk, disk')
      <3>1. disk' = disk \/ disk' = work
        BY <2>2 DEF Commit, Rollback
      <3>2. Grows(disk, work)
        BY <1>1, <2>2, WorkingFacts DEF Commit, Open
      <3> QED BY <3>1, <3>2, GrowsFacts
    <2>3. ASSUME NEW c \in Callers, Autocommit(c) PROVE Grows(disk, disk')
      <3>1. PICK write, after : write = unit[c].writes[1] /\ after = Execute(disk, write, 1)
        OBVIOUS
      <3>2. /\ unit[c] # NoUnit /\ unit[c].alone
            /\ disk' = disk \/ (after # Refused /\ disk' = after)
        BY <2>3, <3>1 DEF Autocommit, Waiting, IsStatement
      <3>3. write.table \in WriteTables
        <4>1. unit[c] \in Units
          BY <1>1, <3>2 DEF SInv
        <4>2. Len(unit[c].writes) = 1 /\ DOMAIN unit[c].writes = 1 .. 1
          BY <3>2, <4>1, UnitsAssumption
        <4>3. 1 \in DOMAIN unit[c].writes
          BY <4>2
        <4> QED BY <3>1, <4>1, <4>3, UnitsAssumption
      <3>4. after # Refused => Grows(disk, after)
        BY <1>1, <3>1, <3>3, ExecuteFacts DEF SInv
      <3> QED BY <3>2, <3>4, GrowsFacts
    <2>4. \/ disk' = disk
          \/ \E c \in Callers : Commit(c) \/ Autocommit(c)
      BY <1>1 DEF Next, Call, Step, Begin, RunStatement, WriteFails, Rollback, NeverBegins,
                  StatementFails, CommitFails, Panic, Crash, vars
    <2> QED BY <2>1, <2>2, <2>3, <2>4
  <1>2. SInv /\ [Next]_vars => [Grows(disk, disk')]_vars
    BY <1>1
  <1> QED BY <1>2, Invariance, PTL DEF Spec, RowsStay

-----------------------------------------------------------------------------
(* The journals and maps the tables stand for.                             *)

AppendOnly == {"market_quotes", "trade_quotes", "trade_execution_history", "action_results"}

\* The column by which the rows of a table are found.
KeyOf ==
    [observations |-> "frame", trade_executions |-> "id", action_requests |-> "id",
     agent_events |-> "id", runtime_records |-> "key"]

\* The rows have numbers of their own, and the next number is free.
Sequenced(rows) ==
    /\ IsFiniteSet(rows)
    /\ \A row \in rows :
          row.sequence \in Nat /\ row.sequence <= Cardinality({x.sequence : x \in rows})
    /\ \A x, y \in rows : x.sequence = y.sequence => x = y

Keyed(rows, key) == \A x, y \in rows : x[key] = y[key] => x = y

Stored(db) ==
    /\ Tabular(db)
    /\ \A t \in AppendOnly : Sequenced(db[t])
    /\ \A t \in DOMAIN KeyOf : Keyed(db[t], KeyOf[t])

\* A part of a finite set that misses an element is smaller.
LEMMA PartFacts ==
  ASSUME NEW T, IsFiniteSet(T), NEW S \in SUBSET T, NEW x \in T, x \notin S
  PROVE  /\ Cardinality(S) \in Nat /\ Cardinality(T) \in Nat
         /\ Cardinality(S) < Cardinality(T)
  <1>1. /\ IsFiniteSet(S) /\ Cardinality(S) <= Cardinality(T)
        /\ Cardinality(S) = Cardinality(T) => S = T
    BY FS_Subset
  <1>2. Cardinality(S) \in Nat /\ Cardinality(T) \in Nat
    BY <1>1, FS_CardinalityType
  <1> QED BY <1>1, <1>2

\* How many come before an element.
Rank(S, R, x) == Cardinality({y \in S : <<y, x>> \in R})

StrictOrder(S, R) ==
    /\ IsFiniteSet(S)
    /\ \A x \in S : <<x, x>> \notin R
    /\ \A x, y, z \in S : <<x, y>> \in R /\ <<y, z>> \in R => <<x, z>> \in R
    /\ \A x, y \in S : x = y \/ <<x, y>> \in R \/ <<y, x>> \in R

\* Every rank below the number of elements is taken, by one element.
LEMMA RankFacts ==
  ASSUME NEW S, NEW R, StrictOrder(S, R)
  PROVE  /\ Cardinality(S) \in Nat
         /\ \A x \in S : Rank(S, R, x) \in 0 .. Cardinality(S) - 1
         /\ \A x, y \in S : <<x, y>> \in R => Rank(S, R, x) < Rank(S, R, y)
         /\ \A x, y \in S : Rank(S, R, x) = Rank(S, R, y) => x = y
         /\ \A n \in 1 .. Cardinality(S) : \E x \in S : Rank(S, R, x) = n - 1
  <1>1. IsFiniteSet(S) /\ Cardinality(S) \in Nat
    BY FS_CardinalityType DEF StrictOrder
  <1>2. ASSUME NEW x \in S
        PROVE  /\ IsFiniteSet({y \in S : <<y, x>> \in R})
               /\ Rank(S, R, x) \in 0 .. Cardinality(S) - 1
    <2>1. PICK T : T = {y \in S : <<y, x>> \in R}
      OBVIOUS
    <2>2. T \subseteq S /\ x \notin T
      BY <2>1 DEF StrictOrder
    <2>3. /\ Cardinality(T) \in Nat /\ Cardinality(T) < Cardinality(S)
      BY <1>1, <2>2, PartFacts
    <2>4. IsFiniteSet(T)
      BY <1>1, <2>2, FS_Subset
    <2> QED BY <1>1, <2>1, <2>3, <2>4 DEF Rank
  <1>3. ASSUME NEW x \in S, NEW y \in S, <<x, y>> \in R
        PROVE  Rank(S, R, x) < Rank(S, R, y)
    <2>1. PICK T, U : T = {z \in S : <<z, x>> \in R} /\ U = {z \in S : <<z, y>> \in R}
      OBVIOUS
    <2>2. IsFiniteSet(U)
      BY <1>2, <2>1
    <2>3. T \subseteq U /\ x \in U /\ x \notin T
      BY <1>3, <2>1 DEF StrictOrder
    <2>4. Cardinality(T) < Cardinality(U)
      BY <2>2, <2>3, PartFacts
    <2> QED BY <2>1, <2>4 DEF Rank
  <1>4. ASSUME NEW x \in S, NEW y \in S, Rank(S, R, x) = Rank(S, R, y) PROVE x = y
    <2>1. Rank(S, R, x) \in 0 .. Cardinality(S) - 1 /\ Rank(S, R, y) \in 0 .. Cardinality(S) - 1
      BY <1>2
    <2>2. <<x, y>> \notin R /\ <<y, x>> \notin R
      BY <1>3, <1>4, <2>1
    <2> QED BY <2>2 DEF StrictOrder
  <1>5. ASSUME NEW n \in 1 .. Cardinality(S), ~\E x \in S : Rank(S, R, x) = n - 1 PROVE FALSE
    <2>1. PICK T, f : /\ T = (0 .. Cardinality(S) - 1) \ {n - 1}
                      /\ f = [x \in S |-> Rank(S, R, x)]
      OBVIOUS
    <2>2. f \in [S -> T]
      BY <1>2, <1>5, <2>1
    <2>3. IsFiniteSet(T) /\ Cardinality(T) < Cardinality(S)
      <3>1. PICK m : m = Cardinality(S)
        OBVIOUS
      <3>2. m \in Nat \ {0} /\ 0 \in Int /\ m - 1 \in Int
        BY <1>1, <3>1
      <3>3. IsFiniteSet(0 .. m - 1) /\ Cardinality(0 .. m - 1) = m
        BY <3>2, FS_Interval
      <3>4. n - 1 \in 0 .. m - 1
        BY <3>1, <3>2
      <3>5. IsFiniteSet(T) /\ Cardinality(T) = m - 1
        BY <2>1, <3>1, <3>3, <3>4, FS_RemoveElement
      <3> QED BY <3>1, <3>2, <3>5
    <2>4. PICK x, y \in S : x # y /\ f[x] = f[y]
      BY <1>1, <2>2, <2>3, FS_PigeonHole
    <2> QED BY <1>4, <2>1, <2>4
  <1> QED BY <1>1, <1>2, <1>3, <1>4, <1>5

\* The place of a row among those of smaller numbers.
Place(rows, row) == Cardinality({x \in rows : x.sequence < row.sequence})

Numbered(rows) ==
    /\ IsFiniteSet(rows) /\ \A x \in rows : x.sequence \in Nat
    /\ \A x, y \in rows : x.sequence = y.sequence => x = y

\* InOrder lists the rows by their place, the number of rows before each.
LEMMA InOrderDef ==
  ASSUME NEW rows
  PROVE  InOrder(rows) = [n \in 1 .. Cardinality(rows) |->
                             (CHOOSE row \in rows : Place(rows, row) = n - 1).record]
  <1>1. PICK before : before = [row \in rows |-> {x \in rows : x.sequence < row.sequence}]
    OBVIOUS
  <1>2. PICK ordered : ordered = [n \in 1 .. Cardinality(rows) |->
                                     CHOOSE row \in rows : Place(rows, row) = n - 1]
    OBVIOUS
  <1>3. OrderBy(before) = ordered
    <2>1. ASSUME NEW n \in 1 .. Cardinality(rows)
          PROVE  (CHOOSE row \in rows : Cardinality(before[row]) = n - 1)
                     = (CHOOSE row \in rows : Place(rows, row) = n - 1)
      <3>1. \A row \in rows : Cardinality(before[row]) = Place(rows, row)
        BY <1>1 DEF Place
      <3> QED BY <3>1
    <2>2. DOMAIN before = rows
      BY <1>1
    <2> QED BY <1>2, <2>1, <2>2 DEF OrderBy
  <1>4. InOrder(rows) = Records(ordered)
    BY <1>1, <1>3 DEF InOrder
  <1> QED BY <1>2, <1>4 DEF Records

\* Every place is taken, by one row.
LEMMA PlacesFacts ==
  ASSUME NEW rows, Numbered(rows)
  PROVE  /\ Cardinality(rows) \in Nat
         /\ \A row \in rows : Place(rows, row) \in 0 .. Cardinality(rows) - 1
         /\ \A x, y \in rows : x.sequence < y.sequence <=> Place(rows, x) < Place(rows, y)
         /\ \A x, y \in rows : Place(rows, x) = Place(rows, y) => x = y
         /\ \A n \in 1 .. Cardinality(rows) : \E row \in rows : Place(rows, row) = n - 1
  <1>1. PICK R : R = {e \in rows \X rows : e[1].sequence < e[2].sequence}
    OBVIOUS
  <1>2. \A x, y \in rows : <<x, y>> \in R <=> x.sequence < y.sequence
    BY <1>1
  <1>3. StrictOrder(rows, R)
    BY <1>2 DEF Numbered, StrictOrder
  <1>4. ASSUME NEW row \in rows PROVE Place(rows, row) = Rank(rows, R, row)
    <2>1. {x \in rows : x.sequence < row.sequence} = {x \in rows : <<x, row>> \in R}
      BY <1>2
    <2> QED BY <2>1 DEF Place, Rank
  <1>5. ASSUME NEW x \in rows, NEW y \in rows
        PROVE  x.sequence < y.sequence <=> Place(rows, x) < Place(rows, y)
    <2>1. Place(rows, x) = Rank(rows, R, x) /\ Place(rows, y) = Rank(rows, R, y)
      BY <1>4
    <2>2. x.sequence \in Nat /\ y.sequence \in Nat /\ (x.sequence = y.sequence => x = y)
      BY DEF Numbered
    <2>3. /\ Rank(rows, R, x) \in 0 .. Cardinality(rows) - 1
          /\ Rank(rows, R, y) \in 0 .. Cardinality(rows) - 1
          /\ <<x, y>> \in R => Rank(rows, R, x) < Rank(rows, R, y)
          /\ <<y, x>> \in R => Rank(rows, R, y) < Rank(rows, R, x)
      BY <1>3, RankFacts
    <2>4. /\ <<x, y>> \in R <=> x.sequence < y.sequence
          /\ <<y, x>> \in R <=> y.sequence < x.sequence
      BY <1>2
    <2> QED BY <2>1, <2>2, <2>3, <2>4
  <1> QED BY <1>3, <1>4, <1>5, RankFacts

\* A row numbered after all others comes last.
LEMMA InOrderFacts ==
  ASSUME NEW rows, Numbered(rows),
         NEW new, new.sequence \in Nat, \A x \in rows : x.sequence < new.sequence
  PROVE  InOrder(rows \cup {new}) = Append(InOrder(rows), new.record)
  <1>1. PICK all, m : all = rows \cup {new} /\ m = Cardinality(rows)
    OBVIOUS
  <1>2. new \notin rows
    <2>1. ~(new.sequence < new.sequence)
      OBVIOUS
    <2> QED BY <2>1
  <1>3. IsFiniteSet(all) /\ Cardinality(all) = m + 1 /\ m \in Nat
    BY <1>1, <1>2, FS_AddElement, FS_CardinalityType DEF Numbered
  <1>4. Numbered(all)
    <2>1. ASSUME NEW x \in rows PROVE x.sequence # new.sequence
      <3>1. x.sequence \in Nat /\ x.sequence < new.sequence
        BY DEF Numbered
      <3> QED BY <3>1
    <2> QED BY <1>1, <1>3, <2>1 DEF Numbered
  <1>5. ASSUME NEW x \in rows PROVE Place(all, x) = Place(rows, x)
    <2>1. x.sequence \in Nat /\ x.sequence < new.sequence
      BY DEF Numbered
    <2>2. ~(new.sequence < x.sequence)
      BY <2>1
    <2>3. {y \in all : y.sequence < x.sequence} = {y \in rows : y.sequence < x.sequence}
      BY <1>1, <2>2
    <2> QED BY <2>3 DEF Place
  <1>6. Place(all, new) = m
    <2>1. ~(new.sequence < new.sequence)
      OBVIOUS
    <2>2. {y \in all : y.sequence < new.sequence} = rows
      BY <1>1, <2>1
    <2> QED BY <1>1, <2>2 DEF Place
  <1>7. ASSUME NEW n \in 1 .. m
        PROVE  (CHOOSE x \in all : Place(all, x) = n - 1)
                   = (CHOOSE x \in rows : Place(rows, x) = n - 1)
    <2>1. PICK x \in rows : Place(rows, x) = n - 1
      BY <1>1, <1>7, PlacesFacts
    <2>2. \A y \in rows : Place(rows, y) = n - 1 => y = x
      BY <1>1, <1>7, <2>1, PlacesFacts
    <2>3. x \in all /\ Place(all, x) = n - 1
      BY <1>1, <1>5, <2>1
    <2>4. \A y \in all : Place(all, y) = n - 1 => y = x
      <3>1. \A y, z \in all : Place(all, y) = Place(all, z) => y = z
        BY <1>4, PlacesFacts
      <3> QED BY <2>3, <3>1
    <2>5. (CHOOSE y \in all : Place(all, y) = n - 1) = x
      BY <2>3, <2>4
    <2>6. (CHOOSE y \in rows : Place(rows, y) = n - 1) = x
      BY <2>1, <2>2
    <2> QED BY <2>5, <2>6
  <1>8. (CHOOSE x \in all : Place(all, x) = (m + 1) - 1) = new
    <2>1. \A y, z \in all : Place(all, y) = Place(all, z) => y = z
      BY <1>4, PlacesFacts
    <2>2. new \in all /\ Place(all, new) = (m + 1) - 1
      BY <1>1, <1>3, <1>6
    <2> QED BY <2>1, <2>2
  <1>9. PICK old, last : old = InOrder(rows) /\ last = InOrder(all)
    OBVIOUS
  <1>10. old = [n \in 1 .. m |-> (CHOOSE x \in rows : Place(rows, x) = n - 1).record]
    BY <1>1, <1>9, InOrderDef
  <1>11. last = [n \in 1 .. m + 1 |-> (CHOOSE x \in all : Place(all, x) = n - 1).record]
    BY <1>3, <1>9, InOrderDef
  <1>12. ASSUME NEW n \in 1 .. m PROVE last[n] = old[n]
    <2>1. n \in 1 .. m + 1
      BY <1>3
    <2>2. last[n] = (CHOOSE x \in all : Place(all, x) = n - 1).record
      BY <1>11, <2>1
    <2>3. old[n] = (CHOOSE x \in rows : Place(rows, x) = n - 1).record
      BY <1>10
    <2> QED BY <1>7, <2>2, <2>3
  <1>13. last[m + 1] = new.record
    BY <1>3, <1>8, <1>11
  <1>14. last = [n \in 1 .. m + 1 |-> IF n <= m THEN old[n] ELSE new.record]
    <2>1. last = [n \in 1 .. m + 1 |-> last[n]]
      BY <1>11
    <2>2. \A n \in 1 .. m + 1 : n \in 1 .. m \/ n = m + 1
      BY <1>3
    <2>3. \A n \in 1 .. m + 1 : last[n] = IF n <= m THEN old[n] ELSE new.record
      BY <1>3, <1>12, <1>13, <2>2
    <2> QED BY <2>1, <2>3
  <1>15. Len(old) = m
    BY <1>3, <1>10
  <1>16. Append(old, new.record) = last
    BY <1>3, <1>10, <1>14, <1>15
  <1> QED BY <1>1, <1>9, <1>16

\* A row replaces the one of its key, as a value of a map does.
LEMMA ByKeyFacts ==
  ASSUME NEW rows, NEW key, Keyed(rows, key), NEW r,
         NEW others, others = (rows \ SameKey(rows, key, r)) \cup {r}
  PROVE  /\ Keyed(others, key)
         /\ ByKey(others, key) = Memory!Put(ByKey(rows, key), r[key], r)
  <1>1. \A x \in others : x = r \/ (x \in rows /\ x[key] # r[key])
    BY DEF SameKey
  <1>2. Keyed(others, key)
    BY <1>1 DEF Keyed
  <1>3. PICK K, L : K = {x[key] : x \in rows} /\ L = {x[key] : x \in others}
    OBVIOUS
  <1>4. L = K \cup {r[key]}
    <2>1. ASSUME NEW k \in K PROVE k \in L
      <3>1. PICK x \in rows : k = x[key]
        BY <1>3, <2>1
      <3>2. CASE x[key] = r[key]
        BY <1>3, <3>1, <3>2
      <3>3. CASE x[key] # r[key]
        <4>1. x \in others
          BY <3>1, <3>3 DEF SameKey
        <4> QED BY <1>3, <3>1, <4>1
      <3> QED BY <3>2, <3>3
    <2>2. \A k \in L : k \in K \/ k = r[key]
      BY <1>1, <1>3
    <2>3. r[key] \in L
      BY <1>3
    <2> QED BY <2>1, <2>2, <2>3
  <1>5. (CHOOSE x \in others : x[key] = r[key]) = r
    <2>1. r \in others
      OBVIOUS
    <2>2. \A x \in others : x[key] = r[key] => x = r
      BY <1>1
    <2> QED BY <2>1, <2>2
  <1>6. ASSUME NEW k \in K, k # r[key]
        PROVE  (CHOOSE x \in others : x[key] = k) = (CHOOSE x \in rows : x[key] = k)
    <2>1. PICK x \in rows : x[key] = k
      BY <1>3, <1>6
    <2>2. x \in others
      BY <1>6, <2>1 DEF SameKey
    <2>3. \A y \in rows : y[key] = k => y = x
      BY <2>1 DEF Keyed
    <2>4. \A y \in others : y[key] = k => y = x
      BY <1>2, <2>1, <2>2 DEF Keyed
    <2>5. (CHOOSE y \in others : y[key] = k) = x
      BY <2>1, <2>2, <2>4
    <2>6. (CHOOSE y \in rows : y[key] = k) = x
      BY <2>1, <2>3
    <2> QED BY <2>5, <2>6
  <1>7. PICK old, new : old = ByKey(rows, key) /\ new = ByKey(others, key)
    OBVIOUS
  <1>8. /\ old = [k \in K |-> CHOOSE x \in rows : x[key] = k]
        /\ new = [k \in L |-> CHOOSE x \in others : x[key] = k]
    BY <1>3, <1>7 DEF ByKey
  <1>9. ASSUME NEW k \in L PROVE new[k] = IF k = r[key] THEN r ELSE old[k]
    <2>1. CASE k = r[key]
      BY <1>5, <1>8, <1>9, <2>1
    <2>2. CASE k # r[key]
      <3>1. k \in K
        BY <1>4, <1>9, <2>2
      <3>2. old[k] = (CHOOSE x \in rows : x[key] = k)
        BY <1>8, <3>1
      <3>3. new[k] = (CHOOSE x \in others : x[key] = k)
        BY <1>8, <1>9
      <3> QED BY <1>6, <2>2, <3>1, <3>2, <3>3
    <2> QED BY <2>1, <2>2
  <1>10. new = [k \in L |-> IF k = r[key] THEN r ELSE old[k]]
    <2>1. new = [k \in L |-> new[k]]
      BY <1>8
    <2> QED BY <1>9, <2>1
  <1>11. DOMAIN old = K
    BY <1>8
  <1>12. Memory!Put(old, r[key], r)
             = [k \in DOMAIN old \cup {r[key]} |-> IF k = r[key] THEN r ELSE old[k]]
    BY DEF Memory!Put
  <1> QED BY <1>2, <1>4, <1>7, <1>10, <1>11, <1>12

\* A map has the keys of the rows, and at each the row.
LEMMA KeyFacts ==
  ASSUME NEW rows, NEW key, Keyed(rows, key), NEW r
  PROVE  /\ DOMAIN ByKey(rows, key) = {x[key] : x \in rows}
         /\ r[key] \notin DOMAIN ByKey(rows, key) => SameKey(rows, key, r) = {}
         /\ r[key] \in DOMAIN ByKey(rows, key) =>
               SameKey(rows, key, r) = {ByKey(rows, key)[r[key]]}
  <1>1. PICK map : map = ByKey(rows, key)
    OBVIOUS
  <1>2. map = [k \in {x[key] : x \in rows} |-> CHOOSE x \in rows : x[key] = k]
    BY <1>1 DEF ByKey
  <1>3. DOMAIN map = {x[key] : x \in rows}
    BY <1>2
  <1>4. ASSUME r[key] \notin DOMAIN map PROVE SameKey(rows, key, r) = {}
    BY <1>3, <1>4 DEF SameKey
  <1>5. ASSUME r[key] \in DOMAIN map PROVE SameKey(rows, key, r) = {map[r[key]]}
    <2>1. PICK x \in rows : x[key] = r[key]
      BY <1>3, <1>5
    <2>2. \A y \in rows : y[key] = r[key] => y = x
      BY <2>1 DEF Keyed
    <2>3. (CHOOSE y \in rows : y[key] = r[key]) = x
      BY <2>1, <2>2
    <2>4. map[r[key]] = x
      BY <1>2, <1>3, <1>5, <2>3
    <2> QED BY <2>1, <2>2, <2>4 DEF SameKey
  <1> QED BY <1>1, <1>3, <1>4, <1>5

\* No rows, no records.
LEMMA NothingInOrder == InOrder({}) = <<>>
  <1>1. Cardinality({}) = 0
    BY FS_EmptySet
  <1>2. 1 .. Cardinality({}) = {}
    BY <1>1
  <1>3. PICK e : e = [n \in 1 .. Cardinality({}) |->
                        (CHOOSE row \in {} : Place({}, row) = n - 1).record]
    OBVIOUS
  <1>4. e = <<>>
    BY <1>2, <1>3
  <1> QED BY <1>3, <1>4, InOrderDef

\* A journal, as a whole or by key, grows at its end.
LEMMA JournalFacts ==
  ASSUME NEW rows, Sequenced(rows), NEW r, NEW key,
         NEW new,
         new = [sequence |-> 1 + Cardinality({x.sequence : x \in rows}), record |-> r]
  PROVE  LET map == JournalBy(rows, key)
             all == rows \cup {new}
         IN  /\ Sequenced(all)
             /\ InOrder(all) = Append(InOrder(rows), r)
             /\ JournalBy(all, key)
                    = Memory!Put(map, r[key], Append(Memory!JournalOf(map, r[key]), r))
  <1>1. PICK numbers, last, all : /\ numbers = {x.sequence : x \in rows}
                                  /\ last = Cardinality(numbers) /\ all = rows \cup {new}
    OBVIOUS
  <1>2. IsFiniteSet(numbers) /\ last \in Nat
    <2>1. IsFiniteSet(numbers)
      <3>1. IsFiniteSet(rows)
        BY DEF Sequenced
      <3>2. PICK f : f = [x \in rows |-> x.sequence]
        OBVIOUS
      <3>3. numbers = {f[x] : x \in rows}
        BY <1>1, <3>2
      <3>4. f \in Surjection(rows, numbers)
        BY <1>1, <3>2 DEF Surjection
      <3> QED BY <3>1, <3>4, FS_Surjection
    <2> QED BY <1>1, <2>1, FS_CardinalityType
  <1>3. new.sequence = last + 1 /\ new.record = r
    BY <1>1, <1>2
  <1>4. \A x \in rows : x.sequence \in Nat /\ x.sequence < new.sequence
    <2>1. \A x \in rows : x.sequence \in Nat /\ x.sequence <= last
      BY <1>1 DEF Sequenced
    <2> QED BY <1>2, <1>3, <2>1
  <1>5. Sequenced(all)
    <2>1. IsFiniteSet(all)
      BY <1>1, FS_AddElement DEF Sequenced
    <2>2. {x.sequence : x \in all} = numbers \cup {last + 1}
      BY <1>1, <1>3
    <2>3. last + 1 \notin numbers
      <3>1. \A x \in rows : x.sequence # last + 1
        BY <1>2, <1>3, <1>4
      <3> QED BY <1>1, <3>1
    <2>4. Cardinality({x.sequence : x \in all}) = last + 1
      BY <1>1, <1>2, <2>2, <2>3, FS_AddElement
    <2>5. \A x \in all : x.sequence \in Nat /\ x.sequence <= last + 1
      BY <1>1, <1>2, <1>3, <1>4
    <2>6. \A x, y \in all : x.sequence = y.sequence => x = y
      <3>1. \A x \in rows : x.sequence # new.sequence
        BY <1>2, <1>3, <1>4
      <3> QED BY <1>1, <3>1 DEF Sequenced
    <2> QED BY <2>1, <2>4, <2>5, <2>6 DEF Sequenced
  <1>6. ASSUME NEW lines \in SUBSET rows
        PROVE  InOrder(lines \cup {new}) = Append(InOrder(lines), r)
    <2>1. IsFiniteSet(lines)
      BY FS_Subset DEF Sequenced
    <2>2. Numbered(lines) /\ \A x \in lines : x.sequence < new.sequence
      BY <1>4, <2>1 DEF Sequenced, Numbered
    <2>3. new.sequence \in Nat
      BY <1>2, <1>3
    <2> QED BY <1>3, <2>1, <2>2, <2>3, InOrderFacts
  <1>7. PICK map, grown : map = JournalBy(rows, key) /\ grown = JournalBy(all, key)
    OBVIOUS
  <1>8. PICK K, L : K = {x.record[key] : x \in rows} /\ L = {x.record[key] : x \in all}
    OBVIOUS
  <1>9. /\ map = [k \in K |-> InOrder({x \in rows : x.record[key] = k})]
         /\ grown = [k \in L |-> InOrder({x \in all : x.record[key] = k})]
    BY <1>7, <1>8 DEF JournalBy
  <1>10. L = K \cup {r[key]}
    BY <1>1, <1>3, <1>8
  <1>11. Memory!JournalOf(map, r[key]) = InOrder({x \in rows : x.record[key] = r[key]})
    <2>1. CASE r[key] \in K
      BY <1>9, <2>1 DEF Memory!JournalOf
    <2>2. CASE r[key] \notin K
      <3>1. {x \in rows : x.record[key] = r[key]} = {}
        BY <1>8, <2>2
      <3>2. r[key] \notin DOMAIN map
        BY <1>9, <2>2
      <3> QED BY <3>1, <3>2, NothingInOrder DEF Memory!JournalOf
    <2> QED BY <2>1, <2>2
  <1>12. PICK longer : longer = Append(Memory!JournalOf(map, r[key]), r)
    OBVIOUS
  <1>13. ASSUME NEW k \in L PROVE grown[k] = IF k = r[key] THEN longer ELSE map[k]
    <2>1. grown[k] = InOrder({x \in all : x.record[key] = k})
      BY <1>9
    <2>2. CASE k = r[key]
      <3>1. PICK lines : lines = {x \in rows : x.record[key] = k}
        OBVIOUS
      <3>2. {x \in all : x.record[key] = k} = lines \cup {new} /\ lines \in SUBSET rows
        BY <1>1, <1>3, <2>2, <3>1
      <3>3. InOrder(lines \cup {new}) = Append(InOrder(lines), r)
        BY <1>6, <3>2
      <3> QED BY <1>11, <1>12, <2>1, <2>2, <3>1, <3>2, <3>3
    <2>3. CASE k # r[key]
      <3>1. {x \in all : x.record[key] = k} = {x \in rows : x.record[key] = k}
        BY <1>1, <1>3, <2>3
      <3>2. k \in K
        BY <1>10, <2>3
      <3> QED BY <1>9, <2>1, <2>3, <3>1, <3>2
    <2> QED BY <2>2, <2>3
  <1>14. grown = [k \in L |-> IF k = r[key] THEN longer ELSE map[k]]
    <2>1. grown = [k \in L |-> grown[k]]
      BY <1>9
    <2> QED BY <1>13, <2>1
  <1>15. DOMAIN map = K
    BY <1>9
  <1>16. grown = Memory!Put(map, r[key], longer)
    BY <1>10, <1>14, <1>15 DEF Memory!Put
  <1>17. InOrder(all) = Append(InOrder(rows), r)
    BY <1>1, <1>6
  <1> QED BY <1>1, <1>5, <1>7, <1>12, <1>16, <1>17

-----------------------------------------------------------------------------
(* Statements as Save calls of Memory.                                     *)

\* A refusal is neither tables nor maps.
LEMMA RefusedFacts ==
  /\ \A db : Tabular(db) => db # Refused
  /\ \A db : View(db) # Memory!Refused
  <1>1. ASSUME NEW db, Tabular(db) PROVE db # Refused
    <2>1. "observations" \in DOMAIN db
      BY <1>1 DEF Tabular, TableNames
    <2>2. "observations" \notin DOMAIN Refused
      BY DEF Refused
    <2> QED BY <2>1, <2>2
  <1>2. ASSUME NEW db PROVE View(db) # Memory!Refused
    <2>1. "observations" \in DOMAIN View(db)
      BY DEF View
    <2>2. "observations" \notin DOMAIN Memory!Refused
      BY DEF Memory!Refused
    <2> QED BY <2>1, <2>2
  <1> QED BY <1>1, <1>2

\* The tables by name.
LEMMA TablesFacts ==
  /\ AppendOnly \subseteq TableNames /\ DOMAIN KeyOf \subseteq TableNames
  /\ \A t \in AppendOnly : t \notin DOMAIN KeyOf
  /\ \A t \in TableNames : t \in AppendOnly \/ t \in DOMAIN KeyOf
  BY DEF AppendOnly, KeyOf, TableNames

\* A row added to an append-only table.
LEMMA AppendStored ==
  ASSUME NEW db, Stored(db), NEW t \in AppendOnly, NEW r
  PROVE  LET after == AppendRow(db, t, r) IN
         /\ Stored(after) /\ \A u \in TableNames : u # t => after[u] = db[u]
         /\ InOrder(after[t]) = Append(InOrder(db[t]), r)
         /\ \A key : LET map == JournalBy(db[t], key) IN
               JournalBy(after[t], key)
                   = Memory!Put(map, r[key], Append(Memory!JournalOf(map, r[key]), r))
  <1>1. PICK new, rows, after :
           /\ new = [sequence |-> 1 + Cardinality({x.sequence : x \in db[t]}), record |-> r]
           /\ rows = db[t] \cup {new} /\ after = AppendRow(db, t, r)
    OBVIOUS
  <1>2. after = [db EXCEPT ![t] = rows]
    BY <1>1 DEF AppendRow
  <1>3. /\ Tabular(after) /\ after[t] = rows
        /\ \A u \in TableNames : u # t => after[u] = db[u]
    <2>1. t \in TableNames /\ Tabular(db)
      BY TablesFacts DEF Stored
    <2>2. Tabular(after)
      BY <1>2, <2>1, ReplaceFacts
    <2>3. after[t] = rows
      BY <1>2, <2>1 DEF Tabular
    <2>4. \A u \in TableNames : u # t => after[u] = db[u]
      BY <1>2, <2>1, ReplaceFacts
    <2> QED BY <2>2, <2>3, <2>4
  <1>4. ASSUME NEW key
        PROVE  LET map == JournalBy(db[t], key) IN
               /\ Sequenced(rows) /\ InOrder(rows) = Append(InOrder(db[t]), r)
               /\ JournalBy(rows, key)
                      = Memory!Put(map, r[key], Append(Memory!JournalOf(map, r[key]), r))
    BY <1>1, JournalFacts DEF Stored
  <1>5. Sequenced(rows) /\ InOrder(rows) = Append(InOrder(db[t]), r)
    BY <1>4
  <1>6. Stored(after)
    BY <1>3, <1>5, TablesFacts DEF Stored
  <1> QED BY <1>1, <1>3, <1>4, <1>5, <1>6

\* A row of a keyed table is replaced.
LEMMA UpsertStored ==
  ASSUME NEW db, Stored(db), NEW t \in DOMAIN KeyOf, NEW r
  PROVE  LET after == Upsert(db, t, KeyOf[t], r) IN
         /\ Stored(after) /\ \A u \in TableNames : u # t => after[u] = db[u]
         /\ ByKey(after[t], KeyOf[t]) = Memory!Put(ByKey(db[t], KeyOf[t]), r[KeyOf[t]], r)
  <1>1. PICK key, rows, after :
           /\ key = KeyOf[t] /\ rows = (db[t] \ SameKey(db[t], key, r)) \cup {r}
           /\ after = Upsert(db, t, KeyOf[t], r)
    OBVIOUS
  <1>2. after = [db EXCEPT ![t] = rows]
    BY <1>1 DEF Upsert
  <1>3. /\ Tabular(after) /\ after[t] = rows
        /\ \A u \in TableNames : u # t => after[u] = db[u]
    <2>1. t \in TableNames /\ Tabular(db)
      BY TablesFacts DEF Stored
    <2>2. Tabular(after)
      BY <1>2, <2>1, ReplaceFacts
    <2>3. after[t] = rows
      BY <1>2, <2>1 DEF Tabular
    <2>4. \A u \in TableNames : u # t => after[u] = db[u]
      BY <1>2, <2>1, ReplaceFacts
    <2> QED BY <2>2, <2>3, <2>4
  <1>4. Keyed(db[t], key)
    BY <1>1 DEF Stored
  <1>5. Keyed(rows, key) /\ ByKey(rows, key) = Memory!Put(ByKey(db[t], key), r[key], r)
    BY <1>1, <1>4, ByKeyFacts
  <1>6. Stored(after)
    BY <1>1, <1>3, <1>5, TablesFacts DEF Stored
  <1> QED BY <1>1, <1>3, <1>5, <1>6

\* An immutable row is inserted, found as it is, or refused.
LEMMA OnceStored ==
  ASSUME NEW db, Stored(db), NEW t \in DOMAIN KeyOf, NEW r
  PROVE  LET key == KeyOf[t]
             map == ByKey(db[t], key)
             after == InsertOnce(db, t, key, r)
         IN  \/ /\ r[key] \notin DOMAIN map
                /\ Stored(after) /\ \A u \in TableNames : u # t => after[u] = db[u]
                /\ ByKey(after[t], key) = Memory!Put(map, r[key], r)
             \/ r[key] \in DOMAIN map /\ map[r[key]] = r /\ after = db
             \/ r[key] \in DOMAIN map /\ map[r[key]] # r /\ after = Refused
  <1>1. PICK key, map, existing, after :
           /\ key = KeyOf[t] /\ map = ByKey(db[t], key) /\ existing = SameKey(db[t], key, r)
           /\ after = InsertOnce(db, t, KeyOf[t], r)
    OBVIOUS
  <1>2. Keyed(db[t], key)
    BY <1>1 DEF Stored
  <1>3. /\ r[key] \notin DOMAIN map => existing = {}
        /\ r[key] \in DOMAIN map => existing = {map[r[key]]}
    BY <1>1, <1>2, KeyFacts
  <1>4. after = IF existing = {} THEN [db EXCEPT ![t] = @ \cup {r}]
                ELSE IF existing = {r} THEN db ELSE Refused
    BY <1>1 DEF InsertOnce
  <1>5. CASE r[key] \notin DOMAIN map
    <2>1. existing = {}
      BY <1>3, <1>5
    <2>2. Upsert(db, t, key, r) = [db EXCEPT ![t] = @ \cup {r}]
      BY <1>1, <2>1 DEF Upsert
    <2>3. after = Upsert(db, t, key, r)
      BY <1>4, <2>1, <2>2
    <2> QED BY <1>1, <1>5, <2>3, UpsertStored
  <1>6. CASE r[key] \in DOMAIN map
    BY <1>1, <1>3, <1>4, <1>6
  <1> QED BY <1>1, <1>5, <1>6

\* The maps, field by field.
LEMMA ViewFacts ==
  ASSUME NEW db
  PROVE  View(db) =
           [observations |-> ByKey(db["observations"], "frame"),
            quotes |-> InOrder(db["market_quotes"]),
            tradeQuotes |-> InOrder(db["trade_quotes"]),
            executions |-> ByKey(db["trade_executions"], "id"),
            executionHistory |-> JournalBy(db["trade_execution_history"], "id"),
            actions |-> ByKey(db["action_requests"], "id"),
            actionResults |-> JournalBy(db["action_results"], "action"),
            events |-> ByKey(db["agent_events"], "id"),
            runtimeRecords |-> ByKey(db["runtime_records"], "key")]
  BY DEF View

\* The map a keyed table stands for.
MapOf ==
    [observations |-> "observations", trade_executions |-> "executions",
     action_requests |-> "actions", agent_events |-> "events",
     runtime_records |-> "runtimeRecords"]

\* A keyed table that changes changes its map.
LEMMA MapFacts ==
  ASSUME NEW db, NEW t \in DOMAIN KeyOf,
         NEW after, \A u \in TableNames : u # t => after[u] = db[u]
  PROVE  LET map == ByKey(after[t], KeyOf[t]) IN
         /\ View(db)[MapOf[t]] = ByKey(db[t], KeyOf[t])
         /\ View(after) = [View(db) EXCEPT ![MapOf[t]] = map]
  <1> USE DEF TableNames, KeyOf, MapOf
  <1>1. CASE t = "observations"
    BY <1>1, ViewFacts
  <1>2. CASE t = "trade_executions"
    BY <1>2, ViewFacts
  <1>3. CASE t = "action_requests"
    BY <1>3, ViewFacts
  <1>4. CASE t = "agent_events"
    BY <1>4, ViewFacts
  <1>5. CASE t = "runtime_records"
    BY <1>5, ViewFacts
  <1> QED BY <1>1, <1>2, <1>3, <1>4, <1>5

\* An immutable record is refused, or leaves in the maps what Memory leaves.
LEMMA OnceSaved ==
  ASSUME NEW db, Stored(db), NEW t \in DOMAIN KeyOf, NEW r
  PROVE  LET after == InsertOnce(db, t, KeyOf[t], r)
             saved == Memory!PutOnce(View(db), MapOf[t], r[KeyOf[t]], r)
         IN  \/ after = Refused /\ saved = Memory!Refused
             \/ Stored(after) /\ View(after) = saved
  <1>1. PICK key, map, after, saved :
           /\ key = KeyOf[t] /\ map = ByKey(db[t], key) /\ after = InsertOnce(db, t, key, r)
           /\ saved = Memory!PutOnce(View(db), MapOf[t], r[key], r)
    OBVIOUS
  <1>2. View(db)[MapOf[t]] = map
    BY <1>1, MapFacts
  <1>3. saved = IF r[key] \notin DOMAIN map
                THEN [View(db) EXCEPT ![MapOf[t]] = Memory!Put(map, r[key], r)]
                ELSE IF map[r[key]] = r THEN View(db) ELSE Memory!Refused
    BY <1>1, <1>2 DEF Memory!PutOnce
  <1>4. \/ /\ r[key] \notin DOMAIN map
           /\ Stored(after) /\ \A u \in TableNames : u # t => after[u] = db[u]
           /\ ByKey(after[t], key) = Memory!Put(map, r[key], r)
        \/ r[key] \in DOMAIN map /\ map[r[key]] = r /\ after = db
        \/ r[key] \in DOMAIN map /\ map[r[key]] # r /\ after = Refused
    BY <1>1, OnceStored
  <1>5. CASE /\ r[key] \notin DOMAIN map
             /\ Stored(after) /\ \A u \in TableNames : u # t => after[u] = db[u]
             /\ ByKey(after[t], key) = Memory!Put(map, r[key], r)
    <2>1. View(after) = [View(db) EXCEPT ![MapOf[t]] = Memory!Put(map, r[key], r)]
      BY <1>1, <1>5, MapFacts
    <2> QED BY <1>1, <1>3, <1>5, <2>1
  <1>6. CASE r[key] \in DOMAIN map
    BY <1>1, <1>3, <1>4, <1>6
  <1> QED BY <1>4, <1>5, <1>6

\* A current record replaces the one of its key in its map.
LEMMA UpsertSaved ==
  ASSUME NEW db, Stored(db), NEW t \in DOMAIN KeyOf, NEW r
  PROVE  LET after == Upsert(db, t, KeyOf[t], r) IN
         /\ Stored(after) /\ \A u \in TableNames : u # t => after[u] = db[u]
         /\ View(after) = [View(db) EXCEPT ![MapOf[t]] = Memory!Put(@, r[KeyOf[t]], r)]
  <1>1. PICK after : after = Upsert(db, t, KeyOf[t], r)
    OBVIOUS
  <1>2. /\ Stored(after) /\ \A u \in TableNames : u # t => after[u] = db[u]
        /\ ByKey(after[t], KeyOf[t]) = Memory!Put(ByKey(db[t], KeyOf[t]), r[KeyOf[t]], r)
    BY <1>1, UpsertStored
  <1>3. /\ View(db)[MapOf[t]] = ByKey(db[t], KeyOf[t])
        /\ View(after) = [View(db) EXCEPT ![MapOf[t]] = ByKey(after[t], KeyOf[t])]
    BY <1>2, MapFacts
  <1> QED BY <1>1, <1>2, <1>3

\* A map of journals in which one of them is a record longer.
Lengthen(map, k, r) == Memory!Put(map, k, Append(Memory!JournalOf(map, k), r))

\* A record of a journal comes last in it.
LEMMA JournalsSaved ==
  ASSUME NEW db, Stored(db), NEW r
  PROVE  /\ LET after == AppendRow(db, "market_quotes", r) IN
            Stored(after) /\ View(after) = [View(db) EXCEPT !.quotes = Append(@, r)]
         /\ LET after == AppendRow(db, "trade_quotes", r) IN
            Stored(after) /\ View(after) = [View(db) EXCEPT !.tradeQuotes = Append(@, r)]
         /\ LET after == AppendRow(db, "trade_execution_history", r) IN
            /\ Stored(after)
            /\ View(after) = [View(db) EXCEPT !.executionHistory = Lengthen(@, r.id, r)]
         /\ LET after == AppendRow(db, "action_results", r) IN
            /\ Stored(after)
            /\ View(after) = [View(db) EXCEPT !.actionResults = Lengthen(@, r.action, r)]
  <1>1. ASSUME NEW t \in AppendOnly
        PROVE  LET after == AppendRow(db, t, r)
                   byId == JournalBy(db[t], "id")
                   byAction == JournalBy(db[t], "action")
               IN  /\ Stored(after) /\ \A u \in TableNames : u # t => after[u] = db[u]
                   /\ InOrder(after[t]) = Append(InOrder(db[t]), r)
                   /\ JournalBy(after[t], "id") = Lengthen(byId, r.id, r)
                   /\ JournalBy(after[t], "action") = Lengthen(byAction, r.action, r)
    <2>1. PICK after : after = AppendRow(db, t, r)
      OBVIOUS
    <2>2. /\ Stored(after) /\ \A u \in TableNames : u # t => after[u] = db[u]
          /\ InOrder(after[t]) = Append(InOrder(db[t]), r)
      BY <2>1, AppendStored
    <2>3. ASSUME NEW key
          PROVE  LET map == JournalBy(db[t], key) IN
                 JournalBy(after[t], key)
                     = Memory!Put(map, r[key], Append(Memory!JournalOf(map, r[key]), r))
      BY <2>1, AppendStored
    <2> QED BY <2>1, <2>2, <2>3 DEF Lengthen
  <1>2. /\ "market_quotes" \in AppendOnly /\ "trade_quotes" \in AppendOnly
        /\ "trade_execution_history" \in AppendOnly /\ "action_results" \in AppendOnly
    BY DEF AppendOnly
  <1>3. LET after == AppendRow(db, "market_quotes", r) IN
        /\ Stored(after) /\ View(after) = [View(db) EXCEPT !.quotes = Append(@, r)]
    <2>1. PICK after : after = AppendRow(db, "market_quotes", r)
      OBVIOUS
    <2>2. /\ after["observations"] = db["observations"]
          /\ after["trade_quotes"] = db["trade_quotes"]
          /\ after["trade_executions"] = db["trade_executions"]
          /\ after["trade_execution_history"] = db["trade_execution_history"]
          /\ after["action_requests"] = db["action_requests"]
          /\ after["action_results"] = db["action_results"]
          /\ after["agent_events"] = db["agent_events"]
          /\ after["runtime_records"] = db["runtime_records"]
      BY <1>1, <1>2, <2>1 DEF TableNames
    <2>3. View(after) = [View(db) EXCEPT !.quotes = InOrder(after["market_quotes"])]
      BY <2>2, ViewFacts
    <2>4. View(db).quotes = InOrder(db["market_quotes"])
      BY ViewFacts
    <2>5. /\ Stored(after)
          /\ InOrder(after["market_quotes"]) = Append(InOrder(db["market_quotes"]), r)
      BY <1>1, <1>2, <2>1
    <2> QED BY <2>1, <2>3, <2>4, <2>5
  <1>4. LET after == AppendRow(db, "trade_quotes", r) IN
        /\ Stored(after) /\ View(after) = [View(db) EXCEPT !.tradeQuotes = Append(@, r)]
    <2>1. PICK after : after = AppendRow(db, "trade_quotes", r)
      OBVIOUS
    <2>2. /\ after["observations"] = db["observations"]
          /\ after["market_quotes"] = db["market_quotes"]
          /\ after["trade_executions"] = db["trade_executions"]
          /\ after["trade_execution_history"] = db["trade_execution_history"]
          /\ after["action_requests"] = db["action_requests"]
          /\ after["action_results"] = db["action_results"]
          /\ after["agent_events"] = db["agent_events"]
          /\ after["runtime_records"] = db["runtime_records"]
      BY <1>1, <1>2, <2>1 DEF TableNames
    <2>3. View(after) = [View(db) EXCEPT !.tradeQuotes = InOrder(after["trade_quotes"])]
      BY <2>2, ViewFacts
    <2>4. View(db).tradeQuotes = InOrder(db["trade_quotes"])
      BY ViewFacts
    <2>5. /\ Stored(after)
          /\ InOrder(after["trade_quotes"]) = Append(InOrder(db["trade_quotes"]), r)
      BY <1>1, <1>2, <2>1
    <2> QED BY <2>1, <2>3, <2>4, <2>5
  <1>5. LET after == AppendRow(db, "trade_execution_history", r) IN
        /\ Stored(after)
        /\ View(after) = [View(db) EXCEPT !.executionHistory = Lengthen(@, r.id, r)]
    <2>1. PICK after : after = AppendRow(db, "trade_execution_history", r)
      OBVIOUS
    <2>2. /\ after["observations"] = db["observations"]
          /\ after["market_quotes"] = db["market_quotes"]
          /\ after["trade_quotes"] = db["trade_quotes"]
          /\ after["trade_executions"] = db["trade_executions"]
          /\ after["action_requests"] = db["action_requests"]
          /\ after["action_results"] = db["action_results"]
          /\ after["agent_events"] = db["agent_events"]
          /\ after["runtime_records"] = db["runtime_records"]
      BY <1>1, <1>2, <2>1 DEF TableNames
    <2>3. View(after) =
              [View(db) EXCEPT
                  !.executionHistory = JournalBy(after["trade_execution_history"], "id")]
      BY <2>2, ViewFacts
    <2>4. View(db).executionHistory = JournalBy(db["trade_execution_history"], "id")
      BY ViewFacts
    <2>5. /\ Stored(after)
          /\ JournalBy(after["trade_execution_history"], "id")
                 = Lengthen(JournalBy(db["trade_execution_history"], "id"), r.id, r)
      BY <1>1, <1>2, <2>1
    <2> QED BY <2>1, <2>3, <2>4, <2>5
  <1>6. LET after == AppendRow(db, "action_results", r) IN
        /\ Stored(after)
        /\ View(after) = [View(db) EXCEPT !.actionResults = Lengthen(@, r.action, r)]
    <2>1. PICK after : after = AppendRow(db, "action_results", r)
      OBVIOUS
    <2>2. /\ after["observations"] = db["observations"]
          /\ after["market_quotes"] = db["market_quotes"]
          /\ after["trade_quotes"] = db["trade_quotes"]
          /\ after["trade_executions"] = db["trade_executions"]
          /\ after["trade_execution_history"] = db["trade_execution_history"]
          /\ after["action_requests"] = db["action_requests"]
          /\ after["agent_events"] = db["agent_events"]
          /\ after["runtime_records"] = db["runtime_records"]
      BY <1>1, <1>2, <2>1 DEF TableNames
    <2>3. View(after) =
              [View(db) EXCEPT
                  !.actionResults = JournalBy(after["action_results"], "action")]
      BY <2>2, ViewFacts
    <2>4. View(db).actionResults = JournalBy(db["action_results"], "action")
      BY ViewFacts
    <2>5. /\ Stored(after)
          /\ JournalBy(after["action_results"], "action")
                 = Lengthen(JournalBy(db["action_results"], "action"), r.action, r)
      BY <1>1, <1>2, <2>1
    <2> QED BY <2>1, <2>3, <2>4, <2>5
  <1> QED BY <1>3, <1>4, <1>5, <1>6

\* A statement and a Save call are both refused, or leave the same records.
Agrees(db, s) == \/ db = Refused /\ s = Memory!Refused
                 \/ Stored(db) /\ View(db) = s

\* A write to a table of immutable records.
LEMMA OnceAgrees ==
  ASSUME NEW db, Stored(db), NEW write, write.table \in {"observation", "action", "event"}
  PROVE  Agrees(Execute(db, write, 1), Memory!Save(View(db), write))
  <1>1. PICK r, after, saved : /\ r = write.record /\ after = Execute(db, write, 1)
                               /\ saved = Memory!Save(View(db), write)
    OBVIOUS
  <1>2. PICK t \in DOMAIN KeyOf :
           /\ after = InsertOnce(db, t, KeyOf[t], r)
           /\ saved = Memory!PutOnce(View(db), MapOf[t], r[KeyOf[t]], r)
    <2>1. CASE write.table = "observation"
      <3>1. /\ "observations" \in DOMAIN KeyOf /\ KeyOf["observations"] = "frame"
            /\ MapOf["observations"] = "observations"
        BY DEF KeyOf, MapOf
      <3>2. after = InsertOnce(db, "observations", "frame", r)
        BY <1>1, <2>1 DEF Execute, SaveObservation
      <3>3. saved = Memory!PutOnce(View(db), "observations", r.frame, r)
        BY <1>1, <2>1 DEF Memory!Save, Memory!SaveObservation
      <3> QED BY <3>1, <3>2, <3>3
    <2>2. CASE write.table = "action"
      <3>1. /\ "action_requests" \in DOMAIN KeyOf /\ KeyOf["action_requests"] = "id"
            /\ MapOf["action_requests"] = "actions"
        BY DEF KeyOf, MapOf
      <3>2. after = InsertOnce(db, "action_requests", "id", r)
        BY <1>1, <2>2 DEF Execute, SaveAction
      <3>3. saved = Memory!PutOnce(View(db), "actions", r.id, r)
        BY <1>1, <2>2 DEF Memory!Save, Memory!SaveAction
      <3> QED BY <3>1, <3>2, <3>3
    <2>3. CASE write.table = "event"
      <3>1. /\ "agent_events" \in DOMAIN KeyOf /\ KeyOf["agent_events"] = "id"
            /\ MapOf["agent_events"] = "events"
        BY DEF KeyOf, MapOf
      <3>2. after = InsertOnce(db, "agent_events", "id", r)
        BY <1>1, <2>3 DEF Execute, SaveEvent
      <3>3. saved = Memory!PutOnce(View(db), "events", r.id, r)
        BY <1>1, <2>3 DEF Memory!Save, Memory!SaveEvent
      <3> QED BY <3>1, <3>2, <3>3
    <2> QED BY <2>1, <2>2, <2>3
  <1> QED BY <1>1, <1>2, OnceSaved DEF Agrees

\* A result of a stored action, for the foreign key as for Memory.
LEMMA ResultAgrees ==
  ASSUME NEW db, Stored(db), NEW write, write.table = "result"
  PROVE  Agrees(Execute(db, write, 1), Memory!Save(View(db), write))
  <1>1. PICK r, after, saved : /\ r = write.record /\ after = Execute(db, write, 1)
                               /\ saved = Memory!Save(View(db), write)
    OBVIOUS
  <1>2. after = SaveActionResult(db, r) /\ saved = Memory!SaveActionResult(View(db), r)
    BY <1>1 DEF Execute, Memory!Save
  <1>3. (\E row \in db.action_requests : row.id = r.action)
            <=> r.action \in DOMAIN View(db).actions
    <2>1. "action_requests" \in DOMAIN KeyOf /\ KeyOf["action_requests"] = "id"
      BY DEF KeyOf
    <2>2. Keyed(db["action_requests"], "id")
      BY <2>1 DEF Stored
    <2>3. DOMAIN ByKey(db["action_requests"], "id")
              = {x["id"] : x \in db["action_requests"]}
      BY <2>2 DEF ByKey
    <2>4. View(db).actions = ByKey(db["action_requests"], "id")
      BY ViewFacts
    <2> QED BY <2>3, <2>4
  <1>4. ValidActionResult(r) <=> Memory!ValidActionResult(r)
    BY DEF ValidActionResult, Memory!ValidActionResult
  <1>5. CASE ~(ValidActionResult(r) /\ r.action \in DOMAIN View(db).actions)
    BY <1>1, <1>2, <1>3, <1>4, <1>5
       DEF Agrees, SaveActionResult, Memory!SaveActionResult
  <1>6. CASE ValidActionResult(r) /\ r.action \in DOMAIN View(db).actions
    <2>1. after = AppendRow(db, "action_results", r)
      BY <1>2, <1>3, <1>6 DEF SaveActionResult
    <2>2. saved = [View(db) EXCEPT !.actionResults = Lengthen(@, r.action, r)]
      BY <1>2, <1>4, <1>6 DEF Memory!SaveActionResult, Lengthen
    <2>3. Stored(after) /\ View(after) = saved
      BY <2>1, <2>2, JournalsSaved
    <2> QED BY <1>1, <2>3 DEF Agrees
  <1> QED BY <1>5, <1>6

\* The single statement of a write does what Memory does.
LEMMA SaveAgrees ==
  ASSUME NEW db, Stored(db), NEW write, write.table \in WriteTables, Statements(write) = 1
  PROVE  Agrees(Execute(db, write, 1), Memory!Save(View(db), write))
  <1>1. PICK r, after, saved : /\ r = write.record /\ after = Execute(db, write, 1)
                               /\ saved = Memory!Save(View(db), write)
    OBVIOUS
  <1>2. /\ "runtime_records" \in DOMAIN KeyOf /\ KeyOf["runtime_records"] = "key"
        /\ MapOf["runtime_records"] = "runtimeRecords"
    BY DEF KeyOf, MapOf
  <1>3. CASE write.table = "quote"
    <2>1. after = AppendRow(db, "market_quotes", r)
      BY <1>1, <1>3 DEF Execute, SaveQuote
    <2>2. saved = [View(db) EXCEPT !.quotes = Append(@, r)]
      BY <1>1, <1>3 DEF Memory!Save, Memory!SaveQuote
    <2>3. Stored(after) /\ View(after) = saved
      BY <2>1, <2>2, JournalsSaved
    <2> QED BY <1>1, <2>3 DEF Agrees
  <1>4. CASE write.table = "tradeQuote"
    <2>1. after = AppendRow(db, "trade_quotes", r)
      BY <1>1, <1>4 DEF Execute, SaveTradeQuote
    <2>2. saved = [View(db) EXCEPT !.tradeQuotes = Append(@, r)]
      BY <1>1, <1>4 DEF Memory!Save, Memory!SaveTradeQuote
    <2>3. Stored(after) /\ View(after) = saved
      BY <2>1, <2>2, JournalsSaved
    <2> QED BY <1>1, <2>3 DEF Agrees
  <1>5. CASE write.table = "runtime"
    <2>1. after = Upsert(db, "runtime_records", "key", r)
      BY <1>1, <1>5 DEF Execute, SaveRuntimeRecord
    <2>2. saved = [View(db) EXCEPT !.runtimeRecords = Memory!Put(@, r.key, r)]
      BY <1>1, <1>5 DEF Memory!Save, Memory!SaveRuntimeRecord
    <2>3. Stored(after) /\ View(after) = saved
      BY <1>2, <2>1, <2>2, UpsertSaved
    <2> QED BY <1>1, <2>3 DEF Agrees
  <1>6. write.table # "execution"
    BY DEF Statements
  <1> QED BY <1>1, <1>3, <1>4, <1>5, <1>6, OnceAgrees, ResultAgrees DEF WriteTables

\* The two statements that save an execution, together, do what Memory does.
LEMMA ExecutionAgrees ==
  ASSUME NEW db, Stored(db), NEW write, write.table = "execution"
  PROVE  LET between == Execute(db, write, 1)
             after == Execute(between, write, 2)
         IN  /\ Stored(between) /\ Stored(after)
             /\ View(after) = Memory!Save(View(db), write)
  <1>1. PICK r, between, after, saved :
           /\ r = write.record /\ between = Execute(db, write, 1)
           /\ after = Execute(between, write, 2) /\ saved = Memory!Save(View(db), write)
    OBVIOUS
  <1>2. between = Upsert(db, "trade_executions", "id", r)
    BY <1>1 DEF Execute, SaveExecution
  <1>3. after = AppendRow(between, "trade_execution_history", r)
    BY <1>1 DEF Execute, SaveExecution
  <1>4. /\ "trade_executions" \in DOMAIN KeyOf
        /\ KeyOf["trade_executions"] = "id" /\ MapOf["trade_executions"] = "executions"
    BY DEF KeyOf, MapOf
  <1>5. /\ Stored(between)
        /\ View(between) = [View(db) EXCEPT !.executions = Memory!Put(@, r.id, r)]
    BY <1>2, <1>4, UpsertSaved
  <1>6. /\ Stored(after)
        /\ View(after) = [View(between) EXCEPT !.executionHistory = Lengthen(@, r.id, r)]
    BY <1>3, <1>5, JournalsSaved
  <1>7. saved = [View(db) EXCEPT
                    !.executions = Memory!Put(@, r.id, r),
                    !.executionHistory = Lengthen(@, r.id, r)]
    BY <1>1 DEF Memory!Save, Memory!SaveExecution, Lengthen
  <1>8. View(after) = saved
    <2>1. PICK s : s = View(db)
      OBVIOUS
    <2>2. "executionHistory" # "executions"
      OBVIOUS
    <2>3. View(between).executionHistory = s.executionHistory
      BY <1>5, <2>1, <2>2, ViewFacts
    <2> QED BY <1>5, <1>6, <1>7, <2>1, <2>3
  <1> QED BY <1>1, <1>5, <1>6, <1>8

-----------------------------------------------------------------------------
(* A unit as the sequence of its Save calls.                               *)

\* Induction over the naturals, for a set: the smallest number outside of it
\* would bound the smallest of the intervals 1 .. n with n outside of it.
LEMMA NatFacts ==
  ASSUME NEW T, 0 \in T, \A n \in Nat : n \in T => n + 1 \in T
  PROVE  Nat \subseteq T
  <1> SUFFICES ASSUME NEW m \in Nat, m \notin T PROVE FALSE
    OBVIOUS
  <1>1. PICK R, U : R = StrictSubsetOrdering(Nat) /\ U = {1 .. n : n \in Nat \ T}
    OBVIOUS
  <1>2. U \subseteq FiniteSubsetsOf(Nat) /\ U # {}
    <2>1. ASSUME NEW n \in Nat PROVE 1 .. n \in FiniteSubsetsOf(Nat)
      <3>1. 1 .. n \subseteq Nat
        OBVIOUS
      <3> QED BY <3>1, FS_Interval DEF FiniteSubsetsOf
    <2> QED BY <1>1, <2>1
  <1>3. IsWellFoundedOn(R, FiniteSubsetsOf(Nat))
    BY <1>1, FS_StrictSubsetOrderingWellFounded
  <1>4. PICK x \in U : \A y \in U : <<y, x>> \notin R
    BY <1>2, <1>3, WFMin
  <1>5. PICK n \in Nat \ T : x = 1 .. n
    BY <1>1
  <1>6. n - 1 \in Nat /\ n - 1 \notin T
    BY <1>5
  <1>7. 1 .. (n - 1) \in U
    BY <1>1, <1>6
  <1>8. <<1 .. (n - 1), 1 .. n>> \in R
    <2>1. 1 .. (n - 1) \in SUBSET Nat /\ 1 .. n \in SUBSET Nat
      OBVIOUS
    <2>2. n \in 1 .. n /\ n \notin 1 .. (n - 1)
      BY <1>6
    <2>3. 1 .. (n - 1) \subseteq 1 .. n
      BY <1>6
    <2> QED BY <1>1, <2>1, <2>2, <2>3 DEF StrictSubsetOrdering
  <1> QED BY <1>4, <1>5, <1>7, <1>8


\* What a Save call makes of the outcome of the ones before it.
Then(s, write) == IF s = Memory!Refused THEN Memory!Refused ELSE Memory!Save(s, write)

\* Every unit has its stages: the recursion is a definition.
LEMMA StagesFacts ==
  ASSUME NEW s, NEW u, Len(u.writes) \in Nat
  PROVE  LET stages == Memory!Stages(s, u) IN
         /\ stages[0] = s
         /\ \A n \in 1 .. Len(u.writes) : stages[n] = Then(stages[n - 1], u.writes[n])
  <1> DEFINE Unfolds(f, m) ==
               f = [n \in 0 .. m |-> IF n = 0 THEN s ELSE Then(f[n - 1], u.writes[n])]
             T == {m \in Nat : \E f : Unfolds(f, m)}
  <1>1. 0 \in T
    <2>1. PICK f : f = [n \in 0 .. 0 |-> s]
      OBVIOUS
    <2>2. f = [n \in 0 .. 0 |-> IF n = 0 THEN s ELSE Then(f[n - 1], u.writes[n])]
      <3>1. \A n \in 0 .. 0 : n = 0
        OBVIOUS
      <3> QED BY <2>1, <3>1
    <2>3. Unfolds(f, 0)
      BY <2>2
    <2> QED BY <2>3
  <1>2. ASSUME NEW m \in Nat, m \in T PROVE m + 1 \in T
    <2>1. PICK f : Unfolds(f, m)
      BY <1>2
    <2>2. PICK last : last = Then(f[m], u.writes[m + 1])
      OBVIOUS
    <2>3. PICK g : g = [n \in 0 .. m + 1 |-> IF n <= m THEN f[n] ELSE last]
      OBVIOUS
    <2>4. ASSUME NEW n \in 0 .. m + 1
          PROVE  g[n] = IF n = 0 THEN s ELSE Then(g[n - 1], u.writes[n])
      <3>1. CASE n = 0
        <4>1. n \in 0 .. m + 1 /\ n <= m /\ n \in 0 .. m
          BY <3>1
        <4>2. g[n] = f[n]
          BY <2>3, <4>1
        <4> QED BY <2>1, <3>1, <4>1, <4>2
      <3>2. CASE n # 0 /\ n <= m
        <4>1. /\ n \in 0 .. m /\ n - 1 \in 0 .. m + 1 /\ n - 1 <= m
          BY <3>2
        <4>2. g[n] = f[n] /\ g[n - 1] = f[n - 1]
          BY <2>3, <3>2, <4>1
        <4>3. f[n] = Then(f[n - 1], u.writes[n])
          BY <2>1, <3>2, <4>1
        <4> QED BY <3>2, <4>2, <4>3
      <3>3. CASE n = m + 1
        <4>1. n # 0 /\ ~(n <= m) /\ n - 1 = m /\ m \in 0 .. m + 1 /\ m <= m
          BY <3>3
        <4>2. g[n] = last /\ g[n - 1] = f[m]
          BY <2>3, <4>1
        <4> QED BY <2>2, <3>3, <4>1, <4>2
      <3> QED BY <3>1, <3>2, <3>3
    <2>5. g = [n \in 0 .. m + 1 |-> g[n]]
      BY <2>3
    <2>6. Unfolds(g, m + 1)
      BY <2>4, <2>5
    <2> QED BY <2>6
  <1>3. PICK m : m = Len(u.writes)
    OBVIOUS
  <1>4. m \in T
    <2> HIDE DEF T
    <2> QED BY <1>1, <1>2, <1>3, NatFacts
  <1>5. PICK f : Unfolds(f, m)
    BY <1>4
  <1>6. PICK stages : stages = Memory!Stages(s, u)
    OBVIOUS
  <1>7. stages = CHOOSE g : Unfolds(g, m)
    BY <1>3, <1>6 DEF Memory!Stages, Then
  <1>8. Unfolds(stages, m)
    <2> HIDE DEF Unfolds
    <2> QED BY <1>5, <1>7
  <1>9. stages[0] = s
    <2>1. 0 \in 0 .. m
      BY <1>3
    <2> QED BY <1>8, <2>1
  <1>10. ASSUME NEW n \in 1 .. m PROVE stages[n] = Then(stages[n - 1], u.writes[n])
    <2>1. n \in 0 .. m /\ n # 0
      BY <1>3
    <2> QED BY <1>8, <2>1
  <1> QED BY <1>3, <1>6, <1>9, <1>10

-----------------------------------------------------------------------------
(* The refinement.                                                         *)

\* The open transaction is at a stage of its unit: the maps of its tables, with
\* the second statement of a write in between, are those of Memory's copy.
Midway(c) ==
    LET writes == unit[c].writes
        stages == Memory!Stages(View(disk), unit[c])
        complete == IF part = 1 THEN work ELSE Execute(work, writes[next], 2)
        passed == IF part = 1 THEN next - 1 ELSE next
    IN  /\ Stored(work) /\ next <= Len(writes) + 1
        /\ part = 2 => next <= Len(writes) /\ writes[next].table = "execution"
        /\ ~failed => View(complete) = stages[passed]

RInv == SInv /\ Stored(disk) /\ (owner # Nobody => Midway(owner))

\* Nothing is published: the committed tables stay, and the open transaction,
\* if there still is one, is at a stage.
LEMMA QuietFacts ==
  ASSUME RInv, SInv', disk' = disk, owner' # Nobody => Midway(owner)'
  PROVE  RInv'
  BY DEF RInv

\* A write that fails publishes nothing.
LEMMA FailureFacts ==
  ASSUME RInv, SInv', NEW c \in Callers, Working(c), WriteFails(c)
  PROVE  RInv' /\ disk' = disk
  <1>1. PICK u : u = unit[c]
    OBVIOUS
  <1>2. owner = c /\ owner # Nobody /\ Len(u.writes) \in Nat
    BY <1>1, WorkingFacts, NobodyAssumption DEF RInv
  <1>3. \/ /\ failed' = TRUE /\ next' = Len(u.writes) + 1 /\ part' = 1 /\ disk' = disk
           /\ work' = work /\ owner' = c /\ unit' = unit
        \/ owner' = Nobody /\ disk' = disk
    BY <1>1, <1>2 DEF WriteFails, MarkFailed, Rollback, Return
  <1>4. CASE owner' = Nobody /\ disk' = disk
    BY <1>4, QuietFacts
  <1>5. CASE /\ failed' = TRUE /\ next' = Len(u.writes) + 1 /\ part' = 1 /\ disk' = disk
             /\ work' = work /\ owner' = c /\ unit' = unit
    <2>1. next' <= Len(u.writes) + 1 /\ part' # 2
      BY <1>2, <1>5
    <2>2. Stored(work)
      BY <1>2 DEF RInv, Midway
    <2>3. Midway(c)'
      BY <1>1, <1>5, <2>1, <2>2 DEF Midway
    <2> QED BY <1>5, <2>3, QuietFacts
  <1> QED BY <1>3, <1>4, <1>5

\* A caller that does not hold the connection comes, or gives up waiting.
LEMMA WaitingFacts ==
  ASSUME RInv, SInv', NEW c \in Callers, owner # c, NEW u, unit' = [unit EXCEPT ![c] = u],
         UNCHANGED <<disk, transaction>>
  PROVE  RInv' /\ disk' = disk
  <1>1. /\ disk' = disk /\ work' = work /\ owner' = owner /\ next' = next
        /\ part' = part /\ failed' = failed
    BY DEF transaction
  <1>2. ASSUME owner' # Nobody PROVE Midway(owner)'
    <2>1. owner \in Callers /\ unit'[owner] = unit[owner]
      BY <1>1, <1>2 DEF RInv, SInv
    <2> QED BY <1>1, <1>2, <2>1 DEF RInv, Midway
  <1> QED BY <1>1, <1>2, QuietFacts

\* Memory's state after a statement follows from the one before.
LEMMA StageFacts ==
  ASSUME RInv, NEW c \in Callers, Working(c), ~AtEnd(c), ~failed, part = 1
  PROVE  LET u == unit[c]
             stages == Memory!Stages(View(disk), u)
         IN  stages[next] = Memory!Save(View(work), u.writes[next])
  <1>1. PICK u, stages : u = unit[c] /\ stages = Memory!Stages(View(disk), u)
    OBVIOUS
  <1>2. owner = c /\ owner # Nobody /\ Len(u.writes) \in Nat
    BY <1>1, WorkingFacts, NobodyAssumption DEF RInv
  <1>3. next \in 1 .. Len(u.writes)
    BY <1>1, <1>2 DEF RInv, SInv, AtEnd
  <1>4. stages[next] = Then(stages[next - 1], u.writes[next])
    BY <1>1, <1>2, <1>3, StagesFacts
  <1>5. stages[next - 1] = View(work)
    BY <1>1, <1>2 DEF RInv, Midway
  <1>6. View(work) # Memory!Refused
    BY RefusedFacts
  <1> QED BY <1>1, <1>4, <1>5, <1>6 DEF Then

\* A statement leads to the next stage, or half way there.
LEMMA MidwayFacts ==
  ASSUME RInv, SInv', NEW c \in Callers, RunStatement(c)
  PROVE  RInv'
  <1>1. PICK u, write, after, stages :
           /\ u = unit[c] /\ write = u.writes[next] /\ after = Execute(work, write, part)
           /\ stages = Memory!Stages(View(disk), u)
    OBVIOUS
  <1>2. /\ Working(c) /\ ~AtEnd(c) /\ owner = c /\ owner # Nobody
        /\ DOMAIN u.writes = 1 .. Len(u.writes) /\ Len(u.writes) \in Nat
        /\ \A n \in DOMAIN u.writes : u.writes[n].table \in WriteTables
    <2>1. Working(c) /\ ~AtEnd(c) /\ SInv
      BY DEF RunStatement, RInv
    <2> QED BY <1>1, <2>1, WorkingFacts, NobodyAssumption
  <1>3. next \in 1 .. Len(u.writes) /\ write.table \in WriteTables /\ part \in {1, 2}
    BY <1>1, <1>2 DEF RInv, SInv, AtEnd
  <1>4. /\ Stored(work)
        /\ part = 2 => write.table = "execution"
        /\ ~failed /\ part = 2 => View(after) = stages[next]
    BY <1>1, <1>2 DEF RInv, Midway
  <1>5. CASE after = Refused
    <2>1. WriteFails(c)
      BY <1>1, <1>5 DEF RunStatement
    <2> QED BY <1>2, <2>1, FailureFacts
  <1>6. CASE after # Refused
    <2>1. /\ work' = after
          /\ \/ part < Statements(write) /\ part' = part + 1 /\ next' = next
             \/ ~(part < Statements(write)) /\ part' = 1 /\ next' = next + 1
          /\ disk' = disk /\ owner' = owner /\ unit' = unit /\ failed' = failed
      BY <1>1, <1>6 DEF RunStatement
    <2>2. CASE part = 1 /\ write.table # "execution"
      <3>1. Statements(write) = 1 /\ part' = 1 /\ next' = next + 1
        BY <2>1, <2>2 DEF Statements
      <3>2. Stored(after) /\ View(after) = Memory!Save(View(work), write)
        BY <1>1, <1>3, <1>4, <1>6, <2>2, <3>1, SaveAgrees DEF Agrees
      <3>3. ~failed => View(after) = stages[next]
        BY <1>1, <1>2, <2>2, <3>2, StageFacts
      <3>4. next' <= Len(u.writes) + 1 /\ next' - 1 = next
        BY <1>2, <1>3, <3>1
      <3>5. Midway(c)'
        BY <1>1, <2>1, <3>1, <3>2, <3>3, <3>4 DEF Midway
      <3> QED BY <1>2, <2>1, <3>5, QuietFacts
    <2>3. CASE part = 1 /\ write.table = "execution"
      <3>1. Statements(write) = 2 /\ part' = 2 /\ next' = next
        BY <2>1, <2>3 DEF Statements
      <3>2. Stored(after) /\ View(Execute(after, write, 2)) = Memory!Save(View(work), write)
        BY <1>1, <1>4, <2>3, ExecutionAgrees
      <3>3. ~failed => View(Execute(after, write, 2)) = stages[next]
        BY <1>1, <1>2, <2>3, <3>2, StageFacts
      <3>4. next' <= Len(u.writes) /\ next' <= Len(u.writes) + 1
        BY <1>2, <1>3, <3>1
      <3>5. Midway(c)'
        BY <1>1, <2>1, <2>3, <3>1, <3>2, <3>3, <3>4 DEF Midway
      <3> QED BY <1>2, <2>1, <3>5, QuietFacts
    <2>4. CASE part = 2
      <3>1. Statements(write) = 2 /\ part' = 1 /\ next' = next + 1
        BY <1>4, <2>1, <2>4 DEF Statements
      <3>2. Stored(after)
        <4>1. after = AppendRow(work, "trade_execution_history", write.record)
          BY <1>1, <1>4, <2>4 DEF Execute, SaveExecution
        <4> QED BY <1>4, <4>1, JournalsSaved
      <3>3. next' <= Len(u.writes) + 1 /\ next' - 1 = next
        BY <1>2, <1>3, <3>1
      <3>4. Midway(c)'
        BY <1>1, <1>4, <2>1, <2>4, <3>1, <3>2, <3>3 DEF Midway
      <3> QED BY <1>2, <2>1, <3>4, QuietFacts
    <2> QED BY <1>3, <2>2, <2>3, <2>4
  <1> QED BY <1>5, <1>6

\* A commit publishes the last stage of the unit.
LEMMA PublishFacts ==
  ASSUME RInv, SInv', NEW c \in Callers, Commit(c)
  PROVE  RInv' /\ (disk' = disk \/ Memory!Next)
  <1>1. PICK u, stages : u = unit[c] /\ stages = Memory!Stages(View(disk), u)
    OBVIOUS
  <1>2. Working(c) /\ AtEnd(c) /\ owner' = Nobody
    BY DEF Commit, Rollback, Return
  <1>3. CASE disk' = disk
    BY <1>2, <1>3, QuietFacts
  <1>4. CASE ~failed /\ ~u.nestedFails /\ disk' = work
    <2>1. owner = c /\ owner # Nobody /\ u \in Units /\ Len(u.writes) \in Nat
      BY <1>1, <1>2, WorkingFacts, NobodyAssumption DEF RInv
    <2>2. /\ Stored(work) /\ next <= Len(u.writes) + 1
          /\ part = 2 => next <= Len(u.writes)
          /\ part = 1 => View(work) = stages[next - 1]
          /\ next \in Nat /\ next > Len(u.writes) /\ part \in {1, 2}
      BY <1>1, <1>2, <1>4, <2>1 DEF RInv, SInv, Midway, AtEnd
    <2>3. part = 1 /\ next - 1 = Len(u.writes)
      BY <2>1, <2>2
    <2>4. View(work) = Memory!RunUnit(View(disk), u)
      BY <1>1, <1>4, <2>2, <2>3 DEF Memory!RunUnit
    <2>5. View(disk') = Memory!RunUnit(View(disk), u) /\ View(disk') # Memory!Refused
      BY <1>4, <2>4, RefusedFacts
    <2>6. Memory!WithinTransaction(u)
      BY <2>5 DEF Memory!WithinTransaction
    <2>7. Memory!Next
      BY <2>1, <2>6 DEF Memory!Next
    <2>8. RInv'
      BY <1>2, <1>4, <2>2 DEF RInv
    <2> QED BY <2>7, <2>8
  <1>5. disk' = disk \/ (~failed /\ ~u.nestedFails /\ disk' = work)
    BY <1>1 DEF Commit, Rollback, MarkFailed, NestedError
  <1> QED BY <1>3, <1>4, <1>5

\* A Save call outside a transaction is a unit of one stage.
LEMMA AlonePublishFacts ==
  ASSUME RInv, SInv', NEW c \in Callers, Autocommit(c)
  PROVE  RInv' /\ (disk' = disk \/ Memory!Next)
  <1>1. PICK u, write, after, stages :
           /\ u = unit[c] /\ write = u.writes[1] /\ after = Execute(disk, write, 1)
           /\ stages = Memory!Stages(View(disk), u)
    OBVIOUS
  <1>2. /\ u # NoUnit /\ owner' = Nobody /\ u.alone /\ Statements(write) = 1
        /\ disk' = disk \/ (after # Refused /\ disk' = after)
    BY <1>1 DEF Autocommit, Waiting, IsStatement, transaction
  <1>3. /\ u \in Units /\ Len(u.writes) = 1 /\ ~u.nestedFails
        /\ DOMAIN u.writes = 1 .. 1
    <2>1. u \in Units
      BY <1>1, <1>2 DEF RInv, SInv
    <2> QED BY <1>2, <2>1, UnitsAssumption
  <1>4. write.table \in WriteTables
    <2>1. 1 \in DOMAIN u.writes
      BY <1>3
    <2> QED BY <1>1, <1>3, <2>1, UnitsAssumption
  <1>5. CASE disk' = disk
    BY <1>2, <1>5, QuietFacts
  <1>6. CASE after # Refused /\ disk' = after
    <2>1. Stored(after) /\ View(after) = Memory!Save(View(disk), write)
      BY <1>1, <1>2, <1>4, <1>6, SaveAgrees DEF Agrees, RInv
    <2>2. stages[0] = View(disk) /\ stages[1] = Then(stages[0], write)
      <3>1. Len(u.writes) \in Nat /\ 1 \in 1 .. Len(u.writes) /\ 1 - 1 = 0
        BY <1>3
      <3> QED BY <1>1, <3>1, StagesFacts
    <2>3. stages[1] = View(after)
      BY <2>1, <2>2, RefusedFacts DEF Then
    <2>4. View(disk') = Memory!RunUnit(View(disk), u) /\ View(disk') # Memory!Refused
      BY <1>1, <1>3, <1>6, <2>3, RefusedFacts DEF Memory!RunUnit
    <2>5. Memory!WithinTransaction(u)
      BY <2>4 DEF Memory!WithinTransaction
    <2>6. Memory!Next
      BY <1>3, <2>5 DEF Memory!Next
    <2>7. RInv'
      BY <1>2, <1>6, <2>1 DEF RInv
    <2> QED BY <2>6, <2>7
  <1> QED BY <1>2, <1>5, <1>6

\* Every step keeps the invariant, and is a unit of work of Memory or none.
LEMMA RefinementFacts ==
  ASSUME RInv, [Next]_vars
  PROVE  RInv' /\ (disk' = disk \/ Memory!Next)
  <1>1. SInv'
    BY StepFacts DEF RInv
  <1>2. ASSUME NEW c \in Callers, NEW u \in Units, Call(c, u) PROVE RInv' /\ disk' = disk
    <2>1. owner # c
      BY <1>2, NobodyAssumption DEF Call, RInv, SInv, Open
    <2>2. unit' = [unit EXCEPT ![c] = u] /\ UNCHANGED <<disk, transaction>>
      BY <1>2 DEF Call
    <2> QED BY <1>1, <2>1, <2>2, WaitingFacts
  <1>3. ASSUME NEW c \in Callers, NeverBegins(c) PROVE RInv' /\ disk' = disk
    <2>1. owner # c
      BY <1>3 DEF NeverBegins, Waiting
    <2>2. unit' = [unit EXCEPT ![c] = NoUnit] /\ UNCHANGED <<disk, transaction>>
      BY <1>3 DEF NeverBegins
    <2> QED BY <1>1, <2>1, <2>2, WaitingFacts
  <1>4. ASSUME NEW c \in Callers, Begin(c) PROVE RInv' /\ disk' = disk
    <2>1. /\ unit[c] # NoUnit /\ owner' = c /\ work' = disk /\ next' = 1 /\ part' = 1
          /\ failed' = FALSE /\ disk' = disk /\ unit' = unit
      BY <1>4 DEF Begin, Waiting
    <2>2. unit[c] \in Units /\ Len(unit[c].writes) \in Nat
      BY <2>1, UnitsAssumption DEF RInv, SInv
    <2>3. PICK stages : stages = Memory!Stages(View(disk), unit[c])
      OBVIOUS
    <2>4. stages[0] = View(disk)
      BY <2>2, <2>3, StagesFacts
    <2>5. 1 <= Len(unit[c].writes) + 1 /\ 1 - 1 = 0
      BY <2>2
    <2>6. Midway(c)'
      BY <2>1, <2>3, <2>4, <2>5 DEF RInv, Midway
    <2> QED BY <1>1, <2>1, <2>6, QuietFacts
  <1>5. ASSUME NEW c \in Callers, StatementFails(c) PROVE RInv' /\ disk' = disk
    <2>1. Working(c) /\ WriteFails(c)
      BY <1>5 DEF StatementFails
    <2> QED BY <1>1, <2>1, FailureFacts
  <1>6. ASSUME NEW c \in Callers, CommitFails(c) \/ Panic(c) PROVE RInv' /\ disk' = disk
    <2>1. disk' = disk /\ owner' = Nobody
      BY <1>6 DEF CommitFails, Panic, Rollback, Return
    <2> QED BY <1>1, <2>1, QuietFacts
  <1>7. ASSUME Crash PROVE RInv' /\ disk' = disk
    <2>1. disk' = disk /\ owner' = Nobody
      BY <1>7 DEF Crash
    <2> QED BY <1>1, <2>1, QuietFacts
  <1>8. ASSUME NEW c \in Callers, RunStatement(c) PROVE RInv' /\ disk' = disk
    <2>1. disk' = disk
      BY <1>8 DEF RunStatement, WriteFails, Rollback
    <2> QED BY <1>1, <1>8, <2>1, MidwayFacts
  <1>9. CASE UNCHANGED vars
    <2>1. /\ disk' = disk /\ work' = work /\ owner' = owner /\ next' = next
          /\ part' = part /\ failed' = failed /\ unit' = unit
      BY <1>9 DEF vars, transaction
    <2>2. owner' # Nobody => Midway(owner)'
      BY <2>1 DEF RInv, Midway
    <2> QED BY <1>1, <2>1, <2>2, QuietFacts
  <1>10. ASSUME NEW c \in Callers, Step(c) PROVE RInv' /\ (disk' = disk \/ Memory!Next)
    BY <1>1, <1>4, <1>8, <1>10, PublishFacts, AlonePublishFacts DEF Step
  <1> QED BY <1>2, <1>3, <1>5, <1>6, <1>7, <1>9, <1>10 DEF Next

\* No rows are no records.
LEMMA NothingFacts == ASSUME Init PROVE RInv /\ Memory!Init
  <1>1. \A key : ByKey({}, key) = <<>> /\ JournalBy({}, key) = <<>>
    <2>1. ASSUME NEW key PROVE ByKey({}, key) = <<>> /\ JournalBy({}, key) = <<>>
      <3>1. /\ {row[key] : row \in {}} = {}
            /\ {row.record[key] : row \in {}} = {}
        OBVIOUS
      <3> QED BY <3>1 DEF ByKey, JournalBy
    <2> QED BY <2>1
  <1>2. /\ disk["observations"] = {} /\ disk["market_quotes"] = {}
        /\ disk["trade_quotes"] = {} /\ disk["trade_executions"] = {}
        /\ disk["trade_execution_history"] = {} /\ disk["action_requests"] = {}
        /\ disk["action_results"] = {} /\ disk["agent_events"] = {}
        /\ disk["runtime_records"] = {}
    BY DEF Init, NoRows
  <1>3. View(disk) = Memory!Empty
    BY <1>1, <1>2, ViewFacts, NothingInOrder DEF Memory!Empty
  <1>4. Sequenced({}) /\ \A key : Keyed({}, key)
    BY FS_EmptySet DEF Sequenced, Keyed
  <1>5. \A t \in TableNames : disk[t] = {}
    BY <1>2 DEF TableNames
  <1>6. Stored(disk)
    <2>1. Tabular(disk)
      BY InitFacts DEF SInv
    <2>2. ASSUME NEW t \in AppendOnly PROVE Sequenced(disk[t])
      BY <1>4, <1>5, TablesFacts
    <2>3. ASSUME NEW t \in DOMAIN KeyOf PROVE Keyed(disk[t], KeyOf[t])
      BY <1>4, <1>5, TablesFacts
    <2> QED BY <2>1, <2>2, <2>3 DEF Stored
  <1> QED BY <1>3, <1>6, InitFacts DEF Init, RInv, Memory!Init

\* Whatever callers, failures and crashes do, the tables on the disk stand for
\* maps and journals, and change as Memory's change: by whole units of work,
\* each run against what the ones before it left (WithinTransaction).
THEOREM Refinement == Spec => ImplementsMemory
  <1>1. Init => RInv /\ Memory!Init
    BY NothingFacts
  <1>2. RInv /\ [Next]_vars => RInv'
    BY RefinementFacts
  <1>3. RInv /\ [Next]_vars => [Memory!Next]_(View(disk))
    BY RefinementFacts
  <1> QED BY <1>1, <1>2, <1>3, PTL DEF Spec, ImplementsMemory, Memory!Spec

-----------------------------------------------------------------------------
(* Checkpoints, on the maps and journals.                                  *)

\* A unit saves checkpoints of this execution.
Persisted(k) ==
    \E u \in Units : \E n \in DOMAIN u.writes :
        IsCheckpoint(u.writes[n]) /\ u.writes[n].record.key = k

Fields == DOMAIN Memory!Empty

\* Every checkpoint has its execution, and the last line of its history.
Resumable(s) ==
    /\ DOMAIN s = Fields
    /\ \A k \in DOMAIN s["runtimeRecords"] :
          s["runtimeRecords"][k].kind = "checkpoint" =>
              LET body == s["runtimeRecords"][k].body
                  history == s["executionHistory"][k]
              IN  /\ Persisted(k)
                  /\ k \in DOMAIN s["executions"] /\ s["executions"][k].body = body
                  /\ k \in DOMAIN s["executionHistory"] /\ Len(history) \in Nat \ {0}
                  /\ history[Len(history)].body = body

\* Only two of the tables matter.
LEMMA OtherSaves ==
  ASSUME NEW s, DOMAIN s = Fields,
         NEW write, write.table \in WriteTables \ {"execution", "runtime"},
         NEW saved, saved = Memory!Save(s, write), saved # Memory!Refused
  PROVE  /\ DOMAIN saved = Fields
         /\ saved["runtimeRecords"] = s["runtimeRecords"]
         /\ saved["executions"] = s["executions"]
         /\ saved["executionHistory"] = s["executionHistory"]
  <1>1. Fields = {"observations", "quotes", "tradeQuotes", "executions", "executionHistory",
                  "actions", "actionResults", "events", "runtimeRecords"}
    BY DEF Fields, Memory!Empty
  <1>2. \/ saved = s
        \/ \E f \in Fields \ {"runtimeRecords", "executions", "executionHistory"} :
              \E map : saved = [s EXCEPT ![f] = map]
    <2>1. CASE write.table = "observation"
      BY <1>1, <2>1 DEF Memory!Save, Memory!SaveObservation, Memory!PutOnce
    <2>2. CASE write.table = "quote"
      BY <1>1, <2>2 DEF Memory!Save, Memory!SaveQuote
    <2>3. CASE write.table = "tradeQuote"
      BY <1>1, <2>3 DEF Memory!Save, Memory!SaveTradeQuote
    <2>4. CASE write.table = "action"
      BY <1>1, <2>4 DEF Memory!Save, Memory!SaveAction, Memory!PutOnce
    <2>5. CASE write.table = "event"
      BY <1>1, <2>5 DEF Memory!Save, Memory!SaveEvent, Memory!PutOnce
    <2>6. CASE write.table = "result"
      BY <1>1, <2>6 DEF Memory!Save, Memory!SaveActionResult
    <2> QED BY <2>1, <2>2, <2>3, <2>4, <2>5, <2>6 DEF WriteTables
  <1>3. ASSUME NEW f \in Fields \ {"runtimeRecords", "executions", "executionHistory"},
               NEW map, saved = [s EXCEPT ![f] = map]
        PROVE  /\ DOMAIN saved = Fields
               /\ saved["runtimeRecords"] = s["runtimeRecords"]
               /\ saved["executions"] = s["executions"]
               /\ saved["executionHistory"] = s["executionHistory"]
    BY <1>1, <1>3
  <1> QED BY <1>2, <1>3

\* A write about no execution that has checkpoints leaves them be.
LEMMA SaveKeeps ==
  ASSUME NEW s, Resumable(s), NEW u \in Units, NEW n \in DOMAIN u.writes,
         \A k : Persisted(k) => About(u.writes[n]) # {k},
         NEW saved, saved = Memory!Save(s, u.writes[n]), saved # Memory!Refused
  PROVE  Resumable(saved)
  <1>1. PICK write, r : write = u.writes[n] /\ r = write.record
    OBVIOUS
  <1>2. write.table \in WriteTables
    BY <1>1, UnitsAssumption
  <1>3. CASE write.table \notin {"execution", "runtime"}
    BY <1>1, <1>2, <1>3, OtherSaves DEF Resumable
  <1>4. /\ "executions" \in Fields /\ "executionHistory" \in Fields
        /\ "runtimeRecords" \in Fields
    BY DEF Fields, Memory!Empty
  <1>5. CASE write.table = "execution"
    <2>1. ~Persisted(r.id)
      BY <1>1, <1>5 DEF About
    <2>2. PICK longer :
             saved = [s EXCEPT !["executions"] = Memory!Put(s["executions"], r.id, r),
                               !["executionHistory"] =
                                   Memory!Put(s["executionHistory"], r.id, longer)]
      BY <1>1, <1>5 DEF Memory!Save, Memory!SaveExecution
    <2>3. /\ DOMAIN saved = Fields /\ saved["runtimeRecords"] = s["runtimeRecords"]
          /\ saved["executions"] = Memory!Put(s["executions"], r.id, r)
          /\ saved["executionHistory"] = Memory!Put(s["executionHistory"], r.id, longer)
      BY <1>4, <2>2 DEF Resumable
    <2>4. ASSUME NEW k \in DOMAIN s["runtimeRecords"],
                 s["runtimeRecords"][k].kind = "checkpoint"
          PROVE  /\ k \in DOMAIN saved["executions"]
                 /\ saved["executions"][k] = s["executions"][k]
                 /\ k \in DOMAIN saved["executionHistory"]
                 /\ saved["executionHistory"][k] = s["executionHistory"][k]
      <3>1. /\ k # r.id /\ k \in DOMAIN s["executions"]
            /\ k \in DOMAIN s["executionHistory"]
        BY <2>1, <2>4 DEF Resumable
      <3>2. PICK old, new : /\ old = s["executions"]
                            /\ new = saved["executions"]
        OBVIOUS
      <3>3. k \in DOMAIN new /\ new[k] = old[k]
        BY <2>3, <3>1, <3>2 DEF Memory!Put
      <3>4. PICK before, after : /\ before = s["executionHistory"]
                                 /\ after = saved["executionHistory"]
        OBVIOUS
      <3>5. k \in DOMAIN after /\ after[k] = before[k]
        BY <2>3, <3>1, <3>4 DEF Memory!Put
      <3> QED BY <3>2, <3>3, <3>4, <3>5
    <2> QED BY <2>3, <2>4 DEF Resumable
  <1>6. CASE write.table = "runtime"
    <2>1. r.kind # "checkpoint"
      <3>1. r.kind = "checkpoint" => Persisted(r.key)
        BY <1>1, <1>6 DEF Persisted, IsCheckpoint
      <3> QED BY <1>1, <1>6, <3>1 DEF About
    <2>2. saved = [s EXCEPT !["runtimeRecords"] = Memory!Put(s["runtimeRecords"], r.key, r)]
      BY <1>1, <1>6 DEF Memory!Save, Memory!SaveRuntimeRecord
    <2>3. /\ DOMAIN saved = Fields
          /\ saved["runtimeRecords"] = Memory!Put(s["runtimeRecords"], r.key, r)
          /\ saved["executions"] = s["executions"]
          /\ saved["executionHistory"] = s["executionHistory"]
      BY <1>4, <2>2 DEF Resumable
    <2>4. ASSUME NEW k \in DOMAIN saved["runtimeRecords"],
                 saved["runtimeRecords"][k].kind = "checkpoint"
          PROVE  /\ k \in DOMAIN s["runtimeRecords"]
                 /\ saved["runtimeRecords"][k] = s["runtimeRecords"][k]
      <3>1. PICK old, new : old = s["runtimeRecords"] /\ new = saved["runtimeRecords"]
        OBVIOUS
      <3>2. new = [x \in DOMAIN old \cup {r.key} |-> IF x = r.key THEN r ELSE old[x]]
        BY <2>3, <3>1 DEF Memory!Put
      <3>3. k \in DOMAIN new /\ new[k].kind = "checkpoint"
        BY <2>4, <3>1
      <3>4. k # r.key
        BY <2>1, <3>2, <3>3
      <3> QED BY <3>1, <3>2, <3>3, <3>4
    <2> QED BY <2>3, <2>4 DEF Resumable
  <1> QED BY <1>3, <1>5, <1>6

\* Neither does a unit of such writes.
LEMMA UnitKeeps ==
  ASSUME NEW s, Resumable(s), NEW u \in Units,
         \A n \in DOMAIN u.writes : \A k : Persisted(k) => About(u.writes[n]) # {k},
         NEW saved, saved = Memory!RunUnit(s, u), saved # Memory!Refused
  PROVE  Resumable(saved)
  <1>1. PICK m, stages : m = Len(u.writes) /\ stages = Memory!Stages(s, u)
    OBVIOUS
  <1>2. m \in Nat /\ DOMAIN u.writes = 1 .. m
    BY <1>1, UnitsAssumption
  <1>3. /\ stages[0] = s
        /\ \A n \in 1 .. m : stages[n] = Then(stages[n - 1], u.writes[n])
    BY <1>1, <1>2, StagesFacts
  <1> DEFINE T == {n \in Nat : n <= m => stages[n] = Memory!Refused \/ Resumable(stages[n])}
  <1>4. 0 \in T
    BY <1>3
  <1>5. ASSUME NEW n \in Nat, n \in T PROVE n + 1 \in T
    <2>1. CASE n + 1 <= m
      <3>1. n + 1 \in 1 .. m /\ (n + 1) - 1 = n /\ n <= m
        BY <1>2, <2>1
      <3>2. stages[n + 1] = Then(stages[n], u.writes[n + 1])
        BY <1>3, <3>1
      <3>3. n + 1 \in DOMAIN u.writes
        BY <1>2, <3>1
      <3>4. CASE stages[n] = Memory!Refused \/ stages[n + 1] = Memory!Refused
        BY <3>2, <3>4 DEF Then
      <3>5. CASE stages[n] # Memory!Refused /\ stages[n + 1] # Memory!Refused
        <4>1. Resumable(stages[n])
          BY <1>5, <3>1, <3>5
        <4>2. stages[n + 1] = Memory!Save(stages[n], u.writes[n + 1])
          BY <3>2, <3>5 DEF Then
        <4>3. Resumable(stages[n + 1])
          BY <3>3, <3>5, <4>1, <4>2, SaveKeeps
        <4> QED BY <4>3
      <3> QED BY <3>4, <3>5
    <2> QED BY <2>1
  <1>6. m \in T
    <2> HIDE DEF T
    <2> QED BY <1>2, <1>4, <1>5, NatFacts
  <1>7. saved = stages[m]
    BY <1>1 DEF Memory!RunUnit
  <1> QED BY <1>2, <1>6, <1>7

\* The lines of a journal are a sequence.
LEMMA JournalIsSeq ==
  ASSUME NEW db, Stored(db), NEW k
  PROVE  \E S : Memory!JournalOf(View(db).executionHistory, k) \in Seq(S)
  <1>1. PICK rows, map, journal :
           /\ rows = db["trade_execution_history"] /\ map = JournalBy(rows, "id")
           /\ journal = Memory!JournalOf(map, k)
    OBVIOUS
  <1>2. View(db).executionHistory = map
    BY <1>1, ViewFacts
  <1>3. CASE k \notin DOMAIN map
    <2>1. journal = <<>>
      BY <1>1, <1>3 DEF Memory!JournalOf
    <2>2. journal \in Seq({})
      BY <2>1
    <2> QED BY <1>1, <1>2, <2>2
  <1>4. CASE k \in DOMAIN map
    <2>1. PICK lines, m : /\ lines = {row \in rows : row.record["id"] = k}
                          /\ m = Cardinality(lines)
      OBVIOUS
    <2>2. journal = InOrder(lines)
      BY <1>1, <1>4, <2>1 DEF Memory!JournalOf, JournalBy
    <2>3. m \in Nat
      <3>1. IsFiniteSet(rows)
        BY <1>1 DEF Stored, Sequenced, AppendOnly
      <3>2. IsFiniteSet(lines)
        BY <2>1, <3>1, FS_Subset
      <3> QED BY <2>1, <3>2, FS_CardinalityType
    <2>4. PICK S : S = {journal[n] : n \in 1 .. m}
      OBVIOUS
    <2>5. journal \in [1 .. m -> S]
      BY <2>1, <2>2, <2>4, InOrderDef
    <2>6. journal \in Seq(S)
      BY <2>3, <2>5
    <2> QED BY <1>1, <1>2, <2>6
  <1> QED BY <1>3, <1>4

\* persistSaga replaces checkpoint and execution and adds a line, all of one
\* transition.
LEMMA SagaKeeps ==
  ASSUME NEW s, Resumable(s), NEW u \in Units, PersistsSaga(u),
         \A k : \E S : Memory!JournalOf(s["executionHistory"], k) \in Seq(S),
         NEW saved, saved = Memory!RunUnit(s, u), saved # Memory!Refused
  PROVE  Resumable(saved)
  <1>1. PICK r, e, k, stages : /\ r = u.writes[1].record /\ e = u.writes[2].record
                               /\ k = r.key /\ stages = Memory!Stages(s, u)
    OBVIOUS
  <1>2. /\ Len(u.writes) = 2 /\ DOMAIN u.writes = 1 .. 2
        /\ u.writes[1].table = "runtime" /\ u.writes[2].table = "execution"
        /\ r.kind = "checkpoint" /\ e.id = k /\ e.body = r.body
    BY <1>1, UnitsAssumption DEF PersistsSaga, IsCheckpoint
  <1>3. Persisted(k)
    <2>1. 1 \in DOMAIN u.writes
      BY <1>2
    <2> QED BY <1>1, <2>1 DEF Persisted, PersistsSaga
  <1>4. stages[2] = Memory!Save(Memory!Save(s, u.writes[1]), u.writes[2])
    <2>1. /\ stages[0] = s
          /\ \A n \in 1 .. 2 : stages[n] = Then(stages[n - 1], u.writes[n])
      BY <1>1, <1>2, StagesFacts
    <2>2. 1 \in 1 .. 2 /\ 2 \in 1 .. 2 /\ 1 - 1 = 0 /\ 2 - 1 = 1
      OBVIOUS
    <2>3. /\ stages[1] = Then(stages[0], u.writes[1])
          /\ stages[2] = Then(stages[1], u.writes[2])
      BY <2>1, <2>2
    <2>4. stages[2] # Memory!Refused
      BY <1>1, <1>2 DEF Memory!RunUnit
    <2>5. stages[1] # Memory!Refused /\ s # Memory!Refused
      <3>1. stages[1] # Memory!Refused
        BY <2>3, <2>4 DEF Then
      <3> QED BY <2>1, <2>3, <3>1 DEF Then
    <2> QED BY <2>1, <2>3, <2>5 DEF Then
  <1>5. saved = stages[2]
    BY <1>1, <1>2 DEF Memory!RunUnit
  <1>6. PICK records, executions, histories, journal :
           /\ records = s["runtimeRecords"] /\ executions = s["executions"]
           /\ histories = s["executionHistory"] /\ journal = Memory!JournalOf(histories, k)
    OBVIOUS
  <1>7. PICK longer : longer = Append(journal, e)
    OBVIOUS
  <1>8. /\ "executions" \in Fields /\ "executionHistory" \in Fields
        /\ "runtimeRecords" \in Fields
    BY DEF Fields, Memory!Empty
  <1>9. PICK between : between = Memory!Save(s, u.writes[1])
    OBVIOUS
  <1>10. /\ DOMAIN between = Fields
         /\ between["runtimeRecords"] = Memory!Put(records, k, r)
         /\ between["executions"] = executions
         /\ between["executionHistory"] = histories
    <2>1. between = [s EXCEPT !["runtimeRecords"] = Memory!Put(records, k, r)]
      BY <1>1, <1>2, <1>6, <1>9 DEF Memory!Save, Memory!SaveRuntimeRecord
    <2> QED BY <1>6, <1>8, <2>1 DEF Resumable
  <1>11. /\ DOMAIN saved = Fields
         /\ saved["runtimeRecords"] = Memory!Put(records, k, r)
         /\ saved["executions"] = Memory!Put(executions, k, e)
         /\ saved["executionHistory"] = Memory!Put(histories, k, longer)
    <2>1. saved = Memory!SaveExecution(between, e)
      BY <1>1, <1>2, <1>4, <1>5, <1>9 DEF Memory!Save
    <2>2. saved = [between EXCEPT
                      !["executions"] = Memory!Put(between["executions"], k, e),
                      !["executionHistory"] =
                          Memory!Put(between["executionHistory"], k,
                              Append(Memory!JournalOf(between["executionHistory"], k), e))]
      BY <1>2, <2>1 DEF Memory!SaveExecution
    <2>3. saved = [between EXCEPT !["executions"] = Memory!Put(executions, k, e),
                                  !["executionHistory"] = Memory!Put(histories, k, longer)]
      BY <1>6, <1>7, <1>10, <2>2
    <2> QED BY <1>8, <1>10, <2>3
  <1>12. Len(longer) \in Nat \ {0} /\ longer[Len(longer)] = e
    <2>1. PICK S : journal \in Seq(S)
      BY <1>6
    <2>2. journal \in Seq(S \cup {e}) /\ e \in S \cup {e}
      BY <2>1
    <2>3. Len(longer) = Len(journal) + 1 /\ longer[Len(journal) + 1] = e
      BY <1>7, <2>2, AppendProperties
    <2>4. Len(journal) \in Nat
      BY <2>1
    <2> QED BY <2>3, <2>4
  <1>13. ASSUME NEW x \in DOMAIN saved["runtimeRecords"],
                saved["runtimeRecords"][x].kind = "checkpoint"
         PROVE  LET body == saved["runtimeRecords"][x].body
                    history == saved["executionHistory"][x]
                IN  /\ Persisted(x)
                    /\ x \in DOMAIN saved["executions"] /\ saved["executions"][x].body = body
                    /\ x \in DOMAIN saved["executionHistory"] /\ Len(history) \in Nat \ {0}
                    /\ history[Len(history)].body = body
    <2>1. CASE x = k
      <3>1. /\ saved["runtimeRecords"][k] = r /\ saved["executions"][k] = e
            /\ saved["executionHistory"][k] = longer
            /\ k \in DOMAIN saved["executions"] /\ k \in DOMAIN saved["executionHistory"]
        BY <1>11 DEF Memory!Put
      <3> QED BY <1>2, <1>3, <1>12, <2>1, <3>1
    <2>2. CASE x # k
      <3>1. PICK new : new = saved["runtimeRecords"]
        OBVIOUS
      <3>2. x \in DOMAIN records /\ new[x] = records[x]
        BY <1>11, <1>13, <2>2, <3>1 DEF Memory!Put
      <3>3. /\ Persisted(x)
            /\ x \in DOMAIN executions /\ executions[x].body = records[x].body
            /\ x \in DOMAIN histories /\ Len(histories[x]) \in Nat \ {0}
            /\ histories[x][Len(histories[x])].body = records[x].body
        BY <1>6, <1>13, <3>1, <3>2 DEF Resumable
      <3>4. PICK after : after = saved["executions"]
        OBVIOUS
      <3>5. x \in DOMAIN after /\ after[x] = executions[x]
        BY <1>11, <2>2, <3>3, <3>4 DEF Memory!Put
      <3>6. PICK lines : lines = saved["executionHistory"]
        OBVIOUS
      <3>7. x \in DOMAIN lines /\ lines[x] = histories[x]
        BY <1>11, <2>2, <3>3, <3>6 DEF Memory!Put
      <3> QED BY <3>1, <3>2, <3>3, <3>4, <3>5, <3>6, <3>7
    <2> QED BY <2>1, <2>2
  <1> QED BY <1>11, <1>13 DEF Resumable

\* Every unit is of one of the two kinds.
LEMMA ResumableFacts ==
  ASSUME Stored(disk), Resumable(View(disk)), Memory!Next
  PROVE  Resumable(View(disk'))
  <1>1. PICK u \in Units : Memory!WithinTransaction(u)
    BY DEF Memory!Next
  <1>2. PICK s, saved : s = View(disk) /\ saved = View(disk')
    OBVIOUS
  <1>3. saved = Memory!RunUnit(s, u) /\ saved # Memory!Refused
    BY <1>1, <1>2 DEF Memory!WithinTransaction
  <1>4. CASE PersistsSaga(u)
    <2>1. \A k : \E S : Memory!JournalOf(s["executionHistory"], k) \in Seq(S)
      BY <1>2, JournalIsSeq
    <2> QED BY <1>2, <1>3, <1>4, <2>1, SagaKeeps
  <1>5. CASE ~PersistsSaga(u)
    <2>1. ASSUME NEW n \in DOMAIN u.writes, NEW k, Persisted(k), About(u.writes[n]) = {k}
          PROVE  FALSE
      <3>1. PICK v \in Units : \E m \in DOMAIN v.writes :
                IsCheckpoint(v.writes[m]) /\ v.writes[m].record.key = k
        BY <2>1 DEF Persisted
      <3>2. PICK m \in DOMAIN v.writes :
                IsCheckpoint(v.writes[m]) /\ v.writes[m].record.key = k
        BY <3>1
      <3>3. About(v.writes[m]) = {k}
        BY <3>2 DEF About, IsCheckpoint
      <3>4. \E i \in DOMAIN u.writes : About(u.writes[i]) = About(v.writes[m])
        BY <2>1, <3>3
      <3>5. PersistsSaga(u)
        BY <3>2, <3>4, CheckpointsAssumption
      <3> QED BY <1>5, <3>5
    <2>2. \A n \in DOMAIN u.writes : \A k : Persisted(k) => About(u.writes[n]) # {k}
      BY <2>1
    <2> QED BY <1>2, <1>3, <2>2, UnitKeeps
  <1> QED BY <1>4, <1>5

\* The last line of a journal, or nothing, is the first page of one.
LEMMA LastFacts ==
  ASSUME NEW journal, Len(journal) \in Nat
  PROVE  Paginate(Reverse(journal), 1, 0)
             = IF Len(journal) = 0 THEN <<>> ELSE <<journal[Len(journal)]>>
  <1>1. PICK m, reversed : m = Len(journal) /\ reversed = Reverse(journal)
    OBVIOUS
  <1>2. reversed = [i \in 1 .. m |-> journal[(m - i) + 1]]
    BY <1>1 DEF Reverse
  <1>3. PICK found : found = {i \in DOMAIN reversed : i > 0 /\ (1 > 0 => i <= 0 + 1)}
    OBVIOUS
  <1>4. Paginate(reversed, 1, 0) = [n \in 1 .. Cardinality(found) |-> reversed[0 + n]]
    BY <1>3 DEF Paginate
  <1>5. CASE m = 0
    <2>1. found = {}
      BY <1>2, <1>3, <1>5
    <2>2. Cardinality(found) = 0
      BY <2>1, FS_EmptySet
    <2> QED BY <1>1, <1>4, <1>5, <2>2
  <1>6. CASE m # 0
    <2>1. found = {1} /\ reversed[1] = journal[m]
      BY <1>1, <1>2, <1>3, <1>6
    <2>2. Cardinality(found) = 1
      BY <2>1, FS_Singleton
    <2>3. Paginate(reversed, 1, 0) = <<reversed[1]>>
      BY <1>4, <2>2
    <2> QED BY <1>1, <1>6, <2>1, <2>3
  <1> QED BY <1>5, <1>6

\* What the maps say of checkpoints, the tables say.
LEMMA RowsOfCheckpoints ==
  ASSUME Stored(disk), Resumable(View(disk))
  PROVE  CheckpointMatchesExecution
  <1> SUFFICES ASSUME NEW row \in disk.runtime_records, row.kind = "checkpoint"
               PROVE  /\ \E e \in disk.trade_executions : e.id = row.key /\ e.body = row.body
                      /\ LET history == ExecutionHistory(disk, row.key, 1)
                         IN  history # <<>> /\ history[1].body = row.body
    BY DEF CheckpointMatchesExecution
  <1>1. PICK s, k : s = View(disk) /\ k = row.key
    OBVIOUS
  <1>2. /\ s["runtimeRecords"] = ByKey(disk["runtime_records"], "key")
        /\ s["executions"] = ByKey(disk["trade_executions"], "id")
        /\ s["executionHistory"] = JournalBy(disk["trade_execution_history"], "id")
    BY <1>1, ViewFacts
  <1>3. k \in DOMAIN s["runtimeRecords"] /\ s["runtimeRecords"][k] = row
    <2>1. Keyed(disk["runtime_records"], "key")
      BY DEF Stored, KeyOf
    <2>2. \A other \in disk["runtime_records"] : other["key"] = k => other = row
      BY <1>1, <2>1 DEF Keyed
    <2>3. (CHOOSE other \in disk["runtime_records"] : other["key"] = k) = row
      BY <1>1, <2>2
    <2> QED BY <1>1, <1>2, <2>3 DEF ByKey
  <1>4. /\ k \in DOMAIN s["executions"] /\ s["executions"][k].body = row.body
        /\ k \in DOMAIN s["executionHistory"]
        /\ Len(s["executionHistory"][k]) \in Nat \ {0}
        /\ s["executionHistory"][k][Len(s["executionHistory"][k])].body = row.body
    BY <1>1, <1>3 DEF Resumable
  <1>5. \E e \in disk.trade_executions : e.id = row.key /\ e.body = row.body
    <2>1. PICK x \in disk["trade_executions"] : x["id"] = k
      BY <1>2, <1>4 DEF ByKey
    <2>2. s["executions"][k] = CHOOSE e \in disk["trade_executions"] : e["id"] = k
      BY <1>2, <1>4 DEF ByKey
    <2>3. s["executions"][k] \in disk["trade_executions"] /\ s["executions"][k]["id"] = k
      BY <2>1, <2>2
    <2> QED BY <1>1, <1>4, <2>3
  <1>6. PICK journal : journal = s["executionHistory"][k]
    OBVIOUS
  <1>7. ExecutionHistory(disk, k, 1) = Paginate(Reverse(journal), 1, 0)
    <2>1. journal =
              InOrder({line \in disk["trade_execution_history"] : line.record["id"] = k})
      BY <1>2, <1>4, <1>6 DEF JournalBy
    <2> QED BY <2>1 DEF ExecutionHistory, ByInsertion
  <1>8. LET newest == Paginate(Reverse(journal), 1, 0)
        IN  newest # <<>> /\ newest[1] = journal[Len(journal)]
    BY <1>4, <1>6, LastFacts
  <1> QED BY <1>1, <1>4, <1>5, <1>6, <1>7, <1>8

\* At whatever point the process died, the checkpoint it will resume from, the
\* execution and the last line of its history are of one transition of the
\* saga, if each is saved by Engine.persistSaga and by nobody else.
THEOREM CheckpointTheorem == Spec => []CheckpointMatchesExecution
  <1>1. Init => RInv /\ Resumable(View(disk))
    <2>1. ASSUME Init PROVE Resumable(View(disk))
      <3>1. View(disk) = Memory!Empty
        BY <2>1, NothingFacts DEF Memory!Init
      <3>2. DOMAIN Memory!Empty["runtimeRecords"] = {}
        BY DEF Memory!Empty
      <3> QED BY <3>1, <3>2 DEF Resumable, Fields
    <2> QED BY <2>1, NothingFacts
  <1>2. RInv /\ Resumable(View(disk)) /\ [Next]_vars => (RInv /\ Resumable(View(disk)))'
    <2>1. ASSUME RInv, Resumable(View(disk)), [Next]_vars
          PROVE  RInv' /\ Resumable(View(disk'))
      <3>1. RInv' /\ (disk' = disk \/ Memory!Next)
        BY <2>1, RefinementFacts
      <3>2. CASE disk' = disk
        BY <2>1, <3>1, <3>2
      <3>3. CASE Memory!Next
        BY <2>1, <3>1, <3>3, ResumableFacts DEF RInv
      <3> QED BY <3>1, <3>2, <3>3
    <2> QED BY <2>1
  <1>3. RInv /\ Resumable(View(disk)) => CheckpointMatchesExecution
    BY RowsOfCheckpoints DEF RInv
  <1> QED BY <1>1, <1>2, <1>3, PTL DEF Spec

-----------------------------------------------------------------------------
(* Queries.                                                                *)

\* LIMIT and OFFSET cut out the page that pageBounds does.
LEMMA PageFacts ==
  ASSUME NEW m \in Nat, NEW list, list = [i \in 1 .. m |-> list[i]],
         NEW limit \in Nat, NEW offset \in Nat
  PROVE  Paginate(list, limit, offset) = Memory!Page(list, limit, offset)
  <1>1. PICK S : S = {list[i] : i \in 1 .. m}
    OBVIOUS
  <1>2. list \in Seq(S) /\ Len(list) = m /\ DOMAIN list = 1 .. m
    <2>1. list \in [1 .. m -> S]
      BY <1>1
    <2> QED BY <2>1
  <1>3. PICK last \in Int : last = IF limit > 0 /\ limit < m - offset THEN offset + limit ELSE m
    OBVIOUS
  <1>4. {i \in DOMAIN list : i > offset /\ (limit > 0 => i <= offset + limit)}
            = offset + 1 .. last
    BY <1>2, <1>3
  <1>5. PICK k : k = IF offset + 1 > last THEN 0 ELSE last - offset
    OBVIOUS
  <1>6. Cardinality(offset + 1 .. last) = k
    <2>1. offset + 1 \in Int /\ last - (offset + 1) + 1 = last - offset
      OBVIOUS
    <2> QED BY <1>5, <2>1, FS_Interval
  <1>7. Paginate(list, limit, offset) = [n \in 1 .. k |-> list[offset + n]]
    BY <1>4, <1>6 DEF Paginate
  <1>8. CASE offset >= m
    <2>1. k = 0
      BY <1>3, <1>5, <1>8
    <2>2. Memory!Page(list, limit, offset) = <<>>
      BY <1>2, <1>8 DEF Memory!Page
    <2> QED BY <1>7, <2>1, <2>2
  <1>9. CASE offset < m
    <2>1. k = last - offset /\ last <= m
      BY <1>3, <1>5, <1>9
    <2>2. Memory!Page(list, limit, offset) = SubSeq(list, offset + 1, last)
      <3>1. ~(offset >= Len(list))
        BY <1>2, <1>9
      <3>2. last = IF limit > 0 /\ limit < Len(list) - offset THEN offset + limit ELSE Len(list)
        BY <1>2, <1>3
      <3> QED BY <3>1, <3>2, Zenon DEF Memory!Page
    <2>3. SubSeq(list, offset + 1, last) = [n \in 1 .. k |-> list[offset + n]]
      <3>1. PICK cut : cut = SubSeq(list, offset + 1, last)
        OBVIOUS
      <3>2. cut = [n \in 1 .. last - (offset + 1) + 1 |-> list[(offset + 1) + n - 1]]
        BY <1>2, <2>1, <3>1
      <3>3. /\ last - (offset + 1) + 1 = k
            /\ \A n \in 1 .. k : (offset + 1) + n - 1 = offset + n
        BY <2>1
      <3> QED BY <3>1, <3>2, <3>3
    <2> QED BY <1>7, <2>2, <2>3
  <1> QED BY <1>8, <1>9

\* What has n before it in the one set and in the other.
SortedAlike(S, R, T, Q, f) ==
    /\ Cardinality(S) = Cardinality(T)
    /\ \A n \in 1 .. Cardinality(S) : \E x \in S :
          /\ \A z \in S : Rank(S, R, z) = n - 1 <=> z = x
          /\ \A z \in T : Rank(T, Q, z) = n - 1 <=> z = f[x]

\* A finite set and its image under a map that keeps the order are sorted alike.
LEMMA IsoFacts ==
  ASSUME NEW S, NEW R, NEW T, NEW Q, NEW f, IsFiniteSet(S), StrictOrder(T, Q),
         f \in [S -> T], \A y \in T : \E x \in S : f[x] = y,
         \A x, y \in S : f[x] = f[y] => x = y,
         \A x, y \in S : <<x, y>> \in R <=> <<f[x], f[y]>> \in Q
  PROVE  SortedAlike(S, R, T, Q, f)
  <1>1. Cardinality(S) = Cardinality(T)
    <2>1. f \in Bijection(S, T)
      BY DEF Bijection, Injection, Surjection, IsInjective
    <2>2. ExistsBijection(S, T)
      BY <2>1 DEF ExistsBijection
    <2> QED BY <2>2, FS_Bijection
  <1>2. ASSUME NEW x \in S PROVE Rank(S, R, x) = Rank(T, Q, f[x])
    <2>1. PICK A, B : /\ A = {y \in S : <<y, x>> \in R}
                      /\ B = {y \in T : <<y, f[x]>> \in Q}
      OBVIOUS
    <2>2. PICK g : g = [y \in A |-> f[y]]
      OBVIOUS
    <2>3. g \in [A -> B]
      BY <2>1, <2>2
    <2>4. \A y \in B : \E z \in A : g[z] = y
      BY <2>1, <2>2
    <2>5. \A y, z \in A : g[y] = g[z] => y = z
      BY <2>1, <2>2
    <2>6. g \in Bijection(A, B)
      BY <2>3, <2>4, <2>5 DEF Bijection, Injection, Surjection, IsInjective
    <2>7. ExistsBijection(A, B)
      BY <2>6 DEF ExistsBijection
    <2>8. IsFiniteSet(A)
      BY <2>1, FS_Subset
    <2> QED BY <2>1, <2>7, <2>8, FS_Bijection DEF Rank
  <1>3. ASSUME NEW n \in 1 .. Cardinality(S)
        PROVE  \E x \in S : /\ \A z \in S : Rank(S, R, z) = n - 1 <=> z = x
                            /\ \A z \in T : Rank(T, Q, z) = n - 1 <=> z = f[x]
    <2>1. PICK y \in T : Rank(T, Q, y) = n - 1
      BY <1>1, RankFacts
    <2>2. \A z \in T : Rank(T, Q, z) = n - 1 => z = y
      BY <2>1, RankFacts
    <2>3. PICK x \in S : f[x] = y
      OBVIOUS
    <2>4. Rank(S, R, x) = n - 1
      BY <1>2, <2>1, <2>3
    <2>5. \A z \in S : Rank(S, R, z) = n - 1 => z = x
      <3>1. ASSUME NEW z \in S, Rank(S, R, z) = n - 1 PROVE z = x
        <4>1. f[z] \in T /\ Rank(T, Q, f[z]) = n - 1
          BY <1>2, <3>1
        <4> QED BY <2>2, <2>3, <4>1
      <3> QED BY <3>1
    <2> QED BY <2>1, <2>2, <2>3, <2>4, <2>5
  <1> QED BY <1>1, <1>3 DEF SortedAlike

\* Times that can be compared.
Dated(rows) == \A row \in rows : row.record.at \in Nat

\* The quotes a filter asks for, and which of two rows is listed first.
Matches(r, f) == (f.item # 0 => r.item = f.item) /\ InTime(r.at, f)
Newer(x, y) == x.record.at > y.record.at
               \/ (x.record.at = y.record.at /\ x.sequence > y.sequence)
Later(journal, i, j) == journal[i].at > journal[j].at
                        \/ (journal[i].at = journal[j].at /\ i > j)


Lines(journal, f) == {i \in DOMAIN journal : Matches(journal[i], f)}
LaterIn(journal, I) == {e \in I \X I : Later(journal, e[1], e[2])}

RowsOf(M, Q) ==
    [n \in 1 .. Cardinality(M) |-> (CHOOSE x \in M : Rank(M, Q, x) = n - 1).record]
LinesOf(journal, I, R) ==
    [n \in 1 .. Cardinality(I) |-> journal[CHOOSE i \in I : Rank(I, R, i) = n - 1]]

\* SelectQuotes lists the matching rows by their rank in the order of ListQuotes.
LEMMA SelectDef ==
  ASSUME NEW rows, NEW f, NEW M, M = {row \in rows : Matches(row.record, f)},
         NEW Q, Q = {e \in M \X M : Newer(e[1], e[2])}
  PROVE  SelectQuotes(rows, f) = Paginate(RowsOf(M, Q), f.limit, f.offset)
  <1>1. PICK before : before = [x \in M |-> {y \in M : Newer(y, x)}]
    OBVIOUS
  <1>2. PICK ordered : ordered = [n \in 1 .. Cardinality(M) |->
                                     CHOOSE x \in M : Rank(M, Q, x) = n - 1]
    OBVIOUS
  <1>3. OrderBy(before) = ordered
    <2>1. ASSUME NEW n \in 1 .. Cardinality(M)
          PROVE  (CHOOSE x \in M : Cardinality(before[x]) = n - 1)
                     = (CHOOSE x \in M : Rank(M, Q, x) = n - 1)
      <3>1. ASSUME NEW x \in M PROVE Cardinality(before[x]) = Rank(M, Q, x)
        <4>1. {y \in M : <<y, x>> \in Q} = {y \in M : Newer(y, x)}
          OBVIOUS
        <4> QED BY <1>1, <4>1 DEF Rank
      <3> QED BY <3>1
    <2>2. DOMAIN before = M
      BY <1>1
    <2>3. OrderBy(before) = [n \in 1 .. Cardinality(M) |->
                              CHOOSE x \in M : Cardinality(before[x]) = n - 1]
      BY <2>2 DEF OrderBy
    <2> QED BY <1>2, <2>1, <2>3
  <1>4. SelectQuotes(rows, f) = Paginate(Records(OrderBy(before)), f.limit, f.offset)
    BY <1>1 DEF SelectQuotes, Newer, Matches
  <1>5. Records(ordered) = RowsOf(M, Q)
    BY <1>2 DEF Records, RowsOf
  <1> QED BY <1>3, <1>4, <1>5

\* The instance of RecordStore counts as this module does.
LEMMA SameCardinality == \A S : Memory!Cardinality(S) = Cardinality(S)
  BY DEF Memory!Cardinality, Cardinality

\* NewestFirst lists the matching lines of a journal by their rank in its order.
LEMMA NewestDef ==
  ASSUME NEW journal, NEW f, NEW I, I = Lines(journal, f), NEW R, R = LaterIn(journal, I)
  PROVE  Memory!NewestFirst(journal, f)
             = Memory!Page(LinesOf(journal, I, R), f.limit, f.offset)
  <1>1. PICK before : before = [i \in I |-> {j \in I : Later(journal, j, i)}]
    OBVIOUS
  <1>2. PICK ordered : ordered = [n \in 1 .. Cardinality(I) |->
                                     CHOOSE i \in I : Rank(I, R, i) = n - 1]
    OBVIOUS
  <1>3. Memory!Sorted(before) = ordered
    <2>1. ASSUME NEW n \in 1 .. Cardinality(I)
          PROVE  (CHOOSE x \in I : Cardinality(before[x]) = n - 1)
                     = (CHOOSE x \in I : Rank(I, R, x) = n - 1)
      <3>1. ASSUME NEW x \in I PROVE Cardinality(before[x]) = Rank(I, R, x)
        <4>1. {y \in I : <<y, x>> \in R} = {y \in I : Later(journal, y, x)}
          BY DEF LaterIn
        <4> QED BY <1>1, <4>1 DEF Rank
      <3> QED BY <3>1
    <2>2. DOMAIN before = I
      BY <1>1
    <2>3. Memory!Sorted(before) = [n \in 1 .. Cardinality(I) |->
                              CHOOSE x \in I : Cardinality(before[x]) = n - 1]
      BY <2>2, SameCardinality DEF Memory!Sorted
    <2> QED BY <1>2, <2>1, <2>3
  <1>4. Memory!NewestFirst(journal, f)
            = LET order == Memory!Sorted(before)
              IN  Memory!Page([n \in DOMAIN order |-> journal[order[n]]], f.limit, f.offset)
    BY <1>1 DEF Memory!NewestFirst, Memory!InTime, InTime, Later, Matches, Lines
  <1>5. [n \in DOMAIN ordered |-> journal[ordered[n]]] = LinesOf(journal, I, R)
    BY <1>2 DEF LinesOf
  <1> QED BY <1>3, <1>4, <1>5

\* Rows in the order of their numbers, by time or as Memory sorts its journal.
LEMMA QuotesAgree ==
  ASSUME NEW rows, Numbered(rows), Dated(rows),
         NEW f, f.limit \in Nat, f.offset \in Nat
  PROVE  SelectQuotes(rows, f) = Memory!NewestFirst(InOrder(rows), f)
  <1>1. PICK m, journal : m = Cardinality(rows) /\ journal = InOrder(rows)
    OBVIOUS
  <1>2. PICK at : at = [i \in 1 .. m |-> CHOOSE row \in rows : Place(rows, row) = i - 1]
    OBVIOUS
  <1>3. m \in Nat
    BY <1>1, PlacesFacts
  <1>4. ASSUME NEW i \in 1 .. m PROVE at[i] \in rows /\ Place(rows, at[i]) = i - 1
    BY <1>1, <1>2, PlacesFacts
  <1>5. journal = [i \in 1 .. m |-> at[i].record]
    BY <1>1, <1>2, InOrderDef
  <1>6. ASSUME NEW x \in rows PROVE \E i \in 1 .. m : at[i] = x
    <2>1. Place(rows, x) \in 0 .. m - 1
      BY <1>1, PlacesFacts
    <2>2. PICK i : i = Place(rows, x) + 1
      OBVIOUS
    <2>3. i \in 1 .. m /\ Place(rows, x) = i - 1
      BY <1>3, <2>1, <2>2
    <2>4. at[i] = x
      BY <1>4, <2>3, PlacesFacts
    <2> QED BY <2>3, <2>4
  <1>7. ASSUME NEW i \in 1 .. m, NEW j \in 1 .. m
        PROVE  i > j <=> at[i].sequence > at[j].sequence
    <2>1. /\ at[i] \in rows /\ Place(rows, at[i]) = i - 1
          /\ at[j] \in rows /\ Place(rows, at[j]) = j - 1
      BY <1>4
    <2>2. at[j].sequence < at[i].sequence <=> Place(rows, at[j]) < Place(rows, at[i])
      BY <2>1, PlacesFacts
    <2>3. at[i].sequence \in Nat /\ at[j].sequence \in Nat
      BY <2>1 DEF Numbered
    <2> QED BY <2>1, <2>2, <2>3
  <1>8. PICK I, M, R, Q, h :
           /\ I = {i \in DOMAIN journal : Matches(journal[i], f)}
           /\ M = {row \in rows : Matches(row.record, f)}
           /\ R = {e \in I \X I : Later(journal, e[1], e[2])}
           /\ Q = {e \in M \X M : Newer(e[1], e[2])}
           /\ h = [i \in I |-> at[i]]
    OBVIOUS
  <1>9. I \subseteq 1 .. m /\ \A i \in I : h[i] = at[i] /\ journal[i] = at[i].record
    BY <1>5, <1>8
  <1>10. h \in [I -> M] /\ \A y \in M : \E i \in I : h[i] = y
    <2>1. ASSUME NEW i \in I PROVE at[i] \in M
      BY <1>4, <1>8, <1>9
    <2>2. ASSUME NEW y \in M PROVE \E i \in I : h[i] = y
      <3>1. PICK i \in 1 .. m : at[i] = y
        BY <1>6, <1>8
      <3>2. i \in I
        BY <1>5, <1>8, <3>1
      <3> QED BY <1>9, <3>1, <3>2
    <2> QED BY <1>8, <2>1, <2>2
  <1>11. \A i, j \in I : h[i] = h[j] => i = j
    <2>1. ASSUME NEW i \in I, NEW j \in I, h[i] = h[j] PROVE i = j
      <3>1. i \in 1 .. m /\ j \in 1 .. m /\ at[i] = at[j]
        BY <1>9, <2>1
      <3>2. i - 1 = j - 1
        BY <1>4, <3>1
      <3> QED BY <1>3, <3>1, <3>2
    <2> QED BY <2>1
  <1>12. \A i, j \in I : <<i, j>> \in R <=> <<h[i], h[j]>> \in Q
    <2>1. ASSUME NEW i \in I, NEW j \in I PROVE <<i, j>> \in R <=> <<h[i], h[j]>> \in Q
      <3>1. Later(journal, i, j) <=> Newer(at[i], at[j])
        BY <1>7, <1>9 DEF Later, Newer
      <3>2. <<h[i], h[j]>> \in Q <=> Newer(at[i], at[j])
        BY <1>8, <1>9, <1>10
      <3>3. <<i, j>> \in R <=> Later(journal, i, j)
        BY <1>8
      <3> QED BY <3>1, <3>2, <3>3
    <2> QED BY <2>1
  <1>13. IsFiniteSet(I) /\ StrictOrder(M, Q)
    <2>1. IsFiniteSet(I)
      <3>1. IsFiniteSet(1 .. m)
        BY <1>3, FS_Interval
      <3> QED BY <1>9, <3>1, FS_Subset
    <2>2. IsFiniteSet(M)
      BY <1>8, FS_Subset DEF Numbered
    <2>3. \A x, y \in M : <<x, y>> \in Q <=> Newer(x, y)
      BY <1>8
    <2>4. \A x \in M : /\ x.record.at \in Nat /\ x.sequence \in Nat
                       /\ \A y \in M : x.sequence = y.sequence => x = y
      BY <1>8 DEF Numbered, Dated
    <2>5. \A x \in M : ~Newer(x, x)
      BY <2>4 DEF Newer
    <2>6. \A x, y, z \in M : Newer(x, y) /\ Newer(y, z) => Newer(x, z)
      BY <2>4 DEF Newer
    <2>7. \A x, y \in M : x = y \/ Newer(x, y) \/ Newer(y, x)
      BY <2>4 DEF Newer
    <2> QED BY <2>1, <2>2, <2>3, <2>5, <2>6, <2>7 DEF StrictOrder
  <1>14. PICK k : k = Cardinality(I)
    OBVIOUS
  <1>15. /\ k = Cardinality(M)
         /\ \A n \in 1 .. k : \E x \in I :
               /\ \A z \in I : Rank(I, R, z) = n - 1 <=> z = x
               /\ \A z \in M : Rank(M, Q, z) = n - 1 <=> z = h[x]
    <2>1. SortedAlike(I, R, M, Q, h)
      BY <1>10, <1>11, <1>12, <1>13, IsoFacts
    <2> QED BY <1>14, <2>1 DEF SortedAlike
  <1>16. PICK left, right :
           /\ left = [n \in 1 .. k |-> (CHOOSE x \in M : Rank(M, Q, x) = n - 1).record]
           /\ right = [n \in 1 .. k |-> journal[CHOOSE i \in I : Rank(I, R, i) = n - 1]]
    OBVIOUS
  <1>17. left = right
    <2>1. ASSUME NEW n \in 1 .. k
          PROVE  (CHOOSE x \in M : Rank(M, Q, x) = n - 1).record
                     = journal[CHOOSE i \in I : Rank(I, R, i) = n - 1]
      <3>1. PICK x \in I : /\ \A z \in I : Rank(I, R, z) = n - 1 <=> z = x
                           /\ \A z \in M : Rank(M, Q, z) = n - 1 <=> z = h[x]
        BY <1>15
      <3>2. (CHOOSE i \in I : Rank(I, R, i) = n - 1) = x
        BY <3>1
      <3>3. h[x] \in M
        BY <1>10
      <3>4. (CHOOSE y \in M : Rank(M, Q, y) = n - 1) = h[x]
        BY <3>1, <3>3
      <3> QED BY <1>9, <3>2, <3>4
    <2> QED BY <1>16, <2>1
  <1>18. SelectQuotes(rows, f) = Paginate(left, f.limit, f.offset)
    <2>1. SelectQuotes(rows, f) = Paginate(RowsOf(M, Q), f.limit, f.offset)
      BY <1>8, SelectDef
    <2>2. RowsOf(M, Q) = left
      BY <1>15, <1>16 DEF RowsOf
    <2> QED BY <2>1, <2>2
  <1>19. Memory!NewestFirst(journal, f) = Memory!Page(right, f.limit, f.offset)
    <2>1. Memory!NewestFirst(journal, f)
              = Memory!Page(LinesOf(journal, I, R), f.limit, f.offset)
      BY <1>8, NewestDef DEF Lines, LaterIn
    <2>2. LinesOf(journal, I, R) = right
      BY <1>14, <1>16 DEF LinesOf
    <2> QED BY <2>1, <2>2
  <1>20. k \in Nat /\ right = [n \in 1 .. k |-> right[n]]
    BY <1>13, <1>14, <1>16, FS_CardinalityType
  <1> QED BY <1>1, <1>17, <1>18, <1>19, <1>20, PageFacts

\* One more quote of a journal, for an item.
Best(best, q, item) ==
    IF q.item = item /\ (best = <<>> \/ q.at >= best[1].at) THEN <<q>> ELSE best

Walk(best, journal, item) ==
    /\ best[0] = <<>>
    /\ \A n \in 1 .. Len(journal) : best[n] = Best(best[n - 1], journal[n], item)

\* LatestQuote of Memory is where a walk over the journal ends.
LEMMA BestFacts ==
  ASSUME NEW s, NEW item, Len(s.quotes) \in Nat
  PROVE  \E best : /\ Walk(best, s.quotes, item)
                   /\ Memory!LatestQuote(s, item) = best[Len(s.quotes)]
  <1> DEFINE Unfolds(f, m) ==
               f = [n \in 0 .. m |-> IF n = 0 THEN <<>> ELSE Best(f[n - 1], s.quotes[n], item)]
             T == {m \in Nat : \E f : Unfolds(f, m)}
  <1>1. 0 \in T
    <2>1. PICK f : f = [n \in 0 .. 0 |-> <<>>]
      OBVIOUS
    <2>2. f = [n \in 0 .. 0 |-> IF n = 0 THEN <<>> ELSE Best(f[n - 1], s.quotes[n], item)]
      <3>1. \A n \in 0 .. 0 : n = 0
        OBVIOUS
      <3> QED BY <2>1, <3>1
    <2>3. Unfolds(f, 0)
      BY <2>2
    <2> QED BY <2>3
  <1>2. ASSUME NEW m \in Nat, m \in T PROVE m + 1 \in T
    <2>1. PICK f : Unfolds(f, m)
      BY <1>2
    <2>2. PICK last : last = Best(f[m], s.quotes[m + 1], item)
      OBVIOUS
    <2>3. PICK g : g = [n \in 0 .. m + 1 |-> IF n <= m THEN f[n] ELSE last]
      OBVIOUS
    <2>4. ASSUME NEW n \in 0 .. m + 1
          PROVE  g[n] = IF n = 0 THEN <<>> ELSE Best(g[n - 1], s.quotes[n], item)
      <3>1. CASE n = 0
        <4>1. n \in 0 .. m + 1 /\ n <= m /\ n \in 0 .. m
          BY <3>1
        <4>2. g[n] = f[n]
          BY <2>3, <4>1
        <4> QED BY <2>1, <3>1, <4>1, <4>2
      <3>2. CASE n # 0 /\ n <= m
        <4>1. /\ n \in 0 .. m /\ n - 1 \in 0 .. m + 1 /\ n - 1 <= m
          BY <3>2
        <4>2. g[n] = f[n] /\ g[n - 1] = f[n - 1]
          BY <2>3, <3>2, <4>1
        <4>3. f[n] = Best(f[n - 1], s.quotes[n], item)
          BY <2>1, <3>2, <4>1
        <4> QED BY <3>2, <4>2, <4>3
      <3>3. CASE n = m + 1
        <4>1. n # 0 /\ ~(n <= m) /\ n - 1 = m /\ m \in 0 .. m + 1 /\ m <= m
          BY <3>3
        <4>2. g[n] = last /\ g[n - 1] = f[m]
          BY <2>3, <4>1
        <4> QED BY <2>2, <3>3, <4>1, <4>2
      <3> QED BY <3>1, <3>2, <3>3
    <2>5. g = [n \in 0 .. m + 1 |-> g[n]]
      BY <2>3
    <2>6. Unfolds(g, m + 1)
      BY <2>4, <2>5
    <2> QED BY <2>6
  <1>3. PICK m : m = Len(s.quotes)
    OBVIOUS
  <1>4. m \in T
    <2> HIDE DEF T
    <2> QED BY <1>1, <1>2, <1>3, NatFacts
  <1>5. PICK f : Unfolds(f, m)
    BY <1>4
  <1>6. PICK best : best = CHOOSE g : Unfolds(g, m)
    OBVIOUS
  <1>7. Memory!LatestQuote(s, item) = best[m]
    BY <1>3, <1>6 DEF Memory!LatestQuote, Best
  <1>8. Unfolds(best, m)
    <2> HIDE DEF Unfolds
    <2> QED BY <1>5, <1>6
  <1>9. best[0] = <<>>
    <2>1. 0 \in 0 .. m
      BY <1>3
    <2> QED BY <1>8, <2>1
  <1>10. ASSUME NEW n \in 1 .. m PROVE best[n] = Best(best[n - 1], s.quotes[n], item)
    <2>1. n \in 0 .. m /\ n # 0
      BY <1>3
    <2> QED BY <1>8, <2>1
  <1> QED BY <1>3, <1>7, <1>9, <1>10 DEF Walk

\* The quote that wins is the first of the sorted list.
LEMMA LatestFacts ==
  ASSUME NEW s, NEW journal, NEW m \in Nat, journal = s.quotes,
         journal = [i \in 1 .. m |-> journal[i]], Len(journal) = m,
         \A i \in 1 .. m : journal[i].at \in Nat, NEW item, item # 0
  PROVE  Memory!NewestFirst(journal, One(item)) = Memory!LatestQuote(s, item)
  <1>1. PICK f : f = One(item)
    OBVIOUS
  <1>2. /\ f.item = item /\ f.since = 0 /\ f.until = 0 /\ f.limit = 1 /\ f.offset = 0
    BY <1>1 DEF One
  <1>3. PICK I, R : I = Lines(journal, f) /\ R = LaterIn(journal, I)
    OBVIOUS
  <1>4. I \subseteq 1 .. m /\ \A i \in 1 .. m : i \in I <=> journal[i].item = item
    <2>1. DOMAIN journal = 1 .. m
      OBVIOUS
    <2> QED BY <1>2, <1>3, <2>1 DEF Matches, InTime, Lines
  <1>5. PICK best : /\ best[0] = <<>>
                    /\ \A n \in 1 .. m : best[n] = Best(best[n - 1], journal[n], item)
                    /\ Memory!LatestQuote(s, item) = best[m]
    <2>1. Len(s.quotes) = m
      OBVIOUS
    <2>2. PICK best : /\ Walk(best, s.quotes, item)
                      /\ Memory!LatestQuote(s, item) = best[Len(s.quotes)]
      BY <2>1, BestFacts
    <2> QED BY <2>1, <2>2 DEF Walk
  <1> DEFINE Winner(n, j) == /\ j \in I /\ j <= n /\ best[n] = <<journal[j]>>
                             /\ \A i \in I : i <= n => i = j \/ Later(journal, j, i)
             NoneYet(n) == best[n] = <<>> /\ \A i \in I : ~(i <= n)
             Decided(n) == NoneYet(n) \/ \E j \in I : Winner(n, j)
             T == {n \in Nat : n <= m => Decided(n)}
  <1>6. 0 \in T
    <2>1. ASSUME NEW i \in I PROVE ~(i <= 0)
      <3>1. i \in 1 .. m
        BY <1>4
      <3> QED BY <3>1
    <2> QED BY <1>5, <2>1
  <1>7. ASSUME NEW n \in Nat, n \in T PROVE n + 1 \in T
    <2> SUFFICES ASSUME n + 1 <= m PROVE Decided(n + 1)
      <3> HIDE DEF Decided
      <3> QED OBVIOUS
    <2>1. n + 1 \in 1 .. m /\ (n + 1) - 1 = n
      OBVIOUS
    <2>2. best[n + 1] = Best(best[n], journal[n + 1], item)
      BY <1>5, <2>1
    <2>3. \A i \in I : i \in Nat /\ (i <= n + 1 <=> i <= n \/ i = n + 1)
      BY <1>4
    <2>4. NoneYet(n) \/ \E j \in I : Winner(n, j)
      BY <1>7
    <2>5. CASE journal[n + 1].item # item
      <3>1. best[n + 1] = best[n]
        BY <2>2, <2>5 DEF Best
      <3>2. n + 1 \notin I
        BY <1>4, <2>1, <2>5
      <3>3. \A i \in I : i <= n + 1 <=> i <= n
        BY <2>3, <3>2
      <3> QED BY <2>4, <3>1, <3>3
    <2>6. CASE journal[n + 1].item = item /\ NoneYet(n)
      <3>1. best[n + 1] = <<journal[n + 1]>>
        BY <2>2, <2>6 DEF Best
      <3>2. n + 1 \in I
        BY <1>4, <2>1, <2>6
      <3>3. Winner(n + 1, n + 1)
        BY <2>3, <2>6, <3>1, <3>2
      <3> QED BY <3>2, <3>3
    <2>7. ASSUME journal[n + 1].item = item, NEW j \in I, Winner(n, j)
          PROVE  \E i \in I : Winner(n + 1, i)
      <3>1. best[n] # <<>> /\ best[n][1] = journal[j]
        BY <2>7
      <3>2. n + 1 \in I
        BY <1>4, <2>1, <2>7
      <3>3. /\ \A i \in I : journal[i].at \in Nat /\ i \in Nat
            /\ j \in Nat /\ j <= n
        BY <1>4, <2>7
      <3>4. CASE journal[n + 1].at >= journal[j].at
        <4>1. best[n + 1] = <<journal[n + 1]>>
          BY <2>2, <2>7, <3>1, <3>4 DEF Best
        <4>2. ASSUME NEW i \in I, i <= n + 1 PROVE i = n + 1 \/ Later(journal, n + 1, i)
          <5>1. CASE i = n + 1
            BY <5>1
          <5>2. CASE i <= n
            <6>1. i = j \/ Later(journal, j, i)
              BY <2>7, <5>2
            <6>2. journal[n + 1].at >= journal[i].at
              BY <3>2, <3>3, <3>4, <6>1 DEF Later
            <6>3. n + 1 > i
              BY <3>3, <5>2
            <6>4. journal[n + 1].at \in Nat /\ journal[i].at \in Nat
              BY <3>2, <3>3
            <6>5. journal[n + 1].at > journal[i].at \/ journal[n + 1].at = journal[i].at
              BY <6>2, <6>4
            <6> QED BY <6>3, <6>5 DEF Later
          <5> QED BY <2>3, <4>2, <5>1, <5>2
        <4>3. Winner(n + 1, n + 1)
          BY <3>2, <4>1, <4>2
        <4> QED BY <3>2, <4>3
      <3>5. CASE ~(journal[n + 1].at >= journal[j].at)
        <4>1. best[n + 1] = <<journal[j]>>
          BY <2>2, <2>7, <3>1, <3>5 DEF Best
        <4>2. Later(journal, j, n + 1)
          BY <3>2, <3>3, <3>5 DEF Later
        <4>3. Winner(n + 1, j)
          BY <2>3, <2>7, <3>3, <4>1, <4>2
        <4> QED BY <4>3
      <3> QED BY <3>4, <3>5
    <2> QED BY <2>4, <2>5, <2>6, <2>7
  <1>8. m \in T
    <2> HIDE DEF T
    <2> QED BY <1>6, <1>7, NatFacts
  <1>9. PICK list, k : list = LinesOf(journal, I, R) /\ k = Cardinality(I)
    OBVIOUS
  <1>10. Memory!NewestFirst(journal, One(item)) = Memory!Page(list, 1, 0)
    <2>1. Memory!NewestFirst(journal, f)
              = Memory!Page(LinesOf(journal, I, R), f.limit, f.offset)
      BY <1>3, NewestDef
    <2> QED BY <1>1, <1>2, <1>9, <2>1
  <1>11. k \in Nat /\ IsFiniteSet(I)
    <2>1. IsFiniteSet(1 .. m)
      BY FS_Interval
    <2>2. IsFiniteSet(I)
      BY <1>4, <2>1, FS_Subset
    <2> QED BY <1>9, <2>2, FS_CardinalityType
  <1>12. Memory!Page(list, 1, 0) = Paginate(list, 1, 0)
    <2>1. list = [n \in 1 .. k |-> list[n]]
      BY <1>9 DEF LinesOf
    <2>2. 1 \in Nat /\ 0 \in Nat /\ k \in Nat
      BY <1>11
    <2> QED BY <2>1, <2>2, PageFacts
  <1>13. CASE NoneYet(m)
    <2>1. I = {}
      BY <1>4, <1>13
    <2>2. k = 0
      BY <1>9, <2>1, FS_EmptySet
    <2>3. list = <<>>
      BY <1>9, <2>2 DEF LinesOf
    <2>4. Memory!Page(list, 1, 0) = <<>>
      BY <2>3 DEF Memory!Page
    <2> QED BY <1>5, <1>10, <1>13, <2>4
  <1>14. ASSUME NEW j \in I, Winner(m, j)
         PROVE  Memory!NewestFirst(journal, One(item)) = Memory!LatestQuote(s, item)
    <2>1. \A i \in I : journal[i].at \in Nat /\ i \in Nat /\ i <= m
      BY <1>4
    <2>2. ASSUME NEW i \in I PROVE <<i, j>> \notin R
      <3>1. i = j \/ Later(journal, j, i)
        BY <1>14, <2>1
      <3>2. ~Later(journal, i, j)
        BY <2>1, <3>1 DEF Later
      <3> QED BY <1>3, <3>2 DEF LaterIn
    <2>3. Rank(I, R, j) = 0
      <3>1. {i \in I : <<i, j>> \in R} = {}
        BY <2>2
      <3> QED BY <3>1, FS_EmptySet DEF Rank
    <2>4. \A i \in I : Rank(I, R, i) = 0 => i = j
      <3>1. ASSUME NEW i \in I, i # j PROVE Rank(I, R, i) # 0
        <4>1. Later(journal, j, i)
          BY <1>14, <2>1, <3>1
        <4>2. <<j, i>> \in R
          BY <1>3, <4>1 DEF LaterIn
        <4>3. PICK A : A = {y \in I : <<y, i>> \in R}
          OBVIOUS
        <4>4. j \in A /\ IsFiniteSet(A)
          BY <1>11, <4>2, <4>3, FS_Subset
        <4>5. Cardinality(A) # 0
          BY <4>4, FS_EmptySet
        <4> QED BY <4>3, <4>5 DEF Rank
      <3> QED BY <3>1
    <2>5. (CHOOSE i \in I : Rank(I, R, i) = 1 - 1) = j
      <3>1. 1 - 1 = 0
        OBVIOUS
      <3> QED BY <2>3, <2>4, <3>1
    <2>6. k >= 1
      BY <1>9, <1>11, FS_EmptySet
    <2>7. DOMAIN list = 1 .. k /\ list[1] = journal[j]
      <3>1. 1 \in 1 .. k
        BY <1>11, <2>6
      <3> QED BY <1>9, <2>5, <3>1 DEF LinesOf
    <2>8. {i \in DOMAIN list : i > 0 /\ (1 > 0 => i <= 0 + 1)} = {1}
      BY <1>11, <2>6, <2>7
    <2>9. Cardinality({1}) = 1
      BY FS_Singleton
    <2>10. Paginate(list, 1, 0) = [n \in 1 .. 1 |-> list[0 + n]]
      BY <2>8, <2>9 DEF Paginate
    <2>11. Paginate(list, 1, 0) = <<journal[j]>>
      BY <2>7, <2>10
    <2> QED BY <1>5, <1>10, <1>12, <1>14, <2>11
  <1> QED BY <1>8, <1>13, <1>14

\* Finite tables, and quotes whose times can be compared.
Quotes == {"market_quotes", "trade_quotes"}
Timed(db) ==
    /\ \A t \in TableNames : IsFiniteSet(db[t])
    /\ \A t \in Quotes : Dated(db[t])

\* A table grows or changes by one row, whose time can be compared.
LEMMA TimedTable ==
  ASSUME NEW db, Tabular(db), Timed(db), NEW t \in TableNames, NEW rows, IsFiniteSet(rows),
         t \in Quotes => Dated(rows)
  PROVE  Timed([db EXCEPT ![t] = rows])
  <1>1. PICK after : after = [db EXCEPT ![t] = rows]
    OBVIOUS
  <1>2. DOMAIN db = TableNames
    BY DEF Tabular
  <1>3. after[t] = rows /\ \A u \in TableNames : u # t => after[u] = db[u]
    BY <1>1, <1>2
  <1>4. \A u \in TableNames : IsFiniteSet(after[u])
    BY <1>3 DEF Timed
  <1>5. Quotes \subseteq TableNames
    BY DEF Quotes, TableNames
  <1>6. ASSUME NEW u \in Quotes PROVE Dated(after[u])
    <2>1. CASE u = t
      BY <1>3, <2>1
    <2>2. CASE u # t
      BY <1>3, <1>5, <2>2 DEF Timed
    <2> QED BY <2>1, <2>2
  <1> QED BY <1>1, <1>4, <1>6 DEF Timed

\* Each kind of statement leaves the tables finite and their times comparable.
LEMMA TimedStatements ==
  ASSUME NEW db, Tabular(db), Timed(db), NEW t \in TableNames, NEW r
  PROVE  /\ (t \in Quotes => r.at \in Nat) => Timed(AppendRow(db, t, r))
         /\ \A key : t \notin Quotes =>
               /\ Timed(Upsert(db, t, key, r))
               /\ InsertOnce(db, t, key, r) # Refused => Timed(InsertOnce(db, t, key, r))
  <1>1. IsFiniteSet(db[t])
    BY DEF Timed
  <1>2. ASSUME t \in Quotes => r.at \in Nat PROVE Timed(AppendRow(db, t, r))
    <2>1. PICK new, rows : /\ new = [sequence |-> 1 + Cardinality({row.sequence : row \in db[t]}),
                                     record |-> r]
                           /\ rows = db[t] \cup {new}
      OBVIOUS
    <2>2. AppendRow(db, t, r) = [db EXCEPT ![t] = rows]
      BY <2>1 DEF AppendRow
    <2>3. IsFiniteSet(rows)
      BY <1>1, <2>1, FS_AddElement
    <2>4. ASSUME t \in Quotes PROVE Dated(rows)
      <3>1. r.at \in Nat /\ Dated(db[t])
        BY <1>2, <2>4 DEF Timed
      <3>2. new.record = r
        BY <2>1
      <3> QED BY <2>1, <3>1, <3>2 DEF Dated
    <2>5. Timed([db EXCEPT ![t] = rows])
      BY <2>3, <2>4, TimedTable
    <2> QED BY <2>2, <2>5
  <1>3. ASSUME NEW key, t \notin Quotes
        PROVE  /\ Timed(Upsert(db, t, key, r))
               /\ InsertOnce(db, t, key, r) # Refused => Timed(InsertOnce(db, t, key, r))
    <2>1. PICK kept, rows, more : /\ kept = db[t] \ SameKey(db[t], key, r)
                                  /\ rows = kept \cup {r} /\ more = db[t] \cup {r}
      OBVIOUS
    <2>2. IsFiniteSet(kept)
      BY <1>1, <2>1, FS_Subset
    <2>3. IsFiniteSet(rows) /\ IsFiniteSet(more)
      BY <1>1, <2>1, <2>2, FS_AddElement
    <2>4. Timed([db EXCEPT ![t] = rows]) /\ Timed([db EXCEPT ![t] = more])
      BY <1>3, <2>3, TimedTable
    <2>5. Upsert(db, t, key, r) = [db EXCEPT ![t] = rows]
      BY <2>1 DEF Upsert
    <2>6. InsertOnce(db, t, key, r) \in {[db EXCEPT ![t] = more], db, Refused}
      BY <2>1 DEF InsertOnce
    <2> QED BY <2>4, <2>5, <2>6
  <1> QED BY <1>2, <1>3

\* So does every accepted statement of a unit.
LEMMA TimedWrite ==
  ASSUME NEW db, Tabular(db), Timed(db), NEW write, write.table \in WriteTables,
         write.table \in {"quote", "tradeQuote"} => write.record.at \in Nat,
         NEW statement, Execute(db, write, statement) # Refused
  PROVE  Timed(Execute(db, write, statement))
  <1>1. PICK r, after : r = write.record /\ after = Execute(db, write, statement)
    OBVIOUS
  <1> USE DEF TableNames, Quotes
  <1>2. CASE write.table \in {"observation", "action", "event"}
    <2>1. \/ after = InsertOnce(db, "observations", "frame", r)
          \/ after = InsertOnce(db, "action_requests", "id", r)
          \/ after = InsertOnce(db, "agent_events", "id", r)
      BY <1>1, <1>2 DEF Execute, SaveObservation, SaveAction, SaveEvent
    <2> QED BY <1>1, <2>1, TimedStatements
  <1>3. CASE write.table = "quote"
    <2>1. after = AppendRow(db, "market_quotes", r)
      BY <1>1, <1>3 DEF Execute, SaveQuote
    <2> QED BY <1>1, <1>3, <2>1, TimedStatements
  <1>4. CASE write.table = "tradeQuote"
    <2>1. after = AppendRow(db, "trade_quotes", r)
      BY <1>1, <1>4 DEF Execute, SaveTradeQuote
    <2> QED BY <1>1, <1>4, <2>1, TimedStatements
  <1>5. CASE write.table = "execution"
    <2>1. \/ after = Upsert(db, "trade_executions", "id", r)
          \/ after = AppendRow(db, "trade_execution_history", r)
      BY <1>1, <1>5 DEF Execute, SaveExecution
    <2> QED BY <1>1, <2>1, TimedStatements
  <1>6. CASE write.table = "result"
    <2>1. after = AppendRow(db, "action_results", r)
      BY <1>1, <1>6 DEF Execute, SaveActionResult
    <2> QED BY <1>1, <2>1, TimedStatements
  <1>7. CASE write.table = "runtime"
    <2>1. after = Upsert(db, "runtime_records", "key", r)
      BY <1>1, <1>7 DEF Execute, SaveRuntimeRecord
    <2> QED BY <1>1, <2>1, TimedStatements
  <1> QED BY <1>2, <1>3, <1>4, <1>5, <1>6, <1>7 DEF WriteTables

TInv == Timed(disk) /\ (owner # Nobody => Timed(work))

\* And so does every step of the database.
LEMMA TimedStep == ASSUME SInv, TInv, [Next]_vars PROVE TInv'
  <1>1. ASSUME NEW c \in Callers, RunStatement(c) PROVE TInv'
    <2>1. CASE WriteFails(c)
      BY <1>1, <2>1 DEF WriteFails, Rollback, Return, TInv
    <2>2. CASE ~WriteFails(c)
      <3>1. PICK write, after : /\ write = unit[c].writes[next]
                                /\ after = Execute(work, write, part)
        OBVIOUS
      <3>2. /\ owner = c /\ unit[c] # NoUnit /\ ~(next > Len(unit[c].writes))
            /\ after # Refused /\ work' = after /\ UNCHANGED <<disk, owner>>
        BY <1>1, <2>2, <3>1 DEF RunStatement, Working, AtEnd
      <3>3. unit[c] \in Units /\ owner # Nobody /\ next \in Nat \ {0}
        BY <3>2, NobodyAssumption DEF SInv
      <3>4. next \in DOMAIN unit[c].writes
        BY <3>2, <3>3, UnitsAssumption
      <3>5. /\ write.table \in WriteTables
            /\ write.table \in {"quote", "tradeQuote"} => write.record.at \in Nat
        BY <3>1, <3>3, <3>4, UnitsAssumption
      <3>6. Tabular(work) /\ Timed(work)
        BY <3>3 DEF SInv, Open, TInv
      <3>7. Timed(after)
        BY <3>1, <3>2, <3>5, <3>6, TimedWrite
      <3> QED BY <3>2, <3>7 DEF TInv
    <2> QED BY <2>1, <2>2
  <1>2. ASSUME NEW c \in Callers, Autocommit(c) PROVE TInv'
    <2>1. PICK write, after : /\ write = unit[c].writes[1] /\ after = Execute(disk, write, 1)
      OBVIOUS
    <2>2. /\ unit[c] # NoUnit /\ unit[c].alone /\ owner = Nobody /\ UNCHANGED owner
          /\ disk' = disk \/ (after # Refused /\ disk' = after)
      BY <1>2, <2>1 DEF Autocommit, Waiting, IsStatement, transaction
    <2>3. unit[c] \in Units
      BY <2>2 DEF SInv
    <2>4. 1 \in DOMAIN unit[c].writes
      BY <2>2, <2>3, UnitsAssumption
    <2>5. /\ write.table \in WriteTables
          /\ write.table \in {"quote", "tradeQuote"} => write.record.at \in Nat
      BY <2>1, <2>3, <2>4, UnitsAssumption
    <2>6. after # Refused => Timed(after)
      BY <2>1, <2>5, TimedWrite DEF SInv, TInv
    <2> QED BY <2>2, <2>6 DEF TInv
  <1>3. ASSUME NEW c \in Callers, Commit(c) PROVE TInv'
    <2>1. owner = c /\ owner # Nobody
      BY <1>3, NobodyAssumption DEF Commit, Working
    <2>2. owner' = Nobody /\ (disk' = disk \/ disk' = work)
      BY <1>3 DEF Commit, Rollback, Return
    <2> QED BY <2>1, <2>2 DEF TInv
  <1>4. ASSUME NEW c \in Callers, StatementFails(c) PROVE TInv'
    BY <1>4 DEF StatementFails, WriteFails, Rollback, Return, TInv
  <1>5. ASSUME NEW c \in Callers, CommitFails(c) \/ Panic(c) PROVE TInv'
    BY <1>5 DEF CommitFails, Panic, Rollback, Return, TInv
  <1>6. ASSUME NEW c \in Callers, Begin(c) PROVE TInv'
    BY <1>6 DEF Begin, TInv
  <1>7. ASSUME NEW c \in Callers, (\E u \in Units : Call(c, u)) \/ NeverBegins(c) PROVE TInv'
    BY <1>7 DEF Call, NeverBegins, transaction, TInv
  <1>8. CASE Crash
    BY <1>8 DEF Crash, TInv
  <1>9. CASE UNCHANGED vars
    BY <1>9 DEF vars, transaction, TInv
  <1> QED BY <1>1, <1>2, <1>3, <1>4, <1>5, <1>6, <1>7, <1>8, <1>9 DEF Next, Step

\* A table read as a map has its rows for values; ordered by time they agree.
LEMMA MapsAgree ==
  ASSUME NEW rows, NEW key, Keyed(rows, key)
  PROVE  Memory!Values(ByKey(rows, key)) = rows
  <1>1. PICK map : map = ByKey(rows, key)
    OBVIOUS
  <1>2. DOMAIN map = {row[key] : row \in rows}
    BY <1>1 DEF ByKey
  <1>3. ASSUME NEW row \in rows PROVE map[row[key]] = row
    <2>1. (CHOOSE x \in rows : x[key] = row[key]) = row
      BY DEF Keyed
    <2> QED BY <1>1, <1>2, <2>1 DEF ByKey
  <1>4. Memory!Values(map) = {map[k] : k \in DOMAIN map}
    BY DEF Memory!Values
  <1> QED BY <1>1, <1>2, <1>3, <1>4

\* Both stores order records by what comes before each, and cut the same page.
LEMMA SortedAndPaged ==
  ASSUME NEW before, IsFiniteSet(DOMAIN before), NEW limit \in Nat, NEW offset \in Nat
  PROVE  Paginate(OrderBy(before), limit, offset)
             = Memory!Page(Memory!Sorted(before), limit, offset)
  <1>1. PICK k, list : /\ k = Cardinality(DOMAIN before)
                       /\ list = [n \in 1 .. k |->
                                    CHOOSE x \in DOMAIN before : Cardinality(before[x]) = n - 1]
    OBVIOUS
  <1>2. OrderBy(before) = list /\ Memory!Sorted(before) = list
    BY <1>1, SameCardinality DEF OrderBy, Memory!Sorted
  <1>3. k \in Nat
    BY <1>1, FS_CardinalityType
  <1>4. list = [n \in 1 .. k |-> list[n]]
    BY <1>1
  <1> QED BY <1>2, <1>3, <1>4, PageFacts

\* A list by time and identity, which no insertion order breaks, is the same in both.
LEMMA TimesAgree ==
  ASSUME NEW rows, IsFiniteSet(rows), NEW id, NEW f, f.limit \in Nat, f.offset \in Nat
  PROVE  SelectByTime(rows, id, f) = Memory!ByTimeAndID(rows, id, f)
  <1>1. PICK M : M = {row \in rows : InTime(row.at, f)}
    OBVIOUS
  <1>2. PICK before : before = [row \in M |-> {x \in M : \/ x.at > row.at
                                                         \/ x.at = row.at /\ x[id] > row[id]}]
    OBVIOUS
  <1>3. IsFiniteSet(DOMAIN before)
    BY <1>1, <1>2, FS_Subset
  <1>4. SelectByTime(rows, id, f) = Paginate(OrderBy(before), f.limit, f.offset)
    BY <1>1, <1>2 DEF SelectByTime
  <1>5. Memory!ByTimeAndID(rows, id, f) = Memory!Page(Memory!Sorted(before), f.limit, f.offset)
    <2>1. M = {row \in rows : Memory!InTime(row.at, f)}
      BY <1>1 DEF InTime, Memory!InTime
    <2> QED BY <1>2, <2>1 DEF Memory!ByTimeAndID
  <1> QED BY <1>3, <1>4, <1>5, SortedAndPaged

\* Where no key differs from the prefix in case alone, LIKE and HasPrefix select
\* the same records, and both stores list them in one order.
LEMMA RuntimeRecordsAgree ==
  ASSUME NEW s, Memory!Values(s.runtimeRecords) = disk.runtime_records,
         IsFiniteSet(disk.runtime_records),
         NEW f, f.limit \in Nat, f.offset \in Nat, PrefixIsPlain(f)
  PROVE  ListRuntimeRecords(disk, f) = Memory!ListRuntimeRecords(s, f)
  <1>1. PICK M : M = {row \in disk.runtime_records :
                         /\ f.kind # "" => row.kind = f.kind
                         /\ f.prefix # 0 => <<row.key, f.prefix>> \in Like}
    OBVIOUS
  <1>2. M = {row \in disk.runtime_records :
                /\ f.kind # "" => row.kind = f.kind
                /\ f.prefix # 0 => <<row.key, f.prefix>> \in HasPrefix}
    BY <1>1, PrefixAssumption DEF PrefixIsPlain
  <1>3. PICK before : before = [row \in M |-> {x \in M : \/ x.at > row.at
                                                         \/ x.at = row.at /\ x.key < row.key}]
    OBVIOUS
  <1>4. IsFiniteSet(DOMAIN before)
    BY <1>1, <1>3, FS_Subset
  <1>5. ListRuntimeRecords(disk, f) = Paginate(OrderBy(before), f.limit, f.offset)
    BY <1>1, <1>3 DEF ListRuntimeRecords
  <1>6. Memory!ListRuntimeRecords(s, f) = Memory!Page(Memory!Sorted(before), f.limit, f.offset)
    BY <1>2, <1>3 DEF Memory!ListRuntimeRecords
  <1> QED BY <1>4, <1>5, <1>6, SortedAndPaged

\* The journal of a key, read backwards.
RowsBy(rows, key, k) == {row \in rows : row.record[key] = k}

\* The journal of a key holds the rows of that key, in the order of insertion.
LEMMA HistoriesAgree ==
  ASSUME NEW rows, IsFiniteSet(rows), NEW key, NEW k
  PROVE  LET lines == RowsBy(rows, key, k)
             journal == Memory!JournalOf(JournalBy(rows, key), k)
         IN  /\ journal = InOrder(lines)
             /\ Len(journal) \in Nat /\ (journal = <<>> <=> lines = {})
             /\ ByInsertion(lines) = Reverse(journal)
             /\ \A limit \in Nat : Paginate(Reverse(journal), limit, 0)
                                      = Memory!Page(Memory!Reverse(journal), limit, 0)
  <1>1. PICK lines, map, journal, m :
           /\ lines = RowsBy(rows, key, k) /\ map = JournalBy(rows, key)
           /\ journal = Memory!JournalOf(map, k) /\ m = Cardinality(lines)
    OBVIOUS
  <1>2. IsFiniteSet(lines) /\ m \in Nat
    <2>1. IsFiniteSet(lines)
      BY <1>1, FS_Subset DEF RowsBy
    <2> QED BY <1>1, <2>1, FS_CardinalityType
  <1>3. journal = InOrder(lines)
    <2>1. DOMAIN map = {row.record[key] : row \in rows}
      BY <1>1 DEF JournalBy
    <2>2. CASE k \in DOMAIN map
      BY <1>1, <2>1, <2>2 DEF Memory!JournalOf, JournalBy, RowsBy
    <2>3. CASE k \notin DOMAIN map
      <3>1. lines = {}
        BY <1>1, <2>1, <2>3 DEF RowsBy
      <3>2. journal = <<>>
        BY <1>1, <2>3 DEF Memory!JournalOf
      <3> QED BY <3>1, <3>2, NothingInOrder
    <2> QED BY <2>2, <2>3
  <1>4. DOMAIN journal = 1 .. m /\ journal = [n \in 1 .. m |-> journal[n]]
    BY <1>1, <1>3, InOrderDef
  <1>5. Len(journal) = m
    <2>1. PICK S : S = {journal[n] : n \in 1 .. m}
      OBVIOUS
    <2>2. journal \in [1 .. m -> S]
      BY <1>4, <2>1
    <2> QED BY <1>2, <2>2
  <1>6. journal = <<>> <=> lines = {}
    <2>1. m = 0 <=> lines = {}
      BY <1>1, <1>2, FS_EmptySet
    <2>2. journal = <<>> <=> m = 0
      BY <1>2, <1>4, <1>5
    <2> QED BY <2>1, <2>2
  <1>7. PICK reversed : reversed = Reverse(journal)
    OBVIOUS
  <1>8. reversed = [n \in 1 .. m |-> reversed[n]]
    BY <1>5, <1>7 DEF Reverse
  <1>9. ASSUME NEW limit \in Nat
        PROVE  Paginate(reversed, limit, 0) = Memory!Page(reversed, limit, 0)
    <2>1. 0 \in Nat /\ m \in Nat
      BY <1>2
    <2> QED BY <1>8, <2>1, PageFacts
  <1>10. ByInsertion(lines) = reversed
    BY <1>3, <1>7 DEF ByInsertion
  <1>11. Memory!Reverse(journal) = reversed
    BY <1>7 DEF Memory!Reverse, Reverse
  <1> QED BY <1>11, <1>1, <1>2, <1>3, <1>5, <1>6, <1>7, <1>9, <1>10

\* All of them at once, of tables that are stored as they should be.
LEMMA QueryFacts ==
  ASSUME Stored(disk), Timed(disk)
  PROVE  QueriesAgree
  <1>1. PICK kept : kept = View(disk)
    OBVIOUS
  <1>2. /\ kept.quotes = InOrder(disk.market_quotes)
        /\ kept.tradeQuotes = InOrder(disk.trade_quotes)
        /\ kept.executions = ByKey(disk.trade_executions, "id")
        /\ kept.executionHistory = JournalBy(disk.trade_execution_history, "id")
        /\ kept.actions = ByKey(disk.action_requests, "id")
        /\ kept.actionResults = JournalBy(disk.action_results, "action")
        /\ kept.events = ByKey(disk.agent_events, "id")
        /\ kept.observations = ByKey(disk.observations, "frame")
        /\ kept.runtimeRecords = ByKey(disk.runtime_records, "key")
    BY <1>1 DEF View
  <1>3. \A t \in Quotes : Numbered(disk[t]) /\ Dated(disk[t])
    <2>1. ASSUME NEW t \in Quotes PROVE Sequenced(disk[t])
      BY DEF Stored, AppendOnly, Quotes
    <2> QED BY <2>1 DEF Sequenced, Numbered, Timed
  <1>4. /\ Numbered(disk.market_quotes) /\ Dated(disk.market_quotes)
        /\ Numbered(disk.trade_quotes) /\ Dated(disk.trade_quotes)
    BY <1>3 DEF Quotes
  <1>5. /\ IsFiniteSet(disk.trade_executions) /\ IsFiniteSet(disk.agent_events)
        /\ IsFiniteSet(disk.action_requests) /\ IsFiniteSet(disk.trade_execution_history)
        /\ IsFiniteSet(disk.action_results)
        /\ IsFiniteSet(disk.observations) /\ IsFiniteSet(disk.runtime_records)
    BY DEF Timed, TableNames
  <1>6. /\ Memory!Values(kept.executions) = disk.trade_executions
        /\ Memory!Values(kept.events) = disk.agent_events
        /\ Memory!Values(kept.actions) = disk.action_requests
        /\ Memory!Values(kept.observations) = disk.observations
        /\ Memory!Values(kept.runtimeRecords) = disk.runtime_records
    <2>1. /\ Keyed(disk.trade_executions, "id") /\ Keyed(disk.agent_events, "id")
          /\ Keyed(disk.action_requests, "id") /\ Keyed(disk.observations, "frame")
          /\ Keyed(disk.runtime_records, "key")
      BY DEF Stored, KeyOf
    <2> QED BY <1>2, <2>1, MapsAgree
  <1>7. ASSUME NEW f, f.limit \in Nat, f.offset \in Nat
        PROVE  /\ ListQuotes(disk, f) = Memory!ListQuotes(kept, f)
               /\ ListTradeQuotes(disk, f) = Memory!ListTradeQuotes(kept, f)
    BY <1>2, <1>4, <1>7, QuotesAgree
       DEF ListQuotes, ListTradeQuotes, Memory!ListQuotes, Memory!ListTradeQuotes
  <1>8. ASSUME NEW item, item # 0
        PROVE  /\ LatestQuote(disk, item) = Memory!LatestQuote(kept, item)
               /\ LatestTradeQuote(disk, item) = Memory!LatestTradeQuote(kept, item)
    <2>1. One(item).limit \in Nat /\ One(item).offset \in Nat
      BY DEF One
    <2>2. PICK rows, journal, m : /\ rows = disk.market_quotes /\ journal = kept.quotes
                                  /\ m = Cardinality(rows)
      OBVIOUS
    <2>3. /\ m \in Nat /\ journal = [n \in 1 .. m |-> journal[n]]
          /\ \A n \in 1 .. m : journal[n].at \in Nat
      <3>1. /\ m \in Nat
            /\ \A n \in 1 .. m : \E row \in rows : Place(rows, row) = n - 1
        <4>1. Numbered(rows)
          BY <1>4, <2>2
        <4>2. Cardinality(rows) \in Nat
          BY <4>1, PlacesFacts
        <4>3. \A n \in 1 .. Cardinality(rows) : \E row \in rows : Place(rows, row) = n - 1
          BY <4>1, PlacesFacts
        <4> QED BY <2>2, <4>2, <4>3
      <3>2. journal = [n \in 1 .. m |-> (CHOOSE row \in rows : Place(rows, row) = n - 1).record]
        <4>1. journal = InOrder(rows)
          BY <1>2, <2>2
        <4>2. InOrder(rows) = [n \in 1 .. Cardinality(rows) |->
                                  (CHOOSE row \in rows : Place(rows, row) = n - 1).record]
          BY InOrderDef
        <4> QED BY <2>2, <4>1, <4>2
      <3>3. ASSUME NEW n \in 1 .. m PROVE journal[n].at \in Nat
        <4>1. PICK row : row = CHOOSE x \in rows : Place(rows, x) = n - 1
          OBVIOUS
        <4>2. row \in rows
          BY <3>1, <4>1
        <4>3. journal[n] = row.record
          BY <3>2, <4>1
        <4> QED BY <1>4, <2>2, <4>2, <4>3 DEF Dated
      <3> QED BY <3>1, <3>2, <3>3
    <2>4. Len(journal) = m
      <3>1. PICK S : S = {journal[n] : n \in 1 .. m}
        OBVIOUS
      <3>2. journal \in [1 .. m -> S]
        BY <2>3, <3>1
      <3> QED BY <2>3, <3>2
    <2>5. Memory!NewestFirst(journal, One(item)) = Memory!LatestQuote(kept, item)
      BY <1>8, <2>2, <2>3, <2>4, LatestFacts
    <2>6. LatestQuote(disk, item) = Memory!NewestFirst(journal, One(item))
      BY <1>7, <2>1, <2>2 DEF LatestQuote, Memory!ListQuotes
    <2>7. LatestTradeQuote(disk, item) = Memory!LatestTradeQuote(kept, item)
      BY <1>7, <2>1 DEF LatestTradeQuote, Memory!LatestTradeQuote, One
    <2> QED BY <2>5, <2>6, <2>7
  <1>9. ASSUME NEW f, f.limit \in Nat, f.offset \in Nat
        PROVE  /\ ListExecutions(disk, f) = Memory!ListExecutions(kept, f)
               /\ ListEvents(disk, f) = Memory!ListEvents(kept, f)
               /\ ListObservations(disk, f) = Memory!ListObservations(kept, f)
               /\ PrefixIsPlain(f) =>
                     ListRuntimeRecords(disk, f) = Memory!ListRuntimeRecords(kept, f)
    <2>1. PICK executions, events, observations :
             /\ executions = OfBody(disk.trade_executions, f)
             /\ events = OfBody(disk.agent_events, f)
             /\ observations = {row \in disk.observations : f.state # 0 => row.state = f.state}
      OBVIOUS
    <2>2. IsFiniteSet(executions) /\ IsFiniteSet(events) /\ IsFiniteSet(observations)
      BY <1>5, <2>1, FS_Subset DEF OfBody
    <2>3. /\ executions = Memory!OfBody(Memory!Values(kept.executions), f)
          /\ events = Memory!OfBody(Memory!Values(kept.events), f)
      BY <1>6, <2>1 DEF OfBody, Memory!OfBody
    <2>4. /\ ListExecutions(disk, f) = Memory!ListExecutions(kept, f)
          /\ ListEvents(disk, f) = Memory!ListEvents(kept, f)
      BY <1>9, <2>1, <2>2, <2>3, TimesAgree
         DEF ListExecutions, ListEvents, Memory!ListExecutions, Memory!ListEvents
    <2>5. ListObservations(disk, f) = Memory!ListObservations(kept, f)
      BY <1>6, <1>9, <2>1, <2>2, TimesAgree DEF ListObservations, Memory!ListObservations
    <2> QED BY <1>5, <1>6, <1>9, <2>4, <2>5, RuntimeRecordsAgree
  <1>10. ASSUME NEW k, NEW limit \in Nat
         PROVE  /\ ExecutionHistory(disk, k, limit) = Memory!ExecutionHistory(kept, k, limit)
                /\ ListActionResults(disk, k, limit) = Memory!ListActionResults(kept, k, limit)
    <2>1. /\ ExecutionHistory(disk, k, limit)
              = Paginate(ByInsertion(RowsBy(disk.trade_execution_history, "id", k)), limit, 0)
          /\ ListActionResults(disk, k, limit)
              = Paginate(ByInsertion(RowsBy(disk.action_results, "action", k)), limit, 0)
      BY DEF ExecutionHistory, ListActionResults, RowsBy
    <2>2. /\ Memory!ExecutionHistory(kept, k, limit)
              = Memory!Page(Memory!Reverse(Memory!JournalOf(kept.executionHistory, k)), limit, 0)
          /\ Memory!ListActionResults(kept, k, limit)
              = Memory!Page(Memory!Reverse(Memory!JournalOf(kept.actionResults, k)), limit, 0)
      BY DEF Memory!ExecutionHistory, Memory!ListActionResults
    <2> QED BY <1>2, <1>5, <2>1, <2>2, HistoriesAgree
  <1>11. ASSUME NEW k
         PROVE  LET journal == Memory!JournalOf(kept.actionResults, k)
                IN  /\ Len(journal) \in Nat
                    /\ journal = <<>> <=> ~\E row \in disk.action_results : row.record.action = k
    <2>1. PICK journal, lines : /\ journal = Memory!JournalOf(kept.actionResults, k)
                                /\ lines = RowsBy(disk.action_results, "action", k)
      OBVIOUS
    <2>2. Len(journal) \in Nat /\ (journal = <<>> <=> lines = {})
      BY <1>2, <1>5, <2>1, HistoriesAgree
    <2> QED BY <2>1, <2>2 DEF RowsBy
  <1>12. ASSUME NEW f, f.limit \in Nat, f.offset \in Nat, NEW p \in BOOLEAN
         PROVE  ListActions(disk, p, f) = Memory!ListActions(kept, p, f)
    <2>1. PICK pending : pending = {row \in OfBody(disk.action_requests, f) :
                             p => ~\E result \in disk.action_results :
                                      result.record.action = row.id}
      OBVIOUS
    <2>2. pending = {r \in Memory!OfBody(Memory!Values(kept.actions), f) :
                        p => Memory!JournalOf(kept.actionResults, r.id) = <<>>}
      BY <1>6, <1>11, <2>1 DEF OfBody, Memory!OfBody
    <2>3. IsFiniteSet(pending)
      BY <1>5, <2>1, FS_Subset DEF OfBody
    <2>4. ListActions(disk, p, f) = SelectByTime(pending, "id", f)
      BY <2>1 DEF ListActions
    <2>5. Memory!ListActions(kept, p, f) = Memory!ByTimeAndID(pending, "id", f)
      BY <2>2 DEF Memory!ListActions
    <2> QED BY <1>12, <2>3, <2>4, <2>5, TimesAgree
  <1>13. ASSUME NEW k PROVE ActionResult(disk, k) = Memory!ActionResult(kept, k)
    <2>1. PICK journal : journal = Memory!JournalOf(kept.actionResults, k)
      OBVIOUS
    <2>2. Len(journal) \in Nat /\ ActionResult(disk, k) = Paginate(Reverse(journal), 1, 0)
      <3>1. /\ Len(journal) \in Nat
            /\ ByInsertion(RowsBy(disk.action_results, "action", k)) = Reverse(journal)
        BY <1>2, <1>5, <2>1, HistoriesAgree
      <3> QED BY <3>1 DEF ActionResult, ListActionResults, RowsBy
    <2>3. Memory!ActionResult(kept, k) = IF journal = <<>> THEN <<>> ELSE <<Last(journal)>>
      BY <2>1 DEF Memory!ActionResult, Memory!Last, Last
    <2>4. journal = <<>> <=> Len(journal) = 0
      BY <1>2, <1>5, <2>1, HistoriesAgree
    <2> QED BY <2>2, <2>3, <2>4, LastFacts DEF Last
  <1>14. \A f \in Filters : f.limit \in Nat /\ f.offset \in Nat
    BY FiltersAssumption
  <1> QED BY <1>1, <1>7, <1>8, <1>9, <1>10, <1>12, <1>13, <1>14 DEF QueriesAgree

\* Every list and the latest quote and result, as the database answers them, are
\* what Memory answers for the same records, with all conditions, bounds of time
\* and pages (the WHERE, ORDER BY and LIMIT clauses of sqlite.go against the loops
\* and sorting of memory.go); a list by a key prefix, where case alone sets no key
\* apart from the prefix.
THEOREM QueriesTheorem == Spec => []QueriesAgree
  <1>1. Init => TInv
    <2>1. \A t \in TableNames : NoRows[t] = {}
      BY DEF NoRows, TableNames
    <2>2. Quotes \subseteq TableNames
      BY DEF Quotes, TableNames
    <2>3. Timed(NoRows)
      BY <2>1, <2>2, FS_EmptySet DEF Timed, Dated
    <2> QED BY <2>3 DEF Init, TInv
  <1>2. SInv /\ TInv /\ [Next]_vars => TInv'
    BY TimedStep
  <1>3. SInv /\ RInv /\ TInv => QueriesAgree
    BY QueryFacts DEF RInv, TInv
  <1>4. Init => RInv
    BY NothingFacts
  <1>5. RInv /\ [Next]_vars => RInv'
    BY RefinementFacts
  <1> QED BY <1>1, <1>2, <1>3, <1>4, <1>5, Invariance, PTL DEF Spec
=============================================================================

# Arena trading agent: TLA+ models, checks and proofs

The program is a Go controller (`src/cmd/controller`) that drives a game client
through a small agent on Windows (`src/cmd/windows-agent`). It reads the game's
market from screenshots, computes trades that should pay, and executes them step
by step: buy, exchange with a contact, list, wait for the sale. Nothing it does
in the game can be undone or queried afterwards, so the code is built around one
fear: spending the same money twice, or losing track of what was bought.

The modules here model the parts of the program on which that depends. They are
translated from the Go sources; every definition that models code is tied to its
lines in `PROJECT.json` ("map").

## 1. Inventory of the system

| Component (src/internal/…) | State | Operations | Status |
|---|---|---|---|
| Trade workflow: `trading/transitions.go`, `trading/types.go`, `reconciliation` | one saga: status, step, progress, attempt, money, holdings, order, compensation, version | the four kinds of event; settlement against the plan | modelled: `Saga` |
| Trading service: `trading/service.go`, quantities of `inventory/tracker.go` | sagas and processed events by execution, active saga, inventory | Begin, Apply, SynchronizeInventory, Checkpoint, Restore, Next | modelled: `TradeService` |
| Input gate: mode, epoch and locks of `controller/server.go`, `controller/broker.go` | mode, safety epoch, transition mutex, read/write gate, registered sends, write slot of the connection | SetModeContext, pause, safety events, RequestAction up to the write | modelled: `InputGate` |
| Automation engine: `automation/engine.go`, with what it needs of `runner.go`, `router.go`, `controller/audit.go` | engine snapshot with the block, active saga, checkpoints, action journal | tick in TRADE, driving a saga, stop for reconciliation, AuthorizeMode, Recover | partly: `TradeEngine`, `MonetaryLedger` |
| Trade runner and router: `automation/runner.go`, `router.go`, `order_monitor.go` | last order snapshot | walk to a screen, read values, one monetary click, read again, build the event | partly: the router in `Navigation`, the rest as the environment of `TradeEngine` |
| Controller connection: registration and correlation in `controller/server.go`, `broker.go` | current connection, pending requests by ID, emergency flag | register, unregister, request, deliver, shutdown | partly: `AgentLink`, without frames, windows and heartbeats |
| Agent: `agent/client.go`, `safety.go` | action tombstones, result cache, seen-filter, emergency channel, stopped flag | dial, reserve, run, remember, answer; emergency stop | partly: `AgentLink`, without captures, heartbeats and the outbox |
| Agent's executor: `agent/runtime.go`, `tracking_capture.go` | last frame, action under way | verify, begin input, driver calls, control frame | partly: `ActionAgent`, without the resumable pause |
| Navigation: `navigation/navigator.go`, `executor.go` | graph of transitions | path by class, path for a commit; act, observe, retry | modelled: `Navigation` |
| Session coordinator: `session/coordinator.go` | last observation, observation lock, last preflight | Observe, ObserveAfter, Preflight, AuthorizeMode | partly: observations in `Navigation`, the preflight in `AgentLink` and `InputGate` |
| Observation: `observation/*.go` | none | detector, OCR with consensus, model; merge and validate | not modelled: a stateless function; its result is an input |
| Inventory tracker slots and reservations: `inventory/tracker.go` | quantities, slots, reservations | Replace, Apply, Reserve, Release | quantities in `TradeService`; slots left out; Reserve and Release have no caller |
| Planning: `opportunity`, `economy`, `risk`, `money` | none | find, score and check opportunities; checked arithmetic | modelled: `Planning` |
| Repository: `repository/sqlite.go`, `memory.go` | tables, the connection | units of work, saves that may conflict, ordered lists | partly: `RecordStore`, `SQLiteStore`; without migrations and getters of single rows |
| Scanners: `automation/scanners.go`, `extract.go`, `market_metrics.go` | none beyond the store | account, market and contact scans | not modelled |
| Acceptance report: `acceptance/report.go`, `cmd/acceptance-report` | none | checks a finished run from the database | not modelled |
| Configuration: `config` | none | load, defaults, validate | not modelled: one pass over a file; its limits appear as CONSTANTS |
| Protocol, domain types: `protocol`, `domain`, `trade` | none | encoding and validation of messages | not modelled on their own: records of the other modules |
| Vision, detection, recording: `vision`, `detection`, `recording` | buffers, files | HTTP clients of OCR and language model, template matching, frames on disk | not modelled: numeric or pure I/O |
| Windows drivers: `platform/windows` | handles | capture, input, hotkeys | not modelled: system calls |
| Dashboard, APIs, quality tests, `cmd/*`, `services/ocr`, `scripts`, `deploy`, `configs` | none | presentation, wiring, deployment | not modelled |

### How the parts interact

`cmd/controller/main.go` builds everything, calls `Engine.Recover` before the
HTTP server listens, and then lets three kinds of goroutine run:

* the **engine** (`Engine.Run`), one goroutine: each tick reads the mode and, in
  TRADE, lets the runner perform one directive of the active saga, applies the
  event to the service and saves a checkpoint;
* **HTTP handlers**, which change the mode. For SCAN and TRADE the gate is closed,
  a preflight runs (coordinator, then `Engine.AuthorizeMode`, which audits the
  database), and the gate opens if no safety event came between;
* **websocket readers**, one per connection of an agent: they journal
  ACTION_RESULT, pause on AUTOMATION_PAUSED, EMERGENCY_STOP, a lost or replaced
  connection, and hand responses to whoever waits.

A monetary action goes runner → router → navigation → `Server.RequestAction`,
which writes it to the journal, passes the gate and writes to the websocket. Its
result comes back on the reader, is journaled, and wakes the caller. The
checkpoint that names the action is saved by the engine two steps later. Between
any two of these the process may die.

### What makes each part correct

* Saga: holdings and money follow from the accepted events; no purchase above
  the plan; FAILED only when nothing was spent; a closed trade holds nothing.
* Service: one live trade; a redelivered event changes nothing and a fresh one
  is never taken for a redelivery; the inventory covers what the saga holds;
  what is saved can be restored and means the same; finished is final.
* Gate: after a pause returns, no write that was allowed before is under way; an
  opening needs a preflight no pause has overtaken; nobody waits forever.
* Engine: a monetary action is issued once per directive and only when all
  earlier ones are in a saved checkpoint, across crashes, failed saves, lost and
  late answers; a block survives restarts.
* Connection and agent: an identifier is clicked at most once whatever is sent
  again; an answer is about the action it was asked for; a stop of the agent
  always ends in a paused controller.
* Navigation: a shortest path that spends no money on the way; a retry never
  repeats an input; money only on the values that were checked.
* Planning: exact amounts, plans that can be carried out, cheapest trees, limits
  that hold when the trade begins.
* Repository: a unit of work as a whole or not at all, what was acknowledged is
  kept, and the database answers like the in-memory store.

The list of hazards, each at its line, is in `PROJECT.json` ("hazards").

## 2. Modules

| Module | Contents | Code |
|---|---|---|
| `Saga` | values, plans, saga, acceptance and effect of each event, strict validation of a checkpoint; no variables | `trading/transitions.go`, parts of `service.go`, `reconciliation.go` |
| `TradeService` | state machine of the service, one action per method, with a caller that saves, crashes, restores and redelivers | `trading/service.go` |
| `InputGate` | goroutines stepping through SetModeContext, closeInputGate, RequestAction and sendRequest | `controller/server.go`, `broker.go` |
| `MonetaryLedger` | abstract: issue and account for monetary actions | the promise of `docs/operations.md` and of the audit |
| `TradeEngine` | the engine goroutine, the operator's request, the journal, the checkpoints, crashes; implements `MonetaryLedger` | `automation/engine.go`, `runner.go`, `controller/audit.go` |
| `AgentLink` | the sockets, the agent's client with its memory of actions and its latched stop, the controller's connections, pending requests and mode | `agent/client.go`, `agent/safety.go`, `controller/server.go`, `broker.go` |
| `ActionAgent` | the agent executing one action on a screen that changes by itself | `agent/runtime.go`, `tracking_capture.go` |
| `Navigation` | one route: choosing the path, validating, walking it; extends `ActionAgent` | `automation/router.go`, `navigation/*.go`, `session/coordinator.go` |
| `RecordStore` | abstract: maps, journals and whole units of work; it is what `Memory` does | `repository/memory.go`, `repository.go` |
| `SQLiteStore` | transactions of statements on one connection, failures and crashes; implements `RecordStore` | `repository/sqlite.go` |
| `Planning` | the finder's recursions, checked arithmetic, risk limits, Evaluate and Begin | `opportunity`, `money`, `economy`, `risk`, `trading/service.go`, `automation/engine.go` |
| `SagaFacts` | lemmas about the operators of `Saga` | |
| `TradeServiceProofs` | inductive invariant and theorems of `TradeService`: its sagas, then its processed events | |
| `InputGateProofs` | locks and writes of `InputGate` | |
| `TradeEngineProofs` | invariants of `TradeEngine`; it implements `MonetaryLedger` | |
| `AgentLinkProofs` | memory, clicks and answers of `AgentLink` | |
| `NavigationProofs` | the walk and the search of `Navigation`, with `ActionAgent` | |
| `SQLiteStoreProofs` | durability of `SQLiteStore`; it implements `RecordStore`; checkpoints; equal queries | |
| `PlanningProofs` | arithmetic, plans, costs and limits of `Planning` | |
| `MC*` | instances for TLC | |

### Saga and TradeService

The variables are the fields of `Service` (`sagas`, `processed` for
`sagaState.processed`, `activeID`, `inventory`) and the caller's `store` of
checkpoints. A method runs under the service's mutex, so it is one action.
`Accepted` collects the early returns of `Apply` and the transition functions,
`Transition` the new saga, `Stamp` what every accepted event gets. A refused
event changes nothing and is not an action. The environment is as free as the
code leaves it: an outcome is any of a set, whatever the plan says, and the time
and the monetary action are arbitrary. Event identifiers are those of the runner
(step, attempt, suffix).

A canonical plan carries the running total of its purchases (`ceiling`), so that
its input cost needs no recursion; `CanonicalPlan` says what that total is.

Abstracted: steps are numbered from 1; messages, timestamps inside records, the
reconciliation report beyond its verdict, and slot counts (`Tracker` slots) are
left out. Begin's risk checks are the choice of `Plans`. Identifiers are never
blank. int64 overflow refuses the event in the code (`money.Add`), which here is
the absence of a step.

### InputGate

`pc[t]` is a goroutine's next access to shared state; there is one action for
each. `sync.RWMutex.Lock` is two: announcing (after which no reader enters) and
draining. `TakeConnection`/`StartWrite` are the two looks `agentConnection.send`
takes at its context. A call of `RequestAction` ends when its write ends; waiting
for the response holds none of these locks. Requests for frames and windows pass
no gate and only share the write slot; the timeout of a write covers them.

### TradeEngine

The engine goroutine is a program counter: `idle`, `run` (the tick read TRADE and
no block), `send`, `await`, `apply`, `save`, and the three steps of
`stopForReconciliation`. The operator's request is another one (`authPc`),
whose steps interleave: SetModeContext serialises requests, so one is enough. The
journal records each action as requested, then success, failure or unsent. A
write to the database may fail; a read does not. A crash keeps the store, the
journal and what was already sent. `sent` is history: what may have reached the
agent.

### AgentLink

Three places hold state: the agent (tombstones in `actions`, cached `results`, the
`seen` filter, `job` for each connection's `actionLoop`, the latched `stopped`),
the sockets (`down`, `up`, `broken`; a break loses any suffix in each direction),
and the controller (`current`, `closed`, `pending`, `emergencyStopped`, `mode`).
`HandleKnown`, `HandleRefused` and `HandleNew` are the three outcomes of
`reserveAction`; tombstones and results are evicted in the order of the code, and
the seen-filter is a set of classes of identifiers it cannot tell apart. An
action under way survives the connection that asked for it, as `runConnection`
waits for its loops after a read error only. `Retire` is what `register` does to
the connection it replaces and `unregister` to the one it removes, after the
table changed. A click and the check of the gate are one step each here; their
own steps are in `ActionAgent` and `InputGate`.

### ActionAgent and Navigation

A frame is a screen, a value in its critical regions and a number. The detector
names the screen it sees or `Unknown`, which stands for UNKNOWN and for a low
confidence; that it never names another screen with confidence is an assumption
about the game and the templates. `captureMu` keeps other captures out of an
action, so they are actions of their own only while none runs. `DriverCall` may
leave any screen behind; `Drift` changes it without input. `Abort` stands for
every error of the route's own side (context, gate, lost answer), after which the
agent goes on with what it was asked to do. The search for a path takes one node
off the queue per step (`TakeNode`) and then follows one edge per step in the
order of the declaration (`FollowEdge`), so that `ShortestSafeRoute` compares it
with a definition that knows no queue.

### RecordStore and SQLiteStore

A record keeps what a key, an order or a comparison reads. A unit of work is a
sequence of writes, part of which may be in a nested `WithinTransaction`, which
may fail, and whose error the unit may ignore. `SaveExecution` is two statements.
`View` maps tables to the maps and journals of `Memory`; with it the database
implements `RecordStore` (`ImplementsMemory`), that is, every commit is one whole
unit of work run on what the units before it left. SQLite itself is external: a
commit is durable or fails and leaves nothing.

`Stages` is the private copy of `Memory.WithinTransaction` after each write of a
unit. `CheckpointsAssumption` says what the engine does: a checkpoint and its
execution are saved by one unit of `persistSaga` (`PersistsSaga`), and nothing
else saves either. The other runtime records (snapshots of the engine, the
scanners and the coordinator, by `saveJSON`) have keys of their own; one of them
is in the instance. The executions of the workflow of package `trade` have
identifiers of their own and no checkpoint.

### Planning

One state of the input is a set of quotes, recipes, limits and an account, as
`indexQuotes` and `indexRecipes` accept them (`InputsAssumption`); the finder is an
operator over it. The two functions of its recursion call each other one level
down, so the recursion is one function over the depth: `BestAcquisition[d]` answers
every request (item, quantity, recipes under way, expansions used so far) by
`AcquireWithRecipe`, which asks `BestAcquisition[d - 1]`. The loops of the code are
recursive functions over a position: `Gather` over the ingredients, `Cheapest` over
the recipes, `CheckedSum` over the summands of `money.Add`. Items are numbered in
the order of their identifiers, `1 .. NumItems`, which is the order
`aggregateIngredients` sorts by; what a recipe does not need it needs 0 of.
Arithmetic wraps at `MaxInt`, and the checks are those of package `money`, so
that an overflow they miss would show. Floating-point scores decide only the
ranking: any candidate may be first. `Evaluate` and `Begin` are two actions with
time between them. Three things a reader may not expect follow the code: only
bought items count as slots (`finder.go` 648); a batch made for one ingredient is
not shared with another, so "cheapest" is over trees; and one overflow or one
search past its limit leaves no opportunity at all.

## 3. Runs

| Run | Instance | Question |
|---|---|---|
| `service_barter` | 1 contact barter, 4 actions, 1 restart | types; cost within the plan; FAILED spent nothing; closed trades hold nothing |
| `service_flip` | 1 direct flip, partial steps, moving clock | the saga is the sum of its facts; answers have fresh identifiers; any checkpoint restores |
| `service_two` | 2 executions, 2 actions, 1 restart | one live saga; holdings in the inventory; finished is final; history is durable |
| `service_attempts` | limit of 4 attempts | *violation*: the audit cannot read a checkpoint with a third retry |
| `gate` | 3 goroutines, 3 calls, PAUSED and OBSERVE as safe modes, fairness | writes across the gate; pauses and preflights; every call returns |
| `gate_epoch` | 2 goroutines, 2 calls | *violation*: a pause between epoch check and opening is overwritten |
| `engine` | 2 executions, each a flip or a barter, 4 actions, 2 crashes, 3 requests | refinement of the ledger; block is permanent; mismatch ends trading; one unfinished checkpoint; nothing leaves while blocked |
| `link_safety` | 2 identifiers, 3 requests, 2 connections, memory for 1 action | the memory is consistent; at most one click; answers are true |
| `link_stop` | 1 request, 2 connections, user, controller or a failure as stoppers, fairness | a stop of the agent ends in a paused controller |
| `navigation` | 5 graphs of 3 screens, 1 retry, 2 drifts, 3 frames of others | shortest safe path; one input per transition; money on accepted values; stop within an action; success is complete |
| `repository` | 2 callers, 16 units, 3 calls, 1 failure, 1 crash, fairness | refinement of the in-memory store; equal queries; durability; checkpoints; every call returns |
| `planning` | 4 items, all subsets of 5 recipes, integers up to 63, depth 3, 8 expansions | exact amounts; executable plans; cheapest trees; limits when a trade begins |

Bounds. `MaxActions` is the number of monetary clicks in a behaviour: a barter
needs three and a flip two, so four leave room for a partial purchase and its
retry, or for the second trade. `MaxRestarts`/`MaxCrashes`: one crash shows a lost
step, two show that what recovery saved is itself recovered. `MaxStepAttempts` 2
allows the single retry that separates the first attempt from the last.
`MaxCalls` 3 on three goroutines
of the gate is enough for a sender, an opener and a pause at once, or two pauses
around an opening. In `link_safety` an agent that remembers one action has to
evict for the second and sees the third request for either again, and two
connections make a lost answer, a replacement and an action that outlives its
socket; `MaxWaiting` 1 is the engine, which asks for one monetary action at a time
(a request that timed out waits no longer, so its late answer meets the next one).
In `navigation` one retry separates a first attempt from a second, and two
drifts change the screen and change it back. In `repository` three units on two
callers make a conflict, a tie of times and a queue for the connection; one
failure lands on every statement in turn. Its filters ask for an item, a screen, a
body, a kind or a key prefix, with bounds of time and pages; one prefix differs from
a key in case alone, so the condition of `QueriesAgree` is needed and is met. In `planning` the recipes hold a chain
of depth three, two recipes for one item, a batch that does not come out even, a
cycle and an ingredient listed twice, and prices reach past the width of the
integers. Outcomes are chosen so that each check in the
code has a value that passes and one that fails: whole, partial and empty steps,
a price above its limit, a surplus, an exchange of more than is held, a listing
on another order, a disposal. Executions are interchangeable, and so are
goroutines, hence the symmetry sets; runs with liveness or one execution do
not use them. `link_safety` has a view that leaves out the history variable of
`StopIsHeeded`, which no guard reads and no property of that run either.

`CHECK_DEADLOCK FALSE` everywhere: trades end, calls and crashes are bounded, and
a quiet system is a legal end. Lock deadlocks are what `CallsReturn` and
`EveryCallReturns` exclude. `TradeService`'s caller restores unfinished checkpoints
only (`RestoreLive`), because `Engine.recover` skips the finished ones
(`engine.go` 716).

### Fairness

`gate`: weak fairness on `Step(t)`: a goroutine that can go
on, does; a write ends by itself, by cancellation or by its deadline
(`withDefaultTimeout` gives every request one). Strong fairness on `Acquire(t)`:
`sync.Mutex`, `sync.RWMutex` and channel sends hand over to waiters, so somebody
who can take a lock again and again eventually does. No call has to be made:
`Start` has no fairness. The preflight is assumed to return, as its context is
that of an HTTP request to the local server.

`link_stop`: weak fairness on dialling, on noticing a broken socket, on each loop
that takes a message or the emergency signal, and on registering, removing and
retiring connections: each is a goroutine whose next step nothing but itself
disables. No socket has to break, nobody has to call, no action has to run.
`StopIsHeeded` excuses one case, `overtaken`: the race of `gate_epoch`, which can
open the gate over the very pause of the stop.

`repository`: weak fairness on the steps of a unit of work; the pool serves
waiters in their order, and in the model the calls are bounded, so nobody is
overtaken for ever. Failures, panics and crashes have no fairness.

## 4. What the checks show against the text of the repository

* `service_attempts`. `strategy.max_step_attempts` may be 1..100
  (`config/validate.go` 183), but `MonetaryActionIDs` "validates a durable
  checkpoint" with a limit of 3 (`service.go` 1062), and both the audit
  (`engine.go` 807) and the acceptance report use it. A third retry makes the
  checkpoint unreadable for the audit, and TRADE is refused from then on.
* `gate_epoch`. `SetModeContext` promises that "any safety transition invalidates
  the result before the action gate can reopen" (`server.go` 687–689). A pause may
  bump the epoch after the check at 720 and publish PAUSED before 723, which then
  sets SCAN or TRADE over it. The pause has not returned at that point
  (`ReturnedPauseHolds`), yet when it does, the mode is TRADE.

## 5. Proofs

Everything below is proved by TLAPS for every value of the constants that
satisfies the named assumptions: no bound on executions, items, goroutines,
connections, graphs, callers, events, actions, crashes or restarts is used. Each
argument is an inductive invariant, which TLC checked on the instance of the run
before it was proved, and the properties follow from it.

| Component | Assumed of the constants | Properties proved |
|---|---|---|
| `TradeService` | plans canonical, at least one attempt, observed values of their types, "nothing" values distinct | `TypeOK`, `OneActiveSaga`, `HoldingsInInventory`, `BudgetCoversCost`, `FailedSpentNothing`, `ClosedTradeIsWhole`, `TerminalIsFinal`, `FactsExplainSaga`, `AnswerIsNew`, `CheckpointsReplay`, `DurableHistory` |
| `InputGate` | the safe modes are OBSERVE, SIMULATE and PAUSED, PAUSED among them | `TypeOK`, `WriteAllowedOrDoomed`, `NoWriteAcrossTheGate`, `ReturnedPauseHolds` |
| `TradeEngine` | plans canonical, outcomes and sales of their types | `TypeOK`, `OneUnfinishedCheckpoint`, `BlockIsForever`, `BlockedSendsNothing`, `NothingAfterMismatch`, `OnceAndAccounted` (refinement) |
| `AgentLink` | positive limits, finitely many identifiers, any filter that maps identifiers to classes | `MemoryIsSound`, `ClickedOnce`, `AnswersAreTrue` |
| `Navigation` with `ActionAgent` | graphs as `navigation.New` accepts them | `OneInputPerTransition`, `MoneyOnAcceptedValues`, `StopsMidSequence`, `SuccessIsComplete`, `ShortestSafeRoute` |
| `SQLiteStore` | every unit is a sequence of writes to known tables, a Save call alone is one write; checkpoints are saved by `persistSaga` only; times of quotes, limits and offsets are natural numbers; a key that begins with a prefix is LIKE it | `AcknowledgedIsDurable`, `CheckpointMatchesExecution`, `QueriesAgree`, `ImplementsMemory` (refinement) |
| `Planning` | quotes and recipes as the finder indexes them (no negative price, no recipe without ingredients, identifiers unique); limits, balance and times are integers | `AmountsAreExact`, `PlansAreExecutable`, `MultistepIsCheapest`, `BegunWithinLimits` |

**TradeService, one saga.** `TradeServiceProofs!IInv` is `TypeOK` with

* `Filed`: the saga stored under an execution, in memory or in the store, carries
  its identifier, so an event for one execution cannot touch another;
* `SoundSagas`: every saga in memory and in the store satisfies `SagaInv` of
  `SagaFacts`, which ties the status to the rest: the position within the plan
  (`Positioned`), `cost <= Allowance`, no order before the listing
  (`EarlyIsUnlisted`), FAILED spent nothing, closed trades hold nothing.
  `Allowance` is the ceiling of the steps done plus limit price times progress on
  the current one. The budget alone would not be inductive: it does not say how
  much of it the later steps may still use;
* `OneActiveSaga` and `HoldingsInInventory`, the properties themselves;
* `SavedHoldings`: a live checkpoint carries an inventory that covers its saga,
  which is what `Restore` brings back;
* `SavedIsFinal`: a saga saved as finished is the one in memory, or is not loaded,
  so a later save cannot replace it by another.

`SagaFacts` holds the lemmas: what each event's acceptance implies and that its
effect preserves `SagaInv` (`AfterFacts`).

**TradeService, its records.** `TradeServiceProofs!HInv` adds `Recorded`: the
processed events kept with a saga, in memory and in each checkpoint, are its
`History`. Every event was acceptable where it stands and left the snapshot beside
it; the last one left the saga. Every identifier is `Used`, that is, of a
directive the saga is past, which makes the next one free (`AnswerIsNew`). And the
saga is the sum of the events (`Tallied`): in addition to the property
`FactsExplainSaga` this needs that no event is of a later step than the saga and
that before a listing nothing was received, or the totals of the current step
would not carry over to the next. A checkpoint's history is a beginning of the one
in memory (`Continues`), hence `DurableHistory`.

**InputGate.** Who holds which lock at each program counter (`TypeOK`,
`TransitionHeld`), that a cancel function somebody copied belongs to a write still
registered (`StopsAreGuarded`), that whoever is about to raise the mode has no
reader beside it (`OpenAlone`), and that epochs are remembered only after they
were reached (`EpochsReached`). Without these a write could pass between the
collection of the cancel functions and their calls.

**TradeEngine.** The chain from the journal over the checkpoints to the progress
of a saga. An action some checkpoint covers succeeded, and was sent for a directive
of that very trade that the trade is past (`AllExplained`); so no directive is
issued twice. While TRADE is on, or about to be, every other action that may have
left is in a checkpoint, except the one the running tick has in hand (`Settled`,
`InHand`, `LiveIsStored`). `Blocks` says where the engine may stand while it is
blocked. `Refinement` then maps each step to a step of `MonetaryLedger`: `Send`
issues, `SaveSaga` accounts, all others stutter.

**AgentLink.** At most once is a hand-over: while an action is under way its
tombstone stays, as only finished ones are queued for eviction (`Running`), and
before the tombstone may go the identifier is in the seen-filter, which forgets
nothing (`Memory`, `Recorded`). An answer is decided after the input, for an
identifier that is never run again, so it stays true (`Truthful`) wherever it is:
in the job, in the retained results (`Kept`), on the sockets (`Sent`), with the
callers (`Delivered`). The limits enter by lemmas about cardinalities of finite
sets.

**Navigation.** The route and the agent meet in `HandOver`: what is asked for is
the transition the route is at, none of whose input was begun, and what is answered
says whether it was (`Finished`). `Checked` follows the accepted values from the
frame of the validator to the frame of the request. The search has an invariant
of its own, `Breadth`: the queue is sorted by distance and holds two distances at
most (`Sorted`), nothing lies nearer than its path says (`Nearest`), all states up
to the distance of the node were seen (`Swept`), and every edge of a state seen is
still to be followed or is harmless (`Accounted`). `NoRouteTheorem` says more than
the run can: a search that gives up proves that there is no safe route of any
length.

**SQLiteStore.** The open transaction has begun from the committed tables and,
unless it is doomed, holds every write it has passed (`Open`). From this follow
`AcknowledgedIsDurable` and `RowsStay`: no step takes back a committed row.

For the refinement, `Stored` says what makes tables stand for maps and journals:
keys are unique, and the sequence numbers of a table are 1 to the number of its
rows, of which a row's place in the order is a consequence (`PlacesFacts`). Each
statement is then compared with the Save call it belongs to; the first statement
of `SaveExecution` corresponds to nothing by itself, so `Midway` says that between
the two the second would lead to the next stage. Otherwise the open transaction is
at stage `next - 1` of its unit, run on the committed tables, which nobody changes
while the connection is taken; hence `Commit` is
`WithinTransaction` of the whole unit, `Autocommit` that of one Save call, and
every other step stutters. That a doomed unit is never committed is what `failed`
is for.

`CheckpointMatchesExecution` is proved of `RecordStore`'s steps, where a unit
happens at once: `Resumable` also says that an execution with a checkpoint has a
history, and a unit that touches either is `persistSaga`'s, by the assumption.

`QueriesAgree` is a fact about the refinement mapping. Both modules order by rank:
the n-th of the list is the one with n - 1 before it (`OrderBy` for the ORDER BY
clauses, `Sorted` for the sorting of `memory.go`), which is a list because times
with sequence numbers, or with identifiers, break every tie. Rows and lines of the
journal they stand for correspond one to one, in order (`IsoFacts`), so the
lists are the same, and a page of one is a page of the other. `LatestQuote` of the
memory is one pass over the journal without sorting; `BestFacts` and what follows it
show by induction that it ends at the first of the sorted list. `TInv` adds what the
comparisons need: finite tables and times that are numbers. Negative limits and
offsets are errors in both (`repository.go` 133, `sqlite.go` 1511) and no filter
has them. The lists of observations, executions, actions, events and runtime
records select from sets of rows that are the values of the maps (`MapsAgree`) and
sort alike (`SortedAndPaged`). One list differs in the code: `ListRuntimeRecords` by a
key prefix is `key LIKE` in the database, blind to the case of ASCII letters
(`sqlite.go` 1192), and `strings.HasPrefix` in the memory (`memory.go` 753). `Like`
and `HasPrefix` are constants, sets of pairs of a key and a prefix, and the property
asks for equal lists where no stored key differs from the prefix in case alone
(`PrefixIsPlain`). Elsewhere the database answers more; nothing but the tests asks by a
prefix (the audit asks by kind, `engine.go` 787).

**Planning.** Here the state machine is small and the operators are the matter.
`PlanningInvariant` says of every plan found that it is `Worth`: `Exact`,
`Executable`, `Accounted` (its age and its slots are those of all that it is made
of) and `LeastWay`. From below:

* `AddFacts`, `MultiplyFacts`: an operation of package `money` is exact or gives no
  amount. For `Multiply` this is the argument that a wrapped product divided by one
  factor never gives back the other;
* what a list of steps spends, holds and exchanges is added up along concatenation
  (`SumSplit`, `HeldConcat`, `FeasibleConcat`), because `Brings` says more than the
  property: carried out with anything at hand, the steps are possible and leave no
  less, plus the gains, of which a surplus of a batch may be part. With empty hands
  only, the plan of the second ingredient would say nothing about hands that hold
  the first;
* `Sound` relates one depth of the search to one depth of the reference costs: what
  is found can be carried out, and its cost is in the set and a least element of it;
  `Unavailable` means that the set is empty. `GatherFacts` carries it through the
  ingredients (the least sum is the sum of the least), `CheapestFacts` through the
  recipes, `DepthFacts` through the depths. The number of expansions plays no part:
  a search past its limit is an error, and an error leaves no plan;
* `OpportunityFacts` adds the listing and the sums of the sale, `FindFacts` collects
  the plans. `NextKeeps` then has only the limits left: what `RiskAccepts` says of
  the oldest quote and of `BeginLimits` holds of every quote, of the balance and of
  the budget.

Induction. The library's induction theorems have an operator as parameter, which
the provers cannot instantiate; `NatFacts` is induction over the naturals for a
set instead, derived from the well-foundedness of strict inclusion on finite sets.
The running totals of `FactsExplainSaga` (a recursive function over the history),
the lengths of routes in the search and all loops of `Planning` rest on it; a
recursive function is a CHOOSE, and for each of them a lemma (`GatherLoop`,
`CheapestLoop`, `DepthLoop`...) shows by induction that there is one to choose.

Only model-checked: liveness (`CallsReturn`, `StopIsHeeded`, `EveryCallReturns`),
as fairness is out of the prover's reach.

## 6. Not modelled

`TradeEngine` leaves out SCAN and SIMULATE, which issue no monetary action, and
the scans that precede a trade, whose failure ends the tick (`EndTick`). The
runner's own reading of the screen is its environment: it confirms an outcome, or
it does not. When the candidate with the highest score is refused by `Begin`, the
tick ends in an error and the next one tries the same again (`engine.go` 437);
`Planning` has the refusal, not the repetition. `driveSaga`'s branch for a finished
saga (`engine.go` 464) is left out: it is unreachable while the engine is not blocked. Reads of the database
that fail are left out; in `Recover` they block, which is the safe side. The
parts of the inventory marked "not modelled" have no state of their own that
interleaves with anything, or are drivers and numeric code where a model checker
adds nothing.

`AgentLink` leaves out heartbeats (their loss ends in a broken socket, which
`Break` is), requests for frames and windows (they wait like actions and change
nothing), AUTOMATION_PAUSED (a pause the user may lift) and the acknowledged
events. `SQLiteStore` leaves out migrations, which run before anybody calls, and
the getters of single rows, and takes the columns a list compares for equality
together as the body (`OfBody`). `TradeEngine`'s `JournalAction` reads the mode in the
step that writes the journal; a frame that `Navigation`'s agent accepts is the last it
sees before the input, and the screen may change in between. Observation consensus, the scanners and the
acceptance report are sequential passes without state between calls.

Known and without a property: a retry at the last allowed attempt is refused by
`Apply` and the engine then blocks (`transitions.go` 173); an exchange with a
surplus is accepted though no settlement can match it (`service.go` 1140); a
clock that steps back refuses a verified result (`service.go` 472). In all three
the engine stops, which `TradeEngine` contains, and no text of the repository
promises otherwise. Slot counts of the tracker (`tracker.go` 139) are left out.

## 7. Plan

Done: every module of section 2 and their runs; every invariant and every action
property that a passing run checks, and both refinements, as theorems. Left: the scanners
and the acceptance report, should they ever keep state between calls.

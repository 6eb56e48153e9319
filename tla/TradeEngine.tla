----------------------------- MODULE TradeEngine -----------------------------
(***************************************************************************)
(* automation.Engine around a saga: the scheduling goroutine that executes *)
(* directives and saves checkpoints, the action journal the controller     *)
(* keeps beside them, the audit that compares the two, the operator who    *)
(* asks for TRADE, and crashes of the process at any point.                *)
(*                                                                         *)
(* The saga and its transitions are those of module Saga; of the processed *)
(* events a checkpoint keeps only the monetary actions they are bound to,  *)
(* which is all the audit reads.  Left out: SCAN and SIMULATE, which issue *)
(* no monetary action; the scans before a trade; the input gate below the  *)
(* mode (see InputGate); the connection of the agent, so that the answer   *)
(* to an action may be lost or come at any later time.  Reads of the       *)
(* database succeed; a write may fail.                                     *)
(***************************************************************************)
EXTENDS Saga, FiniteSets

CONSTANTS
    Plans,            \* canonical opportunities
    MaxStepAttempts,  \* strategy.max_step_attempts
    NoTrade,          \* no live saga in memory, no checkpoint in the database
    NoEvent,
    BarterOutcomes,   \* verified outcomes of an exchange, action left out
    ListingFees,      \* fees of a listing
    Sales,            \* settled [revenue, fees, quantity]
    Times,            \* readings of the clock
    MaxActions,       \* bound: monetary actions in a behaviour
    MaxCrashes,       \* bound: crashes of the process
    MaxRequests       \* bound: requests of the operator for TRADE

Actions == 1 .. MaxActions

ASSUME AttemptsAssumption == MaxStepAttempts \in Nat
ASSUME PlansAssumption == \A p \in Plans : CanonicalPlan(p)
ASSUME OutcomesAssumption == BarterOutcomes \subseteq Outcomes /\ ListingFees \subseteq Nat
ASSUME SalesAssumption ==
    Sales \subseteq [revenue : Nat, fees : Nat, quantity : Nat] /\ NoSettlement \notin Settlements
ASSUME TimesAssumption == Times \subseteq Nat
ASSUME NothingAssumption ==
    NoEvent \notin Events /\ NoTrade \notin [saga : Sagas(Plans), covered : SUBSET Actions]
ASSUME BoundsAssumption == {MaxActions, MaxCrashes, MaxRequests} \subseteq Nat

VARIABLES
    mode,          \* Server.mode: "PAUSED" or "TRADE"
    stale,         \* a safety event happened since the preflight began
    blocked,       \* snapshot.RecoveryBlocked
    savedBlocked,  \* the same in the saved engine snapshot
    live,          \* the active saga [saga, covered] of the engine, or NoTrade
    pc,            \* where the scheduling goroutine is in its tick
    current,       \* the monetary action it has journaled and waits for
    event,         \* the event the runner returned
    store,         \* checkpoint of each execution, or NoTrade
    journal,       \* state of every action in the journal
    sent,          \* history: <<action, directive>> pairs that may have left
    authPc,        \* where the operator's request for TRADE is
    authCovered,   \* the covered actions it has read
    crashes, requests

engine == <<live, pc, current, event>>
auth == <<authPc, authCovered, requests>>
vars == <<mode, stale, blocked, savedBlocked, engine, store, journal, sent, auth, crashes>>

Goto(label) == pc' = label

Init ==
    /\ mode = "PAUSED" /\ stale = FALSE
    /\ blocked = FALSE /\ savedBlocked = FALSE
    /\ live = NoTrade /\ pc = "recover" /\ current = NoAction /\ event = NoEvent
    /\ store = [x \in Executions |-> NoTrade]
    /\ journal = [a \in Actions |-> "none"]
    /\ sent = {}
    /\ authPc = "idle" /\ authCovered = {}
    /\ crashes = 0 /\ requests = 0

-----------------------------------------------------------------------------
(* The audit.                                                              *)

Saved == {x \in Executions : store[x] # NoTrade}
CoveredBy(checkpoints) == UNION {checkpoints[x].covered : x \in Saved}
Covered == CoveredBy(store)

\* MonetaryActionIDs of two checkpoints never meet.
CoverageValid ==
    \A x, y \in Saved : x # y => store[x].covered \cap store[y].covered = {}

\* Mutant: an action without a result is taken for one that was never sent.
ForgivingAudit(covered) ==
    \A a \in Actions : journal[a] \in {"success", "failure"} =>
        journal[a] = "success" /\ a \in covered

\* auditActions: a monetary action either was certainly not sent, or it
\* succeeded and a checkpoint explains it; and every explained one succeeded.
AuditPasses(covered) ==
    /\ \A a \in Actions :
          \/ journal[a] \in {"none", "unsent"} /\ a \notin covered
          \/ journal[a] = "success" /\ a \in covered
    /\ covered \subseteq Actions

-----------------------------------------------------------------------------
(* A tick in TRADE.                                                        *)

\* The mode and the block are read once, when the tick starts; scans and
\* navigation may keep it busy long after.
StartTick ==
    /\ pc = "idle" /\ mode = "TRADE" /\ ~blocked
    /\ Goto("run")
    /\ UNCHANGED <<mode, stale, blocked, savedBlocked, live, current, event, store, journal,
                   sent, auth, crashes>>

\* Nothing to trade, a scan that failed, a sale or a slot still awaited.
EndTick ==
    /\ pc = "run"
    /\ live # NoTrade => live.saga.status \in
          {"AWAITING_SALE", "WAITING_COOLDOWN", "WAITING_MARKET_SLOT"}
    /\ Goto("idle")
    /\ UNCHANGED <<mode, stale, blocked, savedBlocked, live, current, event, store, journal,
                   sent, auth, crashes>>

\* runTrade without an active saga: a fresh execution, saved at once.
BeginTrade(x, p, now) ==
    /\ pc = "run" /\ live = NoTrade /\ store[x] = NoTrade
    /\ live' = [saga |-> InitialSaga(x, p, now), covered |-> {}]
    /\ Goto("save")
    /\ UNCHANGED <<mode, stale, blocked, savedBlocked, current, event, store, journal,
                   sent, auth, crashes>>

Directive == <<live.saga.id, live.saga.step, live.saga.attempt>>

Event(kind, fact, outcome, reason, resolution, settlement, now) ==
    [id |-> <<live.saga.step, live.saga.attempt, fact>>, execution |-> live.saga.id,
     kind |-> kind, step |-> live.saga.step, outcome |-> outcome, reason |-> reason,
     resolution |-> resolution, settlement |-> settlement, at |-> now]

StepEvent(outcome, reason, now) ==
    Event(IF reason = "" THEN "STEP_SUCCEEDED" ELSE "STEP_FAILED",
          IF reason = "" THEN "success" ELSE "failed", outcome, reason, "", NoSettlement, now)

Return(e) ==
    /\ event' = e /\ Goto("apply")
    /\ UNCHANGED <<mode, stale, blocked, savedBlocked, live, current, store, journal,
                   sent, auth, crashes>>

Driving(statuses) == pc = "run" /\ live # NoTrade /\ live.saga.status \in statuses

\* The runner gives up before any input: a price, a balance, a cooldown, a
\* missing slot, critical values that changed.
FailBeforeInput(reason, now) ==
    /\ Driving({"RUNNING"})
    /\ reason = "MARKET_SLOT_UNAVAILABLE" => StepOf(live.saga).kind = "LIST"
    /\ Return(StepEvent(EmptyOutcome, reason, now))

\* Router.Commit reaches RequestAction, which looks at the mode and journals
\* the action before it is sent.
JournalAction(a) ==
    /\ Driving({"RUNNING"}) /\ mode = "TRADE"
    /\ journal[a] = "none" /\ \A b \in Actions : b < a => journal[b] # "none"
    /\ journal' = [journal EXCEPT ![a] = "requested"]
    /\ current' = a /\ Goto("send")
    /\ UNCHANGED <<mode, stale, blocked, savedBlocked, live, event, store, sent, auth,
                   crashes>>

\* executeRecovery: wait or retry for a cooldown or a slot, hold otherwise.
ResolveRecovery(now) ==
    \/ /\ Driving({"WAITING_COOLDOWN", "WAITING_MARKET_SLOT"})
       /\ Return(Event("RECOVERY_RESOLVED", "RETRY", EmptyOutcome, "", "RETRY", NoSettlement, now))
    \/ /\ Driving({"RECOVERING"})
       /\ Return(Event("RECOVERY_RESOLVED", "HOLD", EmptyOutcome, "", "HOLD", NoSettlement, now))

\* monitorSale once the order is sold.
ObserveSale(sale, now) ==
    /\ Driving({"AWAITING_SALE"})
    /\ Return(Event("SALE_SETTLED", "settled", EmptyOutcome, "", "",
                    [execution |-> live.saga.id, order |-> live.saga.order,
                     cost |-> live.saga.cost, revenue |-> sale.revenue, fees |-> sale.fees,
                     item |-> live.saga.plan.item, quantity |-> sale.quantity], now))

\* Anything else the runner cannot explain.
RunnerFails ==
    /\ Driving({"RUNNING", "AWAITING_SALE"} \cup RecoveryStatuses)
    /\ Goto("stop")
    /\ UNCHANGED <<mode, stale, blocked, savedBlocked, live, current, event, store,
                   journal, sent, auth, crashes>>

-----------------------------------------------------------------------------
(* The monetary action.                                                    *)

\* The guard sees TRADE and the message leaves; the write may still report
\* an error, in which case the runner does not wait.
Send ==
    /\ pc = "send" /\ mode = "TRADE"
    /\ sent' = sent \cup {<<current, Directive>>}
    /\ Goto("await") \/ Goto("stop")
    /\ UNCHANGED <<mode, stale, blocked, savedBlocked, live, current, event, store,
                   journal, auth, crashes>>

\* The guard refuses (or the deadline has passed): the journal says so, unless
\* that write fails too, which pauses; or the write fails with nothing sent.
NotSent ==
    /\ pc = "send"
    /\ \/ journal' = [journal EXCEPT ![current] = "unsent"] /\ UNCHANGED <<mode, stale>>
       \/ mode' = "PAUSED" /\ stale' = TRUE /\ UNCHANGED journal
    /\ Goto("stop")
    /\ UNCHANGED <<blocked, savedBlocked, live, current, event, store, sent, auth, crashes>>

\* ACTION_RESULT reaches the journal, whoever still waits for it.
Answer(a, result) ==
    /\ \E pair \in sent : pair[1] = a
    /\ journal[a] = "requested"
    /\ journal' = [journal EXCEPT ![a] = result]
    /\ UNCHANGED <<mode, stale, blocked, savedBlocked, engine, store, sent, auth, crashes>>

BuyOutcomes ==
    LET step == StepOf(live.saga) IN
    {[EmptyOutcome EXCEPT !.completed = n, !.cost = n * step.price,
         !.deltas = [i \in Items |-> IF i = step.item THEN n ELSE 0]] :
       n \in 0 .. Remaining(live.saga)}

ListOutcomes ==
    LET step == StepOf(live.saga)
        n == Remaining(live.saga)
    IN  {[EmptyOutcome EXCEPT !.completed = n, !.fees = listing.fees, !.order = listing.order,
             !.deltas = [i \in Items |-> IF i = step.item THEN -n ELSE 0]] :
           listing \in [fees : ListingFees, order : Orders]}

\* What the screen after the action can confirm; anything else is an error.
Confirmed ==
    LET kind == StepOf(live.saga).kind IN
    CASE kind = "BUY" -> BuyOutcomes
      [] kind = "BARTER" -> BarterOutcomes
      [] kind = "LIST" -> ListOutcomes

ConfirmAction(o, now) ==
    /\ pc = "await" /\ journal[current] = "success"
    /\ event' = StepEvent([o EXCEPT !.action = current],
                          IF o.completed = Remaining(live.saga) THEN "" ELSE "OTHER", now)
    /\ Goto("apply")
    /\ UNCHANGED <<mode, stale, blocked, savedBlocked, live, current, store, journal,
                   sent, auth, crashes>>

\* A failure, a timeout, a lost connection, an unreadable screen.
ActionUnclear ==
    /\ pc = "await" /\ Goto("stop")
    /\ UNCHANGED <<mode, stale, blocked, savedBlocked, live, current, event, store,
                   journal, sent, auth, crashes>>

-----------------------------------------------------------------------------
(* Apply, save, stop.                                                      *)

\* Mutant: an event without a monetary action is recorded as if it had one.
ApplyCoveringAll ==
    /\ pc = "apply"
    /\ IF Accepted(live.saga, event, MaxStepAttempts)
       THEN /\ live' = [saga |-> After(live.saga, event),
                        covered |-> live.covered \cup {event.outcome.action}]
            /\ Goto("save")
       ELSE UNCHANGED live /\ Goto("stop")
    /\ event' = NoEvent /\ current' = NoAction
    /\ UNCHANGED <<mode, stale, blocked, savedBlocked, store, journal, sent, auth, crashes>>

ApplyEvent ==
    /\ pc = "apply"
    /\ IF Accepted(live.saga, event, MaxStepAttempts)
       THEN /\ live' = [saga |-> After(live.saga, event),
                        covered |-> live.covered \cup ({event.outcome.action} \ {NoAction})]
            /\ Goto("save")
       ELSE UNCHANGED live /\ Goto("stop")
    /\ event' = NoEvent /\ current' = NoAction
    /\ UNCHANGED <<mode, stale, blocked, savedBlocked, store, journal, sent, auth, crashes>>

\* Mutant: a checkpoint that cannot be saved is left for the next tick.
SaveLater ==
    /\ pc = "save"
    /\ LET finished == IsTerminal(live.saga) IN
       /\ store' = [store EXCEPT ![live.saga.id] = live] \/ UNCHANGED store
       /\ live' = IF finished THEN NoTrade ELSE live
       /\ Goto(IF live.saga.status = "COMPLETED_MISMATCH" THEN "stop" ELSE "idle")
    /\ UNCHANGED <<mode, stale, blocked, savedBlocked, current, event, journal, sent,
                   auth, crashes>>

\* persistSaga.  A mismatch stops the engine even though it was saved.
SaveSaga ==
    /\ pc = "save"
    /\ LET finished == IsTerminal(live.saga) IN
       \/ /\ store' = [store EXCEPT ![live.saga.id] = live]
          /\ live' = IF finished THEN NoTrade ELSE live
          /\ Goto(IF live.saga.status = "COMPLETED_MISMATCH" THEN "stop" ELSE "idle")
       \/ UNCHANGED <<store, live>> /\ Goto("stop")
    /\ UNCHANGED <<mode, stale, blocked, savedBlocked, current, event, journal, sent,
                   auth, crashes>>

\* stopForReconciliation: block in memory, pause, save the block if possible.
Block ==
    /\ pc = "stop" /\ Goto("pause")
    /\ blocked' = TRUE /\ current' = NoAction
    /\ UNCHANGED <<mode, stale, savedBlocked, live, event, store, journal, sent, auth,
                   crashes>>

PauseBlocked ==
    /\ pc = "pause" /\ Goto("persist")
    /\ mode' = "PAUSED" /\ stale' = TRUE
    /\ UNCHANGED <<blocked, savedBlocked, live, current, event, store, journal, sent,
                   auth, crashes>>

SaveBlock ==
    /\ pc = "persist" /\ Goto("idle")
    /\ savedBlocked' = blocked \/ UNCHANGED savedBlocked
    /\ UNCHANGED <<mode, stale, blocked, live, current, event, store, journal, sent, auth,
                   crashes>>

\* A tick that sees a new mode, or fails, saves the engine snapshot.
SaveSnapshot ==
    /\ pc = "idle" /\ savedBlocked' = blocked
    /\ UNCHANGED <<mode, stale, blocked, engine, store, journal, sent, auth, crashes>>

-----------------------------------------------------------------------------
(* Mode changes from outside.                                              *)

\* The operator, a safety event, a lost agent, too many failed ticks.
Pause ==
    /\ mode' = "PAUSED" /\ stale' = TRUE
    /\ UNCHANGED <<blocked, savedBlocked, engine, store, journal, sent, auth, crashes>>

\* Mutant: the gate stays as it is during the preflight.
RequestWithoutPause ==
    /\ authPc = "idle" /\ pc # "recover" /\ requests < MaxRequests
    /\ stale' = FALSE
    /\ authPc' = "check" /\ requests' = requests + 1
    /\ UNCHANGED <<mode, blocked, savedBlocked, engine, store, journal, sent, authCovered,
                   crashes>>

\* SetModeContext(TRADE): the gate is closed during the preflight.
RequestTrade ==
    /\ authPc = "idle" /\ pc # "recover" /\ requests < MaxRequests
    /\ mode' = "PAUSED" /\ stale' = FALSE
    /\ authPc' = "check" /\ requests' = requests + 1
    /\ UNCHANGED <<blocked, savedBlocked, engine, store, journal, sent, authCovered, crashes>>

\* AuthorizeMode: an engine that is blocked refuses.
CheckBlocked ==
    /\ authPc = "check"
    /\ authPc' = IF blocked THEN "idle" ELSE "coverage"
    /\ UNCHANGED <<mode, stale, blocked, savedBlocked, engine, store, journal, sent,
                   authCovered, requests, crashes>>

\* The boundary audit reads the checkpoints first, then the journal.
ReadCoverage ==
    /\ authPc = "coverage"
    /\ IF CoverageValid
       THEN authCovered' = Covered /\ authPc' = "audit" /\ UNCHANGED blocked
       ELSE blocked' = TRUE /\ authPc' = "idle" /\ UNCHANGED authCovered
    /\ UNCHANGED <<mode, stale, savedBlocked, engine, store, journal, sent, requests, crashes>>

AuditBoundary ==
    /\ authPc = "audit" /\ authCovered' = {}
    /\ IF AuditPasses(authCovered)
       THEN authPc' = "gate" /\ UNCHANGED blocked
       ELSE blocked' = TRUE /\ authPc' = "idle"
    /\ UNCHANGED <<mode, stale, savedBlocked, engine, store, journal, sent, requests, crashes>>

\* The rest of the preflight, and the epoch check.
EpochCheck ==
    /\ authPc = "gate"
    /\ authPc' = "idle" \/ (~stale /\ authPc' = "open")
    /\ UNCHANGED <<mode, stale, blocked, savedBlocked, engine, store, journal, sent,
                   authCovered, requests, crashes>>

OpenTrade ==
    /\ authPc = "open" /\ authPc' = "idle"
    /\ mode' = "TRADE"
    /\ UNCHANGED <<stale, blocked, savedBlocked, engine, store, journal, sent,
                   authCovered, requests, crashes>>

-----------------------------------------------------------------------------
(* A crash and the recovery that follows.                                  *)

Crash ==
    /\ crashes < MaxCrashes /\ crashes' = crashes + 1
    /\ mode' = "PAUSED" /\ stale' = FALSE /\ blocked' = FALSE
    /\ live' = NoTrade /\ current' = NoAction /\ event' = NoEvent /\ Goto("recover")
    /\ authPc' = "idle" /\ authCovered' = {}
    /\ UNCHANGED <<savedBlocked, store, journal, sent, requests>>

Mismatched == {x \in Saved : store[x].saga.status = "COMPLETED_MISMATCH"}
Unfinished == {x \in Saved : ~IsTerminal(store[x].saga)}

\* Mutant: only the checkpoints decide whether trading may go on.
RecoverForgetting ==
    /\ pc = "recover" /\ Goto("idle")
    /\ blocked' = (~CoverageValid \/ Cardinality(Unfinished) > 1)
    /\ savedBlocked' = blocked'
    /\ live' = IF CoverageValid /\ Unfinished # {}
               THEN store[CHOOSE x \in Unfinished : TRUE] ELSE NoTrade
    /\ UNCHANGED <<mode, stale, current, event, store, journal, sent, auth, crashes>>

\* Engine.recover runs before anybody can connect.
Recover ==
    /\ pc = "recover" /\ Goto("idle")
    /\ blocked' = \/ savedBlocked \/ ~CoverageValid \/ Mismatched # {}
                  \/ Cardinality(Unfinished) > 1 \/ ~AuditPasses(Covered)
    /\ savedBlocked' = blocked'
    /\ live' = IF CoverageValid /\ Unfinished # {}
               THEN store[CHOOSE x \in Unfinished : TRUE] ELSE NoTrade
    /\ UNCHANGED <<mode, stale, current, event, store, journal, sent, auth, crashes>>

-----------------------------------------------------------------------------
Tick ==
    \/ StartTick \/ EndTick
    \/ \E x \in Executions, p \in Plans, now \in Times : BeginTrade(x, p, now)
    \/ \E reason \in Reasons \ {""}, now \in Times : FailBeforeInput(reason, now)
    \/ \E a \in Actions : JournalAction(a)
    \/ \E now \in Times : ResolveRecovery(now)
    \/ \E sale \in Sales, now \in Times : ObserveSale(sale, now)
    \/ RunnerFails
    \/ Send \/ NotSent
    \/ pc = "await" /\ \E o \in Confirmed, now \in Times : ConfirmAction(o, now)
    \/ ActionUnclear
    \/ ApplyEvent \/ SaveSaga \/ Block \/ PauseBlocked \/ SaveBlock \/ SaveSnapshot

Authorization ==
    \/ RequestTrade \/ CheckBlocked \/ ReadCoverage \/ AuditBoundary
    \/ EpochCheck \/ OpenTrade

Next ==
    \/ Tick
    \/ \E a \in Actions, result \in {"success", "failure"} : Answer(a, result)
    \/ Authorization
    \/ Pause
    \/ Crash
    \/ Recover

Spec == Init /\ [][Next]_vars

-----------------------------------------------------------------------------
(* Properties.                                                             *)

\* Every variable holds a value of its type.
TypeOK ==
    /\ mode \in {"PAUSED", "TRADE"}
    /\ {stale, blocked, savedBlocked} \subseteq BOOLEAN
    /\ live # NoTrade => live.saga.status \in Statuses /\ live.covered \subseteq Actions
    /\ pc \in {"recover", "idle", "run", "send", "await", "apply", "save", "stop", "pause",
               "persist"}
    /\ current \in Actions \cup {NoAction}
    /\ (pc \in {"send", "await"}) => live # NoTrade /\ current # NoAction
    /\ (pc = "apply") => live # NoTrade /\ event # NoEvent
    /\ \A x \in Saved : store[x].saga.id = x /\ store[x].covered \subseteq Actions
    /\ journal \in [Actions -> {"none", "requested", "success", "failure", "unsent"}]
    /\ authPc \in {"idle", "check", "coverage", "audit", "gate", "open"}
    /\ authCovered \subseteq Actions

\* At most one trade is unfinished on disk, so recovery never has to choose.
OneUnfinishedCheckpoint == Cardinality(Unfinished) <= 1

\* Trading never outruns its records, whatever crashes, fails to save or stays
\* unanswered: an action is issued once for each directive, and only when every
\* action that may have left before is in a saved checkpoint.
Directives ==
    UNION {Executions \X (1 .. Len(p.steps)) \X (0 .. MaxStepAttempts) : p \in Plans}

Ledger == INSTANCE MonetaryLedger WITH issued <- sent, accounted <- Covered

OnceAndAccounted == Ledger!Spec

\* A saved block survives every restart.
BlockIsForever == [][savedBlocked => savedBlocked']_vars

\* Nothing leaves while the engine is blocked, even when the operator's audit
\* raises the block beside a running tick.
BlockedSendsNothing == [][sent' # sent => ~blocked]_vars

\* A trade that did not reconcile ends trading for good.
NothingAfterMismatch == [][Mismatched # {} => sent' = sent]_vars

=============================================================================

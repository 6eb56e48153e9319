----------------------------- MODULE AgentLink -----------------------------
(***************************************************************************)
(* The connection between the controller and the Windows agent, and what   *)
(* each side remembers of an action: agent.Client with the latched stop of *)
(* agent.SafetySupervisor, the sockets, and the agentConnection objects of *)
(* controller.Server.                                                      *)
(*                                                                         *)
(* A socket delivers in order; when it breaks, any suffix of what was      *)
(* under way in each direction is lost, and each side notices for itself.  *)
(* Frames, windows and heartbeats travel the same way and are left out.    *)
(* A send checks the gate and writes in one step here (InputGate has the   *)
(* steps), and so is a monetary action's input (ActionAgent has its steps). *)
(***************************************************************************)
EXTENDS Integers, FiniteSets, Sequences

CONSTANTS
    IDs,            \* action identifiers
    Bodies,         \* contents of an action, of which the agent keeps a digest
    Calls,          \* requests made of the controller
    FilterClass,    \* identifiers the seen-filter cannot tell apart
    MaxTombstones,  \* maxRememberedActionTombstones
    MaxResults,     \* maxRememberedActions
    Stoppers,       \* who may stop the agent: {"user", "controller"} or fewer
    MaxFailures,    \* SafetySupervisor.maxFailures
    MaxConns,       \* bound: connections in a behaviour
    MaxWaiting,     \* bound: requests that wait at a time
    Nothing

ASSUME FilterAssumption == FilterClass \in [IDs -> IDs]
ASSUME LimitsAssumption ==
    /\ MaxTombstones \in Nat \ {0} /\ MaxResults \in Nat \ {0}
    /\ MaxFailures \in Nat \ {0} /\ MaxConns \in Nat \ {0}
    /\ MaxWaiting \in Nat \ {0}
ASSUME IDsAssumption == IsFiniteSet(IDs)
ASSUME NothingAssumption ==
    /\ Nothing \notin {"success", "safe", "unsure"}
    /\ Nothing \notin [body : Bodies, completed : BOOLEAN]
    /\ Nothing \notin [id : IDs, at : {"taken", "running", "clicked", "remembered"},
                      answer : {"success", "safe", "unsure", Nothing}]

VARIABLES
    \* the agent process
    stopped,      \* SafetySupervisor.stopped
    failures,     \* SafetySupervisor.consecutiveFail
    emergency,    \* a signal waits in Client.emergencies
    actions,      \* Client.actions: the tombstone of each identifier
    actionOrder,  \* Client.actionOrder
    results,      \* Client.actionResults
    resultOrder,  \* Client.actionResultOrder
    seen,         \* identifiers put into Client.seenActions
    job,          \* what actionLoop of each connection is doing
    conn,         \* the connection runConnection serves, or 0
    dialled,      \* connections made so far
    \* the sockets, by connection
    down, up,     \* messages to the agent, to the controller
    broken,
    \* the controller
    current,      \* Server.agents for the one agent, or 0
    retiring,     \* [by, conn]: a connection register or unregister has taken
                  \* out of agents and has yet to pause for and shut down
    closed,       \* agentConnection.closed
    pending,      \* agentConnection.pending of all connections
    emergencyStopped, \* agentConnection.emergencyStopped
    mode,
    preflight,    \* SetModeContext under way, and whether its epoch still holds
    overtaken,    \* history: a pause fell between the check of the epoch and the
                  \* opening (run gate_epoch), and trading was opened over it
    calls,        \* the state of each request
    \* history
    clicks        \* how often each action's input was begun

stopVars == <<stopped, failures, emergency>>
memoryVars == <<actions, actionOrder, results, resultOrder, seen>>
linkVars == <<conn, dialled>>
netVars == <<down, up, broken>>
modeVars == <<mode, preflight, overtaken>>
serverVars == <<current, retiring, closed, pending, emergencyStopped>>
agentVars == <<stopVars, memoryVars, job, linkVars, clicks>>
controllerVars == <<serverVars, modeVars, calls>>
vars == <<agentVars, netVars, controllerVars>>

Conns == 1 .. MaxConns

Idle == [state |-> "idle"]
Waiting(id, body) == [state |-> "waiting", id |-> id, body |-> body]
Done(id, answer) == [state |-> "done", id |-> id, answer |-> answer]

\* success; a failure before any input (retry_safe); any other failure.
Answers == {"success", "safe", "unsure"}

Init ==
    /\ stopped = FALSE /\ failures = 0 /\ emergency = FALSE
    /\ actions = [id \in IDs |-> Nothing] /\ actionOrder = <<>>
    /\ results = [id \in IDs |-> Nothing] /\ resultOrder = <<>>
    /\ seen = {}
    /\ job = [c \in Conns |-> Nothing]
    /\ conn = 0 /\ dialled = 0
    /\ down = [c \in Conns |-> <<>>] /\ up = [c \in Conns |-> <<>>]
    /\ broken = [c \in Conns |-> FALSE]
    /\ current = 0 /\ retiring = {}
    /\ closed = [c \in Conns |-> FALSE]
    /\ pending = {}
    /\ emergencyStopped = [c \in Conns |-> FALSE]
    /\ mode = "PAUSED" /\ preflight = "none" /\ overtaken = FALSE
    /\ calls = [k \in Calls |-> Idle]
    /\ clicks = [id \in IDs |-> 0]

-----------------------------------------------------------------------------
(* The sockets.                                                            *)

Write(queues, c, m) == IF broken[c] THEN queues ELSE [queues EXCEPT ![c] = Append(@, m)]

Reply(c, m) ==
    /\ down' = [down EXCEPT ![c] = Tail(@)]
    /\ up' = Write(up, c, m)
    /\ UNCHANGED broken

\* What arrives before the break, in one direction.
Arrives(queue) == {SubSeq(queue, 1, n) : n \in 0 .. Len(queue)}

Break(c) ==
    /\ c <= dialled /\ ~broken[c]
    /\ broken' = [broken EXCEPT ![c] = TRUE]
    /\ \E d \in Arrives(down[c]), u \in Arrives(up[c]) :
          down' = [down EXCEPT ![c] = d] /\ up' = [up EXCEPT ![c] = u]
    /\ UNCHANGED <<agentVars, controllerVars>>

-----------------------------------------------------------------------------
(* The agent: connecting, and the latched emergency stop.                  *)

Result(id, answer) == [type |-> "ACTION_RESULT", id |-> id, answer |-> answer]

\* Run and the start of runConnection: HELLO carries the latched stop.
Dial ==
    /\ conn = 0 /\ dialled < MaxConns
    /\ dialled' = dialled + 1 /\ conn' = dialled'
    /\ up' = [up EXCEPT ![dialled'] = <<[type |-> "HELLO", stopped |-> stopped]>>]
    /\ UNCHANGED <<stopVars, memoryVars, job, clicks, down, broken, controllerVars>>

(***************************************************************************)
(* runConnection ends when a read or a write fails.  After a read error it *)
(* waits for its loops; after a write error it only cancels them, and an   *)
(* action under way may go on behind the next connection.  The other loops *)
(* end at once, well within the back-off of at least 200 ms.               *)
(***************************************************************************)
LoseConnection ==
    /\ conn # 0 /\ broken[conn]
    /\ conn' = 0
    /\ down' = [down EXCEPT ![conn] = <<>>]
    /\ UNCHANGED <<stopVars, memoryVars, job, clicks, dialled, up, broken, controllerVars>>

Emergency == stopped' = TRUE /\ emergency' = TRUE

\* The hot key Ctrl+Alt+F12, or a safety monitor that fails.
Hotkey ==
    /\ "user" \in Stoppers /\ ~stopped
    /\ Emergency
    /\ UNCHANGED <<failures, memoryVars, job, linkVars, clicks, netVars, controllerVars>>

\* eventLoop takes the signal off its channel; if the socket is gone, so is it.
SendEmergency ==
    /\ conn # 0 /\ emergency
    /\ emergency' = FALSE
    /\ up' = Write(up, conn, [type |-> "EMERGENCY_STOP"])
    /\ UNCHANGED <<stopped, failures, memoryVars, job, linkVars, clicks, down, broken,
                   controllerVars>>

HandleStop(c) ==
    /\ conn = c /\ down[c] # <<>> /\ Head(down[c]).type = "EMERGENCY_STOP"
    /\ Emergency
    /\ Reply(c, [type |-> "EMERGENCY_STOP_APPLIED", id |-> Head(down[c]).id])
    /\ UNCHANGED <<failures, memoryVars, job, linkVars, clicks, controllerVars>>

-----------------------------------------------------------------------------
(* The agent: reservation, execution and memory of an action.              *)

Present(f) == {id \in IDs : f[id] # Nothing}

\* The oldest entries of a queue that go until fewer than `limit` of `kept` stay.
Overflow(order, kept, limit) ==
    LET first(m) == {order[i] : i \in 1 .. m}
        enough(m) == Cardinality(kept \ first(m)) < limit \/ m = Len(order)
    IN  CHOOSE m \in 0 .. Len(order) : enough(m) /\ \A n \in 0 .. m - 1 : ~enough(n)

\* Mutant: an identifier whose tombstone is gone counts as new.
NeverSeen(id) == FALSE

HasSeen(id) == \E s \in seen : FilterClass[s] = FilterClass[id]

EvictedTombstones ==
    LET n == Overflow(actionOrder, Present(actions), MaxTombstones)
    IN  [gone |-> {actionOrder[i] : i \in 1 .. n},
         order |-> SubSeq(actionOrder, n + 1, Len(actionOrder))]

\* The answer that reserveAction gives without running anything.
Known(r) ==
    \/ actions[r.id] # Nothing
    \/ HasSeen(r.id)

AnswerKnown(r) ==
    IF /\ actions[r.id] # Nothing /\ actions[r.id].body = r.body
       /\ actions[r.id].completed /\ results[r.id] # Nothing
    THEN results[r.id] ELSE "unsure"

HandleKnown(c, r) ==
    /\ Known(r)
    /\ Reply(c, Result(r.id, AnswerKnown(r)))
    /\ UNCHANGED <<agentVars, controllerVars>>

\* Mutant: a retained result survives the eviction of its tombstone.
EvictKeepingResults(gone, order) ==
    /\ actionOrder' = order
    /\ UNCHANGED <<results, resultOrder, seen>>

Evict(gone, order) ==
    /\ actionOrder' = order
    /\ results' = [id \in IDs |-> IF id \in gone THEN Nothing ELSE results[id]]
    /\ UNCHANGED <<resultOrder, seen>>

\* The journal is full, or actionLoop is not at its queue: the reservation,
\* if one was made, is taken back.
HandleRefused(c, r) ==
    LET e == EvictedTombstones IN
    /\ ~Known(r)
    /\ Evict(e.gone, e.order)
    /\ actions' = [id \in IDs |-> IF id \in e.gone THEN Nothing ELSE actions[id]]
    /\ Reply(c, Result(r.id, "unsure"))
    /\ UNCHANGED <<stopVars, job, linkVars, clicks, controllerVars>>

HandleNew(c, r) ==
    LET e == EvictedTombstones IN
    /\ ~Known(r)
    /\ job[c] = Nothing
    /\ Cardinality(Present(actions) \ e.gone) < MaxTombstones
    /\ Evict(e.gone, e.order)
    /\ actions' = [id \in IDs |->
                     IF id = r.id THEN [body |-> r.body, completed |-> FALSE]
                     ELSE IF id \in e.gone THEN Nothing ELSE actions[id]]
    /\ job' = [job EXCEPT ![c] = [id |-> r.id, at |-> "taken", answer |-> Nothing]]
    /\ down' = [down EXCEPT ![c] = Tail(@)]
    /\ UNCHANGED <<stopVars, linkVars, clicks, up, broken, controllerVars>>

HandleAction(c) ==
    /\ conn = c /\ down[c] # <<>> /\ Head(down[c]).type = "ACTION_REQUEST"
    /\ LET r == Head(down[c]) IN
          HandleKnown(c, r) \/ HandleRefused(c, r) \/ HandleNew(c, r)

At(c, phase) == job[c] # Nothing /\ job[c].at = phase

Become(c, phase, answer) ==
    /\ job' = [job EXCEPT ![c].at = phase, ![c].answer = answer]
    /\ UNCHANGED <<linkVars, netVars, controllerVars>>

\* rememberActionResult; an oversized frame is not retained.
Remember(c, answer) ==
    /\ LET id == job[c].id IN
       /\ actions' = [actions EXCEPT ![id].completed = TRUE]
       /\ actionOrder' = Append(actionOrder, id)
       /\ seen' = seen \cup {id}
       /\ \E retained \in BOOLEAN :
            LET kept == IF retained THEN [results EXCEPT ![id] = answer] ELSE results
                order == IF retained THEN Append(resultOrder, id) ELSE resultOrder
                n == Overflow(order, Present(kept), MaxResults + 1)
                gone == {order[i] : i \in 1 .. n}
            IN  /\ results' = [i \in IDs |-> IF i \in gone THEN Nothing ELSE kept[i]]
                /\ resultOrder' = SubSeq(order, n + 1, Len(order))
    /\ Become(c, "remembered", answer)

\* actionLoop: one action at a time over all connections (captureMu).
StartJob(c) ==
    /\ At(c, "taken")
    /\ IF stopped THEN Remember(c, "unsure")
       ELSE /\ \A d \in Conns : ~At(d, "running") /\ ~At(d, "clicked")
            /\ Become(c, "running", Nothing)
            /\ UNCHANGED memoryVars
    /\ UNCHANGED <<stopVars, clicks>>

Click(c) ==
    /\ At(c, "running") /\ ~stopped
    /\ clicks' = [clicks EXCEPT ![job[c].id] = @ + 1]
    /\ Become(c, "clicked", Nothing)
    /\ UNCHANGED <<stopVars, memoryVars>>

FinishJob(c) ==
    /\ \/ At(c, "running") /\ Remember(c, "safe")
       \/ At(c, "clicked") /\ \E answer \in {"success", "unsure"} : Remember(c, answer)
    /\ UNCHANGED <<stopVars, clicks>>

\* RecordActionResult, then the answer on the connection that asked.
Report(c) ==
    /\ At(c, "remembered")
    /\ IF job[c].answer = "success"
       THEN failures' = 0 /\ UNCHANGED <<stopped, emergency>>
       ELSE /\ failures' = IF failures < MaxFailures THEN failures + 1 ELSE failures
            /\ IF failures + 1 >= MaxFailures THEN Emergency
               ELSE UNCHANGED <<stopped, emergency>>
    /\ up' = Write(up, c, Result(job[c].id, job[c].answer))
    /\ job' = [job EXCEPT ![c] = Nothing]
    /\ UNCHANGED <<memoryVars, linkVars, clicks, down, broken, controllerVars>>

-----------------------------------------------------------------------------
(* The controller: connections.                                            *)

Pause ==
    /\ mode' = "PAUSED"
    /\ preflight' = CASE preflight = "valid" -> "stale"
                      [] preflight = "checked" -> "overtaken"
                      [] OTHER -> preflight
    /\ UNCHANGED overtaken

\* Pending requests of a connection end with an error.
Abandon(c) ==
    /\ pending' = {p \in pending : p.conn # c}
    /\ calls' = [k \in Calls |-> IF \E p \in pending : p.conn = c /\ p.call = k
                                 THEN Done(calls[k].id, "error") ELSE calls[k]]

\* The socket is closed: what it still holds for the controller is not read.
Shutdown(c) ==
    /\ closed' = [closed EXCEPT ![c] = TRUE]
    /\ broken' = [broken EXCEPT ![c] = TRUE]
    /\ up' = [up EXCEPT ![c] = <<>>]
    /\ \E d \in IF broken[c] THEN {down[c]} ELSE Arrives(down[c]) :
          down' = [down EXCEPT ![c] = d]
    /\ Abandon(c)

\* register: the new connection is published before the old one is shut down.
Register(c) ==
    /\ up[c] # <<>> /\ Head(up[c]).type = "HELLO"
    /\ current' = c
    /\ retiring' = retiring \cup {[by |-> c, conn |-> p] : p \in {current} \ {0}}
    /\ emergencyStopped' = [emergencyStopped EXCEPT ![c] = Head(up[c]).stopped]
    /\ up' = [up EXCEPT ![c] = Tail(@)]
    /\ UNCHANGED <<agentVars, down, broken, closed, pending, modeVars, calls>>

\* unregister: the connection is out of agents before trading is paused for it.
Unregister ==
    /\ current # 0 /\ broken[current] /\ up[current] = <<>>
    /\ \A r \in retiring : r.by # current
    /\ current' = 0
    /\ retiring' = retiring \cup {[by |-> current, conn |-> current]}
    /\ UNCHANGED <<agentVars, netVars, closed, pending, emergencyStopped, modeVars, calls>>

\* Mutant: a connection is shut down without a pause.
RetireQuietly(r) ==
    /\ retiring' = retiring \ {r}
    /\ Shutdown(r.conn)
    /\ UNCHANGED <<agentVars, modeVars, current, emergencyStopped>>

\* register pauses first and unregister shuts down first, in one step here.
Retire(r) ==
    /\ retiring' = retiring \ {r}
    /\ Pause
    /\ Shutdown(r.conn)
    /\ UNCHANGED <<agentVars, current, emergencyStopped>>

-----------------------------------------------------------------------------
(* The controller: messages.  Only the current connection is heard.        *)

Incoming(type) ==
    /\ current # 0 /\ up[current] # <<>>
    /\ \A r \in retiring : r.by # current
    /\ Head(up[current]).type = type

\* Mutant: an answer goes to whoever waits on the connection.
AnyPending(c, id) == {p \in pending : p.conn = c}

PendingFor(c, id) == {p \in pending : p.conn = c /\ p.id = id}

Deliver(waiters, id, answer) ==
    /\ pending' = pending \ waiters
    /\ calls' = [k \in Calls |-> IF \E p \in waiters : p.call = k
                                 THEN Done(calls[k].id, answer) ELSE calls[k]]

Consume == up' = [up EXCEPT ![current] = Tail(@)] /\ UNCHANGED <<down, broken>>

HandleResult ==
    /\ Incoming("ACTION_RESULT")
    /\ LET m == Head(up[current]) IN
          Deliver(PendingFor(current, m.id), m.id, m.answer)
    /\ Consume
    /\ UNCHANGED <<agentVars, current, retiring, closed, emergencyStopped, modeVars>>

\* The result or its frame could not be saved.
HandleUnsavedResult ==
    /\ Incoming("ACTION_RESULT")
    /\ Pause
    /\ LET m == Head(up[current]) IN Deliver(PendingFor(current, m.id), m.id, "error")
    /\ Consume
    /\ UNCHANGED <<agentVars, current, retiring, closed, emergencyStopped>>

HearStop ==
    /\ Incoming("EMERGENCY_STOP")
    /\ emergencyStopped' = [emergencyStopped EXCEPT ![current] = TRUE]
    /\ Pause
    /\ Consume
    /\ UNCHANGED <<agentVars, current, retiring, closed, pending, calls>>

HearStopApplied ==
    /\ Incoming("EMERGENCY_STOP_APPLIED")
    /\ emergencyStopped' = [emergencyStopped EXCEPT ![current] = TRUE]
    /\ Pause
    /\ LET m == Head(up[current]) IN Deliver(PendingFor(current, m.id), m.id, "applied")
    /\ Consume
    /\ UNCHANGED <<agentVars, current, retiring, closed>>

-----------------------------------------------------------------------------
(* The controller: requests and modes.                                     *)

Send(k, id, body, m) ==
    /\ Cardinality({l \in Calls : calls[l].state = "waiting"}) < MaxWaiting
    /\ current # 0 /\ ~closed[current]
    /\ PendingFor(current, id) = {}
    /\ pending' = pending \cup {[conn |-> current, id |-> id, call |-> k]}
    /\ calls' = [calls EXCEPT ![k] = Waiting(id, body)]
    /\ down' = Write(down, current, m)
    /\ UNCHANGED <<up, broken, current, retiring, closed, emergencyStopped>>

RequestAction(k, id, body) ==
    /\ calls[k] = Idle /\ mode = "TRADE"
    /\ Send(k, id, body, [type |-> "ACTION_REQUEST", id |-> id, body |-> body])
    /\ UNCHANGED <<agentVars, modeVars>>

SendEmergencyStop(k) ==
    /\ "controller" \in Stoppers /\ calls[k] = Idle
    /\ Pause
    /\ Send(k, k, Nothing, [type |-> "EMERGENCY_STOP", id |-> k])
    /\ UNCHANGED agentVars

Timeout(k) ==
    /\ calls[k].state = "waiting"
    /\ calls' = [calls EXCEPT ![k] = Done(calls[k].id, "error")]
    /\ pending' = {p \in pending : p.call # k}
    /\ UNCHANGED <<agentVars, netVars, current, retiring, closed, emergencyStopped, modeVars>>

\* SetModeContext(TRADE) closes the gate and looks at the agent (Preflight) ...
StartPreflight ==
    /\ preflight = "none" /\ current # 0 /\ ~emergencyStopped[current]
    /\ mode' = "PAUSED" /\ preflight' = "valid"
    /\ UNCHANGED <<overtaken, agentVars, netVars, serverVars, calls>>

\* ... then at the epoch ...
CheckEpoch ==
    /\ preflight \in {"valid", "stale"}
    /\ preflight' = IF preflight = "valid" THEN "checked" ELSE "none"
    /\ UNCHANGED <<mode, overtaken, agentVars, netVars, serverVars, calls>>

\* ... and opens the gate, whatever came in between.
FinishPreflight ==
    /\ preflight \in {"checked", "overtaken"}
    /\ preflight' = "none" /\ mode' = "TRADE"
    /\ overtaken' = (overtaken \/ preflight = "overtaken")
    /\ UNCHANGED <<agentVars, netVars, serverVars, calls>>

-----------------------------------------------------------------------------
AgentWork ==
    \/ Dial \/ LoseConnection \/ SendEmergency
    \/ \E c \in Conns : \/ HandleStop(c) \/ HandleAction(c) \/ StartJob(c) \/ Click(c)
                        \/ FinishJob(c) \/ Report(c)

ControllerWork ==
    \/ \E c \in Conns : Register(c)
    \/ \E r \in retiring : Retire(r)
    \/ Unregister
    \/ HandleResult \/ HandleUnsavedResult \/ HearStop \/ HearStopApplied

Next ==
    \/ AgentWork \/ ControllerWork \/ Hotkey
    \/ \E c \in Conns : Break(c)
    \/ \E k \in Calls : \/ \E id \in IDs, body \in Bodies : RequestAction(k, id, body)
                        \/ SendEmergencyStop(k) \/ Timeout(k)
    \/ StartPreflight \/ CheckEpoch \/ FinishPreflight

(* Goroutines that can go on do; nobody has to call, and no socket has to *)
(* break.                                                                 *)
Fairness ==
    /\ WF_vars(Dial) /\ WF_vars(LoseConnection) /\ WF_vars(SendEmergency)
    /\ \A c \in Conns : WF_vars(HandleStop(c) \/ HandleAction(c)) /\ WF_vars(Register(c))
    /\ WF_vars(\E r \in retiring : Retire(r)) /\ WF_vars(Unregister)
    /\ WF_vars(HandleResult \/ HandleUnsavedResult \/ HearStop \/ HearStopApplied)

Spec == Init /\ [][Next]_vars /\ Fairness

-----------------------------------------------------------------------------
(* Properties.                                                             *)

\* The memory of the agent stays within its limits, and it is consistent: a
\* retained result belongs to a completed action whose identifier is marked,
\* and an action under way is never evicted.
MemoryIsSound ==
    /\ Cardinality(Present(actions)) <= MaxTombstones
    /\ Cardinality(Present(results)) <= MaxResults
    /\ \A id \in IDs :
          /\ results[id] # Nothing => actions[id] # Nothing /\ actions[id].completed
          /\ actions[id] # Nothing /\ actions[id].completed => id \in seen
    /\ \A c \in Conns :
          job[c] # Nothing /\ job[c].at # "remembered" =>
              actions[job[c].id] # Nothing /\ ~actions[job[c].id].completed

\* At most once: whatever is sent again, on whatever connection, after any
\* eviction, the input of an action is begun once.
ClickedOnce == \A id \in IDs : clicks[id] <= 1

\* A caller that is told "done" had its action's input begun, and one that is
\* told "safe to retry" can rely on it never having been, now or later.
AnswersAreTrue ==
    \A k \in Calls : calls[k].state = "done" =>
        /\ calls[k].answer = "success" => clicks[calls[k].id] = 1
        /\ calls[k].answer = "safe" => clicks[calls[k].id] = 0

\* Once the agent has latched its stop, the controller ends up paused and no
\* preflight opens it again, though the signal may be lost with a connection;
\* only the race of CheckEpoch and a pause, if it ever happened, can undo it.
StopIsHeeded == stopped ~> [](mode = "PAUSED" \/ overtaken)
=============================================================================

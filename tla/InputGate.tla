------------------------------ MODULE InputGate ------------------------------
(***************************************************************************)
(* The input gate of controller.Server: the mode, the safety epoch and the *)
(* locks that decide whether an ACTION_REQUEST may reach the local agent.  *)
(* Threads are goroutines: HTTP handlers that change the mode, websocket   *)
(* readers that pause on a safety event, and callers of RequestAction.     *)
(* A step is what a goroutine does between two accesses to shared state.   *)
(*                                                                         *)
(* Left out: the content of requests and their responses (a request ends   *)
(* here when its write ends), requests that need no guard (frames), and    *)
(* the preflight itself, whose verdict is arbitrary.                       *)
(***************************************************************************)
EXTENDS Integers, FiniteSets

CONSTANTS
    Threads,      \* goroutines
    NoThread,
    SafeModes,    \* modes that allow no input and need no preflight
    MaxCalls      \* bound: calls of the public methods in a behaviour

InputModes == {"SCAN", "TRADE"}
Classes == {"NAVIGATION", "MONETARY"}

ASSUME ThreadsAssumption == NoThread \notin Threads
ASSUME SafeModesAssumption ==
    SafeModes \subseteq {"OBSERVE", "SIMULATE", "PAUSED"} /\ "PAUSED" \in SafeModes
ASSUME BoundAssumption == MaxCalls \in Nat

VARIABLES
    mode,         \* Server.mode
    epoch,        \* Server.safetyEpoch
    transition,   \* who holds Server.modeTransitionMu
    writer,       \* who holds, or waits for the readers of, Server.actionGate
    readers,      \* who holds Server.actionGate for reading
    guarded,      \* whose write is registered in Server.guardedSendStops
    cancelled,    \* whose registered write has been cancelled
    connection,   \* who holds agentConnection.writeGate
    pc,           \* where each goroutine is
    target,       \* the mode its closeInputGate publishes
    wanted,       \* the mode its SetModeContext opens, or the class it sends
    seen,         \* the epoch its closeInputGate returned
    stops,        \* the writes it is about to cancel
    outcome,      \* how its guarded write ended
    calls,        \* public calls so far
    authorized,   \* history: the epoch the last opening was authorized at
    returned      \* history: the latest epoch whose closeInputGate returned

locks == <<transition, writer, readers, connection>>
sends == <<guarded, cancelled, stops, outcome>>
history == <<authorized, returned>>
locals == <<target, wanted, seen>>
vars == <<mode, epoch, locks, sends, pc, locals, calls, history>>

Goto(t, label) == pc' = [pc EXCEPT ![t] = label]

\* RequestAction and its send guard apply the same rule.
Permits(m, class) == m = "TRADE" \/ (m = "SCAN" /\ class = "NAVIGATION")

Init ==
    /\ mode = "PAUSED" /\ epoch = 0
    /\ transition = NoThread /\ writer = NoThread /\ connection = NoThread
    /\ readers = {} /\ guarded = {} /\ cancelled = {}
    /\ pc = [t \in Threads |-> "idle"]
    /\ target = [t \in Threads |-> "PAUSED"]
    /\ wanted = [t \in Threads |-> "none"]
    /\ seen = [t \in Threads |-> 0]
    /\ stops = [t \in Threads |-> {}]
    /\ outcome = [t \in Threads |-> "none"]
    /\ calls = 0 /\ authorized = 0 /\ returned = 0

-----------------------------------------------------------------------------
(* Public calls.                                                           *)

Call(t) == pc[t] = "idle" /\ calls < MaxCalls /\ calls' = calls + 1

\* SetModeContext with a mode that needs no preflight, and pause, which a
\* safety event, a lost or replaced connection or a failed audit calls.
SetSafeMode(t, m) ==
    /\ Call(t) /\ Goto(t, "bump")
    /\ target' = [target EXCEPT ![t] = m]
    /\ wanted' = [wanted EXCEPT ![t] = "none"]
    /\ UNCHANGED <<mode, epoch, locks, sends, seen, history>>

\* AUTOMATION_PAUSED: the local supervisor saw the user; OBSERVE stays.
AutomationPaused(t) ==
    /\ Call(t) /\ Goto(t, "bump")
    /\ target' = [target EXCEPT ![t] = IF mode = "OBSERVE" THEN mode ELSE "PAUSED"]
    /\ wanted' = [wanted EXCEPT ![t] = "none"]
    /\ UNCHANGED <<mode, epoch, locks, sends, seen, history>>

\* SetModeContext with SCAN or TRADE.
SetInputMode(t, m) ==
    /\ Call(t) /\ Goto(t, "transition")
    /\ target' = [target EXCEPT ![t] = "PAUSED"]
    /\ wanted' = [wanted EXCEPT ![t] = m]
    /\ UNCHANGED <<mode, epoch, locks, sends, seen, history>>

\* RequestAction refuses at once in the wrong mode.
RequestAction(t, class) ==
    /\ Call(t) /\ Permits(mode, class) /\ Goto(t, "rlock")
    /\ wanted' = [wanted EXCEPT ![t] = class]
    /\ UNCHANGED <<mode, epoch, locks, sends, target, seen, history>>

-----------------------------------------------------------------------------
(* closeInputGate.                                                         *)

BumpEpoch(t) ==
    /\ pc[t] = "bump" /\ Goto(t, "publish")
    /\ epoch' = epoch + 1
    /\ seen' = [seen EXCEPT ![t] = epoch + 1]
    /\ UNCHANGED <<mode, locks, sends, target, wanted, calls, history>>

Publish(t) ==
    /\ pc[t] = "publish" /\ Goto(t, "collect")
    /\ mode' = target[t]
    /\ UNCHANGED <<epoch, locks, sends, locals, calls, history>>

\* cancelGuardedSends copies the cancel functions under a mutex ...
CollectStops(t) ==
    /\ pc[t] = "collect" /\ Goto(t, "cancel")
    /\ stops' = [stops EXCEPT ![t] = guarded]
    /\ UNCHANGED <<mode, epoch, locks, guarded, cancelled, outcome, locals, calls, history>>

\* ... and calls them outside of it; a write that has ended is not affected.
CancelSends(t) ==
    /\ pc[t] = "cancel" /\ Goto(t, "announce")
    /\ cancelled' = cancelled \cup stops[t]
    /\ stops' = [stops EXCEPT ![t] = {}]
    /\ UNCHANGED <<mode, epoch, locks, guarded, outcome, locals, calls, history>>

\* RWMutex.Lock: one writer at a time, and no new reader behind it.
AnnounceWriter(t) ==
    /\ pc[t] \in {"announce", "lock"} /\ writer = NoThread
    /\ Goto(t, IF pc[t] = "lock" THEN "check" ELSE "drain")
    /\ writer' = t
    /\ UNCHANGED <<mode, epoch, transition, readers, connection, sends, locals,
                   calls, history>>

\* Mutant: closing the gate does not wait for the writes under way.
DrainAtOnce(t) ==
    /\ pc[t] = "drain"
    /\ Goto(t, IF transition = t THEN "authorize" ELSE "idle")
    /\ writer' = NoThread
    /\ returned' = IF seen[t] > returned THEN seen[t] ELSE returned
    /\ UNCHANGED <<mode, epoch, transition, readers, connection, sends, locals,
                   calls, authorized>>

\* The readers are gone: Lock returns and Unlock follows at once.
Drain(t) ==
    /\ pc[t] = "drain" /\ readers = {}
    /\ Goto(t, IF transition = t THEN "authorize" ELSE "idle")
    /\ writer' = NoThread
    /\ returned' = IF seen[t] > returned THEN seen[t] ELSE returned
    /\ UNCHANGED <<mode, epoch, transition, readers, connection, sends, locals,
                   calls, authorized>>

-----------------------------------------------------------------------------
(* SetModeContext around the preflight.                                    *)

LockTransition(t) ==
    /\ pc[t] = "transition" /\ transition = NoThread /\ Goto(t, "bump")
    /\ transition' = t
    /\ UNCHANGED <<mode, epoch, writer, readers, connection, sends, locals, calls,
                   history>>

Authorize(t) ==
    /\ pc[t] = "authorize" /\ Goto(t, "lock")
    /\ UNCHANGED <<mode, epoch, locks, sends, locals, calls, history>>

Refuse(t) ==
    /\ pc[t] = "authorize" /\ Goto(t, "idle")
    /\ transition' = NoThread
    /\ UNCHANGED <<mode, epoch, writer, readers, connection, sends, locals, calls,
                   history>>

\* Mutant: a preflight never goes stale.
CheckNothing(t) ==
    /\ pc[t] = "check" /\ readers = {} /\ Goto(t, "open")
    /\ UNCHANGED <<mode, epoch, locks, sends, locals, calls, history>>

\* Under actionGate: a safety event since the preflight began refuses it.
CheckEpoch(t) ==
    /\ pc[t] = "check" /\ readers = {}
    /\ \/ /\ epoch = seen[t] /\ Goto(t, "open")
          /\ UNCHANGED <<transition, writer>>
       \/ /\ epoch # seen[t] /\ Goto(t, "idle")
          /\ transition' = NoThread /\ writer' = NoThread
    /\ UNCHANGED <<mode, epoch, readers, connection, sends, locals, calls, history>>

Open(t) ==
    /\ pc[t] = "open" /\ Goto(t, "idle")
    /\ mode' = wanted[t]
    /\ authorized' = seen[t]
    /\ transition' = NoThread /\ writer' = NoThread
    /\ UNCHANGED <<epoch, readers, connection, sends, locals, calls, returned>>

-----------------------------------------------------------------------------
(* sendRequest with a guard, and agentConnection.send.                     *)

RLock(t) ==
    /\ pc[t] = "rlock" /\ writer = NoThread /\ Goto(t, "register")
    /\ readers' = readers \cup {t}
    /\ UNCHANGED <<mode, epoch, transition, writer, connection, sends, locals, calls,
                   history>>

\* Mutant: nobody can cancel the write.
Unregistered(t) ==
    /\ pc[t] = "register" /\ Goto(t, "guard")
    /\ UNCHANGED <<mode, epoch, locks, sends, locals, calls, history>>

RegisterSend(t) ==
    /\ pc[t] = "register" /\ Goto(t, "guard")
    /\ guarded' = guarded \cup {t}
    /\ UNCHANGED <<mode, epoch, locks, cancelled, stops, outcome, locals, calls, history>>

\* Mutant: the guard trusts the mode RequestAction saw before the audit.
GuardNothing(t) ==
    /\ pc[t] = "guard" /\ Goto(t, "write")
    /\ UNCHANGED <<mode, epoch, locks, sends, locals, calls, history>>

\* The mode is read again; the request's own deadline may have passed.
Guard(t) ==
    /\ pc[t] = "guard"
    /\ \/ /\ Permits(mode, wanted[t]) /\ Goto(t, "write")
          /\ UNCHANGED outcome
       \/ /\ Goto(t, "finish")
          /\ outcome' = [outcome EXCEPT ![t] = "unsent"]
    /\ UNCHANGED <<mode, epoch, locks, guarded, cancelled, stops, locals, calls, history>>

\* A cancelled write may still win the select for the connection, but not
\* the second look at its context.
TakeConnection(t) ==
    /\ pc[t] = "write" /\ connection = NoThread /\ Goto(t, "recheck")
    /\ connection' = t
    /\ UNCHANGED <<mode, epoch, transition, writer, readers, sends, locals, calls, history>>

StartWrite(t) ==
    /\ pc[t] = "recheck" /\ t \notin cancelled /\ Goto(t, "writing")
    /\ UNCHANGED <<mode, epoch, locks, sends, locals, calls, history>>

EndSend(t, how) ==
    /\ Goto(t, "finish")
    /\ outcome' = [outcome EXCEPT ![t] = how]
    /\ connection' = IF connection = t THEN NoThread ELSE connection
    /\ UNCHANGED <<mode, epoch, transition, writer, readers, guarded, cancelled, stops,
                   locals, calls, history>>

Deliver(t) == pc[t] = "writing" /\ EndSend(t, "sent")

AbortCancelled(t) ==
    pc[t] \in {"write", "recheck", "writing"} /\ t \in cancelled /\ EndSend(t, "failed")

\* The request times out or the connection closes.
AbortTimeout(t) == pc[t] \in {"write", "recheck", "writing"} /\ EndSend(t, "failed")

\* Mutant: the audit failure pauses before the read lock is given back.
FinishHoldingGate(t) ==
    /\ pc[t] = "finish"
    /\ guarded' = guarded \ {t} /\ cancelled' = cancelled \ {t}
    /\ stops' = [u \in Threads |-> stops[u] \ {t}]
    /\ \/ Goto(t, "idle") /\ readers' = readers \ {t} /\ UNCHANGED target
       \/ /\ outcome[t] = "unsent" /\ Goto(t, "bump")
          /\ target' = [target EXCEPT ![t] = "PAUSED"]
          /\ UNCHANGED readers
    /\ outcome' = [outcome EXCEPT ![t] = "none"]
    /\ UNCHANGED <<mode, epoch, transition, writer, connection, wanted, seen, calls, history>>

\* The deferred unregister and RUnlock.  An action that was not sent is
\* closed in the audit; if that fails, the caller pauses.
Finish(t) ==
    /\ pc[t] = "finish"
    /\ guarded' = guarded \ {t} /\ cancelled' = cancelled \ {t}
    /\ stops' = [u \in Threads |-> stops[u] \ {t}]
    /\ readers' = readers \ {t}
    /\ \/ Goto(t, "idle") /\ UNCHANGED target
       \/ /\ outcome[t] = "unsent" /\ Goto(t, "bump")
          /\ target' = [target EXCEPT ![t] = "PAUSED"]
    /\ outcome' = [outcome EXCEPT ![t] = "none"]
    /\ UNCHANGED <<mode, epoch, transition, writer, connection, wanted, seen, calls, history>>

-----------------------------------------------------------------------------
Start(t) ==
    \/ \E m \in SafeModes : SetSafeMode(t, m)
    \/ AutomationPaused(t)
    \/ \E m \in InputModes : SetInputMode(t, m)
    \/ \E class \in Classes : RequestAction(t, class)

\* Steps that wait for somebody else.
Acquire(t) == LockTransition(t) \/ AnnounceWriter(t) \/ RLock(t) \/ TakeConnection(t)

Step(t) ==
    \/ BumpEpoch(t) \/ Publish(t) \/ CollectStops(t) \/ CancelSends(t) \/ Drain(t)
    \/ Authorize(t) \/ Refuse(t) \/ CheckEpoch(t) \/ Open(t)
    \/ RegisterSend(t) \/ Guard(t) \/ StartWrite(t)
    \/ Deliver(t) \/ AbortCancelled(t) \/ AbortTimeout(t) \/ Finish(t)

Next == \E t \in Threads : Start(t) \/ Acquire(t) \/ Step(t)

Spec == Init /\ [][Next]_vars

(***************************************************************************)
(* Goroutines run, Go's locks and channels do not starve a waiter, and a   *)
(* write ends: by itself, by its cancellation or by the request timeout.   *)
(* Nobody has to make a call.                                              *)
(***************************************************************************)
Fairness ==
    \A t \in Threads : WF_vars(Step(t)) /\ SF_vars(Acquire(t))

FairSpec == Spec /\ Fairness

-----------------------------------------------------------------------------
(* Properties.                                                             *)

Closing == {"bump", "publish", "collect", "cancel", "announce", "drain"}
Opening == {"transition", "authorize", "lock", "check", "open"}
PastGuard == {"write", "recheck", "writing"}
Sending == {"register", "guard", "finish"} \cup PastGuard

\* Every variable holds a value of its type, and the locks are held where the
\* code holds them: readers exactly inside a guarded send, the writer side
\* between Lock and Unlock.
TypeOK ==
    /\ mode \in SafeModes \cup InputModes
    /\ epoch \in Nat /\ calls \in Nat /\ authorized \in Nat /\ returned \in Nat
    /\ transition \in Threads \cup {NoThread}
    /\ writer \in Threads \cup {NoThread}
    /\ connection \in Threads \cup {NoThread}
    /\ pc \in [Threads -> {"idle", "rlock"} \cup Closing \cup Opening \cup Sending]
    /\ target \in [Threads -> SafeModes]
    /\ wanted \in [Threads -> {"none"} \cup InputModes \cup Classes]
    /\ seen \in [Threads -> Nat]
    /\ stops \in [Threads -> SUBSET Threads]
    /\ outcome \in [Threads -> {"none", "unsent", "sent", "failed"}]
    /\ readers = {t \in Threads : pc[t] \in Sending}
    /\ guarded = {t \in Threads : pc[t] \in Sending \ {"register"}}
    /\ cancelled \subseteq guarded
    /\ \A t \in Threads : writer = t <=> pc[t] \in {"drain", "check", "open"}

\* A write that passed its guard either is still allowed by the mode, or is
\* cancelled, or is about to be: whoever closed the gate under it has not yet
\* looked for, or holds, its cancel function.  So a pause never waits for a
\* network write that nobody has told to stop.
WriteAllowedOrDoomed ==
    \A t \in Threads : pc[t] \in PastGuard =>
        \/ Permits(mode, wanted[t])
        \/ t \in cancelled
        \/ \E u \in Threads : pc[u] = "collect" \/ t \in stops[u]

\* No message crosses an opening or the end of a closing of the gate: the
\* mode is raised, and closeInputGate returns, only with no write under way.
NoWriteAcrossTheGate ==
    [][(returned' # returned \/ (mode \notin InputModes /\ mode' \in InputModes)) =>
          \A t \in Threads : pc[t] \notin PastGuard]_vars

\* When SCAN or TRADE is entered, no closing of the gate has returned since the
\* preflight that allowed it began.
ReturnedPauseHolds ==
    [][mode \notin InputModes /\ mode' \in InputModes => returned <= authorized']_vars

\* Every call returns: no lock is waited for forever, whoever holds it, and an
\* audit failure inside a sender can still pause.
CallsReturn == \A t \in Threads : pc[t] # "idle" ~> pc[t] = "idle"

\* What SetModeContext promises: "any safety transition invalidates the result
\* before the action gate can reopen".  An open gate was authorized at the
\* current epoch, unless the closer has not published its mode yet.
OpenIsAuthorized ==
    mode \in InputModes /\ (\A t \in Threads : pc[t] # "publish") => authorized = epoch

=============================================================================

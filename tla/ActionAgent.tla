---------------------------- MODULE ActionAgent ----------------------------
(***************************************************************************)
(* agent.ActionExecutor: how the Windows agent carries out one action on   *)
(* the game's window, with the frames of agent.TrackingCapture and the     *)
(* local stop of agent.SafetySupervisor.                                   *)
(*                                                                         *)
(* A frame is the screen the game showed when it was captured and the      *)
(* value in its critical regions (a price, a quantity, the pressed         *)
(* button); screen and value change by themselves as well as by input.     *)
(* The detector names the screen of a frame or is not confident; it does   *)
(* not name another screen.  captureMu keeps every other capture out while *)
(* an action runs.                                                         *)
(***************************************************************************)
EXTENDS Integers

CONSTANTS
    Screens,    \* domain.ScreenState without UNKNOWN
    Values,     \* what the critical regions may show
    Unknown,    \* UNKNOWN, or a confidence below the limit
    MaxDrifts,  \* bound: changes of the screen that no input caused
    Nothing

\* The number of the frame, the screen it shows and its critical values.
Frames == [id : Nat, state : Screens \cup {Unknown}, value : Values]

ActionClasses == {"NAVIGATION", "PURCHASE", "BARTER", "LISTING", "REPRICE"}

Requests ==
    [step : Nat, attempt : Nat, from : Screens, to : Screens, class : ActionClasses,
     calls : Nat \ {0}, based : Frames]
Executions ==
    [request : Requests, at : {"verify", "ready", "check", "call", "control"},
     before : Frames \cup {Nothing}, made : Nat]
Results ==
    [request : Requests, success : BOOLEAN, safe : BOOLEAN, frame : Nat,
     state : Screens \cup {Unknown}]

ASSUME ScreensAssumption == Unknown \notin Screens /\ MaxDrifts \in Nat
ASSUME NothingAssumption ==
    Nothing \notin Executions /\ Nothing \notin Results /\ Nothing \notin Frames
        /\ Nothing \notin Values

VARIABLES
    screen,     \* what the game shows
    drifts,
    latest,     \* TrackingCapture.latest, the number of the last frame
    blocked,    \* SafetySupervisor.Paused
    exec,       \* the action under way, or Nothing
    answer,     \* the result the caller has yet to take, or Nothing
    \* history
    begun,      \* requests whose input was begun, with the frame before it
    performed,  \* calls of the input driver, by path step
    lateCalls   \* calls of the input driver since the stop

gameVars == <<screen, drifts>>
historyVars == <<begun, performed, lateCalls>>
agentVars == <<gameVars, latest, blocked, exec, answer, historyVars>>

AgentInit ==
    /\ screen \in [state : Screens, value : Values] /\ drifts = 0
    /\ latest = 0 /\ blocked = FALSE
    /\ exec = Nothing /\ answer = Nothing
    /\ begun = {} /\ performed = <<>> /\ lateCalls = 0

Captured == [id |-> latest + 1, state |-> screen.state, value |-> screen.value]

Detected(frame) == {frame.state, Unknown}

-----------------------------------------------------------------------------
(* The world around the agent.                                             *)

\* A pop-up, another player's offer, an animation that ends.
Drift ==
    /\ drifts < MaxDrifts
    /\ drifts' = drifts + 1
    /\ screen' \in [state : Screens, value : Values] \ {screen}
    /\ UNCHANGED <<latest, blocked, exec, answer, historyVars>>

\* The hot key, a failed safety monitor or EMERGENCY_STOP.
Stop ==
    /\ ~blocked
    /\ blocked' = TRUE
    /\ UNCHANGED <<gameVars, latest, exec, answer, historyVars>>

-----------------------------------------------------------------------------
(* Execute.                                                                *)

\* The request enters actionLoop.
Submit(request) ==
    /\ exec = Nothing
    /\ exec' = [request |-> request, at |-> "verify", before |-> Nothing, made |-> 0]
    /\ UNCHANGED <<gameVars, latest, blocked, answer, historyVars>>

Answer(success, safe, id, state) ==
    /\ answer' = [request |-> exec.request, success |-> success, safe |-> safe,
                  frame |-> id, state |-> state]
    /\ exec' = Nothing

\* fail: a failure is safe to retry only if no input was attempted.
Fail(id, state, attempted) == Answer(FALSE, ~attempted, id, state)

\* The critical regions show what they showed in the frame acted upon.
SameBasis(frame, based) == frame.value = based.value

At(phase) == exec # Nothing /\ exec.at = phase

\* A malformed or late request, a stopped agent, a stale frame, a wrong
\* window or a failed capture: the action ends with no frame at all.
RefuseAction ==
    /\ At("verify")
    /\ Fail(0, Unknown, FALSE)
    /\ UNCHANGED <<gameVars, latest, blocked, historyVars>>

\* The frame before the input must show what the request is based on: the
\* critical regions, or the whole frame of a request that has none.
Verify ==
    /\ At("verify")
    /\ ~blocked /\ exec.request.based.id = latest
    /\ latest' = Captured.id
    /\ \/ /\ ~SameBasis(Captured, exec.request.based) \/ Captured.state # exec.request.from
          /\ Fail(Captured.id, Unknown, FALSE)
       \/ /\ SameBasis(Captured, exec.request.based)
          /\ \E state \in Detected(Captured) :
                IF state = exec.request.from
                THEN /\ exec' = [exec EXCEPT !.at = "ready", !.before = Captured]
                     /\ UNCHANGED answer
                ELSE Fail(Captured.id, state, FALSE)
    /\ UNCHANGED <<gameVars, blocked, historyVars>>

\* The window is looked at again, then the stop, then the deadline.
LoseFocus ==
    /\ At("ready")
    /\ Fail(exec.before.id, exec.request.from, FALSE)
    /\ UNCHANGED <<gameVars, latest, blocked, historyVars>>

BeginInput ==
    /\ At("ready")
    /\ latest = exec.before.id /\ ~blocked
    /\ exec' = [exec EXCEPT !.at = "check"]
    /\ begun' = begun \cup {[request |-> exec.request, before |-> exec.before]}
    /\ UNCHANGED <<gameVars, latest, blocked, answer, performed, lateCalls>>

-----------------------------------------------------------------------------
(* perform: ensureInputAllowed before every call of the driver.  A click   *)
(* at a point is two calls, a sequence those of its steps.                 *)

\* Mutant: the stop is looked at once, before the first call.
CheckFirstInput ==
    /\ At("check")
    /\ IF blocked /\ exec.made = 0
       THEN Fail(exec.before.id, exec.request.from, TRUE)
       ELSE exec' = [exec EXCEPT !.at = "call"] /\ UNCHANGED answer
    /\ UNCHANGED <<gameVars, latest, blocked, historyVars>>

CheckInput ==
    /\ At("check")
    /\ IF blocked
       THEN Fail(exec.before.id, exec.request.from, TRUE)
       ELSE exec' = [exec EXCEPT !.at = "call"] /\ UNCHANGED answer
    /\ UNCHANGED <<gameVars, latest, blocked, historyVars>>

\* Calls of the driver for a step of the path.
Made(step) == IF step \in DOMAIN performed THEN performed[step] ELSE 0

\* The driver may fail halfway, and is made to when the monitor sees a stop.
DriverCall ==
    /\ At("call")
    /\ screen' \in [state : Screens, value : Values]
    /\ performed' = [s \in DOMAIN performed \cup {exec.request.step} |->
                        IF s = exec.request.step THEN Made(s) + 1 ELSE performed[s]]
    /\ lateCalls' = IF blocked THEN lateCalls + 1 ELSE lateCalls
    /\ \/ Fail(exec.before.id, exec.request.from, TRUE)
       \/ /\ exec' = [exec EXCEPT !.made = @ + 1,
                                  !.at = IF exec.made + 1 < exec.request.calls
                                         THEN "check" ELSE "control"]
          /\ UNCHANGED answer
    /\ UNCHANGED <<drifts, latest, blocked, begun>>

\* The control frame must show the expected screen before the deadline.
Control ==
    /\ At("control")
    /\ \/ Fail(exec.before.id, exec.request.from, TRUE) /\ UNCHANGED latest
       \/ /\ latest' = Captured.id
          /\ \E state \in Detected(Captured) :
                \/ state = exec.request.to /\ Answer(TRUE, FALSE, Captured.id, state)
                \/ Fail(Captured.id, state, TRUE)
    /\ UNCHANGED <<gameVars, blocked, historyVars>>

AgentStep ==
    \/ RefuseAction \/ Verify \/ LoseFocus \/ BeginInput
    \/ CheckInput \/ DriverCall \/ Control
=============================================================================

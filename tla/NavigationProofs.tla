-------------------------- MODULE NavigationProofs --------------------------
(***************************************************************************)
(* Proofs about module Navigation, with the agent of ActionAgent, for any  *)
(* graph navigation.New accepts, any number of retries, of changes of the  *)
(* screen and of frames others capture.                                    *)
(*                                                                         *)
(* The route and the agent meet in one hand-over: what the route asks for  *)
(* is the transition it is at, whose input was not begun before; what it   *)
(* gets back tells whether it was.  A retry needs a result that is "safe", *)
(* which the agent gives only for an input not begun; a success is given   *)
(* only after all calls of the driver; and the values of a monetary        *)
(* transition are checked on the very frame its request is based on.       *)
(*                                                                         *)
(* The search is breadth first: its queue is sorted by the length of the   *)
(* paths, so that no state found lies nearer than its path says, and every *)
(* route leads through a state whose edges are still to be followed.       *)
(***************************************************************************)
EXTENDS Navigation, FiniteSetTheorems, SequenceTheorems, TLAPS

States == Screens \cup {Unknown}
Nodes == [state : States, path : Seq(Edges)]
Phases ==
    {"start", "look", "search", "ready", "waiting", "answered", "reobserve", "done", "failed"}
Walking == {"ready", "waiting", "answered", "reobserve"}

-----------------------------------------------------------------------------
(* The agent's part of the inductive invariant.                            *)

AgentTypes ==
    /\ screen \in [state : Screens, value : Values]
    /\ latest \in Nat /\ blocked \in BOOLEAN
    /\ exec \in Executions \cup {Nothing} /\ answer \in Results \cup {Nothing}
    /\ begun \subseteq [request : Requests, before : Frames]
    /\ lateCalls \in Nat /\ \A t \in Nat : Made(t) \in Nat

\* The call after the stop is the one whose check had passed, and only one is.
OneLateCall ==
    /\ lateCalls <= 1
    /\ ~blocked \/ At("call") => lateCalls = 0

\* No input of the path from a step on.
Untouched(s) ==
    /\ \A b \in begun : b.request.step < s
    /\ \A t \in Nat : t >= s => Made(t) = 0

\* No input of the path beyond a step.
Reached(s) ==
    /\ \A b \in begun : b.request.step <= s
    /\ \A t \in Nat : t > s => Made(t) = 0

\* The frame before the input shows what the request was based on.
Grounded(request, frame) ==
    frame.value = request.based.value /\ frame.state = request.from

\* How far the action under way has come.
Working ==
    exec # Nothing =>
        /\ answer = Nothing
        /\ Reached(exec.request.step) /\ Made(exec.request.step) = exec.made
        /\ exec.at \in {"verify", "ready"} => Untouched(exec.request.step)
        /\ exec.at \in {"check", "call"} => exec.made < exec.request.calls
        /\ exec.at = "control" => exec.made = exec.request.calls
        /\ exec.at # "verify" =>
              /\ exec.before \in Frames /\ exec.before.id <= latest
              /\ Grounded(exec.request, exec.before)

\* What a result says of the input is true.
Finished(r) ==
    /\ Reached(r.request.step)
    /\ r.safe => Untouched(r.request.step) /\ ~r.success
    /\ r.success => Made(r.request.step) = r.request.calls

Answered == answer # Nothing => Finished(answer)

\* Inputs are begun once a step, and all before the frames to come.
BegunOnce ==
    /\ \A a, b \in begun : a.request.step = b.request.step => a = b
    /\ \A b \in begun : b.before.id <= latest

AgentPart == AgentTypes /\ OneLateCall /\ Working /\ Answered /\ BegunOnce

-----------------------------------------------------------------------------
(* The route's part.                                                       *)

RouteTypes ==
    /\ graph \in Graphs /\ class \in Classes /\ phase \in Phases
    /\ search \in [queue : Seq(Nodes), seen : SUBSET States, node : Nodes, left : SUBSET Nat]
    /\ path \in Seq(Edges) /\ step \in Nat \ {0} /\ attempt \in Nat
    /\ view \in [frame : Frames, state : States]
    /\ result \in Results \cup {Nothing} /\ commit \in Values \cup {Nothing}

\* Navigation all the way from one state to another.
Walk(p, from, to) ==
    IF p = <<>> THEN from = to
    ELSE /\ p[1].from = from /\ p[Len(p)].to = to
         /\ \A i \in 1 .. Len(p) - 1 : p[i].to = p[i + 1].from
         /\ \A i \in 1 .. Len(p) : p[i].class = "NAVIGATION"

\* Every node of the search is reached by navigation.
Searched ==
    phase = "search" =>
        /\ Walk(search.node.path, view.state, search.node.state)
        /\ \A n \in 1 .. Len(search.queue) :
              Walk(search.queue[n].path, view.state, search.queue[n].state)
        /\ \A i \in search.left : i \in 1 .. Len(graph) /\ graph[i].from = search.node.state

\* The path found is a route, and it is walked from its beginning.
Found ==
    phase \in Walking =>
        /\ step \in 1 .. Len(path) /\ IsRoute(path, path[1].from)
        /\ \A i \in 1 .. Len(path) : path[i].class # "NAVIGATION" => path[i].retries = 0
        /\ step = 1 /\ attempt = 0 /\ phase = "ready" => path[1].from = view.state

\* Every call of every transition before a step was made.
CompleteUpTo(s) == \A i \in 1 .. s - 1 : Made(i) = path[i].calls

\* A request is for the transition the route is at.
Asks(request) ==
    /\ request.step = step /\ request.calls = Edge.calls /\ request.class = Edge.class
    /\ request.to = Edge.to

\* Who has the transition: the route, the agent, or neither yet.
HandOver ==
    /\ phase \in {"start", "look", "search"} =>
          /\ exec = Nothing /\ answer = Nothing /\ commit = Nothing
          /\ step = 1 /\ attempt = 0 /\ path = <<>> /\ Untouched(1) /\ begun = {}
    /\ phase = "ready" =>
          exec = Nothing /\ answer = Nothing /\ Untouched(step) /\ CompleteUpTo(step)
    /\ phase = "waiting" =>
          /\ exec # Nothing => Asks(exec.request)
          /\ answer # Nothing => Asks(answer.request)
          /\ CompleteUpTo(step)
    /\ phase \in {"answered", "reobserve"} =>
          /\ exec = Nothing /\ answer = Nothing /\ result # Nothing
          /\ Finished(result) /\ Asks(result.request) /\ CompleteUpTo(step)

\* The values accepted are those of the frame the monetary request is based on.
Checked ==
    /\ commit # Nothing /\ phase # "failed" =>
          /\ commit = Agreed /\ Monetary /\ step = Len(path)
          /\ phase = "ready" => view.frame.value = Agreed
    /\ exec # Nothing /\ exec.request.class # "NAVIGATION" =>
          commit = Agreed /\ exec.request.based.value = Agreed

RoutePart == RouteTypes /\ Searched /\ Found /\ HandOver /\ Checked

-----------------------------------------------------------------------------
Arrived ==
    phase = "done" =>
        /\ exec = Nothing /\ view.state = Target
        /\ CompleteUpTo(Len(path) + 1)
        /\ \A b \in begun : b.before.id < view.frame.id

IInv == AgentPart /\ RoutePart /\ MoneyOnAcceptedValues /\ Arrived

-----------------------------------------------------------------------------
(* The agent's steps.                                                      *)

\* The count of the driver's calls.
LEMMA MadeFacts ==
    /\ performed' = performed => \A t : Made(t)' = Made(t)
    /\ DriverCall /\ exec # Nothing =>
          \A t : Made(t)' = IF t = exec.request.step THEN Made(t) + 1 ELSE Made(t)
<1>1. performed' = performed => \A t : Made(t)' = Made(t)
  BY DEF Made
<1>2. ASSUME DriverCall, NEW t
      PROVE  Made(t)' = IF t = exec.request.step THEN Made(t) + 1 ELSE Made(t)
  <2> DEFINE s == exec.request.step
  <2>1. performed' = [u \in DOMAIN performed \cup {s} |-> IF u = s THEN Made(s) + 1 ELSE performed[u]]
    BY <1>2 DEF DriverCall
  <2> HIDE DEF s
  <2>2. /\ DOMAIN performed' = DOMAIN performed \cup {s}
        /\ performed'[s] = Made(s) + 1
        /\ \A u \in DOMAIN performed \ {s} : performed'[u] = performed[u]
    BY <2>1
  <2>3. Made(t)' = IF t \in DOMAIN performed' THEN performed'[t] ELSE 0
    BY DEF Made
  <2>4. CASE t = s
    BY <2>2, <2>3, <2>4 DEF s
  <2>5. CASE t # s
    <3>1. Made(t)' = Made(t) BY <2>2, <2>3, <2>5 DEF Made
    <3> QED BY <3>1, <2>5 DEF s
  <2> QED BY <2>4, <2>5
<1> QED BY <1>1, <1>2

\* Fields of an action under way.
LEMMA ExecFacts ==
    ASSUME AgentTypes, exec # Nothing
    PROVE  /\ exec \in Executions /\ exec.request \in Requests /\ exec.made \in Nat
           /\ exec.request.step \in Nat /\ exec.request.calls \in Nat \ {0}
           /\ exec.request.based \in Frames /\ exec.request.from \in Screens
           /\ exec.before \in Frames \cup {Nothing}
  BY DEF AgentTypes, Executions, Requests

\* The action ends with a result that is true.
LEMMA AnswerStep ==
    ASSUME AgentPart, exec # Nothing, NEW success \in BOOLEAN, NEW safe \in BOOLEAN,
           NEW id \in Nat, NEW state \in States, Answer(success, safe, id, state),
           UNCHANGED <<begun, performed>>,
           screen' \in [state : Screens, value : Values], blocked' = blocked, lateCalls' = lateCalls,
           latest' \in Nat, latest' >= latest,
           safe => Untouched(exec.request.step) /\ ~success,
           success => exec.made = exec.request.calls
    PROVE  AgentPart'
<1>1. PICK r \in Results :
         /\ answer' = r /\ exec' = Nothing
         /\ r.request = exec.request /\ r.safe = safe /\ r.success = success
  <2> DEFINE q == [request |-> exec.request, success |-> success, safe |-> safe,
                   frame |-> id, state |-> state]
  <2>1. answer' = q /\ exec' = Nothing BY DEF Answer
  <2>2. q \in Results BY ExecFacts DEF AgentPart, Results, States
  <2>3. q.request = exec.request /\ q.safe = safe /\ q.success = success OBVIOUS
  <2> HIDE DEF q
  <2> QED BY <2>1, <2>2, <2>3
<1>5. \A t : Made(t)' = Made(t)
  BY MadeFacts
<1>6. AgentTypes'
  BY <1>1, <1>5 DEF AgentPart, AgentTypes
<1>7. OneLateCall'
  BY <1>1 DEF AgentPart, OneLateCall, At
<1>8. Working'
  BY <1>1 DEF Working
<1>9. Finished(r)
  BY <1>1 DEF AgentPart, Working, Finished
<1>10. Answered'
  <2>1. /\ \A b \in begun' : b.request.step <= r.request.step
        /\ \A t \in Nat : t > r.request.step => Made(t)' = 0
    BY <1>5, <1>9 DEF Finished, Reached
  <2>2. r.safe => /\ \A b \in begun' : b.request.step < r.request.step
                  /\ \A t \in Nat : t >= r.request.step => Made(t)' = 0
                  /\ ~r.success
    BY <1>5, <1>9 DEF Finished, Untouched
  <2>3. r.success => Made(r.request.step)' = r.request.calls
    BY <1>5, <1>9 DEF Finished
  <2> QED BY <1>1, <2>1, <2>2, <2>3 DEF Answered, Finished, Reached, Untouched
<1>11. BegunOnce'
  BY DEF AgentPart, AgentTypes, BegunOnce, Frames
<1> QED BY <1>6, <1>7, <1>8, <1>10, <1>11 DEF AgentPart

\* The action goes on to a later phase, without input.
LEMMA OnwardStep ==
    ASSUME AgentPart, exec # Nothing, exec' \in Executions,
           exec'.request = exec.request, exec'.made = exec.made,
           UNCHANGED <<begun, performed, screen, blocked, lateCalls, answer>>,
           latest' \in Nat, latest' >= latest,
           exec'.at = "call" => lateCalls = 0,
           exec'.at \in {"verify", "ready"} => exec.at \in {"verify", "ready"},
           exec'.at \in {"check", "call"} => exec'.made < exec'.request.calls,
           exec'.at # "control" ,
           exec'.at # "verify" =>
              /\ exec'.before \in Frames /\ exec'.before.id <= latest'
              /\ Grounded(exec'.request, exec'.before)
    PROVE  AgentPart'
<1>1. \A t : Made(t)' = Made(t)
  BY MadeFacts
<1>2. AgentTypes'
  BY <1>1 DEF AgentPart, AgentTypes
<1>3. OneLateCall'
  BY DEF AgentPart, OneLateCall, At
<1>4. Working'
  <2>1. PICK s : s = exec.request.step OBVIOUS
  <2>2. Made(s)' = exec'.made /\ exec'.request.step = s
    BY <1>1, <2>1 DEF AgentPart, Working
  <2> QED BY <2>2, <1>1 DEF AgentPart, Working, Reached, Untouched, Grounded
<1>5. Answered'
  BY <1>1 DEF AgentPart, Answered, Finished, Reached, Untouched
<1>6. BegunOnce'
  BY DEF AgentPart, AgentTypes, BegunOnce, Frames
<1> QED BY <1>2, <1>3, <1>4, <1>5, <1>6 DEF AgentPart

\* A refused action has begun no input.
LEMMA RefuseActionStep ==
    ASSUME AgentPart, RefuseAction
    PROVE  AgentPart'
<1>1. /\ exec # Nothing /\ exec.at = "verify" /\ Answer(FALSE, TRUE, 0, Unknown)
      /\ UNCHANGED <<screen, latest, blocked, begun, performed, lateCalls>>
  BY DEF RefuseAction, At, Fail, gameVars, historyVars
<1>2. /\ latest' \in Nat /\ latest' >= latest /\ screen' \in [state : Screens, value : Values]
      /\ Unknown \in States /\ 0 \in Nat
  BY <1>1 DEF AgentPart, AgentTypes, States
<1>3. Untouched(exec.request.step)
  BY <1>1 DEF AgentPart, Working
<1> QED BY <1>1, <1>2, <1>3, AnswerStep

\* What a captured frame is made of.
LEMMA CapturedFacts ==
    ASSUME AgentTypes
    PROVE  /\ Captured \in Frames /\ Captured.id = latest + 1 /\ latest + 1 \in Nat
           /\ Captured.value = screen.value /\ Captured.state = screen.state
           /\ Detected(Captured) \subseteq States /\ latest \in Nat
<1>1. latest \in Nat /\ screen.state \in Screens /\ screen.value \in Values
  BY DEF AgentTypes
<1> QED BY <1>1 DEF Captured, Frames, Detected, States

\* The screen is verified before the input.
LEMMA VerifyStep ==
    ASSUME AgentPart, Verify
    PROVE  AgentPart'
<1>1. /\ exec # Nothing /\ exec.at = "verify"
      /\ UNCHANGED <<screen, blocked, begun, performed, lateCalls>> /\ latest' = latest + 1
      /\ latest' \in Nat /\ latest' >= latest /\ screen \in [state : Screens, value : Values]
  BY CapturedFacts DEF AgentPart, AgentTypes, Verify, At, gameVars, historyVars
<1>2. Captured \in Frames /\ Captured.id = latest' /\ Detected(Captured) \subseteq States
  BY <1>1, CapturedFacts DEF AgentPart
<1>3. ASSUME NEW state \in States, Fail(Captured.id, state, FALSE) PROVE AgentPart'
  <2>1. Answer(FALSE, TRUE, Captured.id, state) BY <1>3 DEF Fail
  <2>2. Untouched(exec.request.step) BY <1>1 DEF AgentPart, Working
  <2>3. Captured.id \in Nat BY <1>1, <1>2
  <2> QED BY <1>1, <2>1, <2>2, <2>3, AnswerStep
<1>4. CASE SameBasis(Captured, exec.request.based) /\ answer' = answer
           /\ exec.request.from \in Detected(Captured)
           /\ exec' = [exec EXCEPT !.at = "ready", !.before = Captured]
  <2>1. exec \in Executions BY <1>1, ExecFacts DEF AgentPart
  <2>2. /\ exec' \in Executions /\ exec'.request = exec.request /\ exec'.made = exec.made
        /\ exec'.at = "ready" /\ exec'.before = Captured
    BY <1>2, <1>4, <2>1 DEF Executions
  <2>3. exec.request.from = Captured.state
    BY <1>1, <1>4, ExecFacts, ScreensAssumption DEF AgentPart, Detected
  <2>4. Grounded(exec'.request, exec'.before)
    BY <1>4, <2>2, <2>3 DEF Grounded, SameBasis
  <2> QED BY <1>1, <1>2, <1>4, <2>2, <2>4, OnwardStep
<1>5. Unknown \in States BY DEF States
<1> QED BY <1>2, <1>3, <1>4, <1>5 DEF Verify

\* The window has lost its focus: nothing was begun.
LEMMA LoseFocusStep ==
    ASSUME AgentPart, LoseFocus
    PROVE  AgentPart'
<1>1. /\ exec # Nothing /\ exec.at = "ready"
      /\ Answer(FALSE, TRUE, exec.before.id, exec.request.from)
      /\ UNCHANGED <<screen, latest, blocked, begun, performed, lateCalls>>
  BY DEF LoseFocus, At, Fail, gameVars, historyVars
<1>2. latest' \in Nat /\ latest' >= latest /\ screen' \in [state : Screens, value : Values]
  BY <1>1 DEF AgentPart, AgentTypes
<1>3. exec.before.id \in Nat /\ exec.request.from \in States
  BY <1>1, ExecFacts DEF AgentPart, Working, Frames, States
<1>4. Untouched(exec.request.step)
  BY <1>1 DEF AgentPart, Working
<1> QED BY <1>1, <1>2, <1>3, <1>4, AnswerStep

\* The input begins: its step has none yet.
LEMMA BeginInputStep ==
    ASSUME AgentPart, BeginInput
    PROVE  AgentPart'
<1>1. /\ exec # Nothing /\ exec.at = "ready" /\ exec' = [exec EXCEPT !.at = "check"]
      /\ begun' = begun \cup {[request |-> exec.request, before |-> exec.before]}
      /\ UNCHANGED <<screen, latest, blocked, answer, performed, lateCalls>>
  BY DEF BeginInput, At, gameVars
<1>2. PICK s \in Nat : s = exec.request.step
  BY <1>1, ExecFacts DEF AgentPart
<1>3. /\ exec \in Executions /\ exec' \in Executions /\ exec'.request = exec.request
      /\ exec'.at = "check" /\ exec'.before = exec.before /\ exec'.made = exec.made
  BY <1>1, ExecFacts DEF AgentPart, Executions
<1>4. /\ Untouched(s) /\ Reached(s) /\ exec.before \in Frames /\ exec.before.id <= latest
      /\ Grounded(exec.request, exec.before) /\ Made(s) = exec.made
  BY <1>1, <1>2 DEF AgentPart, Working
<1>5. exec.made < exec.request.calls
  BY <1>2, <1>4, <1>1, ExecFacts DEF AgentPart, Untouched
<1>6. PICK b \in [request : Requests, before : Frames] :
         begun' = begun \cup {b} /\ b.request = exec.request /\ b.before = exec.before
  <2> DEFINE new == [request |-> exec.request, before |-> exec.before]
  <2>1. exec.request \in Requests BY <1>1, ExecFacts DEF AgentPart
  <2>2. new \in [request : Requests, before : Frames] BY <1>4, <2>1
  <2>3. begun' = begun \cup {new} BY <1>1
  <2>4. new.request = exec.request /\ new.before = exec.before OBVIOUS
  <2> HIDE DEF new
  <2> QED BY <2>2, <2>3, <2>4
<1>7. \A t : Made(t)' = Made(t)
  BY <1>1, MadeFacts
<1>8. AgentTypes'
  BY <1>1, <1>3, <1>6, <1>7 DEF AgentPart, AgentTypes
<1>9. OneLateCall'
  BY <1>1, <1>3 DEF AgentPart, OneLateCall, At
<1>10. Working'
  <2>1. Made(s)' = exec'.made /\ exec'.request.step = s /\ answer' = Nothing
    BY <1>1, <1>2, <1>3, <1>4, <1>7 DEF AgentPart, Working
  <2>2. Reached(s)' BY <1>2, <1>4, <1>6, <1>7 DEF Reached
  <2>3. /\ exec'.before \in Frames /\ exec'.before.id <= latest'
        /\ exec'.before.value = exec'.request.based.value /\ exec'.before.state = exec'.request.from
    BY <1>1, <1>3, <1>4 DEF Grounded
  <2>4. exec'.made < exec'.request.calls BY <1>3, <1>5
  <2> QED BY <1>3, <2>1, <2>2, <2>3, <2>4 DEF Working, Grounded, Reached
<1>11. Answered'
  BY <1>1 DEF AgentPart, Working, Answered
<1>12. BegunOnce'
  <2>1. \A a \in begun : a.request.step # s
    <3>1. \A a \in begun : a.request.step < s /\ a.request.step \in Nat
      BY <1>4 DEF AgentPart, AgentTypes, Untouched, Requests
    <3> QED BY <3>1
  <2> QED BY <1>1, <1>2, <1>4, <1>6, <2>1 DEF AgentPart, BegunOnce
<1> QED BY <1>8, <1>9, <1>10, <1>11, <1>12 DEF AgentPart

\* The check before a call: only an agent that is not stopped goes on to it.
LEMMA CheckInputStep ==
    ASSUME AgentPart, CheckInput
    PROVE  AgentPart'
<1>1. /\ exec # Nothing /\ exec.at = "check"
      /\ UNCHANGED <<screen, latest, blocked, begun, performed, lateCalls>>
  BY DEF CheckInput, At, gameVars, historyVars
<1>2. latest' \in Nat /\ latest' >= latest /\ screen' \in [state : Screens, value : Values]
  BY <1>1 DEF AgentPart, AgentTypes
<1>3. exec.before \in Frames /\ exec.request.from \in States /\ exec.before.id \in Nat
  BY <1>1, ExecFacts DEF AgentPart, Working, Frames, States
<1>4. CASE blocked
  <2>1. Answer(FALSE, FALSE, exec.before.id, exec.request.from)
    BY <1>4 DEF CheckInput, Fail
  <2> QED BY <1>1, <1>2, <1>3, <2>1, AnswerStep
<1>5. CASE ~blocked
  <2>1. exec' = [exec EXCEPT !.at = "call"] /\ answer' = answer
    BY <1>5 DEF CheckInput
  <2>2. /\ exec' \in Executions /\ exec'.request = exec.request /\ exec'.made = exec.made
        /\ exec'.at = "call" /\ exec'.before = exec.before
    BY <1>1, <2>1, ExecFacts DEF AgentPart, Executions
  <2>3. lateCalls = 0 BY <1>5 DEF AgentPart, OneLateCall
  <2>4. exec.made < exec.request.calls /\ exec.before.id <= latest /\ Grounded(exec.request, exec.before)
    BY <1>1 DEF AgentPart, Working
  <2> QED BY <1>1, <1>2, <1>3, <2>1, <2>2, <2>3, <2>4, OnwardStep
<1> QED BY <1>4, <1>5

\* A call of the driver: counted, late if the stop came after its check.
LEMMA DriverCallStep ==
    ASSUME AgentPart, DriverCall
    PROVE  AgentPart'
<1>1. /\ exec # Nothing /\ exec.at = "call" /\ UNCHANGED <<latest, blocked, begun>>
      /\ screen' \in [state : Screens, value : Values]
      /\ lateCalls' = IF blocked THEN lateCalls + 1 ELSE lateCalls
  BY DEF DriverCall, At
<1>2. PICK s \in Nat : s = exec.request.step
  BY <1>1, ExecFacts DEF AgentPart
<1>3. \A t : Made(t)' = IF t = s THEN Made(t) + 1 ELSE Made(t)
  BY <1>1, <1>2, MadeFacts
<1>4. /\ Reached(s) /\ Made(s) = exec.made /\ exec.made < exec.request.calls
      /\ exec.before \in Frames /\ exec.before.id <= latest /\ Grounded(exec.request, exec.before)
      /\ lateCalls = 0 /\ answer = Nothing
  BY <1>1, <1>2 DEF AgentPart, Working, OneLateCall, At
<1>5. lateCalls' \in Nat /\ lateCalls' <= 1 /\ (~blocked' => lateCalls' = 0)
  BY <1>1, <1>4
<1>6. \A t \in Nat : Made(t)' \in Nat
  BY <1>3 DEF AgentPart, AgentTypes
<1>7. Reached(s)'
  BY <1>1, <1>2, <1>3, <1>4 DEF Reached
<1>8. BegunOnce'
  BY <1>1 DEF AgentPart, BegunOnce
<1>9. CASE Fail(exec.before.id, exec.request.from, TRUE)
  <2>1. PICK r \in Results :
           /\ answer' = r /\ exec' = Nothing
           /\ r.request = exec.request /\ ~r.safe /\ ~r.success
    <3> DEFINE q == [request |-> exec.request, success |-> FALSE, safe |-> FALSE,
                     frame |-> exec.before.id, state |-> exec.request.from]
    <3>1. answer' = q /\ exec' = Nothing BY <1>9 DEF Fail, Answer
    <3>2. exec.before.id \in Nat BY <1>4 DEF Frames
    <3>3. q \in Results BY <1>1, <3>2, ExecFacts DEF AgentPart, Results
    <3>4. q.request = exec.request /\ ~q.safe /\ ~q.success OBVIOUS
    <3> HIDE DEF q
    <3> QED BY <3>1, <3>3, <3>4
  <2>2. AgentTypes' BY <1>1, <1>5, <1>6, <2>1 DEF AgentPart, AgentTypes
  <2>3. OneLateCall' BY <1>5, <2>1 DEF OneLateCall, At
  <2>4. Working' BY <2>1 DEF Working
  <2>5. Answered' BY <1>2, <1>7, <2>1 DEF Answered, Finished
  <2> QED BY <1>8, <2>2, <2>3, <2>4, <2>5 DEF AgentPart
<1>10. CASE /\ exec' = [exec EXCEPT !.made = @ + 1,
                                   !.at = IF exec.made + 1 < exec.request.calls
                                          THEN "check" ELSE "control"]
            /\ UNCHANGED answer
  <2>1. exec \in Executions /\ exec.made \in Nat /\ exec.request.calls \in Nat
    BY <1>1, ExecFacts DEF AgentPart
  <2>2. /\ exec' \in Executions /\ exec'.request = exec.request /\ exec'.before = exec.before
        /\ exec'.made = exec.made + 1
        /\ exec'.at = IF exec.made + 1 < exec.request.calls THEN "check" ELSE "control"
    <3>1. PICK at \in {"check", "control"} :
             at = IF exec.made + 1 < exec.request.calls THEN "check" ELSE "control"
      OBVIOUS
    <3>2. PICK n \in Nat : n = exec.made + 1 BY <2>1
    <3>3. exec' = [exec EXCEPT !.made = n, !.at = at] BY <1>10, <3>1, <3>2
    <3> QED BY <2>1, <3>1, <3>2, <3>3 DEF Executions
  <2>3. AgentTypes' BY <1>1, <1>5, <1>6, <1>10, <2>2 DEF AgentPart, AgentTypes
  <2>4. OneLateCall' BY <1>5, <2>2 DEF OneLateCall, At
  <2>5. Working'
    <3>1. exec'.request.step = s /\ Made(s)' = exec'.made BY <1>2, <1>3, <1>4, <2>1, <2>2
    <3>2. /\ exec'.at \in {"check", "control"}
          /\ exec'.at = "check" => exec'.made < exec'.request.calls
          /\ exec'.at = "control" => exec'.made = exec'.request.calls
      BY <1>4, <2>1, <2>2
    <3>3. /\ exec'.before \in Frames /\ exec'.before.id <= latest'
          /\ exec'.before.value = exec'.request.based.value
          /\ exec'.before.state = exec'.request.from
      BY <1>1, <1>4, <2>2 DEF Grounded
    <3> QED BY <1>4, <1>7, <1>10, <3>1, <3>2, <3>3 DEF Working, Grounded
  <2>6. Answered' BY <1>4, <1>10 DEF Answered
  <2> QED BY <1>8, <2>3, <2>4, <2>5, <2>6 DEF AgentPart
<1> QED BY <1>9, <1>10 DEF DriverCall

\* The control frame, with which the action ends.
LEMMA ControlStep ==
    ASSUME AgentPart, Control
    PROVE  AgentPart'
<1>1. /\ exec # Nothing /\ exec.at = "control"
      /\ UNCHANGED <<screen, blocked, begun, performed, lateCalls>>
      /\ screen \in [state : Screens, value : Values]
  BY DEF Control, At, gameVars, historyVars, AgentPart, AgentTypes
<1>2. exec.before.id \in Nat /\ exec.request.from \in States /\ exec.made = exec.request.calls
  BY <1>1, ExecFacts DEF AgentPart, Working, Frames, States
<1>3. /\ Captured.id = latest + 1 /\ latest + 1 \in Nat /\ latest \in Nat
      /\ Detected(Captured) \subseteq States
  BY CapturedFacts DEF AgentPart
<1>4. CASE Fail(exec.before.id, exec.request.from, TRUE) /\ UNCHANGED latest
  <2>1. Answer(FALSE, FALSE, exec.before.id, exec.request.from) BY <1>4 DEF Fail
  <2>2. latest' \in Nat /\ latest' >= latest BY <1>3, <1>4
  <2> QED BY <1>1, <1>2, <2>1, <2>2, AnswerStep
<1>5. ASSUME latest' = Captured.id, NEW state \in States,
             Answer(TRUE, FALSE, Captured.id, state) \/ Fail(Captured.id, state, TRUE)
      PROVE  AgentPart'
  <2>1. PICK success \in BOOLEAN : Answer(success, FALSE, Captured.id, state)
    BY <1>5 DEF Fail
  <2>2. latest' \in Nat /\ latest' >= latest /\ Captured.id \in Nat BY <1>3, <1>5
  <2> QED BY <1>1, <1>2, <2>1, <2>2, AnswerStep
<1> QED BY <1>3, <1>4, <1>5 DEF Control

\* What no step of the agent's own, but time, a stop or another's frame, does.
LEMMA QuietStep ==
    ASSUME AgentPart, UNCHANGED <<exec, answer, begun, performed, lateCalls>>,
           latest' \in Nat, latest' >= latest, screen' \in [state : Screens, value : Values],
           blocked' \in BOOLEAN, blocked => blocked'
    PROVE  AgentPart' /\ \A t : Made(t)' = Made(t)
<1>1. \A t : Made(t)' = Made(t)
  BY MadeFacts
<1>2. AgentTypes'
  BY <1>1 DEF AgentPart, AgentTypes
<1>3. OneLateCall'
  BY DEF AgentPart, OneLateCall, At
<1>4. Working'
  BY <1>1 DEF AgentPart, AgentTypes, Working, Reached, Untouched, Grounded, Frames
<1>5. Answered'
  BY <1>1 DEF AgentPart, Answered, Finished, Reached, Untouched
<1>6. BegunOnce'
  BY DEF AgentPart, AgentTypes, BegunOnce, Frames
<1> QED BY <1>1, <1>2, <1>3, <1>4, <1>5, <1>6 DEF AgentPart

\* What a step of the agent may change, seen from the route.
LEMMA AgentEffect ==
    ASSUME AgentPart, AgentStep
    PROVE  /\ exec # Nothing
           /\ \A t : t # exec.request.step => Made(t)' = Made(t)
           /\ \/ exec' # Nothing /\ exec'.request = exec.request /\ answer' = answer
              \/ exec' = Nothing /\ answer'.request = exec.request
           /\ \A b \in begun' :
                 \/ b \in begun
                 \/ b.request = exec.request /\ b.before = exec.before /\ exec.at = "ready"
<1>1. exec # Nothing
  BY DEF AgentStep, RefuseAction, Verify, LoseFocus, BeginInput, CheckInput, DriverCall, Control, At
<1>2. \A t : t # exec.request.step => Made(t)' = Made(t)
  <2>1. performed' = performed \/ DriverCall
    BY DEF AgentStep, RefuseAction, Verify, LoseFocus, BeginInput, CheckInput, Control, historyVars
  <2> QED BY <1>1, <2>1, MadeFacts
<1>3. \A b \in begun' :
         \/ b \in begun
         \/ b.request = exec.request /\ b.before = exec.before /\ exec.at = "ready"
  <2>1. \/ begun' = begun
        \/ /\ exec.at = "ready"
           /\ begun' = begun \cup {[request |-> exec.request, before |-> exec.before]}
    BY DEF AgentStep, RefuseAction, Verify, LoseFocus, BeginInput, CheckInput, DriverCall, Control,
           historyVars, At
  <2> QED BY <2>1
<1>4. /\ AgentPart'
      /\ \/ \E s, safe, id, state : Answer(s, safe, id, state)
         \/ answer' = answer /\ exec'.request = exec.request /\ exec' \in Executions
  <2> exec \in Executions BY <1>1, ExecFacts DEF AgentPart
  <2>1. CASE RefuseAction BY <2>1, RefuseActionStep DEF RefuseAction, Fail
  <2>2. CASE Verify
    <3>1. \/ \E id, state : Answer(FALSE, TRUE, id, state)
          \/ answer' = answer /\ exec' = [exec EXCEPT !.at = "ready", !.before = Captured]
      BY <2>2 DEF Verify, Fail
    <3>2. Captured \in Frames BY CapturedFacts DEF AgentPart
    <3> QED BY <2>2, <3>1, <3>2, VerifyStep DEF Executions
  <2>3. CASE LoseFocus BY <2>3, LoseFocusStep DEF LoseFocus, Fail
  <2>4. CASE BeginInput
    <3>1. exec' = [exec EXCEPT !.at = "check"] /\ answer' = answer BY <2>4 DEF BeginInput
    <3> QED BY <2>4, <3>1, BeginInputStep DEF Executions
  <2>5. CASE CheckInput
    <3>1. \/ Answer(FALSE, FALSE, exec.before.id, exec.request.from)
          \/ answer' = answer /\ exec' = [exec EXCEPT !.at = "call"]
      BY <2>5 DEF CheckInput, Fail
    <3> QED BY <2>5, <3>1, CheckInputStep DEF Executions
  <2>6. CASE DriverCall
    <3>1. AgentPart' BY <2>6, DriverCallStep
    <3>2. exec' \in Executions \cup {Nothing} BY <3>1 DEF AgentPart, AgentTypes
    <3>3. CASE Fail(exec.before.id, exec.request.from, TRUE) BY <3>1, <3>3 DEF Fail
    <3>4. CASE answer' = answer /\ exec'.request = exec.request /\ exec' # Nothing
      BY <3>1, <3>2, <3>4
    <3>5. CASE /\ answer' = answer
               /\ exec' = [exec EXCEPT !.made = @ + 1,
                                   !.at = IF exec.made + 1 < exec.request.calls
                                          THEN "check" ELSE "control"]
      <4>1. PICK at \in {"check", "control"} :
               at = IF exec.made + 1 < exec.request.calls THEN "check" ELSE "control"
        OBVIOUS
      <4>2. PICK n \in Nat : n = exec.made + 1 BY DEF Executions
      <4>3. exec' = [exec EXCEPT !.made = n, !.at = at] BY <3>5, <4>1, <4>2
      <4> QED BY <3>1, <3>5, <4>1, <4>2, <4>3 DEF Executions
    <3> QED BY <2>6, <3>3, <3>5 DEF DriverCall
  <2>7. CASE Control BY <2>7, ControlStep DEF Control, Fail
  <2> QED BY <2>1, <2>2, <2>3, <2>4, <2>5, <2>6, <2>7 DEF AgentStep
<1>5. \/ exec' # Nothing /\ exec'.request = exec.request /\ answer' = answer
      \/ exec' = Nothing /\ answer'.request = exec.request
  <2>1. CASE \E s, safe, id, state : Answer(s, safe, id, state)
    <3>1. PICK s, safe, id, state : Answer(s, safe, id, state) BY <2>1
    <3> QED BY <3>1 DEF Answer
  <2>2. CASE answer' = answer /\ exec'.request = exec.request /\ exec' \in Executions
    BY <2>2, NothingAssumption
  <2> QED BY <1>4, <2>1, <2>2
<1> QED BY <1>1, <1>2, <1>3, <1>5

\* Every step of the agent keeps the agent's part.
LEMMA AgentStepInductive ==
    ASSUME AgentPart, AgentStep
    PROVE  AgentPart'
  BY RefuseActionStep, VerifyStep, LoseFocusStep, BeginInputStep, CheckInputStep,
     DriverCallStep, ControlStep DEF AgentStep

-----------------------------------------------------------------------------
(* The route while it stands still.                                        *)

Whole == RoutePart /\ MoneyOnAcceptedValues /\ Arrived

\* A step that leaves the route alone keeps its part.
LEMMA SameRoute ==
    ASSUME UNCHANGED routeVars
    PROVE  /\ RouteTypes' <=> RouteTypes
           /\ Searched' <=> Searched
           /\ Found' <=> Found
           /\ Edge' = Edge
  BY DEF routeVars, RouteTypes, Searched, Found, Walk, IsRoute, Finishes, Edge

\* Only time, a stop or another's frame passes.
LEMMA QuietRoute ==
    ASSUME Whole, UNCHANGED <<routeVars, exec, answer, begun, performed>>
    PROVE  Whole'
<1>1. RouteTypes' /\ Searched' /\ Found'
  BY SameRoute DEF Whole, RoutePart
<1>2. \A t : Made(t)' = Made(t)
  BY MadeFacts
<1>3. HandOver'
  BY <1>2 DEF Whole, RoutePart, HandOver, routeVars, CompleteUpTo, Asks, Edge, Untouched, Finished,
              Reached
<1>4. Checked' /\ MoneyOnAcceptedValues'
  BY DEF Whole, RoutePart, Checked, MoneyOnAcceptedValues, Monetary, routeVars
<1>5. Arrived'
  BY <1>2 DEF Whole, Arrived, CompleteUpTo, routeVars
<1> QED BY <1>1, <1>3, <1>4, <1>5 DEF Whole, RoutePart

\* The agent works on the transition the route waits for, or for nobody.
LEMMA RouteOfAgentStep ==
    ASSUME AgentPart, Whole, AgentStep, UNCHANGED routeVars
    PROVE  Whole'
<1>1. RouteTypes' /\ Searched' /\ Found' /\ Edge' = Edge
  BY SameRoute DEF Whole, RoutePart
<1>2. PICK q \in Requests, before \in Frames \cup {Nothing} :
         /\ exec # Nothing /\ q = exec.request /\ before = exec.before
         /\ \A t : t # q.step => Made(t)' = Made(t)
         /\ \/ exec' # Nothing /\ exec'.request = q /\ answer' = answer
            \/ exec' = Nothing /\ answer'.request = q
         /\ \A b \in begun' :
               \/ b \in begun
               \/ b.request = q /\ b.before = before /\ exec.at = "ready"
  <2>1. exec # Nothing BY AgentEffect
  <2>2. PICK q \in Requests, before \in Frames \cup {Nothing} :
           q = exec.request /\ before = exec.before
    BY <2>1, ExecFacts DEF AgentPart
  <2>3. \A t : t # q.step => Made(t)' = Made(t) BY <2>2, AgentEffect
  <2>4. \/ exec' # Nothing /\ exec'.request = q /\ answer' = answer
        \/ exec' = Nothing /\ answer'.request = q
    BY <2>2, AgentEffect
  <2>5. \A b \in begun' :
           \/ b \in begun
           \/ b.request = q /\ b.before = before /\ exec.at = "ready"
    BY <2>2, AgentEffect
  <2> QED BY <2>1, <2>2, <2>3, <2>4, <2>5
<1>3. phase \in {"waiting", "failed"}
  BY <1>2 DEF Whole, RoutePart, HandOver, RouteTypes, Phases, Arrived
<1>4. UNCHANGED <<class, phase, path, step, view, result, commit>>
  BY DEF routeVars
<1>5. HandOver'
  <2>1. CASE phase = "waiting"
    <3>1. Asks(q) /\ CompleteUpTo(step) /\ q.step = step
      BY <1>2, <2>1 DEF Whole, RoutePart, HandOver, Asks
    <3>2. step \in Nat BY DEF Whole, RoutePart, RouteTypes
    <3>3. \A i \in 1 .. step - 1 : Made(i)' = path[i].calls
      BY <1>2, <3>1, <3>2 DEF CompleteUpTo
    <3>4. exec' # Nothing => Asks(exec'.request)
      BY <1>2, <3>1
    <3>5. answer = Nothing BY <1>2 DEF AgentPart, Working
    <3>6. answer' # Nothing => Asks(answer'.request)
      BY <1>2, <3>1, <3>5
    <3> QED BY <1>1, <1>4, <2>1, <3>3, <3>4, <3>6 DEF HandOver, CompleteUpTo, Asks
  <2>2. CASE phase = "failed"
    BY <1>4, <2>2 DEF HandOver
  <2> QED BY <1>3, <2>1, <2>2
<1>6. q.class # "NAVIGATION" => commit = Agreed /\ q.based.value = Agreed
  BY <1>2 DEF Whole, RoutePart, Checked
<1>7. Checked'
  <2>1. exec' # Nothing => exec'.request = q BY <1>2
  <2> QED BY <1>3, <1>4, <1>6, <2>1 DEF Whole, RoutePart, Checked, Monetary
<1>8. MoneyOnAcceptedValues'
  <2>1. exec.at = "ready" => before.value = q.based.value /\ before.state = q.from
    BY <1>2 DEF AgentPart, Working, Grounded
  <2> QED BY <1>2, <1>4, <1>6, <2>1 DEF Whole, MoneyOnAcceptedValues
<1>9. Arrived'
  BY <1>3, <1>4 DEF Arrived
<1> QED BY <1>1, <1>5, <1>7, <1>8, <1>9 DEF Whole, RoutePart

\* A route that ends with an error leaves the agent to itself.
LEMMA FailedRoute ==
    ASSUME Whole, phase' = "failed",
           UNCHANGED <<graph, class, search, path, step, attempt, view, result, commit,
                       exec, begun>>
    PROVE  Whole'
<1>1. RouteTypes'
  BY DEF Whole, RoutePart, RouteTypes, Phases
<1>2. Searched' /\ Found' /\ HandOver' /\ Arrived'
  BY DEF Searched, Found, Walking, HandOver, Arrived
<1>3. Checked' /\ MoneyOnAcceptedValues'
  BY DEF Whole, RoutePart, Checked, MoneyOnAcceptedValues
<1> QED BY <1>1, <1>2, <1>3 DEF Whole, RoutePart

-----------------------------------------------------------------------------
(* The search.                                                             *)

\* A route starts.
LEMMA StartRouteStep ==
    ASSUME Whole, StartRoute
    PROVE  Whole'
<1>1. /\ phase = "start" /\ phase' = "look"
      /\ UNCHANGED <<graph, class, search, path, step, attempt, view, result, commit,
                     exec, answer, begun, performed>>
  BY DEF StartRoute, Give, Observe, agentVars, historyVars
<1>2. RouteTypes' /\ Searched' /\ Found' /\ Arrived'
  BY <1>1 DEF Whole, RoutePart, RouteTypes, Phases, Searched, Found, Walking, Arrived
<1>3. HandOver'
  BY <1>1, MadeFacts DEF Whole, RoutePart, HandOver, Untouched
<1>4. Checked' /\ MoneyOnAcceptedValues'
  BY <1>1 DEF Whole, RoutePart, HandOver, Checked, MoneyOnAcceptedValues
<1> QED BY <1>2, <1>3, <1>4 DEF Whole, RoutePart

\* The first observation.
LEMMA LookStep ==
    ASSUME AgentPart, Whole, Look
    PROVE  Whole'
<1>1. /\ phase = "look" /\ exec = Nothing
      /\ UNCHANGED <<graph, class, path, step, attempt, result, commit,
                     exec, answer, begun, performed>>
  BY DEF Look, Frame, historyVars
<1>2. PICK state \in States :
         /\ view' = [frame |-> Captured, state |-> state]
         /\ search' = [queue |-> <<Root(state)>>, seen |-> {state},
                        node |-> Root(state), left |-> {}]
         /\ phase' = IF state # Target THEN "search"
                     ELSE IF class = "NAVIGATION" THEN "done" ELSE "failed"
  BY CapturedFacts DEF Look, AgentPart
<1>3. /\ commit = Nothing /\ step = 1 /\ attempt = 0 /\ path = <<>> /\ begun = {}
      /\ answer = Nothing /\ Untouched(1)
  BY <1>1 DEF Whole, RoutePart, HandOver
<1>4. Root(state) \in Nodes
  <2>1. <<>> \in Seq(Edges) OBVIOUS
  <2> QED BY <2>1 DEF Root, Nodes
<1>5. RouteTypes'
  <2>1. <<Root(state)>> \in Seq(Nodes) BY <1>4
  <2>2. search' \in [queue : Seq(Nodes), seen : SUBSET States, node : Nodes, left : SUBSET Nat]
    BY <1>2, <1>4, <2>1
  <2>3. view' \in [frame : Frames, state : States]
    BY <1>2, CapturedFacts DEF AgentPart
  <2>4. phase' \in Phases BY <1>2 DEF Phases
  <2> QED BY <1>1, <2>2, <2>3, <2>4 DEF Whole, RoutePart, RouteTypes
<1>6. Searched'
  <2>1. /\ search'.node = Root(state) /\ search'.left = {} /\ view'.state = state
        /\ search'.queue = <<Root(state)>>
    BY <1>2
  <2>2. Walk(Root(state).path, state, Root(state).state) BY DEF Walk, Root
  <2>3. \A n \in 1 .. Len(search'.queue) : search'.queue[n] = Root(state) BY <2>1
  <2> QED BY <2>1, <2>2, <2>3 DEF Searched, Walk
<1>7. Found'
  BY <1>2 DEF Found, Walking
<1>8. HandOver'
  BY <1>1, <1>2, <1>3, MadeFacts DEF HandOver, Untouched
<1>9. Checked' /\ MoneyOnAcceptedValues'
  BY <1>1, <1>3 DEF Checked, MoneyOnAcceptedValues
<1>10. Arrived'
  BY <1>1, <1>2, <1>3 DEF Arrived, CompleteUpTo
<1> QED BY <1>5, <1>6, <1>7, <1>8, <1>9, <1>10 DEF Whole, RoutePart

\* The search leaves alone what only a route found uses.
LEMMA SearchingStep ==
    ASSUME Whole, phase = "search", phase' \in {"search", "ready"},
           UNCHANGED <<graph, class, step, attempt, view, result, commit,
                       exec, answer, begun, performed>>,
           phase' = "search" => path' = path
    PROVE  HandOver' /\ Checked' /\ MoneyOnAcceptedValues' /\ Arrived'
<1>1. /\ exec = Nothing /\ answer = Nothing /\ commit = Nothing
      /\ step = 1 /\ attempt = 0 /\ path = <<>> /\ Untouched(1) /\ begun = {}
  BY DEF Whole, RoutePart, HandOver
<1>2. HandOver'
  BY <1>1, MadeFacts DEF HandOver, Untouched, CompleteUpTo
<1>3. Checked' /\ MoneyOnAcceptedValues' /\ Arrived'
  BY <1>1 DEF Checked, MoneyOnAcceptedValues, Arrived
<1> QED BY <1>2, <1>3

\* The search takes the next node of the queue.
LEMMA TakeNodeStep ==
    ASSUME Whole, TakeNode
    PROVE  Whole'
<1>1. /\ phase = "search" /\ search.queue # <<>>
      /\ UNCHANGED <<graph, class, phase, path, step, attempt, view, result, commit,
                     exec, answer, begun, performed>>
  BY DEF TakeNode, agentVars, historyVars
<1> DEFINE edges == {i \in 1 .. Len(graph) : graph[i].from = Head(search.queue).state}
<1>2. search' = [search EXCEPT !.queue = Tail(@), !.node = Head(search.queue), !.left = edges]
  BY DEF TakeNode
<1>3. /\ search \in [queue : Seq(Nodes), seen : SUBSET States, node : Nodes, left : SUBSET Nat]
      /\ graph \in Seq(Edges)
  BY GraphsAssumption DEF Whole, RoutePart, RouteTypes
<1>4. /\ search.queue \in Seq(Nodes) /\ Head(search.queue) \in Nodes /\ Tail(search.queue) \in Seq(Nodes)
      /\ Len(search.queue) \in Nat \ {0} /\ Head(search.queue) = search.queue[1]
      /\ Len(Tail(search.queue)) = Len(search.queue) - 1
      /\ \A n \in 1 .. Len(search.queue) - 1 : Tail(search.queue)[n] = search.queue[n + 1]
  BY <1>1, <1>3
<1>5. edges \subseteq Nat
  BY <1>3
<1>6. /\ search' \in [queue : Seq(Nodes), seen : SUBSET States, node : Nodes, left : SUBSET Nat]
      /\ search'.queue = Tail(search.queue) /\ search'.node = Head(search.queue)
      /\ search'.left = edges
  <2> HIDE DEF edges
  <2> QED BY <1>2, <1>3, <1>4, <1>5
<1>7. RouteTypes'
  BY <1>1, <1>6 DEF Whole, RoutePart, RouteTypes
<1>8. Searched'
  <2>1. \A n \in 1 .. Len(search.queue) :
           Walk(search.queue[n].path, view.state, search.queue[n].state)
    BY <1>1 DEF Whole, RoutePart, Searched
  <2>2. Walk(search'.node.path, view.state, search'.node.state)
    BY <1>4, <1>6, <2>1
  <2>3. \A n \in 1 .. Len(search'.queue) :
           Walk(search'.queue[n].path, view.state, search'.queue[n].state)
    <3> TAKE n \in 1 .. Len(search'.queue)
    <3>1. n + 1 \in 1 .. Len(search.queue) /\ search'.queue[n] = search.queue[n + 1]
      BY <1>4, <1>6
    <3> QED BY <2>1, <3>1
  <2>4. \A i \in search'.left : i \in 1 .. Len(graph) /\ graph[i].from = search'.node.state
    BY <1>6
  <2> QED BY <1>1, <2>2, <2>3, <2>4 DEF Searched, Walk
<1>9. Found'
  BY <1>1 DEF Found, Walking
<1> QED BY <1>1, <1>7, <1>8, <1>9, SearchingStep DEF Whole, RoutePart

\* A walk goes on along an edge.
LEMMA WalkFacts ==
    ASSUME NEW p \in Seq(Edges), NEW from, NEW to, Walk(p, from, to),
           NEW edge \in Edges, edge.from = to
    PROVE  LET q == Append(p, edge)
           IN  /\ q \in Seq(Edges) /\ Len(q) = Len(p) + 1 /\ q[Len(q)] = edge
               /\ \A i \in 1 .. Len(p) : q[i] = p[i]
               /\ q[1].from = from
               /\ \A i \in 1 .. Len(q) - 1 : q[i].to = q[i + 1].from /\ q[i].class = "NAVIGATION"
               /\ edge.class = "NAVIGATION" => Walk(q, from, edge.to)
<1> DEFINE q == Append(p, edge)
<1>1. /\ q \in Seq(Edges) /\ Len(q) = Len(p) + 1 /\ q[Len(q)] = edge /\ Len(p) \in Nat
      /\ \A i \in 1 .. Len(p) : q[i] = p[i]
  OBVIOUS
<1> HIDE DEF q
<1>2. CASE p = <<>>
  <2>1. Len(q) = 1 /\ q[1] = edge /\ from = to BY <1>1, <1>2 DEF Walk
  <2> QED BY <1>1, <1>2, <2>1 DEF q, Walk
<1>3. CASE p # <<>>
  <2>1. Len(p) \in Nat \ {0} BY <1>1, <1>3, EmptySeq
  <2>2. /\ p[1].from = from /\ p[Len(p)].to = to
        /\ \A i \in 1 .. Len(p) - 1 : p[i].to = p[i + 1].from
        /\ \A i \in 1 .. Len(p) : p[i].class = "NAVIGATION"
    BY <1>3 DEF Walk
  <2>3. q[1].from = from BY <1>1, <2>1, <2>2
  <2>4. \A i \in 1 .. Len(q) - 1 : q[i].to = q[i + 1].from /\ q[i].class = "NAVIGATION"
    <3> TAKE i \in 1 .. Len(q) - 1
    <3>1. i \in 1 .. Len(p) /\ q[i] = p[i] BY <1>1
    <3>2. CASE i = Len(p) BY <1>1, <2>2, <3>1, <3>2
    <3>3. CASE i # Len(p)
      <4>1. i \in 1 .. Len(p) - 1 /\ i + 1 \in 1 .. Len(p) BY <1>1, <3>1, <3>3
      <4> QED BY <1>1, <2>2, <3>1, <4>1
    <3> QED BY <3>2, <3>3
  <2>5. edge.class = "NAVIGATION" => \A i \in 1 .. Len(q) : q[i].class = "NAVIGATION"
    BY <1>1, <2>2
  <2>6. q # <<>> BY <1>1
  <2> QED BY <1>1, <2>3, <2>4, <2>5, <2>6 DEF q, Walk
<1> QED BY <1>2, <1>3

\* The search follows one edge.
LEMMA FollowEdgeStep ==
    ASSUME Whole, FollowEdge
    PROVE  Whole'
<1>1. /\ phase = "search"
      /\ UNCHANGED <<graph, class, step, attempt, view, result, commit,
                     exec, answer, begun, performed>>
  BY DEF FollowEdge, agentVars, historyVars
<1>2. /\ search \in [queue : Seq(Nodes), seen : SUBSET States, node : Nodes, left : SUBSET Nat]
      /\ graph \in Graphs /\ graph \in Seq(Edges)
  BY GraphsAssumption DEF Whole, RoutePart, RouteTypes
<1>3. PICK i \in search.left :
         LET edge == graph[i]
             extended == Append(search.node.path, edge)
             rest == [search EXCEPT !.left = @ \ {i}]
         IN  IF Finishes(edge)
             THEN path' = extended /\ phase' = "ready" /\ search' = rest
             ELSE /\ UNCHANGED <<path, phase>>
                  /\ search' =
                        IF ~Extends(edge, search.seen) THEN rest
                        ELSE [rest EXCEPT
                                 !.seen = @ \cup {edge.to},
                                 !.queue = Append(@, [state |-> edge.to, path |-> extended])]
  BY DEF FollowEdge
<1>4. /\ i \in 1 .. Len(graph) /\ graph[i].from = search.node.state
      /\ Walk(search.node.path, view.state, search.node.state)
      /\ \A n \in 1 .. Len(search.queue) :
            Walk(search.queue[n].path, view.state, search.queue[n].state)
      /\ \A j \in search.left : j \in 1 .. Len(graph) /\ graph[j].from = search.node.state
  BY <1>1, <1>3 DEF Whole, RoutePart, Searched
<1>5. PICK edge \in Edges : edge = graph[i]
  BY <1>2, <1>4
<1>6. PICK node \in Nodes : node = search.node
  BY <1>2
<1>7. PICK extended : extended = Append(node.path, edge)
  OBVIOUS
<1>8. /\ extended \in Seq(Edges) /\ Len(extended) = Len(node.path) + 1
      /\ extended[Len(extended)] = edge /\ Len(node.path) \in Nat
      /\ extended[1].from = view.state
      /\ \A j \in 1 .. Len(extended) - 1 :
            extended[j].to = extended[j + 1].from /\ extended[j].class = "NAVIGATION"
      /\ edge.class = "NAVIGATION" => Walk(extended, view.state, edge.to)
  <2>1. node.path \in Seq(Edges) /\ Len(node.path) \in Nat BY DEF Nodes
  <2>2. Walk(node.path, view.state, node.state) /\ edge.from = node.state
    BY <1>4, <1>5, <1>6
  <2> QED BY <1>7, <2>1, <2>2, WalkFacts
<1>9. PICK rest : rest = [search EXCEPT !.left = @ \ {i}]
  OBVIOUS
<1>10. /\ rest \in [queue : Seq(Nodes), seen : SUBSET States, node : Nodes, left : SUBSET Nat]
       /\ rest.queue = search.queue /\ rest.node = node /\ rest.left \subseteq search.left
       /\ rest.seen = search.seen
  BY <1>2, <1>6, <1>9
<1>11. CASE Finishes(edge)
  <2>1. path' = extended /\ phase' = "ready" /\ search' = rest
    BY <1>3, <1>5, <1>6, <1>7, <1>9, <1>11
  <2>2. RouteTypes'
    BY <1>1, <1>8, <1>10, <2>1 DEF Whole, RoutePart, RouteTypes, Phases
  <2>3. Searched' BY <2>1 DEF Searched
  <2>4. Found'
    <3>1. step = 1 /\ step \in 1 .. Len(extended)
      BY <1>1, <1>8 DEF Whole, RoutePart, HandOver
    <3>2. IsRoute(extended, extended[1].from)
      BY <1>8, <1>11 DEF IsRoute
    <3>3. \A j \in 1 .. Len(extended) : extended[j].class # "NAVIGATION" => extended[j].retries = 0
      <4>1. edge.class # "NAVIGATION" => edge.retries = 0
        BY <1>2, <1>4, <1>5, GraphsAssumption
      <4> QED BY <1>8, <4>1
    <3> QED BY <1>1, <1>8, <2>1, <3>1, <3>2, <3>3 DEF Found, IsRoute, Finishes
  <2> QED BY <1>1, <2>1, <2>2, <2>3, <2>4, SearchingStep DEF Whole, RoutePart
<1>12. CASE ~Finishes(edge)
  <2>1. UNCHANGED <<path, phase>>
    BY <1>3, <1>5, <1>12
  <2>2. PICK new : new = [state |-> edge.to, path |-> extended]
    OBVIOUS
  <2>3. new \in Nodes /\ new.state = edge.to /\ new.path = extended
    BY <1>8, <2>2 DEF Nodes, Edges, States
  <2>4. search' = IF ~Extends(edge, search.seen) THEN rest
                  ELSE [rest EXCEPT !.seen = @ \cup {edge.to}, !.queue = Append(@, new)]
    BY <1>3, <1>5, <1>6, <1>7, <1>9, <1>12, <2>2
  <2>5. CASE ~Extends(edge, search.seen)
    <3>1. search' = rest BY <2>4, <2>5
    <3>2. RouteTypes' BY <1>1, <1>10, <2>1, <3>1 DEF Whole, RoutePart, RouteTypes
    <3>3. Searched'
      <4>1. /\ Walk(search'.node.path, view.state, search'.node.state)
            /\ \A n \in 1 .. Len(search'.queue) :
                  Walk(search'.queue[n].path, view.state, search'.queue[n].state)
        BY <1>4, <1>6, <1>10, <3>1
      <4>2. \A j \in search'.left : j \in 1 .. Len(graph) /\ graph[j].from = search'.node.state
        BY <1>4, <1>6, <1>10, <3>1
      <4> QED BY <1>1, <4>1, <4>2 DEF Searched, Walk
    <3>4. Found' BY <1>1, <2>1 DEF Found, Walking
    <3> QED BY <1>1, <2>1, <3>2, <3>3, <3>4, SearchingStep DEF Whole, RoutePart
  <2>6. CASE Extends(edge, search.seen)
    <3>1. edge.class = "NAVIGATION" /\ edge.to \in States
      BY <2>6 DEF Extends, Edges, States
    <3>2. PICK longer : longer = Append(rest.queue, new)
      OBVIOUS
    <3>3. /\ longer \in Seq(Nodes) /\ Len(longer) = Len(rest.queue) + 1 /\ Len(rest.queue) \in Nat
          /\ longer[Len(longer)] = new
          /\ \A n \in 1 .. Len(rest.queue) : longer[n] = rest.queue[n]
      BY <1>10, <2>3, <3>2
    <3>4. search' = [rest EXCEPT !.seen = @ \cup {edge.to}, !.queue = longer]
      BY <2>4, <2>6, <3>2
    <3>5. /\ search' \in [queue : Seq(Nodes), seen : SUBSET States, node : Nodes, left : SUBSET Nat]
          /\ search'.queue = longer /\ search'.node = node /\ search'.left \subseteq search.left
      BY <1>10, <3>1, <3>3, <3>4
    <3>6. RouteTypes' BY <1>1, <2>1, <3>5 DEF Whole, RoutePart, RouteTypes
    <3>7. Searched'
      <4>1. \A n \in 1 .. Len(longer) : Walk(longer[n].path, view.state, longer[n].state)
        <5> TAKE n \in 1 .. Len(longer)
        <5>1. CASE n = Len(longer) BY <1>8, <2>3, <3>1, <3>3, <5>1
        <5>2. CASE n # Len(longer)
          <6>1. n \in 1 .. Len(search.queue) /\ longer[n] = search.queue[n]
            BY <1>10, <3>3, <5>2
          <6> QED BY <1>4, <6>1
        <5> QED BY <5>1, <5>2
      <4>2. Walk(node.path, view.state, node.state) BY <1>4, <1>6
      <4>3. \A j \in search'.left : j \in 1 .. Len(graph) /\ graph[j].from = node.state
        BY <1>4, <1>6, <3>5
      <4> QED BY <1>1, <3>5, <4>1, <4>2, <4>3 DEF Searched, Walk
    <3>8. Found' BY <1>1, <2>1 DEF Found, Walking
    <3> QED BY <1>1, <2>1, <3>6, <3>7, <3>8, SearchingStep DEF Whole, RoutePart
  <2> QED BY <2>5, <2>6
<1> QED BY <1>11, <1>12

\* The search gives up.
LEMMA NoPathStep ==
    ASSUME Whole, NoPath
    PROVE  Whole'
  BY FailedRoute DEF NoPath, Give, agentVars, historyVars

\* A route ends early.
LEMMA AbortStep ==
    ASSUME Whole, Abort
    PROVE  Whole'
  BY FailedRoute DEF Abort, Give, agentVars, historyVars

-----------------------------------------------------------------------------
(* The route found, transition by transition.                              *)

\* The transition under way is an edge; only the last may be monetary, and it
\* is of the route's class and leads to the target.
LEMMA EdgeFacts ==
    ASSUME Whole, phase \in Walking
    PROVE  /\ Edge \in Edges /\ step \in 1 .. Len(path) /\ Len(path) \in Nat
           /\ step = Len(path) => Edge.to = Target /\ Edge.class = class
           /\ step # Len(path) => Edge.class = "NAVIGATION"
           /\ Edge.class # "NAVIGATION" => Edge.retries = 0 /\ step = Len(path) /\ Monetary
           /\ exec = Nothing \/ phase = "waiting"
<1>1. /\ path \in Seq(Edges) /\ step \in 1 .. Len(path) /\ IsRoute(path, path[1].from)
      /\ \A i \in 1 .. Len(path) : path[i].class # "NAVIGATION" => path[i].retries = 0
      /\ Len(path) \in Nat
  BY DEF Whole, RoutePart, RouteTypes, Found
<1>2. exec = Nothing \/ phase = "waiting"
  BY DEF Whole, RoutePart, HandOver, Walking
<1> QED BY <1>1, <1>2 DEF Edge, IsRoute, Finishes, Monetary

\* The validator reads the values of a frame.
LEMMA ValidateStep ==
    ASSUME Whole, Validate
    PROVE  Whole'
<1>1. /\ phase = "ready" /\ Monetary /\ step = Len(path) /\ commit = Nothing
      /\ UNCHANGED <<graph, class, search, path, step, attempt, view, result,
                     exec, answer, begun, performed>>
  BY DEF Validate, DueValidation, agentVars, historyVars
<1>2. /\ commit' = view.frame.value
      /\ phase' = IF view.frame.value = Agreed THEN "ready" ELSE "failed"
  BY DEF Validate
<1>3. RouteTypes'
  BY <1>1, <1>2 DEF Whole, RoutePart, RouteTypes, Phases, Frames
<1>4. Searched'
  BY <1>2 DEF Searched
<1>5. Found'
  BY <1>1, <1>2 DEF Whole, RoutePart, Found, Walking, IsRoute, Finishes
<1>6. HandOver'
  BY <1>1, <1>2, MadeFacts DEF Whole, RoutePart, HandOver, Untouched, CompleteUpTo
<1>7. exec = Nothing
  BY <1>1 DEF Whole, RoutePart, HandOver
<1>8. Checked'
  BY <1>1, <1>2, <1>7 DEF Checked, Monetary
<1>9. MoneyOnAcceptedValues'
  BY <1>1, RouteAssumption, NothingAssumption DEF Whole, MoneyOnAcceptedValues
<1>10. Arrived'
  BY <1>2 DEF Arrived
<1> QED BY <1>3, <1>4, <1>5, <1>6, <1>8, <1>9, <1>10 DEF Whole, RoutePart

\* The agent is handed a transition whose input was not begun.
LEMMA RequestActionStep ==
    ASSUME AgentPart, Whole, RequestAction
    PROVE  AgentPart' /\ Whole'
<1>1. /\ phase = "ready" /\ ~DueValidation /\ view.state = Edge.from /\ phase' = "waiting"
      /\ UNCHANGED <<graph, class, search, path, step, attempt, view, result, commit,
                     screen, latest, blocked, answer, begun, performed, lateCalls>>
  BY DEF RequestAction, Give, Submit, gameVars, historyVars
<1>2. /\ Edge \in Edges /\ step \in Nat /\ attempt \in Nat /\ view.frame \in Frames
      /\ exec = Nothing /\ answer = Nothing /\ Untouched(step) /\ CompleteUpTo(step)
      /\ Edge.class # "NAVIGATION" => Monetary /\ step = Len(path)
  BY <1>1, EdgeFacts DEF Whole, RoutePart, RouteTypes, HandOver, Walking
<1>3. PICK q \in Requests :
         /\ q.step = step /\ q.calls = Edge.calls /\ q.class = Edge.class /\ q.to = Edge.to
         /\ q.based = view.frame
         /\ exec' = [request |-> q, at |-> "verify", before |-> Nothing, made |-> 0]
  <2> DEFINE new == [step |-> step, attempt |-> attempt, from |-> Edge.from, to |-> Edge.to,
                     class |-> Edge.class, calls |-> Edge.calls, based |-> view.frame]
  <2>1. new \in Requests BY <1>2 DEF Edges, Requests
  <2>2. exec' = [request |-> new, at |-> "verify", before |-> Nothing, made |-> 0]
    BY DEF RequestAction, Submit
  <2>3. /\ new.step = step /\ new.calls = Edge.calls /\ new.class = Edge.class
        /\ new.to = Edge.to /\ new.based = view.frame
    OBVIOUS
  <2> HIDE DEF new
  <2> QED BY <2>1, <2>2, <2>3
<1>4. /\ exec' \in Executions /\ exec'.request = q /\ exec'.at = "verify" /\ exec'.made = 0
      /\ exec' # Nothing
  <2>1. exec' \in Executions BY <1>3 DEF Executions
  <2> QED BY <1>3, <2>1, NothingAssumption
<1>5. PICK s \in Nat : s = step /\ q.step = s
  BY <1>2, <1>3
<1>6. Untouched(s)' /\ Reached(s)' /\ Made(s)' = 0 /\ \A t : Made(t)' = Made(t)
  <2>1. \A t : Made(t)' = Made(t) BY <1>1, MadeFacts
  <2>2. Untouched(s) BY <1>2, <1>5
  <2>3. \A b \in begun : b.request.step \in Nat
    BY DEF AgentPart, AgentTypes, Requests
  <2> QED BY <1>1, <1>5, <2>1, <2>2, <2>3 DEF Untouched, Reached
<1>7. AgentPart'
  <2>1. AgentTypes' BY <1>1, <1>4, <1>6 DEF AgentPart, AgentTypes
  <2>2. OneLateCall' BY <1>1, <1>4 DEF AgentPart, OneLateCall, At
  <2>3. Working'
    BY <1>1, <1>2, <1>4, <1>5, <1>6 DEF Working, Untouched, Reached
  <2>4. Answered' BY <1>1, <1>2 DEF Answered
  <2>5. BegunOnce' BY <1>1 DEF AgentPart, BegunOnce
  <2> QED BY <2>1, <2>2, <2>3, <2>4, <2>5 DEF AgentPart
<1>8. RouteTypes'
  BY <1>1 DEF Whole, RoutePart, RouteTypes, Phases
<1>9. Searched' /\ Found' /\ Arrived'
  BY <1>1 DEF Whole, RoutePart, Searched, Found, Walking, IsRoute, Finishes, Arrived
<1>10. HandOver'
  <2>1. Asks(q) BY <1>3 DEF Asks
  <2>2. CompleteUpTo(step)' BY <1>1, <1>2, <1>6 DEF CompleteUpTo
  <2> QED BY <1>1, <1>2, <1>4, <2>1, <2>2 DEF HandOver, Asks, Edge
<1>11. Checked'
  <2>1. Edge.class # "NAVIGATION" => commit = Agreed /\ view.frame.value = Agreed
    BY <1>1, <1>2 DEF Whole, RoutePart, Checked, DueValidation
  <2> QED BY <1>1, <1>3, <1>4, <2>1 DEF Whole, RoutePart, Checked, Monetary
<1>12. MoneyOnAcceptedValues'
  BY <1>1 DEF Whole, MoneyOnAcceptedValues
<1> QED BY <1>7, <1>8, <1>9, <1>10, <1>11, <1>12 DEF Whole, RoutePart

\* The route takes the agent's answer.
LEMMA ReceiveStep ==
    ASSUME AgentPart, Whole, Receive
    PROVE  AgentPart' /\ Whole'
<1>1. /\ phase = "waiting" /\ answer # Nothing /\ answer' = Nothing /\ result' = answer
      /\ phase' \in {"failed", "answered"}
      /\ UNCHANGED <<graph, class, search, path, step, attempt, view, commit,
                     screen, latest, blocked, exec, begun, performed, lateCalls>>
  BY DEF Receive, gameVars, historyVars
<1>2. PICK r \in Results : r = answer
  BY <1>1 DEF AgentPart, AgentTypes
<1>3. exec = Nothing /\ Finished(r) /\ Asks(r.request) /\ CompleteUpTo(step)
  BY <1>1, <1>2 DEF AgentPart, Working, Answered, Whole, RoutePart, HandOver
<1>4. \A t : Made(t)' = Made(t)
  BY <1>1, MadeFacts
<1>5. AgentPart'
  <2>1. AgentTypes' BY <1>1, <1>4 DEF AgentPart, AgentTypes
  <2>2. OneLateCall' BY <1>1 DEF AgentPart, OneLateCall, At
  <2>3. Working' /\ Answered' BY <1>1, <1>3 DEF Working, Answered
  <2>4. BegunOnce' BY <1>1 DEF AgentPart, BegunOnce
  <2> QED BY <2>1, <2>2, <2>3, <2>4 DEF AgentPart
<1>6. RouteTypes'
  BY <1>1, <1>2 DEF Whole, RoutePart, RouteTypes, Phases
<1>7. Searched' /\ Found' /\ Arrived'
  BY <1>1 DEF Whole, RoutePart, Searched, Found, Walking, IsRoute, Finishes, Arrived
<1>8. HandOver'
  <2>1. Finished(r)' /\ Asks(r.request)' /\ CompleteUpTo(step)'
    BY <1>1, <1>3, <1>4
       DEF Finished, Reached, Untouched, Asks, Edge, CompleteUpTo
  <2>2. result' = r /\ r # Nothing /\ answer' = Nothing /\ exec' = Nothing BY <1>1, <1>2, <1>3
  <2> QED BY <1>1, <2>1, <2>2 DEF HandOver, Finished, Reached, Untouched, Asks
<1>9. Checked' /\ MoneyOnAcceptedValues'
  BY <1>1, <1>3 DEF Whole, RoutePart, Checked, Monetary, MoneyOnAcceptedValues
<1> QED BY <1>5, <1>6, <1>7, <1>8, <1>9 DEF Whole, RoutePart

\* The screen is observed again after an answer.
LEMMA StartReobserveStep ==
    ASSUME Whole, StartReobserve
    PROVE  Whole'
<1>1. /\ phase = "answered" /\ phase' = "reobserve"
      /\ UNCHANGED <<graph, class, search, path, step, attempt, view, result, commit,
                     exec, answer, begun, performed>>
  BY DEF StartReobserve, Give, Observe, agentVars, historyVars
<1>2. RouteTypes'
  BY <1>1 DEF Whole, RoutePart, RouteTypes, Phases
<1>3. Searched' /\ Found' /\ Arrived'
  BY <1>1 DEF Searched, Whole, RoutePart, Found, Walking, IsRoute, Finishes, Arrived
<1>4. HandOver'
  BY <1>1, MadeFacts
     DEF Whole, RoutePart, HandOver, Finished, Reached, Untouched, Asks, Edge, CompleteUpTo
<1>5. Checked' /\ MoneyOnAcceptedValues'
  BY <1>1 DEF Whole, RoutePart, HandOver, Checked, Monetary, MoneyOnAcceptedValues
<1> QED BY <1>2, <1>3, <1>4, <1>5 DEF Whole, RoutePart

\* The fresh look decides: on to the next transition, once more, or no further.
LEMMA ReobserveStep ==
    ASSUME AgentPart, Whole, Reobserve
    PROVE  Whole'
<1>1. /\ phase = "reobserve" /\ exec = Nothing
      /\ UNCHANGED <<graph, class, search, path, result, commit, exec, answer, begun, performed>>
  BY DEF Reobserve, Frame, historyVars
<1>2. PICK state \in States :
         /\ view' = [frame |-> Captured, state |-> state]
         /\ IF Complete(state)
            THEN /\ attempt' = 0
                 /\ IF step = Len(path) THEN phase' = "done" /\ UNCHANGED step
                    ELSE phase' = "ready" /\ step' = step + 1
            ELSE /\ UNCHANGED step
                 /\ IF CanRetry(state) THEN phase' = "ready" /\ attempt' = attempt + 1
                    ELSE phase' = "failed" /\ UNCHANGED attempt
  BY CapturedFacts DEF Reobserve, AgentPart
<1>3. /\ Edge \in Edges /\ step \in 1 .. Len(path) /\ Len(path) \in Nat
      /\ step = Len(path) => Edge.to = Target /\ Edge.class = class
      /\ step # Len(path) => Edge.class = "NAVIGATION"
      /\ Edge.class # "NAVIGATION" => Edge.retries = 0 /\ step = Len(path) /\ Monetary
  BY <1>1, EdgeFacts DEF Walking
<1>4. /\ result \in Results /\ Finished(result) /\ Asks(result.request) /\ CompleteUpTo(step)
      /\ answer = Nothing
  BY <1>1 DEF Whole, RoutePart, RouteTypes, HandOver
<1>5. PICK s \in Nat \ {0} : s = step
  BY <1>3
<1>6. /\ Reached(s)
      /\ result.safe => Untouched(s)
      /\ result.success => Made(s) = Edge.calls
  BY <1>4, <1>5 DEF Finished, Asks
<1>7. view' \in [frame : Frames, state : States] /\ view'.state = state /\ view'.frame = Captured
  BY <1>2, CapturedFacts DEF AgentPart
<1>8. \A t : Made(t)' = Made(t)
  BY <1>1, MadeFacts
<1>9. \A b \in begun : b.request.step \in Nat /\ b.before.id \in Nat
  BY DEF AgentPart, AgentTypes, Requests, Frames
<1>10. commit # Nothing => Monetary /\ s = Len(path)
  BY <1>1, <1>5 DEF Whole, RoutePart, Checked
<1>11. MoneyOnAcceptedValues'
  BY <1>1 DEF Whole, MoneyOnAcceptedValues
<1>12. CASE Complete(state)
  <2>1. /\ attempt' = 0 /\ state = Edge.to
        /\ IF s = Len(path) THEN phase' = "done" /\ step' = s ELSE phase' = "ready" /\ step' = s + 1
        /\ Made(s) = Edge.calls
    BY <1>2, <1>5, <1>6, <1>12 DEF Complete
  <2>2. RouteTypes'
    BY <1>1, <1>7, <2>1 DEF Whole, RoutePart, RouteTypes, Phases
  <2>3. Searched' BY <2>1 DEF Searched
  <2>4. Found'
    <3>1. step' # 1 \/ phase' # "ready" BY <1>5, <2>1
    <3>2. phase' = "ready" => step' \in 1 .. Len(path) BY <1>3, <1>5, <2>1
    <3> QED BY <1>1, <2>1, <3>1, <3>2 DEF Whole, RoutePart, Found, Walking, IsRoute, Finishes
  <2>5. \A i \in 1 .. s : Made(i)' = path'[i].calls
    BY <1>1, <1>4, <1>5, <1>8, <2>1 DEF CompleteUpTo, Edge
  <2>6. HandOver'
    <3>1. CASE s # Len(path)
      <4>1. Untouched(s + 1)'
        BY <1>1, <1>6, <1>8, <1>9 DEF Reached, Untouched
      <4> QED BY <1>1, <1>4, <2>1, <2>5, <3>1, <4>1 DEF HandOver, CompleteUpTo, Untouched
    <3>2. CASE s = Len(path)
      BY <2>1, <3>2 DEF HandOver
    <3> QED BY <3>1, <3>2
  <2>7. Checked'
    BY <1>1, <1>10, <2>1 DEF Whole, RoutePart, Checked, Monetary
  <2>8. Arrived'
    <3>1. CASE s # Len(path) BY <2>1, <3>1 DEF Arrived
    <3>2. CASE s = Len(path)
      <4>1. view'.state = Target BY <1>3, <1>5, <1>7, <2>1, <3>2
      <4>2. \A b \in begun' : b.before.id < view'.frame.id
        BY <1>1, <1>7, <1>9, CapturedFacts DEF AgentPart, BegunOnce
      <4> QED BY <1>1, <2>5, <3>2, <4>1, <4>2 DEF Arrived, CompleteUpTo
    <3> QED BY <3>1, <3>2
  <2> QED BY <1>11, <2>2, <2>3, <2>4, <2>6, <2>7, <2>8 DEF Whole, RoutePart
<1>13. CASE ~Complete(state) /\ CanRetry(state)
  <2>1. phase' = "ready" /\ attempt' = attempt + 1 /\ step' = s
    BY <1>2, <1>5, <1>13
  <2>2. result.safe /\ attempt \in Nat /\ attempt < Edge.retries
    BY <1>13 DEF CanRetry, Whole, RoutePart, RouteTypes
  <2>3. Edge.class = "NAVIGATION" /\ Edge.retries \in Nat
    BY <1>3, <2>2 DEF Edges
  <2>4. commit = Nothing
    BY <1>3, <1>5, <1>10, <2>3 DEF Monetary
  <2>5. RouteTypes'
    BY <1>1, <1>5, <1>7, <2>1, <2>2 DEF Whole, RoutePart, RouteTypes, Phases
  <2>6. Searched' BY <2>1 DEF Searched
  <2>7. Found'
    <3>1. attempt' # 0 BY <2>1, <2>2
    <3>2. step' \in 1 .. Len(path) BY <1>3, <1>5, <2>1
    <3> QED BY <1>1, <2>1, <3>1, <3>2 DEF Whole, RoutePart, Found, Walking, IsRoute, Finishes
  <2>8. HandOver'
    <3>1. Untouched(s)' BY <1>1, <1>6, <1>8, <2>2 DEF Untouched
    <3>2. \A i \in 1 .. s - 1 : Made(i)' = path'[i].calls
      BY <1>1, <1>4, <1>5, <1>8 DEF CompleteUpTo
    <3> QED BY <1>1, <1>4, <2>1, <3>1, <3>2 DEF HandOver, CompleteUpTo, Untouched
  <2>9. Checked' BY <1>1, <2>4 DEF Checked
  <2>10. Arrived' BY <2>1 DEF Arrived
  <2> QED BY <1>11, <2>5, <2>6, <2>7, <2>8, <2>9, <2>10 DEF Whole, RoutePart
<1>14. CASE ~Complete(state) /\ ~CanRetry(state)
  <2>1. phase' = "failed" /\ attempt' = attempt /\ step' = step
    BY <1>2, <1>14
  <2>2. RouteTypes'
    BY <1>1, <1>7, <2>1 DEF Whole, RoutePart, RouteTypes, Phases
  <2>3. Searched' /\ Found' /\ HandOver' /\ Arrived'
    BY <2>1 DEF Searched, Found, Walking, HandOver, Arrived
  <2>4. Checked' BY <1>1, <2>1 DEF Checked
  <2> QED BY <1>11, <2>2, <2>3, <2>4 DEF Whole, RoutePart
<1> QED BY <1>12, <1>13, <1>14

-----------------------------------------------------------------------------
(* The invariant.                                                          *)

\* The invariant holds at first.
LEMMA Initially == Init => IInv
<1> SUFFICES ASSUME Init PROVE IInv
  OBVIOUS
<1>1. /\ exec = Nothing /\ answer = Nothing /\ begun = {} /\ performed = <<>>
      /\ lateCalls = 0 /\ latest = 0 /\ blocked = FALSE
      /\ screen \in [state : Screens, value : Values]
      /\ graph \in Graphs /\ class \in Classes /\ phase = "start" /\ view = NoView
      /\ search = [queue |-> <<>>, seen |-> {}, node |-> Root(Unknown), left |-> {}]
      /\ path = <<>> /\ step = 1 /\ attempt = 0 /\ result = Nothing /\ commit = Nothing
  BY DEF Init, AgentInit
<1>2. \A t \in Nat : Made(t) = 0
  <2>1. \A t \in Nat : t \notin DOMAIN performed
    BY <1>1
  <2> QED BY <2>1 DEF Made
<1>3. AgentPart
  <2>1. \A t \in Nat : Made(t) \in Nat BY <1>2
  <2>2. AgentTypes BY <1>1, <2>1 DEF AgentTypes
  <2>3. OneLateCall BY <1>1 DEF OneLateCall
  <2>4. Working /\ Answered /\ BegunOnce BY <1>1 DEF Working, Answered, BegunOnce
  <2> QED BY <2>2, <2>3, <2>4 DEF AgentPart
<1>4. RouteTypes
  <2>1. <<>> \in Seq(Edges) /\ <<>> \in Seq(Nodes)
    OBVIOUS
  <2>2. Root(Unknown) \in Nodes
    BY <2>1 DEF Root, Nodes, States
  <2>3. search \in [queue : Seq(Nodes), seen : SUBSET States, node : Nodes, left : SUBSET Nat]
    BY <1>1, <2>1, <2>2
  <2>4. view \in [frame : Frames, state : States]
    BY <1>1, RouteAssumption DEF NoView, Frames, States
  <2> QED BY <1>1, <2>1, <2>3, <2>4 DEF RouteTypes, Phases
<1>5. Searched /\ Found /\ Checked /\ MoneyOnAcceptedValues /\ Arrived
  BY <1>1 DEF Searched, Found, Walking, Checked, MoneyOnAcceptedValues, Arrived
<1>6. HandOver
  BY <1>1, <1>2 DEF HandOver, Untouched
<1> QED BY <1>3, <1>4, <1>5, <1>6 DEF IInv, RoutePart

\* Every step preserves it: one case per action.
LEMMA Inductive == IInv /\ [Next]_vars => IInv'
<1> SUFFICES ASSUME AgentPart, Whole, [Next]_vars PROVE AgentPart' /\ Whole'
  BY DEF IInv, Whole
<1> DEFINE Quiet == UNCHANGED <<exec, answer, begun, performed, lateCalls>>
<1>1. /\ latest \in Nat /\ latest + 1 \in Nat /\ Captured.id = latest + 1
      /\ screen \in [state : Screens, value : Values] /\ blocked \in BOOLEAN
  BY CapturedFacts DEF AgentPart, AgentTypes
<1>2. ASSUME UNCHANGED <<exec, answer, begun, performed, lateCalls, screen, blocked>>,
             latest' = latest \/ latest' = Captured.id
      PROVE  AgentPart'
  <2>1. latest' \in Nat /\ latest' >= latest BY <1>1, <1>2
  <2> QED BY <1>1, <1>2, <2>1, QuietStep
<1>3. CASE AgentStep /\ UNCHANGED <<routeVars, observing>>
  BY <1>3, AgentStepInductive, RouteOfAgentStep
<1>4. CASE Drift /\ UNCHANGED <<routeVars, observing>>
  <2>1. /\ screen' \in [state : Screens, value : Values] /\ latest' = latest /\ blocked' = blocked
        /\ UNCHANGED <<exec, answer, begun, performed, lateCalls>>
    BY <1>4 DEF Drift, historyVars
  <2>2. latest' \in Nat /\ latest' >= latest BY <1>1, <2>1
  <2> QED BY <1>1, <1>4, <2>1, <2>2, QuietStep, QuietRoute
<1>5. CASE Stop /\ UNCHANGED <<routeVars, observing>>
  <2>1. /\ screen' = screen /\ latest' = latest /\ blocked' = TRUE
        /\ UNCHANGED <<exec, answer, begun, performed, lateCalls>>
    BY <1>5 DEF Stop, historyVars, gameVars
  <2>2. latest' \in Nat /\ latest' >= latest BY <1>1, <2>1
  <2> QED BY <1>1, <1>5, <2>1, <2>2, QuietStep, QuietRoute
<1>6. CASE OtherObserves
  <2>1. UNCHANGED <<exec, answer, begun, performed, lateCalls, screen, blocked, latest, routeVars>>
    BY <1>6 DEF OtherObserves, Observe, agentVars, historyVars, gameVars
  <2> QED BY <1>2, <2>1, QuietRoute
<1>7. CASE OtherObserved
  <2>1. /\ UNCHANGED <<exec, answer, begun, performed, lateCalls, screen, blocked, routeVars>>
        /\ latest' = Captured.id
    BY <1>7 DEF OtherObserved, Frame, historyVars, gameVars
  <2> QED BY <1>2, <2>1, QuietRoute
<1>8. CASE StartRoute
  BY <1>2, <1>8, StartRouteStep
     DEF StartRoute, Observe, agentVars, historyVars, gameVars
<1>9. CASE Look
  BY <1>2, <1>9, LookStep DEF Look, Frame, historyVars, gameVars
<1>10. CASE TakeNode
  BY <1>2, <1>10, TakeNodeStep DEF TakeNode, agentVars, historyVars, gameVars
<1>11. CASE FollowEdge
  BY <1>2, <1>11, FollowEdgeStep DEF FollowEdge, agentVars, historyVars, gameVars
<1>12. CASE NoPath
  BY <1>2, <1>12, NoPathStep DEF NoPath, agentVars, historyVars, gameVars
<1>13. CASE Validate
  BY <1>2, <1>13, ValidateStep DEF Validate, agentVars, historyVars, gameVars
<1>14. CASE RequestAction
  BY <1>14, RequestActionStep
<1>15. CASE Abort
  BY <1>2, <1>15, AbortStep DEF Abort, agentVars, historyVars, gameVars
<1>16. CASE Receive
  BY <1>16, ReceiveStep
<1>17. CASE StartReobserve
  BY <1>2, <1>17, StartReobserveStep
     DEF StartReobserve, Observe, agentVars, historyVars, gameVars
<1>18. CASE Reobserve
  BY <1>2, <1>18, ReobserveStep DEF Reobserve, Frame, historyVars, gameVars
<1>19. CASE UNCHANGED vars
  <2>1. UNCHANGED <<exec, answer, begun, performed, lateCalls, screen, blocked, latest, routeVars>>
    BY <1>19 DEF vars, agentVars, historyVars, gameVars
  <2> QED BY <1>2, <2>1, QuietRoute
<1> QED BY <1>3, <1>4, <1>5, <1>6, <1>7, <1>8, <1>9, <1>10, <1>11, <1>12, <1>13, <1>14,
           <1>15, <1>16, <1>17, <1>18, <1>19 DEF Next

\* The inductive invariant holds in every reachable state.
THEOREM Invariance == Spec => []IInv
<1>1. IInv /\ [Next]_vars => IInv'
  BY Inductive
<1> QED BY Initially, <1>1, PTL DEF Spec

-----------------------------------------------------------------------------
(* What the runs check, for every graph and every number of frames.        *)

\* Retries, lost answers and screens that change by themselves never make the
\* agent begin the input of a transition twice (Executor.canRetry, fail).
THEOREM OneInputTheorem == Spec => []OneInputPerTransition
<1>1. IInv => OneInputPerTransition
  BY DEF IInv, AgentPart, BegunOnce, OneInputPerTransition
<1> QED BY <1>1, Invariance, PTL

\* A monetary input is begun only after a frame, accepted for it, with the screen
\* and the values the validator accepted (Router.route, validateExecutionBasis).
THEOREM MoneyTheorem == Spec => []MoneyOnAcceptedValues
<1>1. IInv => MoneyOnAcceptedValues
  BY DEF IInv
<1> QED BY <1>1, Invariance, PTL

\* After the stop at most the call whose check had passed is still made
\* (ensureInputAllowed), however many calls the sequence has left.
THEOREM StopTheorem == Spec => []StopsMidSequence
<1>1. IInv => StopsMidSequence
  BY DEF IInv, AgentPart, OneLateCall, StopsMidSequence
<1> QED BY <1>1, Invariance, PTL

\* A route that reports success made every call of every transition once and
\* saw the target afterwards (Executor.Execute).
THEOREM SuccessTheorem == Spec => []SuccessIsComplete
<1>1. IInv => SuccessIsComplete
  <2> SUFFICES ASSUME IInv, phase = "done" PROVE
           /\ view.state = Target
           /\ \A i \in 1 .. Len(path) : Made(i) = path[i].calls
           /\ \A b \in begun : b.before.id < view.frame.id
    BY DEF SuccessIsComplete
  <2>1. Len(path) \in Nat BY DEF IInv, RoutePart, RouteTypes
  <2> QED BY <2>1 DEF IInv, Arrived, CompleteUpTo
<1> QED BY <1>1, Invariance, PTL

-----------------------------------------------------------------------------
(* The search is breadth first.                                            *)

\* A navigation edge from one state to another.
Leads(g, i, u, v) ==
    i \in 1 .. Len(g) /\ g[i].class = "NAVIGATION" /\ g[i].from = u /\ g[i].to = v

\* Navigation leads from one state to another in m edges.
Reaches(g, from, m, to) ==
    \E w \in [0 .. m -> States] :
        /\ w[0] = from /\ w[m] = to
        /\ \A k \in 1 .. m : \E i \in 1 .. Len(g) : Leads(g, i, w[k - 1], w[k])

\* The distance of the node the search is at.
Depth == Len(search.node.path)

\* The queue is sorted by distance, and holds two distances at most.
Sorted ==
    /\ \A n \in 1 .. Len(search.queue) : Len(search.queue[n].path) \in {Depth, Depth + 1}
    /\ \A j, n \in 1 .. Len(search.queue) :
          j <= n => Len(search.queue[j].path) <= Len(search.queue[n].path)

\* No shorter way leads to a node than its path.
Nearest ==
    /\ \A m \in Nat : m < Depth => ~Reaches(graph, view.state, m, search.node.state)
    /\ \A n \in 1 .. Len(search.queue), m \in Nat :
          m < Len(search.queue[n].path) =>
              ~Reaches(graph, view.state, m, search.queue[n].state)

\* All states up to the distance of the node have been seen.
Swept == \A m \in Nat, u \in States :
    m <= Depth /\ Reaches(graph, view.state, m, u) => u \in search.seen

\* Of every state seen, each edge is still to be followed, or does not finish
\* the route and leads to a state seen.
Waits(i) ==
    i \in search.left \/ \E n \in 1 .. Len(search.queue) : search.queue[n].state = graph[i].from
Harmless(i) ==
    ~Finishes(graph[i]) /\ (graph[i].class = "NAVIGATION" => graph[i].to \in search.seen)
Accounted ==
    \A i \in 1 .. Len(graph) : graph[i].from \in search.seen => Waits(i) \/ Harmless(i)

\* There is no route of n edges.
NoRoute(n) == \A p \in [1 .. n -> {graph[i] : i \in 1 .. Len(graph)}] : ~IsRoute(p, view.state)

Breadth ==
    /\ phase = "search" => Sorted /\ Nearest /\ Swept /\ Accounted
    /\ phase = "ready" /\ step = 1 /\ attempt = 0 => \A n \in 1 .. Len(path) - 1 : NoRoute(n)

\* Induction over the naturals, for a set: the smallest number outside of it
\* would bound the smallest of the intervals 1 .. n with n outside of it.
LEMMA NatFacts ==
  ASSUME NEW T, 0 \in T, \A n \in Nat : n \in T => n + 1 \in T
  PROVE  Nat \subseteq T
  <1> SUFFICES ASSUME NEW m \in Nat, m \notin T PROVE FALSE
    OBVIOUS
  <1>1. PICK R, U : R = StrictSubsetOrdering(Nat) /\ U = {1 .. n : n \in Nat \ T}
    OBVIOUS
  <1>2. U \subseteq FiniteSubsetsOf(Nat) /\ U # {}
    <2>1. ASSUME NEW n \in Nat PROVE 1 .. n \in FiniteSubsetsOf(Nat)
      <3>1. 1 .. n \subseteq Nat
        OBVIOUS
      <3> QED BY <3>1, FS_Interval DEF FiniteSubsetsOf
    <2> QED BY <1>1, <2>1
  <1>3. IsWellFoundedOn(R, FiniteSubsetsOf(Nat))
    BY <1>1, FS_StrictSubsetOrderingWellFounded
  <1>4. PICK x \in U : \A y \in U : <<y, x>> \notin R
    BY <1>2, <1>3, WFMin
  <1>5. PICK n \in Nat \ T : x = 1 .. n
    BY <1>1
  <1>6. n - 1 \in Nat /\ n - 1 \notin T
    BY <1>5
  <1>7. 1 .. (n - 1) \in U
    BY <1>1, <1>6
  <1>8. <<1 .. (n - 1), 1 .. n>> \in R
    <2>1. 1 .. (n - 1) \in SUBSET Nat /\ 1 .. n \in SUBSET Nat
      OBVIOUS
    <2>2. n \in 1 .. n /\ n \notin 1 .. (n - 1)
      BY <1>6
    <2>3. 1 .. (n - 1) \subseteq 1 .. n
      BY <1>6
    <2> QED BY <1>1, <2>1, <2>2, <2>3 DEF StrictSubsetOrdering
  <1> QED BY <1>4, <1>5, <1>7, <1>8

\* A way of one edge more ends with an edge after a way.
LEMMA ReachFacts ==
    ASSUME NEW g, NEW from, NEW to
    PROVE  /\ Reaches(g, from, 0, to) => to = from
           /\ \A m \in Nat : Reaches(g, from, m + 1, to) =>
                 \E v \in States : /\ Reaches(g, from, m, v)
                                   /\ \E i \in 1 .. Len(g) : Leads(g, i, v, to)
<1>1. ASSUME NEW m \in Nat, Reaches(g, from, m + 1, to)
      PROVE  \E v \in States : /\ Reaches(g, from, m, v)
                               /\ \E i \in 1 .. Len(g) : Leads(g, i, v, to)
  <2>1. PICK w \in [0 .. m + 1 -> States] :
           /\ w[0] = from /\ w[m + 1] = to
           /\ \A k \in 1 .. m + 1 : \E i \in 1 .. Len(g) : Leads(g, i, w[k - 1], w[k])
    BY <1>1 DEF Reaches
  <2>2. PICK u : u = [k \in 0 .. m |-> w[k]]
    OBVIOUS
  <2>3. \A k \in 0 .. m : u[k] = w[k] /\ w[k] \in States
    BY <2>2
  <2>4. u \in [0 .. m -> States]
    BY <2>2, <2>3
  <2>5. \A k \in 1 .. m : \E i \in 1 .. Len(g) : Leads(g, i, u[k - 1], u[k])
    <3> TAKE k \in 1 .. m
    <3>1. k \in 1 .. m + 1 /\ k \in 0 .. m /\ k - 1 \in 0 .. m
      OBVIOUS
    <3>2. u[k] = w[k] /\ u[k - 1] = w[k - 1]
      BY <2>3, <3>1
    <3> QED BY <2>1, <3>1, <3>2
  <2>6. Reaches(g, from, m, w[m])
    <3>1. 0 \in 0 .. m /\ m \in 0 .. m
      OBVIOUS
    <3>2. u[0] = from /\ u[m] = w[m]
      BY <2>1, <2>3, <3>1
    <3> QED BY <2>4, <2>5, <3>2, Zenon DEF Reaches
  <2>7. m + 1 \in 1 .. m + 1 /\ m + 1 - 1 = m
    OBVIOUS
  <2>8. \E i \in 1 .. Len(g) : Leads(g, i, w[m], to)
    BY <2>1, <2>7
  <2> QED BY <2>3, <2>6, <2>8
<1>2. ASSUME Reaches(g, from, 0, to) PROVE to = from
  BY <1>2 DEF Reaches
<1> QED BY <1>1, <1>2

\* A route is a way and an edge that finishes it.
LEMMA RouteFacts ==
    ASSUME RouteTypes, NEW n \in Nat \ {0},
           NEW p \in [1 .. n -> {graph[i] : i \in 1 .. Len(graph)}], IsRoute(p, view.state)
    PROVE  \E i \in 1 .. Len(graph) :
               Finishes(graph[i]) /\ Reaches(graph, view.state, n - 1, graph[i].from)
<1>1. graph \in Seq(Edges) /\ view.state \in States
  BY GraphsAssumption DEF RouteTypes
<1>2. \A k \in 1 .. n : \E i \in 1 .. Len(graph) : p[k] = graph[i]
  OBVIOUS
<1>3. \A k \in 1 .. n : p[k].from \in States /\ p[k].to \in States
  <2>1. \A i \in 1 .. Len(graph) : graph[i] \in Edges
    BY <1>1
  <2>2. \A edge \in Edges : edge.from \in States /\ edge.to \in States
    BY DEF Edges, States
  <2> QED BY <1>2, <2>1, <2>2
<1>4. p \in Seq({graph[i] : i \in 1 .. Len(graph)}) /\ Len(p) = n
  OBVIOUS
<1>5. /\ p[1].from = view.state /\ Finishes(p[n])
      /\ \A k \in 1 .. n - 1 : p[k].to = p[k + 1].from /\ p[k].class = "NAVIGATION"
  BY <1>4 DEF IsRoute
<1>6. PICK w : w = [k \in 0 .. n - 1 |-> p[k + 1].from]
  OBVIOUS
<1>7. \A k \in 0 .. n - 1 : k + 1 \in 1 .. n /\ w[k] = p[k + 1].from /\ w[k] \in States
  BY <1>3, <1>6
<1>8. w \in [0 .. n - 1 -> States]
  BY <1>6, <1>7
<1>9. w[0] = view.state
  <2>1. 0 \in 0 .. n - 1 /\ 0 + 1 = 1
    OBVIOUS
  <2> QED BY <1>5, <1>7, <2>1
<1>10. \A k \in 1 .. n - 1 : \E i \in 1 .. Len(graph) : Leads(graph, i, w[k - 1], w[k])
  <2> TAKE k \in 1 .. n - 1
  <2>1. k \in 1 .. n /\ k - 1 \in 0 .. n - 1 /\ k \in 0 .. n - 1 /\ k - 1 + 1 = k
    OBVIOUS
  <2>2. w[k - 1] = p[k].from /\ w[k] = p[k].to /\ p[k].class = "NAVIGATION"
    BY <1>5, <1>7, <2>1
  <2>3. PICK i \in 1 .. Len(graph) : p[k] = graph[i]
    BY <1>2, <2>1
  <2> QED BY <2>2, <2>3 DEF Leads
<1>11. w[n - 1] = p[n].from
  <2>1. n - 1 \in 0 .. n - 1 /\ n - 1 + 1 = n
    OBVIOUS
  <2> QED BY <1>7, <2>1
<1>12. Reaches(graph, view.state, n - 1, p[n].from)
  <2>1. n - 1 \in Nat
    OBVIOUS
  <2> QED BY <1>8, <1>9, <1>10, <1>11, <2>1 DEF Reaches
<1>13. PICK i \in 1 .. Len(graph) : p[n] = graph[i]
  <2>1. n \in 1 .. n
    OBVIOUS
  <2> QED BY <1>2, <2>1
<1> QED BY <1>5, <1>12, <1>13

\* The search begins at the state observed.
LEMMA LookBreadth ==
    ASSUME IInv, Look
    PROVE  Breadth'
<1>1. PICK state \in States :
         /\ view' = [frame |-> Captured, state |-> state]
         /\ search' = [queue |-> <<Root(state)>>, seen |-> {state},
                        node |-> Root(state), left |-> {}]
         /\ phase' \in {"search", "done", "failed"}
  BY CapturedFacts DEF Look, IInv, AgentPart
<1>2. /\ Root(state).state = state /\ Len(Root(state).path) = 0
  BY DEF Root
<1>3. /\ Len(search'.queue) = 1 /\ search'.queue[1] = Root(state) /\ search'.node = Root(state)
      /\ search'.left = {} /\ search'.seen = {state} /\ view'.state = state
  BY <1>1
<1>4. \A n \in 1 .. Len(search'.queue) : n = 1
  BY <1>3
<1>5. Sorted'
  BY <1>2, <1>3, <1>4 DEF Sorted, Depth
<1>6. Nearest'
  BY <1>2, <1>3, <1>4 DEF Nearest, Depth
<1>7. Swept'
  <2>1. ASSUME NEW m \in Nat, NEW u \in States, m <= Depth',
               Reaches(graph', view'.state, m, u)
        PROVE  u \in search'.seen
    <3>1. m = 0
      BY <1>2, <1>3, <2>1 DEF Depth
    <3> QED BY <1>3, <2>1, <3>1, ReachFacts
  <2> QED BY <2>1 DEF Swept
<1>8. Accounted'
  <2>1. ASSUME NEW i \in 1 .. Len(graph'), graph'[i].from \in search'.seen
        PROVE  Waits(i)'
    <3>1. 1 \in 1 .. Len(search'.queue) /\ search'.queue[1].state = graph'[i].from
      BY <1>2, <1>3, <2>1
    <3> QED BY <3>1 DEF Waits
  <2> QED BY <2>1 DEF Accounted
<1> QED BY <1>1, <1>5, <1>6, <1>7, <1>8 DEF Breadth

\* The next node is the nearest of the queue: at its distance, all states have
\* been seen.
LEMMA TakeNodeBreadth ==
    ASSUME IInv, Breadth, TakeNode
    PROVE  Breadth'
<1>1. /\ phase = "search" /\ search.left = {} /\ search.queue # <<>>
      /\ UNCHANGED <<graph, class, phase, path, step, attempt, view>>
  BY DEF TakeNode
<1>2. /\ search \in [queue : Seq(Nodes), seen : SUBSET States, node : Nodes, left : SUBSET Nat]
      /\ graph \in Seq(Edges)
  BY GraphsAssumption DEF IInv, RoutePart, RouteTypes
<1>3. PICK queue, head, rest :
         queue = search.queue /\ head = Head(search.queue) /\ rest = Tail(search.queue)
  OBVIOUS
<1>4. /\ queue \in Seq(Nodes) /\ head \in Nodes /\ rest \in Seq(Nodes)
      /\ head = queue[1] /\ 1 \in 1 .. Len(queue)
      /\ \A n \in 1 .. Len(rest) : n + 1 \in 1 .. Len(queue) /\ rest[n] = queue[n + 1]
      /\ \A n \in 1 .. Len(queue) :
            n # 1 => n - 1 \in 1 .. Len(rest) /\ rest[n - 1] = queue[n]
      /\ \A n \in 1 .. Len(queue) : queue[n] \in Nodes
  <2>1. /\ queue \in Seq(Nodes) /\ queue # <<>> /\ head = Head(queue) /\ rest = Tail(queue)
    BY <1>1, <1>2, <1>3
  <2>2. /\ Len(queue) \in Nat \ {0} /\ head = queue[1] /\ rest \in Seq(Nodes)
        /\ Len(rest) = Len(queue) - 1 /\ head \in Nodes
        /\ \A n \in 1 .. Len(rest) : rest[n] = queue[n + 1]
    BY <2>1
  <2>3. \A n \in 1 .. Len(rest) : n + 1 \in 1 .. Len(queue)
    BY <2>2
  <2>4. ASSUME NEW n \in 1 .. Len(queue), n # 1
        PROVE  n - 1 \in 1 .. Len(rest) /\ rest[n - 1] = queue[n]
    <3>1. n - 1 \in 1 .. Len(rest) /\ n - 1 + 1 = n
      BY <2>2, <2>4
    <3> QED BY <2>2, <3>1
  <2>5. 1 \in 1 .. Len(queue) /\ \A n \in 1 .. Len(queue) : queue[n] \in Nodes
    BY <2>1, <2>2
  <2> QED BY <2>1, <2>2, <2>3, <2>4, <2>5
<1>5. PICK out : out = {i \in 1 .. Len(graph) : graph[i].from = head.state}
  OBVIOUS
<1>6. /\ search'.queue = rest /\ search'.node = head /\ search'.seen = search.seen
      /\ search'.left = out
  BY <1>2, <1>3, <1>5 DEF TakeNode
<1>7. Sorted /\ Nearest /\ Swept /\ Accounted
  BY <1>1 DEF Breadth
<1>8. PICK d \in Nat, e \in Nat : d = Depth /\ e = Len(head.path)
  <2>1. search.node.path \in Seq(Edges) /\ head.path \in Seq(Edges)
    BY <1>2, <1>4 DEF Nodes
  <2>2. Len(search.node.path) \in Nat /\ Len(head.path) \in Nat
    BY <2>1
  <2> QED BY <2>2 DEF Depth
<1>9. /\ e \in {d, d + 1} /\ Depth' = e
      /\ \A n \in 1 .. Len(queue) :
            /\ Len(queue[n].path) \in {d, d + 1} /\ e <= Len(queue[n].path)
  <2>1. \A n \in 1 .. Len(queue) : 1 <= n
    BY <1>4
  <2> QED BY <1>3, <1>4, <1>6, <1>7, <1>8, <2>1 DEF Sorted, Depth
<1>10. Sorted'
  <2>1. \A n \in 1 .. Len(rest) : Len(rest[n].path) \in {e, e + 1}
    <3> TAKE n \in 1 .. Len(rest)
    <3>1. Len(rest[n].path) \in {d, d + 1} /\ e <= Len(rest[n].path)
      BY <1>4, <1>9
    <3> QED BY <1>9, <3>1
  <2>2. ASSUME NEW j \in 1 .. Len(rest), NEW n \in 1 .. Len(rest), j <= n
        PROVE  Len(rest[j].path) <= Len(rest[n].path)
    <3>1. /\ j + 1 \in 1 .. Len(queue) /\ n + 1 \in 1 .. Len(queue) /\ j + 1 <= n + 1
          /\ rest[j] = queue[j + 1] /\ rest[n] = queue[n + 1]
      BY <1>4, <2>2
    <3> QED BY <1>3, <1>7, <3>1 DEF Sorted
  <2> QED BY <1>6, <1>9, <2>1, <2>2 DEF Sorted
<1>11. Nearest'
  <2>1. \A n \in 1 .. Len(queue), m \in Nat :
           m < Len(queue[n].path) => ~Reaches(graph, view.state, m, queue[n].state)
    BY <1>3, <1>7 DEF Nearest
  <2>2. \A m \in Nat : m < e => ~Reaches(graph, view.state, m, head.state)
    BY <1>4, <1>8, <2>1
  <2>3. ASSUME NEW n \in 1 .. Len(rest), NEW m \in Nat, m < Len(rest[n].path)
        PROVE  ~Reaches(graph, view.state, m, rest[n].state)
    <3>1. n + 1 \in 1 .. Len(queue) /\ rest[n] = queue[n + 1]
      BY <1>4
    <3> QED BY <2>1, <2>3, <3>1
  <2> QED BY <1>1, <1>6, <1>9, <2>2, <2>3 DEF Nearest
<1>12. Swept'
  <2>1. \A m \in Nat, u \in States :
           m <= d /\ Reaches(graph, view.state, m, u) => u \in search.seen
    BY <1>7, <1>8 DEF Swept
  <2>2. ASSUME NEW u \in States, e = d + 1, Reaches(graph, view.state, d + 1, u)
        PROVE  u \in search.seen
    <3>1. PICK v \in States, i \in 1 .. Len(graph) :
             Reaches(graph, view.state, d, v) /\ Leads(graph, i, v, u)
      BY <2>2, ReachFacts
    <3>2. v \in search.seen
      BY <2>1, <3>1
    <3>3. graph[i].from = v /\ graph[i].to = u /\ graph[i].class = "NAVIGATION"
      BY <3>1 DEF Leads
    <3>4. ASSUME NEW n \in 1 .. Len(queue), queue[n].state = v PROVE FALSE
      <4>1. d < Len(queue[n].path)
        BY <1>9, <2>2
      <4> QED BY <1>3, <1>7, <3>1, <3>4, <4>1 DEF Nearest
    <3>5. ~Waits(i)
      BY <1>1, <1>3, <3>3, <3>4 DEF Waits
    <3> QED BY <1>7, <3>2, <3>3, <3>5 DEF Accounted, Harmless
  <2>3. ASSUME NEW m \in Nat, NEW u \in States, m <= e, Reaches(graph, view.state, m, u)
        PROVE  u \in search.seen
    <3>1. CASE m <= d
      BY <2>1, <2>3, <3>1
    <3>2. CASE ~(m <= d)
      <4>1. e = d \/ e = d + 1
        BY <1>9
      <4>2. m = d + 1 /\ e = d + 1
        BY <2>3, <3>2, <4>1
      <4> QED BY <2>2, <2>3, <4>2
    <3> QED BY <3>1, <3>2
  <2> QED BY <1>1, <1>6, <1>9, <2>3 DEF Swept
<1>13. Accounted'
  <2>1. ASSUME NEW i \in 1 .. Len(graph), graph[i].from \in search.seen
        PROVE  \/ i \in out
               \/ \E n \in 1 .. Len(rest) : rest[n].state = graph[i].from
               \/ Harmless(i)
    <3>1. CASE Harmless(i)
      BY <3>1
    <3>2. CASE Waits(i)
      <4>1. PICK n \in 1 .. Len(queue) : queue[n].state = graph[i].from
        BY <1>1, <1>3, <3>2 DEF Waits
      <4>2. CASE n = 1
        BY <1>4, <1>5, <4>1, <4>2
      <4>3. CASE n # 1
        BY <1>4, <4>1, <4>3
      <4> QED BY <4>2, <4>3
    <3> QED BY <1>7, <2>1, <3>1, <3>2 DEF Accounted
  <2>2. \A i \in 1 .. Len(graph) : Harmless(i)' <=> Harmless(i)
    BY <1>1, <1>6 DEF Harmless, Finishes
  <2> QED BY <1>1, <1>6, <2>1, <2>2 DEF Accounted, Waits
<1> QED BY <1>1, <1>10, <1>11, <1>12, <1>13 DEF Breadth

\* An edge followed leads on to a state seen, or finishes a route none is
\* shorter than.
LEMMA FollowEdgeBreadth ==
    ASSUME IInv, Breadth, FollowEdge
    PROVE  Breadth'
<1>1. phase = "search" /\ UNCHANGED <<graph, class, step, attempt, view>>
  BY DEF FollowEdge
<1>2. /\ search \in [queue : Seq(Nodes), seen : SUBSET States, node : Nodes, left : SUBSET Nat]
      /\ graph \in Seq(Edges) /\ RouteTypes
  BY GraphsAssumption DEF IInv, RoutePart, RouteTypes
<1>3. Sorted /\ Nearest /\ Swept /\ Accounted
  BY <1>1 DEF Breadth
<1>4. PICK node \in Nodes, queue \in Seq(Nodes), seen \in SUBSET States, left \in SUBSET Nat :
         /\ node = search.node /\ queue = search.queue
         /\ seen = search.seen /\ left = search.left
  BY <1>2
<1>5. PICK i \in left :
         LET edge == graph[i]
             extended == Append(search.node.path, edge)
             rest == [search EXCEPT !.left = @ \ {i}]
         IN  IF Finishes(edge)
             THEN path' = extended /\ phase' = "ready" /\ search' = rest
             ELSE /\ UNCHANGED <<path, phase>>
                  /\ search' =
                        IF ~Extends(edge, search.seen) THEN rest
                        ELSE [rest EXCEPT
                                 !.seen = @ \cup {edge.to},
                                 !.queue = Append(@, [state |-> edge.to, path |-> extended])]
  BY <1>4 DEF FollowEdge
<1>6. i \in 1 .. Len(graph) /\ \A j \in left : j \in 1 .. Len(graph) /\ graph[j].from = node.state
  BY <1>1, <1>4, <1>5 DEF IInv, RoutePart, Searched
<1>7. PICK edge \in Edges : edge = graph[i]
  BY <1>2, <1>6
<1>8. PICK extended : extended = Append(node.path, edge)
  OBVIOUS
<1>9. PICK d \in Nat : d = Depth /\ d = Len(node.path)
  BY <1>4 DEF Depth, Nodes
<1>10. extended \in Seq(Edges) /\ Len(extended) = d + 1
  <2>1. node.path \in Seq(Edges)
    BY DEF Nodes
  <2> QED BY <1>8, <1>9, <2>1
<1>11. PICK rest : rest = [search EXCEPT !.left = @ \ {i}]
  OBVIOUS
<1>12. /\ rest.queue = queue /\ rest.node = node /\ rest.left = left \ {i} /\ rest.seen = seen
       /\ rest \in [queue : Seq(Nodes), seen : SUBSET States, node : Nodes, left : SUBSET Nat]
  BY <1>2, <1>4, <1>11
<1>13. CASE Finishes(edge)
  <2>1. path' = extended /\ phase' = "ready"
    BY <1>4, <1>5, <1>7, <1>8, <1>13
  <2>2. ASSUME NEW n \in 1 .. d,
               NEW p \in [1 .. n -> {graph[j] : j \in 1 .. Len(graph)}], IsRoute(p, view.state)
        PROVE  FALSE
    <3>1. n \in Nat \ {0} /\ n - 1 \in Nat /\ n - 1 < d
      OBVIOUS
    <3>2. PICK j \in 1 .. Len(graph) :
             Finishes(graph[j]) /\ Reaches(graph, view.state, n - 1, graph[j].from)
      BY <1>2, <2>2, <3>1, RouteFacts
    <3>3. graph[j].from \in States
      <4>1. graph[j] \in Edges
        BY <1>2
      <4> QED BY <4>1 DEF Edges, States
    <3>4. graph[j].from \in search.seen
      BY <1>3, <1>9, <3>1, <3>2, <3>3 DEF Swept
    <3>5. Waits(j)
      BY <1>3, <3>2, <3>4 DEF Accounted, Harmless
    <3>6. CASE j \in left
      <4>1. graph[j].from = search.node.state
        BY <1>4, <1>6, <3>6
      <4> QED BY <1>3, <1>9, <3>1, <3>2, <4>1 DEF Nearest
    <3>7. CASE j \notin left
      <4>1. PICK m \in 1 .. Len(queue) : queue[m].state = graph[j].from
        BY <1>4, <3>5, <3>7 DEF Waits
      <4>2. Len(queue[m].path) \in {d, d + 1}
        BY <1>3, <1>4, <1>9, <4>1 DEF Sorted
      <4>3. n - 1 < Len(queue[m].path)
        BY <3>1, <4>2
      <4> QED BY <1>3, <1>4, <3>1, <3>2, <4>1, <4>3 DEF Nearest
    <3> QED BY <3>6, <3>7
  <2>3. \A n \in 1 .. d : NoRoute(n)
    BY <2>2 DEF NoRoute
  <2>4. \A n \in 1 .. d : NoRoute(n)'
    <3>1. class' = class
      BY DEF FollowEdge
    <3>2. \A p : IsRoute(p, view.state)' <=> IsRoute(p, view.state)
      BY <1>1, <3>1 DEF IsRoute, Finishes
    <3>3. \A n \in 1 .. d : NoRoute(n)' <=> NoRoute(n)
      BY <1>1, <3>2 DEF NoRoute
    <3> QED BY <2>3, <3>3
  <2>5. Len(path') - 1 = d
    BY <1>10, <2>1
  <2> QED BY <2>1, <2>4, <2>5 DEF Breadth
<1>14. CASE ~Finishes(edge)
  <2>1. UNCHANGED phase
    BY <1>5, <1>7, <1>14
  <2>2. PICK new : new = [state |-> edge.to, path |-> extended]
    OBVIOUS
  <2>3. new \in Nodes /\ new.state = edge.to /\ new.path = extended /\ edge.to \in States
    BY <1>10, <2>2 DEF Nodes, Edges, States
  <2>4. search' = IF ~Extends(edge, seen) THEN rest
                  ELSE [rest EXCEPT !.seen = @ \cup {edge.to}, !.queue = Append(@, new)]
    BY <1>4, <1>5, <1>7, <1>8, <1>11, <1>14, <2>2
  <2>5. CASE ~Extends(edge, seen)
    <3>1. /\ search'.queue = queue /\ search'.node = node /\ search'.left = left \ {i}
          /\ search'.seen = seen
      BY <1>12, <2>4, <2>5
    <3>2. Sorted' /\ Nearest' /\ Swept'
      BY <1>1, <1>3, <1>4, <3>1 DEF Sorted, Nearest, Swept, Depth
    <3>3. Harmless(i)
      BY <1>4, <1>7, <1>14, <2>5 DEF Harmless, Extends
    <3>4. \A j \in 1 .. Len(graph) : Harmless(j)' <=> Harmless(j)
      BY <1>1, <1>4, <3>1 DEF Harmless, Finishes
    <3>5. \A j \in 1 .. Len(graph) : j # i => (Waits(j)' <=> Waits(j))
      BY <1>1, <1>4, <3>1 DEF Waits
    <3>6. Accounted'
      BY <1>1, <1>3, <1>4, <3>1, <3>3, <3>4, <3>5 DEF Accounted
    <3> QED BY <1>1, <2>1, <3>2, <3>6 DEF Breadth
  <2>6. CASE Extends(edge, seen)
    <3>1. edge.to \notin seen
      BY <2>6 DEF Extends
    <3>2. PICK longer : longer = Append(queue, new)
      OBVIOUS
    <3>3. /\ longer \in Seq(Nodes) /\ Len(longer) = Len(queue) + 1 /\ Len(queue) \in Nat
          /\ longer[Len(queue) + 1] = new
          /\ \A n \in 1 .. Len(queue) : longer[n] = queue[n]
      BY <2>3, <3>2
    <3>4. /\ search'.queue = longer /\ search'.node = node /\ search'.left = left \ {i}
          /\ search'.seen = seen \cup {edge.to}
      BY <1>12, <2>4, <2>6, <3>2
    <3>5. \A n \in 1 .. Len(longer) : n = Len(queue) + 1 \/ n \in 1 .. Len(queue)
      BY <3>3
    <3>6. Depth' = d
      BY <1>9, <3>4 DEF Depth
    <3>7. \A n \in 1 .. Len(queue) : Len(queue[n].path) \in {d, d + 1}
      BY <1>3, <1>4, <1>9 DEF Sorted
    <3>8. Sorted'
      <4>1. \A n \in 1 .. Len(longer) : Len(longer[n].path) \in {d, d + 1}
        BY <1>10, <2>3, <3>3, <3>5, <3>7
      <4>2. ASSUME NEW j \in 1 .. Len(longer), NEW n \in 1 .. Len(longer), j <= n
            PROVE  Len(longer[j].path) <= Len(longer[n].path)
        <5>1. CASE n = Len(queue) + 1
          <6>1. Len(longer[n].path) = d + 1
            BY <1>10, <2>3, <3>3, <5>1
          <6> QED BY <4>1, <6>1
        <5>2. CASE n \in 1 .. Len(queue)
          <6>1. j \in 1 .. Len(queue)
            BY <3>3, <4>2, <5>2
          <6> QED BY <1>3, <1>4, <3>3, <4>2, <5>2, <6>1 DEF Sorted
        <5> QED BY <3>5, <5>1, <5>2
      <4> QED BY <3>4, <3>6, <4>1, <4>2 DEF Sorted
    <3>9. Nearest'
      <4>1. \A m \in Nat : m < d => ~Reaches(graph, view.state, m, node.state)
        BY <1>3, <1>4, <1>9 DEF Nearest
      <4>2. ASSUME NEW n \in 1 .. Len(longer), NEW m \in Nat, m < Len(longer[n].path)
            PROVE  ~Reaches(graph, view.state, m, longer[n].state)
        <5>1. CASE n = Len(queue) + 1
          <6>1. m <= d /\ longer[n].state = edge.to
            BY <1>10, <2>3, <3>3, <4>2, <5>1
          <6> QED BY <1>3, <1>4, <1>9, <2>3, <3>1, <6>1 DEF Swept
        <5>2. CASE n \in 1 .. Len(queue)
          BY <1>3, <1>4, <3>3, <4>2, <5>2 DEF Nearest
        <5> QED BY <3>5, <5>1, <5>2
      <4> QED BY <1>1, <3>4, <3>6, <4>1, <4>2 DEF Nearest
    <3>10. Swept'
      BY <1>1, <1>3, <1>4, <1>9, <3>4, <3>6 DEF Swept
    <3>11. Accounted'
      <4>1. ASSUME NEW j \in 1 .. Len(graph), graph[j].from \in seen \cup {edge.to}
            PROVE  Waits(j)' \/ Harmless(j)'
        <5>1. CASE graph[j].from = edge.to
          <6>1. /\ Len(queue) + 1 \in 1 .. Len(longer)
                /\ longer[Len(queue) + 1].state = graph[j].from
            BY <2>3, <3>3, <5>1
          <6> QED BY <1>1, <3>4, <6>1 DEF Waits
        <5>2. CASE graph[j].from \in seen
          <6>1. Waits(j) \/ Harmless(j)
            BY <1>3, <1>4, <5>2 DEF Accounted
          <6>2. Harmless(j) => Harmless(j)'
            BY <1>1, <1>4, <3>4 DEF Harmless, Finishes
          <6>3. CASE j = i
            BY <1>1, <1>7, <1>14, <3>4, <6>3 DEF Harmless, Finishes
          <6>4. CASE j # i /\ Waits(j)
            <7>1. CASE j \in left
              BY <3>4, <6>4, <7>1 DEF Waits
            <7>2. CASE j \notin left
              <8>1. PICK n \in 1 .. Len(queue) : queue[n].state = graph[j].from
                BY <1>4, <6>4, <7>2 DEF Waits
              <8>2. n \in 1 .. Len(longer) /\ longer[n].state = graph[j].from
                BY <3>3, <8>1
              <8> QED BY <1>1, <3>4, <8>2 DEF Waits
            <7> QED BY <7>1, <7>2
          <6> QED BY <6>1, <6>2, <6>3, <6>4
        <5> QED BY <4>1, <5>1, <5>2
      <4> QED BY <1>1, <3>4, <4>1 DEF Accounted
    <3> QED BY <1>1, <2>1, <3>8, <3>9, <3>10, <3>11 DEF Breadth
  <2> QED BY <2>5, <2>6
<1> QED BY <1>13, <1>14

\* The other steps leave the search and the choice of the path behind.
LEMMA OtherBreadth ==
    ASSUME IInv, Breadth, [Next]_vars, ~Look, ~TakeNode, ~FollowEdge
    PROVE  Breadth'
<1>1. ASSUME UNCHANGED <<graph, class, path, step, attempt, view>>,
             \/ UNCHANGED <<phase, search>>
             \/ phase = "ready" /\ phase' = "ready"
             \/ phase' \notin {"search", "ready"}
      PROVE  Breadth'
  <2>1. \A p : IsRoute(p, view.state)' <=> IsRoute(p, view.state)
    BY <1>1 DEF IsRoute, Finishes
  <2>2. \A n : NoRoute(n)' <=> NoRoute(n)
    BY <1>1, <2>1 DEF NoRoute
  <2>3. CASE UNCHANGED <<phase, search>>
    <3>1. \A i : (Waits(i)' <=> Waits(i)) /\ (Harmless(i)' <=> Harmless(i))
      BY <1>1, <2>3 DEF Waits, Harmless, Finishes
    <3>2. /\ Sorted' <=> Sorted
          /\ Nearest' <=> Nearest
          /\ Swept' <=> Swept
          /\ Accounted' <=> Accounted
      BY <1>1, <2>3, <3>1 DEF Sorted, Nearest, Swept, Accounted, Depth
    <3> QED BY <1>1, <2>2, <2>3, <3>2 DEF Breadth
  <2>4. CASE phase = "ready" /\ phase' = "ready"
    BY <1>1, <2>2, <2>4 DEF Breadth
  <2>5. CASE phase' \notin {"search", "ready"}
    BY <2>5 DEF Breadth
  <2> QED BY <1>1, <2>3, <2>4, <2>5
<1>2. CASE UNCHANGED routeVars
  BY <1>1, <1>2 DEF routeVars
<1>3. CASE Validate
  BY <1>1, <1>3 DEF Validate
<1>4. CASE Reobserve
  <2>1. phase' # "search" /\ (phase' = "ready" => step' # 1 \/ attempt' # 0)
    <3>1. step \in Nat \ {0} /\ attempt \in Nat
      BY DEF IInv, RoutePart, RouteTypes
    <3>2. phase' = "done" \/ phase' = "ready" \/ phase' = "failed"
      BY <1>4 DEF Reobserve
    <3>3. phase' = "ready" => step' = step + 1 \/ attempt' = attempt + 1
      BY <1>4 DEF Reobserve
    <3> QED BY <3>1, <3>2, <3>3
  <2> QED BY <2>1 DEF Breadth
<1>5. CASE StartRoute \/ NoPath \/ RequestAction \/ Abort \/ StartReobserve
  BY <1>1, <1>5 DEF StartRoute, NoPath, RequestAction, Abort, StartReobserve, Give
<1>6. CASE Receive
  BY <1>1, <1>6 DEF Receive
<1> QED BY <1>2, <1>3, <1>4, <1>5, <1>6
        DEF Next, OtherObserves, OtherObserved, routeVars, vars

\* The search stays breadth first.
THEOREM BreadthInvariance == Spec => []Breadth
<1>1. Init => Breadth
  BY DEF Init, Breadth
<1>2. IInv /\ Breadth /\ [Next]_vars => Breadth'
  BY LookBreadth, TakeNodeBreadth, FollowEdgeBreadth, OtherBreadth
<1> QED BY <1>1, <1>2, Invariance, PTL DEF Spec

\* A search that has nothing left to follow has seen all that navigation
\* reaches, and found nothing that finishes the route.
LEMMA ExhaustedFacts ==
    ASSUME IInv, Breadth, Exhausted, NEW n \in Nat \ {0}
    PROVE  NoRoute(n)
<1>1. /\ Sorted /\ Nearest /\ Swept /\ Accounted
      /\ \A i \in 1 .. Len(graph) : ~Waits(i)
  <2>1. phase = "search" /\ search.left = {} /\ Len(search.queue) = 0
    BY DEF Exhausted
  <2> QED BY <2>1 DEF Breadth, Waits
<1>2. graph \in Seq(Edges) /\ RouteTypes
  BY GraphsAssumption DEF IInv, RoutePart, RouteTypes
<1>3. PICK T : T = {m \in Nat : \A u \in States :
                       Reaches(graph, view.state, m, u) => u \in search.seen}
  OBVIOUS
<1>4. 0 \in T
  <2>1. 0 <= Depth
    <3>1. search.node.path \in Seq(Edges)
      BY <1>2 DEF RouteTypes, Nodes
    <3> QED BY <3>1 DEF Depth
  <2> QED BY <1>1, <1>3, <2>1 DEF Swept
<1>5. ASSUME NEW m \in Nat, m \in T PROVE m + 1 \in T
  <2>1. ASSUME NEW u \in States, Reaches(graph, view.state, m + 1, u)
        PROVE  u \in search.seen
    <3>1. PICK v \in States, i \in 1 .. Len(graph) :
             Reaches(graph, view.state, m, v) /\ Leads(graph, i, v, u)
      BY <2>1, ReachFacts
    <3>2. v \in search.seen
      BY <1>3, <1>5, <3>1
    <3> QED BY <1>1, <3>1, <3>2 DEF Accounted, Harmless, Leads
  <2> QED BY <1>3, <2>1
<1>6. Nat \subseteq T
  BY <1>4, <1>5, NatFacts
<1> SUFFICES ASSUME NEW p \in [1 .. n -> {graph[i] : i \in 1 .. Len(graph)}],
                    IsRoute(p, view.state)
             PROVE  FALSE
  BY DEF NoRoute
<1>7. PICK i \in 1 .. Len(graph) :
         Finishes(graph[i]) /\ Reaches(graph, view.state, n - 1, graph[i].from)
  BY <1>2, RouteFacts
<1>8. graph[i].from \in States
  <2>1. graph[i] \in Edges
    BY <1>2
  <2> QED BY <2>1 DEF Edges, States
<1>9. n - 1 \in T
  BY <1>6
<1> QED BY <1>1, <1>3, <1>7, <1>8, <1>9 DEF Accounted, Harmless

\* What the search hands over is a shortest route of navigation and one last
\* edge of the requested class, and no search that gives up has missed one
\* (PathForClass, PathForCommit): money is never a shortcut.
THEOREM ShortestTheorem == Spec => []ShortestSafeRoute
<1>1. ASSUME IInv, Breadth PROVE ShortestSafeRoute
  <2>1. PICK edges : edges = {graph[i] : i \in 1 .. Len(graph)}
    OBVIOUS
  <2>2. ASSUME phase = "ready", step = 1, attempt = 0
        PROVE  /\ IsRoute(path, path[1].from) /\ path[1].from = view.state
               /\ \A p \in UNION {[1 .. m -> edges] : m \in 1 .. Len(path) - 1} :
                     ~IsRoute(p, view.state)
    <3>1. IsRoute(path, path[1].from) /\ path[1].from = view.state
      BY <1>1, <2>2 DEF IInv, RoutePart, Found, Walking
    <3>2. \A m \in 1 .. Len(path) - 1 : NoRoute(m)
      BY <1>1, <2>2 DEF Breadth
    <3> QED BY <2>1, <3>1, <3>2 DEF NoRoute
  <2>3. ASSUME Exhausted, NEW p \in UNION {[1 .. m -> edges] : m \in 1 .. 3}
        PROVE  ~IsRoute(p, view.state)
    <3>1. PICK m \in 1 .. 3 : p \in [1 .. m -> edges]
      BY <2>3
    <3>2. NoRoute(m)
      BY <1>1, <2>3, ExhaustedFacts
    <3> QED BY <2>1, <3>1, <3>2 DEF NoRoute
  <2> QED BY <2>1, <2>2, <2>3 DEF ShortestSafeRoute
<1> QED BY <1>1, Invariance, BreadthInvariance, PTL

\* The same for routes of any length, where TLC looks at three edges.
THEOREM NoRouteTheorem == Spec => [](Exhausted => \A n \in Nat \ {0} : NoRoute(n))
<1>1. IInv /\ Breadth => (Exhausted => \A n \in Nat \ {0} : NoRoute(n))
  BY ExhaustedFacts
<1> QED BY <1>1, Invariance, BreadthInvariance, PTL
=============================================================================

----------------------------- MODULE Navigation -----------------------------
(***************************************************************************)
(* One route over the game's screens: automation.Router chooses a path with *)
(* navigation.Navigator, checks the critical values, and has                *)
(* navigation.Executor walk it, action by action, over the agent of         *)
(* ActionAgent, with session.Coordinator observing after every action.      *)
(*                                                                          *)
(* The path is searched over the edges in the order they were declared, one *)
(* edge per step.  Requests and answers may be lost: the route then ends    *)
(* and the agent goes on.                                                   *)
(***************************************************************************)
EXTENDS ActionAgent, Sequences

CONSTANTS
    Graphs,     \* sequences of transitions [from, to, class, calls, retries]
    Target,     \* where the route leads
    Classes,    \* classes of routes: "NAVIGATION" or a monetary one
    Agreed,     \* the value the CommitValidator accepts
    MaxFrames   \* bound: frames captured for anybody else

Edges ==
    [from : Screens, to : Screens, class : ActionClasses, calls : Nat \ {0}, retries : Nat]

\* What navigation.New accepts: no edge touches UNKNOWN, and a monetary one is
\* never retried.
ASSUME GraphsAssumption ==
    /\ Graphs \subseteq Seq(Edges)
    /\ \A g \in Graphs : \A i \in 1 .. Len(g) : g[i].class # "NAVIGATION" => g[i].retries = 0
ASSUME RouteAssumption ==
    /\ Target \in Screens /\ Classes \subseteq ActionClasses
    /\ Agreed \in Values /\ MaxFrames \in Nat

VARIABLES
    graph,      \* Navigator.edges
    class,      \* the class of the route
    phase,      \* what the route is doing
    search,     \* of the search: the queue, the seen states, the node taken
                \* off the queue and its edges still to be followed
    path,       \* the path found
    step,       \* the transition under way
    attempt,    \* its attempt, from 0
    view,       \* result.Frame and result.Observation
    result,     \* the answer to the last action
    observing,  \* Coordinator.observing: who holds it, or Nothing
    commit      \* history: the value the validator saw, or Nothing

routeVars == <<graph, class, phase, search, path, step, attempt, view, result, commit>>
vars == <<agentVars, routeVars, observing>>

NoView == [frame |-> [id |-> 0, state |-> Unknown, value |-> Agreed], state |-> Unknown]

Root(state) == [state |-> state, path |-> <<>>]

Init ==
    /\ AgentInit
    /\ graph \in Graphs /\ class \in Classes
    /\ phase = "start"
    /\ search = [queue |-> <<>>, seen |-> {}, node |-> Root(Unknown), left |-> {}]
    /\ path = <<>> /\ step = 1 /\ attempt = 0
    /\ view = NoView /\ result = Nothing
    /\ observing = Nothing /\ commit = Nothing

Ended == phase \in {"done", "failed"}

Give(next) ==
    /\ phase' = next
    /\ UNCHANGED <<graph, class, search, path, step, attempt, view, result, commit>>

-----------------------------------------------------------------------------
(* Coordinator.ObserveAfter: one observation at a time, of a new frame.    *)

Observe(who) ==
    /\ observing = Nothing
    /\ observing' = who
    /\ UNCHANGED agentVars

\* The frame arrives when the agent is not executing.
Frame ==
    /\ exec = Nothing
    /\ latest' = Captured.id
    /\ observing' = Nothing
    /\ UNCHANGED <<gameVars, blocked, exec, answer, historyVars>>

\* The dashboard, the periodic observation or a preflight observes too.
OtherObserves ==
    /\ latest < MaxFrames /\ ~Ended
    /\ Observe("other")
    /\ UNCHANGED routeVars

OtherObserved ==
    /\ observing = "other"
    /\ Frame
    /\ UNCHANGED routeVars

-----------------------------------------------------------------------------
(* Router.route and Navigator: choosing the path.                          *)

StartRoute ==
    /\ phase = "start"
    /\ Observe("route")
    /\ Give("look")

\* The initial observation.  A monetary route that is there already is refused.
Look ==
    /\ phase = "look" /\ Frame
    /\ \E state \in Detected(Captured) :
          /\ view' = [frame |-> Captured, state |-> state]
          /\ search' = [queue |-> <<Root(state)>>, seen |-> {state},
                         node |-> Root(state), left |-> {}]
          /\ phase' = IF state # Target THEN "search"
                      ELSE IF class = "NAVIGATION" THEN "done" ELSE "failed"
    /\ UNCHANGED <<graph, class, path, step, attempt, result, commit>>

\* Mutant: an edge of any class shortens a route.
ExtendsAnyClass(edge, seen) == edge.to \notin seen

Extends(edge, seen) == edge.class = "NAVIGATION" /\ edge.to \notin seen

Finishes(edge) == edge.class = class /\ edge.to = Target

\* PathForClass and PathForCommit, breadth first: a node is taken off the queue,
TakeNode ==
    /\ phase = "search" /\ search.left = {} /\ search.queue # <<>>
    /\ LET node == Head(search.queue)
       IN  search' = [search EXCEPT
                         !.queue = Tail(@), !.node = node,
                         !.left = {i \in 1 .. Len(graph) : graph[i].from = node.state}]
    /\ UNCHANGED <<agentVars, graph, class, phase, path, step, attempt, view, result,
                   observing, commit>>

\* and its edges are followed in their order, until one finishes the route.
FollowEdge ==
    /\ phase = "search"
    /\ \E i \in search.left :
          /\ \A j \in search.left : i <= j
          /\ LET edge == graph[i]
                 extended == Append(search.node.path, edge)
                 rest == [search EXCEPT !.left = @ \ {i}]
             IN  IF Finishes(edge)
                 THEN path' = extended /\ phase' = "ready" /\ search' = rest
                 ELSE /\ UNCHANGED <<path, phase>>
                      /\ search' =
                            IF ~Extends(edge, search.seen) THEN rest
                            ELSE [rest EXCEPT
                                     !.seen = @ \cup {edge.to},
                                     !.queue = Append(@, [state |-> edge.to, path |-> extended])]
    /\ UNCHANGED <<agentVars, graph, class, step, attempt, view, result, observing, commit>>

Exhausted == phase = "search" /\ search.left = {} /\ search.queue = <<>>

NoPath ==
    /\ Exhausted
    /\ Give("failed")
    /\ UNCHANGED <<agentVars, observing>>

-----------------------------------------------------------------------------
(* Executor.Execute, first over the navigation prefix and then over the    *)
(* final monetary transition, which is only entered after the validator.   *)

Edge == path[step]

Monetary == class # "NAVIGATION"

\* Mutant: the values are checked when the route is chosen.
DueEarly == Monetary /\ commit = Nothing

\* The values are checked before the last transition of a monetary route.
DueValidation == Monetary /\ step = Len(path) /\ commit = Nothing

Validate ==
    /\ phase = "ready" /\ DueValidation
    /\ commit' = view.frame.value
    /\ phase' = IF view.frame.value = Agreed THEN "ready" ELSE "failed"
    /\ UNCHANGED <<agentVars, graph, class, search, path, step, attempt, view, result, observing>>

RequestAction ==
    /\ phase = "ready" /\ ~DueValidation
    /\ view.state = Edge.from
    /\ Submit([step |-> step, attempt |-> attempt, from |-> Edge.from, to |-> Edge.to,
               class |-> Edge.class, calls |-> Edge.calls, based |-> view.frame])
    /\ Give("waiting")
    /\ UNCHANGED observing

\* A done context, a stale snapshot, a closed gate, a timeout, a lost
\* connection, an observation that fails: the route ends with an error.
\* What the agent was asked to do it does all the same.
Abort ==
    /\ ~Ended
    /\ Give("failed")
    /\ observing' = IF observing = "route" THEN Nothing ELSE observing
    /\ UNCHANGED agentVars

\* validateActionResult: an unrecognized screen is not accepted as an answer.
Receive ==
    /\ phase = "waiting" /\ answer # Nothing
    /\ answer' = Nothing
    /\ result' = answer
    /\ phase' = IF answer.frame # 0 /\ answer.state = Unknown THEN "failed" ELSE "answered"
    /\ UNCHANGED <<gameVars, latest, blocked, exec, historyVars, observing,
                   graph, class, search, path, step, attempt, view, commit>>

StartReobserve ==
    /\ phase = "answered"
    /\ Observe("route")
    /\ Give("reobserve")

\* Mutant: a transition is complete when its screen is seen.
CompleteWhenSeen(state) == state = Edge.to

\* The observer sees the target, and the agent confirmed its action.
Complete(state) == state = Edge.to /\ result.success

\* Mutant: any failure that left the screen as it was is retried.
RetryAnyFailure(state) ==
    /\ state = Edge.from /\ attempt < Edge.retries
    /\ ~result.success /\ result.frame # 0 /\ result.state = Edge.from

\* canRetry, with the fresh observation that must agree.
CanRetry(state) ==
    /\ state = Edge.from /\ attempt < Edge.retries
    /\ ~result.success /\ result.safe /\ result.frame # 0 /\ result.state = Edge.from

Reobserve ==
    /\ phase = "reobserve" /\ Frame
    /\ \E state \in Detected(Captured) :
          /\ view' = [frame |-> Captured, state |-> state]
          /\ IF Complete(state)
             THEN /\ attempt' = 0
                  /\ IF step = Len(path) THEN phase' = "done" /\ UNCHANGED step
                     ELSE phase' = "ready" /\ step' = step + 1
             ELSE /\ UNCHANGED step
                  /\ IF CanRetry(state) THEN phase' = "ready" /\ attempt' = attempt + 1
                     ELSE phase' = "failed" /\ UNCHANGED attempt
    /\ UNCHANGED <<graph, class, search, path, result, commit>>

-----------------------------------------------------------------------------
Next ==
    \/ (AgentStep \/ Drift \/ Stop) /\ UNCHANGED <<routeVars, observing>>
    \/ OtherObserves \/ OtherObserved
    \/ StartRoute \/ Look \/ TakeNode \/ FollowEdge \/ NoPath
    \/ Validate \/ RequestAction \/ Abort \/ Receive \/ StartReobserve \/ Reobserve

Spec == Init /\ [][Next]_vars

-----------------------------------------------------------------------------
(* Properties.                                                             *)

\* A route of edges of the graph from a state: navigation all the way, and a
\* last edge of the requested class into the target.
IsRoute(p, from) ==
    /\ p # <<>> /\ p[1].from = from
    /\ \A i \in 1 .. Len(p) - 1 : p[i].to = p[i + 1].from /\ p[i].class = "NAVIGATION"
    /\ Finishes(p[Len(p)])

\* The search (Navigator.PathForClass, PathForCommit) returns a shortest such
\* route, and gives up only if there is none: money is never a shortcut.
ShortestSafeRoute ==
    LET edges == {graph[i] : i \in 1 .. Len(graph)}
        shorter(n) == UNION {[1 .. m -> edges] : m \in 1 .. n}
    IN  /\ phase = "ready" /\ step = 1 /\ attempt = 0 =>
              /\ IsRoute(path, path[1].from) /\ path[1].from = view.state
              /\ \A p \in shorter(Len(path) - 1) : ~IsRoute(p, view.state)
        /\ Exhausted => \A p \in shorter(3) : ~IsRoute(p, view.state)

\* A transition's input is begun at most once, however its action failed and
\* was retried: a retry never repeats a click.
OneInputPerTransition ==
    \A a \in begun, b \in begun : a.request.step = b.request.step => a = b

\* A monetary input is begun only after the agent accepted a frame with the
\* screen and the values the validator had accepted, though the prefix of the
\* route and other callers came between the choice of the route and that frame.
\* (The screen may change once more between the frame and the input.)
MoneyOnAcceptedValues ==
    \A b \in begun : b.request.class # "NAVIGATION" =>
        commit = Agreed /\ b.before.value = Agreed /\ b.before.state = b.request.from

\* After the stop the agent begins at most one more call of the driver, the
\* one whose check had passed.
StopsMidSequence == lateCalls <= 1

\* A route that reports success made every call of every transition, once,
\* and has seen the target on a frame newer than its last input.
SuccessIsComplete ==
    phase = "done" =>
        /\ view.state = Target
        /\ \A i \in 1 .. Len(path) : Made(i) = path[i].calls
        /\ \A b \in begun : b.before.id < view.frame.id
=============================================================================

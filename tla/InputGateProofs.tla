---------------------------- MODULE InputGateProofs ----------------------------
(***************************************************************************)
(* The safety of InputGate for any number of goroutines and calls: who     *)
(* holds the locks at each program counter, and what this says about       *)
(* writes that are under way when the gate closes or opens.                *)
(***************************************************************************)
EXTENDS InputGate, TLAPS

\* Whoever is about to raise the mode has the gate to itself.
OpenAlone == \A t \in Threads : pc[t] = "open" => readers = {}

\* An epoch that somebody remembers has been reached, and one that is about to
\* open was reached by the last closing that returned.
EpochsReached ==
    /\ returned <= epoch
    /\ \A t \in Threads : /\ seen[t] <= epoch
                          /\ pc[t] = "open" => returned <= seen[t]

\* The goroutine that holds modeTransitionMu is closing or opening the gate, and
\* whoever opens it does so for a mode that needs the preflight.
TransitionHeld ==
    \A t \in Threads :
        /\ transition = t => pc[t] \in Closing \cup Opening
        /\ transition = t \/ pc[t] \in Opening => wanted[t] \in InputModes

\* A cancel function that was copied belongs to a write still registered.
StopsAreGuarded == \A t \in Threads : stops[t] \subseteq guarded

IInv ==
    /\ TypeOK
    /\ TransitionHeld
    /\ StopsAreGuarded
    /\ OpenAlone
    /\ EpochsReached
    /\ WriteAllowedOrDoomed

USE ThreadsAssumption, SafeModesAssumption, BoundAssumption

-----------------------------------------------------------------------------
(* Each part of the invariant, over every action.                          *)

\* The invariant holds before any call.
LEMMA InitFacts == ASSUME Init PROVE IInv
  BY DEF Init, IInv, TypeOK, TransitionHeld, StopsAreGuarded, OpenAlone, EpochsReached,
         WriteAllowedOrDoomed, InputModes, Classes, Closing, Opening, Sending, PastGuard

\* Types, and where the locks are held.
LEMMA TypeStep ==
  ASSUME TypeOK, TransitionHeld, StopsAreGuarded, NEW t \in Threads,
         Start(t) \/ Acquire(t) \/ Step(t)
  PROVE  TypeOK' /\ TransitionHeld' /\ StopsAreGuarded'
  <1> DEFINE Goal == TypeOK' /\ TransitionHeld' /\ StopsAreGuarded'
  <1> USE DEF TypeOK, TransitionHeld, StopsAreGuarded, Goto, locks, sends, history, locals, Closing, Opening, Sending, PastGuard,
             InputModes, Classes
  <1>1. ASSUME NEW m \in SafeModes, SetSafeMode(t, m) PROVE Goal
    BY <1>1 DEF SetSafeMode, Call
  <1>2. CASE AutomationPaused(t)
    BY <1>2 DEF AutomationPaused, Call
  <1>3. ASSUME NEW m \in InputModes, SetInputMode(t, m) PROVE Goal
    BY <1>3 DEF SetInputMode, Call
  <1>4. ASSUME NEW class \in Classes, RequestAction(t, class) PROVE Goal
    BY <1>4 DEF RequestAction, Call
  <1>5. CASE LockTransition(t)
    BY <1>5 DEF LockTransition
  <1>6. CASE AnnounceWriter(t)
    BY <1>6 DEF AnnounceWriter
  <1>7. CASE RLock(t)
    BY <1>7 DEF RLock
  <1>8. CASE TakeConnection(t)
    BY <1>8 DEF TakeConnection
  <1>9. CASE BumpEpoch(t)
    BY <1>9 DEF BumpEpoch
  <1>10. CASE Publish(t)
    BY <1>10 DEF Publish
  <1>11. CASE CollectStops(t)
    BY <1>11 DEF CollectStops
  <1>12. CASE CancelSends(t)
    BY <1>12 DEF CancelSends
  <1>13. CASE Drain(t)
    BY <1>13 DEF Drain
  <1>14. CASE Authorize(t) \/ Refuse(t)
    BY <1>14 DEF Authorize, Refuse
  <1>15. CASE CheckEpoch(t)
    BY <1>15 DEF CheckEpoch
  <1>16. CASE Open(t)
    BY <1>16 DEF Open
  <1>17. CASE RegisterSend(t)
    BY <1>17 DEF RegisterSend
  <1>18. CASE Guard(t)
    BY <1>18 DEF Guard
  <1>19. CASE StartWrite(t)
    BY <1>19 DEF StartWrite
  <1>20. ASSUME NEW how \in {"sent", "failed"}, EndSend(t, how), pc[t] \in PastGuard PROVE Goal
    BY <1>20 DEF EndSend
  <1>21. CASE Finish(t)
    BY <1>21 DEF Finish
  <1> QED BY <1>1, <1>2, <1>3, <1>4, <1>5, <1>6, <1>7, <1>8, <1>9, <1>10, <1>11, <1>12, <1>13,
             <1>14, <1>15, <1>16, <1>17, <1>18, <1>19, <1>20, <1>21
          DEF Start, Acquire, Step, Deliver, AbortCancelled, AbortTimeout

\* The step of a goroutine: all actions that may fire.
Moves(t) == Start(t) \/ Acquire(t) \/ Step(t)

\* No send begins while somebody opens the gate, and epochs only grow.
LEMMA OpenStep ==
  ASSUME TypeOK, OpenAlone, EpochsReached, NEW t \in Threads, Moves(t)
  PROVE  OpenAlone' /\ EpochsReached'
  <1> DEFINE Goal == OpenAlone' /\ EpochsReached'
  <1> USE DEF OpenAlone, EpochsReached, Goto, locks, sends, history, locals
  <1> USE DEF TypeOK, Closing, Opening, Sending, PastGuard
  <1>1. CASE Start(t)
    BY <1>1 DEF Start, Call, SetSafeMode, AutomationPaused, SetInputMode, RequestAction
  <1>2. CASE LockTransition(t) \/ TakeConnection(t)
    BY <1>2 DEF LockTransition, TakeConnection
  <1>3. CASE AnnounceWriter(t)
    BY <1>3 DEF AnnounceWriter
  <1>4. CASE RLock(t)
    BY <1>4 DEF RLock
  <1>5. CASE BumpEpoch(t)
    BY <1>5 DEF BumpEpoch
  <1>6. CASE Publish(t) \/ CollectStops(t) \/ CancelSends(t)
    BY <1>6 DEF Publish, CollectStops, CancelSends
  <1>7. CASE Drain(t)
    BY <1>7 DEF Drain
  <1>8. CASE Authorize(t) \/ Refuse(t)
    BY <1>8 DEF Authorize, Refuse
  <1>9. CASE CheckEpoch(t)
    BY <1>9 DEF CheckEpoch
  <1>10. CASE Open(t)
    BY <1>10 DEF Open
  <1>11. CASE RegisterSend(t) \/ Guard(t) \/ StartWrite(t)
    BY <1>11 DEF RegisterSend, Guard, StartWrite
  <1>12. ASSUME NEW how \in {"sent", "failed"}, EndSend(t, how), pc[t] \in PastGuard PROVE Goal
    BY <1>12 DEF EndSend
  <1>13. CASE Finish(t)
    BY <1>13 DEF Finish
  <1> QED BY <1>1, <1>2, <1>3, <1>4, <1>5, <1>6, <1>7, <1>8, <1>9, <1>10, <1>11, <1>12, <1>13
          DEF Moves, Acquire, Step, Deliver, AbortCancelled, AbortTimeout

\* A write stays allowed, cancelled or about to be cancelled: whoever closes
\* the gate under it collects it, and whoever collected it cancels it.
LEMMA WriteStep ==
  ASSUME IInv, NEW t \in Threads, Moves(t)
  PROVE  WriteAllowedOrDoomed'
  <1> DEFINE Goal == WriteAllowedOrDoomed'
  <1> USE DEF IInv, TypeOK, StopsAreGuarded, WriteAllowedOrDoomed, Goto, locks, sends, history,
             locals, Closing, Opening, Sending, PastGuard
  <1>1. CASE Start(t)
    BY <1>1 DEF Start, Call, SetSafeMode, AutomationPaused, SetInputMode, RequestAction
  <1>2. CASE LockTransition(t) \/ TakeConnection(t) \/ AnnounceWriter(t) \/ RLock(t)
    BY <1>2 DEF LockTransition, TakeConnection, AnnounceWriter, RLock
  <1>3. CASE BumpEpoch(t)
    BY <1>3 DEF BumpEpoch
  <1>4. CASE Publish(t)
    BY <1>4 DEF Publish
  <1>5. CASE CollectStops(t)
    BY <1>5 DEF CollectStops
  <1>6. CASE CancelSends(t)
    BY <1>6 DEF CancelSends
  <1>7. CASE Drain(t) \/ Authorize(t) \/ Refuse(t) \/ CheckEpoch(t)
    BY <1>7 DEF Drain, Authorize, Refuse, CheckEpoch
  <1>8. CASE Open(t)
    BY <1>8 DEF Open, OpenAlone
  <1>9. CASE RegisterSend(t) \/ StartWrite(t)
    BY <1>9 DEF RegisterSend, StartWrite
  <1>10. CASE Guard(t)
    BY <1>10 DEF Guard
  <1>11. ASSUME NEW how \in {"sent", "failed"}, EndSend(t, how), pc[t] \in PastGuard PROVE Goal
    BY <1>11 DEF EndSend
  <1>12. CASE Finish(t)
    BY <1>12 DEF Finish
  <1> QED BY <1>1, <1>2, <1>3, <1>4, <1>5, <1>6, <1>7, <1>8, <1>9, <1>10, <1>11, <1>12
          DEF Moves, Acquire, Step, Deliver, AbortCancelled, AbortTimeout

-----------------------------------------------------------------------------
(* The theorems.                                                           *)

\* The invariant of the gate: types and locks, and what they say about writes.
THEOREM Invariance == Spec => []IInv
  <1>1. Init => IInv
    BY InitFacts
  <1>2. IInv /\ [Next]_vars => IInv'
    <2> SUFFICES ASSUME IInv, [Next]_vars PROVE IInv'
      OBVIOUS
    <2>1. ASSUME NEW t \in Threads, Moves(t) PROVE IInv'
      BY <2>1, TypeStep, OpenStep, WriteStep DEF IInv, Moves
    <2>2. CASE UNCHANGED vars
      BY <2>2 DEF IInv, TypeOK, TransitionHeld, StopsAreGuarded, OpenAlone, EpochsReached,
                  WriteAllowedOrDoomed, vars, locks, sends, locals, history
    <2> QED BY <2>1, <2>2 DEF Next, Moves
  <1> QED BY <1>1, <1>2, PTL DEF Spec

\* Types, and the locks where the code holds them.  (Server.actionGate,
\* guardedSendStops.)
THEOREM TypeCorrectness == Spec => []TypeOK
  BY Invariance, PTL DEF IInv

\* No closing of the gate leaves a write under way that nobody stops.
\* (closeInputGate, cancelGuardedSends.)
THEOREM WriteTheorem == Spec => []WriteAllowedOrDoomed
  BY Invariance, PTL DEF IInv

\* Only closing and opening the gate end a closing or raise the mode, and both
\* have the gate to themselves.
LEMMA AloneAtTheGate ==
  ASSUME IInv, NEW t \in Threads, Moves(t),
         returned' # returned \/ (mode \notin InputModes /\ mode' \in InputModes)
  PROVE  readers = {} /\ (Drain(t) \/ Open(t))
  <1> USE DEF Goto, locks, sends, history, locals
  <1>1. CASE Start(t)
    BY <1>1 DEF Start, Call, SetSafeMode, AutomationPaused, SetInputMode, RequestAction
  <1>2. CASE Acquire(t)
    BY <1>2 DEF Acquire, LockTransition, TakeConnection, AnnounceWriter, RLock
  <1>3. CASE Publish(t)
    <2>1. target[t] \in SafeModes
      BY DEF IInv, TypeOK
    <2> QED BY <1>3, <2>1 DEF Publish, InputModes
  <1>4. CASE Drain(t)
    BY <1>4 DEF Drain
  <1>5. CASE Open(t)
    BY <1>5 DEF Open, IInv, OpenAlone
  <1>6. CASE Step(t) /\ ~Publish(t) /\ ~Drain(t) /\ ~Open(t)
    BY <1>6 DEF Step, BumpEpoch, CollectStops, CancelSends, Authorize, Refuse, CheckEpoch,
                RegisterSend, Guard, StartWrite, Deliver, AbortCancelled, AbortTimeout, EndSend,
                Finish
  <1> QED BY <1>1, <1>2, <1>3, <1>4, <1>5, <1>6 DEF Moves, Step

\* No write is under way when a closing of the gate returns or a mode with
\* input is entered.  (RWMutex actionGate around send and setMode.)
THEOREM NoWriteTheorem == Spec => NoWriteAcrossTheGate
  <1> DEFINE A == returned' # returned \/ (mode \notin InputModes /\ mode' \in InputModes) =>
                      \A t \in Threads : pc[t] \notin PastGuard
  <1>1. IInv /\ [Next]_vars => [A]_vars
    <2> SUFFICES ASSUME IInv, NEW t \in Threads, Moves(t) PROVE A
      BY DEF Next, Moves
    <2> QED BY AloneAtTheGate DEF IInv, TypeOK, Sending
  <1> QED BY <1>1, Invariance, PTL DEF Spec, NoWriteAcrossTheGate

\* A mode with input is entered only on a preflight that began after the last
\* pause that has returned.  (SetModeContext's check of the epoch.)
THEOREM ReturnedPauseTheorem == Spec => ReturnedPauseHolds
  <1> DEFINE A == mode \notin InputModes /\ mode' \in InputModes => returned <= authorized'
  <1>1. IInv /\ [Next]_vars => [A]_vars
    <2> SUFFICES ASSUME IInv, NEW t \in Threads, Moves(t),
                        mode \notin InputModes, mode' \in InputModes
                 PROVE  returned <= authorized'
      BY DEF Next, Moves
    <2>1. Open(t)
      BY AloneAtTheGate DEF Drain
    <2> QED BY <2>1 DEF Open, IInv, EpochsReached
  <1> QED BY <1>1, Invariance, PTL DEF Spec, ReturnedPauseHolds
================================================================================

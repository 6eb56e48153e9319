-------------------------- MODULE AgentLinkProofs --------------------------
(***************************************************************************)
(* Proofs about module AgentLink, for any actions, requests, connections   *)
(* and limits: the agent's memory of actions is sound, the input of an     *)
(* action is begun at most once, and the answers the callers get are true. *)
(*                                                                         *)
(* At most once rests on a hand-over: while an action is under way its     *)
(* tombstone is kept (only finished actions are ever queued for eviction), *)
(* and before the tombstone may go the identifier is in the seen-filter,   *)
(* which forgets nothing.  The answers are true because an answer is       *)
(* decided after the input, for an identifier that is then never run       *)
(* again; so it stays true in the retained results, on the sockets and     *)
(* with the callers.                                                       *)
(***************************************************************************)
EXTENDS AgentLink, FiniteSetTheorems, SequenceTheorems, TLAPS

Tombstones == [body : Bodies, completed : BOOLEAN]
Jobs ==
    [id : IDs, at : {"taken", "running", "clicked", "remembered"},
     answer : Answers \cup {Nothing}]

\* What the sockets carry, to the agent and to the controller.
Commands ==
    [type : {"ACTION_REQUEST"}, id : IDs, body : Bodies]
        \cup [type : {"EMERGENCY_STOP"}, id : Calls]
Reports ==
    [type : {"HELLO"}, stopped : BOOLEAN] \cup [type : {"EMERGENCY_STOP"}]
        \cup [type : {"EMERGENCY_STOP_APPLIED"}, id : Calls]
        \cup [type : {"ACTION_RESULT"}, id : IDs, answer : Answers]

Callings ==
    [state : {"idle"}] \cup [state : {"waiting"}, id : IDs \cup Calls, body : Bodies \cup {Nothing}]
        \cup [state : {"done"}, id : IDs \cup Calls, answer : Answers \cup {"applied", "error"}]

Elements(s) == {s[i] : i \in 1 .. Len(s)}

\* The action of a connection is not finished yet.
UnderWay(c) == job[c] # Nothing /\ job[c].at # "remembered"

\* An answer that is true of an action, now and ever after.
Truthful(id, answer) ==
    /\ answer = "success" => clicks[id] = 1
    /\ answer = "safe" => id \in seen /\ clicks[id] = 0

-----------------------------------------------------------------------------
(* The inductive invariant, a part for each place an answer passes.        *)

MemoryTypes ==
    /\ actions \in [IDs -> Tombstones \cup {Nothing}] /\ actionOrder \in Seq(IDs)
    /\ results \in [IDs -> Answers \cup {Nothing}] /\ resultOrder \in Seq(IDs)
    /\ seen \subseteq IDs
    /\ job \in [Conns -> Jobs \cup {Nothing}]
    /\ clicks \in [IDs -> Nat]

\* Tombstone, result, filter and eviction queues agree.
Memory ==
    /\ Cardinality(Present(actions)) <= MaxTombstones
    /\ Cardinality(Present(results)) <= MaxResults
    /\ Present(results) \subseteq Elements(resultOrder)
    /\ Elements(actionOrder) \subseteq seen
    /\ \A id \in IDs :
          /\ results[id] # Nothing => actions[id] # Nothing /\ actions[id].completed
          /\ actions[id] # Nothing /\ actions[id].completed => id \in seen

\* An action under way has its tombstone, is not in the filter yet and runs once.
Running ==
    /\ \A c \in Conns : UnderWay(c) =>
          /\ actions[job[c].id] # Nothing /\ ~actions[job[c].id].completed
          /\ job[c].id \notin seen
          /\ clicks[job[c].id] = IF job[c].at = "clicked" THEN 1 ELSE 0
    /\ \A c, d \in Conns : UnderWay(c) /\ UnderWay(d) /\ job[c].id = job[d].id => c = d

\* A begun input is on record.
Recorded ==
    \A id \in IDs :
        /\ clicks[id] <= 1
        /\ clicks[id] = 1 => id \in seen \/ \E c \in Conns : At(c, "clicked") /\ job[c].id = id

\* The answers the agent holds are true.
Kept ==
    /\ \A c \in Conns : At(c, "remembered") =>
          job[c].answer \in Answers /\ Truthful(job[c].id, job[c].answer)
    /\ \A id \in IDs : Truthful(id, results[id])

SocketTypes ==
    /\ dialled \in 0 .. MaxConns /\ conn \in 0 .. MaxConns /\ current \in 0 .. MaxConns
    /\ retiring \subseteq [by : Conns, conn : Conns]
    /\ down \in [Conns -> Seq(Commands)] /\ up \in [Conns -> Seq(Reports)]

\* The answers on a socket are true.
Honest(queue) ==
    \A m \in Elements(queue) : m.type = "ACTION_RESULT" => Truthful(m.id, m.answer)

Sent == \A c \in Conns : Honest(up[c])

CallTypes ==
    /\ pending \subseteq [conn : Conns, id : IDs \cup Calls, call : Calls]
    /\ calls \in [Calls -> Callings]

\* A pending request and its caller agree, and every caller waits once.
Correlated ==
    /\ \A p \in pending : calls[p.call].state = "waiting" /\ calls[p.call].id = p.id
    /\ \A p, q \in pending : p.call = q.call => p = q

\* The answers the callers were given are true.
Delivered ==
    \A k \in Calls : calls[k].state = "done" /\ calls[k].answer \in Answers =>
        calls[k].id \in IDs /\ Truthful(calls[k].id, calls[k].answer)

AgentPart == MemoryTypes /\ Memory /\ Running /\ Recorded /\ Kept
SocketPart == SocketTypes /\ Sent
CallerPart == CallTypes /\ Correlated /\ Delivered

IInv == AgentPart /\ SocketPart /\ CallerPart /\ stopped \in BOOLEAN

\* What a step has to leave: an answer once true stays true.
Steady ==
    \A id \in IDs, answer \in Answers : Truthful(id, answer) => Truthful(id, answer)'

-----------------------------------------------------------------------------
(* Sequences and messages.                                                 *)

\* What the ends of a queue hold.
LEMMA TailFacts ==
    ASSUME NEW S, NEW s \in Seq(S), s # <<>>
    PROVE  /\ Tail(s) \in Seq(S) /\ Elements(Tail(s)) \subseteq Elements(s)
           /\ Head(s) \in S /\ Head(s) \in Elements(s)
<1>1. Len(s) \in Nat \ {0} OBVIOUS
<1>2. Tail(s) \in Seq(S) /\ Len(Tail(s)) = Len(s) - 1 OBVIOUS
<1>3. \A i \in 1 .. Len(s) - 1 : Tail(s)[i] = s[i + 1] OBVIOUS
<1>4. Elements(Tail(s)) \subseteq Elements(s)
  BY <1>1, <1>2, <1>3 DEF Elements
<1>5. Head(s) = s[1] /\ 1 \in 1 .. Len(s) BY <1>1
<1> QED BY <1>2, <1>4, <1>5 DEF Elements

\* What a queue holds after a message is added.
LEMMA AppendFacts ==
    ASSUME NEW S, NEW s \in Seq(S), NEW m \in S
    PROVE  Append(s, m) \in Seq(S) /\ Elements(Append(s, m)) = Elements(s) \cup {m}
<1>1. /\ Append(s, m) \in Seq(S) /\ Len(Append(s, m)) = Len(s) + 1 /\ Len(s) \in Nat
      /\ \A i \in 1 .. Len(s) : Append(s, m)[i] = s[i]
      /\ Append(s, m)[Len(s) + 1] = m
  OBVIOUS
<1> QED BY <1>1 DEF Elements

\* What part of a queue holds.
LEMMA PartFacts ==
    ASSUME NEW S, NEW s \in Seq(S), NEW a \in 1 .. Len(s) + 1, NEW b \in 0 .. Len(s)
    PROVE  /\ SubSeq(s, a, b) \in Seq(S) /\ Elements(SubSeq(s, a, b)) \subseteq Elements(s)
           /\ \A i \in a .. b : s[i] \in Elements(SubSeq(s, a, b))
<1>1. \A i \in a .. b : s[i] \in S OBVIOUS
<1>2. /\ SubSeq(s, a, b) \in Seq(S)
      /\ Len(SubSeq(s, a, b)) = IF a <= b THEN b - a + 1 ELSE 0
      /\ \A i \in 1 .. b - a + 1 : SubSeq(s, a, b)[i] = s[a + i - 1]
  BY <1>1, SubSeqProperties
<1>3. ASSUME NEW i \in a .. b PROVE s[i] \in Elements(SubSeq(s, a, b))
  <2>1. i - a + 1 \in 1 .. b - a + 1 /\ a <= b OBVIOUS
  <2>2. SubSeq(s, a, b)[i - a + 1] = s[i] BY <1>2, <2>1
  <2> QED BY <1>2, <2>1, <2>2 DEF Elements
<1>4. Elements(SubSeq(s, a, b)) \subseteq Elements(s) BY <1>2 DEF Elements
<1> QED BY <1>2, <1>3, <1>4

-----------------------------------------------------------------------------
(* The eviction.                                                           *)

\* Least number: the sections 1 .. m, as finite sets, are well-founded under
\* strict inclusion.
LEMMA LeastNumber ==
    ASSUME NEW n \in Nat, NEW T, T \subseteq 0 .. n, T # {}
    PROVE  \E m \in T : \A k \in T : m <= k
<1> DEFINE S == 1 .. n
           U == {1 .. m : m \in T}
<1>1. IsFiniteSet(S)
  BY FS_Interval
<1>2. IsWellFoundedOn(StrictSubsetOrdering(S), SUBSET S)
  BY <1>1, FS_StrictSubsetOrderingWellFounded, FS_FiniteSubsetsOfFinite
<1>3. U \subseteq SUBSET S
  <2>1. \A m \in T : 1 .. m \subseteq 1 .. n OBVIOUS
  <2> QED BY <2>1
<1>4. U # {}
  OBVIOUS
<1>5. \E x \in U : \A y \in U : <<y, x>> \notin StrictSubsetOrdering(S)
  <2> HIDE DEF S, U
  <2> QED BY <1>2, <1>3, <1>4, WFMin
<1>6. PICK m \in T : \A k \in T : <<1 .. k, 1 .. m>> \notin StrictSubsetOrdering(S)
  BY <1>5
<1>7. ASSUME NEW k \in T PROVE m <= k
  <2>1. SUFFICES ASSUME k < m PROVE FALSE OBVIOUS
  <2>2. m \in 1 .. m /\ m \notin 1 .. k BY <2>1
  <2>3. 1 .. k \subseteq 1 .. m /\ 1 .. m \subseteq S BY <2>1
  <2>4. <<1 .. k, 1 .. m>> \in StrictSubsetOrdering(S)
    BY <2>2, <2>3 DEF StrictSubsetOrdering
  <2> QED BY <1>6, <2>4
<1> QED BY <1>7

\* The eviction stops within the queue: below the limit, or at its end.
LEMMA OverflowFacts ==
    ASSUME NEW order \in Seq(IDs), NEW kept, NEW limit
    PROVE  LET n == Overflow(order, kept, limit)
           IN  /\ n \in 0 .. Len(order)
               /\ \/ Cardinality(kept \ {order[i] : i \in 1 .. n}) < limit
                  \/ n = Len(order)
<1> DEFINE enough(m) == Cardinality(kept \ {order[i] : i \in 1 .. m}) < limit \/ m = Len(order)
           T == {m \in 0 .. Len(order) : enough(m)}
           least(m) == enough(m) /\ \A n \in 0 .. m - 1 : ~enough(n)
<1>1. Len(order) \in T
  OBVIOUS
<1>2. PICK m \in T : \A k \in T : m <= k
  <2> HIDE DEF T
  <2>1. T \subseteq 0 .. Len(order) BY DEF T
  <2>2. Len(order) \in Nat OBVIOUS
  <2>3. \E m \in T : \A k \in T : m <= k BY <1>1, <2>1, <2>2, LeastNumber
  <2> QED BY <2>3
<1>3. m \in 0 .. Len(order) /\ least(m)
  <2> HIDE DEF enough
  <2> QED BY <1>2
<1>4. Overflow(order, kept, limit) = CHOOSE x \in 0 .. Len(order) : least(x)
  BY DEF Overflow
<1>5. Overflow(order, kept, limit) \in 0 .. Len(order) /\ least(Overflow(order, kept, limit))
  <2> HIDE DEF least
  <2> QED BY <1>3, <1>4
<1> QED BY <1>5

\* The tombstones that go, and the queue that stays.
LEMMA EvictedFacts ==
    ASSUME actionOrder \in Seq(IDs)
    PROVE  /\ EvictedTombstones.gone \subseteq Elements(actionOrder)
           /\ EvictedTombstones.order \in Seq(IDs)
           /\ Elements(EvictedTombstones.order) \subseteq Elements(actionOrder)
<1> DEFINE n == Overflow(actionOrder, Present(actions), MaxTombstones)
<1>1. n \in 0 .. Len(actionOrder)
  BY OverflowFacts
<1>2. /\ EvictedTombstones.gone = {actionOrder[i] : i \in 1 .. n}
      /\ EvictedTombstones.order = SubSeq(actionOrder, n + 1, Len(actionOrder))
  BY DEF EvictedTombstones
<1> HIDE DEF n
<1>3. {actionOrder[i] : i \in 1 .. n} \subseteq Elements(actionOrder)
  BY <1>1 DEF Elements
<1>4. n + 1 \in 1 .. Len(actionOrder) + 1 /\ Len(actionOrder) \in 0 .. Len(actionOrder)
  BY <1>1
<1> QED BY <1>2, <1>3, <1>4, PartFacts

-----------------------------------------------------------------------------
(* Messages.                                                               *)

\* What a message of each kind says.
LEMMA MessageFacts ==
    /\ \A m \in Reports : m.type = "ACTION_RESULT" => m.id \in IDs /\ m.answer \in Answers
    /\ \A m \in Commands : m.type = "ACTION_REQUEST" => m.id \in IDs /\ m.body \in Bodies
    /\ \A m \in Commands : m.type = "EMERGENCY_STOP" => m.id \in Calls
    /\ \A id \in IDs, answer \in Answers :
          /\ Result(id, answer) \in Reports /\ Result(id, answer).type = "ACTION_RESULT"
          /\ Result(id, answer).id = id /\ Result(id, answer).answer = answer
<1>1. \A m \in Reports : m.type = "ACTION_RESULT" => m.id \in IDs /\ m.answer \in Answers
  BY DEF Reports
<1>2. \A m \in Commands : m.type = "ACTION_REQUEST" => m.id \in IDs /\ m.body \in Bodies
  BY DEF Commands
<1>3. \A m \in Commands : m.type = "EMERGENCY_STOP" => m.id \in Calls
  BY DEF Commands
<1>4. \A id \in IDs, answer \in Answers :
          /\ Result(id, answer) \in Reports /\ Result(id, answer).type = "ACTION_RESULT"
          /\ Result(id, answer).id = id /\ Result(id, answer).answer = answer
  BY DEF Reports, Result
<1> QED BY <1>1, <1>2, <1>3, <1>4

-----------------------------------------------------------------------------
(* The agent's part.                                                       *)

\* A step that leaves the memory, the jobs and the inputs alone.
LEMMA AgentFrame ==
    ASSUME AgentPart, UNCHANGED <<memoryVars, job, clicks>>
    PROVE  AgentPart' /\ Steady
<1> USE DEF memoryVars
<1>1. MemoryTypes' BY DEF AgentPart, MemoryTypes
<1>2. Memory' BY DEF AgentPart, Memory, Present, Elements
<1>3. Running' BY DEF AgentPart, Running, UnderWay
<1>4. Recorded' BY DEF AgentPart, Recorded, At
<1>5. Kept' BY DEF AgentPart, Kept, At, Truthful
<1>6. Steady BY DEF Steady, Truthful
<1> QED BY <1>1, <1>2, <1>3, <1>4, <1>5, <1>6 DEF AgentPart

\* What is known of an action under way.
LEMMA UnderWayFacts ==
    ASSUME AgentPart, NEW c \in Conns, UnderWay(c)
    PROVE  /\ job[c] \in Jobs /\ job[c].id \in IDs
           /\ actions[job[c].id] \in Tombstones /\ ~actions[job[c].id].completed
           /\ job[c].id \notin seen /\ results[job[c].id] = Nothing
           /\ \A d \in Conns \ {c} : UnderWay(d) => job[d].id # job[c].id
<1>1. job[c] \in Jobs /\ job[c].id \in IDs
  BY DEF AgentPart, MemoryTypes, UnderWay, Jobs
<1>2. /\ actions[job[c].id] # Nothing /\ ~actions[job[c].id].completed
      /\ job[c].id \notin seen
      /\ \A d \in Conns \ {c} : UnderWay(d) => job[d].id # job[c].id
  BY DEF AgentPart, Running
<1>3. actions[job[c].id] \in Tombstones
  BY <1>1, <1>2 DEF AgentPart, MemoryTypes
<1>4. results[job[c].id] = Nothing
  BY <1>1, <1>2 DEF AgentPart, Memory
<1> QED BY <1>1, <1>2, <1>3, <1>4

\* Evicting tombstones, with their results, forgets finished actions only.
LEMMA EvictFacts ==
    ASSUME AgentPart, Evict(EvictedTombstones.gone, EvictedTombstones.order)
    PROVE  /\ EvictedTombstones.gone \subseteq seen
           /\ actionOrder' \in Seq(IDs) /\ Elements(actionOrder') \subseteq seen
           /\ results' \in [IDs -> Answers \cup {Nothing}]
           /\ \A id \in IDs :
                 results'[id] = IF id \in EvictedTombstones.gone THEN Nothing ELSE results[id]
           /\ Cardinality(Present(results)') <= MaxResults
           /\ Present(results)' \subseteq Elements(resultOrder)
           /\ resultOrder' = resultOrder /\ seen' = seen
<1> DEFINE e == EvictedTombstones
<1> HIDE DEF e
<1>1. Evict(e.gone, e.order) BY DEF e
<1>2. /\ e.gone \subseteq Elements(actionOrder) /\ e.order \in Seq(IDs)
      /\ Elements(e.order) \subseteq Elements(actionOrder)
  BY EvictedFacts DEF AgentPart, MemoryTypes, e
<1>3. Elements(actionOrder) \subseteq seen
  BY DEF AgentPart, Memory
<1>4. /\ results' \in [IDs -> Answers \cup {Nothing}]
      /\ \A id \in IDs : results'[id] = IF id \in e.gone THEN Nothing ELSE results[id]
      /\ actionOrder' = e.order /\ resultOrder' = resultOrder /\ seen' = seen
  BY <1>1 DEF Evict, AgentPart, MemoryTypes
<1>5. Present(results)' \subseteq Present(results)
  BY <1>4 DEF Present
<1>6. Present(results) \subseteq IDs /\ IsFiniteSet(Present(results))
  BY IDsAssumption, FS_Subset DEF Present
<1>7. Cardinality(Present(results)') <= Cardinality(Present(results))
  BY <1>5, <1>6, FS_Subset
<1>8. Cardinality(Present(results)) \in Nat /\ Cardinality(Present(results)') \in Nat
  BY <1>5, <1>6, FS_Subset, FS_CardinalityType
<1>9. Cardinality(Present(results)') <= MaxResults
  BY <1>7, <1>8, LimitsAssumption DEF AgentPart, Memory
<1>10. Present(results)' \subseteq Elements(resultOrder)
  BY <1>5 DEF AgentPart, Memory
<1> QED BY <1>2, <1>3, <1>4, <1>9, <1>10 DEF e

\* A refused request takes its reservation back.
LEMMA RefusedStep ==
    ASSUME AgentPart, NEW c \in Conns, NEW r, HandleRefused(c, r)
    PROVE  AgentPart' /\ Steady
<1> DEFINE gone == EvictedTombstones.gone
<1>1. /\ Evict(EvictedTombstones.gone, EvictedTombstones.order)
      /\ actions' = [id \in IDs |-> IF id \in gone THEN Nothing ELSE actions[id]]
      /\ job' = job /\ clicks' = clicks
  BY DEF HandleRefused
<1>2. /\ gone \subseteq seen
      /\ actionOrder' \in Seq(IDs) /\ Elements(actionOrder') \subseteq seen
      /\ results' \in [IDs -> Answers \cup {Nothing}]
      /\ \A id \in IDs : results'[id] = IF id \in gone THEN Nothing ELSE results[id]
      /\ Cardinality(Present(results)') <= MaxResults
      /\ Present(results)' \subseteq Elements(resultOrder)
      /\ resultOrder' = resultOrder /\ seen' = seen
  BY <1>1, EvictFacts
<1> HIDE DEF gone
<1>3. /\ actions' \in [IDs -> Tombstones \cup {Nothing}]
      /\ \A id \in IDs : actions'[id] = IF id \in gone THEN Nothing ELSE actions[id]
  BY <1>1 DEF AgentPart, MemoryTypes
<1>4. MemoryTypes'
  BY <1>1, <1>2, <1>3 DEF AgentPart, MemoryTypes
<1>5. Cardinality(Present(actions)') <= MaxTombstones
  <2>1. Present(actions)' \subseteq Present(actions) BY <1>3 DEF Present
  <2>2. IsFiniteSet(Present(actions)) BY IDsAssumption, FS_Subset DEF Present
  <2>3. /\ Cardinality(Present(actions)') <= Cardinality(Present(actions))
        /\ Cardinality(Present(actions)) \in Nat /\ Cardinality(Present(actions)') \in Nat
    BY <2>1, <2>2, FS_Subset, FS_CardinalityType
  <2> QED BY <2>3, LimitsAssumption DEF AgentPart, Memory
<1>6. Memory'
  BY <1>2, <1>3, <1>5 DEF AgentPart, Memory, Elements
<1>7. Running'
  BY <1>1, <1>2, <1>3, UnderWayFacts DEF AgentPart, Running, UnderWay
<1>8. Recorded'
  BY <1>1, <1>2 DEF AgentPart, Recorded, At
<1>9. Kept'
  BY <1>1, <1>2, NothingAssumption DEF AgentPart, Kept, At, Truthful
<1>10. Steady
  BY <1>1, <1>2 DEF Steady, Truthful
<1> QED BY <1>4, <1>6, <1>7, <1>8, <1>9, <1>10 DEF AgentPart

\* A new action gets its tombstone: it has never run.
LEMMA NewStep ==
    ASSUME AgentPart, NEW c \in Conns, NEW r, r.id \in IDs, r.body \in Bodies, HandleNew(c, r)
    PROVE  AgentPart' /\ Steady
<1> DEFINE gone == EvictedTombstones.gone
           tombstone == [body |-> r.body, completed |-> FALSE]
           begun == [id |-> r.id, at |-> "taken", answer |-> Nothing]
<1>1. /\ Evict(EvictedTombstones.gone, EvictedTombstones.order)
      /\ actions' = [id \in IDs |->
                       IF id = r.id THEN tombstone ELSE IF id \in gone THEN Nothing ELSE actions[id]]
      /\ Cardinality(Present(actions) \ gone) < MaxTombstones
      /\ job[c] = Nothing /\ job' = [job EXCEPT ![c] = begun]
      /\ clicks' = clicks
  BY DEF HandleNew
<1>2. /\ gone \subseteq seen
      /\ actionOrder' \in Seq(IDs) /\ Elements(actionOrder') \subseteq seen
      /\ results' \in [IDs -> Answers \cup {Nothing}]
      /\ \A id \in IDs : results'[id] = IF id \in gone THEN Nothing ELSE results[id]
      /\ Cardinality(Present(results)') <= MaxResults
      /\ Present(results)' \subseteq Elements(resultOrder)
      /\ resultOrder' = resultOrder /\ seen' = seen
  BY <1>1, EvictFacts
<1> HIDE DEF gone
<1>3. actions[r.id] = Nothing /\ r.id \notin seen
  BY DEF HandleNew, Known, HasSeen
<1>4. tombstone \in Tombstones /\ ~tombstone.completed /\ tombstone # Nothing
  <2>1. tombstone \in Tombstones BY DEF Tombstones
  <2>2. ~tombstone.completed OBVIOUS
  <2> HIDE DEF tombstone
  <2> QED BY <2>1, <2>2, NothingAssumption DEF Tombstones
<1>5. begun \in Jobs /\ begun # Nothing /\ begun.at = "taken" /\ begun.id = r.id
  BY NothingAssumption DEF Jobs, Answers
<1> HIDE DEF tombstone, begun
<1>6. /\ actions' \in [IDs -> Tombstones \cup {Nothing}] /\ actions'[r.id] = tombstone
      /\ \A id \in IDs \ {r.id} : actions'[id] = IF id \in gone THEN Nothing ELSE actions[id]
  BY <1>1, <1>4 DEF AgentPart, MemoryTypes
<1>7. /\ job' \in [Conns -> Jobs \cup {Nothing}] /\ job'[c] = begun
      /\ \A d \in Conns \ {c} : job'[d] = job[d]
  BY <1>1, <1>5 DEF AgentPart, MemoryTypes
<1>8. MemoryTypes'
  BY <1>1, <1>2, <1>6, <1>7 DEF AgentPart, MemoryTypes
<1>9. Cardinality(Present(actions)') <= MaxTombstones
  <2>1. Present(actions)' \subseteq (Present(actions) \ gone) \cup {r.id}
    BY <1>6 DEF Present
  <2>2. IsFiniteSet(Present(actions) \ gone)
    BY IDsAssumption, FS_Subset DEF Present
  <2>3. /\ IsFiniteSet((Present(actions) \ gone) \cup {r.id})
        /\ Cardinality((Present(actions) \ gone) \cup {r.id}) <= Cardinality(Present(actions) \ gone) + 1
        /\ Cardinality((Present(actions) \ gone) \cup {r.id}) \in Nat
        /\ Cardinality(Present(actions) \ gone) \in Nat
    <3> DEFINE P == Present(actions) \ gone
    <3> HIDE DEF P
    <3>1. IsFiniteSet(P) BY <2>2 DEF P
    <3>2. Cardinality(P) \in Nat BY <3>1, FS_CardinalityType
    <3>3. /\ IsFiniteSet(P \cup {r.id})
          /\ Cardinality(P \cup {r.id}) =
                IF r.id \in P THEN Cardinality(P) ELSE Cardinality(P) + 1
      BY <3>1, FS_AddElement
    <3> QED BY <3>2, <3>3 DEF P
  <2>4. /\ Cardinality(Present(actions)') <= Cardinality((Present(actions) \ gone) \cup {r.id})
        /\ Cardinality(Present(actions)') \in Nat
    BY <2>1, <2>3, FS_Subset, FS_CardinalityType
  <2> QED BY <1>1, <2>3, <2>4, LimitsAssumption
<1>10. Memory'
  <2>1. Elements(actionOrder)' \subseteq seen' BY <1>2 DEF Elements
  <2>2. Present(results)' \subseteq Elements(resultOrder)' BY <1>2 DEF Elements
  <2>3. ASSUME NEW id \in IDs
        PROVE  /\ results'[id] # Nothing => actions'[id] # Nothing /\ actions'[id].completed
               /\ actions'[id] # Nothing /\ actions'[id].completed => id \in seen'
    <3>1. CASE id = r.id BY <3>1, <1>2, <1>3, <1>4, <1>6 DEF AgentPart, Memory
    <3>2. CASE id # r.id BY <3>2, <1>2, <1>6 DEF AgentPart, Memory
    <3> QED BY <3>1, <3>2
  <2> QED BY <2>1, <2>2, <2>3, <1>2, <1>9 DEF Memory
<1>11. clicks[r.id] = 0
  <2>1. \A d \in Conns : At(d, "clicked") => UnderWay(d) BY DEF At, UnderWay
  <2>2. ~\E d \in Conns : At(d, "clicked") /\ job[d].id = r.id
    BY <1>3, <2>1 DEF AgentPart, Running
  <2>3. clicks[r.id] <= 1 /\ clicks[r.id] # 1 BY <1>3, <2>2 DEF AgentPart, Recorded
  <2>4. clicks[r.id] \in Nat BY DEF AgentPart, MemoryTypes
  <2> QED BY <2>3, <2>4
<1>12. Running'
  <2>1. \A d \in Conns \ {c} : UnderWay(d)' <=> UnderWay(d) BY <1>7 DEF UnderWay
  <2>2. ASSUME NEW d \in Conns, UnderWay(d)'
        PROVE  /\ actions'[job'[d].id] # Nothing /\ ~actions'[job'[d].id].completed
               /\ job'[d].id \notin seen'
               /\ clicks'[job'[d].id] = IF job'[d].at = "clicked" THEN 1 ELSE 0
    <3>1. CASE d = c
      BY <3>1, <1>1, <1>2, <1>3, <1>4, <1>5, <1>6, <1>7, <1>11
    <3>2. CASE d # c
      <4>1. UnderWay(d) /\ job'[d] = job[d] BY <3>2, <2>1, <2>2, <1>7
      <4>2. job[d].id # r.id /\ job[d].id \notin gone
        BY <4>1, <1>2, <1>3, UnderWayFacts, NothingAssumption DEF AgentPart, Running
      <4> QED BY <4>1, <4>2, <1>1, <1>2, <1>6, UnderWayFacts DEF AgentPart, Running
    <3> QED BY <3>1, <3>2
  <2>3. ASSUME NEW d \in Conns, NEW f \in Conns, UnderWay(d)', UnderWay(f)',
               job'[d].id = job'[f].id
        PROVE  d = f
    <3>1. \A g \in Conns \ {c} : UnderWay(g) => job[g].id # r.id
      BY <1>3 DEF AgentPart, Running
    <3> QED BY <3>1, <2>1, <2>3, <1>5, <1>7 DEF AgentPart, Running
  <2> QED BY <2>2, <2>3 DEF Running
<1>13. Recorded'
  <2>1. \A d \in Conns : At(d, "clicked") => At(d, "clicked")' /\ job'[d] = job[d]
    BY <1>1, <1>7 DEF At
  <2> QED BY <2>1, <1>1, <1>2 DEF AgentPart, Recorded
<1>14. Kept'
  <2>1. \A d \in Conns : At(d, "remembered")' => At(d, "remembered") /\ job'[d] = job[d]
    BY <1>5, <1>7 DEF At
  <2> QED BY <2>1, <1>1, <1>2, NothingAssumption DEF AgentPart, Kept, Truthful
<1>15. Steady
  BY <1>1, <1>2 DEF Steady, Truthful
<1> QED BY <1>8, <1>10, <1>12, <1>13, <1>14, <1>15 DEF AgentPart

\* The memory after an action is finished: its tombstone is completed and may
\* be evicted from now on, and its identifier is marked.
LEMMA RememberStep ==
    ASSUME AgentPart, NEW c \in Conns, UnderWay(c), NEW answer \in Answers, Remember(c, answer),
           clicks' = clicks,
           answer = "success" => clicks[job[c].id] = 1,
           answer = "safe" => clicks[job[c].id] = 0
    PROVE  AgentPart' /\ Steady
<1> DEFINE id == job[c].id
           finished == [job[c] EXCEPT !.at = "remembered", !.answer = answer]
<1>1. /\ id \in IDs /\ job[c] \in Jobs /\ actions[id] \in Tombstones /\ id \notin seen
      /\ \A d \in Conns \ {c} : UnderWay(d) => job[d].id # id
  BY UnderWayFacts
<1>2. PICK retained \in BOOLEAN :
         LET kept == IF retained THEN [results EXCEPT ![id] = answer] ELSE results
             order == IF retained THEN Append(resultOrder, id) ELSE resultOrder
             n == Overflow(order, Present(kept), MaxResults + 1)
             gone == {order[i] : i \in 1 .. n}
         IN  /\ results' = [i \in IDs |-> IF i \in gone THEN Nothing ELSE kept[i]]
             /\ resultOrder' = SubSeq(order, n + 1, Len(order))
  BY DEF Remember
<1> DEFINE kept == IF retained THEN [results EXCEPT ![id] = answer] ELSE results
           order == IF retained THEN Append(resultOrder, id) ELSE resultOrder
           n == Overflow(order, Present(kept), MaxResults + 1)
           gone == {order[i] : i \in 1 .. n}
<1>3. /\ results' = [i \in IDs |-> IF i \in gone THEN Nothing ELSE kept[i]]
      /\ resultOrder' = SubSeq(order, n + 1, Len(order))
  BY <1>2
<1>4. /\ actions' = [actions EXCEPT ![id].completed = TRUE]
      /\ actionOrder' = Append(actionOrder, id) /\ seen' = seen \cup {id}
      /\ job' = [job EXCEPT ![c].at = "remembered", ![c].answer = answer]
  BY DEF Remember, Become
<1>5. finished \in Jobs /\ finished.id = id /\ finished.at = "remembered" /\ finished.answer = answer
  BY <1>1 DEF Jobs
<1>6. finished # Nothing
  BY <1>5, NothingAssumption DEF Jobs, Answers
<1>7. job' \in [Conns -> Jobs \cup {Nothing}] /\ job'[c] = finished
      /\ \A d \in Conns \ {c} : job'[d] = job[d]
  BY <1>4, <1>5 DEF AgentPart, MemoryTypes
<1> HIDE DEF finished
<1>8. /\ actions' \in [IDs -> Tombstones \cup {Nothing}]
      /\ actions'[id] # Nothing /\ actions'[id].completed
      /\ \A i \in IDs \ {id} : actions'[i] = actions[i]
  <2> DEFINE tombstone == [actions[id] EXCEPT !.completed = TRUE]
  <2>1. tombstone \in Tombstones /\ tombstone.completed BY <1>1 DEF Tombstones
  <2>2. tombstone # Nothing BY <2>1, NothingAssumption DEF Tombstones
  <2>3. actions' = [actions EXCEPT ![id] = tombstone] BY <1>4
  <2> HIDE DEF tombstone
  <2> QED BY <2>1, <2>2, <2>3, <1>1 DEF AgentPart, MemoryTypes
<1>9. /\ actionOrder' \in Seq(IDs) /\ Elements(actionOrder') \subseteq seen'
  <2>1. Elements(Append(actionOrder, id)) = Elements(actionOrder) \cup {id}
    BY <1>1, AppendFacts DEF AgentPart, MemoryTypes
  <2>2. Elements(actionOrder') = Elements(Append(actionOrder, id))
    BY <1>4 DEF Elements
  <2>3. Append(actionOrder, id) \in Seq(IDs)
    BY <1>1, AppendFacts DEF AgentPart, MemoryTypes
  <2> QED BY <2>1, <2>2, <2>3, <1>4 DEF AgentPart, Memory
<1>10. /\ kept \in [IDs -> Answers \cup {Nothing}]
       /\ kept[id] \in {answer, results[id]} /\ \A i \in IDs \ {id} : kept[i] = results[i]
  BY <1>1 DEF AgentPart, MemoryTypes
<1>11. order \in Seq(IDs) /\ Present(kept) \subseteq Elements(order)
  <2>1. CASE retained
    <3>1. order = Append(resultOrder, id) BY <2>1
    <3>2. order \in Seq(IDs) /\ Elements(order) = Elements(resultOrder) \cup {id}
      BY <3>1, <1>1, AppendFacts DEF AgentPart, MemoryTypes
    <3> HIDE DEF order, kept
    <3>3. Present(kept) \subseteq Present(results) \cup {id} BY <1>10 DEF Present
    <3> QED BY <3>2, <3>3 DEF AgentPart, Memory
  <2>2. CASE ~retained
    BY <2>2 DEF AgentPart, Memory, MemoryTypes
  <2> QED BY <2>1, <2>2
<1> HIDE DEF order, kept
<1>12. /\ n \in 0 .. Len(order)
       /\ Cardinality(Present(kept) \ gone) < MaxResults + 1 \/ n = Len(order)
  BY <1>11, OverflowFacts
<1> HIDE DEF n
<1>13. n + 1 \in 1 .. Len(order) + 1 /\ Len(order) \in 0 .. Len(order) /\ Len(order) \in Nat
  BY <1>11, <1>12
<1>14. /\ SubSeq(order, n + 1, Len(order)) \in Seq(IDs)
       /\ \A i \in n + 1 .. Len(order) : order[i] \in Elements(SubSeq(order, n + 1, Len(order)))
  BY <1>11, <1>13, PartFacts
<1>15. resultOrder' \in Seq(IDs) /\ \A i \in n + 1 .. Len(order) : order[i] \in Elements(resultOrder')
  BY <1>3, <1>14
<1>16. Elements(order) \subseteq gone \cup Elements(resultOrder')
  <2>1. \A i \in 1 .. Len(order) : i \in 1 .. n \/ i \in n + 1 .. Len(order) BY <1>12
  <2> QED BY <2>1, <1>15 DEF Elements
<1>17. n = Len(order) => Elements(order) \subseteq gone
  BY DEF Elements
<1> HIDE DEF gone
<1>18. /\ results' \in [IDs -> Answers \cup {Nothing}]
       /\ \A i \in IDs : results'[i] = IF i \in gone THEN Nothing ELSE kept[i]
  BY <1>3, <1>10
<1>19. Present(results)' = Present(kept) \ gone
  BY <1>18 DEF Present
<1>20. Cardinality(Present(results)') <= MaxResults
  <2>1. CASE n = Len(order)
    <3>1. Present(results)' = {} BY <2>1, <1>11, <1>17, <1>19
    <3> QED BY <3>1, FS_EmptySet, LimitsAssumption
  <2>2. CASE Cardinality(Present(kept) \ gone) < MaxResults + 1
    <3>1. IsFiniteSet(Present(kept) \ gone) BY IDsAssumption, FS_Subset DEF Present
    <3>2. Cardinality(Present(kept) \ gone) \in Nat BY <3>1, FS_CardinalityType
    <3> QED BY <2>2, <3>2, <1>19, LimitsAssumption
  <2> QED BY <2>1, <2>2, <1>12
<1>21. Present(results)' \subseteq Elements(resultOrder)'
  <2>1. Elements(resultOrder)' = Elements(resultOrder') BY DEF Elements
  <2> QED BY <2>1, <1>11, <1>16, <1>19
<1>22. Cardinality(Present(actions)') <= MaxTombstones
  <2>1. Present(actions)' = Present(actions) BY <1>1, <1>8, NothingAssumption, UnderWayFacts DEF Present, Tombstones
  <2> QED BY <2>1 DEF AgentPart, Memory
<1>23. MemoryTypes'
  BY <1>1, <1>4, <1>7, <1>8, <1>9, <1>15, <1>18 DEF AgentPart, MemoryTypes
<1>24. Memory'
  <2>1. Elements(actionOrder)' \subseteq seen' BY <1>9 DEF Elements
  <2>2. \A i \in IDs :
          /\ results'[i] # Nothing => actions'[i] # Nothing /\ actions'[i].completed
          /\ actions'[i] # Nothing /\ actions'[i].completed => i \in seen'
    BY <1>4, <1>8, <1>10, <1>18 DEF AgentPart, Memory
  <2> QED BY <2>1, <2>2, <1>20, <1>21, <1>22 DEF Memory
<1>25. \A d \in Conns : UnderWay(d)' => d # c /\ UnderWay(d) /\ job'[d] = job[d]
  BY <1>5, <1>7 DEF UnderWay
<1>26. Running'
  <2>1. ASSUME NEW d \in Conns, UnderWay(d)'
        PROVE  /\ actions'[job'[d].id] # Nothing /\ ~actions'[job'[d].id].completed
               /\ job'[d].id \notin seen'
               /\ clicks'[job'[d].id] = IF job'[d].at = "clicked" THEN 1 ELSE 0
    <3>1. d # c /\ UnderWay(d) /\ job'[d] = job[d] BY <2>1, <1>25
    <3>2. job[d].id \in IDs \ {id} BY <3>1, <1>1, UnderWayFacts
    <3>3. actions'[job[d].id] = actions[job[d].id] BY <3>2, <1>8
    <3> QED BY <3>1, <3>2, <3>3, <1>4 DEF AgentPart, Running
  <2>2. \A d, f \in Conns : UnderWay(d)' /\ UnderWay(f)' /\ job'[d].id = job'[f].id => d = f
    BY <1>25 DEF AgentPart, Running
  <2> QED BY <2>1, <2>2 DEF Running
<1>27. Recorded'
  <2>1. \A d \in Conns \ {c} : At(d, "clicked") => At(d, "clicked")' /\ job'[d] = job[d]
    BY <1>7 DEF At
  <2> QED BY <2>1, <1>4 DEF AgentPart, Recorded
<1>28. Steady
  BY <1>4 DEF Steady, Truthful
<1> DEFINE truthful(i, a) == /\ a = "success" => clicks'[i] = 1
                             /\ a = "safe" => i \in seen' /\ clicks'[i] = 0
<1>29. truthful(id, answer)
  BY <1>1, <1>4
<1>30. \A i, a : Truthful(i, a) => truthful(i, a)
  BY <1>4 DEF Truthful
<1>31. Kept'
  <2>1. ASSUME NEW d \in Conns, At(d, "remembered")'
        PROVE  job'[d].answer \in Answers /\ truthful(job'[d].id, job'[d].answer)
    <3>1. CASE d = c BY <3>1, <1>5, <1>7, <1>29
    <3>2. CASE d # c
      <4>1. At(d, "remembered") /\ job'[d] = job[d] BY <3>2, <2>1, <1>7 DEF At
      <4>2. job[d].answer \in Answers /\ Truthful(job[d].id, job[d].answer)
        BY <4>1 DEF AgentPart, Kept
      <4> HIDE DEF truthful
      <4> QED BY <4>1, <4>2, <1>30
    <3> QED BY <3>1, <3>2
  <2>2. ASSUME NEW i \in IDs PROVE truthful(i, results'[i])
    <3>1. \/ results'[i] = Nothing \/ results'[i] = results[i]
          \/ i = id /\ results'[i] = answer
      BY <1>10, <1>18
    <3>2. CASE i = id /\ results'[i] = answer BY <3>2, <1>29
    <3>3. CASE results'[i] = results[i]
      <4>1. Truthful(i, results[i]) BY DEF AgentPart, Kept
      <4> HIDE DEF truthful
      <4> QED BY <3>3, <4>1, <1>30
    <3>4. CASE results'[i] = Nothing BY <3>4, NothingAssumption
    <3> QED BY <3>1, <3>2, <3>3, <3>4
  <2> QED BY <2>1, <2>2 DEF Kept, Truthful
<1> QED BY <1>23, <1>24, <1>26, <1>27, <1>28, <1>31 DEF AgentPart

\* An action under way moves on to the input.
LEMMA MovedJob ==
    ASSUME AgentPart, NEW c \in Conns, UnderWay(c), NEW phase \in {"running", "clicked"},
           Become(c, phase, Nothing)
    PROVE  /\ job' \in [Conns -> Jobs \cup {Nothing}]
           /\ job'[c] # Nothing /\ job'[c].id = job[c].id /\ job'[c].at = phase
           /\ \A d \in Conns \ {c} : job'[d] = job[d]
<1> DEFINE moved == [job[c] EXCEPT !.at = phase, !.answer = Nothing]
<1>1. job[c] \in Jobs
  BY UnderWayFacts
<1>2. moved \in Jobs /\ moved.id = job[c].id /\ moved.at = phase
  BY <1>1 DEF Jobs
<1>3. job' = [job EXCEPT ![c] = moved]
  BY DEF Become
<1> HIDE DEF moved
<1>4. moved # Nothing
  BY <1>2, NothingAssumption DEF Jobs, Answers
<1> QED BY <1>2, <1>3, <1>4 DEF AgentPart, MemoryTypes

\* A job starts.
LEMMA StartJobStep ==
    ASSUME AgentPart, NEW c \in Conns, StartJob(c)
    PROVE  AgentPart' /\ Steady
<1>1. UnderWay(c) /\ job[c].at = "taken" /\ clicks' = clicks
  BY DEF StartJob, At, UnderWay
<1>2. CASE stopped
  BY <1>1, <1>2, RememberStep DEF StartJob, Answers
<1>3. CASE ~stopped
  <2>1. Become(c, "running", Nothing) /\ UNCHANGED memoryVars
    BY <1>3 DEF StartJob
  <2>2. /\ job' \in [Conns -> Jobs \cup {Nothing}]
        /\ job'[c] # Nothing /\ job'[c].id = job[c].id /\ job'[c].at = "running"
        /\ \A d \in Conns \ {c} : job'[d] = job[d]
    BY <1>1, <2>1, MovedJob
  <2> USE <1>1, <2>1 DEF memoryVars
  <2>3. MemoryTypes' BY <2>2 DEF AgentPart, MemoryTypes
  <2>4. Memory' BY DEF AgentPart, Memory, Present, Elements
  <2>5. \A d \in Conns : UnderWay(d)' => UnderWay(d) /\ job'[d].id = job[d].id
    BY <2>2 DEF UnderWay
  <2>6. \A d \in Conns : UnderWay(d)' => (job'[d].at = "clicked" <=> job[d].at = "clicked")
    BY <2>2 DEF UnderWay
  <2>7. Running' BY <2>5, <2>6 DEF AgentPart, Running
  <2>8. Recorded'
    <3>1. \A d \in Conns : At(d, "clicked") => At(d, "clicked")' /\ job'[d].id = job[d].id
      BY <2>2 DEF At
    <3> QED BY <3>1 DEF AgentPart, Recorded
  <2>9. Kept'
    <3>1. \A d \in Conns : At(d, "remembered")' => At(d, "remembered") /\ job'[d] = job[d]
      BY <2>2 DEF At
    <3> QED BY <3>1 DEF AgentPart, Kept, Truthful
  <2>10. Steady BY DEF Steady, Truthful
  <2> QED BY <2>3, <2>4, <2>7, <2>8, <2>9, <2>10 DEF AgentPart
<1> QED BY <1>2, <1>3

\* The input is begun: the action was not marked, and nothing was said of it.
LEMMA ClickStep ==
    ASSUME AgentPart, NEW c \in Conns, Click(c)
    PROVE  AgentPart' /\ Steady
<1>1. /\ UnderWay(c) /\ job[c].at = "running" /\ Become(c, "clicked", Nothing)
      /\ UNCHANGED memoryVars
      /\ clicks' = [clicks EXCEPT ![job[c].id] = @ + 1]
  BY DEF Click, At, UnderWay
<1>2. PICK id \in IDs : id = job[c].id
  BY <1>1, UnderWayFacts
<1>3. id \notin seen /\ clicks[id] = 0 /\ actions[id] # Nothing /\ results[id] = Nothing
  BY <1>1, <1>2, UnderWayFacts DEF AgentPart, Running
<1>4. /\ clicks' \in [IDs -> Nat] /\ clicks'[id] = 1
      /\ \A i \in IDs \ {id} : clicks'[i] = clicks[i]
  BY <1>1, <1>2, <1>3 DEF AgentPart, MemoryTypes
<1>5. /\ job' \in [Conns -> Jobs \cup {Nothing}]
      /\ job'[c] # Nothing /\ job'[c].id = id /\ job'[c].at = "clicked"
      /\ \A d \in Conns \ {c} : job'[d] = job[d]
  BY <1>1, <1>2, MovedJob
<1>6. UNCHANGED <<actions, actionOrder, results, resultOrder, seen>>
  BY <1>1 DEF memoryVars
<1>7. MemoryTypes' BY <1>4, <1>5, <1>6 DEF AgentPart, MemoryTypes
<1>8. Memory' BY <1>6 DEF AgentPart, Memory, Present, Elements
<1>9. \A d \in Conns : UnderWay(d)' => UnderWay(d) /\ job'[d].id = job[d].id
  BY <1>1, <1>2, <1>5 DEF UnderWay
<1>10. Running'
  <2>1. ASSUME NEW d \in Conns, UnderWay(d)'
        PROVE  /\ actions'[job'[d].id] # Nothing /\ ~actions'[job'[d].id].completed
               /\ job'[d].id \notin seen'
               /\ clicks'[job'[d].id] = IF job'[d].at = "clicked" THEN 1 ELSE 0
    <3>1. CASE d = c
      BY <3>1, <1>1, <1>2, <1>3, <1>4, <1>5, <1>6 DEF AgentPart, Running
    <3>2. CASE d # c
      <4>1. UnderWay(d) /\ job'[d] = job[d] BY <3>2, <2>1, <1>5, <1>9
      <4>2. job[d].id \in IDs \ {id} BY <3>2, <4>1, <1>1, <1>2, UnderWayFacts
      <4> QED BY <4>1, <4>2, <1>4, <1>6 DEF AgentPart, Running
    <3> QED BY <3>1, <3>2
  <2>2. \A d, f \in Conns : UnderWay(d)' /\ UnderWay(f)' /\ job'[d].id = job'[f].id => d = f
    BY <1>9 DEF AgentPart, Running
  <2> QED BY <2>1, <2>2 DEF Running
<1>11. Recorded'
  <2>1. \A d \in Conns : At(d, "clicked") => At(d, "clicked")' /\ job'[d].id = job[d].id
    BY <1>1, <1>5 DEF At
  <2>2. At(c, "clicked")' BY <1>5 DEF At
  <2>3. ASSUME NEW i \in IDs
        PROVE  /\ clicks'[i] <= 1
               /\ clicks'[i] = 1 =>
                     i \in seen' \/ \E d \in Conns : At(d, "clicked")' /\ job'[d].id = i
    <3>1. CASE i = id BY <3>1, <2>2, <1>4, <1>5
    <3>2. CASE i # id BY <3>2, <2>1, <1>4, <1>6 DEF AgentPart, Recorded
    <3> QED BY <3>1, <3>2
  <2> QED BY <2>3 DEF Recorded
<1>12. \A i \in IDs, a \in Answers \cup {Nothing} : Truthful(i, a) =>
          /\ a = "success" => clicks'[i] = 1
          /\ a = "safe" => i \in seen' /\ clicks'[i] = 0
  BY <1>3, <1>4, <1>6 DEF Truthful
<1>13. Steady
  BY <1>12 DEF Steady, Truthful
<1>14. Kept'
  <2>1. \A d \in Conns : At(d, "remembered")' => At(d, "remembered") /\ job'[d] = job[d]
    BY <1>5 DEF At
  <2>2. \A d \in Conns : At(d, "remembered") => job[d].id \in IDs
    BY DEF At, AgentPart, MemoryTypes, Jobs
  <2>3. \A i \in IDs : results'[i] = results[i] /\ results[i] \in Answers \cup {Nothing}
    BY <1>6 DEF AgentPart, MemoryTypes
  <2> QED BY <2>1, <2>2, <2>3, <1>12 DEF AgentPart, Kept, Truthful
<1> QED BY <1>7, <1>8, <1>10, <1>11, <1>13, <1>14 DEF AgentPart

\* A job ends, with an answer that is true.
LEMMA FinishJobStep ==
    ASSUME AgentPart, NEW c \in Conns, FinishJob(c)
    PROVE  AgentPart' /\ Steady
<1>1. UnderWay(c) /\ clicks' = clicks
  BY DEF FinishJob, At, UnderWay
<1>2. CASE At(c, "running") /\ Remember(c, "safe")
  <2>1. clicks[job[c].id] = 0 BY <1>1, <1>2 DEF AgentPart, Running, At
  <2>2. "safe" \in Answers BY DEF Answers
  <2> QED BY <1>1, <1>2, <2>1, <2>2, RememberStep
<1>3. CASE At(c, "clicked") /\ \E answer \in {"success", "unsure"} : Remember(c, answer)
  <2>1. clicks[job[c].id] = 1 BY <1>1, <1>3 DEF AgentPart, Running, At
  <2>2. PICK answer \in {"success", "unsure"} : Remember(c, answer) BY <1>3
  <2>3. answer \in Answers BY DEF Answers
  <2> QED BY <1>1, <2>1, <2>2, <2>3, RememberStep
<1> QED BY <1>2, <1>3 DEF FinishJob

\* An answer is retained, and what is evicted for it is finished.
LEMMA ReportStep ==
    ASSUME AgentPart, NEW c \in Conns, Report(c)
    PROVE  AgentPart' /\ Steady
<1>1. /\ At(c, "remembered") /\ job' = [job EXCEPT ![c] = Nothing]
      /\ UNCHANGED <<actions, actionOrder, results, resultOrder, seen, clicks>>
  BY DEF Report, memoryVars
<1>2. /\ job' \in [Conns -> Jobs \cup {Nothing}] /\ job'[c] = Nothing
      /\ \A d \in Conns \ {c} : job'[d] = job[d]
  BY <1>1 DEF AgentPart, MemoryTypes
<1> USE <1>1
<1>3. MemoryTypes' BY <1>2 DEF AgentPart, MemoryTypes
<1>4. Memory' BY DEF AgentPart, Memory, Present, Elements
<1>5. \A d \in Conns : UnderWay(d)' => UnderWay(d) /\ job'[d] = job[d]
  BY <1>2 DEF UnderWay
<1>6. Running' BY <1>5 DEF AgentPart, Running
<1>7. Recorded'
  <2>1. \A d \in Conns : At(d, "clicked") => At(d, "clicked")' /\ job'[d] = job[d]
    BY <1>2 DEF At
  <2> QED BY <2>1 DEF AgentPart, Recorded
<1>8. Kept'
  <2>1. \A d \in Conns : At(d, "remembered")' => At(d, "remembered") /\ job'[d] = job[d]
    BY <1>2 DEF At
  <2> QED BY <2>1 DEF AgentPart, Kept, Truthful
<1>9. Steady BY DEF Steady, Truthful
<1> QED BY <1>3, <1>4, <1>6, <1>7, <1>8, <1>9 DEF AgentPart

\* Every step keeps the agent's part, and every answer that was true.
LEMMA AgentStep ==
    ASSUME IInv, [Next]_vars
    PROVE  AgentPart' /\ Steady
<1>1. AgentPart
  BY DEF IInv
<1>2. CASE UNCHANGED <<memoryVars, job, clicks>>
  BY <1>1, <1>2, AgentFrame
<1>3. ASSUME NEW c \in Conns, HandleAction(c)
      PROVE  AgentPart' /\ Steady
  <2>1. PICK r \in Commands : r = Head(down[c]) /\ r.type = "ACTION_REQUEST"
    <3>1. down[c] \in Seq(Commands) /\ down[c] # <<>> BY <1>3 DEF HandleAction, IInv, SocketPart, SocketTypes
    <3>2. Head(down[c]) \in Commands BY <3>1, TailFacts
    <3> QED BY <3>2, <1>3 DEF HandleAction
  <2>2. r.id \in IDs /\ r.body \in Bodies BY <2>1, MessageFacts
  <2>3. HandleKnown(c, r) \/ HandleRefused(c, r) \/ HandleNew(c, r) BY <2>1, <1>3 DEF HandleAction
  <2>4. CASE HandleKnown(c, r) BY <2>4, <1>2 DEF HandleKnown, agentVars
  <2>5. CASE HandleRefused(c, r) BY <2>5, <1>1, RefusedStep
  <2>6. CASE HandleNew(c, r) BY <2>2, <2>6, <1>1, NewStep
  <2> QED BY <2>3, <2>4, <2>5, <2>6
<1>4. CASE AgentWork
  <2>1. CASE Dial BY <2>1, <1>2 DEF Dial
  <2>2. CASE LoseConnection BY <2>2, <1>2 DEF LoseConnection
  <2>3. CASE SendEmergency BY <2>3, <1>2 DEF SendEmergency
  <2>4. ASSUME NEW c \in Conns, HandleStop(c) PROVE UNCHANGED <<memoryVars, job, clicks>>
    BY <2>4 DEF HandleStop
  <2> QED BY <1>1, <1>2, <1>3, <1>4, <2>1, <2>2, <2>3, <2>4,
             StartJobStep, ClickStep, FinishJobStep, ReportStep DEF AgentWork
<1>5. CASE ControllerWork
  <2>1. UNCHANGED agentVars
    BY <1>5 DEF ControllerWork, Register, Retire, Unregister, HandleResult, HandleUnsavedResult,
                HearStop, HearStopApplied
  <2> QED BY <2>1, <1>2 DEF agentVars
<1>6. CASE Hotkey BY <1>6, <1>2 DEF Hotkey
<1>7. CASE \E c \in Conns : Break(c) BY <1>7, <1>2 DEF Break, agentVars
<1>8. CASE \E k \in Calls : \/ \E id \in IDs, body \in Bodies : RequestAction(k, id, body)
                            \/ SendEmergencyStop(k) \/ Timeout(k)
  BY <1>8, <1>2 DEF RequestAction, SendEmergencyStop, Timeout, agentVars
<1>9. CASE StartPreflight \/ CheckEpoch \/ FinishPreflight
  BY <1>9, <1>2 DEF StartPreflight, CheckEpoch, FinishPreflight, agentVars
<1>10. CASE UNCHANGED vars
  BY <1>10, <1>2 DEF vars, agentVars
<1> QED BY <1>4, <1>5, <1>6, <1>7, <1>8, <1>9, <1>10 DEF Next

-----------------------------------------------------------------------------
(* The sockets' part.                                                      *)

\* What is still on a socket was there before, or is no answer, or is a true one.
LEMMA UpStep ==
    ASSUME SocketPart, Steady, up' \in [Conns -> Seq(Reports)],
           \A c \in Conns : \A m \in Elements(up'[c]) :
               m \in Elements(up[c]) \/ m.type # "ACTION_RESULT" \/ Truthful(m.id, m.answer)
    PROVE  Sent'
<1>1. SUFFICES ASSUME NEW c \in Conns, NEW m \in Elements(up'[c]), m.type = "ACTION_RESULT"
               PROVE  Truthful(m.id, m.answer)'
  BY DEF Sent, Honest, Elements
<1>2. m \in Reports
  BY DEF Elements
<1>3. Truthful(m.id, m.answer)
  BY <1>1 DEF SocketPart, Sent, Honest
<1> QED BY <1>1, <1>2, <1>3, MessageFacts DEF Steady

\* One queue to the controller changes.
LEMMA OneUpStep ==
    ASSUME SocketPart, Steady, NEW c \in Conns, NEW q \in Seq(Reports), up' = [up EXCEPT ![c] = q],
           \A m \in Elements(q) :
               m \in Elements(up[c]) \/ m.type # "ACTION_RESULT" \/ Truthful(m.id, m.answer)
    PROVE  up' \in [Conns -> Seq(Reports)] /\ Sent'
<1>1. up' \in [Conns -> Seq(Reports)] /\ up'[c] = q /\ \A d \in Conns \ {c} : up'[d] = up[d]
  BY DEF SocketPart, SocketTypes
<1> QED BY <1>1, UpStep

\* Nothing new on the way to the controller.
LEMMA UpSame ==
    ASSUME SocketPart, Steady, up' = up
    PROVE  up' \in [Conns -> Seq(Reports)] /\ Sent'
<1>1. up' \in [Conns -> Seq(Reports)]
  BY DEF SocketPart, SocketTypes
<1> QED BY <1>1, UpStep

\* A message of the agent is written, or lost on a broken socket.
LEMMA WriteStep ==
    ASSUME SocketPart, Steady, NEW c \in Conns, NEW m \in Reports, up' = Write(up, c, m),
           m.type = "ACTION_RESULT" => Truthful(m.id, m.answer)
    PROVE  up' \in [Conns -> Seq(Reports)] /\ Sent'
<1>1. CASE broken[c]
  BY <1>1, UpSame DEF Write
<1>2. CASE ~broken[c]
  <2>1. up' = [up EXCEPT ![c] = Append(up[c], m)] BY <1>2 DEF Write
  <2>2. up[c] \in Seq(Reports) BY DEF SocketPart, SocketTypes
  <2>3. Append(up[c], m) \in Seq(Reports) /\ Elements(Append(up[c], m)) = Elements(up[c]) \cup {m}
    BY <2>2, AppendFacts
  <2> QED BY <2>1, <2>3, OneUpStep
<1> QED BY <1>1, <1>2

\* The controller takes the first message.
LEMMA TakeStep ==
    ASSUME SocketPart, Steady, NEW c \in Conns, up[c] # <<>>, up' = [up EXCEPT ![c] = Tail(@)]
    PROVE  up' \in [Conns -> Seq(Reports)] /\ Sent'
<1>1. up[c] \in Seq(Reports) BY DEF SocketPart, SocketTypes
<1>2. Tail(up[c]) \in Seq(Reports) /\ Elements(Tail(up[c])) \subseteq Elements(up[c])
  BY <1>1, TailFacts
<1>3. up' = [up EXCEPT ![c] = Tail(up[c])] OBVIOUS
<1> QED BY <1>2, <1>3, OneUpStep

\* A break or a shutdown leaves a prefix.
LEMMA PrefixStep ==
    ASSUME NEW S, NEW queue \in Seq(S), NEW d \in Arrives(queue)
    PROVE  d \in Seq(S) /\ Elements(d) \subseteq Elements(queue)
<1>1. PICK n \in 0 .. Len(queue) : d = SubSeq(queue, 1, n)
  BY DEF Arrives
<1>2. 1 \in 1 .. Len(queue) + 1
  OBVIOUS
<1> QED BY <1>1, <1>2, PartFacts

\* The queue to the agent after the agent has taken, or been sent, a message.
LEMMA DownStep ==
    ASSUME SocketTypes, NEW c \in Conns,
           \/ down' = down
           \/ down[c] # <<>> /\ down' = [down EXCEPT ![c] = Tail(@)]
           \/ \E m \in Commands : down' = Write(down, c, m)
           \/ \E d \in Arrives(down[c]) \cup {down[c], <<>>} : down' = [down EXCEPT ![c] = d]
    PROVE  down' \in [Conns -> Seq(Commands)]
<1>1. down \in [Conns -> Seq(Commands)] /\ down[c] \in Seq(Commands)
  BY DEF SocketTypes
<1>2. ASSUME NEW q \in Seq(Commands), down' = [down EXCEPT ![c] = q]
      PROVE  down' \in [Conns -> Seq(Commands)]
  BY <1>1, <1>2
<1>3. CASE down[c] # <<>> /\ down' = [down EXCEPT ![c] = Tail(@)]
  <2>1. Tail(down[c]) \in Seq(Commands) BY <1>1, <1>3, TailFacts
  <2> QED BY <1>2, <1>3, <2>1
<1>4. ASSUME NEW m \in Commands, down' = Write(down, c, m)
      PROVE  down' \in [Conns -> Seq(Commands)]
  <2>1. Append(down[c], m) \in Seq(Commands) BY <1>1, AppendFacts
  <2>2. down' = down \/ down' = [down EXCEPT ![c] = Append(down[c], m)] BY <1>4 DEF Write
  <2> QED BY <1>1, <1>2, <2>1, <2>2
<1>5. ASSUME NEW d \in Arrives(down[c]) \cup {down[c], <<>>}, down' = [down EXCEPT ![c] = d]
      PROVE  down' \in [Conns -> Seq(Commands)]
  <2>1. ASSUME d \in Arrives(down[c]) PROVE d \in Seq(Commands) BY <1>1, <2>1, PrefixStep
  <2>2. <<>> \in Seq(Commands) OBVIOUS
  <2>3. d \in Seq(Commands)
    <3> DEFINE nothing == <<>>
    <3> HIDE DEF nothing
    <3>1. nothing \in Seq(Commands) /\ d \in Arrives(down[c]) \cup {down[c], nothing}
      BY <1>5, <2>2 DEF nothing
    <3> QED BY <1>1, <2>1, <3>1
  <2> QED BY <1>2, <1>5, <2>3
<1> QED BY <1>1, <1>3, <1>4, <1>5

\* A connection or a message that is neither.
LEMMA ReportsFacts ==
    /\ \A b \in BOOLEAN : [type |-> "HELLO", stopped |-> b] \in Reports
    /\ [type |-> "EMERGENCY_STOP"] \in Reports
    /\ \A k \in Calls : [type |-> "EMERGENCY_STOP_APPLIED", id |-> k] \in Reports
  BY DEF Reports

\* What the agent sends and takes keeps the sockets sound.
LEMMA AgentSocketStep ==
    ASSUME AgentPart, SocketPart, stopped \in BOOLEAN, Steady, AgentWork
    PROVE  SocketPart'
<1> USE DEF SocketPart
<1>1. CASE Dial
  <2> DEFINE hello == [type |-> "HELLO", stopped |-> stopped]
  <2>1. dialled' \in Conns /\ conn' = dialled' /\ down' = down /\ UNCHANGED <<current, retiring>>
    BY <1>1, LimitsAssumption DEF Dial, SocketTypes, Conns, controllerVars, serverVars
  <2>2. up' = [up EXCEPT ![dialled'] = <<hello>>] BY <1>1 DEF Dial
  <2>3. hello \in Reports /\ hello.type # "ACTION_RESULT" BY ReportsFacts
  <2> HIDE DEF hello
  <2>4. <<hello>> \in Seq(Reports) /\ Elements(<<hello>>) = {hello} BY <2>3 DEF Elements
  <2>5. PICK c \in Conns : c = dialled' BY <2>1
  <2>6. up' \in [Conns -> Seq(Reports)] /\ Sent' BY <2>2, <2>3, <2>4, <2>5, OneUpStep
  <2> QED BY <2>1, <2>6, LimitsAssumption DEF SocketTypes, Conns
<1>2. CASE LoseConnection
  <2>1. conn \in Conns BY <1>2 DEF LoseConnection, SocketTypes, Conns
  <2>2. down' \in [Conns -> Seq(Commands)] BY <2>1, <1>2, DownStep DEF LoseConnection
  <2>3. up' = up /\ conn' = 0 /\ dialled' = dialled /\ UNCHANGED <<current, retiring>>
    BY <1>2 DEF LoseConnection, controllerVars, serverVars
  <2> QED BY <2>2, <2>3, UpSame, LimitsAssumption DEF SocketTypes
<1>3. CASE SendEmergency
  <2>1. conn \in Conns BY <1>3 DEF SendEmergency, SocketTypes, Conns
  <2>2. UNCHANGED <<down, conn, dialled, current, retiring>>
    BY <1>3 DEF SendEmergency, linkVars, controllerVars, serverVars
  <2>3. up' = Write(up, conn, [type |-> "EMERGENCY_STOP"]) BY <1>3 DEF SendEmergency
  <2>4. up' \in [Conns -> Seq(Reports)] /\ Sent' BY <2>1, <2>3, ReportsFacts, WriteStep
  <2> QED BY <2>2, <2>4 DEF SocketTypes
<1>4. ASSUME NEW c \in Conns, HandleStop(c) PROVE SocketPart'
  <2>1. /\ UNCHANGED <<conn, dialled, current, retiring>>
        /\ Reply(c, [type |-> "EMERGENCY_STOP_APPLIED", id |-> Head(down[c]).id])
        /\ down[c] # <<>> /\ Head(down[c]).type = "EMERGENCY_STOP"
    BY <1>4 DEF HandleStop, linkVars, controllerVars, serverVars
  <2>2. Head(down[c]) \in Commands BY <2>1, TailFacts DEF SocketTypes
  <2>3. Head(down[c]).id \in Calls BY <2>1, <2>2, MessageFacts
  <2>4. down' \in [Conns -> Seq(Commands)] BY <2>1, DownStep DEF Reply
  <2>5. PICK m \in Reports : m.type # "ACTION_RESULT" /\ up' = Write(up, c, m)
    BY <2>1, <2>3, ReportsFacts DEF Reply
  <2>6. up' \in [Conns -> Seq(Reports)] /\ Sent' BY <2>5, WriteStep
  <2> QED BY <2>1, <2>4, <2>6 DEF SocketTypes
<1>5. ASSUME NEW c \in Conns, HandleAction(c) PROVE SocketPart'
  <2>1. down[c] # <<>> /\ Head(down[c]).type = "ACTION_REQUEST" BY <1>5 DEF HandleAction
  <2>2. Head(down[c]) \in Commands BY <2>1, TailFacts DEF SocketTypes
  <2>3. PICK r \in Commands : r = Head(down[c]) BY <2>2
  <2>4. r.id \in IDs BY <2>1, <2>3, MessageFacts
  <2>5. HandleKnown(c, r) \/ HandleRefused(c, r) \/ HandleNew(c, r) BY <2>3, <1>5 DEF HandleAction
  <2>6. UNCHANGED <<conn, dialled, current, retiring>>
    BY <2>5 DEF HandleKnown, HandleRefused, HandleNew, agentVars, linkVars, controllerVars, serverVars
  <2>7. down' \in [Conns -> Seq(Commands)]
    BY <2>1, <2>5, DownStep DEF HandleKnown, HandleRefused, HandleNew, Reply
  <2>8. CASE HandleNew(c, r)
    <3>1. up' = up BY <2>8 DEF HandleNew
    <3> QED BY <3>1, <2>6, <2>7, UpSame DEF SocketTypes
  <2>9. ASSUME NEW answer \in Answers, Truthful(r.id, answer), Reply(c, Result(r.id, answer))
        PROVE  SocketPart'
    <3>1. Result(r.id, answer) \in Reports /\ Truthful(Result(r.id, answer).id, Result(r.id, answer).answer)
      BY <2>4, <2>9, MessageFacts
    <3>2. up' = Write(up, c, Result(r.id, answer)) BY <2>9 DEF Reply
    <3>3. up' \in [Conns -> Seq(Reports)] /\ Sent' BY <3>1, <3>2, WriteStep
    <3> QED BY <3>3, <2>6, <2>7 DEF SocketTypes
  <2>10. "unsure" \in Answers /\ Truthful(r.id, "unsure") BY DEF Answers, Truthful
  <2>11. CASE HandleKnown(c, r)
    <3>1. AnswerKnown(r) \in Answers /\ Truthful(r.id, AnswerKnown(r))
      BY <2>4, <2>10 DEF AnswerKnown, AgentPart, MemoryTypes, Kept
    <3> QED BY <3>1, <2>9, <2>11 DEF HandleKnown
  <2>12. CASE HandleRefused(c, r) BY <2>9, <2>10, <2>12 DEF HandleRefused
  <2> QED BY <2>5, <2>8, <2>11, <2>12
<1>6. ASSUME NEW c \in Conns, Report(c) PROVE SocketPart'
  <2>1. /\ At(c, "remembered") /\ up' = Write(up, c, Result(job[c].id, job[c].answer))
        /\ UNCHANGED <<conn, dialled, current, retiring, down>>
    BY <1>6 DEF Report, linkVars, controllerVars, serverVars
  <2>2. job[c].id \in IDs /\ job[c].answer \in Answers /\ Truthful(job[c].id, job[c].answer)
    BY <2>1 DEF AgentPart, MemoryTypes, Kept, At, Jobs
  <2>3. PICK m \in Reports : up' = Write(up, c, m) /\ Truthful(m.id, m.answer)
    BY <2>1, <2>2, MessageFacts
  <2>4. up' \in [Conns -> Seq(Reports)] /\ Sent' BY <2>3, WriteStep
  <2> QED BY <2>1, <2>4 DEF SocketTypes
<1>7. ASSUME NEW c \in Conns, StartJob(c) \/ Click(c) \/ FinishJob(c) PROVE SocketPart'
  <2>1. UNCHANGED <<up, down, conn, dialled, current, retiring>>
    BY <1>7 DEF StartJob, Click, FinishJob, Remember, Become, linkVars, netVars, controllerVars, serverVars
  <2> QED BY <2>1, UpSame DEF SocketTypes
<1> QED BY <1>1, <1>2, <1>3, <1>4, <1>5, <1>6, <1>7 DEF AgentWork

\* What the controller does with a socket: it takes the first message.
LEMMA ConsumeStep ==
    ASSUME SocketPart, Steady, current # 0, up[current] # <<>>, Consume,
           UNCHANGED <<linkVars, current, retiring>>
    PROVE  SocketPart'
<1>1. PICK c \in Conns : c = current
  BY DEF SocketPart, SocketTypes, Conns
<1>2. up' \in [Conns -> Seq(Reports)] /\ Sent'
  BY <1>1, TakeStep DEF Consume
<1>3. down' = down
  BY DEF Consume
<1> QED BY <1>2, <1>3 DEF SocketPart, SocketTypes, linkVars

\* So does what the controller sends and takes.
LEMMA ControllerSocketStep ==
    ASSUME SocketPart, Steady, ControllerWork
    PROVE  SocketPart'
<1> USE DEF SocketPart
<1>1. ASSUME NEW c \in Conns, Register(c) PROVE SocketPart'
  <2>1. /\ up[c] # <<>> /\ up' = [up EXCEPT ![c] = Tail(@)] /\ current' = c
        /\ UNCHANGED <<conn, dialled, down>>
        /\ retiring' = retiring \cup {[by |-> c, conn |-> p] : p \in {current} \ {0}}
    BY <1>1 DEF Register, agentVars, linkVars
  <2>2. up' \in [Conns -> Seq(Reports)] /\ Sent' BY <2>1, TakeStep
  <2>3. retiring' \subseteq [by : Conns, conn : Conns]
    <3>1. \A p \in {current} \ {0} : p \in Conns BY DEF SocketTypes, Conns
    <3>2. {[by |-> c, conn |-> p] : p \in {current} \ {0}} \subseteq [by : Conns, conn : Conns]
      BY <3>1
    <3> QED BY <2>1, <3>2 DEF SocketTypes
  <2>4. current' \in 0 .. MaxConns BY <2>1 DEF Conns
  <2> QED BY <2>1, <2>2, <2>3, <2>4 DEF SocketTypes
<1>2. ASSUME NEW r \in retiring, Retire(r) PROVE SocketPart'
  <2>1. PICK c \in Conns : c = r.conn BY DEF SocketTypes
  <2>2. /\ UNCHANGED <<conn, dialled, current>> /\ retiring' \subseteq retiring
        /\ up' = [up EXCEPT ![c] = <<>>]
        /\ \E d \in Arrives(down[c]) \cup {down[c]} : down' = [down EXCEPT ![c] = d]
    BY <1>2, <2>1 DEF Retire, Shutdown, agentVars, linkVars
  <2>3. down' \in [Conns -> Seq(Commands)] BY <2>2, DownStep
  <2>4. <<>> \in Seq(Reports) /\ Elements(<<>>) = {} BY DEF Elements
  <2>5. up' \in [Conns -> Seq(Reports)] /\ Sent' BY <2>2, <2>4, OneUpStep
  <2> QED BY <2>2, <2>3, <2>5 DEF SocketTypes
<1>3. CASE Unregister
  <2>1. /\ current # 0 /\ current' = 0 /\ UNCHANGED <<up, down, conn, dialled>>
        /\ retiring' = retiring \cup {[by |-> current, conn |-> current]}
    BY <1>3 DEF Unregister, agentVars, linkVars, netVars
  <2>2. current \in Conns BY <2>1 DEF SocketTypes, Conns
  <2>3. up' \in [Conns -> Seq(Reports)] /\ Sent' BY <2>1, UpSame
  <2> QED BY <2>1, <2>2, <2>3, LimitsAssumption DEF SocketTypes
<1>4. CASE HandleResult \/ HandleUnsavedResult \/ HearStop \/ HearStopApplied
  <2>1. current # 0 /\ up[current] # <<>> /\ Consume /\ UNCHANGED <<linkVars, current, retiring>>
    BY <1>4 DEF HandleResult, HandleUnsavedResult, HearStop, HearStopApplied, Incoming, agentVars
  <2> QED BY <2>1, ConsumeStep
<1> QED BY <1>1, <1>2, <1>3, <1>4 DEF ControllerWork

\* A request goes down, if the socket still takes it.
LEMMA SendSocketStep ==
    ASSUME SocketPart, Steady, NEW k, NEW id, NEW body, NEW m \in Commands,
           Send(k, id, body, m), UNCHANGED linkVars
    PROVE  SocketPart'
<1> USE DEF SocketPart
<1>1. current # 0 /\ down' = Write(down, current, m) /\ UNCHANGED <<up, current, retiring>>
  BY DEF Send
<1>2. current \in Conns BY <1>1 DEF SocketTypes, Conns
<1>3. down' \in [Conns -> Seq(Commands)] BY <1>1, <1>2, DownStep
<1> QED BY <1>1, <1>3, UpSame DEF SocketTypes, linkVars

\* Every step keeps the sockets sound.
LEMMA SocketStep ==
    ASSUME IInv, [Next]_vars
    PROVE  SocketPart'
<1>1. AgentPart /\ SocketPart /\ stopped \in BOOLEAN /\ Steady
  BY AgentStep DEF IInv
<1>2. CASE UNCHANGED <<up, down, conn, dialled, current, retiring>>
  BY <1>1, <1>2, UpSame DEF SocketPart, SocketTypes
<1>3. CASE AgentWork BY <1>1, <1>3, AgentSocketStep
<1>4. CASE ControllerWork BY <1>1, <1>4, ControllerSocketStep
<1>5. CASE Hotkey BY <1>5, <1>2 DEF Hotkey, linkVars, netVars, controllerVars, serverVars
<1>6. ASSUME NEW c \in Conns, Break(c) PROVE SocketPart'
  <2>1. PICK d \in Arrives(down[c]), u \in Arrives(up[c]) :
           down' = [down EXCEPT ![c] = d] /\ up' = [up EXCEPT ![c] = u]
    BY <1>6 DEF Break
  <2>2. down' \in [Conns -> Seq(Commands)] BY <1>1, <2>1, DownStep DEF SocketPart
  <2>3. up[c] \in Seq(Reports) BY <1>1 DEF SocketPart, SocketTypes
  <2>4. u \in Seq(Reports) /\ Elements(u) \subseteq Elements(up[c]) BY <2>3, PrefixStep
  <2>5. up' \in [Conns -> Seq(Reports)] /\ Sent' BY <1>1, <2>1, <2>4, OneUpStep
  <2>6. UNCHANGED <<conn, dialled, current, retiring>>
    BY <1>6 DEF Break, agentVars, linkVars, controllerVars, serverVars
  <2> QED BY <1>1, <2>2, <2>5, <2>6 DEF SocketPart, SocketTypes
<1>7. ASSUME NEW k \in Calls, NEW id \in IDs, NEW body \in Bodies, RequestAction(k, id, body)
      PROVE  SocketPart'
  <2>1. [type |-> "ACTION_REQUEST", id |-> id, body |-> body] \in Commands BY DEF Commands
  <2> QED BY <1>1, <1>7, <2>1, SendSocketStep DEF RequestAction, agentVars
<1>8. ASSUME NEW k \in Calls, SendEmergencyStop(k) PROVE SocketPart'
  <2>1. [type |-> "EMERGENCY_STOP", id |-> k] \in Commands BY DEF Commands
  <2> QED BY <1>1, <1>8, <2>1, SendSocketStep DEF SendEmergencyStop, agentVars
<1>9. ASSUME NEW k \in Calls, Timeout(k) PROVE SocketPart'
  BY <1>9, <1>2 DEF Timeout, agentVars, linkVars, netVars
<1>10. CASE StartPreflight \/ CheckEpoch \/ FinishPreflight
  BY <1>10, <1>2 DEF StartPreflight, CheckEpoch, FinishPreflight, agentVars, linkVars, netVars, serverVars
<1>11. CASE UNCHANGED vars
  BY <1>11, <1>2 DEF vars, agentVars, linkVars, netVars, controllerVars, serverVars
<1> QED BY <1>3, <1>4, <1>5, <1>6, <1>7, <1>8, <1>9, <1>10, <1>11 DEF Next

-----------------------------------------------------------------------------
(* The callers' part.                                                      *)

\* What a caller's state is.
LEMMA CallFacts ==
    /\ \A k \in IDs \cup Calls, answer \in Answers \cup {"applied", "error"} :
          /\ Done(k, answer) \in Callings /\ Done(k, answer).state = "done"
          /\ Done(k, answer).id = k /\ Done(k, answer).answer = answer
    /\ \A k \in IDs \cup Calls, body \in Bodies \cup {Nothing} :
          /\ Waiting(k, body) \in Callings /\ Waiting(k, body).state = "waiting"
          /\ Waiting(k, body).id = k
    /\ \A call \in Callings : call.state = "waiting" => call.id \in IDs \cup Calls
    /\ \A call \in Callings : call.state = "done" => call.id \in IDs \cup Calls
<1>1. \A k \in IDs \cup Calls, answer \in Answers \cup {"applied", "error"} :
          /\ Done(k, answer) \in Callings /\ Done(k, answer).state = "done"
          /\ Done(k, answer).id = k /\ Done(k, answer).answer = answer
  BY DEF Done, Callings
<1>2. \A k \in IDs \cup Calls, body \in Bodies \cup {Nothing} :
          /\ Waiting(k, body) \in Callings /\ Waiting(k, body).state = "waiting"
          /\ Waiting(k, body).id = k
  BY DEF Waiting, Callings
<1>3. \A call \in Callings : call.state = "waiting" => call.id \in IDs \cup Calls
  BY DEF Callings
<1>4. \A call \in Callings : call.state = "done" => call.id \in IDs \cup Calls
  BY DEF Callings
<1> QED BY <1>1, <1>2, <1>3, <1>4

\* Calls and pending requests unchanged: what callers were told stays true.
LEMMA CallFrame ==
    ASSUME CallerPart, Steady, UNCHANGED <<pending, calls>>
    PROVE  CallerPart'
<1>1. CallTypes' /\ Correlated' BY DEF CallerPart, CallTypes, Correlated
<1>2. Delivered' BY DEF CallerPart, Delivered, Steady
<1> QED BY <1>1, <1>2 DEF CallerPart

\* Some requests end: their callers get an error, or an answer that is true.
LEMMA EndedStep ==
    ASSUME CallerPart, Steady, NEW over \in SUBSET pending,
           pending' \in SUBSET (pending \ over),
           calls' \in [Calls -> Callings],
           \A k \in Calls : (\A p \in over : p.call # k) => calls'[k] = calls[k],
           \A k \in Calls : (\E p \in over : p.call = k) =>
               /\ calls'[k].state = "done"
               /\ calls'[k].answer \in Answers =>
                     calls'[k].id \in IDs /\ Truthful(calls'[k].id, calls'[k].answer)
    PROVE  CallerPart'
<1>1. CallTypes'
  BY DEF CallerPart, CallTypes
<1>2. ASSUME NEW p \in pending' PROVE calls'[p.call] = calls[p.call]
  <2>1. p \in pending /\ p \notin over /\ p.call \in Calls BY DEF CallerPart, CallTypes
  <2>2. \A q \in over : q.call # p.call BY <2>1 DEF CallerPart, Correlated
  <2> QED BY <2>1, <2>2
<1>3. Correlated'
  BY <1>2 DEF CallerPart, Correlated
<1>4. ASSUME NEW k \in Calls, calls'[k].state = "done", calls'[k].answer \in Answers
      PROVE  calls'[k].id \in IDs /\ Truthful(calls'[k].id, calls'[k].answer)
  <2>1. CASE \E p \in over : p.call = k BY <1>4, <2>1
  <2>2. CASE \A p \in over : p.call # k BY <1>4, <2>2 DEF CallerPart, Delivered
  <2> QED BY <2>1, <2>2
<1>5. Delivered'
  BY <1>4 DEF Steady, Delivered
<1> QED BY <1>1, <1>3, <1>5 DEF CallerPart

\* The requests of a removed connection end in errors.
LEMMA AbandonStep ==
    ASSUME CallerPart, Steady, NEW c, Abandon(c)
    PROVE  CallerPart'
<1> DEFINE over == {p \in pending : p.conn = c}
<1>1. \A p \in over : p.call \in Calls /\ calls[p.call].id \in IDs \cup Calls
  BY CallFacts DEF CallerPart, CallTypes, Correlated
<1>2. /\ pending' \in SUBSET (pending \ over)
      /\ calls' = [k \in Calls |-> IF \E p \in over : p.call = k
                                   THEN Done(calls[k].id, "error") ELSE calls[k]]
  BY DEF Abandon
<1>3. over \in SUBSET pending OBVIOUS
<1> HIDE DEF over
<1>4. \A k \in Calls : (\A p \in over : p.call # k) => calls'[k] = calls[k]
  BY <1>2
<1>5. \A k \in Calls : (\E p \in over : p.call = k) =>
          /\ calls'[k] \in Callings /\ calls'[k].state = "done" /\ calls'[k].answer \notin Answers
  BY <1>1, <1>2, CallFacts DEF Answers
<1>6. calls' \in [Calls -> Callings]
  BY <1>2, <1>4, <1>5 DEF CallerPart, CallTypes
<1> QED BY <1>2, <1>3, <1>4, <1>5, <1>6, EndedStep

\* A message is delivered to the requests with its identifier on its connection.
LEMMA DeliverStep ==
    ASSUME CallerPart, Steady, NEW c, NEW id \in IDs \cup Calls,
           NEW answer \in Answers \cup {"applied", "error"},
           Deliver(PendingFor(c, id), id, answer),
           answer \in Answers => id \in IDs /\ Truthful(id, answer)
    PROVE  CallerPart'
<1> DEFINE over == PendingFor(c, id)
<1>1. over \in SUBSET pending /\ \A p \in over : calls[p.call].id = id
  BY DEF PendingFor, CallerPart, Correlated
<1>2. /\ pending' = pending \ over
      /\ calls' = [k \in Calls |-> IF \E p \in over : p.call = k
                                   THEN Done(calls[k].id, answer) ELSE calls[k]]
  BY DEF Deliver
<1> HIDE DEF over
<1>3. \A k \in Calls : (\A p \in over : p.call # k) => calls'[k] = calls[k]
  BY <1>2
<1>4. \A k \in Calls : (\E p \in over : p.call = k) =>
          /\ calls'[k] \in Callings /\ calls'[k].state = "done"
          /\ calls'[k].id = id /\ calls'[k].answer = answer
  BY <1>1, <1>2, CallFacts
<1>5. calls' \in [Calls -> Callings]
  BY <1>2, <1>3, <1>4 DEF CallerPart, CallTypes
<1>6. \A k \in Calls : (\E p \in over : p.call = k) =>
          /\ calls'[k].state = "done"
          /\ calls'[k].answer \in Answers =>
                calls'[k].id \in IDs /\ Truthful(calls'[k].id, calls'[k].answer)
  BY <1>4
<1> QED BY <1>1, <1>2, <1>3, <1>5, <1>6, EndedStep

\* An idle caller starts to wait.
LEMMA SendCallStep ==
    ASSUME CallerPart, SocketTypes, Steady, NEW k \in Calls, calls[k] = Idle,
           NEW id \in IDs \cup Calls, NEW body \in Bodies \cup {Nothing}, NEW m, Send(k, id, body, m)
    PROVE  CallerPart'
<1> DEFINE new == [conn |-> current, id |-> id, call |-> k]
<1>1. /\ current # 0 /\ pending' = pending \cup {new}
      /\ calls' = [calls EXCEPT ![k] = Waiting(id, body)]
  BY DEF Send
<1>2. new \in [conn : Conns, id : IDs \cup Calls, call : Calls] /\ new.call = k /\ new.id = id
  BY <1>1 DEF SocketTypes, Conns
<1> HIDE DEF new
<1>3. /\ calls' \in [Calls -> Callings] /\ calls'[k] = Waiting(id, body)
      /\ \A l \in Calls \ {k} : calls'[l] = calls[l]
  BY <1>1, CallFacts DEF CallerPart, CallTypes
<1>4. Waiting(id, body).state = "waiting" /\ Waiting(id, body).id = id
  BY CallFacts
<1>5. \A p \in pending : p.call \in Calls \ {k}
  BY DEF CallerPart, CallTypes, Correlated, Idle
<1>6. CallTypes'
  BY <1>1, <1>2, <1>3 DEF CallerPart, CallTypes
<1>7. Correlated'
  BY <1>1, <1>2, <1>3, <1>4, <1>5 DEF CallerPart, Correlated
<1>8. Delivered'
  BY <1>3, <1>4 DEF CallerPart, Delivered, Steady
<1> QED BY <1>6, <1>7, <1>8 DEF CallerPart

\* A request that waited too long ends in an error.
LEMMA TimeoutStep ==
    ASSUME CallerPart, Steady, NEW k \in Calls, Timeout(k)
    PROVE  CallerPart'
<1> DEFINE over == {p \in pending : p.call = k}
<1>1. /\ calls[k].state = "waiting" /\ pending' = {p \in pending : p.call # k}
      /\ calls' = [calls EXCEPT ![k] = Done(calls[k].id, "error")]
  BY DEF Timeout
<1>2. calls[k].id \in IDs \cup Calls
  BY <1>1, CallFacts DEF CallerPart, CallTypes
<1>3. /\ Done(calls[k].id, "error") \in Callings /\ Done(calls[k].id, "error").state = "done"
      /\ Done(calls[k].id, "error").answer = "error"
  BY <1>2, CallFacts
<1>4. /\ calls' \in [Calls -> Callings] /\ calls'[k] = Done(calls[k].id, "error")
      /\ \A l \in Calls \ {k} : calls'[l] = calls[l]
  BY <1>1, <1>3 DEF CallerPart, CallTypes
<1>5. CallTypes'
  BY <1>1, <1>4 DEF CallerPart, CallTypes
<1>6. Correlated'
  BY <1>1, <1>4 DEF CallerPart, CallTypes, Correlated
<1>7. Delivered'
  <2>1. calls'[k].answer \notin Answers BY <1>3, <1>4 DEF Answers
  <2> QED BY <2>1, <1>4 DEF CallerPart, Delivered, Steady
<1> QED BY <1>5, <1>6, <1>7 DEF CallerPart

\* Every step keeps what callers were told true.
LEMMA CallerStep ==
    ASSUME IInv, [Next]_vars
    PROVE  CallerPart'
<1>1. AgentPart /\ SocketPart /\ CallerPart /\ Steady
  BY AgentStep DEF IInv
<1>2. CASE UNCHANGED <<pending, calls>>
  BY <1>1, <1>2, CallFrame
<1>3. CASE AgentWork
  <2>1. UNCHANGED controllerVars
    BY <1>3 DEF AgentWork, Dial, LoseConnection, SendEmergency, HandleStop, HandleAction, HandleKnown,
                HandleRefused, HandleNew, StartJob, Click, FinishJob, Remember, Become, Report
  <2> QED BY <2>1, <1>2 DEF controllerVars, serverVars
<1>4. CASE ControllerWork
  <2>1. ASSUME NEW type, Incoming(type)
        PROVE  \E m \in Reports :
                  /\ m = Head(up[current]) /\ m.type = type
                  /\ type = "ACTION_RESULT" => m.id \in IDs /\ Truthful(m.id, m.answer)
                  /\ type = "EMERGENCY_STOP_APPLIED" => m.id \in Calls
    <3>1. current \in Conns /\ up[current] # <<>> /\ Head(up[current]).type = type
      BY <1>1, <2>1 DEF Incoming, SocketPart, SocketTypes, Conns
    <3>2. up[current] \in Seq(Reports) BY <1>1, <3>1 DEF SocketPart, SocketTypes
    <3>3. Head(up[current]) \in Reports /\ Head(up[current]) \in Elements(up[current])
      BY <3>1, <3>2, TailFacts
    <3>4. PICK m \in Reports : m = Head(up[current]) BY <3>3
    <3>5. m.type = "ACTION_RESULT" => m.id \in IDs /\ Truthful(m.id, m.answer)
      BY <1>1, <3>1, <3>3, <3>4, MessageFacts DEF SocketPart, Sent, Honest
    <3>6. m.type = "EMERGENCY_STOP_APPLIED" => m.id \in Calls
      BY DEF Reports
    <3> QED BY <3>1, <3>4, <3>5, <3>6
  <2>2. CASE HandleResult \/ HandleUnsavedResult
    <3>1. PICK m \in Reports : m = Head(up[current]) /\ m.id \in IDs /\ Truthful(m.id, m.answer)
                               /\ m.type = "ACTION_RESULT"
      BY <2>1, <2>2 DEF HandleResult, HandleUnsavedResult
    <3>2. m.answer \in Answers BY <3>1, MessageFacts
    <3>3. CASE HandleResult
      <4>1. Deliver(PendingFor(current, m.id), m.id, m.answer) BY <3>1, <3>3 DEF HandleResult
      <4> QED BY <1>1, <3>1, <3>2, <4>1, DeliverStep
    <3>4. CASE HandleUnsavedResult
      <4>1. Deliver(PendingFor(current, m.id), m.id, "error") BY <3>1, <3>4 DEF HandleUnsavedResult
      <4>2. "error" \notin Answers BY DEF Answers
      <4> QED BY <1>1, <3>1, <4>1, <4>2, DeliverStep
    <3> QED BY <2>2, <3>3, <3>4
  <2>3. CASE HearStop BY <2>3, <1>2 DEF HearStop
  <2>4. CASE HearStopApplied
    <3>1. PICK m \in Reports : m = Head(up[current]) /\ m.id \in Calls
      BY <2>1, <2>4 DEF HearStopApplied
    <3>2. Deliver(PendingFor(current, m.id), m.id, "applied") BY <3>1, <2>4 DEF HearStopApplied
    <3>3. "applied" \notin Answers BY DEF Answers
    <3> QED BY <1>1, <3>1, <3>2, <3>3, DeliverStep
  <2>5. ASSUME NEW r \in retiring, Retire(r) PROVE CallerPart'
    BY <1>1, <2>5, AbandonStep DEF Retire, Shutdown
  <2>6. CASE Unregister \/ \E c \in Conns : Register(c)
    BY <2>6, <1>2 DEF Unregister, Register
  <2> QED BY <1>4, <2>2, <2>3, <2>4, <2>5, <2>6 DEF ControllerWork
<1>5. CASE Hotkey BY <1>5, <1>2 DEF Hotkey, controllerVars, serverVars
<1>6. CASE \E c \in Conns : Break(c) BY <1>6, <1>2 DEF Break, controllerVars, serverVars
<1>7. ASSUME NEW k \in Calls, NEW id \in IDs, NEW body \in Bodies, RequestAction(k, id, body)
      PROVE  CallerPart'
  BY <1>1, <1>7, SendCallStep DEF RequestAction, SocketPart
<1>8. ASSUME NEW k \in Calls, SendEmergencyStop(k) PROVE CallerPart'
  BY <1>1, <1>8, SendCallStep DEF SendEmergencyStop, SocketPart
<1>9. ASSUME NEW k \in Calls, Timeout(k) PROVE CallerPart'
  BY <1>1, <1>9, TimeoutStep
<1>10. CASE StartPreflight \/ CheckEpoch \/ FinishPreflight
  BY <1>10, <1>2 DEF StartPreflight, CheckEpoch, FinishPreflight, serverVars
<1>11. CASE UNCHANGED vars
  BY <1>11, <1>2 DEF vars, controllerVars, serverVars
<1> QED BY <1>3, <1>4, <1>5, <1>6, <1>7, <1>8, <1>9, <1>10, <1>11 DEF Next

-----------------------------------------------------------------------------
(* The theorems.                                                           *)

\* The invariant holds at first.
LEMMA Initially == Init => IInv
<1> SUFFICES ASSUME Init PROVE IInv
  OBVIOUS
<1> USE DEF Init
<1>1. MemoryTypes
  BY DEF MemoryTypes
<1>2. Memory
  <2>1. Present(actions) = {} /\ Present(results) = {} BY DEF Present
  <2>2. Elements(actionOrder) = {} BY DEF Elements
  <2>3. Cardinality({}) = 0 BY FS_EmptySet
  <2>4. \A id \in IDs : actions[id] = Nothing /\ results[id] = Nothing OBVIOUS
  <2> HIDE DEF Init
  <2> QED BY <2>1, <2>2, <2>3, <2>4, LimitsAssumption DEF Memory
<1>3. Running /\ Recorded
  BY DEF Running, Recorded, UnderWay
<1>4. Kept
  BY NothingAssumption DEF Kept, At, Truthful
<1>5. SocketTypes
  BY LimitsAssumption DEF SocketTypes
<1>6. Sent
  BY DEF Sent, Honest, Elements
<1>7. CallTypes /\ Correlated /\ Delivered
  BY DEF CallTypes, Correlated, Delivered, Callings, Idle
<1> QED BY <1>1, <1>2, <1>3, <1>4, <1>5, <1>6, <1>7 DEF IInv, AgentPart, SocketPart, CallerPart

\* Every step keeps the invariant.
LEMMA Inductive == IInv /\ [Next]_vars => IInv'
<1> SUFFICES ASSUME IInv, [Next]_vars PROVE IInv'
  OBVIOUS
<1>1. stopped' \in {stopped, TRUE}
  <2>1. CASE AgentWork
    BY <2>1 DEF AgentWork, Dial, LoseConnection, SendEmergency, HandleStop, HandleAction, HandleKnown,
                HandleRefused, HandleNew, StartJob, Click, FinishJob, Report, Emergency, agentVars, stopVars
  <2>2. CASE ControllerWork
    BY <2>2 DEF ControllerWork, Register, Retire, Unregister, HandleResult, HandleUnsavedResult,
                HearStop, HearStopApplied, agentVars, stopVars
  <2>3. CASE Hotkey BY <2>3 DEF Hotkey, Emergency
  <2>4. CASE \E c \in Conns : Break(c) BY <2>4 DEF Break, agentVars, stopVars
  <2>5. CASE \E k \in Calls : \/ \E id \in IDs, body \in Bodies : RequestAction(k, id, body)
                              \/ SendEmergencyStop(k) \/ Timeout(k)
    BY <2>5 DEF RequestAction, SendEmergencyStop, Timeout, agentVars, stopVars
  <2>6. CASE StartPreflight \/ CheckEpoch \/ FinishPreflight
    BY <2>6 DEF StartPreflight, CheckEpoch, FinishPreflight, agentVars, stopVars
  <2>7. CASE UNCHANGED vars BY <2>7 DEF vars, agentVars, stopVars
  <2> QED BY <2>1, <2>2, <2>3, <2>4, <2>5, <2>6, <2>7 DEF Next
<1>2. stopped' \in BOOLEAN
  BY <1>1 DEF IInv
<1>3. AgentPart' /\ SocketPart' /\ CallerPart'
  BY AgentStep, SocketStep, CallerStep
<1> QED BY <1>2, <1>3 DEF IInv

\* Memory, jobs, sockets and callers stay consistent in every behaviour of
\* the agent and the controller, whatever breaks (agent.Client, controller).
THEOREM Invariance == Spec => []IInv
<1>1. Init => IInv BY Initially
<1>2. IInv /\ [Next]_vars => IInv' BY Inductive
<1> QED BY <1>1, <1>2, PTL DEF Spec

\* The agent's memory (reserveAction, rememberActionResult and their
\* evictions) stays within its limits and consistent.
THEOREM MemoryTheorem == Spec => []MemoryIsSound
<1>1. IInv => MemoryIsSound
  BY DEF IInv, AgentPart, Memory, Running, UnderWay, MemoryIsSound
<1> QED BY <1>1, Invariance, PTL

\* However often a request is repeated, on whatever connection, and whatever
\* is evicted, executeAction begins the input of an action at most once.
THEOREM ClickedOnceTheorem == Spec => []ClickedOnce
<1>1. IInv => ClickedOnce
  BY DEF IInv, AgentPart, Recorded, ClickedOnce
<1> QED BY <1>1, Invariance, PTL

\* What RequestAction returns is true: a reported success had its input
\* begun, and after "safe to retry" there was none and will be none.
THEOREM AnswersTheorem == Spec => []AnswersAreTrue
<1>1. IInv => AnswersAreTrue
  BY DEF IInv, CallerPart, Delivered, Truthful, Answers, AnswersAreTrue
<1> QED BY <1>1, Invariance, PTL
=============================================================================

------------------------ MODULE AgentRequestsProofs ------------------------
(***************************************************************************)
(* Proofs about AgentRequests, for any number of requests, agents and      *)
(* tools.  Isolation of the agents does not follow from itself: an answer  *)
(* is routed by whatever request id the loop, the shared map or FinalResult*)
(* holds, so each of those, and each message and worker, must belong to    *)
(* the agent it is with.                                                   *)
(***************************************************************************)
EXTENDS AgentRequests, SequenceTheorems, TLAPS

\* No one refers to a request before it is opened.
IdleHasNoTarget == \A r \in Requests : call[r] = "idle" => target[r] = None

\* Messages, and the work they stand for, are with the agent of their request.
QueueIsOwn == \A a \in Agents : \A i \in 1 .. Len(queue[a]) :
                target[queue[a][i].request] = a
MsgIsOwn == \A a \in Agents : msg[a] # None => target[msg[a].request] = a
WorkersAreOwn == \A w \in workers : target[w.request] = w.agent

\* The three places that name the request to answer name one of the agent.
RequestIdIsOwn == \A a \in Agents : requestId[a] # None => target[requestId[a]] = a
EntryIsOwn == \A a \in Agents : agentRequestIds[a] # None => target[agentRequestIds[a]] = a
FoundIsOwn == \A a \in Agents : found[a] # None => target[found[a]] = a

\* The loop has a message in hand between taking it and polling again.
HasMessage == \A a \in Agents : pc[a] \notin {"poll", "exited"} => msg[a] # None
StoresItsRequest == \A a \in Agents : pc[a] = "store" => requestId[a] = msg[a].request

\* A channel that was answered has lost its sender.
AnswerTakesSender == \A r \in Requests : response[r] # None => r \notin responseChannels

Own == /\ IdleHasNoTarget /\ QueueIsOwn /\ MsgIsOwn /\ WorkersAreOwn
       /\ RequestIdIsOwn /\ EntryIsOwn /\ FoundIsOwn

\* What the isolation of the agents rests on, and what follows from it.
Kept == /\ StoresItsRequest /\ AnswerTakesSender
        /\ AgentIsolation /\ MapFollowsAgent /\ ActiveRequestIsMapped

-----------------------------------------------------------------------------
(* Queues of the agents under append, take and drop.                         *)

LEMMA AppendQueue ==
  ASSUME NEW S, NEW q \in [Agents -> Seq(S)], NEW a, NEW m \in S
  PROVE  [q EXCEPT ![a] = Append(@, m)] \in [Agents -> Seq(S)]
<1>1. CASE a \in Agents
  <2>1. q[a] \in Seq(S)
    BY <1>1
  <2>2. Append(q[a], m) \in Seq(S)
    BY <2>1
  <2> QED
    BY <1>1, <2>2
<1>2. CASE a \notin Agents
  BY <1>2
<1> QED
  BY <1>1, <1>2

LEMMA TakeQueue ==
  ASSUME NEW S, NEW q \in [Agents -> Seq(S)], NEW a \in Agents, q[a] # <<>>
  PROVE  /\ Head(q[a]) \in S
         /\ [q EXCEPT ![a] = Tail(@)] \in [Agents -> Seq(S)]
OBVIOUS

LEMMA DropQueue ==
  ASSUME NEW S, NEW q \in [Agents -> Seq(S)], NEW a
  PROVE  [q EXCEPT ![a] = <<>>] \in [Agents -> Seq(S)]
<1>1. << >> \in Seq(S)
  OBVIOUS
<1> QED
  BY <1>1

-----------------------------------------------------------------------------
TypeInv == TypeOK /\ HasMessage

LEMMA TypeInit == Init => TypeInv
<1> SUFFICES ASSUME Init PROVE TypeInv
  OBVIOUS
<1>1. queue \in [Agents -> Seq(Message)]
  BY DEF Init
<1>2. workers \in SUBSET Worker /\ responseChannels \in SUBSET Requests
  BY DEF Init
<1>3. call \in [Requests -> CallState] /\ pc \in [Agents -> LoopState]
  BY DEF Init, CallState, LoopState
<1>4. /\ agentChannels \in [RegisteredTools -> Agents]
      /\ ticket \in [Requests -> Nat] /\ issued \in Nat /\ shutdown \in BOOLEAN
  BY DEF Init
<1>5. /\ target \in [Requests -> Agents \cup {None}]
      /\ response \in [Requests -> Response \cup {None}]
      /\ agentRequestIds \in [Agents -> Requests \cup {None}]
      /\ requestId \in [Agents -> Requests \cup {None}]
      /\ msg \in [Agents -> Message \cup {None}]
      /\ found \in [Agents -> Requests \cup {None}]
  BY DEF Init
<1>6. HasMessage
  BY DEF Init, HasMessage
<1> QED
  BY <1>1, <1>2, <1>3, <1>4, <1>5, <1>6 DEF TypeInv, TypeOK

\* Post puts a response where one is expected and nowhere else.
Answered == /\ response' \in [Requests -> Response \cup {None}]
            /\ responseChannels' \in SUBSET Requests

LEMMA PostType ==
  ASSUME TypeOK, NEW a \in Agents, NEW r, msg[a] # None, Post(a, r)
  PROVE  Answered
<1>1. msg[a].request \in Requests
  BY DEF TypeOK, Message
<1>2. [agent |-> a, work |-> msg[a].request] \in Response
  BY <1>1 DEF Response
<1> QED
  BY <1>2 DEF TypeOK, Post, Answered

LEMMA TypeStep == TypeInv /\ [Next]_vars => TypeInv'
<1> SUFFICES ASSUME TypeInv, [Next]_vars PROVE TypeInv'
  OBVIOUS
<1> USE NoneAssumption DEF TypeInv, TypeOK, HasMessage, handlerVars, loopVars
<1>1. ASSUME NEW r \in Requests, NEW t \in Tools, RejectCall(r, t)
      PROVE  TypeInv'
  BY <1>1 DEF RejectCall, CallState
<1>2. ASSUME NEW r \in Requests, NEW t \in Tools, OpenCall(r, t)
      PROVE  TypeInv'
  BY <1>2 DEF OpenCall, CallState
<1>3. ASSUME NEW r \in Requests, SendCall(r)
      PROVE  TypeInv'
  <2> DEFINE m == [kind |-> "mcp_request", request |-> r]
  <2>1. m \in Message
    BY DEF Message
  <2>2. [queue EXCEPT ![target[r]] = Append(@, m)] \in [Agents -> Seq(Message)]
    BY <2>1, AppendQueue
  <2>3. CASE pc[target[r]] = "exited"
    BY <1>3, <2>3 DEF SendCall, CallState
  <2>4. CASE pc[target[r]] # "exited"
    <3>1. call' \in [Requests -> CallState]
      <4>1. call' = [call EXCEPT ![r] = "waiting"]
        BY <1>3, <2>4 DEF SendCall
      <4> QED
        BY <4>1 DEF CallState
    <3>3. issued + 1 \in Nat
      OBVIOUS
    <3>4. ticket' \in [Requests -> Nat] /\ issued' \in Nat
      BY <1>3, <2>4, <3>3 DEF SendCall
    <3>2. queue' \in [Agents -> Seq(Message)]
      BY <1>3, <2>2, <2>4 DEF SendCall
    <3> QED
      BY <1>3, <3>1, <3>2, <3>4 DEF SendCall
  <2> QED
    BY <2>3, <2>4
<1>4. ASSUME NEW r \in Requests, Receive(r)
      PROVE  TypeInv'
  BY <1>4 DEF Receive, CallState
<1>5. ASSUME NEW r \in Requests, CleanUp(r)
      PROVE  TypeInv'
  BY <1>5 DEF CleanUp, ForgetRequest, CallState
<1>6. ASSUME NEW r \in Requests, Timeout(r)
      PROVE  TypeInv'
  BY <1>6 DEF Timeout, CallState
<1>7. ASSUME NEW a \in Agents, Exit(a)
      PROVE  TypeInv'
  <2>1. [queue EXCEPT ![a] = <<>>] \in [Agents -> Seq(Message)]
    BY DropQueue
  <2> QED
    BY <1>7, <2>1 DEF Exit, StopLoop, LoopState
<1>8. ASSUME NEW a \in Agents, TakeMessage(a)
      PROVE  TypeInv'
  <2>1. /\ Head(queue[a]) \in Message
        /\ [queue EXCEPT ![a] = Tail(@)] \in [Agents -> Seq(Message)]
    BY <1>8, TakeQueue DEF TakeMessage
  <2>2. Head(queue[a]) # None
    BY <2>1
  <2> QED
    BY <1>8, <2>1, <2>2 DEF TakeMessage, LoopState
<1>9. ASSUME NEW a \in Agents, BeginMessage(a)
      PROVE  TypeInv'
  <2>1. msg[a].request \in Requests
    BY <1>9 DEF BeginMessage, Message
  <2> QED
    BY <1>9, <2>1, ZenonT(40) DEF BeginMessage, LoopState
<1>10. ASSUME NEW a \in Agents, StoreRequestId(a)
      PROVE  TypeInv'
  <2>1. msg[a].request \in Requests
    BY <1>10 DEF StoreRequestId, Message
  <2> QED
    BY <1>10, <2>1 DEF StoreRequestId, Stored, LoopState
<1>11. ASSUME NEW a \in Agents, StartWorker(a)
      PROVE  TypeInv'
  <2>1. msg[a].request \in Requests
    BY <1>11 DEF StartWorker, Message
  <2>2. [agent |-> a, request |-> msg[a].request] \in Worker
    BY <2>1 DEF Worker
  <2> QED
    BY <1>11, <2>2 DEF StartWorker, LoopState
<1>12. ASSUME NEW a \in Agents, LookUpRequest(a)
      PROVE  TypeInv'
  BY <1>12 DEF LookUpRequest, Entry, LoopState
<1>13. ASSUME NEW a \in Agents, FinalResult(a)
      PROVE  TypeInv'
  <2>1. Answered
    BY <1>13, PostType DEF FinalResult
  <2> QED
    BY <1>13, <2>1 DEF FinalResult, LoopState, Answered
<1>14. ASSUME NEW a \in Agents, GuestReturns(a)
      PROVE  TypeInv'
  BY <1>14 DEF GuestReturns, LoopState
<1>15. ASSUME NEW a \in Agents, GuestFails(a)
      PROVE  TypeInv'
  BY <1>15 DEF GuestFails, LoopState
<1>16. ASSUME NEW a \in Agents, ReportError(a)
      PROVE  TypeInv'
  <2>1. CASE requestId[a] = None
    BY <1>16, <2>1, ZenonT(40) DEF ReportError, LoopState
  <2>2. CASE requestId[a] # None
    <3>1. Answered
      BY <1>16, <2>2, PostType DEF ReportError
    <3> QED
      BY <1>16, <2>2, <3>1, ZenonT(40) DEF ReportError, LoopState, Answered
  <2> QED
    BY <2>1, <2>2
<1>17. ASSUME NEW a \in Agents, Unmap(a)
      PROVE  TypeInv'
  BY <1>17 DEF Unmap, Unmapped, LoopState
<1>18. ASSUME NEW w \in workers, WorkerSends(w)
      PROVE  TypeInv'
  <2> DEFINE m == [kind |-> "callback", request |-> w.request]
  <2>1. m \in Message
    BY DEF Message, Worker
  <2>2. [queue EXCEPT ![w.agent] = Append(@, m)] \in [Agents -> Seq(Message)]
    BY <2>1, AppendQueue
  <2> QED
    BY <1>18, <2>2 DEF WorkerSends
<1>19. ASSUME SignalShutdown
      PROVE  TypeInv'
  BY <1>19 DEF SignalShutdown
<1>20. CASE Terminated
  BY <1>20 DEF Terminated, vars
<1>21. CASE UNCHANGED vars
  BY <1>21 DEF vars
<1> QED
  BY <1>1, <1>2, <1>3, <1>4, <1>5, <1>6, <1>7, <1>8, <1>9, <1>10, <1>11,
     <1>12, <1>13, <1>14, <1>15, <1>16, <1>17, <1>18, <1>19, <1>20, <1>21
     DEF Next, Step, HandlerStep, LoopStep

(* Every variable holds a value of its type, however many calls, agents and  *)
(* tools there are.                                                          *)
THEOREM TypeCorrect == Spec => []TypeOK
<1>1. TypeInv => TypeOK
  BY DEF TypeInv
<1> QED
  BY <1>1, TypeInit, TypeStep, PTL DEF Spec

-----------------------------------------------------------------------------
(* Ownership.                                                                *)

LEMMA AppendElement ==
  ASSUME NEW S, NEW q \in Seq(S), NEW m \in S, NEW i \in 1 .. Len(Append(q, m))
  PROVE  \/ Append(q, m)[i] = m
         \/ i \in 1 .. Len(q) /\ Append(q, m)[i] = q[i]
<1>1. i \in 1 .. Len(q) \/ i = Len(q) + 1
  BY AppendProperties
<1>2. Append(q, m)[Len(q) + 1] = m
  BY AppendProperties
<1> QED
  BY <1>1, <1>2, AppendProperties

LEMMA TailElement ==
  ASSUME NEW S, NEW q \in Seq(S), q # <<>>, NEW i \in 1 .. Len(Tail(q))
  PROVE  i + 1 \in 1 .. Len(q) /\ Tail(q)[i] = q[i + 1]
BY HeadTailProperties

LEMMA HeadElement ==
  ASSUME NEW S, NEW q \in Seq(S), q # <<>>
  PROVE  1 \in 1 .. Len(q) /\ Head(q) = q[1]
OBVIOUS

LEMMA OwnInit == Init => Own
BY NoneAssumption DEF Init, Own, IdleHasNoTarget, QueueIsOwn, MsgIsOwn, WorkersAreOwn,
                      RequestIdIsOwn, EntryIsOwn, FoundIsOwn

LEMMA OwnStep == TypeInv /\ TypeInv' /\ Own /\ [Next]_vars => Own'
<1> SUFFICES ASSUME TypeInv, TypeInv', Own, [Next]_vars PROVE Own'
  OBVIOUS
<1> USE NoneAssumption DEF TypeInv, TypeOK, HasMessage, handlerVars, loopVars,
      Own, IdleHasNoTarget, QueueIsOwn, MsgIsOwn, WorkersAreOwn, RequestIdIsOwn,
      EntryIsOwn, FoundIsOwn
<1>1. ASSUME NEW r \in Requests, NEW t \in Tools, RejectCall(r, t)
      PROVE  Own'
  BY <1>1 DEF RejectCall
<1>2. ASSUME NEW r \in Requests, NEW t \in Tools, OpenCall(r, t)
      PROVE  Own'
  <2>1. \A x \in Requests : target[x] \in Agents => target'[x] = target[x]
    BY <1>2 DEF OpenCall
  <2>2. IdleHasNoTarget'
    BY <1>2 DEF OpenCall
  <2>3. QueueIsOwn'
    <3> SUFFICES ASSUME NEW a \in Agents, NEW i \in 1 .. Len(queue[a])
                 PROVE  target'[queue[a][i].request] = a
      BY <1>2 DEF OpenCall
    <3>1. queue[a][i] \in Message
      OBVIOUS
    <3> QED
      BY <2>1, <3>1 DEF Message
  <2>4. MsgIsOwn'
    BY <1>2, <2>1 DEF OpenCall, Message
  <2>5. WorkersAreOwn'
    BY <1>2, <2>1 DEF OpenCall, Worker
  <2>6. RequestIdIsOwn' /\ EntryIsOwn' /\ FoundIsOwn'
    BY <1>2, <2>1 DEF OpenCall
  <2> QED
    BY <2>2, <2>3, <2>4, <2>5, <2>6
<1>3. ASSUME NEW r \in Requests, SendCall(r)
      PROVE  Own'
  <2>1. /\ UNCHANGED <<target, msg, workers, requestId, agentRequestIds, found>>
        /\ \A x \in Requests : call'[x] = "idle" => call[x] = "idle"
    BY <1>3 DEF SendCall
  <2>2. QueueIsOwn'
    <3> SUFFICES ASSUME NEW a \in Agents, NEW i \in 1 .. Len(queue'[a])
                 PROVE  target[queue'[a][i].request] = a
      BY <2>1
    <3>1. CASE queue'[a] = queue[a]
      BY <3>1
    <3>2. CASE queue'[a] # queue[a]
      <4> DEFINE m == [kind |-> "mcp_request", request |-> r]
      <4>1. a = target[r] /\ queue'[a] = Append(queue[a], m)
        BY <1>3, <3>2 DEF SendCall
      <4>2. m \in Message
        BY DEF Message
      <4>3. queue[a] \in Seq(Message) /\ i \in 1 .. Len(Append(queue[a], m))
        BY <4>1
      <4>4. \/ Append(queue[a], m)[i] = m
            \/ i \in 1 .. Len(queue[a]) /\ Append(queue[a], m)[i] = queue[a][i]
        BY <4>2, <4>3, AppendElement
      <4> QED
        BY <4>1, <4>4
    <3> QED
      BY <3>1, <3>2
  <2> QED
    BY <2>1, <2>2
<1>4. ASSUME NEW r \in Requests, Receive(r)
      PROVE  Own'
  BY <1>4 DEF Receive
<1>5. ASSUME NEW r \in Requests, CleanUp(r)
      PROVE  Own'
  BY <1>5 DEF CleanUp, ForgetRequest
<1>6. ASSUME NEW r \in Requests, Timeout(r)
      PROVE  Own'
  BY <1>6 DEF Timeout
<1>7. ASSUME NEW a \in Agents, Exit(a)
      PROVE  Own'
  <2>1. QueueIsOwn'
    <3> SUFFICES ASSUME NEW b \in Agents, NEW i \in 1 .. Len(queue'[b])
                 PROVE  target[queue'[b][i].request] = b
      BY <1>7 DEF Exit, StopLoop
    <3>1. queue'[b] = queue[b]
      BY <1>7 DEF Exit, StopLoop
    <3> QED
      BY <3>1
  <2> QED
    BY <1>7, <2>1 DEF Exit, StopLoop
<1>8. ASSUME NEW a \in Agents, TakeMessage(a)
      PROVE  Own'
  <2>1. QueueIsOwn'
    <3> SUFFICES ASSUME NEW b \in Agents, NEW i \in 1 .. Len(queue'[b])
                 PROVE  target[queue'[b][i].request] = b
      BY <1>8 DEF TakeMessage
    <3>1. CASE b # a
      <4>1. queue'[b] = queue[b]
        BY <1>8, <3>1 DEF TakeMessage
      <4> QED
        BY <4>1
    <3>2. CASE b = a
      <4>1. queue'[a] = Tail(queue[a]) /\ queue[a] # <<>>
        BY <1>8 DEF TakeMessage
      <4>2. i + 1 \in 1 .. Len(queue[a]) /\ queue'[a][i] = queue[a][i + 1]
        BY <3>2, <4>1, TailElement
      <4> QED
        BY <3>2, <4>2
    <3> QED
      BY <3>1, <3>2
  <2>2. target[Head(queue[a]).request] = a
    BY <1>8, HeadElement DEF TakeMessage
  <2> QED
    BY <1>8, <2>1, <2>2 DEF TakeMessage
<1>9. ASSUME NEW a \in Agents, BeginMessage(a)
      PROVE  Own'
  <2>1. UNCHANGED <<call, target, queue, msg, workers, agentRequestIds, found>>
    BY <1>9 DEF BeginMessage
  <2>2. RequestIdIsOwn'
    <3>1. msg[a] # None
      BY <1>9 DEF BeginMessage
    <3>2. requestId' \in {requestId, [requestId EXCEPT ![a] = msg[a].request]}
      BY <1>9 DEF BeginMessage
    <3> QED
      BY <2>1, <3>1, <3>2, ZenonT(40)
  <2> QED
    BY <2>1, <2>2
<1>10. ASSUME NEW a \in Agents, StoreRequestId(a)
      PROVE  Own'
  BY <1>10 DEF StoreRequestId, Stored
<1>11. ASSUME NEW a \in Agents, StartWorker(a)
      PROVE  Own'
  BY <1>11 DEF StartWorker
<1>12. ASSUME NEW a \in Agents, LookUpRequest(a)
      PROVE  Own'
  BY <1>12 DEF LookUpRequest, Entry
<1>13. ASSUME NEW a \in Agents, FinalResult(a)
      PROVE  Own'
  BY <1>13 DEF FinalResult
<1>14. ASSUME NEW a \in Agents, GuestReturns(a)
      PROVE  Own'
  BY <1>14 DEF GuestReturns
<1>15. ASSUME NEW a \in Agents, GuestFails(a)
      PROVE  Own'
  BY <1>15 DEF GuestFails
<1>16. ASSUME NEW a \in Agents, ReportError(a)
      PROVE  Own'
  <2>1. UNCHANGED <<call, target, queue, workers, requestId, agentRequestIds, found>>
    BY <1>16 DEF ReportError
  <2>2. msg' \in {msg, [msg EXCEPT ![a] = None]}
    BY <1>16 DEF ReportError
  <2>3. MsgIsOwn'
    BY <2>1, <2>2
  <2> QED
    BY <2>1, <2>3
<1>17. ASSUME NEW a \in Agents, Unmap(a)
      PROVE  Own'
  BY <1>17 DEF Unmap, Unmapped
<1>18. ASSUME NEW w \in workers, WorkerSends(w)
      PROVE  Own'
  <2>1. QueueIsOwn'
    <3> SUFFICES ASSUME NEW a \in Agents, NEW i \in 1 .. Len(queue'[a])
                 PROVE  target[queue'[a][i].request] = a
      BY <1>18 DEF WorkerSends
    <3>1. CASE queue'[a] = queue[a]
      BY <3>1
    <3>2. CASE queue'[a] # queue[a]
      <4> DEFINE m == [kind |-> "callback", request |-> w.request]
      <4>1. a = w.agent /\ queue'[a] = Append(queue[a], m)
        BY <1>18, <3>2 DEF WorkerSends
      <4>2. m \in Message
        BY DEF Message, Worker
      <4>3. queue[a] \in Seq(Message) /\ i \in 1 .. Len(Append(queue[a], m))
        BY <4>1
      <4>4. \/ Append(queue[a], m)[i] = m
            \/ i \in 1 .. Len(queue[a]) /\ Append(queue[a], m)[i] = queue[a][i]
        BY <4>2, <4>3, AppendElement
      <4> QED
        BY <4>1, <4>4
    <3> QED
      BY <3>1, <3>2
  <2> QED
    BY <1>18, <2>1 DEF WorkerSends
<1>19. ASSUME SignalShutdown
      PROVE  Own'
  BY <1>19 DEF SignalShutdown
<1>20. CASE Terminated
  BY <1>20 DEF Terminated, vars
<1>21. CASE UNCHANGED vars
  BY <1>21 DEF vars
<1> QED
  BY <1>1, <1>2, <1>3, <1>4, <1>5, <1>6, <1>7, <1>8, <1>9, <1>10, <1>11,
     <1>12, <1>13, <1>14, <1>15, <1>16, <1>17, <1>18, <1>19, <1>20, <1>21
     DEF Next, Step, HandlerStep, LoopStep

-----------------------------------------------------------------------------
(* The invariants that ownership supports.                                   *)

IInv == TypeInv /\ Own /\ Kept

LEMMA KeptInit == Init => Kept
BY NoneAssumption DEF Init, Kept, StoresItsRequest, AnswerTakesSender, AgentIsolation,
                      MapFollowsAgent, ActiveRequestIsMapped

\* Only the request that is answered sees its response change, its sender is
\* taken, and the answer carries the agent.
LEMMA PostEffect ==
  ASSUME TypeOK, NEW a \in Agents, NEW r, Post(a, r)
  PROVE  /\ responseChannels' = responseChannels \ {r}
         /\ \A x \in Requests : response'[x] # response[x] =>
              x = r /\ r \in responseChannels /\ response'[x].agent = a
<1>1. responseChannels' = responseChannels \ {r}
  BY DEF Post
<1>2. ASSUME NEW x \in Requests, response'[x] # response[x]
      PROVE  x = r /\ r \in responseChannels /\ response'[x].agent = a
  <2> DEFINE answer == [agent |-> a, work |-> msg[a].request]
  <2>1. r \in responseChannels /\ response' = [response EXCEPT ![r] = answer]
    BY <1>2 DEF Post
  <2>2. x = r /\ response'[x] = answer
    BY <1>2, <2>1 DEF TypeOK
  <2> QED
    BY <2>1, <2>2
<1> QED
  BY <1>1, <1>2

LEMMA KeptStep ==
  TypeInv /\ TypeInv' /\ Own /\ Own' /\ Kept /\ [Next]_vars => Kept'
<1> SUFFICES ASSUME TypeInv, TypeInv', Own, Own', Kept, [Next]_vars PROVE Kept'
  OBVIOUS
<1> USE NoneAssumption DEF TypeInv, TypeOK, HasMessage, handlerVars, loopVars,
      Kept, StoresItsRequest, AnswerTakesSender, AgentIsolation, MapFollowsAgent,
      ActiveRequestIsMapped
<1>1. ASSUME NEW r \in Requests, NEW t \in Tools, RejectCall(r, t)
      PROVE  Kept'
  BY <1>1 DEF RejectCall
<1>2. ASSUME NEW r \in Requests, NEW t \in Tools, OpenCall(r, t)
      PROVE  Kept'
  <2>1. target[r] = None
    BY <1>2 DEF OpenCall, Own, IdleHasNoTarget
  <2>2. response[r] = None
    <3> SUFFICES ASSUME response[r] # None PROVE FALSE
      OBVIOUS
    <3>1. response[r].agent \in Agents
      BY DEF Response
    <3> QED
      BY <2>1, <3>1
  <2>3. \A a \in Agents : requestId[a] # r
    <3> SUFFICES ASSUME NEW a \in Agents, requestId[a] = r PROVE FALSE
      OBVIOUS
    <3>1. r # None
      OBVIOUS
    <3>2. target[r] = a
      BY <3>1 DEF Own, RequestIdIsOwn
    <3> QED
      BY <2>1, <3>2
  <2>4. AnswerTakesSender' /\ AgentIsolation'
    BY <1>2, <2>2 DEF OpenCall
  <2>5. ActiveRequestIsMapped'
    BY <1>2, <2>3 DEF OpenCall
  <2> QED
    BY <1>2, <2>4, <2>5 DEF OpenCall
<1>3. ASSUME NEW r \in Requests, SendCall(r)
      PROVE  Kept'
  BY <1>3 DEF SendCall
<1>4. ASSUME NEW r \in Requests, Receive(r)
      PROVE  Kept'
  BY <1>4 DEF Receive
<1>5. ASSUME NEW r \in Requests, CleanUp(r)
      PROVE  Kept'
  BY <1>5 DEF CleanUp, ForgetRequest
<1>6. ASSUME NEW r \in Requests, Timeout(r)
      PROVE  Kept'
  BY <1>6 DEF Timeout
<1>7. ASSUME NEW a \in Agents, Exit(a)
      PROVE  Kept'
  BY <1>7 DEF Exit, StopLoop
<1>8. ASSUME NEW a \in Agents, TakeMessage(a)
      PROVE  Kept'
  BY <1>8 DEF TakeMessage
<1>9. ASSUME NEW a \in Agents, BeginMessage(a)
      PROVE  Kept'
  <2>1. UNCHANGED <<target, response, responseChannels, agentRequestIds, msg>>
    BY <1>9 DEF BeginMessage
  <2>2. CASE msg[a].kind = "mcp_request"
    <3>1. /\ requestId' = [requestId EXCEPT ![a] = msg[a].request]
          /\ pc' = [pc EXCEPT ![a] = "store"]
      BY <1>9, <2>2 DEF BeginMessage
    <3> QED
      BY <2>1, <3>1
  <2>3. CASE msg[a].kind # "mcp_request"
    <3>1. /\ requestId' = requestId
          /\ pc[a] = "taken" /\ pc' = [pc EXCEPT ![a] = "guest"]
      BY <1>9, <2>3 DEF BeginMessage
    <3> QED
      BY <2>1, <3>1
  <2> QED
    BY <2>2, <2>3
<1>10. ASSUME NEW a \in Agents, StoreRequestId(a)
      PROVE  Kept'
  BY <1>10 DEF StoreRequestId, Stored
<1>11. ASSUME NEW a \in Agents, StartWorker(a)
      PROVE  Kept'
  BY <1>11 DEF StartWorker
<1>12. ASSUME NEW a \in Agents, LookUpRequest(a)
      PROVE  Kept'
  BY <1>12 DEF LookUpRequest
<1>13. ASSUME NEW a \in Agents, FinalResult(a)
      PROVE  Kept'
  <2>1. found[a] = None \/ target[found[a]] = a
    BY DEF Own, FoundIsOwn
  <2>2. AnswerTakesSender' /\ AgentIsolation'
    BY <1>13, <2>1, PostEffect DEF FinalResult
  <2>3. responseChannels' \subseteq responseChannels
    BY <1>13, PostEffect DEF FinalResult
  <2> QED
    BY <1>13, <2>2, <2>3 DEF FinalResult
<1>14. ASSUME NEW a \in Agents, GuestReturns(a)
      PROVE  Kept'
  BY <1>14 DEF GuestReturns
<1>15. ASSUME NEW a \in Agents, GuestFails(a)
      PROVE  Kept'
  BY <1>15 DEF GuestFails
<1>16. ASSUME NEW a \in Agents, ReportError(a)
      PROVE  Kept'
  <2>1. CASE requestId[a] = None
    <3>1. UNCHANGED <<target, response, responseChannels, agentRequestIds, requestId>>
      BY <1>16, <2>1 DEF ReportError
    <3>2. pc[a] = "failed" /\ pc' = [pc EXCEPT ![a] = "poll"]
      BY <1>16, <2>1 DEF ReportError
    <3>3. \A b \in Agents : pc'[b] = "store" => pc[b] = "store" /\ msg'[b] = msg[b]
      BY <1>16, <2>1, <3>2 DEF ReportError
    <3>4. \A b \in Agents : pc[b] = "store" => pc'[b] = "store"
      BY <3>2
    <3> QED
      BY <3>1, <3>3, <3>4
  <2>2. CASE requestId[a] # None
    <3>1. target[requestId[a]] = a
      BY <2>2 DEF Own, RequestIdIsOwn
    <3>2. AnswerTakesSender' /\ AgentIsolation'
      BY <1>16, <2>2, <3>1, PostEffect DEF ReportError
    <3>3. responseChannels' \subseteq responseChannels
      BY <1>16, <2>2, PostEffect DEF ReportError
    <3> QED
      BY <1>16, <2>2, <3>2, <3>3 DEF ReportError
  <2> QED
    BY <2>1, <2>2
<1>17. ASSUME NEW a \in Agents, Unmap(a)
      PROVE  Kept'
  BY <1>17 DEF Unmap, Unmapped
<1>18. ASSUME NEW w \in workers, WorkerSends(w)
      PROVE  Kept'
  BY <1>18 DEF WorkerSends
<1>19. ASSUME SignalShutdown
      PROVE  Kept'
  BY <1>19 DEF SignalShutdown
<1>20. CASE Terminated
  BY <1>20 DEF Terminated, vars
<1>21. CASE UNCHANGED vars
  BY <1>21 DEF vars
<1> QED
  BY <1>1, <1>2, <1>3, <1>4, <1>5, <1>6, <1>7, <1>8, <1>9, <1>10, <1>11,
     <1>12, <1>13, <1>14, <1>15, <1>16, <1>17, <1>18, <1>19, <1>20, <1>21
     DEF Next, Step, HandlerStep, LoopStep

LEMMA Invariance == Spec => []IInv
<1>1. Init => IInv
  BY TypeInit, OwnInit, KeptInit DEF IInv
<1>2. IInv /\ [Next]_vars => IInv'
  BY TypeStep, OwnStep, KeptStep DEF IInv
<1> QED
  BY <1>1, <1>2, PTL DEF Spec

-----------------------------------------------------------------------------
(* A call is answered only by the agent it was sent to, however many agents  *)
(* share the response channels and the map of request ids.                   *)
THEOREM Isolation == Spec => []AgentIsolation
<1>1. IInv => AgentIsolation
  BY DEF IInv, Kept
<1> QED
  BY <1>1, Invariance, PTL

(* The map of request ids and agent.request_id agree outside the two         *)
(* assignments of the event loop.                                            *)
THEOREM MapAgreement == Spec => []MapFollowsAgent
<1>1. IInv => MapFollowsAgent
  BY DEF IInv, Kept
<1> QED
  BY <1>1, Invariance, PTL

(* FinalResult finds the request the agent works on as long as it can be     *)
(* answered: no cleanup of another request takes its entry away.             *)
THEOREM RequestIsFound == Spec => []ActiveRequestIsMapped
<1>1. IInv => ActiveRequestIsMapped
  BY DEF IInv, Kept
<1> QED
  BY <1>1, Invariance, PTL

\* No step replaces an answer.
LEMMA AnswerStep == IInv /\ [Next]_vars => AnswersStay
<1>1. ASSUME IInv, NEW a \in Agents, NEW r, Post(a, r)
      PROVE  AnswersStay
  <2>1. \A x \in Requests : response[x] # None => x \notin responseChannels
    BY <1>1 DEF IInv, Kept, AnswerTakesSender
  <2> QED
    BY <1>1, <2>1, PostEffect DEF AnswersStay, IInv, TypeInv
<1>2. ASSUME IInv, [Next]_vars
      PROVE  AnswersStay
  <2>1. ASSUME NEW a \in Agents, FinalResult(a) PROVE AnswersStay
    BY <1>1, <1>2, <2>1 DEF FinalResult
  <2>2. ASSUME NEW a \in Agents, ReportError(a) PROVE AnswersStay
    <3>1. CASE requestId[a] = None
      BY <2>2, <3>1 DEF ReportError, AnswersStay
    <3>2. CASE requestId[a] # None
      <4>1. Post(a, requestId[a])
        BY <2>2, <3>2 DEF ReportError
      <4> QED
        BY <1>1, <1>2, <4>1
    <3> QED
      BY <3>1, <3>2
  <2>3. ASSUME NEW r \in Requests, NEW t \in Tools,
               RejectCall(r, t) \/ OpenCall(r, t)
        PROVE  AnswersStay
    BY <2>3 DEF AnswersStay, RejectCall, OpenCall
  <2>4. ASSUME NEW r \in Requests, HandlerStep(r) \/ Timeout(r)
        PROVE  AnswersStay
    BY <2>4 DEF AnswersStay, HandlerStep, SendCall, Receive, CleanUp, Timeout
  <2>5. ASSUME NEW a \in Agents, LoopStep(a) PROVE AnswersStay
    BY <2>1, <2>2, <2>5 DEF AnswersStay, LoopStep, Exit, StopLoop, TakeMessage, BeginMessage,
         StoreRequestId, StartWorker, LookUpRequest, GuestReturns, GuestFails, Unmap
  <2>6. ASSUME NEW w \in workers, WorkerSends(w) PROVE AnswersStay
    BY <2>6 DEF AnswersStay, WorkerSends
  <2>7. CASE SignalShutdown \/ Terminated \/ UNCHANGED vars
    BY <2>7 DEF AnswersStay, SignalShutdown, Terminated, vars
  <2> QED
    BY <1>2, <2>3, <2>4, <2>5, <2>6, <2>7 DEF Next, Step
<1> QED
  BY <1>2

(* An answer is never replaced: taking the sender out of the map makes each  *)
(* channel one-shot, whichever agents and error paths use it.                *)
THEOREM AnswerIsFinal == Spec => OneAnswer
<1>1. IInv /\ [Next]_vars => [AnswersStay]_vars
  BY AnswerStep
<1> QED
  BY <1>1, Invariance, PTL DEF Spec, OneAnswer
=============================================================================

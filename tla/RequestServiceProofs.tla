------------------------ MODULE RequestServiceProofs ------------------------
(***************************************************************************)
(* AgentRequests implements RequestService, for any number of requests,    *)
(* agents and tools.                                                       *)
(*                                                                         *)
(* The step that matters is the receipt of an answer: the work it was made *)
(* of must have been accepted no later than the call it answers.  That is  *)
(* a fact about the order in which an agent goes through its queue, where  *)
(* requests and the callbacks of earlier ones are mixed.                   *)
(***************************************************************************)
EXTENDS AgentRequestsProofs

\* The requests an agent has taken out of its queue and may still answer for: those
\* of its workers and their callbacks, of the message in hand, and its request_id.
Work(a) ==
  {x \in Requests :
     \/ \E w \in workers : w.agent = a /\ w.request = x
     \/ \E i \in 1 .. Len(queue[a]) : queue[a][i].kind = "callback" /\ queue[a][i].request = x
     \/ msg[a] # None /\ msg[a].request = x
     \/ requestId[a] = x}

\* The i-th message in the queue is a request.
Asks(a, i) == queue[a][i].kind = "mcp_request"

\* The message in hand is a request that agent.request_id does not name yet.
Fresh(a) == pc[a] = "taken" /\ msg[a].kind = "mcp_request"

QueueInOrder(a) ==
  \A i, j \in 1 .. Len(queue[a]) :
    i < j /\ Asks(a, i) /\ Asks(a, j) => ticket[queue[a][i].request] < ticket[queue[a][j].request]

QueueIsAhead(a) ==
  \A i \in 1 .. Len(queue[a]) : Asks(a, i) =>
    /\ ticket[queue[a][i].request] >= 1
    /\ \A x \in Work(a) : ticket[x] < ticket[queue[a][i].request]

WorkIsSent(a) == \A x \in Work(a) : ticket[x] >= 1

\* Of all work of the agent the latest is the message in hand, or its request_id.
LatestIsKnown(a) ==
  /\ Fresh(a) => \A x \in Work(a) : ticket[x] <= ticket[msg[a].request]
  /\ pc[a] # "exited" /\ ~Fresh(a) /\ requestId[a] # None
       => \A x \in Work(a) : ticket[x] <= ticket[requestId[a]]

FoundIsLatest(a) == pc[a] = "final" /\ found[a] # None => found[a] = requestId[a]

AgentOrder(a) == /\ QueueInOrder(a) /\ QueueIsAhead(a) /\ WorkIsSent(a)
                 /\ LatestIsKnown(a) /\ FoundIsLatest(a)

\* A call has an agent once it is opened, and a ticket once its message was sent.
Tickets == \A r \in Requests :
             /\ ticket[r] <= issued
             /\ call[r] \in {"idle", "opened", "notFound", "sendFailed"} <=> ticket[r] = 0
             /\ call[r] \notin {"idle", "notFound"} => target[r] \in Agents

AnswersAreEarlier ==
  \A r \in Requests : response[r] # None =>
    /\ ticket[response[r].work] \in 1 .. ticket[r]
    /\ target[response[r].work] = target[r]

Order == (\A a \in Agents : AgentOrder(a)) /\ Tickets /\ AnswersAreEarlier

-----------------------------------------------------------------------------
LEMMA OrderInit == Init => Order
<1> SUFFICES ASSUME Init PROVE Order
  OBVIOUS
<1>1. ASSUME NEW a \in Agents PROVE AgentOrder(a)
  <2>1. Work(a) = {} /\ queue[a] = <<>> /\ pc[a] = "poll" /\ requestId[a] = None
    BY NoneAssumption DEF Init, Work
  <2> QED
    BY <2>1 DEF AgentOrder, QueueInOrder, QueueIsAhead, WorkIsSent, LatestIsKnown, FoundIsLatest,
                Fresh
<1>2. Tickets /\ AnswersAreEarlier
  BY DEF Init, Tickets, AnswersAreEarlier
<1> QED
  BY <1>1, <1>2 DEF Order

\* An agent that a step does not concern.
LEMMA OtherAgent ==
  ASSUME NEW a \in Agents, AgentOrder(a), UNCHANGED ticket,
         queue'[a] = queue[a], msg'[a] = msg[a], requestId'[a] = requestId[a],
         pc'[a] = pc[a], found'[a] = found[a],
         \A w \in workers' : w.agent = a => w \in workers
  PROVE  AgentOrder(a)'
<1>1. Work(a)' \subseteq Work(a)
  BY DEF Work
<1> QED
  BY <1>1 DEF AgentOrder, QueueInOrder, QueueIsAhead, WorkIsSent, LatestIsKnown, FoundIsLatest,
              Fresh, Asks

\* A step of an agent that begins nothing.
LEMMA SameWork ==
  ASSUME NEW a \in Agents, AgentOrder(a), UNCHANGED ticket,
         queue'[a] = queue[a], Work(a)' \subseteq Work(a), ~Fresh(a), ~Fresh(a)', pc[a] # "exited",
         requestId'[a] \in {requestId[a], None}, FoundIsLatest(a)'
  PROVE  AgentOrder(a)'
BY DEF AgentOrder, QueueInOrder, QueueIsAhead, WorkIsSent, LatestIsKnown, Asks

LEMMA AgentOrderStep ==
  ASSUME IInv, IInv', Order, [Next]_vars, NEW a \in Agents
  PROVE  AgentOrder(a)'
<1> USE NoneAssumption DEF handlerVars, loopVars
<1>1. AgentOrder(a) /\ Tickets
  BY DEF Order
<1>2. TypeOK /\ TypeOK'
  BY DEF IInv, TypeInv
<1>3. ASSUME UNCHANGED <<ticket, queue, loopVars, workers>> PROVE AgentOrder(a)'
  BY <1>1, <1>3, OtherAgent
<1>4. ASSUME NEW b \in Agents, b # a, LoopStep(b) PROVE AgentOrder(a)'
  <2>1. /\ UNCHANGED ticket /\ queue'[a] = queue[a] /\ msg'[a] = msg[a]
        /\ requestId'[a] = requestId[a] /\ pc'[a] = pc[a] /\ found'[a] = found[a]
        /\ \A w \in workers' : w.agent = a => w \in workers
    BY <1>2, <1>4 DEF LoopStep, Exit, StopLoop, TakeMessage, BeginMessage, StoreRequestId,
                      StartWorker, LookUpRequest, FinalResult, GuestReturns, GuestFails,
                      ReportError, Unmap, TypeOK
  <2> QED
    BY <1>1, <2>1, OtherAgent
<1>5. ASSUME NEW r \in Requests, NEW t \in Tools, RejectCall(r, t) \/ OpenCall(r, t)
      PROVE  AgentOrder(a)'
  BY <1>3, <1>5 DEF RejectCall, OpenCall
<1>6. ASSUME NEW r \in Requests, Receive(r) \/ CleanUp(r) \/ Timeout(r) PROVE AgentOrder(a)'
  BY <1>3, <1>6 DEF Receive, CleanUp, Timeout
<1>7. CASE SignalShutdown \/ Terminated \/ UNCHANGED vars
  BY <1>3, <1>7 DEF SignalShutdown, Terminated, vars
<1>8. CASE Exit(a)
  <2>1. queue'[a] = <<>> /\ msg'[a] = None /\ pc'[a] = "exited" /\ pc[a] \in {"poll", "taken"}
        /\ UNCHANGED <<ticket, requestId, workers>>
    BY <1>2, <1>8 DEF Exit, StopLoop, TypeOK
  <2>2. Work(a)' \subseteq Work(a) /\ ~Fresh(a)'
    BY <2>1 DEF Work, Fresh
  <2> QED
    BY <1>1, <2>1, <2>2 DEF AgentOrder, QueueInOrder, QueueIsAhead, WorkIsSent, LatestIsKnown,
                            FoundIsLatest
<1>9. CASE TakeMessage(a)
  <2>1. /\ queue[a] # <<>> /\ queue'[a] = Tail(queue[a]) /\ msg'[a] = Head(queue[a])
        /\ pc[a] = "poll" /\ pc'[a] = "taken" /\ requestId' = requestId
        /\ UNCHANGED <<ticket, workers>>
    BY <1>2, <1>9 DEF TakeMessage, TypeOK
  <2>2. queue[a] \in Seq(Message)
    BY <1>2 DEF TypeOK
  <2>3. /\ Len(queue[a]) \in Nat /\ Len(queue[a]) >= 1 /\ queue'[a] \in Seq(Message)
        /\ \A i \in 1 .. Len(queue'[a]) : i + 1 \in 2 .. Len(queue[a]) /\ queue'[a][i] = queue[a][i + 1]
    BY <2>1, <2>2, HeadTailProperties, LenProperties
  <2>4. msg'[a] = queue[a][1] /\ queue[a][1] \in Message
    BY <2>1, <2>2, <2>3, HeadElement
  <2>5. ~Fresh(a) /\ pc[a] # "exited"
    BY <2>1 DEF Fresh
  <2>6. ASSUME Asks(a, 1)
        PROVE  Work(a)' \subseteq Work(a) \cup {queue[a][1].request}
    BY <2>1, <2>3, <2>4, <2>6 DEF Work
  <2>7. ASSUME ~Asks(a, 1)
        PROVE  Work(a)' \subseteq Work(a)
    <3>1. queue[a][1].kind = "callback"
      BY <2>4, <2>7 DEF Asks, Message
    <3>2. ASSUME NEW x \in Work(a)' PROVE x \in Work(a)
      <4>1. CASE \E w \in workers' : w.agent = a /\ w.request = x
        BY <2>1, <4>1 DEF Work
      <4>2. CASE requestId'[a] = x
        BY <2>1, <4>2 DEF Work
      <4>3. CASE msg'[a].request = x
        <5>1. 1 \in 1 .. Len(queue[a])
          BY <2>3
        <5> QED
          BY <2>4, <3>1, <4>3, <5>1 DEF Work, Message
      <4>4. ASSUME NEW i \in 1 .. Len(queue'[a]),
                   queue'[a][i].kind = "callback" /\ queue'[a][i].request = x
            PROVE  x \in Work(a)
        <5>1. i + 1 \in 1 .. Len(queue[a])
          BY <2>3
        <5> QED
          BY <2>3, <4>4, <5>1 DEF Work
      <4> QED
        BY <3>2, <4>1, <4>2, <4>3, <4>4 DEF Work
    <3> QED
      BY <3>2
  <2>8. \A i \in 1 .. Len(queue'[a]) : Asks(a, i)' <=> Asks(a, i + 1)
    BY <2>3 DEF Asks
  <2>9. QueueInOrder(a)'
    BY <1>1, <2>1, <2>3, <2>8 DEF AgentOrder, QueueInOrder
  <2>10. ASSUME Asks(a, 1)
         PROVE  QueueIsAhead(a)' /\ WorkIsSent(a)' /\ LatestIsKnown(a)'
    <3>1. 1 \in 1 .. Len(queue[a]) /\ Fresh(a)'
      BY <2>1, <2>3, <2>4, <2>10 DEF Asks, Fresh
    <3>2. QueueIsAhead(a)'
      BY <1>1, <2>1, <2>3, <2>6, <2>8, <2>10, <3>1, SMTT(30)
         DEF AgentOrder, QueueIsAhead, QueueInOrder
    <3>3. WorkIsSent(a)'
      BY <1>1, <2>1, <2>6, <2>10, <3>1 DEF AgentOrder, QueueIsAhead, WorkIsSent
    <3>4. \A x \in Work(a)' : ticket[x] <= ticket[queue[a][1].request]
      <4>1. ticket[queue[a][1].request] \in Nat
        BY <1>2, <2>4 DEF TypeOK, Message
      <4>2. \A x \in Work(a) : ticket[x] \in Nat
        BY <1>2 DEF TypeOK, Work
      <4> QED
        BY <1>1, <2>6, <2>10, <3>1, <4>1, <4>2 DEF AgentOrder, QueueIsAhead
    <3> QED
      BY <2>1, <2>4, <3>1, <3>2, <3>3, <3>4 DEF LatestIsKnown
  <2>11. ASSUME ~Asks(a, 1)
         PROVE  QueueIsAhead(a)' /\ WorkIsSent(a)' /\ LatestIsKnown(a)'
    <3>1. ~Fresh(a)'
      BY <2>4, <2>11 DEF Fresh, Asks
    <3>2. QueueIsAhead(a)'
      BY <1>1, <2>1, <2>3, <2>7, <2>8, <2>11 DEF AgentOrder, QueueIsAhead
    <3> QED
      BY <1>1, <2>1, <2>5, <2>7, <2>11, <3>1, <3>2 DEF AgentOrder, WorkIsSent, LatestIsKnown
  <2> QED
    BY <2>1, <2>9, <2>10, <2>11 DEF AgentOrder, FoundIsLatest
<1>10. CASE BeginMessage(a)
  <2>1. /\ pc[a] = "taken" /\ msg[a] # None /\ msg[a] \in Message
        /\ UNCHANGED <<ticket, queue, msg, workers, found>>
    BY <1>2, <1>10 DEF BeginMessage, IInv, TypeInv, HasMessage, TypeOK
  <2>2. CASE msg[a].kind = "mcp_request"
    <3>1. requestId'[a] = msg[a].request /\ pc'[a] = "store"
      BY <1>2, <1>10, <2>2 DEF BeginMessage, TypeOK
    <3>2. Fresh(a) /\ ~Fresh(a)'
      BY <2>1, <2>2, <3>1 DEF Fresh
    <3>3. Work(a)' \subseteq Work(a)
      BY <2>1, <3>1 DEF Work
    <3> QED
      BY <1>1, <2>1, <3>1, <3>2, <3>3
         DEF AgentOrder, QueueInOrder, QueueIsAhead, WorkIsSent, LatestIsKnown, FoundIsLatest, Asks
  <2>3. CASE msg[a].kind # "mcp_request"
    <3>1. requestId' = requestId /\ pc'[a] = "guest"
      BY <1>2, <1>10, <2>3 DEF BeginMessage, TypeOK
    <3>2. ~Fresh(a) /\ ~Fresh(a)' /\ Work(a)' \subseteq Work(a)
      BY <2>1, <2>3, <3>1 DEF Fresh, Work
    <3> QED
      BY <1>1, <2>1, <3>1, <3>2, SameWork DEF FoundIsLatest, TypeOK
  <2> QED
    BY <2>2, <2>3
<1>11. ASSUME StoreRequestId(a) \/ GuestReturns(a) \/ GuestFails(a) \/ FinalResult(a) \/ Unmap(a)
              \/ ReportError(a)
       PROVE  AgentOrder(a)'
  <2>1. /\ UNCHANGED <<ticket, queue, workers>>
        /\ pc[a] \notin {"taken", "exited"} /\ pc'[a] \notin {"taken", "final"}
        /\ msg'[a] \in {msg[a], None} /\ requestId'[a] \in {requestId[a], None}
    BY <1>2, <1>11 DEF StoreRequestId, GuestReturns, GuestFails, FinalResult, Unmap, ReportError,
                       TypeOK
  <2>2. ~Fresh(a) /\ ~Fresh(a)' /\ Work(a)' \subseteq Work(a) /\ FoundIsLatest(a)'
    BY <2>1 DEF Fresh, Work, FoundIsLatest
  <2> QED
    BY <1>1, <2>1, <2>2, SameWork
<1>12. CASE LookUpRequest(a)
  <2>1. /\ UNCHANGED <<ticket, queue, workers, msg, requestId>>
        /\ pc[a] = "guest" /\ pc'[a] = "final" /\ found'[a] = agentRequestIds[a]
    BY <1>2, <1>12 DEF LookUpRequest, Entry, TypeOK
  <2>2. agentRequestIds[a] \in {None, requestId[a]}
    BY <2>1 DEF IInv, Kept, MapFollowsAgent
  <2>3. ~Fresh(a) /\ ~Fresh(a)' /\ Work(a)' \subseteq Work(a) /\ FoundIsLatest(a)'
    BY <2>1, <2>2 DEF Fresh, Work, FoundIsLatest
  <2> QED
    BY <1>1, <2>1, <2>3, SameWork
<1>13. CASE StartWorker(a)
  <2>1. /\ UNCHANGED <<ticket, queue, msg, requestId>>
        /\ pc[a] = "guest" /\ pc'[a] = "returned" /\ msg[a] # None
        /\ workers' = workers \cup {[agent |-> a, request |-> msg[a].request]}
    BY <1>2, <1>13 DEF StartWorker, TypeOK, IInv, TypeInv, HasMessage
  <2>2. ~Fresh(a) /\ ~Fresh(a)' /\ Work(a)' \subseteq Work(a) /\ FoundIsLatest(a)'
    BY <2>1 DEF Fresh, Work, FoundIsLatest
  <2> QED
    BY <1>1, <2>1, <2>2, SameWork
<1>14. ASSUME NEW r \in Requests, SendCall(r) PROVE AgentOrder(a)'
  <2>1. CASE UNCHANGED <<ticket, queue>>
    BY <1>3, <1>14, <2>1 DEF SendCall
  <2>2. CASE ~UNCHANGED <<ticket, queue>>
    <3> DEFINE m == [kind |-> "mcp_request", request |-> r]
    <3>1. /\ call[r] = "opened" /\ UNCHANGED <<requestId, pc, msg, found, workers>>
          /\ ticket' = [ticket EXCEPT ![r] = issued + 1]
          /\ queue' = [queue EXCEPT ![target[r]] = Append(@, m)]
      BY <1>14, <2>2 DEF SendCall
    <3>2. ticket[r] = 0 /\ m \in Message
      BY <1>1, <3>1 DEF Tickets, Message
    <3>3. \A x \in Requests : /\ ticket[x] \in Nat /\ ticket[x] <= issued /\ issued \in Nat
                              /\ x # r => ticket'[x] = ticket[x]
      BY <1>1, <1>2, <3>1 DEF TypeOK, Tickets
    <3>4. ticket'[r] = issued + 1
      BY <1>2, <3>1 DEF TypeOK
    <3>5. /\ queue[a] \in Seq(Message) /\ queue'[a] \in Seq(Message)
          /\ Len(queue[a]) \in Nat
          /\ \A i \in 1 .. Len(queue[a]) : queue[a][i] \in Message
      BY <1>2, LenProperties, ElementOfSeq DEF TypeOK
    <3>6. \A i \in 1 .. Len(queue'[a]) :
            \/ i \in 1 .. Len(queue[a]) /\ queue'[a][i] = queue[a][i]
            \/ i = Len(queue[a]) + 1 /\ queue'[a][i] = m
      <4>1. CASE queue'[a] = queue[a]
        BY <4>1
      <4>2. CASE queue'[a] = Append(queue[a], m)
        BY <3>2, <3>5, <4>2, AppendProperties
      <4> QED
        BY <1>2, <3>1, <4>1, <4>2 DEF TypeOK
    <3>7. Work(a)' \subseteq Work(a)
      BY <3>1, <3>6 DEF Work
    <3>8. \A x \in Work(a) : x \in Requests /\ x # r /\ ticket'[x] = ticket[x]
      BY <1>1, <3>2, <3>3 DEF AgentOrder, WorkIsSent, Work
    <3>9. \A i \in 1 .. Len(queue[a]) : Asks(a, i) =>
            queue[a][i].request # r /\ ticket'[queue[a][i].request] = ticket[queue[a][i].request]
      <4> SUFFICES ASSUME NEW i \in 1 .. Len(queue[a]), Asks(a, i)
                   PROVE  /\ queue[a][i].request # r
                          /\ ticket'[queue[a][i].request] = ticket[queue[a][i].request]
        OBVIOUS
      <4>1. ticket[queue[a][i].request] >= 1 /\ queue[a][i].request \in Requests
        BY <1>1, <3>5 DEF AgentOrder, QueueIsAhead, Message
      <4> QED
        BY <3>2, <3>3, <4>1
    <3>10. QueueInOrder(a)'
      <4> SUFFICES ASSUME NEW i \in 1 .. Len(queue'[a]), NEW j \in 1 .. Len(queue'[a]),
                          i < j, Asks(a, i)', Asks(a, j)'
                   PROVE  ticket'[queue'[a][i].request] < ticket'[queue'[a][j].request]
        BY DEF QueueInOrder
      <4>1. i \in 1 .. Len(queue[a]) /\ queue'[a][i] = queue[a][i]
        <5>1. i # Len(queue[a]) + 1
          BY <3>5, <3>6
        <5> QED
          BY <3>6, <5>1
      <4>2. Asks(a, i) /\ queue[a][i].request \in Requests
        BY <3>5, <4>1 DEF Asks, Message
      <4>3. CASE j \in 1 .. Len(queue[a]) /\ queue'[a][j] = queue[a][j]
        BY <1>1, <3>9, <4>1, <4>2, <4>3 DEF AgentOrder, QueueInOrder, Asks
      <4>4. CASE queue'[a][j] = m
        BY <3>3, <3>4, <3>9, <4>1, <4>2, <4>4
      <4> QED
        BY <3>6, <4>3, <4>4
    <3>11. QueueIsAhead(a)'
      <4> SUFFICES ASSUME NEW i \in 1 .. Len(queue'[a]), Asks(a, i)'
                   PROVE  /\ ticket'[queue'[a][i].request] >= 1
                          /\ \A x \in Work(a)' : ticket'[x] < ticket'[queue'[a][i].request]
        BY DEF QueueIsAhead
      <4>1. CASE i \in 1 .. Len(queue[a]) /\ queue'[a][i] = queue[a][i]
        BY <1>1, <3>7, <3>8, <3>9, <4>1 DEF AgentOrder, QueueIsAhead, Asks
      <4>2. CASE queue'[a][i] = m
        BY <3>3, <3>4, <3>7, <3>8, <4>2
      <4> QED
        BY <3>6, <4>1, <4>2
    <3>12. WorkIsSent(a)'
      BY <1>1, <3>7, <3>8 DEF AgentOrder, WorkIsSent
    <3>13. LatestIsKnown(a)'
      <4>1. Fresh(a)' <=> Fresh(a)
        BY <3>1 DEF Fresh
      <4>2. ASSUME Fresh(a) PROVE msg[a].request \in Work(a)
        <5>1. msg[a] # None /\ msg[a] \in Message
          BY <4>2, <1>2 DEF Fresh, IInv, TypeInv, HasMessage, TypeOK
        <5> QED
          BY <5>1 DEF Work, Message
      <4>3. ASSUME requestId[a] # None PROVE requestId[a] \in Work(a)
        BY <1>2, <4>3 DEF Work, TypeOK
      <4> QED
        BY <1>1, <3>1, <3>7, <3>8, <4>1, <4>2, <4>3 DEF AgentOrder, LatestIsKnown
    <3>14. FoundIsLatest(a)'
      BY <1>1, <3>1 DEF AgentOrder, FoundIsLatest
    <3> QED
      BY <3>10, <3>11, <3>12, <3>13, <3>14 DEF AgentOrder
  <2> QED
    BY <2>1, <2>2
<1>15. ASSUME NEW w \in workers, WorkerSends(w) PROVE AgentOrder(a)'
  <2> DEFINE m == [kind |-> "callback", request |-> w.request]
  <2>1. /\ UNCHANGED <<requestId, pc, msg, found, ticket>>
        /\ workers' = workers \ {w}
        /\ queue' \in {queue, [queue EXCEPT ![w.agent] = Append(@, m)]}
    BY <1>15 DEF WorkerSends
  <2>2. CASE queue'[a] = queue[a]
    BY <1>1, <2>1, <2>2, OtherAgent
  <2>3. CASE queue'[a] # queue[a]
    <3>1. w.agent = a /\ queue'[a] = Append(queue[a], m)
      BY <1>2, <2>1, <2>3 DEF TypeOK
    <3>2. w.request \in Requests /\ m \in Message /\ queue[a] \in Seq(Message)
      BY <1>2 DEF TypeOK, Worker, Message
    <3>3. w.request \in Work(a)
      BY <3>1, <3>2 DEF Work
    <3>4. \A i \in 1 .. Len(queue'[a]) :
            \/ i \in 1 .. Len(queue[a]) /\ queue'[a][i] = queue[a][i]
            \/ queue'[a][i] = m
      BY <3>1, <3>2, AppendProperties
    <3>5. Work(a)' \subseteq Work(a)
      BY <2>1, <3>3, <3>4 DEF Work
    <3>6. \A i \in 1 .. Len(queue'[a]) : Asks(a, i)' =>
            i \in 1 .. Len(queue[a]) /\ queue'[a][i] = queue[a][i] /\ Asks(a, i)
      BY <3>4 DEF Asks
    <3>7. QueueInOrder(a)' /\ QueueIsAhead(a)'
      BY <1>1, <2>1, <3>5, <3>6 DEF AgentOrder, QueueInOrder, QueueIsAhead
    <3> QED
      BY <1>1, <2>1, <3>5, <3>7 DEF AgentOrder, WorkIsSent, LatestIsKnown, FoundIsLatest, Fresh
  <2> QED
    BY <2>2, <2>3
<1> QED
  BY <1>4, <1>5, <1>6, <1>7, <1>8, <1>9, <1>10, <1>11, <1>12, <1>13, <1>14, <1>15
     DEF Next, Step, HandlerStep, LoopStep

-----------------------------------------------------------------------------
LEMMA TicketsStep ==
  ASSUME IInv, Order, [Next]_vars
  PROVE  Tickets'
<1> USE DEF handlerVars, loopVars
<1>1. TypeOK /\ Tickets
  BY DEF IInv, TypeInv, Order
<1>2. CASE UNCHANGED <<call, target, ticket, issued>>
  BY <1>1, <1>2 DEF Tickets
<1>3. ASSUME NEW r \in Requests, NEW t \in Tools, RejectCall(r, t) \/ OpenCall(r, t)
      PROVE  Tickets'
  BY <1>1, <1>3 DEF RejectCall, OpenCall, Tickets, TypeOK
<1>4. ASSUME NEW r \in Requests, SendCall(r) PROVE Tickets'
  <2>1. CASE pc[target[r]] = "exited"
    BY <1>1, <1>4, <2>1 DEF SendCall, Tickets, TypeOK
  <2>2. CASE pc[target[r]] # "exited"
    <3>1. /\ call' = [call EXCEPT ![r] = "waiting"] /\ issued' = issued + 1
          /\ call[r] = "opened" /\ UNCHANGED target
          /\ ticket' = [ticket EXCEPT ![r] = issued + 1]
      BY <1>4, <2>2 DEF SendCall
    <3> QED
      BY <1>1, <3>1 DEF Tickets, TypeOK
  <2> QED
    BY <2>1, <2>2
<1>5. ASSUME NEW r \in Requests, Receive(r) \/ CleanUp(r) \/ Timeout(r) PROVE Tickets'
  BY <1>1, <1>5 DEF Receive, CleanUp, Timeout, Tickets, TypeOK
<1>6. ASSUME NEW a \in Agents, LoopStep(a) PROVE UNCHANGED <<call, target, ticket, issued>>
  BY <1>6 DEF LoopStep, Exit, StopLoop, TakeMessage, BeginMessage, StoreRequestId, StartWorker,
              LookUpRequest, FinalResult, GuestReturns, GuestFails, ReportError, Unmap
<1>7. ASSUME NEW w \in workers, WorkerSends(w) PROVE UNCHANGED <<call, target, ticket, issued>>
  BY <1>7 DEF WorkerSends
<1>8. CASE SignalShutdown \/ Terminated \/ UNCHANGED vars
  BY <1>2, <1>8 DEF SignalShutdown, Terminated, vars
<1> QED
  BY <1>2, <1>3, <1>4, <1>5, <1>6, <1>7, <1>8 DEF Next, Step, HandlerStep

\* What an agent posts is made of work no later than its request_id.
LEMMA PostIsEarlier ==
  ASSUME IInv, Order, UNCHANGED <<ticket, target>>, NEW a \in Agents,
         pc[a] \in {"final", "failed"}, requestId[a] # None, Post(a, requestId[a])
  PROVE  AnswersAreEarlier'
<1> DEFINE x == msg[a].request
<1>1. TypeOK /\ msg[a] # None /\ msg[a] \in Message
  BY DEF IInv, TypeInv, HasMessage, TypeOK
<1>2. x \in Work(a) /\ requestId[a] \in Requests
  BY <1>1 DEF Work, Message, TypeOK
<1>3. target[x] = a /\ target[requestId[a]] = a
  BY <1>1 DEF IInv, Own, MsgIsOwn, RequestIdIsOwn
<1>4. 1 <= ticket[x] /\ ticket[x] <= ticket[requestId[a]]
  <2>1. ~Fresh(a)
    BY DEF Fresh
  <2> QED
    BY <1>2, <2>1 DEF Order, AgentOrder, WorkIsSent, LatestIsKnown
<1>5. ticket[x] \in 1 .. ticket[requestId[a]]
  BY <1>1, <1>2, <1>4 DEF TypeOK, Work
<1>6. \A r \in Requests : \/ response'[r] = response[r]
                          \/ r = requestId[a] /\ response'[r].work = x
  BY <1>1 DEF Post, TypeOK
<1> QED
  BY <1>3, <1>5, <1>6 DEF Order, AnswersAreEarlier

LEMMA AnswersStep ==
  ASSUME IInv, Order, [Next]_vars
  PROVE  AnswersAreEarlier'
<1> USE NoneAssumption DEF handlerVars, loopVars
<1>1. TypeOK /\ Tickets /\ AnswersAreEarlier
  BY DEF IInv, TypeInv, Order
<1>2. CASE UNCHANGED <<response, ticket, target>>
  BY <1>1, <1>2 DEF AnswersAreEarlier
<1>3. ASSUME NEW r \in Requests,
             /\ UNCHANGED response /\ ticket[r] = 0
             /\ \A x \in Requests \ {r} : ticket'[x] = ticket[x] /\ target'[x] = target[x]
      PROVE  AnswersAreEarlier'
  <2> SUFFICES ASSUME NEW x \in Requests, response'[x] # None
               PROVE  /\ ticket'[response'[x].work] \in 1 .. ticket'[x]
                      /\ target'[response'[x].work] = target'[x]
    BY DEF AnswersAreEarlier
  <2>1. response[x] \in Response /\ response'[x] = response[x]
    BY <1>1, <1>3 DEF TypeOK
  <2>2. response[x].work \in Requests
    BY <2>1 DEF Response
  <2>3. ticket[response[x].work] \in 1 .. ticket[x] /\ target[response[x].work] = target[x]
    BY <1>1, <2>1 DEF AnswersAreEarlier
  <2>4. x # r /\ response[x].work # r
    BY <1>3, <2>3
  <2> QED
    BY <1>3, <2>1, <2>2, <2>3, <2>4
<1>4. ASSUME NEW r \in Requests, NEW t \in Tools, RejectCall(r, t) \/ OpenCall(r, t)
      PROVE  AnswersAreEarlier'
  <2>1. UNCHANGED <<response, ticket>> /\ call[r] = "idle"
    BY <1>4 DEF RejectCall, OpenCall
  <2>2. \A x \in Requests \ {r} : target'[x] = target[x]
    BY <1>1, <1>4 DEF RejectCall, OpenCall, TypeOK
  <2> QED
    BY <1>1, <1>3, <2>1, <2>2 DEF Tickets
<1>5. ASSUME NEW r \in Requests, SendCall(r) PROVE AnswersAreEarlier'
  <2>1. UNCHANGED <<response, target>> /\ call[r] = "opened"
    BY <1>5 DEF SendCall
  <2>2. \A x \in Requests \ {r} : ticket'[x] = ticket[x]
    BY <1>1, <1>5 DEF SendCall, TypeOK
  <2> QED
    BY <1>1, <1>3, <2>1, <2>2 DEF Tickets
<1>6. ASSUME NEW r \in Requests, Receive(r) \/ CleanUp(r) \/ Timeout(r)
      PROVE  UNCHANGED <<response, ticket, target>>
  BY <1>6 DEF Receive, CleanUp, Timeout
<1>7. ASSUME NEW a \in Agents, FinalResult(a) PROVE AnswersAreEarlier'
  <2>1. pc[a] = "final" /\ Post(a, found[a]) /\ UNCHANGED <<ticket, target>>
    BY <1>7 DEF FinalResult
  <2>2. CASE found[a] = None
    BY <1>1, <1>2, <2>1, <2>2 DEF Post, TypeOK
  <2>3. CASE found[a] # None
    <3>1. found[a] = requestId[a]
      BY <2>1, <2>3 DEF Order, AgentOrder, FoundIsLatest
    <3> QED
      BY <2>1, <2>3, <3>1, PostIsEarlier
  <2> QED
    BY <2>2, <2>3
<1>8. ASSUME NEW a \in Agents, ReportError(a) PROVE AnswersAreEarlier'
  <2>1. pc[a] = "failed" /\ UNCHANGED <<ticket, target>>
        /\ (UNCHANGED response \/ (requestId[a] # None /\ Post(a, requestId[a])))
    BY <1>8 DEF ReportError
  <2> QED
    BY <1>2, <2>1, PostIsEarlier
<1>9. ASSUME NEW a \in Agents, LoopStep(a), ~FinalResult(a), ~ReportError(a)
      PROVE  UNCHANGED <<response, ticket, target>>
  BY <1>9 DEF LoopStep, Exit, StopLoop, TakeMessage, BeginMessage, StoreRequestId, StartWorker,
              LookUpRequest, GuestReturns, GuestFails, Unmap
<1>10. ASSUME NEW w \in workers, WorkerSends(w) PROVE UNCHANGED <<response, ticket, target>>
  BY <1>10 DEF WorkerSends
<1>11. CASE SignalShutdown \/ Terminated \/ UNCHANGED vars
  BY <1>2, <1>11 DEF SignalShutdown, Terminated, vars
<1> QED
  BY <1>2, <1>4, <1>5, <1>6, <1>7, <1>8, <1>9, <1>10, <1>11 DEF Next, Step, HandlerStep

LEMMA OrderInvariance == Spec => [](IInv /\ Order)
<1>1. Init => IInv /\ Order
  BY TypeInit, OwnInit, KeptInit, OrderInit DEF IInv
<1>2. IInv /\ [Next]_vars => IInv'
  BY TypeStep, OwnStep, KeptStep DEF IInv
<1>3. IInv /\ IInv' /\ Order /\ [Next]_vars => Order'
  BY AgentOrderStep, TicketsStep, AnswersStep DEF Order
<1> QED
  BY <1>1, <1>2, <1>3, PTL DEF Spec

-----------------------------------------------------------------------------
(* The refinement.  What RequestService sees of a call: its status, the agent *)
(* that accepted it and the work it was given.                                *)
ServerOf(r) == IF ticket[r] = 0 THEN None ELSE target[r]
ReplyOf(r) == IF call[r] \in {"received", "answered"} THEN response[r].work ELSE None

LEMMA ServiceInit == Init => Service!Init
BY DEF Init, Service!Init, Status

\* A step that none of this shows.
LEMMA Unseen ==
  ASSUME UNCHANGED <<ticket, issued>>,
         \A r \in Requests : /\ Status(r)' = Status(r)
                             /\ ServerOf(r)' = ServerOf(r)
                             /\ ReplyOf(r)' = ReplyOf(r)
  PROVE  UNCHANGED Service!vars
BY DEF Service!vars, ServerOf, ReplyOf

\* The call of r moves and no other does.
LEMMA CallMoves ==
  ASSUME TypeOK, NEW r \in Requests, NEW s, call' = [call EXCEPT ![r] = s], NEW v, Status(r)' = v
  PROVE  [x \in Requests |-> Status(x)]' = [[x \in Requests |-> Status(x)] EXCEPT ![r] = v]
<1>1. \A x \in Requests : x # r => call'[x] = call[x]
  BY DEF TypeOK
<1>2. \A x \in Requests : x # r => Status(x)' = Status(x)
  BY <1>1 DEF Status
<1> QED
  BY <1>2

\* A step after which r has no reply and its server is the same.
LEMMA NoReply ==
  ASSUME TypeOK, NEW r \in Requests, NEW s, call' = [call EXCEPT ![r] = s],
         UNCHANGED <<ticket, issued, target, response>>,
         call[r] \notin {"received", "answered"}, s \notin {"received", "answered"}
  PROVE  UNCHANGED <<[x \in Requests |-> IF ticket[x] = 0 THEN None ELSE target[x]],
                     [x \in Requests |-> IF call[x] \in {"received", "answered"}
                                           THEN response[x].work ELSE None]>>
BY DEF TypeOK

LEMMA ServiceStep ==
  ASSUME IInv, Order, [Next]_vars
  PROVE  [Service!Next]_Service!vars
<1> USE NoneAssumption DEF handlerVars, loopVars
<1>1. TypeOK /\ Tickets
  BY DEF IInv, TypeInv, Order
<1>2. CASE UNCHANGED <<call, ticket, issued, target, response>>
  BY <1>2, Unseen DEF Status, ServerOf, ReplyOf
<1>3. ASSUME NEW r \in Requests, NEW t \in Tools, RejectCall(r, t) PROVE Service!Refuse(r)
  <2>1. call[r] = "idle" /\ call' = [call EXCEPT ![r] = "notFound"]
        /\ UNCHANGED <<ticket, issued, target, response>>
    BY <1>3 DEF RejectCall
  <2>2. Status(r) = "idle" /\ Status(r)' = "refused"
    BY <1>1, <2>1 DEF Status, TypeOK
  <2>3. [x \in Requests |-> Status(x)]' = [[x \in Requests |-> Status(x)] EXCEPT ![r] = "refused"]
    BY <1>1, <2>1, <2>2, CallMoves
  <2>4. UNCHANGED <<[x \in Requests |-> IF ticket[x] = 0 THEN None ELSE target[x]],
                    [x \in Requests |-> IF call[x] \in {"received", "answered"}
                                          THEN response[x].work ELSE None]>>
    BY <1>1, <2>1, NoReply
  <2> QED
    BY <2>1, <2>2, <2>3, <2>4 DEF Service!Refuse
<1>4. ASSUME NEW r \in Requests, NEW t \in Tools, OpenCall(r, t) PROVE UNCHANGED Service!vars
  <2>1. /\ call[r] = "idle" /\ ticket[r] = 0 /\ UNCHANGED <<ticket, issued, response>>
        /\ call' = [call EXCEPT ![r] = "opened"]
        /\ target' = [target EXCEPT ![r] = agentChannels[t]]
    BY <1>1, <1>4 DEF OpenCall, Tickets
  <2>2. \A x \in Requests : /\ Status(x)' = Status(x)
                            /\ ServerOf(x)' = ServerOf(x)
                            /\ ReplyOf(x)' = ReplyOf(x)
    BY <1>1, <2>1 DEF Status, ServerOf, ReplyOf, TypeOK
  <2> QED
    BY <2>1, <2>2, Unseen
<1>5. ASSUME NEW r \in Requests, SendCall(r)
      PROVE  Service!Refuse(r) \/ \E a \in Agents : Service!Accept(r, a)
  <2>1. CASE pc[target[r]] = "exited"
    <3>1. call[r] = "opened" /\ call' = [call EXCEPT ![r] = "sendFailed"]
          /\ UNCHANGED <<ticket, issued, target, response>>
      BY <1>5, <2>1 DEF SendCall
    <3>2. Status(r) = "idle" /\ Status(r)' = "refused"
      BY <1>1, <3>1 DEF Status, TypeOK
    <3>3. [x \in Requests |-> Status(x)]' = [[x \in Requests |-> Status(x)] EXCEPT ![r] = "refused"]
      BY <1>1, <3>1, <3>2, CallMoves
    <3>4. UNCHANGED <<[x \in Requests |-> IF ticket[x] = 0 THEN None ELSE target[x]],
                      [x \in Requests |-> IF call[x] \in {"received", "answered"}
                                            THEN response[x].work ELSE None]>>
      BY <1>1, <3>1, NoReply
    <3> QED
      BY <3>1, <3>2, <3>3, <3>4 DEF Service!Refuse
  <2>2. CASE pc[target[r]] # "exited"
    <3>1. /\ call[r] = "opened" /\ call' = [call EXCEPT ![r] = "waiting"]
          /\ ticket' = [ticket EXCEPT ![r] = issued + 1] /\ issued' = issued + 1
          /\ UNCHANGED <<target, response>>
      BY <1>5, <2>2 DEF SendCall
    <3>2. target[r] \in Agents
      BY <1>1, <3>1 DEF Tickets
    <3>3. Status(r) = "idle"
      BY <3>1 DEF Status
    <3>4. [x \in Requests |-> Status(x)]' = [[x \in Requests |-> Status(x)] EXCEPT ![r] = "pending"]
      <4>1. Status(r)' = "pending"
        BY <1>1, <3>1 DEF Status, TypeOK
      <4> QED
        BY <1>1, <3>1, <4>1, CallMoves
    <3>5. [x \in Requests |-> IF ticket[x] = 0 THEN None ELSE target[x]]' =
            [[x \in Requests |-> IF ticket[x] = 0 THEN None ELSE target[x]] EXCEPT ![r] = target[r]]
      <4>1. ticket'[r] # 0 /\ \A x \in Requests : x # r => ticket'[x] = ticket[x]
        BY <1>1, <3>1 DEF TypeOK
      <4> QED
        BY <3>1, <4>1
    <3>6. UNCHANGED [x \in Requests |-> IF call[x] \in {"received", "answered"}
                                          THEN response[x].work ELSE None]
      BY <1>1, <3>1 DEF TypeOK
    <3> QED
      BY <3>1, <3>2, <3>3, <3>4, <3>5, <3>6 DEF Service!Accept
  <2> QED
    BY <2>1, <2>2
<1>6. ASSUME NEW r \in Requests, Timeout(r) PROVE Service!GiveUp(r)
  <2>1. call[r] = "waiting" /\ call' = [call EXCEPT ![r] = "timedOut"]
        /\ UNCHANGED <<ticket, issued, target, response>>
    BY <1>6 DEF Timeout
  <2>2. Status(r) = "pending" /\ Status(r)' = "failed"
    BY <1>1, <2>1 DEF Status, TypeOK
  <2>3. [x \in Requests |-> Status(x)]' = [[x \in Requests |-> Status(x)] EXCEPT ![r] = "failed"]
    BY <1>1, <2>1, <2>2, CallMoves
  <2>4. UNCHANGED <<[x \in Requests |-> IF ticket[x] = 0 THEN None ELSE target[x]],
                    [x \in Requests |-> IF call[x] \in {"received", "answered"}
                                          THEN response[x].work ELSE None]>>
    BY <1>1, <2>1, NoReply
  <2> QED
    BY <2>1, <2>2, <2>3, <2>4 DEF Service!GiveUp
<1>7. ASSUME NEW r \in Requests, Receive(r)
      PROVE  \E w \in Requests : Service!Reply(r, w)
  <2> DEFINE w == response[r].work
  <2>1. /\ call[r] = "waiting" /\ call' = [call EXCEPT ![r] = "received"]
        /\ response[r] # None /\ UNCHANGED <<ticket, issued, target, response>>
    BY <1>7 DEF Receive
  <2>2. w \in Requests /\ ticket[w] \in 1 .. ticket[r] /\ target[w] = target[r]
    BY <1>1, <2>1 DEF TypeOK, Response, Order, AnswersAreEarlier
  <2>3. ticket[r] # 0 /\ ticket[w] # 0
    BY <1>1, <2>2 DEF TypeOK
  <2>4. Status(r) = "pending"
    BY <2>1 DEF Status
  <2>5. [x \in Requests |-> Status(x)]' = [[x \in Requests |-> Status(x)] EXCEPT ![r] = "replied"]
    <3>1. Status(r)' = "replied"
      BY <1>1, <2>1 DEF Status, TypeOK
    <3> QED
      BY <1>1, <2>1, <3>1, CallMoves
  <2>6. [x \in Requests |-> IF call[x] \in {"received", "answered"} THEN response[x].work ELSE None]' =
          [[x \in Requests |-> IF call[x] \in {"received", "answered"} THEN response[x].work ELSE None]
             EXCEPT ![r] = w]
    BY <1>1, <2>1 DEF TypeOK
  <2>7. [x \in Requests |-> IF ticket[x] = 0 THEN None ELSE target[x]][w] =
          [x \in Requests |-> IF ticket[x] = 0 THEN None ELSE target[x]][r]
    BY <2>2, <2>3
  <2>8. UNCHANGED [x \in Requests |-> IF ticket[x] = 0 THEN None ELSE target[x]]
    BY <2>1
  <2>9. [x \in Requests |-> Status(x)][r] = "pending"
    BY <2>4
  <2> HIDE DEF w
  <2> QED
    BY <2>1, <2>2, <2>5, <2>6, <2>7, <2>8, <2>9, Zenon DEF Service!Reply
<1>8. ASSUME NEW r \in Requests, CleanUp(r) PROVE UNCHANGED Service!vars
  <2>1. call[r] = "received" /\ call' = [call EXCEPT ![r] = "answered"]
        /\ UNCHANGED <<ticket, issued, target, response>>
    BY <1>8 DEF CleanUp
  <2>2. \A x \in Requests : /\ Status(x)' = Status(x)
                            /\ ServerOf(x)' = ServerOf(x)
                            /\ ReplyOf(x)' = ReplyOf(x)
    BY <1>1, <2>1 DEF Status, ServerOf, ReplyOf, TypeOK
  <2> QED
    BY <2>1, <2>2, Unseen
<1>9. ASSUME NEW a \in Agents, NEW r, Post(a, r), UNCHANGED handlerVars
      PROVE  UNCHANGED Service!vars
  <2>1. \A x \in Requests : response'[x] = response[x] \/ Listening(x)
    BY <1>1, <1>9 DEF Post, TypeOK
  <2>2. \A x \in Requests : /\ Status(x)' = Status(x)
                            /\ ServerOf(x)' = ServerOf(x)
                            /\ ReplyOf(x)' = ReplyOf(x)
    BY <1>9, <2>1 DEF Status, ServerOf, ReplyOf, Listening
  <2> QED
    BY <1>9, <2>2, Unseen
<1>10. ASSUME NEW a \in Agents, LoopStep(a) PROVE UNCHANGED Service!vars
  <2>1. \/ UNCHANGED <<handlerVars, response>>
        \/ UNCHANGED handlerVars /\ \E r : Post(a, r)
    BY <1>10 DEF LoopStep, Exit, StopLoop, TakeMessage, BeginMessage, StoreRequestId, StartWorker,
         LookUpRequest, FinalResult, GuestReturns, GuestFails, ReportError, Unmap
  <2> QED
    BY <1>9, <2>1, Unseen DEF Status, ServerOf, ReplyOf
<1>11. ASSUME NEW w \in workers, WorkerSends(w)
       PROVE  UNCHANGED <<call, ticket, issued, target, response>>
  BY <1>11 DEF WorkerSends
<1>12. CASE SignalShutdown \/ Terminated \/ UNCHANGED vars
  BY <1>2, <1>12 DEF SignalShutdown, Terminated, vars
<1> QED
  BY <1>2, <1>3, <1>4, <1>5, <1>6, <1>7, <1>8, <1>10, <1>11, <1>12
     DEF Next, Step, HandlerStep, Service!Next

(* What clients see of the handler, the event loops and the shared maps is    *)
(* RequestService: an accepted call gets at most one reply, made of work that *)
(* its own agent accepted no later than the call, whatever the interleaving.  *)
THEOREM Implements == Spec => ServiceSpec
<1>1. Init => Service!Init
  BY ServiceInit
<1>2. IInv /\ Order /\ [Next]_vars => [Service!Next]_Service!vars
  BY ServiceStep
<1> QED
  BY <1>1, <1>2, OrderInvariance, PTL DEF Spec, ServiceSpec, Service!Spec

-----------------------------------------------------------------------------
(* What answered calls leave behind.                                         *)

\* The requests sent to an agent that the map of request ids does not name yet.
Ahead(a) ==
  {x \in Requests :
     \/ \E i \in 1 .. Len(queue[a]) : Asks(a, i) /\ queue[a][i].request = x
     \/ Fresh(a) /\ msg[a].request = x
     \/ pc[a] = "store" /\ requestId[a] = x}

\* Nobody answers a request before it is in the map.
AheadIsUnanswered == \A a \in Agents : \A x \in Ahead(a) : response[x] = None
RepliesAreAnswers == \A r \in Requests :
                       call[r] \in {"received", "answered"} => response[r] # None

Cleaned == AheadIsUnanswered /\ RepliesAreAnswers /\ AnsweredLeavesNothing

LEMMA AheadIsOwn ==
  ASSUME IInv, NEW a \in Agents, NEW x \in Ahead(a)
  PROVE  x \in Requests /\ target[x] = a
<1>1. x \in Requests
  BY DEF Ahead
<1>2. ASSUME NEW i \in 1 .. Len(queue[a]), queue[a][i].request = x PROVE target[x] = a
  BY <1>2 DEF IInv, Own, QueueIsOwn
<1>3. CASE Fresh(a) /\ msg[a].request = x
  <2>1. msg[a] # None
    BY <1>3 DEF Fresh, IInv, TypeInv, HasMessage
  <2> QED
    BY <1>1, <1>3, <2>1 DEF IInv, Own, MsgIsOwn
<1>4. CASE requestId[a] = x
  <2>1. requestId[a] # None
    BY <1>1, <1>4, NoneAssumption
  <2> QED
    BY <1>1, <1>4, <2>1 DEF IInv, Own, RequestIdIsOwn
<1> QED
  BY <1>1, <1>2, <1>3, <1>4 DEF Ahead

\* What an agent answers it has taken out of its queue and put in the map.
LEMMA PostIsNotAhead ==
  ASSUME IInv, Order, NEW b \in Agents, NEW x \in Requests, pc[b] \in {"final", "failed"},
         requestId[b] = x, NEW a \in Agents
  PROVE  x \notin Ahead(a) /\ ticket[x] # 0
<1>1. TypeOK /\ x # None
  BY NoneAssumption DEF IInv, TypeInv
<1>2. target[x] = b
  BY <1>1 DEF IInv, Own, RequestIdIsOwn
<1>3. x \in Work(b)
  BY DEF Work
<1>4. ticket[x] # 0
  BY <1>1, <1>3 DEF Order, AgentOrder, WorkIsSent, TypeOK
<1>5. CASE a # b
  BY <1>2, <1>4, <1>5, AheadIsOwn
<1>6. CASE a = b
  <2>1. ASSUME NEW i \in 1 .. Len(queue[a]), Asks(a, i), queue[a][i].request = x PROVE FALSE
    <3>1. ticket[x] < ticket[x] /\ ticket[x] \in Nat
      BY <1>1, <1>3, <1>6, <2>1 DEF Order, AgentOrder, QueueIsAhead, TypeOK
    <3> QED
      BY <3>1
  <2>2. ~Fresh(a) /\ pc[a] # "store"
    BY <1>6 DEF Fresh
  <2> QED
    BY <1>4, <2>1, <2>2 DEF Ahead
<1> QED
  BY <1>5, <1>6

LEMMA AnswerIsNotAhead ==
  ASSUME IInv, Order, [Next]_vars, NEW x \in Requests, response'[x] # response[x],
         NEW a \in Agents
  PROVE  x \notin Ahead(a) /\ ticket[x] # 0
<1> USE NoneAssumption DEF handlerVars, loopVars
<1>1. TypeOK
  BY DEF IInv, TypeInv
<1>2. ASSUME NEW b \in Agents, FinalResult(b) PROVE x \notin Ahead(a) /\ ticket[x] # 0
  <2>1. x = found[b]
    BY <1>1, <1>2, PostEffect DEF FinalResult
  <2>2. requestId[b] = x /\ pc[b] = "final"
    BY <1>2, <2>1 DEF FinalResult, Order, AgentOrder, FoundIsLatest
  <2> QED
    BY <2>2, PostIsNotAhead
<1>3. ASSUME NEW b \in Agents, ReportError(b) PROVE x \notin Ahead(a) /\ ticket[x] # 0
  <2>1. Post(b, requestId[b]) /\ pc[b] = "failed"
    BY <1>3 DEF ReportError
  <2>2. x = requestId[b]
    BY <1>1, <2>1, PostEffect
  <2> QED
    BY <2>1, <2>2, PostIsNotAhead
<1>4. ASSUME NEW b \in Agents, LoopStep(b) PROVE FinalResult(b) \/ ReportError(b)
  BY <1>4 DEF LoopStep, Exit, StopLoop, TakeMessage, BeginMessage, StoreRequestId, StartWorker,
              LookUpRequest, GuestReturns, GuestFails, Unmap
<1>5. \E b \in Agents : LoopStep(b)
  BY DEF Next, Step, HandlerStep, RejectCall, OpenCall, SendCall, Receive, CleanUp, Timeout,
         WorkerSends, SignalShutdown, Terminated, vars
<1> QED
  BY <1>2, <1>3, <1>4, <1>5

\* Only a call that is sent now is added to what an agent has ahead of it.
LEMMA AheadStep ==
  ASSUME IInv, IInv', Order, [Next]_vars, NEW a \in Agents
  PROVE  \A x \in Ahead(a)' : x \in Ahead(a) \/ ticket[x] = 0
<1> USE NoneAssumption DEF handlerVars, loopVars
<1> DEFINE Goal == \A x \in Ahead(a)' : x \in Ahead(a) \/ ticket[x] = 0
<1>1. TypeOK /\ TypeOK' /\ Tickets
  BY DEF IInv, TypeInv, Order
<1>2. ASSUME queue'[a] = queue[a], msg'[a] = msg[a], requestId'[a] = requestId[a],
             pc'[a] # pc[a] => pc'[a] \notin {"taken", "store"}
      PROVE  Goal
  BY <1>2 DEF Ahead, Fresh, Asks
<1>3. ASSUME NEW b \in Agents, b # a, LoopStep(b) PROVE Goal
  <2>1. /\ queue'[a] = queue[a] /\ msg'[a] = msg[a] /\ requestId'[a] = requestId[a]
        /\ pc'[a] = pc[a]
    BY <1>1, <1>3 DEF LoopStep, Exit, StopLoop, TakeMessage, BeginMessage, StoreRequestId,
                      StartWorker, LookUpRequest, FinalResult, GuestReturns, GuestFails,
                      ReportError, Unmap, TypeOK
  <2> QED
    BY <1>2, <2>1
<1>4. ASSUME NEW r \in Requests, NEW t \in Tools, RejectCall(r, t) \/ OpenCall(r, t) PROVE Goal
  BY <1>2, <1>4 DEF RejectCall, OpenCall
<1>5. ASSUME NEW r \in Requests, Receive(r) \/ CleanUp(r) \/ Timeout(r) PROVE Goal
  BY <1>2, <1>5 DEF Receive, CleanUp, Timeout
<1>6. ASSUME SignalShutdown \/ Terminated \/ UNCHANGED vars PROVE Goal
  BY <1>2, <1>6 DEF SignalShutdown, Terminated, vars
<1>7. ASSUME StartWorker(a) \/ LookUpRequest(a) \/ FinalResult(a) \/ GuestFails(a)
             \/ StoreRequestId(a)
      PROVE  Goal
  <2>1. /\ queue'[a] = queue[a] /\ msg'[a] = msg[a] /\ requestId'[a] = requestId[a]
        /\ pc'[a] \notin {"taken", "store"}
    BY <1>1, <1>7 DEF StartWorker, LookUpRequest, FinalResult, GuestFails, StoreRequestId, TypeOK
  <2> QED
    BY <1>2, <2>1
<1>8. ASSUME GuestReturns(a) \/ ReportError(a) \/ Unmap(a) \/ Exit(a) PROVE Goal
  <2>1. /\ queue'[a] \in {queue[a], <<>>} /\ pc'[a] \notin {"taken", "store"}
    BY <1>1, <1>8 DEF GuestReturns, ReportError, Unmap, Exit, StopLoop, TypeOK
  <2> QED
    BY <2>1 DEF Ahead, Fresh, Asks
<1>9. ASSUME TakeMessage(a) PROVE Goal
  <2>1. /\ queue[a] # <<>> /\ queue'[a] = Tail(queue[a]) /\ msg'[a] = Head(queue[a])
        /\ pc'[a] = "taken" /\ queue[a] \in Seq(Message)
    BY <1>1, <1>9 DEF TakeMessage, TypeOK
  <2>2. 1 \in 1 .. Len(queue[a]) /\ msg'[a] = queue[a][1]
    BY <2>1, HeadElement
  <2>3. \A i \in 1 .. Len(queue'[a]) :
          i + 1 \in 1 .. Len(queue[a]) /\ queue'[a][i] = queue[a][i + 1]
    BY <2>1, TailElement
  <2> QED
    BY <2>1, <2>2, <2>3 DEF Ahead, Fresh, Asks
<1>10. ASSUME BeginMessage(a) PROVE Goal
  <2>1. /\ queue'[a] = queue[a] /\ msg'[a] = msg[a] /\ pc[a] = "taken" /\ pc'[a] # "taken"
        /\ pc'[a] = "store" => /\ msg[a].kind = "mcp_request"
                               /\ requestId'[a] = msg[a].request
    BY <1>1, <1>10 DEF BeginMessage, TypeOK
  <2> QED
    BY <2>1 DEF Ahead, Fresh, Asks
<1>11. ASSUME NEW r \in Requests, SendCall(r) PROVE Goal
  <2> DEFINE m == [kind |-> "mcp_request", request |-> r]
  <2>1. /\ UNCHANGED <<pc, msg, requestId>> /\ call[r] = "opened"
        /\ queue' \in {queue, [queue EXCEPT ![target[r]] = Append(@, m)]}
    BY <1>11 DEF SendCall
  <2>2. ticket[r] = 0
    BY <1>1, <2>1 DEF Tickets
  <2>3. CASE queue'[a] = queue[a]
    BY <1>2, <2>1, <2>3
  <2>4. CASE queue'[a] # queue[a]
    <3>1. queue'[a] = Append(queue[a], m)
      BY <1>1, <2>1, <2>4 DEF TypeOK
    <3>3. m \in Message /\ queue[a] \in Seq(Message)
      BY <1>1 DEF TypeOK, Message
    <3>2. \A i \in 1 .. Len(queue'[a]) :
            \/ i \in 1 .. Len(queue[a]) /\ queue'[a][i] = queue[a][i]
            \/ queue'[a][i] = m
      BY <3>1, <3>3, AppendProperties
    <3> QED
      BY <2>1, <2>2, <3>2 DEF Ahead, Fresh, Asks
  <2> QED
    BY <2>3, <2>4
<1>12. ASSUME NEW w \in workers, WorkerSends(w) PROVE Goal
  <2> DEFINE m == [kind |-> "callback", request |-> w.request]
  <2>1. /\ UNCHANGED <<pc, msg, requestId>>
        /\ queue' \in {queue, [queue EXCEPT ![w.agent] = Append(@, m)]}
    BY <1>12 DEF WorkerSends
  <2>2. CASE queue'[a] = queue[a]
    BY <1>2, <2>1, <2>2
  <2>3. CASE queue'[a] # queue[a]
    <3>1. queue'[a] = Append(queue[a], m) /\ m \in Message /\ queue[a] \in Seq(Message)
      BY <1>1, <2>1, <2>3, ZenonT(40) DEF TypeOK, Message, Worker
    <3>2. \A i \in 1 .. Len(queue'[a]) :
            \/ i \in 1 .. Len(queue[a]) /\ queue'[a][i] = queue[a][i]
            \/ queue'[a][i] = m
      BY <3>1, AppendProperties
    <3> QED
      BY <2>1, <3>2 DEF Ahead, Fresh, Asks
  <2> QED
    BY <2>2, <2>3
<1> QED
  BY <1>3, <1>4, <1>5, <1>6, <1>7, <1>8, <1>9, <1>10, <1>11, <1>12
     DEF Next, Step, HandlerStep, LoopStep

\* How a step changes a call, and the map of request ids.
LEMMA CallStep ==
  ASSUME TypeOK, [Next]_vars, NEW r \in Requests
  PROVE  /\ call'[r] = "answered" => call[r] = "answered" \/ CleanUp(r)
         /\ call'[r] \in {"received", "answered"} =>
              call[r] \in {"received", "answered"} \/ response[r] # None
<1> USE DEF handlerVars, loopVars
<1>1. ASSUME NEW s \in Requests, NEW t \in Tools, RejectCall(s, t) \/ OpenCall(s, t)
      PROVE  call'[r] = call[r] \/ call'[r] \in {"notFound", "opened"}
  BY <1>1 DEF RejectCall, OpenCall, TypeOK
<1>2. ASSUME NEW s \in Requests, SendCall(s) \/ Timeout(s)
      PROVE  call'[r] = call[r] \/ call'[r] \in {"sendFailed", "waiting", "timedOut"}
  BY <1>2 DEF SendCall, Timeout, TypeOK
<1>3. ASSUME NEW s \in Requests, Receive(s)
      PROVE  call'[r] = call[r] \/ (call'[r] = "received" /\ response[r] # None)
  BY <1>3 DEF Receive, TypeOK
<1>4. ASSUME NEW s \in Requests, CleanUp(s)
      PROVE  call'[r] = call[r] \/ (s = r /\ call[r] = "received")
  BY <1>4 DEF CleanUp, TypeOK
<1>5. ASSUME NEW a \in Agents, LoopStep(a) PROVE call' = call
  BY <1>5 DEF LoopStep, Exit, StopLoop, TakeMessage, BeginMessage, StoreRequestId, StartWorker,
              LookUpRequest, FinalResult, GuestReturns, GuestFails, ReportError, Unmap
<1>6. ASSUME NEW w \in workers, WorkerSends(w) PROVE call' = call
  BY <1>6 DEF WorkerSends
<1>7. CASE SignalShutdown \/ Terminated \/ UNCHANGED vars
  BY <1>7 DEF SignalShutdown, Terminated, vars
<1> QED
  BY <1>1, <1>2, <1>3, <1>4, <1>5, <1>6, <1>7 DEF Next, Step, HandlerStep

LEMMA EntryStep ==
  ASSUME TypeOK, [Next]_vars
  PROVE  \/ \E b \in Agents : StoreRequestId(b)
         \/ \A a \in Agents : agentRequestIds'[a] \in {agentRequestIds[a], None}
<1> USE DEF handlerVars, loopVars
<1>1. ASSUME NEW r \in Requests, CleanUp(r)
      PROVE  \A a \in Agents : agentRequestIds'[a] \in {agentRequestIds[a], None}
  BY <1>1 DEF CleanUp, ForgetRequest
<1>2. ASSUME NEW b \in Agents, Unmap(b)
      PROVE  \A a \in Agents : agentRequestIds'[a] \in {agentRequestIds[a], None}
  BY <1>2 DEF Unmap, Unmapped, TypeOK
<1>3. \/ UNCHANGED agentRequestIds
      \/ \E r \in Requests : CleanUp(r)
      \/ \E b \in Agents : Unmap(b) \/ StoreRequestId(b)
  BY DEF Next, Step, HandlerStep, LoopStep, RejectCall, OpenCall, SendCall, Receive, Timeout,
         Exit, StopLoop, TakeMessage, BeginMessage, StartWorker, LookUpRequest, FinalResult,
         GuestReturns, GuestFails, ReportError, WorkerSends, SignalShutdown, Terminated, vars
<1> QED
  BY <1>1, <1>2, <1>3

LEMMA CleanedInit == Init => Cleaned
<1> SUFFICES ASSUME Init PROVE Cleaned
  OBVIOUS
<1>1. RepliesAreAnswers /\ AnsweredLeavesNothing
  BY DEF Init, RepliesAreAnswers, AnsweredLeavesNothing
<1>2. AheadIsUnanswered
  BY DEF Init, AheadIsUnanswered, Ahead, Fresh
<1> QED
  BY <1>1, <1>2 DEF Cleaned

LEMMA CleanedStep ==
  ASSUME IInv, IInv', Order, Cleaned, [Next]_vars
  PROVE  Cleaned'
<1> USE NoneAssumption DEF handlerVars, loopVars
<1>1. TypeOK /\ TypeOK' /\ AheadIsUnanswered /\ RepliesAreAnswers /\ AnsweredLeavesNothing
  BY DEF IInv, TypeInv, Cleaned
<1>2. \A r \in Requests : response[r] # None => response'[r] # None
  BY AnswerStep DEF AnswersStay
<1>3. AheadIsUnanswered'
  <2> SUFFICES ASSUME NEW a \in Agents, NEW x \in Ahead(a)' PROVE response'[x] = None
    BY DEF AheadIsUnanswered
  <2>1. x \in Requests /\ (x \in Ahead(a) \/ ticket[x] = 0)
    BY AheadStep DEF Ahead
  <2>2. response[x] = None
    <3>1. CASE ticket[x] = 0
      BY <1>1, <2>1, <3>1 DEF Order, AnswersAreEarlier
    <3> QED
      BY <1>1, <2>1, <3>1 DEF AheadIsUnanswered
  <2>3. response'[x] = response[x]
    BY <2>1, AnswerIsNotAhead
  <2> QED
    BY <2>2, <2>3
<1>4. RepliesAreAnswers'
  <2>1. \A r \in Requests : call'[r] \in {"received", "answered"} =>
          call[r] \in {"received", "answered"} \/ response[r] # None
    BY <1>1, CallStep
  <2> QED
    BY <1>1, <1>2, <2>1 DEF RepliesAreAnswers
<1>5. AnsweredLeavesNothing'
  <2> SUFFICES ASSUME NEW r \in Requests, call'[r] = "answered"
               PROVE  r \notin responseChannels' /\ \A a \in Agents : agentRequestIds'[a] # r
    BY DEF AnsweredLeavesNothing
  <2>1. r \notin responseChannels'
    BY <1>4 DEF RepliesAreAnswers, IInv, Kept, AnswerTakesSender
  <2>2. \A a \in Agents : agentRequestIds'[a] # r
    <3>1. ASSUME CleanUp(r) PROVE \A a \in Agents : agentRequestIds'[a] # r
      BY <3>1 DEF CleanUp, ForgetRequest
    <3>2. ASSUME ~CleanUp(r) PROVE call[r] = "answered" /\ \A a \in Agents : agentRequestIds[a] # r
      <4>1. call[r] = "answered"
        BY <1>1, <3>2, CallStep
      <4> QED
        BY <1>1, <4>1 DEF AnsweredLeavesNothing
    <3>3. ASSUME NEW b \in Agents, StoreRequestId(b), ~CleanUp(r)
          PROVE  \A a \in Agents : agentRequestIds'[a] # r
      <4>1. msg[b].request = requestId[b] /\ pc[b] = "store"
        BY <3>3 DEF StoreRequestId, IInv, Kept, StoresItsRequest
      <4>2. requestId[b] # r
        <5> SUFFICES ASSUME requestId[b] = r PROVE FALSE
          OBVIOUS
        <5>1. r \in Ahead(b)
          BY <4>1 DEF Ahead
        <5>2. response[r] # None
          BY <1>1, <3>2, <3>3 DEF RepliesAreAnswers
        <5> QED
          BY <1>1, <5>1, <5>2 DEF AheadIsUnanswered
      <4> QED
        BY <1>1, <3>2, <3>3, <4>1, <4>2 DEF StoreRequestId, Stored, TypeOK
    <3>4. \/ \E b \in Agents : StoreRequestId(b)
          \/ \A a \in Agents : agentRequestIds'[a] \in {agentRequestIds[a], None}
      BY <1>1, EntryStep
    <3> QED
      BY <3>1, <3>2, <3>3, <3>4
  <2> QED
    BY <2>1, <2>2
<1> QED
  BY <1>3, <1>4, <1>5 DEF Cleaned

(* A call that was answered leaves no entry in the map of response channels    *)
(* and none in the map of request ids: no event loop stores the id of a call   *)
(* after its handler has cleaned up.                                           *)
THEOREM NothingOfAnswered == Spec => []AnsweredLeavesNothing
<1>1. Cleaned => AnsweredLeavesNothing
  BY DEF Cleaned
<1>2. Init => Cleaned
  BY CleanedInit
<1>3. IInv /\ IInv' /\ Order /\ Cleaned /\ [Next]_vars => Cleaned'
  BY CleanedStep
<1> QED
  BY <1>1, <1>2, <1>3, OrderInvariance, PTL DEF Spec
=============================================================================

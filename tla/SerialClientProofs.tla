------------------------- MODULE SerialClientProofs -------------------------
(***************************************************************************)
(* A client that waits for earlier work to be done gets the work of its    *)
(* own call, for any number of requests, agents and tools.                 *)
(*                                                                         *)
(* Such a client still meets callbacks of calls that timed out: they may   *)
(* be queued, and the maps may still name their calls, when the next call  *)
(* is opened.  They do no harm because the queue is in order: once the     *)
(* agent has begun the open call, everything behind it is of that call.    *)
(***************************************************************************)
EXTENDS AgentRequestsProofs

Asking(m) == m.kind = "mcp_request"

\* The loop has a request in hand, or one of the places that name the request to
\* answer names r.
Begun(a, r) == \/ msg[a] # None /\ Asking(msg[a])
               \/ r \in {requestId[a], agentRequestIds[a], found[a]}

\* What an agent has to do while it is asked for r, and what is left of earlier calls.
WorkersAreFor(a, r) == \A w \in workers : w.agent = a => w.request = r
AskedOnlyFor(a, r) ==
  /\ msg[a] # None /\ Asking(msg[a]) => msg[a].request = r
  /\ \A i \in 1 .. Len(queue[a]) : Asking(queue[a][i]) => queue[a][i].request = r
LeftoversAreAhead(a, r) ==
  \A i, j \in 1 .. Len(queue[a]) : i < j /\ Asking(queue[a][i]) => queue[a][j].request = r
LeftoversAreGone(a, r) ==
  Begun(a, r) => /\ msg[a] # None => msg[a].request = r
                 /\ \A i \in 1 .. Len(queue[a]) : queue[a][i].request = r

WorkIsFor(a, r) == /\ WorkersAreFor(a, r) /\ AskedOnlyFor(a, r)
                   /\ LeftoversAreAhead(a, r) /\ LeftoversAreGone(a, r)

OneOpenCall == \A r, s \in Requests :
                 Listening(r) /\ Listening(s) /\ target[r] = target[s] => r = s
OpenHasAgent == \A r \in Requests : Listening(r) => target[r] \in Agents
OpenIsWorkedOn == \A r \in Requests, a \in Agents :
                    Listening(r) /\ target[r] = a => WorkIsFor(a, r)

Serial == OneOpenCall /\ OpenHasAgent /\ OpenIsWorkedOn /\ OwnAnswer

-----------------------------------------------------------------------------
LEMMA SerialInit == Init => Serial
BY DEF Init, Serial, OneOpenCall, OpenHasAgent, OpenIsWorkedOn, OwnAnswer, Listening

LEMMA SerialIsNext == [SerialNext]_vars => [Next]_vars
BY DEF SerialNext, Next

\* A step with which agent a begins nothing.
LEMMA NothingBegins ==
  ASSUME NEW a \in Agents, NEW r \in Requests, WorkIsFor(a, r),
         queue'[a] = queue[a], msg'[a] \in {msg[a], None},
         \A w \in workers' : w.agent = a => w \in workers,
         Begun(a, r)' => Begun(a, r)
  PROVE  WorkIsFor(a, r)'
BY DEF WorkIsFor, WorkersAreFor, AskedOnlyFor, LeftoversAreAhead, LeftoversAreGone

\* A message of r goes to the end of the queue.
LEMMA OneMoreFor ==
  ASSUME IInv, NEW a \in Agents, NEW r \in Requests, WorkIsFor(a, r),
         NEW m \in Message, m.request = r, queue'[a] = Append(queue[a], m),
         \A w \in workers' : w.agent = a => w \in workers,
         UNCHANGED <<msg, requestId, agentRequestIds, found>>
  PROVE  WorkIsFor(a, r)'
<1>1. queue[a] \in Seq(Message) /\ Len(queue[a]) \in Nat
  BY DEF IInv, TypeInv, TypeOK
<1>2. \A i \in 1 .. Len(queue'[a]) :
        \/ i \in 1 .. Len(queue[a]) /\ queue'[a][i] = queue[a][i]
        \/ i = Len(queue[a]) + 1 /\ queue'[a][i] = m
  BY <1>1, AppendProperties
<1>3. Begun(a, r)' <=> Begun(a, r)
  BY DEF Begun
<1>4. LeftoversAreAhead(a, r)'
  <2> SUFFICES ASSUME NEW i \in 1 .. Len(queue'[a]), NEW j \in 1 .. Len(queue'[a]),
                      i < j, Asking(queue'[a][i])
               PROVE  queue'[a][j].request = r
    BY DEF LeftoversAreAhead, Asking
  <2>1. CASE queue'[a][j] = m
    BY <2>1
  <2>2. CASE j \in 1 .. Len(queue[a]) /\ queue'[a][j] = queue[a][j]
    <3>1. i \in 1 .. Len(queue[a]) /\ queue'[a][i] = queue[a][i]
      BY <1>1, <1>2, <2>2
    <3> QED
      BY <2>2, <3>1 DEF WorkIsFor, LeftoversAreAhead
  <2> QED
    BY <1>2, <2>1, <2>2
<1> QED
  BY <1>2, <1>3, <1>4 DEF WorkIsFor, WorkersAreFor, AskedOnlyFor, LeftoversAreGone

\* While r is open, the work its agent has and takes on is for r.
LEMMA OpenWorkStep ==
  ASSUME IInv, IInv', Serial, NEW a \in Agents, NEW r \in Requests,
         Listening(r), target[r] = a, WorkIsFor(a, r), Step
  PROVE  WorkIsFor(a, r)'
<1> USE NoneAssumption DEF handlerVars, loopVars
<1>1. TypeOK /\ TypeOK'
  BY DEF IInv, TypeInv
<1>2. ASSUME UNCHANGED <<queue, loopVars, workers>>,
             agentRequestIds'[a] \in {agentRequestIds[a], None}
      PROVE  WorkIsFor(a, r)'
  BY <1>2, NothingBegins DEF Begun
<1>3. ASSUME NEW b \in Agents, b # a, LoopStep(b) PROVE WorkIsFor(a, r)'
  <2>1. /\ queue'[a] = queue[a] /\ msg'[a] = msg[a] /\ requestId'[a] = requestId[a]
        /\ agentRequestIds'[a] = agentRequestIds[a] /\ found'[a] = found[a]
        /\ \A w \in workers' : w.agent = a => w \in workers
    BY <1>1, <1>3 DEF LoopStep, Exit, StopLoop, TakeMessage, BeginMessage, StoreRequestId,
         StartWorker, LookUpRequest, FinalResult, GuestReturns, GuestFails, ReportError, Unmap,
         Stored, Unmapped, TypeOK
  <2> QED
    BY <2>1, NothingBegins DEF Begun
<1>4. ASSUME NEW s \in Requests, SendCall(s) PROVE WorkIsFor(a, r)'
  <2>1. UNCHANGED <<loopVars, agentRequestIds, workers>>
    BY <1>4 DEF SendCall
  <2>2. CASE queue' = queue \/ target[s] # a
    <3>1. queue'[a] = queue[a]
      BY <1>1, <1>4, <2>2 DEF SendCall, TypeOK
    <3> QED
      BY <2>1, <3>1, NothingBegins DEF Begun
  <2>3. CASE queue' # queue /\ target[s] = a
    <3>1. s = r
      BY <1>4, <2>3 DEF SendCall, Serial, OneOpenCall, Listening
    <3>2. PICK m : m = [kind |-> "mcp_request", request |-> s]
      OBVIOUS
    <3>3. queue'[a] = Append(queue[a], m)
      BY <1>1, <1>4, <2>3, <3>2 DEF SendCall, TypeOK
    <3>4. m \in Message /\ m.request = r
      BY <3>1, <3>2 DEF Message
    <3> QED
      BY <2>1, <3>3, <3>4, OneMoreFor
  <2> QED
    BY <2>2, <2>3
<1>5. ASSUME NEW s \in Requests, Receive(s) \/ CleanUp(s) \/ Timeout(s) PROVE WorkIsFor(a, r)'
  BY <1>1, <1>2, <1>5 DEF Receive, CleanUp, Timeout, ForgetRequest, TypeOK
<1>6. CASE Exit(a)
  <2>1. /\ queue'[a] = <<>> /\ msg'[a] = None
        /\ UNCHANGED <<requestId, agentRequestIds, found, workers>>
    BY <1>1, <1>6 DEF Exit, StopLoop, TypeOK
  <2> QED
    BY <2>1 DEF WorkIsFor, WorkersAreFor, AskedOnlyFor, LeftoversAreAhead, LeftoversAreGone
<1>7. CASE TakeMessage(a)
  <2>1. /\ queue[a] # <<>> /\ queue'[a] = Tail(queue[a]) /\ msg'[a] = Head(queue[a])
        /\ UNCHANGED <<requestId, agentRequestIds, found, workers>>
    BY <1>1, <1>7 DEF TakeMessage, TypeOK
  <2>2. queue[a] \in Seq(Message)
    BY <1>1 DEF TypeOK
  <2>3. /\ Len(queue[a]) \in Nat /\ 1 \in 1 .. Len(queue[a])
        /\ \A i \in 1 .. Len(queue'[a]) : /\ i \in Nat /\ i + 1 \in 1 .. Len(queue[a])
                                          /\ queue'[a][i] = queue[a][i + 1]
    BY <2>1, <2>2, HeadTailProperties, LenProperties
  <2>4. msg'[a] = queue[a][1]
    BY <2>1, <2>2, HeadElement
  <2>5. WorkersAreFor(a, r)' /\ AskedOnlyFor(a, r)'
    BY <2>1, <2>3, <2>4 DEF WorkIsFor, WorkersAreFor, AskedOnlyFor
  <2>6. LeftoversAreAhead(a, r)'
    <3> SUFFICES ASSUME NEW i \in 1 .. Len(queue'[a]), NEW j \in 1 .. Len(queue'[a]),
                        i < j, Asking(queue'[a][i])
                 PROVE  queue'[a][j].request = r
      BY DEF LeftoversAreAhead, Asking
    <3>1. /\ i + 1 \in 1 .. Len(queue[a]) /\ j + 1 \in 1 .. Len(queue[a]) /\ i + 1 < j + 1
          /\ queue'[a][i] = queue[a][i + 1] /\ queue'[a][j] = queue[a][j + 1]
      BY <2>3
    <3> QED
      BY <3>1 DEF WorkIsFor, LeftoversAreAhead
  <2>7. LeftoversAreGone(a, r)'
    <3>1. CASE Asking(queue[a][1])
      <4>1. queue[a][1].request = r
        BY <2>3, <3>1 DEF WorkIsFor, AskedOnlyFor
      <4>2. \A i \in 1 .. Len(queue'[a]) : 1 < i + 1 /\ queue'[a][i].request = r
        BY <2>3, <3>1 DEF WorkIsFor, LeftoversAreAhead
      <4> QED
        BY <2>4, <4>1, <4>2 DEF LeftoversAreGone
    <3>2. CASE ~Asking(queue[a][1])
      <4>1. Begun(a, r)' => Begun(a, r)
        BY <2>1, <2>4, <3>2 DEF Begun, Asking
      <4> QED
        BY <2>3, <2>4, <4>1 DEF WorkIsFor, LeftoversAreGone
    <3> QED
      BY <3>1, <3>2
  <2> QED
    BY <2>5, <2>6, <2>7 DEF WorkIsFor
<1>8. ASSUME BeginMessage(a) \/ StoreRequestId(a) \/ LookUpRequest(a) \/ FinalResult(a)
             \/ GuestReturns(a) \/ GuestFails(a) \/ ReportError(a) \/ Unmap(a)
      PROVE  WorkIsFor(a, r)'
  <2>1. /\ queue' = queue /\ workers' = workers /\ msg'[a] \in {msg[a], None}
        /\ requestId'[a] \in {requestId[a], None} \/ BeginMessage(a)
        /\ agentRequestIds'[a] \in {agentRequestIds[a], None} \/ StoreRequestId(a)
        /\ found'[a] \in {found[a], agentRequestIds[a], None}
    BY <1>1, <1>8 DEF BeginMessage, StoreRequestId, LookUpRequest, FinalResult, GuestReturns,
         GuestFails, ReportError, Unmap, Unmapped, Entry, TypeOK
  <2>2. CASE BeginMessage(a)
    <3>1. /\ UNCHANGED <<agentRequestIds, found>> /\ msg' = msg /\ msg[a] # None
          /\ requestId' = requestId \/ Asking(msg[a])
      BY <2>2 DEF BeginMessage, IInv, TypeInv, HasMessage, Asking
    <3> QED
      BY <2>1, <3>1, NothingBegins DEF Begun
  <2>3. CASE StoreRequestId(a)
    <3>1. /\ UNCHANGED <<requestId, found>> /\ msg' = msg
          /\ agentRequestIds'[a] = requestId[a]
      BY <1>1, <2>3 DEF StoreRequestId, Stored, IInv, Kept, StoresItsRequest, TypeOK
    <3> QED
      BY <2>1, <3>1, NothingBegins DEF Begun
  <2>4. CASE ~BeginMessage(a) /\ ~StoreRequestId(a)
    <3>1. Begun(a, r)' => Begun(a, r)
      BY <2>1, <2>4 DEF Begun
    <3> QED
      BY <2>1, <3>1, NothingBegins
  <2> QED
    BY <2>2, <2>3, <2>4
<1>9. CASE StartWorker(a)
  <2>1. /\ UNCHANGED <<queue, requestId, agentRequestIds, found, msg>>
        /\ msg[a] # None /\ Asking(msg[a])
        /\ workers' = workers \cup {[agent |-> a, request |-> msg[a].request]}
    BY <1>9 DEF StartWorker, IInv, TypeInv, HasMessage, Asking
  <2>2. WorkersAreFor(a, r)'
    BY <2>1 DEF WorkIsFor, WorkersAreFor, AskedOnlyFor
  <2> QED
    BY <2>1, <2>2 DEF WorkIsFor, AskedOnlyFor, LeftoversAreAhead, LeftoversAreGone, Begun
<1>10. ASSUME NEW w \in workers, WorkerSends(w) PROVE WorkIsFor(a, r)'
  <2>1. UNCHANGED <<loopVars, agentRequestIds>> /\ workers' = workers \ {w}
    BY <1>10 DEF WorkerSends
  <2>2. CASE queue'[a] = queue[a]
    BY <2>1, <2>2, NothingBegins DEF Begun
  <2>3. CASE queue'[a] # queue[a]
    <3>1. PICK m : m = [kind |-> "callback", request |-> w.request]
      OBVIOUS
    <3>2. w.agent = a /\ queue'[a] = Append(queue[a], m)
      BY <1>1, <1>10, <2>3, <3>1 DEF WorkerSends, TypeOK
    <3>3. m \in Message /\ m.request = r
      BY <1>1, <3>1, <3>2 DEF WorkIsFor, WorkersAreFor, Message, TypeOK, Worker
    <3> QED
      BY <2>1, <3>2, <3>3, OneMoreFor
  <2> QED
    BY <2>2, <2>3
<1>11. CASE SignalShutdown \/ Terminated
  BY <1>2, <1>11 DEF SignalShutdown, Terminated, vars
<1> QED
  BY <1>3, <1>4, <1>5, <1>6, <1>7, <1>8, <1>9, <1>10, <1>11 DEF Step, HandlerStep, LoopStep

\* An agent that has no work has none for anyone but the call that is opened.
LEMMA OpenStep ==
  ASSUME IInv, Serial, NEW r \in Requests, NEW t \in Tools, t \in DOMAIN agentChannels,
         WorkDone(agentChannels[t]), OpenCall(r, t)
  PROVE  Serial'
<1> DEFINE a == agentChannels[t]
<1>1. /\ TypeOK /\ a \in Agents /\ call[r] = "idle"
      /\ call' = [call EXCEPT ![r] = "opened"] /\ target' = [target EXCEPT ![r] = a]
      /\ UNCHANGED <<response, agentRequestIds, queue, requestId, msg, found, workers>>
  BY DEF IInv, TypeInv, TypeOK, OpenCall, loopVars
<1>2. \A s \in Requests : s # r => call'[s] = call[s] /\ target'[s] = target[s]
  BY <1>1 DEF TypeOK
<1>3. target'[r] = a /\ \A s \in Requests : s # r /\ target[s] = a => ~Listening(s)
  BY <1>1 DEF TypeOK, WorkDone, EndedCall, Listening
<1>4. OneOpenCall'
  BY <1>2, <1>3 DEF Serial, OneOpenCall, Listening
<1>5. OpenHasAgent'
  BY <1>1, <1>2, <1>3 DEF Serial, OpenHasAgent, Listening
<1>6. WorkIsFor(a, r)
  <2>1. requestId[a] # r /\ agentRequestIds[a] # r /\ found[a] # r
    <3>1. target[r] = None
      BY <1>1 DEF IInv, Own, IdleHasNoTarget
    <3> QED
      BY <1>1, <3>1, NoneAssumption DEF IInv, Own, RequestIdIsOwn, EntryIsOwn, FoundIsOwn
  <2>2. /\ \A w \in workers : w.agent # a
        /\ \A i \in 1 .. Len(queue[a]) : ~Asking(queue[a][i])
        /\ msg[a] # None => ~Asking(msg[a])
    <3>1. queue[a] \in Seq(Message)
      BY <1>1 DEF TypeOK
    <3>2. DOMAIN queue[a] = 1 .. Len(queue[a])
      BY <3>1
    <3> QED
      BY <3>2 DEF WorkDone, Asking
  <2> QED
    BY <2>1, <2>2 DEF WorkIsFor, WorkersAreFor, AskedOnlyFor, LeftoversAreAhead,
                      LeftoversAreGone, Begun
<1>7. OpenIsWorkedOn'
  <2> SUFFICES ASSUME NEW s \in Requests, NEW b \in Agents, Listening(s)', target'[s] = b
               PROVE  WorkIsFor(b, s)'
    BY DEF OpenIsWorkedOn
  <2>1. WorkIsFor(b, s)
    <3>1. CASE s = r
      BY <1>3, <1>6, <3>1
    <3>2. CASE s # r
      BY <1>2, <3>2 DEF Listening, Serial, OpenIsWorkedOn
    <3> QED
      BY <3>1, <3>2
  <2>2. /\ queue'[b] = queue[b] /\ msg'[b] \in {msg[b], None} /\ workers' = workers
        /\ Begun(b, s)' => Begun(b, s)
    BY <1>1 DEF Begun
  <2> QED
    BY <2>1, <2>2, NothingBegins
<1> QED
  BY <1>1, <1>4, <1>5, <1>7 DEF Serial, OwnAnswer

\* The agent answers for the call whose work it has in hand.
LEMMA PostIsOwn ==
  ASSUME IInv, Serial, NEW a \in Agents, NEW x, x = None \/ (x \in Requests /\ Begun(a, x)),
         x # None => target[x] = a, msg[a] # None, Post(a, x)
  PROVE  OwnAnswer'
<1>1. TypeOK
  BY DEF IInv, TypeInv
<1>2. CASE response' = response
  BY <1>2 DEF Serial, OwnAnswer
<1>3. CASE x \in responseChannels /\ Listening(x)
  <2>1. x \in Requests /\ Begun(a, x)
    BY <1>1, <1>3, NoneAssumption DEF TypeOK
  <2>2. msg[a].request = x
    BY <1>3, <2>1, NoneAssumption DEF Serial, OpenIsWorkedOn, WorkIsFor, LeftoversAreGone
  <2>3. response' = [response EXCEPT ![x] = [agent |-> a, work |-> x]]
    BY <1>3, <2>2 DEF Post
  <2> QED
    BY <1>1, <2>1, <2>3 DEF Serial, OwnAnswer, TypeOK
<1> QED
  BY <1>2, <1>3 DEF Post

LEMMA OwnAnswerStep ==
  ASSUME IInv, Serial, Step
  PROVE  OwnAnswer'
<1> USE NoneAssumption DEF handlerVars, loopVars
<1>1. CASE UNCHANGED response
  BY <1>1 DEF Serial, OwnAnswer
<1>2. ASSUME NEW a \in Agents, FinalResult(a) PROVE OwnAnswer'
  <2>1. msg[a] # None /\ Post(a, found[a]) /\ found[a] \in Requests \cup {None}
    BY <1>2 DEF FinalResult, IInv, TypeInv, TypeOK, HasMessage
  <2>2. found[a] # None => target[found[a]] = a
    BY DEF IInv, Own, FoundIsOwn
  <2>3. found[a] # None => Begun(a, found[a])
    BY DEF Begun
  <2> QED
    BY <2>1, <2>2, <2>3, PostIsOwn
<1>3. ASSUME NEW a \in Agents, ReportError(a) PROVE OwnAnswer'
  <2>1. CASE requestId[a] = None
    BY <1>1, <1>3, <2>1 DEF ReportError
  <2>2. CASE requestId[a] # None
    <3>1. msg[a] # None /\ Post(a, requestId[a]) /\ requestId[a] \in Requests
      BY <1>3, <2>2 DEF ReportError, IInv, TypeInv, TypeOK, HasMessage
    <3>2. target[requestId[a]] = a /\ Begun(a, requestId[a])
      BY <2>2 DEF IInv, Own, RequestIdIsOwn, Begun
    <3> QED
      BY <3>1, <3>2, PostIsOwn
  <2> QED
    BY <2>1, <2>2
<1>4. ASSUME NEW a \in Agents, LoopStep(a) PROVE OwnAnswer'
  BY <1>1, <1>2, <1>3, <1>4 DEF LoopStep, Exit, StopLoop, TakeMessage, BeginMessage,
       StoreRequestId, StartWorker, LookUpRequest, GuestReturns, GuestFails, Unmap
<1>5. ASSUME NEW r \in Requests, HandlerStep(r) \/ Timeout(r) PROVE OwnAnswer'
  BY <1>1, <1>5 DEF HandlerStep, SendCall, Receive, CleanUp, Timeout
<1>6. ASSUME NEW w \in workers, WorkerSends(w) PROVE OwnAnswer'
  BY <1>1, <1>6 DEF WorkerSends
<1>7. CASE SignalShutdown \/ Terminated
  BY <1>1, <1>7 DEF SignalShutdown, Terminated, vars
<1> QED
  BY <1>4, <1>5, <1>6, <1>7 DEF Step

LEMMA SerialStep == IInv /\ IInv' /\ Serial /\ [SerialNext]_vars => Serial'
<1> SUFFICES ASSUME IInv, IInv', Serial, [SerialNext]_vars PROVE Serial'
  OBVIOUS
<1> USE DEF handlerVars, loopVars
<1>1. ASSUME NEW r \in Requests, NEW t \in Tools, RejectCall(r, t) PROVE Serial'
  <2>1. /\ UNCHANGED <<target, response, agentRequestIds, queue, requestId, msg, found, workers>>
        /\ \A s \in Requests : Listening(s)' => Listening(s)
    BY <1>1 DEF RejectCall, IInv, TypeInv, TypeOK, Listening
  <2>2. OpenIsWorkedOn'
    <3> SUFFICES ASSUME NEW s \in Requests, NEW a \in Agents, Listening(s)', target'[s] = a
                 PROVE  WorkIsFor(a, s)'
      BY DEF OpenIsWorkedOn
    <3>1. WorkIsFor(a, s)
      BY <2>1 DEF Serial, OpenIsWorkedOn
    <3> QED
      BY <2>1, <3>1, NothingBegins DEF Begun
  <2> QED
    BY <2>1, <2>2 DEF Serial, OneOpenCall, OpenHasAgent, OwnAnswer
<1>2. CASE UNCHANGED vars
  BY <1>2 DEF vars, Serial, OneOpenCall, OpenHasAgent, OwnAnswer, OpenIsWorkedOn, Listening,
       WorkIsFor, WorkersAreFor, AskedOnlyFor, LeftoversAreAhead, LeftoversAreGone, Begun
<1>3. CASE Step
  <2>1. UNCHANGED target /\ \A r \in Requests : Listening(r)' => Listening(r)
    <3>1. ASSUME NEW r \in Requests, HandlerStep(r) \/ Timeout(r)
          PROVE  UNCHANGED target /\ \A s \in Requests : Listening(s)' => Listening(s)
      BY <3>1 DEF HandlerStep, SendCall, Receive, CleanUp, Timeout, Listening, IInv, TypeInv, TypeOK
    <3>2. ASSUME NEW a \in Agents, LoopStep(a) PROVE UNCHANGED <<target, call>>
      BY <3>2 DEF LoopStep, Exit, StopLoop, TakeMessage, BeginMessage, StoreRequestId,
           StartWorker, LookUpRequest, FinalResult, GuestReturns, GuestFails, ReportError, Unmap
    <3>3. ASSUME NEW w \in workers, WorkerSends(w) PROVE UNCHANGED <<target, call>>
      BY <3>3 DEF WorkerSends
    <3>4. CASE SignalShutdown \/ Terminated
      BY <3>4 DEF SignalShutdown, Terminated, vars, Listening
    <3> QED
      BY <1>3, <3>1, <3>2, <3>3, <3>4 DEF Step, Listening
  <2>2. OneOpenCall' /\ OpenHasAgent'
    BY <2>1 DEF Serial, OneOpenCall, OpenHasAgent
  <2>3. OpenIsWorkedOn'
    <3> SUFFICES ASSUME NEW r \in Requests, NEW a \in Agents, Listening(r)', target'[r] = a
                 PROVE  WorkIsFor(a, r)'
      BY DEF OpenIsWorkedOn
    <3>1. Listening(r) /\ target[r] = a
      BY <2>1
    <3>2. WorkIsFor(a, r)
      BY <3>1 DEF Serial, OpenIsWorkedOn
    <3> QED
      BY <1>3, <3>1, <3>2, OpenWorkStep
  <2> QED
    BY <1>3, <2>2, <2>3, OwnAnswerStep DEF Serial
<1> QED
  BY <1>1, <1>2, <1>3, OpenStep DEF SerialNext

(* With a client that calls a tool again only when no work of an earlier call  *)
(* is left to start or come back, every answer is the work of its own call,    *)
(* although time limits leave callbacks in the queue and entries in the maps.  *)
THEOREM OwnAnswers == SerialSpec => []OwnAnswer
<1>1. Init => IInv /\ Serial
  BY TypeInit, OwnInit, KeptInit, SerialInit DEF IInv
<1>2. IInv /\ [SerialNext]_vars => IInv'
  BY SerialIsNext, TypeStep, OwnStep, KeptStep DEF IInv
<1>3. Serial => OwnAnswer
  BY DEF Serial
<1> QED
  BY <1>1, <1>2, <1>3, SerialStep, PTL DEF SerialSpec
=============================================================================

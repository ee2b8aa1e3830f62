--------------------------- MODULE AgentRequests ---------------------------
(***************************************************************************)
(* One MCP tool call from the HTTP handler to the agent and back.          *)
(*                                                                         *)
(* The handler (mcp_handler.rs) opens a one-shot response channel under a  *)
(* fresh request id, puts a message on the queue of the agent that serves  *)
(* the tool and waits.  The agent's event loop (agent.rs) takes one        *)
(* message at a time, remembers the request id in agent.request_id and in  *)
(* the global MCP_AGENT_REQUEST_IDS, and calls its guest.  The guest starts*)
(* a host function on a worker thread, whose result comes back through the *)
(* same queue as a callback; the callback calls FinalResult, which finds   *)
(* the request to answer by looking the AGENT up in the map.               *)
(*                                                                         *)
(* Every action is one critical section of one thread.                     *)
(***************************************************************************)
EXTENDS Naturals, Sequences

CONSTANTS Requests,   \* request ids; the code draws a fresh uuid per call
          Agents,     \* the agents, one thread each
          Tools,      \* tool names a client may call, known or not
          None        \* the absence of a request, an agent or a message

\* agent.name, the tool an agent serves.
CONSTANT ToolName

ASSUME ToolNameAssumption == ToolName \in [Agents -> Tools]

VARIABLES
  agentChannels,      \* McpServerManager.agent_channels: tool name -> agent
  call,               \* where the handler of each request is
  target,             \* the agent the handler sent the request to
  response,           \* what was put in the one-shot channel of a request
  responseChannels,   \* the keys of MCP_RESPONSE_CHANNELS
  agentRequestIds,    \* MCP_AGENT_REQUEST_IDS, None where there is no entry
  queue,              \* the messages between agent.tx and agent.rx
  requestId,          \* agent.request_id
  pc,                 \* where the event loop of each agent is
  msg,                \* the message the event loop is handling
  found,              \* the request id FinalResult looked up
  workers,            \* host functions running on threads of their own
  shutdown,           \* the shutdown flag of main
  ticket, issued      \* history: the order in which requests were sent

handlerVars == <<call, target, ticket, issued>>
loopVars == <<requestId, pc, msg, found>>
vars == <<agentChannels, call, target, response, responseChannels, agentRequestIds,
          queue, requestId, pc, msg, found, workers, shutdown, ticket, issued>>

-----------------------------------------------------------------------------
(* A queue element is (Some(content), callback_name).  The field request is *)
(* the request id of a "mcp_request:..." message; in a callback message it   *)
(* is not part of the content: it records which request started the worker. *)
Message == [kind : {"mcp_request", "callback"}, request : Requests]
Worker == [agent : Agents, request : Requests]
Response == [agent : Agents, work : Requests]

ASSUME NoneAssumption ==
  /\ None \notin Requests \cup Agents
  /\ None \notin Message \cup Response

CallState == {"idle", "opened", "waiting", "received", "answered",
              "notFound", "sendFailed", "timedOut"}
LoopState == {"poll", "taken", "store", "guest", "final", "returned",
              "failed", "unmap", "exited"}

RegisteredTools == {ToolName[a] : a \in Agents}

\* main registers every agent before the server starts: one of the agents of
\* a name, the one registered last, is reached under that name.
Init ==
  /\ agentChannels \in [RegisteredTools -> Agents]
  /\ \A t \in DOMAIN agentChannels : ToolName[agentChannels[t]] = t
  /\ call = [r \in Requests |-> "idle"]
  /\ target = [r \in Requests |-> None]
  /\ response = [r \in Requests |-> None]
  /\ responseChannels = {}
  /\ agentRequestIds = [a \in Agents |-> None]
  /\ queue = [a \in Agents |-> <<>>]
  /\ requestId = [a \in Agents |-> None]
  /\ pc = [a \in Agents |-> "poll"]
  /\ msg = [a \in Agents |-> None]
  /\ found = [a \in Agents |-> None]
  /\ workers = {}
  /\ shutdown = FALSE
  /\ ticket = [r \in Requests |-> 0]
  /\ issued = 0

-----------------------------------------------------------------------------
(* The MCP handler, one task per call.                                      *)

\* No agent is registered under the tool name.
RejectCall(r, t) ==
  /\ call[r] = "idle"
  /\ t \notin DOMAIN agentChannels
  /\ call' = [call EXCEPT ![r] = "notFound"]
  /\ UNCHANGED <<agentChannels, target, response, responseChannels, agentRequestIds,
                 queue, loopVars, workers, shutdown, ticket, issued>>

\* Find the agent and publish the sender of a new one-shot channel.
OpenCall(r, t) ==
  /\ call[r] = "idle"
  /\ t \in DOMAIN agentChannels
  /\ call' = [call EXCEPT ![r] = "opened"]
  /\ target' = [target EXCEPT ![r] = agentChannels[t]]
  /\ responseChannels' = responseChannels \cup {r}
  /\ UNCHANGED <<agentChannels, response, agentRequestIds, queue, loopVars,
                 workers, shutdown, ticket, issued>>

\* Mutant: the handler stores the request id, not the event loop.
SendAndStore(r) ==
  /\ call[r] = "opened" /\ pc[target[r]] # "exited"
  /\ call' = [call EXCEPT ![r] = "waiting"]
  /\ queue' = [queue EXCEPT ![target[r]] =
                 Append(@, [kind |-> "mcp_request", request |-> r])]
  /\ agentRequestIds' = [agentRequestIds EXCEPT ![target[r]] = r]
  /\ UNCHANGED <<agentChannels, target, response, responseChannels, loopVars,
                 workers, shutdown, ticket, issued>>

\* agent_tx.send: fails once the event loop has dropped its receiver, and the
\* response channel then stays in the map.
SendCall(r) ==
  /\ call[r] = "opened"
  /\ IF pc[target[r]] = "exited"
       THEN /\ call' = [call EXCEPT ![r] = "sendFailed"]
            /\ UNCHANGED <<queue, ticket, issued>>
       ELSE /\ call' = [call EXCEPT ![r] = "waiting"]
            /\ queue' = [queue EXCEPT ![target[r]] =
                           Append(@, [kind |-> "mcp_request", request |-> r])]
            /\ ticket' = [ticket EXCEPT ![r] = issued + 1]
            /\ issued' = issued + 1
  /\ UNCHANGED <<agentChannels, target, response, responseChannels, agentRequestIds,
                 loopVars, workers, shutdown>>

\* wait_for_response gives up.  The answer may have been sent between the last
\* poll of the receiver and its drop; it is lost then.  Neither map is cleaned.
Timeout(r) ==
  /\ call[r] = "waiting"
  /\ call' = [call EXCEPT ![r] = "timedOut"]
  /\ UNCHANGED <<agentChannels, target, response, responseChannels, agentRequestIds,
                 queue, loopVars, workers, shutdown, ticket, issued>>

Receive(r) ==
  /\ call[r] = "waiting"
  /\ response[r] # None
  /\ call' = [call EXCEPT ![r] = "received"]
  /\ UNCHANGED <<agentChannels, target, response, responseChannels, agentRequestIds,
                 queue, loopVars, workers, shutdown, ticket, issued>>

\* Mutant: the cleanup forgets the agent instead of this request.
ForgetAgentOf(r) == [agentRequestIds EXCEPT ![target[r]] = None]

\* Mutant: the cleanup leaves the map of request ids alone.
ForgetNothing(r) == agentRequestIds

\* The dangling entries of this request, and of no other, leave the map.
ForgetRequest(r) ==
  [a \in Agents |-> IF agentRequestIds[a] = r THEN None ELSE agentRequestIds[a]]

\* Both locks are held from here to the return.
CleanUp(r) ==
  /\ call[r] = "received"
  /\ responseChannels' = responseChannels \ {r}
  /\ agentRequestIds' = ForgetRequest(r)
  /\ call' = [call EXCEPT ![r] = "answered"]
  /\ UNCHANGED <<agentChannels, target, response, queue, loopVars, workers,
                 shutdown, ticket, issued>>

-----------------------------------------------------------------------------
(* The event loop, one thread per agent.                                     *)

\* The agent with its receiver is dropped: what is queued is lost.
StopLoop(a) ==
  /\ pc' = [pc EXCEPT ![a] = "exited"]
  /\ queue' = [queue EXCEPT ![a] = <<>>]
  /\ msg' = [msg EXCEPT ![a] = None]
  /\ UNCHANGED <<handlerVars, agentChannels, response, responseChannels,
                 agentRequestIds, requestId, found, workers, shutdown>>

\* Mutant: the flag is looked at only when a message has arrived.
ExitWhenTaken(a) == pc[a] = "taken" /\ shutdown /\ StopLoop(a)

\* The flag is read at the head of the loop and again when a message has been
\* taken from the queue, which is then dropped.
Exit(a) == pc[a] \in {"poll", "taken"} /\ shutdown /\ StopLoop(a)

TakeMessage(a) ==
  /\ pc[a] = "poll"
  /\ ~shutdown
  /\ queue[a] # <<>>
  /\ msg' = [msg EXCEPT ![a] = Head(queue[a])]
  /\ queue' = [queue EXCEPT ![a] = Tail(@)]
  /\ pc' = [pc EXCEPT ![a] = "taken"]
  /\ UNCHANGED <<handlerVars, agentChannels, response, responseChannels,
                 agentRequestIds, requestId, found, workers, shutdown>>

\* A request message sets agent.request_id; a callback message leaves it.
BeginMessage(a) ==
  /\ pc[a] = "taken"
  /\ ~shutdown
  /\ IF msg[a].kind = "mcp_request"
       THEN /\ requestId' = [requestId EXCEPT ![a] = msg[a].request]
            /\ pc' = [pc EXCEPT ![a] = "store"]
       ELSE /\ pc' = [pc EXCEPT ![a] = "guest"]
            /\ UNCHANGED requestId
  /\ UNCHANGED <<handlerVars, agentChannels, response, responseChannels,
                 agentRequestIds, queue, msg, found, workers, shutdown>>

\* Mutant: key and value are swapped.
StoreSwapped(a) == [agentRequestIds EXCEPT ![a] = a]

\* Mutant: the map keeps the entry it has.
StoreIfAbsent(a) ==
  IF agentRequestIds[a] = None
    THEN [agentRequestIds EXCEPT ![a] = msg[a].request] ELSE agentRequestIds

Stored(a) == [agentRequestIds EXCEPT ![a] = msg[a].request]

StoreRequestId(a) ==
  /\ pc[a] = "store"
  /\ agentRequestIds' = Stored(a)
  /\ pc' = [pc EXCEPT ![a] = "guest"]
  /\ UNCHANGED <<handlerVars, agentChannels, response, responseChannels, queue,
                 requestId, msg, found, workers, shutdown>>

-----------------------------------------------------------------------------
(* The guest: Run starts one host function, a callback calls FinalResult.    *)

\* The host function's body: spawn a thread that will send to agent.tx.
StartWorker(a) ==
  /\ pc[a] = "guest"
  /\ msg[a].kind = "mcp_request"
  /\ workers' = workers \cup {[agent |-> a, request |-> msg[a].request]}
  /\ pc' = [pc EXCEPT ![a] = "returned"]
  /\ UNCHANGED <<handlerVars, agentChannels, response, responseChannels,
                 agentRequestIds, queue, requestId, msg, found, shutdown>>

\* Mutant: the entry of whichever agent has one.
AnyEntry(a) == IF \E b \in Agents : agentRequestIds[b] # None
                 THEN agentRequestIds[CHOOSE b \in Agents : agentRequestIds[b] # None]
                 ELSE None

Entry(a) == agentRequestIds[a]

\* FinalResult, first lock: the request id stored for the agent.
LookUpRequest(a) ==
  /\ pc[a] = "guest"
  /\ msg[a].kind = "callback"
  /\ found' = [found EXCEPT ![a] = Entry(a)]
  /\ pc' = [pc EXCEPT ![a] = "final"]
  /\ UNCHANGED <<handlerVars, agentChannels, response, responseChannels,
                 agentRequestIds, queue, requestId, msg, workers, shutdown>>

\* The handler of r still holds the receiver.
Listening(r) == call[r] \in {"opened", "waiting"}

\* Mutant: the sender is used without leaving the map.
PostAndKeep(a, r) ==
  /\ response' = IF r \in responseChannels /\ Listening(r)
                   THEN [response EXCEPT ![r] = [agent |-> a, work |-> msg[a].request]]
                   ELSE response
  /\ UNCHANGED responseChannels

\* Take the sender of r out of the map and send; if the handler has gone the
\* send fails and the message is lost.
Post(a, r) ==
  /\ responseChannels' = responseChannels \ {r}
  /\ response' = IF r \in responseChannels /\ Listening(r)
                   THEN [response EXCEPT ![r] = [agent |-> a, work |-> msg[a].request]]
                   ELSE response

\* FinalResult, second lock.
FinalResult(a) ==
  /\ pc[a] = "final"
  /\ Post(a, found[a])
  /\ found' = [found EXCEPT ![a] = None]
  /\ pc' = [pc EXCEPT ![a] = "returned"]
  /\ UNCHANGED <<handlerVars, agentChannels, agentRequestIds, queue, requestId,
                 msg, workers, shutdown>>

\* The guest call returns Ok: nothing more happens, FinalResult has answered.
GuestReturns(a) ==
  /\ pc[a] = "returned"
  /\ pc' = [pc EXCEPT ![a] = "poll"]
  /\ msg' = [msg EXCEPT ![a] = None]
  /\ UNCHANGED <<handlerVars, agentChannels, response, responseChannels,
                 agentRequestIds, queue, requestId, found, workers, shutdown>>

\* The guest call returns Err, before or after its host function: bad
\* parameters, an unknown action, a fault in the sandbox.
GuestFails(a) ==
  /\ pc[a] \in {"guest", "returned"}
  /\ pc' = [pc EXCEPT ![a] = "failed"]
  /\ UNCHANGED <<handlerVars, agentChannels, response, responseChannels,
                 agentRequestIds, queue, requestId, msg, found, workers, shutdown>>

\* handle_callback_result, Err: the error goes to agent.request_id.
ReportError(a) ==
  /\ pc[a] = "failed"
  /\ IF requestId[a] = None
       THEN /\ pc' = [pc EXCEPT ![a] = "poll"]
            /\ msg' = [msg EXCEPT ![a] = None]
            /\ UNCHANGED <<response, responseChannels>>
       ELSE /\ Post(a, requestId[a])
            /\ pc' = [pc EXCEPT ![a] = "unmap"]
            /\ UNCHANGED msg
  /\ UNCHANGED <<handlerVars, agentChannels, agentRequestIds, queue, requestId,
                 found, workers, shutdown>>

\* Mutant: the entry of the map survives the error.
KeepEntry(a) == agentRequestIds

Unmapped(a) == [agentRequestIds EXCEPT ![a] = None]

Unmap(a) ==
  /\ pc[a] = "unmap"
  /\ agentRequestIds' = Unmapped(a)
  /\ requestId' = [requestId EXCEPT ![a] = None]
  /\ pc' = [pc EXCEPT ![a] = "poll"]
  /\ msg' = [msg EXCEPT ![a] = None]
  /\ UNCHANGED <<handlerVars, agentChannels, response, responseChannels, queue,
                 found, workers, shutdown>>

-----------------------------------------------------------------------------
\* A worker thread has its result, or the text of its error, and sends it.
WorkerSends(w) ==
  /\ w \in workers
  /\ workers' = workers \ {w}
  /\ queue' = IF pc[w.agent] = "exited" THEN queue
              ELSE [queue EXCEPT ![w.agent] =
                      Append(@, [kind |-> "callback", request |-> w.request])]
  /\ UNCHANGED <<handlerVars, agentChannels, response, responseChannels,
                 agentRequestIds, loopVars, shutdown>>

\* main, after Ctrl+C and the end of the VM manager.
SignalShutdown ==
  /\ ~shutdown
  /\ shutdown' = TRUE
  /\ UNCHANGED <<handlerVars, agentChannels, response, responseChannels,
                 agentRequestIds, queue, loopVars, workers>>

EndedCall == {"answered", "notFound", "sendFailed", "timedOut"}

\* Every thread has ended: the only state in which nothing is left to do.
Terminated ==
  /\ \A r \in Requests : call[r] \in EndedCall
  /\ \A a \in Agents : pc[a] = "exited"
  /\ workers = {}
  /\ UNCHANGED vars

HandlerStep(r) == SendCall(r) \/ Receive(r) \/ CleanUp(r)
LoopStep(a) == Exit(a) \/ TakeMessage(a) \/ BeginMessage(a) \/ StoreRequestId(a)
               \/ StartWorker(a) \/ LookUpRequest(a) \/ FinalResult(a)
               \/ GuestReturns(a) \/ GuestFails(a) \/ ReportError(a) \/ Unmap(a)

Step == \/ \E r \in Requests : HandlerStep(r) \/ Timeout(r)
        \/ \E a \in Agents : LoopStep(a)
        \/ \E w \in workers : WorkerSends(w)
        \/ SignalShutdown
        \/ Terminated

Next == \/ \E r \in Requests, t \in Tools : RejectCall(r, t) \/ OpenCall(r, t)
        \/ Step

Spec == Init /\ [][Next]_vars

\* Every thread is scheduled, a guest call returns and a host function ends
\* (its HTTP, socket and VM waits have time limits).  No fairness for new
\* calls, for the time limit of 120 s or for Ctrl+C.
Fairness == /\ \A r \in Requests : WF_vars(HandlerStep(r))
            /\ \A a \in Agents : WF_vars(LoopStep(a))
            /\ \A w \in Worker : WF_vars(WorkerSends(w))

FairSpec == Spec /\ Fairness

\* A client that calls a tool only when no work of an earlier call can still be
\* started or come back: no call of the agent is open, and none, a timed out one
\* included, is queued, in the guest or with a worker.  Callbacks may be queued.
WorkDone(a) ==
  /\ \A r \in Requests : target[r] = a => call[r] \in EndedCall
  /\ \A w \in workers : w.agent # a
  /\ \A i \in DOMAIN queue[a] : queue[a][i].kind = "callback"
  /\ msg[a] # None => msg[a].kind = "callback"

SerialNext ==
  \/ \E r \in Requests, t \in Tools :
        \/ RejectCall(r, t)
        \/ t \in DOMAIN agentChannels /\ WorkDone(agentChannels[t]) /\ OpenCall(r, t)
  \/ Step

SerialSpec == Init /\ [][SerialNext]_vars /\ Fairness

-----------------------------------------------------------------------------
(* Properties.                                                               *)

\* Every variable holds a value of the code's type.
TypeOK ==
  /\ agentChannels \in [RegisteredTools -> Agents]
  /\ call \in [Requests -> CallState]
  /\ target \in [Requests -> Agents \cup {None}]
  /\ response \in [Requests -> Response \cup {None}]
  /\ responseChannels \in SUBSET Requests
  /\ agentRequestIds \in [Agents -> Requests \cup {None}]
  /\ queue \in [Agents -> Seq(Message)]
  /\ requestId \in [Agents -> Requests \cup {None}]
  /\ pc \in [Agents -> LoopState]
  /\ msg \in [Agents -> Message \cup {None}]
  /\ found \in [Agents -> Requests \cup {None}]
  /\ workers \in SUBSET Worker
  /\ shutdown \in BOOLEAN
  /\ ticket \in [Requests -> Nat]
  /\ issued \in Nat

\* A call is answered only by the agent it was sent to, although FinalResult
\* and the error path reach the response channels through shared maps.
AgentIsolation ==
  \A r \in Requests : response[r] # None => response[r].agent = target[r]

\* The two places where an agent's request is kept agree: the global map has
\* no entry for the agent or the one of agent.request_id, except between the
\* two assignments of the event loop.
MapFollowsAgent ==
  \A a \in Agents : pc[a] # "store" => agentRequestIds[a] \in {None, requestId[a]}

\* While the request an agent works on can still be answered, FinalResult can
\* find it: neither the cleanup of an earlier request, which may run at any
\* time, nor an error of other work takes the entry away.
ActiveRequestIsMapped ==
  \A a \in Agents :
    requestId[a] \in responseChannels /\ pc[a] # "store"
      => agentRequestIds[a] = requestId[a]

\* An answered call leaves nothing in either table, although the event loop stores
\* its request id and the handler cleans up in no agreed order: the entries that
\* pile up are those of calls that timed out or could not be sent.
AnsweredLeavesNothing ==
  \A r \in Requests : call[r] = "answered" =>
    /\ r \notin responseChannels
    /\ \A a \in Agents : agentRequestIds[a] # r

\* What was put in a response channel is not replaced by a second answer,
\* although two pieces of work may both find the same request.
AnswersStay == \A r \in Requests : response[r] # None => response'[r] = response[r]
OneAnswer == [][AnswersStay]_vars

\* Each agent's loop ends once the flag is set, whatever it was doing.
ShutdownStopsAgents == \A a \in Agents : shutdown ~> pc[a] = "exited"

\* A client that waits for earlier work to be done gets the work of its own call,
\* although callbacks of timed out calls may still be queued.  Without that
\* discipline a late result answers the next call.
OwnAnswer ==
  \A r \in Requests : response[r] # None => response[r].work = r

\* Such a client gets an answer, the guest's errors included, unless its time
\* limit passes or the host shuts down.
AnsweredInTime ==
  \A r \in Requests :
    call[r] = "waiting" ~> call[r] \in {"answered", "timedOut"} \/ shutdown

\* What the client sees is what RequestService promises.
Status(r) == CASE call[r] \in {"idle", "opened"} -> "idle"
               [] call[r] = "waiting" -> "pending"
               [] call[r] \in {"received", "answered"} -> "replied"
               [] call[r] \in {"notFound", "sendFailed"} -> "refused"
               [] call[r] = "timedOut" -> "failed"

Service == INSTANCE RequestService WITH
  status <- [r \in Requests |-> Status(r)],
  server <- [r \in Requests |-> IF ticket[r] = 0 THEN None ELSE target[r]],
  reply <- [r \in Requests |-> IF call[r] \in {"received", "answered"}
                                 THEN response[r].work ELSE None]

\* An accepted call gets at most one reply, from its agent, made of work the
\* agent accepted no later than the call.
ServiceSpec == Service!Spec
=============================================================================

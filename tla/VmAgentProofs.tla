--------------------------- MODULE VmAgentProofs ---------------------------
(***************************************************************************)
(* Proofs about VmAgent, for any number of connections, any sizes of       *)
(* requests and pipes and any amount of output.  That the output is        *)
(* complete when the server replies needs what was true when it left the   *)
(* first stream to be true still: nobody who could write was left, and     *)
(* nobody can come, since only a running child starts a process.  The      *)
(* text answered was made of the stream then, and stands for all of it.    *)
(***************************************************************************)
EXTENDS VmAgent, TLAPS

\* A stream the server has left: its pipe is empty, its text in the answer.
Finished(s) == IF s = "stdout" THEN pc \in {"stderr", "reply"} ELSE pc = "reply"

\* The server reads only after the child has ended ...
ReadsAfterChild == pc \in {"stdout", "stderr", "reply"} => process["child"] = "reaped"

\* ... and leaves a stream only when no process is left that could write.
LeavesNoWriter == pc \in {"stderr", "reply"} => process["background"] # "running"

FinishedIsEmpty ==
  \A s \in Streams : Finished(s) => output[s] = written[s] /\ answer[s] = TextOf(s)

OutputInv == ReadsAfterChild /\ LeavesNoWriter /\ FinishedIsEmpty

\* Outside accept the server has a connection.
ServesConnection == pc # "accept" => served \in Connections

TypeInv == TypeOK /\ ServesConnection

IInv == TypeInv /\ OutputInv

-----------------------------------------------------------------------------
\* No output is a possible amount of output.
LEMMA NothingTypes ==
  Nothing \in [Streams -> 0 .. MaxOutput] /\ Nothing \in [Streams -> Nat]
<1>1. 0 \in 0 .. MaxOutput
  BY SizesAssumption
<1> QED
  BY <1>1 DEF Nothing

\* The state after a connection is given up has its types, whatever it was.
LEMMA ReturnTypes ==
  ASSUME Return
  PROVE  /\ served' \in Connections \cup {None}
         /\ pc' \in ServerState
         /\ expired' \in BOOLEAN
         /\ process' \in [Processes -> ProcessState]
         /\ toWrite' \in [Processes -> [Streams -> 0 .. MaxOutput]]
         /\ written' \in [Streams -> Nat]
         /\ output' \in [Streams -> Nat]
         /\ utf8' \in [Streams -> BOOLEAN]
         /\ answer' \in [Streams -> Nat]
         /\ \A s \in Streams : output'[s] <= written'[s] /\ answer'[s] <= output'[s]
<1>1. \A s \in Streams : Nothing[s] <= Nothing[s]
  BY DEF Nothing
<1> QED
  BY <1>1, NothingTypes DEF Return, ServerState, ProcessState, Silent

\* One more part read: there was one, so no more is read than was sent.
LEMMA OnePartRead ==
  ASSUME TypeOK, Arrived(served), got' = [got EXCEPT ![served] = @ + 1]
  PROVE  /\ got' \in [Connections -> 0 .. Parts]
         /\ \A c \in Connections : got'[c] <= sent[c]
<1>1. CASE served \in Connections
  <2>1. got[served] \in 0 .. Parts /\ sent[served] \in 0 .. Parts
    BY <1>1 DEF TypeOK
  <2>2. got[served] + 1 \in 0 .. Parts /\ got[served] + 1 <= sent[served]
    BY <2>1, SizesAssumption DEF Arrived
  <2> QED
    BY <1>1, <2>2 DEF TypeOK
<1>2. CASE served \notin Connections
  BY <1>2 DEF TypeOK
<1> QED
  BY <1>1, <1>2

LEMMA ReadTypes ==
  ASSUME TypeOK, NEW mode, ReadRequest(mode)
  PROVE  /\ got' \in [Connections -> 0 .. Parts]
         /\ \A c \in Connections : got'[c] <= sent[c]
BY OnePartRead DEF ReadRequest

LEMMA AnswerTypes ==
  ASSUME TypeOK, Answer
  PROVE  client' \in [Connections -> ClientState]
BY DEF TypeOK, Answer, ClientState

LEMMA TypeInit == Init => TypeOK
<1> SUFFICES ASSUME Init PROVE TypeOK
  OBVIOUS
<1>1. 0 \in 0 .. MaxOutput /\ 0 \in 0 .. Parts
  BY SizesAssumption
<1>2. toWrite \in [Processes -> [Streams -> 0 .. MaxOutput]]
  BY <1>1 DEF Init, Silent, Nothing
<1>3. backlog \in Seq(Connections)
  BY DEF Init
<1>4. \A s \in Streams : output[s] <= written[s] /\ answer[s] <= output[s]
  BY DEF Init, Nothing
<1>5. \A c \in Connections : got[c] <= sent[c]
  <2>1. \A c \in Connections : got[c] = 0 /\ sent[c] = 0
    BY DEF Init
  <2>2. \A m, n : m = 0 /\ n = 0 => m <= n
    OBVIOUS
  <2> QED
    BY <2>1, <2>2, Zenon
<1> QED
  BY <1>1, <1>2, <1>3, <1>4, <1>5
     DEF Init, TypeOK, ClientState, ServerState, ProcessState, Nothing

\* Every step keeps the types.
LEMMA TypeStep == TypeInv /\ [Next]_vars => TypeOK'
<1> SUFFICES ASSUME TypeInv, [Next]_vars PROVE TypeOK'
  OBVIOUS
<1> USE SizesAssumption DEF TypeInv
<1>1. ASSUME NEW c \in Connections, Connect(c) PROVE TypeOK'
  BY <1>1 DEF TypeOK, Connect, ClientState, commandVars
<1>2. ASSUME NEW c \in Connections, Send(c) PROVE TypeOK'
  BY <1>2 DEF TypeOK, Send, commandVars
<1>3. ASSUME NEW c \in Connections, HangUp(c) PROVE TypeOK'
  BY <1>3 DEF TypeOK, HangUp, ClientState, commandVars
<1>4. CASE Accept
  BY <1>4, SMTT(30) DEF TypeOK, Accept, ServerState, clientVars, commandVars
<1>5. CASE ReadPart
  BY <1>5, OnePartRead DEF TypeOK, ReadPart, clientVars, commandVars
<1>6. CASE ReadEnd
  BY <1>6, ReturnTypes DEF TypeOK, ReadEnd, clientVars
<1>7. CASE StartChild
  <2>1. PICK w \in [Streams -> 0 .. MaxOutput] : toWrite' = [toWrite EXCEPT !["child"] = w]
    BY <1>7 DEF StartChild
  <2>2. toWrite' \in [Processes -> [Streams -> 0 .. MaxOutput]]
    BY <2>1 DEF TypeOK
  <2>3. process' \in [Processes -> ProcessState] /\ pc' \in ServerState
    BY <1>7 DEF TypeOK, StartChild, ProcessState, ServerState
  <2> QED
    BY <1>7, <2>2, <2>3, ReadTypes DEF TypeOK, StartChild, clientVars
<1>8. CASE FailToStart
  BY <1>8, ReturnTypes, ReadTypes, AnswerTypes DEF TypeOK, FailToStart, Answer
<1>9. CASE SpawnCommand
  <2>1. processTable' \in SUBSET Connections
    BY <1>9 DEF SpawnCommand, TypeOK, ServesConnection, ReadRequest
  <2> QED
    BY <1>9, <2>1, ReturnTypes, ReadTypes, AnswerTypes DEF TypeOK, SpawnCommand, Answer
<1>10. CASE RefuseProxyRequest
  BY <1>10, ReturnTypes, ReadTypes, AnswerTypes DEF TypeOK, RefuseProxyRequest, Answer
<1>11. CASE Reap
  BY <1>11 DEF TypeOK, Reap, ServerState, ProcessState, clientVars
<1>12. CASE KillAtLimit
  <2>1. toWrite' \in [Processes -> [Streams -> 0 .. MaxOutput]]
    BY <1>12, NothingTypes DEF TypeOK, KillAtLimit
  <2>2. process' \in [Processes -> ProcessState] /\ pc' \in ServerState
    BY <1>12 DEF TypeOK, KillAtLimit, ServerState, ProcessState
  <2> QED
    BY <1>12, <2>1, <2>2 DEF TypeOK, KillAtLimit, clientVars
<1>13. ASSUME NEW s \in Streams, ReadOutput(s) PROVE TypeOK'
  <2>1. /\ output' = [output EXCEPT ![s] = output[s] + 1]
        /\ output[s] < written[s]
    BY <1>13 DEF ReadOutput
  <2>2. /\ output' \in [Streams -> Nat]
        /\ \A t \in Streams : output'[t] <= written[t] /\ answer[t] <= output'[t]
    BY <2>1 DEF TypeOK
  <2> QED
    BY <1>13, <2>2 DEF TypeOK, ReadOutput, clientVars
<1>14. ASSUME NEW s \in Streams, FinishStream(s) PROVE TypeOK'
  <2>1. /\ answer' = [answer EXCEPT ![s] = TextOf(s)]
        /\ TextOf(s) \in Nat /\ TextOf(s) <= output[s]
    BY <1>14 DEF TypeOK, FinishStream, TextOf
  <2>2. /\ answer' \in [Streams -> Nat]
        /\ \A t \in Streams : answer'[t] <= output[t]
    BY <2>1 DEF TypeOK
  <2>3. pc' \in ServerState
    BY <1>14 DEF FinishStream, NextStream, ServerState
  <2> QED
    BY <1>14, <2>2, <2>3 DEF TypeOK, FinishStream, clientVars
<1>15. CASE AnswerCommand
  BY <1>15, ReturnTypes, AnswerTypes DEF TypeOK, AnswerCommand, Answer
<1>16. ASSUME NEW p \in Processes, NEW s \in Streams, Write(p, s) PROVE TypeOK'
  <2>1. toWrite' \in [Processes -> [Streams -> 0 .. MaxOutput]]
    BY <1>16 DEF TypeOK, Write
  <2>2. /\ written' \in [Streams -> Nat]
        /\ \A t \in Streams : output[t] <= written'[t]
    <3>1. written[s] \in Nat /\ output[s] \in Nat /\ output[s] <= written[s] + 1
      BY DEF TypeOK
    <3>2. written' = [written EXCEPT ![s] = @ + 1]
      BY <1>16 DEF Write
    <3> QED
      BY <3>1, <3>2 DEF TypeOK
  <2>3. utf8' \in [Streams -> BOOLEAN]
    <3>1. PICK whole \in BOOLEAN : utf8' = [utf8 EXCEPT ![s] = whole]
      BY <1>16 DEF Write
    <3> QED
      BY <3>1 DEF TypeOK
  <2> QED
    BY <1>16, <2>1, <2>2, <2>3 DEF TypeOK, Write, clientVars
<1>17. CASE StartBackground
  <2>1. PICK w \in [Streams -> 0 .. MaxOutput] :
          toWrite' = [toWrite EXCEPT !["background"] = w]
    BY <1>17 DEF StartBackground
  <2>2. toWrite' \in [Processes -> [Streams -> 0 .. MaxOutput]]
    BY <2>1 DEF TypeOK
  <2>3. process' \in [Processes -> ProcessState]
    BY <1>17 DEF TypeOK, StartBackground, ProcessState
  <2> QED
    BY <1>17, <2>2, <2>3 DEF TypeOK, StartBackground, clientVars
<1>18. CASE ChildExits
  BY <1>18 DEF TypeOK, ChildExits, ProcessState, clientVars
<1>19. CASE BackgroundExits
  <2>1. toWrite' \in [Processes -> [Streams -> 0 .. MaxOutput]]
    BY <1>19, NothingTypes DEF TypeOK, BackgroundExits
  <2> QED
    BY <1>19, <2>1 DEF TypeOK, BackgroundExits, ProcessState, clientVars
<1>20. CASE LimitPasses
  BY <1>20 DEF TypeOK, LimitPasses, clientVars
<1>21. CASE UNCHANGED vars
  BY <1>21 DEF TypeOK, vars, clientVars, commandVars
<1> QED
  BY <1>1, <1>2, <1>3, <1>4, <1>5, <1>6, <1>7, <1>8, <1>9, <1>10, <1>11, <1>12, <1>13,
     <1>14, <1>15, <1>16, <1>17, <1>18, <1>19, <1>20, <1>21
     DEF Next, ServerStep, CommandStep

LEMMA ServesStep == TypeInv /\ [Next]_vars => ServesConnection'
<1> SUFFICES ASSUME TypeInv, [Next]_vars PROVE ServesConnection'
  OBVIOUS
<1> USE DEF TypeInv, ServesConnection
<1>1. CASE Accept
  BY <1>1 DEF Accept, TypeOK
<1>2. CASE ReadEnd \/ FailToStart \/ SpawnCommand \/ RefuseProxyRequest \/ AnswerCommand
  BY <1>2 DEF ReadEnd, FailToStart, SpawnCommand, RefuseProxyRequest, AnswerCommand,
              Answer, Return
<1>3. CASE ReadPart \/ StartChild \/ Reap \/ KillAtLimit
  BY <1>3 DEF ReadPart, StartChild, ReadRequest, Reap, KillAtLimit
<1>4. CASE \E s \in Streams : ReadOutput(s) \/ FinishStream(s)
  BY <1>4 DEF ReadOutput, FinishStream, Streams
<1>5. CASE \E c \in Connections : Connect(c) \/ Send(c) \/ HangUp(c)
  BY <1>5 DEF Connect, Send, HangUp
<1>6. CASE CommandStep \/ LimitPasses
  BY <1>6 DEF CommandStep, Write, StartBackground, ChildExits, BackgroundExits, LimitPasses
<1>7. CASE UNCHANGED vars
  BY <1>7 DEF vars
<1> QED
  BY <1>1, <1>2, <1>3, <1>4, <1>5, <1>6, <1>7 DEF Next, ServerStep

-----------------------------------------------------------------------------
LEMMA OutputInit == Init => OutputInv
BY DEF Init, OutputInv, ReadsAfterChild, LeavesNoWriter, FinishedIsEmpty, Finished, Streams

\* A step that leaves the server, the processes and the pipes alone.
LEMMA OutputUntouched ==
  ASSUME OutputInv, UNCHANGED <<pc, process, written, utf8, output, answer>>
  PROVE  OutputInv'
BY DEF OutputInv, ReadsAfterChild, LeavesNoWriter, FinishedIsEmpty, Finished, TextOf

LEMMA OutputStep == IInv /\ [Next]_vars => OutputInv'
<1> SUFFICES ASSUME IInv, [Next]_vars PROVE OutputInv'
  OBVIOUS
<1> USE DEF IInv, TypeInv
<1>1. ASSUME NEW c \in Connections, Connect(c) \/ Send(c) \/ HangUp(c) PROVE OutputInv'
  BY <1>1, OutputUntouched DEF Connect, Send, HangUp, commandVars
<1>2. CASE Accept \/ ReadPart \/ StartChild
  <2>1. pc' \in {"accept", "read", "poll"}
    BY <1>2 DEF Accept, ReadPart, StartChild
  <2> QED
    BY <2>1 DEF OutputInv, ReadsAfterChild, LeavesNoWriter, FinishedIsEmpty, Finished, Streams
<1>3. CASE ReadEnd \/ FailToStart \/ SpawnCommand \/ RefuseProxyRequest \/ AnswerCommand
  <2>1. pc' = "accept"
    BY <1>3 DEF ReadEnd, FailToStart, SpawnCommand, RefuseProxyRequest, AnswerCommand,
                Answer, Return
  <2> QED
    BY <2>1 DEF OutputInv, ReadsAfterChild, LeavesNoWriter, FinishedIsEmpty, Finished, Streams
<1>4. CASE Reap \/ KillAtLimit
  <2>1. pc' = "stdout" /\ process'["child"] = "reaped"
    BY <1>4 DEF Reap, KillAtLimit, TypeOK, Processes
  <2> QED
    BY <2>1 DEF OutputInv, ReadsAfterChild, LeavesNoWriter, FinishedIsEmpty, Finished, Streams
<1>5. ASSUME NEW s \in Streams, ReadOutput(s) PROVE OutputInv'
  <2>1. \A t \in Streams : Finished(t) => t # s
    BY <1>5 DEF ReadOutput, Finished, Streams
  <2>2. \A t \in Streams : t # s => output'[t] = output[t]
    BY <1>5 DEF ReadOutput, TypeOK
  <2>3. UNCHANGED <<pc, process, written, utf8, answer>>
    BY <1>5 DEF ReadOutput
  <2> QED
    BY <2>1, <2>2, <2>3
       DEF OutputInv, ReadsAfterChild, LeavesNoWriter, FinishedIsEmpty, Finished, TextOf
<1>6. ASSUME NEW s \in Streams, FinishStream(s) PROVE OutputInv'
  <2>1. UNCHANGED <<process, written, utf8, output>>
    BY <1>6 DEF FinishStream
  <2>2. process["child"] = "reaped" /\ process["background"] # "running"
    BY <1>6 DEF FinishStream, EndOfFile, Processes, OutputInv, ReadsAfterChild, Streams
  <2>3. \A t \in Streams : Finished(t)' => (t = s \/ Finished(t))
    BY <1>6 DEF FinishStream, NextStream, Finished, Streams
  <2>4. output[s] = written[s]
    BY <1>6 DEF FinishStream, EndOfFile
  <2>5. answer'[s] = TextOf(s) /\ \A t \in Streams : t # s => answer'[t] = answer[t]
    BY <1>6 DEF FinishStream, TypeOK
  <2> QED
    BY <2>1, <2>2, <2>3, <2>4, <2>5
       DEF OutputInv, ReadsAfterChild, LeavesNoWriter, FinishedIsEmpty, TextOf
<1>7. ASSUME NEW p \in Processes, NEW s \in Streams, Write(p, s) PROVE OutputInv'
  <2>1. pc \notin {"stderr", "reply"}
    BY <1>7 DEF Write, Processes, OutputInv, ReadsAfterChild, LeavesNoWriter
  <2>2. UNCHANGED <<pc, process>>
    BY <1>7 DEF Write
  <2> QED
    BY <2>1, <2>2
       DEF OutputInv, ReadsAfterChild, LeavesNoWriter, FinishedIsEmpty, Finished, Streams
<1>8. CASE StartBackground \/ ChildExits
  <2>1. pc \notin {"stdout", "stderr", "reply"} /\ UNCHANGED pc
    BY <1>8 DEF StartBackground, ChildExits, OutputInv, ReadsAfterChild
  <2> QED
    BY <2>1 DEF OutputInv, ReadsAfterChild, LeavesNoWriter, FinishedIsEmpty, Finished, Streams
<1>9. CASE BackgroundExits
  <2>1. process'["background"] = "exited" /\ process'["child"] = process["child"]
    BY <1>9 DEF BackgroundExits, TypeOK, Processes
  <2>2. UNCHANGED <<pc, written, utf8, output, answer>>
    BY <1>9 DEF BackgroundExits
  <2> QED
    BY <2>1, <2>2
       DEF OutputInv, ReadsAfterChild, LeavesNoWriter, FinishedIsEmpty, Finished, TextOf
<1>10. CASE LimitPasses
  BY <1>10, OutputUntouched DEF LimitPasses
<1>11. CASE UNCHANGED vars
  BY <1>11, OutputUntouched DEF vars, commandVars
<1> QED
  BY <1>1, <1>2, <1>3, <1>4, <1>5, <1>6, <1>7, <1>8, <1>9, <1>10, <1>11
     DEF Next, ServerStep, CommandStep

\* IInv is an invariant.
LEMMA Invariance == Spec => []IInv
<1>1. Init => IInv
  BY TypeInit, OutputInit DEF IInv, TypeInv, ServesConnection, Init
<1>2. IInv /\ [Next]_vars => IInv'
  BY TypeStep, ServesStep, OutputStep DEF IInv, TypeInv
<1> QED
  BY <1>1, <1>2, PTL DEF Spec

-----------------------------------------------------------------------------
\* Every reachable state of the command server has its types, and the server
\* never reads more of a request or of a pipe than was written to it.
THEOREM TypeCorrect == Spec => []TypeOK
<1>1. IInv => TypeOK
  BY DEF IInv, TypeInv
<1> QED
  BY <1>1, Invariance, PTL

\* The answer to a command has all that it and the processes it left behind
\* wrote to a stream, or nothing of a stream that is not UTF-8, for pipes of any
\* size: execute_command reads one stream to its end and then the other, and
\* neither can grow, or become a text or stop being one, once it is at its end.
THEOREM OutputIsComplete == Spec => []CompleteOutput
<1>1. IInv => CompleteOutput
  <2> SUFFICES ASSUME IInv, pc = "reply", NEW s \in Streams
               PROVE  answer[s] = IF utf8[s] THEN written[s] ELSE 0
    BY DEF CompleteOutput
  <2>1. Finished(s)
    BY DEF Finished, Streams
  <2> QED
    BY <2>1 DEF IInv, OutputInv, FinishedIsEmpty, TextOf
<1> QED
  BY <1>1, Invariance, PTL

-----------------------------------------------------------------------------
(* Connections between the host that makes them and the server's loop.       *)

\* The queue of the listener holds a connection once, and no part of it was read.
Untouched == /\ \A i, j \in DOMAIN backlog : backlog[i] = backlog[j] => i = j
             /\ \A i \in DOMAIN backlog : /\ backlog[i] # served
                                          /\ got[backlog[i]] = 0
                                          /\ client[backlog[i]] \in {"open", "closed"}

\* What the server has in its hands was made and is not answered, and past the
\* reads its request is whole.
InHand == /\ pc = "accept" => served = None
          /\ served # None => client[served] \in {"open", "closed"}
          /\ pc \in {"poll", "stdout", "stderr", "reply"} => got[served] = Parts

\* Every connection has its place.
Placed == \A c \in Connections : /\ client[c] = "new" => got[c] = 0
                                 /\ client[c] = "open" => c = served \/ Waiting(c)
                                 /\ client[c] = "answered" => got[c] = Parts

ConnectionsInv == Untouched /\ InHand /\ Placed

LEMMA ConnectionsInit == Init => ConnectionsInv
BY DEF Init, ConnectionsInv, Untouched, InHand, Placed

\* A step that leaves the connections and the reads alone.
LEMMA ConnectionsUntouched ==
  ASSUME ConnectionsInv, UNCHANGED <<client, got, backlog, served>>,
         pc' = "accept" => pc = "accept",
         pc' \in {"poll", "stdout", "stderr", "reply"}
           => pc \in {"poll", "stdout", "stderr", "reply"}
  PROVE  ConnectionsInv'
BY DEF ConnectionsInv, Untouched, InHand, Placed, Waiting

\* The server gives up a connection that the host has left.
LEMMA GivenUp ==
  ASSUME TypeInv, ConnectionsInv, UNCHANGED <<client, got, backlog>>,
         served' = None, pc' = "accept", served \in Connections, client[served] # "open"
  PROVE  ConnectionsInv'
<1>1. \A i \in DOMAIN backlog : backlog[i] \in Connections
  BY DEF TypeInv, TypeOK
<1>2. Untouched'
  BY <1>1, ConnectionsAssumption DEF ConnectionsInv, Untouched
<1>3. Placed'
  BY DEF ConnectionsInv, Placed, Waiting
<1> QED
  BY <1>2, <1>3 DEF ConnectionsInv, InHand

\* The server answers a request it has read to its end.
LEMMA AnsweredWhole ==
  ASSUME TypeInv, ConnectionsInv, Answer, UNCHANGED backlog, served \in Connections,
         got' = [got EXCEPT ![served] = Parts]
  PROVE  ConnectionsInv'
<1>1. \A i \in DOMAIN backlog : backlog[i] \in Connections
  BY DEF TypeInv, TypeOK
<1>2. /\ served' = None /\ pc' = "accept"
      /\ client' = [client EXCEPT ![served] = IF @ = "open" THEN "answered" ELSE @]
  BY DEF Answer, Return
<1>3. client[served] \in {"open", "closed"}
  BY ConnectionsAssumption DEF ConnectionsInv, InHand
<1>4. \A c \in Connections : c # served => client'[c] = client[c] /\ got'[c] = got[c]
  BY <1>2 DEF TypeInv, TypeOK
<1>5. got'[served] = Parts /\ client'[served] \in {"answered", "closed"}
  BY <1>2, <1>3 DEF TypeInv, TypeOK
<1>6. Untouched'
  BY <1>1, <1>2, <1>4, ConnectionsAssumption DEF ConnectionsInv, Untouched
<1>7. Placed'
  BY <1>4, <1>5 DEF ConnectionsInv, Placed, Waiting
<1> QED
  BY <1>2, <1>6, <1>7 DEF ConnectionsInv, InHand

\* The read that completes a request.
LEMMA WholeRead ==
  ASSUME TypeInv, NEW mode, ReadRequest(mode)
  PROVE  /\ served \in Connections
         /\ got' = [got EXCEPT ![served] = Parts]
BY DEF TypeInv, ServesConnection, ReadRequest, TypeOK

LEMMA ConnectionsStep == TypeInv /\ ConnectionsInv /\ [Next]_vars => ConnectionsInv'
<1> SUFFICES ASSUME TypeInv, ConnectionsInv, [Next]_vars PROVE ConnectionsInv'
  OBVIOUS
<1>1. ASSUME NEW c \in Connections, Connect(c) PROVE ConnectionsInv'
  <2>1. /\ client' = [client EXCEPT ![c] = "open"] /\ backlog' = Append(backlog, c)
        /\ UNCHANGED <<got, served, pc>> /\ client[c] = "new"
    BY <1>1 DEF Connect
  <2>2. /\ backlog \in Seq(Connections) /\ client'[c] = "open" /\ got[c] = 0
        /\ \A d \in Connections : d # c => client'[d] = client[d]
    BY <2>1 DEF TypeInv, TypeOK, ConnectionsInv, Placed
  <2>3. /\ DOMAIN backlog' = DOMAIN backlog \cup {Len(backlog) + 1}
        /\ \A i \in DOMAIN backlog : i # Len(backlog) + 1 /\ backlog'[i] = backlog[i]
        /\ backlog'[Len(backlog) + 1] = c
    BY <2>1, <2>2
  <2>4. \A i \in DOMAIN backlog : backlog[i] # c /\ backlog[i] \in Connections
    BY <2>1, <2>2 DEF ConnectionsInv, Untouched
  <2>5. served # c /\ (served # None => served \in Connections)
    BY <2>1, ConnectionsAssumption DEF ConnectionsInv, InHand, TypeInv, TypeOK
  <2>6. Untouched'
    BY <2>1, <2>2, <2>3, <2>4, <2>5 DEF ConnectionsInv, Untouched
  <2>7. InHand'
    BY <2>1, <2>2, <2>5 DEF ConnectionsInv, InHand
  <2>8. Placed'
    BY <2>1, <2>2, <2>3 DEF ConnectionsInv, Placed, Waiting
  <2> QED
    BY <2>6, <2>7, <2>8 DEF ConnectionsInv
<1>2. ASSUME NEW c \in Connections, Send(c) PROVE ConnectionsInv'
  BY <1>2, ConnectionsUntouched DEF Send
<1>3. ASSUME NEW c \in Connections, HangUp(c) PROVE ConnectionsInv'
  <2>1. /\ client' = [client EXCEPT ![c] = "closed"]
        /\ UNCHANGED <<got, backlog, served, pc>> /\ client[c] = "open"
    BY <1>3 DEF HangUp
  <2>2. \A d \in Connections : client'[d] = IF d = c THEN "closed" ELSE client[d]
    BY <2>1 DEF TypeInv, TypeOK
  <2>3. /\ \A i \in DOMAIN backlog : backlog[i] \in Connections
        /\ served \in Connections \cup {None}
    BY DEF TypeInv, TypeOK
  <2>4. Untouched' /\ InHand'
    BY <2>1, <2>2, <2>3 DEF ConnectionsInv, Untouched, InHand
  <2>5. Placed'
    BY <2>1, <2>2 DEF ConnectionsInv, Placed, Waiting
  <2> QED
    BY <2>4, <2>5 DEF ConnectionsInv
<1>4. CASE Accept
  <2>1. /\ served = None /\ served' = Head(backlog) /\ backlog' = Tail(backlog)
        /\ pc' = "read" /\ UNCHANGED <<client, got>> /\ backlog # <<>>
    BY <1>4 DEF Accept, clientVars, ConnectionsInv, InHand
  <2>2. backlog \in Seq(Connections)
    BY DEF TypeInv, TypeOK
  <2>3. /\ 1 \in DOMAIN backlog /\ served' = backlog[1]
        /\ \A i \in DOMAIN backlog' : i + 1 \in DOMAIN backlog /\ i + 1 # 1
                                      /\ backlog'[i] = backlog[i + 1]
        /\ \A i \in DOMAIN backlog : i # 1 => i - 1 \in DOMAIN backlog'
                                              /\ backlog'[i - 1] = backlog[i]
    BY <2>1, <2>2
  <2>4. DOMAIN backlog' \subseteq Nat
    BY <2>1, <2>2
  <2>5. Untouched'
    BY <2>1, <2>3, <2>4 DEF ConnectionsInv, Untouched
  <2>6. InHand'
    BY <2>1, <2>3 DEF ConnectionsInv, InHand, Untouched
  <2>7. Placed'
    <3> SUFFICES ASSUME NEW c \in Connections, client[c] = "open"
                 PROVE  c = served' \/ Waiting(c)'
      BY <2>1 DEF ConnectionsInv, Placed
    <3>1. PICK i \in DOMAIN backlog : backlog[i] = c
      BY <2>1, ConnectionsAssumption DEF ConnectionsInv, Placed, Waiting
    <3> QED
      BY <2>3, <3>1 DEF Waiting
  <2> QED
    BY <2>5, <2>6, <2>7 DEF ConnectionsInv
<1>5. CASE ReadPart
  <2>1. /\ pc = "read" /\ got' = [got EXCEPT ![served] = @ + 1]
        /\ UNCHANGED <<client, backlog, served, pc>>
    BY <1>5 DEF ReadPart, clientVars
  <2>2. served \in Connections
    BY <2>1 DEF TypeInv, ServesConnection
  <2>3. \A c \in Connections : c # served => got'[c] = got[c]
    BY <2>1 DEF TypeInv, TypeOK
  <2>4. client[served] \in {"open", "closed"}
    BY <2>2, ConnectionsAssumption DEF ConnectionsInv, InHand
  <2>5. \A i \in DOMAIN backlog : backlog[i] \in Connections
    BY DEF TypeInv, TypeOK
  <2>6. Untouched' /\ InHand'
    BY <2>1, <2>3, <2>5 DEF ConnectionsInv, Untouched, InHand
  <2>7. Placed'
    BY <2>1, <2>3, <2>4 DEF ConnectionsInv, Placed, Waiting
  <2> QED
    BY <2>6, <2>7 DEF ConnectionsInv
<1>6. CASE ReadEnd
  BY <1>6, GivenUp DEF ReadEnd, Return, clientVars, TypeInv, ServesConnection
<1>7. CASE StartChild
  <2>1. /\ served \in Connections /\ got' = [got EXCEPT ![served] = Parts]
        /\ pc = "read" /\ pc' = "poll" /\ UNCHANGED <<client, backlog, served>>
    BY <1>7, WholeRead DEF StartChild, ReadRequest, clientVars
  <2>2. got'[served] = Parts /\ \A c \in Connections : c # served => got'[c] = got[c]
    BY <2>1 DEF TypeInv, TypeOK
  <2>3. client[served] \in {"open", "closed"}
    BY <2>1, ConnectionsAssumption DEF ConnectionsInv, InHand
  <2>4. \A i \in DOMAIN backlog : backlog[i] \in Connections
    BY DEF TypeInv, TypeOK
  <2>5. Untouched' /\ InHand'
    BY <2>1, <2>2, <2>4 DEF ConnectionsInv, Untouched, InHand
  <2>6. Placed'
    BY <2>1, <2>2, <2>3 DEF ConnectionsInv, Placed, Waiting
  <2> QED
    BY <2>5, <2>6 DEF ConnectionsInv
<1>8. CASE FailToStart \/ SpawnCommand \/ RefuseProxyRequest
  <2>1. Answer /\ UNCHANGED backlog /\ \E mode \in Mode : ReadRequest(mode)
    BY <1>8 DEF FailToStart, SpawnCommand, RefuseProxyRequest, Mode
  <2> QED
    BY <2>1, WholeRead, AnsweredWhole
<1>9. CASE AnswerCommand
  <2>1. Answer /\ UNCHANGED <<got, backlog>> /\ pc = "reply"
    BY <1>9 DEF AnswerCommand
  <2>2. served \in Connections /\ got[served] = Parts
    BY <2>1 DEF TypeInv, ServesConnection, ConnectionsInv, InHand
  <2>3. got' = [got EXCEPT ![served] = Parts]
    BY <2>1, <2>2 DEF TypeInv, TypeOK
  <2> QED
    BY <2>1, <2>2, <2>3, AnsweredWhole
<1>10. CASE Reap \/ KillAtLimit
  BY <1>10, ConnectionsUntouched DEF Reap, KillAtLimit, clientVars
<1>11. ASSUME NEW s \in Streams, ReadOutput(s) \/ FinishStream(s) PROVE ConnectionsInv'
  BY <1>11, ConnectionsUntouched
     DEF ReadOutput, FinishStream, NextStream, Streams, clientVars
<1>12. CASE CommandStep \/ LimitPasses
  BY <1>12, ConnectionsUntouched
     DEF CommandStep, Write, StartBackground, ChildExits, BackgroundExits, LimitPasses,
         clientVars
<1>13. CASE UNCHANGED vars
  BY <1>13, ConnectionsUntouched DEF vars, clientVars
<1> QED
  BY <1>1, <1>2, <1>3, <1>4, <1>5, <1>6, <1>7, <1>8, <1>9, <1>10, <1>11, <1>12, <1>13
     DEF Next, ServerStep

\* The one connection thread loses no connection and answers no request it has
\* not read to its end, for any number of connections that stall or break off in
\* any order.
THEOREM RequestsAreKept == Spec => []NoRequestLost
<1>1. Init => ConnectionsInv
  BY ConnectionsInit
<1>2. IInv /\ ConnectionsInv /\ [Next]_vars => ConnectionsInv'
  BY ConnectionsStep DEF IInv
<1>3. IInv /\ ConnectionsInv => NoRequestLost
  <2> SUFFICES ASSUME IInv, ConnectionsInv, NEW c \in Connections
               PROVE  /\ client[c] = "open" => c = served \/ Waiting(c)
                      /\ client[c] = "answered" => got[c] = Parts /\ c # served /\ ~Waiting(c)
                      /\ Waiting(c) => c # served /\ got[c] = 0
    BY DEF NoRequestLost
  <2>1. c # None
    BY ConnectionsAssumption
  <2>2. c = served => client[c] \in {"open", "closed"}
    BY <2>1 DEF ConnectionsInv, InHand
  <2>3. Waiting(c) => c # served /\ got[c] = 0 /\ client[c] \in {"open", "closed"}
    BY DEF ConnectionsInv, Untouched, Waiting
  <2> QED
    BY <2>2, <2>3 DEF ConnectionsInv, Placed
<1> QED
  BY <1>1, <1>2, <1>3, Invariance, PTL DEF Spec
=============================================================================

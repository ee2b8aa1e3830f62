-------------------------- MODULE HttpProxyProofs --------------------------
(***************************************************************************)
(* Proofs about HttpProxy, for any number of chunks and any room in        *)
(* channels and sockets.                                                   *)
(*                                                                         *)
(* Types come with the order of the stages a chunk passes.  Above them are *)
(* three invariants: what holds before there is a tunnel, what keeps an    *)
(* open tunnel up, and what is true of the download when a stage of it has *)
(* ended.                                                                  *)
(***************************************************************************)
EXTENDS HttpProxy, TLAPS

LEMMA ConstantsAreNumbers == ChannelRoom \in Nat /\ SocketRoom \in Nat /\ Chunks \in Nat
BY RoomAssumption, ChunksAssumption

\* The types of what is not counted.
ControlType ==
  /\ kind \in {"connect", "plain"}
  /\ client \in End \ {"none"}
  /\ told \in {"nothing", "ok", "badGateway", "serverError"}
  /\ guest \in GuestState
  /\ task \in [Tasks -> {"none", "running", "ended"}]
  /\ host \in {"none", "asked", "relaying", "gone"}
  /\ reply \in {"none", "ok", "badGateway", "serverError"}
  /\ relay \in [Directions -> {"none", "copying", "leaving", "ended"}]
  /\ closed \in BOOLEAN
  /\ shut \in [Directions -> BOOLEAN]
  /\ target \in End
  /\ spokeFirst \in BOOLEAN

UpType ==
  /\ up \in Progress
  /\ up.got <= up.relayed /\ up.relayed <= up.written
  /\ up.written <= up.taken /\ up.taken <= up.sent
  /\ up.taken - up.written <= ChannelRoom

DownType ==
  /\ down \in Progress
  /\ lost \in 0 .. Chunks
  /\ down.got <= down.written /\ lost + down.written <= down.taken
  /\ down.taken <= down.relayed /\ down.relayed <= down.sent
  /\ down.taken - lost - down.written <= ChannelRoom

\* Before there is a tunnel nothing is sent up, and no task runs.
BeforeTunnel ==
  /\ guest \in {"start", "asking", "answered"} => up.sent = 0 /\ \A t \in Tasks : task[t] = "none"
  /\ guest \in {"start", "asking"} => down.taken = 0 /\ down.written = 0 /\ lost = 0

TypeInv == ControlType /\ UpType /\ DownType /\ BeforeTunnel

LEMMA TypeInit == Init => TypeInv
<1> SUFFICES ASSUME Init PROVE TypeInv
  OBVIOUS
<1>1. ControlType
  BY DEF Init, ControlType, End, GuestState
<1>2. Start \in Progress
  BY ConstantsAreNumbers DEF Start, Progress
<1>3. UpType /\ DownType
  BY <1>2, ConstantsAreNumbers DEF Init, UpType, DownType, Start
<1>4. BeforeTunnel
  BY DEF Init, BeforeTunnel, Start
<1> QED
  BY <1>1, <1>3, <1>4 DEF TypeInv

LEMMA ControlStep == TypeInv /\ [Next]_vars => ControlType'
<1> SUFFICES ASSUME TypeInv, [Next]_vars PROVE ControlType'
  OBVIOUS
<1> USE DEF TypeInv, ControlType
<1>1. CASE HandlerStep
  BY <1>1 DEF HandlerStep, ConnectHost, FailToConnect, ReadReply, Upgrade, FailToUpgrade,
              ForwardAnswer, GuestState, hostVars
<1>2. ASSUME NEW t \in Tasks, TaskStep(t) PROVE ControlType'
  BY <1>2 DEF TaskStep, ClientReaderTakes, ClientReaderEnds, ClientWriterWrites, ClientWriterEnds,
              HostReaderTakes, HostReaderEnds, HostWriterWrites, HostWriterEnds, EndTask,
              TakeWhenRoom, Tasks, hostVars
<1>3. CASE HostStep
  BY <1>3 DEF HostStep, HostDrops, AnswerAndClose, StartRelay, End, guestVars
<1>4. ASSUME NEW d \in Directions, RelayStep(d) PROVE ControlType'
  <2>1. CASE CopyUp \/ EndUp \/ CopyDown \/ EndDown
    BY <2>1 DEF CopyUp, EndUp, CopyDown, EndDown, StopCopying, guestVars
  <2>2. CASE LeaveRelay(d)
    BY <2>2 DEF LeaveRelay, ShutIfFirst, guestVars
  <2> QED
    BY <1>4, <2>1, <2>2 DEF RelayStep
<1>5. CASE PeerStep
  <2>1. CASE ClientSends \/ ClientReads \/ TargetReads
    BY <2>1 DEF ClientSends, ClientReads, TargetReads, guestVars, hostVars
  <2>2. CASE ClientCloses \/ TargetCloses
    BY <2>2 DEF ClientCloses, TargetCloses, End, guestVars, hostVars
  <2>3. CASE TargetSends
    <3>1. spokeFirst' \in BOOLEAN
      BY <2>3 DEF TargetSends
    <3> QED
      BY <2>3, <3>1 DEF TargetSends, guestVars, hostVars
  <2> QED
    BY <1>5, <2>1, <2>2, <2>3 DEF PeerStep
<1>6. CASE VmEnds
  BY <1>6 DEF VmEnds, End, GuestState, hostVars
<1>7. CASE UNCHANGED vars
  BY <1>7 DEF vars, guestVars, hostVars
<1> QED
  BY <1>1, <1>2, <1>3, <1>4, <1>5, <1>6, <1>7 DEF Next

LEMMA CountersStep == TypeInv /\ [Next]_vars => UpType' /\ DownType' /\ BeforeTunnel'
<1> SUFFICES ASSUME TypeInv, [Next]_vars PROVE UpType' /\ DownType' /\ BeforeTunnel'
  OBVIOUS
<1> USE ConstantsAreNumbers DEF TypeInv, ControlType
<1> DEFINE Goal == UpType' /\ DownType' /\ BeforeTunnel'
\* What a step of one direction leaves alone.
<1>1. ASSUME UNCHANGED <<up, down, lost, task, guest>> PROVE Goal
  BY <1>1 DEF UpType, DownType, BeforeTunnel
<1>2. ASSUME UpType', UNCHANGED <<down, lost, guest>>,
             guest \notin {"start", "asking", "answered"}
      PROVE  Goal
  BY <1>2 DEF DownType, BeforeTunnel
<1>3. ASSUME DownType', UNCHANGED <<up, guest>>, guest \notin {"start", "asking", "answered"}
      PROVE  Goal
  BY <1>3 DEF UpType, BeforeTunnel
<1>4. ASSUME NEW t \in Tasks, Running(t) PROVE guest \notin {"start", "asking", "answered"}
  BY <1>4 DEF Running, BeforeTunnel
<1>5. CASE ReadReply
  <2>1. /\ down' = [down EXCEPT !.taken = down.relayed] /\ lost' = down.relayed
        /\ guest = "asking" /\ guest' = "answered" /\ UNCHANGED <<up, task>>
    BY <1>5 DEF ReadReply
  <2>2. down.written = 0 /\ down.relayed \in 0 .. Chunks /\ down.got <= 0
    BY <2>1 DEF BeforeTunnel, DownType, Progress
  <2>3. DownType'
    BY <2>1, <2>2 DEF DownType, Progress
  <2> QED
    BY <2>1, <2>3 DEF UpType, BeforeTunnel
<1>6. CASE ConnectHost \/ FailToConnect \/ Upgrade \/ FailToUpgrade \/ ForwardAnswer \/ VmEnds
  BY <1>6 DEF ConnectHost, FailToConnect, Upgrade, FailToUpgrade, ForwardAnswer, VmEnds,
              UpType, DownType, BeforeTunnel
<1>7. CASE ClientReaderTakes
  <2>1. Running("clientReader") /\ UNCHANGED <<down, lost, guest>>
    BY <1>7 DEF ClientReaderTakes
  <2>2. UpType'
    BY <1>7 DEF ClientReaderTakes, Room, UpType, Progress
  <2> QED
    BY <1>2, <1>4, <2>1, <2>2 DEF Tasks
<1>8. CASE ClientWriterWrites
  <2>1. Running("clientWriter") /\ UNCHANGED <<down, lost, guest>>
    BY <1>8 DEF ClientWriterWrites
  <2>2. UpType'
    BY <1>8 DEF ClientWriterWrites, UpType, Progress
  <2> QED
    BY <1>2, <1>4, <2>1, <2>2 DEF Tasks
<1>9. CASE HostReaderTakes
  <2>1. Running("hostReader") /\ UNCHANGED <<up, guest>>
    BY <1>9 DEF HostReaderTakes
  <2>2. DownType'
    BY <1>9 DEF HostReaderTakes, TakeWhenRoom, InChannel, Room, DownType, Progress
  <2> QED
    BY <1>3, <1>4, <2>1, <2>2 DEF Tasks
<1>10. CASE HostWriterWrites
  <2>1. Running("hostWriter") /\ UNCHANGED <<up, guest>>
    BY <1>10 DEF HostWriterWrites
  <2>2. DownType'
    BY <1>10 DEF HostWriterWrites, InChannel, DownType, Progress
  <2> QED
    BY <1>3, <1>4, <2>1, <2>2 DEF Tasks
<1>11. ASSUME NEW t \in Tasks, Running(t), UNCHANGED <<up, down, lost, guest>> PROVE Goal
  BY <1>4, <1>11 DEF UpType, DownType, BeforeTunnel
<1>12. CASE ClientReaderEnds \/ ClientWriterEnds \/ HostReaderEnds \/ HostWriterEnds
  BY <1>11, <1>12 DEF ClientReaderEnds, ClientWriterEnds, HostReaderEnds, HostWriterEnds, Tasks
<1>13. CASE CopyUp
  BY <1>13 DEF CopyUp, UpType, DownType, BeforeTunnel, Progress, guestVars
<1>14. CASE CopyDown
  <2>1. /\ down.relayed < down.sent
        /\ down' = down \/ down' = [down EXCEPT !.relayed = @ + 1]
        /\ UNCHANGED <<up, lost, task, guest>>
    BY <1>14 DEF CopyDown, guestVars
  <2>2. DownType'
    BY <2>1 DEF DownType, Progress
  <2> QED
    BY <2>1, <2>2 DEF UpType, DownType, BeforeTunnel, Progress
<1>15. CASE ClientSends
  BY <1>15 DEF ClientSends, UpType, DownType, BeforeTunnel, Progress, guestVars
<1>16. CASE ClientReads
  BY <1>16 DEF ClientReads, UpType, DownType, BeforeTunnel, Progress, guestVars
<1>17. CASE TargetSends
  BY <1>17 DEF TargetSends, UpType, DownType, BeforeTunnel, Progress, guestVars
<1>18. CASE TargetReads
  BY <1>18 DEF TargetReads, UpType, DownType, BeforeTunnel, Progress, guestVars
<1>19. CASE ClientCloses \/ TargetCloses \/ HostStep
  BY <1>1, <1>19 DEF ClientCloses, TargetCloses, HostStep, HostDrops, AnswerAndClose, StartRelay,
                     guestVars
<1>20. ASSUME NEW d \in Directions, LeaveRelay(d) \/ EndUp \/ EndDown PROVE Goal
  BY <1>1, <1>20 DEF LeaveRelay, EndUp, EndDown, guestVars
<1>21. CASE UNCHANGED vars
  BY <1>1, <1>21 DEF vars, guestVars
<1> QED
  BY <1>5, <1>6, <1>7, <1>8, <1>9, <1>10, <1>12, <1>13, <1>14, <1>15, <1>16, <1>17, <1>18,
     <1>19, <1>20, <1>21
     DEF Next, HandlerStep, TaskStep, RelayStep, PeerStep

LEMMA TypeStep == TypeInv /\ [Next]_vars => TypeInv'
BY ControlStep, CountersStep DEF TypeInv

(* Every variable holds a value of its type; no stage of a direction is     *)
(* ahead of the one before it, and no channel exceeds its room.             *)
THEOREM TypeCorrect == Spec => []TypeOK
<1>1. TypeInv => TypeOK
  BY DEF TypeInv, ControlType, UpType, DownType, TypeOK
<1> QED
  BY <1>1, TypeInit, TypeStep, PTL DEF Spec

-----------------------------------------------------------------------------
(* The host's part: its threads exist while it relays, and the guest goes on *)
(* only when it has answered.                                                *)

HostInv ==
  /\ guest = "start" => host = "none"
  /\ guest \in {"answered", "tunnel"} => host \in {"relaying", "gone"}
  /\ reply # "none" => host \in {"relaying", "gone"}
  /\ host # "relaying" => target = "none" /\ \A d \in Directions : relay[d] = "none"
  /\ host = "relaying" => target # "none"
  /\ target = "none" => down.sent = 0
  /\ \A d \in Directions : shut[d] => relay[d] = "ended"

LEMMA HostInit == Init => HostInv
BY DEF Init, HostInv, Start

LEMMA HostInvStep == TypeInv /\ HostInv /\ [Next]_vars => HostInv'
<1> SUFFICES ASSUME TypeInv, HostInv, [Next]_vars PROVE HostInv'
  OBVIOUS
<1> USE DEF HostInv, TypeInv, ControlType
<1>1. ASSUME UNCHANGED <<hostVars, target>>, down'.sent = down.sent, guest' = guest
      PROVE  HostInv'
  BY <1>1 DEF hostVars
<1>2. CASE ConnectHost \/ FailToConnect \/ ForwardAnswer \/ Upgrade \/ FailToUpgrade \/ VmEnds
  BY <1>2 DEF ConnectHost, FailToConnect, ForwardAnswer, Upgrade, FailToUpgrade, VmEnds, hostVars
<1>3. CASE ReadReply
  <2>1. host \in {"relaying", "gone"}
    BY <1>3 DEF ReadReply, AnswerOrEnd, HostHungUp, Directions
  <2>2. down'.sent = down.sent
    BY <1>3 DEF ReadReply, DownType, Progress
  <2> QED
    BY <1>3, <2>1, <2>2 DEF ReadReply, hostVars
<1>4. ASSUME NEW t \in Tasks, TaskStep(t) PROVE HostInv'
  <2>1. UNCHANGED <<hostVars, target, guest>>
    BY <1>4 DEF TaskStep, ClientReaderTakes, ClientReaderEnds, ClientWriterWrites,
                ClientWriterEnds, HostReaderTakes, HostReaderEnds, HostWriterWrites, HostWriterEnds
  <2>2. down'.sent = down.sent
    BY <1>4 DEF TaskStep, ClientReaderTakes, ClientReaderEnds, ClientWriterWrites,
                ClientWriterEnds, HostReaderTakes, HostReaderEnds, HostWriterWrites, HostWriterEnds,
                TakeWhenRoom, DownType, Progress
  <2> QED
    BY <1>1, <2>1, <2>2
<1>5. CASE HostStep
  BY <1>5 DEF HostStep, HostDrops, AnswerAndClose, StartRelay, guestVars
<1>6. CASE CopyUp \/ EndUp \/ EndDown
  BY <1>6 DEF CopyUp, EndUp, EndDown, StopCopying, guestVars, Directions
<1>7. CASE CopyDown
  <2>1. down'.sent = down.sent
    BY <1>7 DEF CopyDown, DownType, Progress
  <2> QED
    BY <1>7, <2>1 DEF CopyDown, StopCopying, guestVars, Directions
<1>8. ASSUME NEW d \in Directions, LeaveRelay(d) PROVE HostInv'
  BY <1>8 DEF LeaveRelay, ShutIfFirst, guestVars, Directions
<1>9. CASE ClientSends \/ ClientReads \/ ClientCloses \/ TargetReads
  <2>1. down'.sent = down.sent
    BY <1>9 DEF ClientSends, ClientReads, ClientCloses, TargetReads, DownType, Progress
  <2> QED
    BY <1>1, <1>9, <2>1 DEF ClientSends, ClientReads, ClientCloses, TargetReads, guestVars
<1>10. CASE TargetSends \/ TargetCloses
  BY <1>10 DEF TargetSends, TargetCloses, guestVars, hostVars
<1>11. CASE UNCHANGED vars
  BY <1>1, <1>11 DEF vars, guestVars
<1> QED
  BY <1>2, <1>3, <1>4, <1>5, <1>6, <1>7, <1>8, <1>9, <1>10, <1>11
     DEF Next, HandlerStep, RelayStep, PeerStep

-----------------------------------------------------------------------------
(* An open tunnel stays up.                                                  *)

OpenUp ==
  guest \in {"asking", "answered", "tunnel"} /\ client = "open" /\ target = "open"
    => /\ \A d \in Directions : relay[d] = "copying"
       /\ guest = "tunnel" => \A t \in Tasks : Running(t)

LEMMA OpenInit == Init => OpenUp
BY DEF Init, OpenUp

LEMMA OpenStep == TypeInv /\ HostInv /\ OpenUp /\ [Next]_vars => OpenUp'
<1> SUFFICES ASSUME TypeInv, HostInv, OpenUp, [Next]_vars,
                    guest' \in {"asking", "answered", "tunnel"},
                    client' = "open", target' = "open"
             PROVE  /\ \A d \in Directions : relay'[d] = "copying"
                    /\ guest' = "tunnel" => \A t \in Tasks : task'[t] = "running"
  BY DEF OpenUp, Running
<1> USE DEF TypeInv, ControlType
<1>1. ASSUME UNCHANGED <<guest, client, target, relay, task>>
      PROVE  /\ \A d \in Directions : relay'[d] = "copying"
             /\ guest' = "tunnel" => \A t \in Tasks : task'[t] = "running"
  BY <1>1 DEF OpenUp, Running
\* Nobody has hung up while both ends are open.
<1>2. ASSUME guest \in {"asking", "answered", "tunnel"}, client = "open", target = "open"
      PROVE  /\ ~GuestHungUp /\ ~HostHungUp /\ ~TargetReset /\ ~ClientReset
             /\ \A d \in Directions : ~shut[d]
             /\ \A d \in Directions : relay[d] = "copying"
             /\ guest = "tunnel" => \A t \in Tasks : task[t] = "running"
  BY <1>2 DEF OpenUp, HostInv, GuestHungUp, HostHungUp, TargetReset, ClientReset, BeforeTunnel,
              TaskEnded, Running, Tasks, Directions
<1>3. CASE HandlerStep
  BY <1>2, <1>3 DEF HandlerStep, ConnectHost, FailToConnect, ReadReply, Upgrade, FailToUpgrade,
                    ForwardAnswer, hostVars, HostInv
<1>4. ASSUME NEW t \in Tasks, TaskStep(t)
      PROVE  /\ \A d \in Directions : relay'[d] = "copying"
             /\ guest' = "tunnel" => \A u \in Tasks : task'[u] = "running"
  <2>1. UNCHANGED <<guest, client, target, relay>>
    BY <1>4 DEF TaskStep, ClientReaderTakes, ClientReaderEnds, ClientWriterWrites,
                ClientWriterEnds, HostReaderTakes, HostReaderEnds, HostWriterWrites, HostWriterEnds,
                hostVars
  <2>2. guest = "tunnel"
    BY <1>4, <2>1 DEF TaskStep, ClientReaderTakes, ClientReaderEnds, ClientWriterWrites,
                ClientWriterEnds, HostReaderTakes, HostReaderEnds, HostWriterWrites, HostWriterEnds,
                Running, BeforeTunnel, Tasks
  <2>3. task' = task
    BY <1>2, <1>4, <2>1, <2>2
       DEF TaskStep, ClientReaderTakes, ClientReaderEnds, ClientWriterWrites,
           ClientWriterEnds, HostReaderTakes, HostReaderEnds, HostWriterWrites, HostWriterEnds,
           TaskEnded, ClientAtEnd, HostAtEnd, ChannelDone, Tasks, Directions
  <2> QED
    BY <1>1, <2>1, <2>3
<1>5. CASE HostStep
  BY <1>1, <1>5 DEF HostStep, HostDrops, AnswerAndClose, StartRelay, guestVars, HostInv
<1>6. ASSUME NEW e \in Directions, RelayStep(e)
      PROVE  /\ \A d \in Directions : relay'[d] = "copying"
             /\ guest' = "tunnel" => \A t \in Tasks : task'[t] = "running"
  <2>1. UNCHANGED <<guest, client, target, task>>
    BY <1>6 DEF RelayStep, CopyUp, EndUp, CopyDown, EndDown, LeaveRelay, guestVars
  <2>2. relay' = relay
    BY <1>2, <1>6, <2>1 DEF RelayStep, CopyUp, EndUp, CopyDown, EndDown, LeaveRelay
  <2> QED
    BY <1>1, <2>1, <2>2
<1>7. CASE PeerStep
  BY <1>1, <1>7 DEF PeerStep, ClientSends, ClientReads, ClientCloses, TargetSends, TargetReads,
                    TargetCloses, guestVars, hostVars
<1>8. CASE VmEnds
  BY <1>8 DEF VmEnds
<1>9. CASE UNCHANGED vars
  BY <1>1, <1>9 DEF vars, guestVars, hostVars
<1> QED
  BY <1>3, <1>4, <1>5, <1>6, <1>7, <1>8, <1>9 DEF Next

(* No order of the tasks and threads ends a tunnel both of whose ends are    *)
(* open.                                                                     *)
THEOREM TunnelStaysOpen == Spec => []OpenTunnelStays
<1>1. OpenUp => OpenTunnelStays
  BY DEF OpenUp, OpenTunnelStays
<1> QED
  BY <1>1, TypeInit, TypeStep, HostInit, HostInvStep, OpenInit, OpenStep, PTL DEF Spec

-----------------------------------------------------------------------------
(* The download.                                                             *)

\* The guest serves a client that still reads, and the target, if it has closed,
\* had read everything.
Undisturbed == guest \in {"start", "asking", "answered", "tunnel"} /\ client # "closed" /\ ~TargetReset

\* What is true when the host's thread, the guest's reader and its writer end.
DownloadInv ==
  Undisturbed =>
    /\ relay["down"] \in {"leaving", "ended"} => target # "open" /\ down.relayed = down.sent
    /\ TaskEnded("hostReader") =>
         target # "open" /\ down.relayed = down.sent /\ down.taken = down.relayed
    /\ TaskEnded("hostWriter") =>
         TaskEnded("hostReader") /\ lost + down.written = down.taken

LEMMA DownloadInit == Init => DownloadInv
BY DEF Init, DownloadInv, TaskEnded, Tasks, Directions

\* A target that has closed reads no more, and whoever is gone stays away.
LEMMA DisturbedStays ==
  ASSUME TypeInv, HostInv, [Next]_vars, Undisturbed'
  PROVE  Undisturbed
<1> USE DEF TypeInv, ControlType
<1> USE DEF Next, HandlerStep, ConnectHost, FailToConnect, ReadReply, Upgrade, FailToUpgrade,
            ForwardAnswer, VmEnds, TaskStep, ClientReaderTakes, ClientReaderEnds,
            ClientWriterWrites, ClientWriterEnds, HostReaderTakes, HostReaderEnds,
            HostWriterWrites, HostWriterEnds, HostStep, HostDrops, AnswerAndClose, StartRelay,
            RelayStep, CopyUp, EndUp, CopyDown, EndDown, LeaveRelay, PeerStep, ClientSends,
            ClientReads, ClientCloses, TargetSends, TargetReads, TargetCloses, vars, guestVars
<1>1. guest \in {"start", "asking", "answered", "tunnel"}
  <2>1. guest \in GuestState /\ guest' \in {"start", "asking", "answered", "tunnel"}
    BY DEF Undisturbed
  <2>2. ASSUME guest \in {"dropped", "over", "dead"}, guest' # guest, guest' # "dead"
        PROVE  FALSE
    BY <2>2
  <2> QED
    BY <2>1, <2>2 DEF GuestState
<1>2. client # "closed"
  <2>1. client' # "closed"
    BY DEF Undisturbed
  <2> QED
    BY <2>1
<1>3. ~TargetReset
  <2> SUFFICES ASSUME TargetReset PROVE TargetReset'
    BY DEF Undisturbed
  <2>1. target = "closed" /\ up.got < up.relayed
    BY DEF TargetReset
  <2>2. up'.got = up.got /\ up.relayed <= up'.relayed
    BY <2>1 DEF UpType, Progress
  <2>3. target' = "closed"
    BY <2>1 DEF HostInv
  <2>4. up'.got < up'.relayed
    <3>1. up' \in Progress
      BY CountersStep DEF UpType
    <3> QED
      BY <2>1, <2>2, <3>1 DEF UpType, Progress
  <2> QED
    BY <2>3, <2>4 DEF TargetReset
<1> QED
  BY <1>1, <1>2, <1>3 DEF Undisturbed

LEMMA DownloadStep == TypeInv /\ HostInv /\ DownloadInv /\ [Next]_vars => DownloadInv'
<1> SUFFICES ASSUME TypeInv, HostInv, DownloadInv, [Next]_vars, Undisturbed' PROVE DownloadInv'
  BY DEF DownloadInv
<1> USE DEF TypeInv, ControlType, TaskEnded
<1>1. Undisturbed
  BY DisturbedStays
<1>2. ASSUME UNCHANGED <<down, lost>>, target # "open" => target' # "open",
             relay'["down"] = relay["down"],
             task'["hostReader"] = task["hostReader"], task'["hostWriter"] = task["hostWriter"]
      PROVE  DownloadInv'
  BY <1>1, <1>2 DEF DownloadInv
\* The tasks run in a tunnel only.
<1>3. ASSUME guest # "tunnel" PROVE \A t \in Tasks : task[t] = "none"
  BY <1>1, <1>3 DEF Undisturbed, BeforeTunnel
<1>4. CASE ConnectHost \/ FailToConnect \/ FailToUpgrade \/ ForwardAnswer
  BY <1>2, <1>4 DEF ConnectHost, FailToConnect, FailToUpgrade, ForwardAnswer, hostVars
<1>5. CASE ReadReply
  <2>1. /\ task'["hostReader"] = "none" /\ task'["hostWriter"] = "none" /\ UNCHANGED hostVars
        /\ target' = target
    BY <1>3, <1>5 DEF ReadReply, Tasks
  <2>2. down'.relayed = down.relayed /\ down'.sent = down.sent
    BY <1>5 DEF ReadReply, DownType, Progress
  <2> QED
    BY <1>1, <2>1, <2>2 DEF DownloadInv, hostVars
<1>6. CASE Upgrade
  BY <1>1, <1>6 DEF Upgrade, DownloadInv, Tasks, hostVars
<1>7. CASE VmEnds
  BY <1>7 DEF VmEnds, Undisturbed
<1>8. CASE ClientReaderTakes \/ ClientReaderEnds \/ ClientWriterWrites \/ ClientWriterEnds
  BY <1>2, <1>8 DEF ClientReaderTakes, ClientReaderEnds, ClientWriterWrites, ClientWriterEnds,
                    EndTask, Tasks, hostVars
<1>9. CASE HostReaderTakes
  <2>1. task["hostReader"] = "running" /\ task["hostWriter"] # "ended"
    BY <1>1, <1>9 DEF HostReaderTakes, Running, DownloadInv
  <2>2. task' = task /\ UNCHANGED hostVars /\ target' = target
    BY <1>9, <2>1 DEF HostReaderTakes
  <2>3. down'.relayed = down.relayed /\ down'.sent = down.sent
    BY <1>9, <2>1 DEF HostReaderTakes, TakeWhenRoom, DownType, Progress
  <2> QED
    BY <1>1, <2>1, <2>2, <2>3 DEF DownloadInv, hostVars
<1>10. CASE HostReaderEnds
  <2>1. target # "open" /\ down.relayed = down.sent /\ down.taken = down.relayed
    <3>1. down.taken = down.relayed /\ (HostHungUp \/ shut["down"])
      BY <1>10 DEF HostReaderEnds, HostAtEnd
    <3>2. CASE host = "gone"
      <4>1. target = "none" /\ down.sent = 0
        BY <3>2 DEF HostInv
      <4> QED
        BY <3>1, <4>1 DEF DownType, Progress
    <3>3. CASE relay["down"] = "ended"
      BY <1>1, <3>1, <3>3 DEF DownloadInv
    <3> QED
      BY <3>1, <3>2, <3>3 DEF HostHungUp, HostInv, Directions
  <2>2. /\ task["hostWriter"] # "ended" /\ task' = [task EXCEPT !["hostReader"] = "ended"]
        /\ UNCHANGED <<hostVars, target, down, lost>>
    BY <1>1, <1>10 DEF HostReaderEnds, EndTask, Running, DownloadInv
  <2> QED
    BY <1>1, <2>1, <2>2 DEF DownloadInv, hostVars, Tasks
<1>11. CASE HostWriterWrites
  <2>1. ~ClientReset
    BY <1>1 DEF ClientReset, Undisturbed
  <2>2. task' = task /\ UNCHANGED <<hostVars, target, lost>> /\ task["hostWriter"] = "running"
    BY <1>11, <2>1 DEF HostWriterWrites, Running
  <2>3. down'.relayed = down.relayed /\ down'.sent = down.sent /\ down'.taken = down.taken
    BY <1>11, <2>1 DEF HostWriterWrites, DownType, Progress
  <2> QED
    BY <1>1, <2>2, <2>3 DEF DownloadInv, hostVars
<1>12. CASE HostWriterEnds
  <2>1. task["hostReader"] = "ended" /\ lost + down.written = down.taken
    BY <1>12 DEF HostWriterEnds, ChannelDone, InChannel, DownType, Progress
  <2>2. /\ task' = [task EXCEPT !["hostWriter"] = "ended"]
        /\ UNCHANGED <<hostVars, target, down, lost>>
    BY <1>12 DEF HostWriterEnds, EndTask
  <2> QED
    BY <1>1, <2>1, <2>2 DEF DownloadInv, hostVars, Tasks
<1>13. CASE HostDrops \/ AnswerAndClose
  BY <1>2, <1>13 DEF HostDrops, AnswerAndClose, guestVars
<1>14. CASE StartRelay
  <2>1. \A t \in Tasks : task'[t] = "none"
    BY <1>3, <1>14 DEF StartRelay, HostInv, guestVars
  <2>2. relay'["down"] = "copying"
    BY <1>14 DEF StartRelay, Directions
  <2> QED
    BY <2>1, <2>2 DEF DownloadInv, Tasks
<1>15. CASE CopyUp \/ EndUp \/ LeaveRelay("up")
  BY <1>2, <1>15 DEF CopyUp, EndUp, LeaveRelay, StopCopying, guestVars, Directions
<1>16. CASE CopyDown
  <2>1. relay["down"] = "copying" /\ down.relayed < down.sent
    BY <1>16 DEF CopyDown
  <2>2. task["hostReader"] # "ended"
    BY <1>1, <2>1 DEF DownloadInv, DownType, Progress
  <2>3. ~GuestHungUp
    BY <1>1, <2>2 DEF GuestHungUp, Undisturbed
  <2>4. relay' = relay /\ UNCHANGED <<guestVars, target>>
    BY <1>16, <2>3 DEF CopyDown
  <2>5. task["hostWriter"] # "ended"
    BY <1>1, <2>2 DEF DownloadInv
  <2> QED
    BY <2>1, <2>2, <2>4, <2>5 DEF DownloadInv, guestVars
<1>17. CASE EndDown
  <2>1. /\ target # "open" /\ down.relayed = down.sent
        /\ UNCHANGED <<guestVars, target, down, lost>>
    BY <1>1, <1>17 DEF EndDown, Undisturbed
  <2> QED
    BY <1>1, <2>1 DEF DownloadInv, guestVars
<1>18. CASE LeaveRelay("down")
  BY <1>1, <1>18 DEF LeaveRelay, DownloadInv, guestVars, Directions
<1>19. CASE ClientSends \/ ClientCloses \/ TargetReads \/ TargetCloses
  BY <1>2, <1>19 DEF ClientSends, ClientCloses, TargetReads, TargetCloses, guestVars, hostVars
<1>20. CASE ClientReads
  <2>1. /\ down'.relayed = down.relayed /\ down'.sent = down.sent /\ down'.taken = down.taken
        /\ down'.written = down.written
    BY <1>20 DEF ClientReads, DownType, Progress
  <2> QED
    BY <1>1, <1>20, <2>1 DEF ClientReads, DownloadInv, guestVars, hostVars
<1>21. CASE TargetSends
  BY <1>1, <1>21 DEF TargetSends, DownloadInv, guestVars, hostVars
<1>22. CASE UNCHANGED vars
  BY <1>2, <1>22 DEF vars, guestVars, hostVars
<1> QED
  BY <1>4, <1>5, <1>6, <1>7, <1>8, <1>9, <1>10, <1>11, <1>12, <1>13, <1>14, <1>15, <1>16,
     <1>17, <1>18, <1>19, <1>20, <1>21, <1>22
     DEF Next, HandlerStep, TaskStep, HostStep, RelayStep, PeerStep, Directions

(* The guest ends a download only when the target has ended it and all that  *)
(* was sent has been written to the client, but for what was lost with the   *)
(* host's reply.                                                             *)
THEOREM DownloadIsWhole == Spec => []NoTruncation
<1>1. DownloadInv => NoTruncation
  BY DEF DownloadInv, NoTruncation, Undisturbed
<1> QED
  BY <1>1, TypeInit, TypeStep, HostInit, HostInvStep, DownloadInit, DownloadStep, PTL DEF Spec

-----------------------------------------------------------------------------
(* What is lost with the reply.                                              *)

EarlyBytes ==
  /\ guest \in {"start", "asking"} /\ down.sent > 0 => spokeFirst
  /\ lost > 0 => spokeFirst

LEMMA EarlyStep == TypeInv /\ EarlyBytes /\ [Next]_vars => EarlyBytes'
<1> SUFFICES ASSUME TypeInv, EarlyBytes, [Next]_vars PROVE EarlyBytes'
  OBVIOUS
<1> USE DEF TypeInv, EarlyBytes
<1>1. ASSUME UNCHANGED <<lost, spokeFirst>>, down'.sent = down.sent,
             guest' \in {"start", "asking"} => guest \in {"start", "asking"}
      PROVE  EarlyBytes'
  BY <1>1
<1>2. CASE ReadReply
  BY <1>2 DEF ReadReply, DownType, Progress
<1>3. CASE ConnectHost \/ FailToConnect \/ Upgrade \/ FailToUpgrade \/ ForwardAnswer \/ VmEnds
  BY <1>3 DEF ConnectHost, FailToConnect, Upgrade, FailToUpgrade, ForwardAnswer, VmEnds
<1>4. CASE TargetSends
  <2>1. guest \in {"start", "asking"} => up.got = 0
    BY DEF BeforeTunnel, UpType, Progress
  <2> QED
    BY <1>4, <2>1 DEF TargetSends, guestVars, ControlType
<1>5. ASSUME NEW t \in Tasks, TaskStep(t) PROVE EarlyBytes'
  BY <1>1, <1>5 DEF TaskStep, ClientReaderTakes, ClientReaderEnds, ClientWriterWrites,
                    ClientWriterEnds, HostReaderTakes, HostReaderEnds, HostWriterWrites,
                    HostWriterEnds, TakeWhenRoom, DownType, Progress
<1>6. CASE HostStep
  BY <1>1, <1>6 DEF HostStep, HostDrops, AnswerAndClose, StartRelay, guestVars
<1>7. ASSUME NEW d \in Directions, RelayStep(d) PROVE EarlyBytes'
  BY <1>1, <1>7 DEF RelayStep, CopyUp, EndUp, CopyDown, EndDown, LeaveRelay, DownType, Progress,
                    guestVars
<1>8. CASE ClientSends \/ ClientReads \/ ClientCloses \/ TargetReads \/ TargetCloses
  BY <1>1, <1>8 DEF ClientSends, ClientReads, ClientCloses, TargetReads, TargetCloses, DownType,
                    Progress, guestVars
<1>9. CASE UNCHANGED vars
  BY <1>1, <1>9 DEF vars, guestVars
<1> QED
  BY <1>2, <1>3, <1>4, <1>5, <1>6, <1>7, <1>8, <1>9 DEF Next, HandlerStep, PeerStep

(* Nothing is lost in a tunnel whose client speaks first.                    *)
THEOREM ClientFirstIsSafe == Spec => []ClientFirstLosesNothing
<1>1. Init => EarlyBytes
  BY DEF Init, EarlyBytes, Start
<1>2. EarlyBytes => ClientFirstLosesNothing
  BY DEF EarlyBytes, ClientFirstLosesNothing
<1> QED
  BY <1>1, <1>2, TypeInit, TypeStep, EarlyStep, PTL DEF Spec
=============================================================================

----------------------------- MODULE HttpProxy -----------------------------
(***************************************************************************)
(* One request of a program in a VM to the HTTP proxy: from the client     *)
(* through the proxy of the VM agent (vm-agent/src/http_proxy/mod.rs), a   *)
(* vsock connection and the host's proxy (host/.../http_proxy.rs) to a     *)
(* target.  A plain request is forwarded as one message and answered by    *)
(* one.  A CONNECT request becomes a tunnel: four tasks of the guest and    *)
(* two threads of the host copy bytes in both directions, each until its   *)
(* own source ends or its own sink fails.                                  *)
(*                                                                         *)
(* Bytes are counted in chunks, in each direction by how far they have     *)
(* come.  Buffers are first in, first out, so counters tell what is in     *)
(* them.  The vsock connection and the two TCP connections are reliable    *)
(* streams with room for SocketRoom chunks each way.                       *)
(***************************************************************************)
EXTENDS Naturals

CONSTANTS Chunks,       \* how many chunks client and target may send each
          ChannelRoom,  \* capacity of the two channels in the guest; 2 in the code
          SocketRoom    \* what a connection takes before its writer has to wait

ASSUME RoomAssumption == ChannelRoom \in Nat \ {0} /\ SocketRoom \in Nat \ {0}
ASSUME ChunksAssumption == Chunks \in Nat

VARIABLES
  kind,         \* "connect" or "plain"
  client,       \* the client's end of its connection
  told,         \* the status line the client was sent
  guest,        \* where the guest's handler of the request is
  task,         \* the four tasks of the guest's half of a tunnel
  host,         \* where the host's handler of the connection is
  reply,        \* what it has answered
  relay,        \* the two threads of the host's half
  closed,       \* the flag they share
  shut,         \* whether a thread has shut down the connection it wrote to
  target,       \* the target's end of its connection
  up, down,     \* how far chunks from the client, and to it, have come
  lost,         \* how many chunks the guest took from the host and gave to nobody
  spokeFirst    \* history: the target sent something before it got anything

guestVars == <<told, guest, task>>
hostVars == <<host, reply, relay, closed, shut>>
vars == <<kind, client, guestVars, hostVars, target, up, down, lost, spokeFirst>>

Tasks == {"clientReader", "clientWriter", "hostReader", "hostWriter"}
Directions == {"up", "down"}
End == {"none", "open", "halfClosed", "closed"}
GuestState == {"start", "asking", "answered", "tunnel", "dropped", "over", "dead"}

\* sent by its source; taken into the guest's channel; written to the next
\* connection by the guest; relayed by the host; got by the other end.
Progress == [sent : 0 .. Chunks, taken : 0 .. Chunks, written : 0 .. Chunks,
             relayed : 0 .. Chunks, got : 0 .. Chunks]
Start == [sent |-> 0, taken |-> 0, written |-> 0, relayed |-> 0, got |-> 0]

Init ==
  /\ kind \in {"connect", "plain"}
  /\ client = "open"
  /\ told = "nothing"
  /\ guest = "start"
  /\ task = [t \in Tasks |-> "none"]
  /\ host = "none"
  /\ reply = "none"
  /\ relay = [d \in Directions |-> "none"]
  /\ closed = FALSE
  /\ shut = [d \in Directions |-> FALSE]
  /\ target = "none"
  /\ up = Start /\ down = Start
  /\ lost = 0
  /\ spokeFirst = FALSE

Running(t) == task[t] = "running"
TaskEnded(t) == task[t] = "ended"
EndTask(t) == task' = [task EXCEPT ![t] = "ended"]

\* A socket closes when its last descriptor does: the vsock connection belongs to
\* two tasks, that of the client to the other two, and those of the host to both
\* threads.
GuestHungUp == \/ guest \in {"dropped", "over", "dead"}
               \/ TaskEnded("clientWriter") /\ TaskEnded("hostReader")
ClientDropped == TaskEnded("clientReader") /\ TaskEnded("hostWriter")
HostHungUp == host = "gone" \/ \A d \in Directions : relay[d] = "ended"

\* A peer that has closed with chunks it has not read answers with a reset.
ClientReset == client = "closed" /\ down.got < down.written
TargetReset == target = "closed" /\ up.got < up.relayed

-----------------------------------------------------------------------------
(* The handler in the guest.                                                 *)

\* The proxy port of the host is in the reach of this VM, or not: see
\* SideChannels.  A CONNECT line or a whole request is written.
ConnectHost ==
  /\ guest = "start"
  /\ guest' = "asking"
  /\ host' = "asked"
  /\ UNCHANGED <<kind, client, told, task, reply, relay, closed, shut, target, up, down,
                 lost, spokeFirst>>

\* 502 to the client.
FailToConnect ==
  /\ guest = "start"
  /\ guest' = "over"
  /\ told' = "badGateway"
  /\ UNCHANGED <<kind, client, task, hostVars, target, up, down, lost, spokeFirst>>

\* Mutant: the end of a connection without an answer is not noticed.
AnswerOnly == reply # "none"

AnswerOrEnd == reply # "none" \/ HostHungUp

\* One read takes the answer and what has arrived behind it.  Whatever it says,
\* or if the connection has ended without one, the client is told 200.
ReadReply ==
  /\ guest = "asking" /\ kind = "connect"
  /\ AnswerOrEnd
  /\ down' = [down EXCEPT !.taken = down.relayed]
  /\ lost' = down.relayed
  /\ guest' = "answered"
  /\ told' = "ok"
  /\ UNCHANGED <<kind, client, task, hostVars, target, up, spokeFirst>>

Upgrade ==
  /\ guest = "answered"
  /\ guest' = "tunnel"
  /\ task' = [t \in Tasks |-> "running"]
  /\ UNCHANGED <<kind, client, told, hostVars, target, up, down, lost, spokeFirst>>

\* hyper finds the client gone, and the vsock connection is dropped.
FailToUpgrade ==
  /\ guest = "answered"
  /\ client = "closed"
  /\ guest' = "dropped"
  /\ UNCHANGED <<kind, client, told, task, hostVars, target, up, down, lost, spokeFirst>>

\* make_request: the answer that parses, or an error if the connection ends first.
ForwardAnswer ==
  /\ guest = "asking" /\ kind = "plain"
  /\ AnswerOrEnd
  /\ told' = IF reply = "none" THEN "badGateway" ELSE reply
  /\ guest' = "over"
  /\ UNCHANGED <<kind, client, task, hostVars, target, up, down, lost, spokeFirst>>

\* The VM is destroyed or ends by itself, and everything in it.
VmEnds ==
  /\ guest # "dead"
  /\ guest' = "dead"
  /\ client' = "closed"
  /\ task' = [t \in Tasks |-> "ended"]
  /\ UNCHANGED <<kind, told, hostVars, target, up, down, lost, spokeFirst>>

-----------------------------------------------------------------------------
(* The tasks of a tunnel in the guest.  The end of one ends no other: select! *)
(* only returns, and the tasks it waited for go on.                          *)

\* Mutant: the channel holds one chunk more.
RoomForOneMore(n) == n <= ChannelRoom

Room(n) == n < ChannelRoom

\* A chunk whose receiver has gone ends the task.
ClientReaderTakes ==
  /\ Running("clientReader")
  /\ up.taken < up.sent
  /\ IF TaskEnded("clientWriter")
       THEN EndTask("clientReader") /\ UNCHANGED up
       ELSE /\ Room(up.taken - up.written)
            /\ up' = [up EXCEPT !.taken = @ + 1]
            /\ UNCHANGED task
  /\ UNCHANGED <<kind, client, told, guest, hostVars, target, down, lost, spokeFirst>>

\* Mutant: chunks that have arrived before the end are not read.
EndBeforeData == client \in {"halfClosed", "closed"}

ClientAtEnd == client \in {"halfClosed", "closed"} /\ up.taken = up.sent

ClientReaderEnds ==
  /\ Running("clientReader")
  /\ ClientAtEnd \/ ClientReset
  /\ EndTask("clientReader")
  /\ UNCHANGED <<kind, client, told, guest, hostVars, target, up, down, lost, spokeFirst>>

\* firecracker may close the connection both ways when the host ends its half.
ClientWriterWrites ==
  /\ Running("clientWriter")
  /\ up.written < up.taken
  /\ \/ /\ ~HostHungUp
        /\ up.written - up.relayed < SocketRoom
        /\ up' = [up EXCEPT !.written = @ + 1]
        /\ UNCHANGED task
     \/ /\ HostHungUp \/ shut["down"]
        /\ EndTask("clientWriter")
        /\ UNCHANGED up
  /\ UNCHANGED <<kind, client, told, guest, hostVars, target, down, lost, spokeFirst>>

\* The channel is empty and its sender gone.
ClientWriterEnds ==
  /\ Running("clientWriter")
  /\ TaskEnded("clientReader")
  /\ up.written = up.taken
  /\ EndTask("clientWriter")
  /\ UNCHANGED <<kind, client, told, guest, hostVars, target, up, down, lost, spokeFirst>>

\* Chunks between the two tasks that serve the client's download.
InChannel == down.taken - lost - down.written

\* Mutant: a chunk that does not fit is dropped.
TakeOrDrop ==
  \/ Room(InChannel) /\ down' = [down EXCEPT !.taken = @ + 1] /\ UNCHANGED lost
  \/ ~Room(InChannel) /\ down' = [down EXCEPT !.taken = @ + 1] /\ lost' = lost + 1

TakeWhenRoom == /\ Room(InChannel)
                /\ down' = [down EXCEPT !.taken = @ + 1]
                /\ UNCHANGED lost

HostReaderTakes ==
  /\ Running("hostReader")
  /\ down.taken < down.relayed
  /\ IF TaskEnded("hostWriter")
       THEN EndTask("hostReader") /\ UNCHANGED <<down, lost>>
       ELSE TakeWhenRoom /\ UNCHANGED task
  /\ UNCHANGED <<kind, client, told, guest, hostVars, target, up, spokeFirst>>

\* Mutant: a read that finds nothing counts as the end.
NothingToRead == down.taken = down.relayed

HostAtEnd == down.taken = down.relayed /\ (HostHungUp \/ shut["down"])

HostReaderEnds ==
  /\ Running("hostReader")
  /\ HostAtEnd
  /\ EndTask("hostReader")
  /\ UNCHANGED <<kind, client, told, guest, hostVars, target, up, down, lost, spokeFirst>>

\* A closed client takes what it will not read; the write after that fails.
HostWriterWrites ==
  /\ Running("hostWriter")
  /\ InChannel > 0
  /\ IF ClientReset
       THEN EndTask("hostWriter") /\ UNCHANGED down
       ELSE /\ client = "closed" \/ down.written - down.got < SocketRoom
            /\ down' = [down EXCEPT !.written = @ + 1]
            /\ UNCHANGED task
  /\ UNCHANGED <<kind, client, told, guest, hostVars, target, up, lost, spokeFirst>>

\* Mutant: the end of the reading task ends the writing one.
EndsWithReader == TaskEnded("hostReader")

ChannelDone == TaskEnded("hostReader") /\ InChannel = 0

HostWriterEnds ==
  /\ Running("hostWriter")
  /\ ChannelDone
  /\ EndTask("hostWriter")
  /\ UNCHANGED <<kind, client, told, guest, hostVars, target, up, down, lost, spokeFirst>>

-----------------------------------------------------------------------------
(* The host.                                                                 *)

\* The listener has stopped and never accepts the connection.
HostDrops ==
  /\ host = "asked"
  /\ host' = "gone"
  /\ UNCHANGED <<kind, client, guestVars, reply, relay, closed, shut, target, up, down,
                 lost, spokeFirst>>

\* The first eight bytes say what is asked for.  502 and the end of the
\* connection if the target refuses; a plain request is answered with the
\* target's status or, if it failed, with 500.
AnswerAndClose ==
  /\ host = "asked"
  /\ reply' \in IF kind = "connect" THEN {"badGateway"} ELSE {"ok", "serverError"}
  /\ host' = "gone"
  /\ UNCHANGED <<kind, client, guestVars, relay, closed, shut, target, up, down,
                 lost, spokeFirst>>

\* 200, and relay_bidirectional starts its two threads.
StartRelay ==
  /\ host = "asked" /\ kind = "connect"
  /\ host' = "relaying"
  /\ reply' = "ok"
  /\ target' = "open"
  /\ relay' = [d \in Directions |-> "copying"]
  /\ UNCHANGED <<kind, client, guestVars, closed, shut, up, down, lost, spokeFirst>>

\* io::copy returns, with or without an error.
StopCopying(d) == relay' = [relay EXCEPT ![d] = "leaving"]

\* As for the client, only the write after the first one fails.
CopyUp ==
  /\ relay["up"] = "copying"
  /\ up.relayed < up.written
  /\ IF TargetReset
       THEN StopCopying("up") /\ UNCHANGED up
       ELSE /\ target = "closed" \/ up.relayed - up.got < SocketRoom
            /\ up' = [up EXCEPT !.relayed = @ + 1]
            /\ UNCHANGED relay
  /\ UNCHANGED <<kind, client, guestVars, host, reply, closed, shut, target, down,
                 lost, spokeFirst>>

\* What was on its way in a VM that ends is lost.
EndUp ==
  /\ relay["up"] = "copying"
  /\ GuestHungUp
  /\ up.relayed = up.written \/ guest = "dead"
  /\ StopCopying("up")
  /\ UNCHANGED <<kind, client, guestVars, host, reply, closed, shut, target, up, down,
                 lost, spokeFirst>>

CopyDown ==
  /\ relay["down"] = "copying"
  /\ down.relayed < down.sent
  /\ IF GuestHungUp
       THEN StopCopying("down") /\ UNCHANGED down
       ELSE /\ down.relayed - down.taken < SocketRoom
            /\ down' = [down EXCEPT !.relayed = @ + 1]
            /\ UNCHANGED relay
  /\ UNCHANGED <<kind, client, guestVars, host, reply, closed, shut, target, up,
                 lost, spokeFirst>>

EndDown ==
  /\ relay["down"] = "copying"
  /\ \/ target \in {"halfClosed", "closed"} /\ down.relayed = down.sent
     \/ TargetReset
  /\ StopCopying("down")
  /\ UNCHANGED <<kind, client, guestVars, host, reply, closed, shut, target, up, down,
                 lost, spokeFirst>>

\* Mutant: nothing is shut down, the descriptors are only dropped.
ShutNone(d) == shut

\* Only the thread that leaves first shuts its connection down for writing.
ShutIfFirst(d) == IF closed THEN shut ELSE [shut EXCEPT ![d] = TRUE]

LeaveRelay(d) ==
  /\ relay[d] = "leaving"
  /\ shut' = ShutIfFirst(d)
  /\ closed' = TRUE
  /\ relay' = [relay EXCEPT ![d] = "ended"]
  /\ UNCHANGED <<kind, client, guestVars, host, reply, target, up, down, lost, spokeFirst>>

-----------------------------------------------------------------------------
(* The client and the target: programs that send, read and close.            *)

ClientSends ==
  /\ client = "open" /\ guest = "tunnel" /\ ~ClientDropped
  /\ up.sent < Chunks
  /\ up.sent - up.taken < SocketRoom
  /\ up' = [up EXCEPT !.sent = @ + 1]
  /\ UNCHANGED <<kind, client, guestVars, hostVars, target, down, lost, spokeFirst>>

ClientReads ==
  /\ client # "closed"
  /\ down.got < down.written
  /\ down' = [down EXCEPT !.got = @ + 1]
  /\ UNCHANGED <<kind, client, guestVars, hostVars, target, up, lost, spokeFirst>>

\* The half that was for sending, or both.
ClientCloses ==
  /\ \/ client = "open" /\ guest = "tunnel" /\ client' = "halfClosed"
     \/ client # "closed" /\ client' = "closed"
  /\ UNCHANGED <<kind, guestVars, hostVars, target, up, down, lost, spokeFirst>>

TargetSends ==
  /\ target = "open" /\ ~HostHungUp
  /\ down.sent < Chunks
  /\ down.sent - down.relayed < SocketRoom
  /\ down' = [down EXCEPT !.sent = @ + 1]
  /\ spokeFirst' = (spokeFirst \/ up.got = 0)
  /\ UNCHANGED <<kind, client, guestVars, hostVars, target, up, lost>>

TargetReads ==
  /\ target \in {"open", "halfClosed"}
  /\ up.got < up.relayed
  /\ up' = [up EXCEPT !.got = @ + 1]
  /\ UNCHANGED <<kind, client, guestVars, hostVars, target, down, lost, spokeFirst>>

TargetCloses ==
  /\ \/ target = "open" /\ target' = "halfClosed"
     \/ target \in {"open", "halfClosed"} /\ target' = "closed"
  /\ UNCHANGED <<kind, client, guestVars, hostVars, up, down, lost, spokeFirst>>

-----------------------------------------------------------------------------
HandlerStep == ConnectHost \/ FailToConnect \/ ReadReply \/ Upgrade \/ FailToUpgrade
               \/ ForwardAnswer
TaskStep(t) == \/ t = "clientReader" /\ (ClientReaderTakes \/ ClientReaderEnds)
               \/ t = "clientWriter" /\ (ClientWriterWrites \/ ClientWriterEnds)
               \/ t = "hostReader" /\ (HostReaderTakes \/ HostReaderEnds)
               \/ t = "hostWriter" /\ (HostWriterWrites \/ HostWriterEnds)
HostStep == HostDrops \/ AnswerAndClose \/ StartRelay
RelayStep(d) == \/ d = "up" /\ (CopyUp \/ EndUp)
                \/ d = "down" /\ (CopyDown \/ EndDown)
                \/ LeaveRelay(d)
PeerStep == ClientSends \/ ClientReads \/ ClientCloses
            \/ TargetSends \/ TargetReads \/ TargetCloses

Next == \/ HandlerStep
        \/ \E t \in Tasks : TaskStep(t)
        \/ HostStep
        \/ \E d \in Directions : RelayStep(d)
        \/ PeerStep
        \/ VmEnds

\* Handlers, tasks and threads are scheduled, and a connect of the host returns:
\* the system limits it.  Nothing makes a client or a target send, read or close,
\* and nothing makes a target answer a plain request: the proxy's HTTP client
\* waits without a limit.
Fairness == /\ WF_vars(HandlerStep)
            /\ \A t \in Tasks : WF_vars(TaskStep(t))
            /\ WF_vars(kind = "connect" /\ HostStep)
            /\ \A d \in Directions : WF_vars(RelayStep(d))

Spec == Init /\ [][Next]_vars /\ Fairness

-----------------------------------------------------------------------------
(* Properties.                                                               *)

\* Every variable holds a value of the code's type, no stage is ahead of the one
\* before it, and the channels keep their bounds.
TypeOK ==
  /\ kind \in {"connect", "plain"}
  /\ client \in End \ {"none"}
  /\ told \in {"nothing", "ok", "badGateway", "serverError"}
  /\ guest \in GuestState
  /\ task \in [Tasks -> {"none", "running", "ended"}]
  /\ host \in {"none", "asked", "relaying", "gone"}
  /\ reply \in {"none", "ok", "badGateway", "serverError"}
  /\ relay \in [Directions -> {"none", "copying", "leaving", "ended"}]
  /\ closed \in BOOLEAN
  /\ shut \in [Directions -> BOOLEAN]
  /\ target \in End
  /\ up \in Progress /\ down \in Progress
  /\ lost \in 0 .. Chunks
  /\ spokeFirst \in BOOLEAN
  /\ up.got <= up.relayed /\ up.relayed <= up.written
  /\ up.written <= up.taken /\ up.taken <= up.sent
  /\ down.got <= down.written /\ lost + down.written <= down.taken
  /\ down.taken <= down.relayed /\ down.relayed <= down.sent
  /\ up.taken - up.written <= ChannelRoom
  /\ down.taken - lost - down.written <= ChannelRoom

\* A tunnel whose two ends are open stays up: no order in which tasks and threads
\* run makes one of them take an idle peer for one that has ended.
OpenTunnelStays ==
  guest = "tunnel" /\ client = "open" /\ target = "open"
    => (\A t \in Tasks : Running(t)) /\ (\A d \in Directions : relay[d] = "copying")

\* When the guest stops writing to a client that still reads, the target has ended
\* and all it sent has been written, but for what was lost with the host's reply;
\* a target that closed without reading all it was sent may have cut it short.
NoTruncation ==
  guest = "tunnel" /\ client # "closed" /\ TaskEnded("hostWriter") /\ ~TargetReset
    => target # "open" /\ lost + down.written = down.sent

\* A client loses the beginning of what the target sends only if the target speaks
\* first: then it may be read together with the host's reply and is discarded.
ClientFirstLosesNothing == lost > 0 => spokeFirst

\* What a client has sent arrives at a target that reads, also when the client has
\* ended its half, and when it reads nothing itself and its download is stuck.
UploadArrives ==
  []<>(up.got = up.relayed \/ target # "open")
    => ((up.got < up.sent) ~> (up.got = up.sent \/ target # "open" \/ client = "closed"))

\* When both ends have closed, or the target could not be reached and the client
\* has closed, every task and thread ends and every descriptor is closed, whatever
\* is left in channels and sockets.  Neither end alone can bring this about.
Released ==
  (client = "closed" /\ (target = "closed" \/ host = "gone"))
    ~> GuestHungUp /\ (guest = "tunnel" => ClientDropped) /\ HostHungUp

\* The host does not wait for ever for a target that keeps silent.
TargetNotSilent == []<>(host # "asked")

\* Unless the target keeps silent, a plain request is answered, by the target or by
\* the proxy for it, also when the host gives the connection up without a word.
PlainIsAnswered ==
  TargetNotSilent
    => (kind = "plain" ~> told # "nothing" \/ guest = "dead" \/ client = "closed")
=============================================================================

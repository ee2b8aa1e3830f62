---------------------------- MODULE SideChannels ----------------------------
(***************************************************************************)
(* The host's listeners for log records and proxy requests of VMs, and the *)
(* start of the agent inside a VM, over the VMs of VmManager.              *)
(*                                                                         *)
(* Firecracker passes a VM's connection to the host's port p on to the     *)
(* Unix socket vsock.sock_<p> in the directory of that VM.  Each listener  *)
(* of the host is one thread that waits for some VM, listens in its        *)
(* directory, and looks for no other.  A VM agent connects its logger      *)
(* first and only then starts its servers; it logs through a bounded       *)
(* channel that a task writes to the connection.  VMs, with their          *)
(* directories and agents, are named by cid.                               *)
(***************************************************************************)
EXTENDS VmManager, LogLines, SequencesExt

CONSTANTS Capacity,      \* LOG_CHANNEL_CAPACITY; 1000 in the code
          Records        \* what an agent logs, one sequence of bytes each

ASSUME WorkersAssumption == IsFiniteSet(Workers)
ASSUME CapacityAssumption == Capacity \in Nat \ {0}
\* Records are made of strings.
ASSUME RecordsAssumption == /\ Records \in Seq(Seq(Byte))
                            /\ \A i \in DOMAIN Records : IsUtf8(Records[i])

Sockets == {"log", "proxy"}

\* Every worker draws at most one cid.
Cids == FirstCid .. FirstCid + Cardinality(Workers) - 1

VARIABLES
  listener,     \* where the thread of each socket is
  place,        \* the VM whose directory it has chosen, 0 before
  agent,        \* where each VM agent is
  logged,       \* how many records it has logged
  channel,      \* the records in its channel
  link,         \* its connection to the log listener
  stream,       \* the bytes in that connection
  reader,       \* the state of the host's thread that reads them
  accepted,     \* history: the records that found room in the channel
  received      \* history: the bytes the host has read

logVars == <<logged, channel, link, stream, reader, accepted, received>>
sideVars == <<listener, place, agent, logVars>>
vars == <<managerVars, sideVars>>

ListenerState == {"polling", "binding", "listening", "ended"}
AgentState == {"none", "connecting", "starting", "serving"}
LinkState == {"none", "pending", "handled", "closed"}

SideInit ==
  /\ Init
  /\ listener = [s \in Sockets |-> "polling"]
  /\ place = [s \in Sockets |-> 0]
  /\ agent = [c \in Cids |-> "none"]
  /\ logged = [c \in Cids |-> 0]
  /\ channel = [c \in Cids |-> <<>>]
  /\ link = [c \in Cids |-> "none"]
  /\ stream = [c \in Cids |-> <<>>]
  /\ reader = [c \in Cids |-> NewReader]
  /\ accepted = [c \in Cids |-> <<>>]
  /\ received = [c \in Cids |-> <<>>]

\* The temporary directory of a VM goes with its instance, whether or not the
\* process still runs.
HasDirectory(c) ==
  c \in Owned \/ \E t \in Workers : pc[t] \in {"prepare", "spawn", "booting"} /\ cidOf[t] = c

-----------------------------------------------------------------------------
(* A listener thread of the host.                                            *)

\* Mutant: a thread that finds no VM does not wait for one.
GiveUpWithoutVm(s) ==
  \/ /\ ListedVms = {}
     /\ listener' = [listener EXCEPT ![s] = "ended"]
     /\ UNCHANGED place
  \/ \E c \in Owned : /\ place' = [place EXCEPT ![s] = c]
                      /\ listener' = [listener EXCEPT ![s] = "binding"]

\* Any entry of the table: the first in the order of a hash map.
ChooseVm(s) ==
  \E c \in Owned : /\ place' = [place EXCEPT ![s] = c]
                   /\ listener' = [listener EXCEPT ![s] = "binding"]

LookForVm(s) ==
  /\ listener[s] = "polling"
  /\ ~ShuttingDown
  /\ ChooseVm(s)
  /\ UNCHANGED <<managerVars, agent, logVars>>

\* The table is no longer locked: the directory may be gone, and the thread then
\* ends.
Bind(s) ==
  /\ listener[s] = "binding"
  /\ listener' = [listener EXCEPT ![s] = IF HasDirectory(place[s]) THEN "listening" ELSE "ended"]
  /\ UNCHANGED <<managerVars, place, agent, logVars>>

\* The flag is looked at ten times a second.  A connection that has not been
\* accepted is closed with the listener.
StopListening(s) ==
  /\ listener[s] \in {"polling", "listening"}
  /\ ShuttingDown
  /\ listener' = [listener EXCEPT ![s] = "ended"]
  /\ link' = IF s = "log" THEN [c \in Cids |-> IF link[c] = "pending" THEN "closed" ELSE link[c]]
                          ELSE link
  /\ UNCHANGED <<managerVars, place, agent, logged, channel, stream, reader, accepted, received>>

\* Each connection has a thread of its own.
AcceptLog(c) ==
  /\ listener["log"] = "listening"
  /\ ~ShuttingDown
  /\ link[c] = "pending"
  /\ link' = [link EXCEPT ![c] = "handled"]
  /\ UNCHANGED <<managerVars, listener, place, agent, logged, channel, stream, reader,
                 accepted, received>>

\* A read returns any part of what is there.
ReadLog(c) ==
  /\ link[c] = "handled"
  /\ \E n \in 1 .. Len(stream[c]) :
        /\ reader' = [reader EXCEPT ![c] = ReadChunk(@, SubSeq(stream[c], 1, n))]
        /\ received' = [received EXCEPT ![c] = @ \o SubSeq(stream[c], 1, n)]
        /\ stream' = [stream EXCEPT ![c] = SubSeq(@, n + 1, Len(@))]
  /\ UNCHANGED <<managerVars, listener, place, agent, logged, channel, link, accepted>>

\* The VM has gone and everything that got through has been read.
EndLog(c) ==
  /\ link[c] = "handled"
  /\ c \notin running
  /\ stream[c] = <<>>
  /\ reader' = [reader EXCEPT ![c] = FinishReading(@)]
  /\ link' = [link EXCEPT ![c] = "closed"]
  /\ UNCHANGED <<managerVars, listener, place, agent, logged, channel, stream, accepted, received>>

-----------------------------------------------------------------------------
(* The agent inside a VM.                                                    *)

\* The VM has booted and runs main up to the first connect.
StartAgent(c) ==
  /\ c \in running
  /\ agent[c] = "none"
  /\ agent' = [agent EXCEPT ![c] = "connecting"]
  /\ UNCHANGED <<managerVars, listener, place, logVars>>

\* Mutant: the logger does without a connection.
AnyPlace(s, c) == TRUE

\* Somebody listens on the socket in the VM's own directory.
Reachable(s, c) == listener[s] = "listening" /\ place[s] = c /\ HasDirectory(c)

\* BoundedVsockLogger::init tries until it succeeds.
ConnectLogger(c) ==
  /\ c \in running
  /\ agent[c] = "connecting"
  /\ Reachable("log", c)
  /\ agent' = [agent EXCEPT ![c] = "starting"]
  /\ link' = [link EXCEPT ![c] = "pending"]
  /\ UNCHANGED <<managerVars, listener, place, logged, channel, stream, reader, accepted, received>>

\* The HTTP proxy and, half a second later, the command server.
StartServers(c) ==
  /\ c \in running
  /\ agent[c] = "starting"
  /\ agent' = [agent EXCEPT ![c] = "serving"]
  /\ UNCHANGED <<managerVars, listener, place, logVars>>

\* Mutant: one record more than the channel holds.
RoomForOneMore(c) == Len(channel[c]) <= Capacity

Room(c) == Len(channel[c]) < Capacity

\* A thread of the agent logs; without room in the channel the record is lost.
Log(c) ==
  LET record == Records[logged[c] + 1] IN
  /\ c \in running
  /\ agent[c] \in {"starting", "serving"}
  /\ logged[c] < Len(Records)
  /\ logged' = [logged EXCEPT ![c] = @ + 1]
  /\ IF Room(c) THEN /\ channel' = [channel EXCEPT ![c] = Append(@, record)]
                     /\ accepted' = [accepted EXCEPT ![c] = Append(@, record)]
                ELSE UNCHANGED <<channel, accepted>>
  /\ UNCHANGED <<managerVars, listener, place, agent, link, stream, reader, received>>

\* The background task; an error of the connection is ignored.
WriteRecord(c) ==
  /\ c \in running
  /\ channel[c] # <<>>
  /\ channel' = [channel EXCEPT ![c] = Tail(@)]
  /\ stream' = IF link[c] = "closed" THEN stream
               ELSE [stream EXCEPT ![c] = @ \o Head(channel[c])]
  /\ UNCHANGED <<managerVars, listener, place, agent, logged, link, reader, accepted, received>>

\* What firecracker has not passed on ends with it, in the middle of a record or
\* of a character.
LoseTail(c) ==
  /\ c \notin running
  /\ stream[c] # <<>>
  /\ \E n \in 0 .. Len(stream[c]) - 1 : stream' = [stream EXCEPT ![c] = SubSeq(@, 1, n)]
  /\ UNCHANGED <<managerVars, listener, place, agent, logged, channel, link, reader,
                 accepted, received>>

-----------------------------------------------------------------------------
ListenerStep(s) == LookForVm(s) \/ Bind(s) \/ StopListening(s)
ReaderStep(c) == AcceptLog(c) \/ ReadLog(c) \/ EndLog(c)
AgentStep(c) == StartAgent(c) \/ ConnectLogger(c) \/ StartServers(c) \/ WriteRecord(c)

\* Of main's shutdown the flag is here: what follows kills VMs, as FirecrackerExits
\* may at any time, and clears a table that no listener reads again.
ManagerStep ==
  \/ \E t \in Workers, v \in VmIds : BeginCreate(t, v) \/ Destroy(t, v)
  \/ \E t \in Workers : CreateStep(t)
  \/ \E c \in running : FirecrackerExits(c)
  \/ BuildImage
  \/ SetShutdownFlag

SideNext ==
  \/ ManagerStep /\ UNCHANGED sideVars
  \/ \E s \in Sockets : ListenerStep(s)
  \/ \E c \in Cids : ReaderStep(c) \/ AgentStep(c) \/ Log(c) \/ LoseTail(c)
  \/ ShuttingDown /\ UNCHANGED vars

\* The threads of the host and the agent of a running VM are scheduled.  Nothing
\* makes clients create or destroy VMs, agents log, VMs stop or the host end.
SideFairness == /\ \A s \in Sockets : WF_vars(ListenerStep(s))
                /\ \A c \in Cids : WF_vars(ReaderStep(c)) /\ WF_vars(AgentStep(c))

SideSpec == SideInit /\ [][SideNext]_vars /\ SideFairness

-----------------------------------------------------------------------------
(* Properties.                                                               *)

\* Every variable holds a value of the code's type; the channel keeps its bound.
SideTypeOK ==
  /\ listener \in [Sockets -> ListenerState]
  /\ place \in [Sockets -> {0} \cup Cids]
  /\ agent \in [Cids -> AgentState]
  /\ logged \in [Cids -> 0 .. Len(Records)]
  /\ channel \in [Cids -> Seq(Seq(Byte))]
  /\ \A c \in Cids : Len(channel[c]) <= Capacity
  /\ link \in [Cids -> LinkState]
  /\ stream \in [Cids -> Seq(Byte)]
  /\ accepted \in [Cids -> Seq(Seq(Byte))]
  /\ received \in [Cids -> Seq(Byte)]

Serving(c) == c \in running /\ agent[c] = "serving"

\* Only the VM in whose directory the log listener listens gets past the start of
\* its logger, and the listener never moves: of all VMs ever created, one at most
\* comes to serve commands, also after it has been destroyed or replaced.
OneVmEverServes ==
  \A c, d \in Cids :
    agent[c] \in {"starting", "serving"} /\ agent[d] \in {"starting", "serving"} => c = d

\* The host prints the lines of the log records in order, each one once and
\* whole, wherever the reads of the connection happen to end.  What it has printed
\* are the lines of a text at the start of what it has read, and of all it has
\* read unless that ends inside a character.
HostPrintsRecords ==
  \A c \in Cids :
    /\ IsPrefix(received[c], Bytes(accepted[c]))
    /\ \E n \in 0 .. Len(received[c]) :
         LET text == SubSeq(received[c], 1, n)
             split == Split(text)
         IN /\ IsUtf8(text)
            /\ IsUtf8(received[c]) => n = Len(received[c])
            /\ reader[c].printed = IF link[c] = "closed" THEN WithLine(split.lines, split.rest)
                                                         ELSE split.lines

\* Once the channel and the connection of a running VM are empty, every line of
\* every record that found room in the channel has been printed.
DrainedLogIsPrinted ==
  \A c \in running \cap Cids :
    link[c] = "handled" /\ channel[c] = <<>> /\ stream[c] = <<>>
      => reader[c].printed = Split(Bytes(accepted[c])).lines

\* A VM that is the only one ever created and keeps running comes to serve
\* commands, finds the proxy of the host, and every record that found room in its
\* channel is read by the host.
LoneVmIsServed ==
  \A v \in VmIds :
    (instances[v] = FirstCid /\ FirstCid \in running /\ nextCid = FirstCid + 1)
      ~> \/ /\ Serving(FirstCid) /\ Reachable("proxy", FirstCid)
            /\ channel[FirstCid] = <<>> /\ stream[FirstCid] = <<>>
         \/ ShuttingDown \/ FirstCid \notin running \/ instances[v] # FirstCid
         \/ nextCid > FirstCid + 1

\* The VM Builder is "an Agent that can create VMs and execute build/test commands
\* in them": a VM that is in the table and keeps running comes to serve commands.
EveryVmServes ==
  \A v \in VmIds, c \in Cids :
    (instances[v] = c /\ c \in running)
      ~> Serving(c) \/ ShuttingDown \/ c \notin running \/ instances[v] # c
=============================================================================

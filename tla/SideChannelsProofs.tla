------------------------- MODULE SideChannelsProofs -------------------------
(***************************************************************************)
(* Proofs about SideChannels, for any number of worker threads, VM names   *)
(* and log records.                                                        *)
(*                                                                         *)
(* That one VM at most ever serves rests on the log listener alone: an     *)
(* agent past its logger is the one of the directory the listener has      *)
(* chosen, and a listener that has chosen never chooses again.             *)
(***************************************************************************)
EXTENDS SideChannels, VmManagerProofs, FiniteSetTheorems, SequenceTheorems,
        WellFoundedInduction, TLAPS

\* What the proof needs of the types.
Shapes == /\ listener \in [Sockets -> ListenerState]
          /\ DOMAIN place = Sockets
          /\ agent \in [Cids -> AgentState]

\* An agent that has connected its logger is the one the listener has chosen.
Chosen == \A c \in Cids : agent[c] \in {"starting", "serving"}
                            => c = place["log"] /\ listener["log"] \in {"listening", "ended"}

ServerInv == Shapes /\ Chosen

LEMMA ServerInit == SideInit => ServerInv
BY DEF SideInit, ServerInv, Shapes, Chosen, ListenerState, AgentState, Sockets

LEMMA ServerStep == ServerInv /\ [SideNext]_vars => ServerInv'
<1> SUFFICES ASSUME ServerInv, [SideNext]_vars PROVE ServerInv'
  OBVIOUS
<1> USE DEF ServerInv, Shapes, Chosen
<1>1. ASSUME UNCHANGED <<listener, place, agent>> PROVE ServerInv'
  BY <1>1
<1>2. CASE ManagerStep /\ UNCHANGED sideVars
  BY <1>1, <1>2 DEF sideVars
<1>3. CASE UNCHANGED vars
  BY <1>1, <1>3 DEF vars, sideVars
<1>4. ASSUME NEW s \in Sockets, LookForVm(s) PROVE ServerInv'
  <2>1. PICK c \in Owned : /\ place' = [place EXCEPT ![s] = c]
                           /\ listener' = [listener EXCEPT ![s] = "binding"]
    BY <1>4 DEF LookForVm, ChooseVm
  <2>2. listener[s] = "polling" /\ agent' = agent
    BY <1>4 DEF LookForVm
  <2>3. Shapes'
    BY <2>1, <2>2 DEF ListenerState
  <2>4. Chosen'
    <3>1. ASSUME NEW d \in Cids, agent[d] \in {"starting", "serving"}
          PROVE  s # "log"
      BY <2>2, <3>1
    <3> QED
      BY <2>1, <2>2, <3>1 DEF Sockets
  <2> QED
    BY <2>3, <2>4
<1>5. ASSUME NEW s \in Sockets, Bind(s) PROVE ServerInv'
  BY <1>5 DEF Bind, ListenerState, Sockets
<1>6. ASSUME NEW s \in Sockets, StopListening(s) PROVE ServerInv'
  BY <1>6 DEF StopListening, ListenerState, Sockets
<1>7. ASSUME NEW c \in Cids, ReaderStep(c) \/ WriteRecord(c) \/ Log(c) \/ LoseTail(c)
      PROVE  ServerInv'
  BY <1>1, <1>7 DEF ReaderStep, AcceptLog, ReadLog, EndLog, WriteRecord, Log, LoseTail
<1>8. ASSUME NEW c \in Cids, StartAgent(c) PROVE ServerInv'
  BY <1>8 DEF StartAgent, AgentState
<1>9. ASSUME NEW c \in Cids, ConnectLogger(c) PROVE ServerInv'
  BY <1>9 DEF ConnectLogger, Reachable, AgentState
<1>10. ASSUME NEW c \in Cids, StartServers(c) PROVE ServerInv'
  BY <1>10 DEF StartServers, AgentState
<1> QED
  BY <1>2, <1>3, <1>4, <1>5, <1>6, <1>7, <1>8, <1>9, <1>10
     DEF SideNext, ListenerStep, AgentStep

(* Of all VMs that are ever created, at most one comes to serve commands.    *)
THEOREM OneServer == SideSpec => []OneVmEverServes
<1>1. ServerInv => OneVmEverServes
  BY DEF ServerInv, Chosen, OneVmEverServes
<1> QED
  BY <1>1, ServerInit, ServerStep, PTL DEF SideSpec

-----------------------------------------------------------------------------
(* Types.  That the arrays over Cids are large enough for every VM ever      *)
(* created needs a count: a worker draws one cid, and none comes back.       *)

\* Workers that have drawn their cid, or needed none.
Drawn == {t \in Workers : pc[t] \notin {"idle", "takeCid"}}

CidsAreCounted == nextCid <= FirstCid + Cardinality(Drawn)

SideInv == TypeInv /\ CidsAreCounted /\ SideTypeOK

LEMMA ManagerStepIsNext == ManagerStep => Next
BY DEF ManagerStep, Next

LEMMA DrawnIsFinite == IsFiniteSet(Drawn) /\ Cardinality(Drawn) \in Nat
<1>1. Drawn \subseteq Workers
  BY DEF Drawn
<1>2. IsFiniteSet(Drawn)
  BY <1>1, WorkersAssumption, FS_Subset
<1> QED
  BY <1>2, FS_CardinalityType

\* Every cid given out is the index of an array of this module.
LEMMA CidsSuffice ==
  ASSUME TypeInv, CidsAreCounted
  PROVE  Owned \subseteq Cids
<1>1. Drawn \subseteq Workers
  BY DEF Drawn
<1>2. Cardinality(Drawn) <= Cardinality(Workers)
  BY <1>1, WorkersAssumption, FS_Subset
<1>3. Cardinality(Drawn) \in Nat /\ Cardinality(Workers) \in Nat
  BY DrawnIsFinite, WorkersAssumption, FS_CardinalityType
<1>4. nextCid - 1 <= FirstCid + Cardinality(Workers) - 1
  BY <1>2, <1>3 DEF CidsAreCounted, TypeInv, TypeOK, FirstCid
<1>5. Owned \subseteq FirstCid .. nextCid - 1
  BY CidsAreDrawn
<1> QED
  BY <1>3, <1>4, <1>5 DEF Cids, FirstCid, TypeInv, TypeOK

LEMMA CountStep == TypeInv /\ CidsAreCounted /\ ManagerStep => CidsAreCounted'
<1> SUFFICES ASSUME TypeInv, CidsAreCounted, ManagerStep PROVE CidsAreCounted'
  OBVIOUS
<1> USE DEF TypeInv, TypeOK
<1>1. IsFiniteSet(Drawn') /\ Cardinality(Drawn') \in Nat
  <2>1. Drawn' \subseteq Workers
    BY DEF Drawn
  <2>2. IsFiniteSet(Drawn')
    BY <2>1, WorkersAssumption, FS_Subset
  <2> QED
    BY <2>2, FS_CardinalityType
<1>2. ASSUME Drawn \subseteq Drawn', nextCid' = nextCid PROVE CidsAreCounted'
  <2>1. Cardinality(Drawn) <= Cardinality(Drawn')
    BY <1>1, <1>2, FS_Subset
  <2> QED
    BY <1>1, <1>2, <2>1, DrawnIsFinite DEF CidsAreCounted, FirstCid
<1>3. ASSUME NEW t \in Workers, TakeCid(t) PROVE CidsAreCounted'
  <2>1. nextCid' = nextCid + 1 /\ t \notin Drawn
    BY <1>3 DEF TakeCid, DrawCid, Drawn
  <2>2. Drawn' = Drawn \cup {t}
    BY <1>3 DEF TakeCid, Drawn
  <2>3. Cardinality(Drawn') = Cardinality(Drawn) + 1
    BY <2>1, <2>2, DrawnIsFinite, FS_AddElement
  <2> QED
    BY <2>1, <2>3, DrawnIsFinite DEF CidsAreCounted, FirstCid
<1>4. ASSUME NEW t \in Workers, NEW v \in VmIds, BeginCreate(t, v) \/ Destroy(t, v)
      PROVE  CidsAreCounted'
  BY <1>2, <1>4 DEF BeginCreate, Destroy, Drawn
<1>5. ASSUME NEW t \in Workers, Prepare(t) \/ FailCreate(t) \/ Spawn(t) \/ InsertInstance(t)
      PROVE  CidsAreCounted'
  BY <1>2, <1>5 DEF Prepare, FailCreate, Spawn, InsertInstance, Drawn
<1>6. ASSUME NEW c \in running, FirecrackerExits(c) PROVE CidsAreCounted'
  BY <1>2, <1>6 DEF FirecrackerExits, Drawn, workerVars
<1>7. CASE BuildImage \/ SetShutdownFlag
  BY <1>2, <1>7 DEF BuildImage, SetShutdownFlag, Drawn, workerVars
<1> QED
  BY <1>3, <1>4, <1>5, <1>6, <1>7 DEF ManagerStep, CreateStep

LEMMA SideTypeInit == SideInit => SideInv
<1> SUFFICES ASSUME SideInit PROVE SideInv
  OBVIOUS
<1>1. TypeInv
  BY TypeInit DEF SideInit
<1>2. CidsAreCounted
  BY DrawnIsFinite DEF SideInit, Init, CidsAreCounted, FirstCid
<1>3. SideTypeOK
  BY RecordsAssumption, CapacityAssumption
     DEF SideInit, SideTypeOK, ListenerState, AgentState, LinkState
<1> QED
  BY <1>1, <1>2, <1>3 DEF SideInv

\* A record is appended to what has room, and taken from what is not empty.
LEMMA ChannelStep ==
  ASSUME NEW ch \in Seq(Seq(Byte)), NEW record \in Seq(Byte)
  PROVE  /\ Append(ch, record) \in Seq(Seq(Byte))
         /\ Len(Append(ch, record)) = Len(ch) + 1
         /\ ch # <<>> => /\ Tail(ch) \in Seq(Seq(Byte)) /\ Len(Tail(ch)) = Len(ch) - 1
                         /\ Head(ch) \in Seq(Byte)
BY AppendProperties, HeadTailProperties

\* Any part of a connection's bytes is a sequence of bytes.
LEMMA PartOfStream ==
  ASSUME NEW bytes \in Seq(Byte), NEW m \in 1 .. Len(bytes) + 1, NEW n \in 0 .. Len(bytes)
  PROVE  SubSeq(bytes, m, n) \in Seq(Byte)
<1>1. \A i \in m .. n : bytes[i] \in Byte
  BY ElementOfSeq
<1> QED
  BY <1>1, SubSeqProperties

LEMMA SideTypeStep == SideInv /\ [SideNext]_vars => SideInv'
<1> SUFFICES ASSUME SideInv, [SideNext]_vars PROVE SideInv'
  OBVIOUS
<1> USE DEF SideInv
<1> DEFINE ManagerKept == UNCHANGED managerVars
<1>1. ASSUME ManagerKept PROVE TypeInv' /\ CidsAreCounted'
  BY <1>1, TypeStep DEF managerVars, CidsAreCounted, Drawn
<1>2. ASSUME UNCHANGED sideVars PROVE SideTypeOK'
  BY <1>2 DEF SideTypeOK, sideVars, logVars
<1>3. CASE ManagerStep /\ UNCHANGED sideVars
  <2>1. TypeInv'
    BY <1>3, ManagerStepIsNext, TypeStep
  <2> QED
    BY <1>2, <1>3, <2>1, CountStep
<1>4. CASE UNCHANGED vars
  BY <1>1, <1>2, <1>4 DEF vars
<1> HIDE DEF ManagerKept
<1>5. ASSUME NEW s \in Sockets, LookForVm(s) PROVE SideTypeOK' /\ ManagerKept
  <2>1. PICK c \in Owned : /\ place' = [place EXCEPT ![s] = c]
                           /\ listener' = [listener EXCEPT ![s] = "binding"]
    BY <1>5 DEF LookForVm, ChooseVm
  <2>2. c \in Cids
    BY CidsSuffice
  <2> QED
    BY <1>5, <2>1, <2>2 DEF LookForVm, SideTypeOK, ListenerState, logVars, ManagerKept
<1>6. ASSUME NEW s \in Sockets, Bind(s) PROVE SideTypeOK' /\ ManagerKept
  BY <1>6 DEF Bind, SideTypeOK, ListenerState, logVars, ManagerKept
<1>7. ASSUME NEW s \in Sockets, StopListening(s) PROVE SideTypeOK' /\ ManagerKept
  BY <1>7 DEF StopListening, SideTypeOK, ListenerState, LinkState, ManagerKept
<1>8. ASSUME NEW c \in Cids, AcceptLog(c) \/ EndLog(c) PROVE SideTypeOK' /\ ManagerKept
  <2>1. /\ \/ link' = [link EXCEPT ![c] = "handled"] \/ link' = [link EXCEPT ![c] = "closed"]
        /\ UNCHANGED <<listener, place, agent, logged, channel, stream, accepted, received>>
    BY <1>8 DEF AcceptLog, EndLog
  <2>2. ManagerKept
    BY <1>8 DEF AcceptLog, EndLog, ManagerKept
  <2> QED
    BY <2>1, <2>2 DEF SideTypeOK, LinkState
<1>9. ASSUME NEW c \in Cids, ReadLog(c) PROVE SideTypeOK' /\ ManagerKept
  <2>1. PICK n \in 1 .. Len(stream[c]) :
          /\ received' = [received EXCEPT ![c] = @ \o SubSeq(stream[c], 1, n)]
          /\ stream' = [stream EXCEPT ![c] = SubSeq(@, n + 1, Len(@))]
    BY <1>9 DEF ReadLog
  <2>2. stream[c] \in Seq(Byte) /\ received[c] \in Seq(Byte)
    BY DEF SideTypeOK
  <2>3. /\ SubSeq(stream[c], 1, n) \in Seq(Byte)
        /\ SubSeq(stream[c], n + 1, Len(stream[c])) \in Seq(Byte)
    BY <2>2, PartOfStream, LenProperties
  <2>4. received[c] \o SubSeq(stream[c], 1, n) \in Seq(Byte)
    BY <2>2, <2>3, ConcatProperties
  <2>5. stream' \in [Cids -> Seq(Byte)] /\ received' \in [Cids -> Seq(Byte)]
    BY <2>1, <2>3, <2>4 DEF SideTypeOK
  <2> QED
    BY <1>9, <2>5 DEF ReadLog, SideTypeOK, ManagerKept
<1>10. ASSUME NEW c \in Cids, StartAgent(c) \/ ConnectLogger(c) \/ StartServers(c)
       PROVE  SideTypeOK' /\ ManagerKept
  BY <1>10, ZenonT(40) DEF StartAgent, ConnectLogger, StartServers, SideTypeOK, AgentState, LinkState,
               logVars, ManagerKept
<1>11. ASSUME NEW c \in Cids, Log(c) PROVE SideTypeOK' /\ ManagerKept
  <2> DEFINE record == Records[logged[c] + 1]
  <2>1. logged[c] \in Nat /\ logged[c] < Len(Records) /\ Len(Records) \in Nat
    BY <1>11, RecordsAssumption, LenProperties DEF Log, SideTypeOK
  <2>2. record \in Seq(Byte)
    BY <2>1, RecordsAssumption, ElementOfSeq
  <2>3. logged' \in [Cids -> 0 .. Len(Records)]
    BY <1>11, <2>1 DEF Log, SideTypeOK
  <2>4. channel[c] \in Seq(Seq(Byte)) /\ accepted[c] \in Seq(Seq(Byte))
    BY DEF SideTypeOK
  <2> HIDE DEF record
  <2>5. CASE Room(c)
    <3>1. /\ channel' = [channel EXCEPT ![c] = Append(@, record)]
          /\ accepted' = [accepted EXCEPT ![c] = Append(@, record)]
      BY <1>11, <2>5 DEF Log, record
    <3>2. /\ Append(channel[c], record) \in Seq(Seq(Byte))
          /\ Len(Append(channel[c], record)) = Len(channel[c]) + 1
          /\ Append(accepted[c], record) \in Seq(Seq(Byte))
      BY <2>2, <2>4, ChannelStep
    <3>3. Len(channel[c]) + 1 <= Capacity
      BY <2>4, <2>5, CapacityAssumption, LenProperties DEF Room
    <3>4. channel' \in [Cids -> Seq(Seq(Byte))] /\ accepted' \in [Cids -> Seq(Seq(Byte))]
      BY <3>1, <3>2 DEF SideTypeOK
    <3>5. \A d \in Cids : Len(channel'[d]) <= Capacity
      BY <3>1, <3>2, <3>3 DEF SideTypeOK
    <3> QED
      BY <1>11, <2>3, <3>4, <3>5 DEF Log, SideTypeOK, ManagerKept
  <2>6. CASE ~Room(c)
    BY <1>11, <2>3, <2>6 DEF Log, SideTypeOK, ManagerKept
  <2> QED
    BY <2>5, <2>6
<1>12. ASSUME NEW c \in Cids, WriteRecord(c) PROVE SideTypeOK' /\ ManagerKept
  <2>1. channel[c] \in Seq(Seq(Byte)) /\ channel[c] # <<>> /\ stream[c] \in Seq(Byte)
    BY <1>12 DEF WriteRecord, SideTypeOK
  <2>2. /\ Tail(channel[c]) \in Seq(Seq(Byte))
        /\ Len(Tail(channel[c])) = Len(channel[c]) - 1
        /\ Head(channel[c]) \in Seq(Byte)
    BY <2>1, HeadTailProperties
  <2>3. stream[c] \o Head(channel[c]) \in Seq(Byte)
    BY <2>1, <2>2, ConcatProperties
  <2>4. channel' = [channel EXCEPT ![c] = Tail(@)]
    BY <1>12 DEF WriteRecord
  <2>5. channel' \in [Cids -> Seq(Seq(Byte))]
    BY <2>2, <2>4 DEF SideTypeOK
  <2>6. \A d \in Cids : Len(channel'[d]) <= Capacity
    <3>1. Len(channel[c]) \in Nat /\ Len(channel[c]) <= Capacity /\ Capacity \in Nat
      BY <2>1, LenProperties, CapacityAssumption DEF SideTypeOK
    <3> QED
      BY <2>2, <2>4, <3>1 DEF SideTypeOK
  <2>7. stream' \in [Cids -> Seq(Byte)]
    BY <1>12, <2>3 DEF WriteRecord, SideTypeOK
  <2> QED
    BY <1>12, <2>5, <2>6, <2>7 DEF WriteRecord, SideTypeOK, ManagerKept
<1>13. ASSUME NEW c \in Cids, LoseTail(c) PROVE SideTypeOK' /\ ManagerKept
  <2>1. PICK n \in 0 .. Len(stream[c]) - 1 : stream' = [stream EXCEPT ![c] = SubSeq(@, 1, n)]
    BY <1>13 DEF LoseTail
  <2>2. stream[c] \in Seq(Byte) /\ Len(stream[c]) \in Nat
    BY LenProperties DEF SideTypeOK
  <2>3. SubSeq(stream[c], 1, n) \in Seq(Byte)
    BY <2>2, PartOfStream
  <2>4. stream' \in [Cids -> Seq(Byte)]
    BY <2>1, <2>3 DEF SideTypeOK
  <2> QED
    BY <1>13, <2>4 DEF LoseTail, SideTypeOK, ManagerKept
<1> QED
  BY <1>1, <1>3, <1>4, <1>5, <1>6, <1>7, <1>8, <1>9, <1>10, <1>11, <1>12, <1>13
     DEF SideNext, ListenerStep, ReaderStep, AgentStep

(* Every variable holds a value of its type: no channel exceeds its capacity *)
(* and no VM is outside the arrays, for any number of threads and records.   *)
THEOREM SideTypeCorrect == SideSpec => []SideTypeOK
<1>1. SideInv => SideTypeOK
  BY DEF SideInv
<1> QED
  BY <1>1, SideTypeInit, SideTypeStep, PTL DEF SideSpec

-----------------------------------------------------------------------------
(* A VM's process ends once: what has run does not run again.                *)

\* A cid that is drawn and not yet used for a process is that of no process and
\* no agent, and no agent is beyond the counter.
Fresh ==
  /\ \A t \in Workers : pc[t] \in {"prepare", "spawn"} =>
       cidOf[t] \notin running /\ (cidOf[t] \in Cids => agent[cidOf[t]] = "none")
  /\ \A c \in Cids : c >= nextCid => agent[c] = "none"

ManagerInv == SideInv /\ CidsAreUnique /\ Fresh

LEMMA FreshManagerStep ==
  ASSUME TypeInv, CidsAreUnique, Fresh, ManagerStep, agent' = agent
  PROVE  Fresh'
<1> USE DEF TypeInv, TypeOK, Fresh
<1>1. ASSUME NEW t \in Workers, TakeCid(t) PROVE Fresh'
  <2>1. /\ cidOf' = [cidOf EXCEPT ![t] = nextCid] /\ nextCid' = nextCid + 1
        /\ pc' = [pc EXCEPT ![t] = "prepare"] /\ running' = running
    BY <1>1 DEF TakeCid, DrawCid
  <2>2. nextCid \notin running
    OBVIOUS
  <2>3. ASSUME NEW u \in Workers, pc'[u] \in {"prepare", "spawn"}
        PROVE  cidOf'[u] \notin running /\ (cidOf'[u] \in Cids => agent[cidOf'[u]] = "none")
    <3>1. CASE u = t
      BY <2>1, <2>2, <3>1
    <3>2. CASE u # t
      BY <2>1, <2>3, <3>2
    <3> QED
      BY <3>1, <3>2
  <2>4. \A c \in Cids : c >= nextCid' => agent[c] = "none"
    BY <2>1 DEF Cids, FirstCid
  <2> QED
    BY <2>1, <2>3, <2>4
<1>2. ASSUME NEW t \in Workers, Spawn(t) PROVE Fresh'
  <2>1. /\ running' \subseteq running \cup {cidOf[t]} /\ pc[t] = "spawn"
        /\ pc' = [pc EXCEPT ![t] = "booting"] /\ UNCHANGED <<cidOf, nextCid>>
    BY <1>2 DEF Spawn
  <2>2. ASSUME NEW u \in Workers, pc'[u] \in {"prepare", "spawn"}
        PROVE  pc[u] \in {"prepare", "spawn"} /\ cidOf[u] # cidOf[t]
    <3>1. u # t /\ pc[u] \in {"prepare", "spawn"}
      BY <2>1, <2>2
    <3> QED
      BY <2>1, <3>1 DEF CidsAreUnique, Creating
  <2> QED
    BY <2>1, <2>2
<1>3. ASSUME running' \subseteq running, cidOf' = cidOf, nextCid' = nextCid,
             \A u \in Workers : pc'[u] \in {"prepare", "spawn"} => pc[u] \in {"prepare", "spawn"}
      PROVE  Fresh'
  BY <1>3
<1>4. ASSUME NEW t \in Workers, NEW v \in VmIds, BeginCreate(t, v) \/ Destroy(t, v)
      PROVE  Fresh'
  BY <1>3, <1>4 DEF BeginCreate, Destroy, DestroyInstance, Kill
<1>5. ASSUME NEW t \in Workers, Prepare(t) \/ FailCreate(t) \/ InsertInstance(t) PROVE Fresh'
  BY <1>3, <1>5 DEF Prepare, FailCreate, InsertInstance
<1>6. ASSUME NEW c \in running, FirecrackerExits(c) PROVE Fresh'
  BY <1>3, <1>6 DEF FirecrackerExits, workerVars
<1>7. CASE BuildImage \/ SetShutdownFlag
  BY <1>3, <1>7 DEF BuildImage, SetShutdownFlag, workerVars
<1> QED
  BY <1>1, <1>2, <1>4, <1>5, <1>6, <1>7 DEF ManagerStep, CreateStep

\* A process that a step of the manager starts is that of a VM without an agent.
LEMMA NewProcess ==
  ASSUME TypeInv, Fresh, ManagerStep, NEW c \in Cids, c \in running', c \notin running
  PROVE  agent[c] = "none"
<1>1. PICK t \in Workers : Spawn(t) /\ c = cidOf[t]
  <2>1. ASSUME NEW t \in Workers, Spawn(t) PROVE c = cidOf[t]
    BY <2>1 DEF Spawn
  <2>2. ~ \E t \in Workers, v \in VmIds : BeginCreate(t, v) \/ Destroy(t, v)
    BY DEF BeginCreate, Destroy, DestroyInstance, Kill
  <2>3. ~ \E t \in Workers : TakeCid(t) \/ Prepare(t) \/ FailCreate(t) \/ InsertInstance(t)
    BY DEF TakeCid, DrawCid, Prepare, FailCreate, InsertInstance
  <2>4. ~ ((\E d \in running : FirecrackerExits(d)) \/ BuildImage \/ SetShutdownFlag)
    BY DEF FirecrackerExits, BuildImage, SetShutdownFlag
  <2> QED
    BY <2>1, <2>2, <2>3, <2>4 DEF ManagerStep, CreateStep
<1> QED
  BY <1>1 DEF Fresh, Spawn

LEMMA ManagerInvInit == SideInit => ManagerInv
<1>1. SideInit => Fresh
  BY DEF SideInit, Init, Fresh
<1> QED
  BY <1>1, SideTypeInit, CidsInit DEF ManagerInv, SideInit

\* A step is one of the manager's, which leaves the channels alone, or leaves the
\* manager alone.
LEMMA SideStepIs ==
  ASSUME SideInv, SideNext
  PROVE  \/ ManagerStep /\ UNCHANGED sideVars
         \/ UNCHANGED managerVars
<1>1. ASSUME NEW s \in Sockets, ListenerStep(s) PROVE UNCHANGED managerVars
  BY <1>1 DEF ListenerStep, LookForVm, Bind, StopListening
<1>2. ASSUME NEW c \in Cids, ReaderStep(c) \/ AgentStep(c) \/ Log(c) \/ LoseTail(c)
      PROVE  UNCHANGED managerVars
  BY <1>2 DEF ReaderStep, AcceptLog, ReadLog, EndLog, AgentStep, StartAgent, ConnectLogger,
              StartServers, WriteRecord, Log, LoseTail
<1>3. ASSUME UNCHANGED vars PROVE UNCHANGED managerVars
  BY <1>3 DEF vars
<1> QED
  BY <1>1, <1>2, <1>3 DEF SideNext

LEMMA ManagerInvStep == ManagerInv /\ [SideNext]_vars => ManagerInv'
<1> SUFFICES ASSUME ManagerInv, [SideNext]_vars PROVE ManagerInv'
  OBVIOUS
<1>1. SideInv' /\ SideInv /\ TypeInv
  BY SideTypeStep DEF ManagerInv, SideInv
<1>2. \/ ManagerStep /\ UNCHANGED sideVars
      \/ UNCHANGED managerVars
  BY <1>1, SideStepIs DEF vars
<1>3. CidsAreUnique'
  <2>1. [Next]_managerVars
    BY <1>2, ManagerStepIsNext
  <2> QED
    BY <1>1, <2>1, CidsStep DEF ManagerInv
<1>4. Fresh'
  <2>1. CASE ManagerStep /\ UNCHANGED sideVars
    BY <1>1, <2>1, FreshManagerStep DEF ManagerInv, sideVars
  <2>2. CASE UNCHANGED managerVars
    <3>1. UNCHANGED <<pc, cidOf, running, nextCid>>
      BY <2>2 DEF managerVars
    <3>2. ASSUME NEW c \in Cids, StartAgent(c) PROVE Fresh'
      <4>1. c \in running /\ c < nextCid /\ agent' = [agent EXCEPT ![c] = "connecting"]
        BY <1>1, <3>2 DEF StartAgent, TypeInv, TypeOK, FirstCid
      <4>2. \A d \in Cids : d # c => agent'[d] = agent[d]
        BY <1>1, <4>1 DEF SideInv, SideTypeOK
      <4>3. nextCid \in Nat /\ c \in Nat
        BY <1>1 DEF TypeInv, TypeOK, Cids, FirstCid
      <4> QED
        BY <3>1, <4>1, <4>2, <4>3 DEF ManagerInv, Fresh
    <3>3. ASSUME \A d \in Cids : agent[d] = "none" => agent'[d] = "none" PROVE Fresh'
      BY <3>1, <3>3 DEF ManagerInv, Fresh
    <3>4. ASSUME agent' = agent PROVE Fresh'
      BY <3>3, <3>4
    <3>5. ASSUME NEW s \in Sockets, ListenerStep(s) PROVE Fresh'
      BY <3>4, <3>5 DEF ListenerStep, LookForVm, Bind, StopListening
    <3>6. ASSUME NEW c \in Cids, ReaderStep(c) \/ WriteRecord(c) \/ Log(c) \/ LoseTail(c)
          PROVE  Fresh'
      BY <3>4, <3>6 DEF ReaderStep, AcceptLog, ReadLog, EndLog, WriteRecord, Log, LoseTail
    <3>7. ASSUME NEW c \in Cids, ConnectLogger(c) \/ StartServers(c) PROVE Fresh'
      BY <1>1, <3>3, <3>7 DEF ConnectLogger, StartServers, SideInv, SideTypeOK
    <3>8. ASSUME UNCHANGED sideVars PROVE Fresh'
      BY <3>4, <3>8 DEF sideVars
    <3> QED
      BY <3>2, <3>5, <3>6, <3>7, <3>8 DEF SideNext, AgentStep, vars
  <2> QED
    BY <1>2, <2>1, <2>2
<1> QED
  BY <1>1, <1>3, <1>4 DEF ManagerInv

(* The manager of this module is the one of VmManager: every step of the     *)
(* listeners, the readers and the agents leaves it alone, and its own steps  *)
(* are steps there.  So everything proved of VmManager holds here too.       *)
THEOREM SideImplementsManager == SideSpec => Spec
<1>1. SideInit => Init
  BY DEF SideInit
<1>2. SideInv /\ [SideNext]_vars => [Next]_managerVars
  BY SideStepIs, ManagerStepIsNext DEF vars
<1> QED
  BY <1>1, <1>2, SideTypeInit, SideTypeStep, PTL DEF SideSpec, Spec

-----------------------------------------------------------------------------
(* Induction, and what the recursive functions of LogLines compute.          *)

\* Induction, from the least counterexample: what holds of 0 and of every
\* successor holds of all natural numbers.
LEMMA Induction ==
  ASSUME NEW T, 0 \in T, \A n \in Nat : n \in T => n + 1 \in T
  PROVE  Nat \subseteq T
<1> DEFINE Outside == Nat \ T
<1> SUFFICES ASSUME Outside # {} PROVE FALSE
  OBVIOUS
<1>1. PICK n \in Outside : \A m \in Outside : ~(<<m, n>> \in OpToRel(<, Nat))
  BY NatLessThanWellFounded, WFMin
<1>2. \A m \in Outside : ~(m < n)
  BY <1>1 DEF OpToRel
<1>3. n - 1 \in Nat /\ n - 1 < n
  OBVIOUS
<1>4. n - 1 \in T
  BY <1>2, <1>3
<1> QED
  BY <1>3, <1>4

\* What holds of the empty sequence and of every sequence with one more element
\* holds of all sequences.
LEMMA SeqInduction ==
  ASSUME NEW S, NEW T, <<>> \in T,
         \A s \in Seq(S), e \in S : s \in T => Append(s, e) \in T
  PROVE  Seq(S) \subseteq T
<1> DEFINE Lengths == {n \in Nat : \A s \in Seq(S) : Len(s) = n => s \in T}
<1>1. 0 \in Lengths
  BY EmptySeq
<1>2. ASSUME NEW n \in Nat, n \in Lengths PROVE n + 1 \in Lengths
  <2> SUFFICES ASSUME NEW s \in Seq(S), Len(s) = n + 1 PROVE s \in T
    OBVIOUS
  <2>1. s # <<>>
    BY EmptySeq
  <2>2. PICK r \in Seq(S), e \in S : s = Append(r, e)
    BY <2>1, SequenceEmptyOrAppend
  <2>3. Len(r) \in Nat /\ Len(s) = Len(r) + 1
    BY <2>2, AppendProperties, LenProperties
  <2>4. Len(r) = n
    BY <2>3
  <2> QED
    BY <1>2, <2>2, <2>4
<1> HIDE DEF Lengths
<1>3. Nat \subseteq Lengths
  BY <1>1, <1>2, Induction
<1> QED
  BY <1>3, LenProperties DEF Lengths

-----------------------------------------------------------------------------
Nothing == [lines |-> <<>>, rest |-> <<>>]

\* f is the function that Split defines, up to n.
Splits(f, text, n) ==
  f = [i \in 0 .. n |-> IF i = 0 THEN Nothing ELSE AddByte(f[i - 1], text[i])]

LEMMA SplitsExist ==
  ASSUME NEW text, NEW n \in Nat
  PROVE  \E f : Splits(f, text, n)
<1> DEFINE T == {m \in Nat : \E f : Splits(f, text, m)}
<1>1. 0 \in T
  <2> DEFINE f == [i \in 0 .. 0 |-> Nothing]
  <2>1. Splits(f, text, 0)
    BY DEF Splits
  <2> QED
    BY <2>1
<1>2. ASSUME NEW m \in Nat, m \in T PROVE m + 1 \in T
  <2>1. PICK f : Splits(f, text, m)
    BY <1>2
  <2> DEFINE g == [i \in 0 .. m + 1 |-> IF i = m + 1 THEN AddByte(f[m], text[m + 1]) ELSE f[i]]
  <2>2. \A i \in 0 .. m : f[i] = IF i = 0 THEN Nothing ELSE AddByte(f[i - 1], text[i])
    BY <2>1 DEF Splits
  <2>3. \A i \in 0 .. m + 1 : g[i] = IF i = 0 THEN Nothing ELSE AddByte(g[i - 1], text[i])
    <3> TAKE i \in 0 .. m + 1
    <3>1. CASE i = m + 1
      <4>1. g[i - 1] = f[m]
        BY <3>1
      <4> QED
        BY <3>1, <4>1
    <3>2. CASE i # m + 1 /\ i # 0
      <4>1. g[i] = f[i] /\ g[i - 1] = f[i - 1]
        BY <3>2
      <4> QED
        BY <2>2, <3>2, <4>1
    <3>3. CASE i = 0
      BY <2>2, <3>3
    <3> QED
      BY <3>1, <3>2, <3>3
  <2>4. g = [i \in 0 .. m + 1 |-> g[i]]
    OBVIOUS
  <2> HIDE DEF g
  <2>5. Splits(g, text, m + 1)
    BY <2>3, <2>4 DEF Splits
  <2> QED
    BY <2>5
<1> HIDE DEF T
<1>3. Nat \subseteq T
  BY <1>1, <1>2, Induction
<1> QED
  BY <1>3 DEF T

LEMMA SplitsAgree ==
  ASSUME NEW text, NEW more, NEW m \in Nat,
         \A i \in 1 .. m : text[i] = more[i],
         NEW f, Splits(f, text, m), NEW g, Splits(g, more, m + 1)
  PROVE  f[m] = g[m]
<1> DEFINE T == {i \in Nat : i <= m => f[i] = g[i]}
<1>1. /\ \A i \in 0 .. m : f[i] = IF i = 0 THEN Nothing ELSE AddByte(f[i - 1], text[i])
      /\ \A i \in 0 .. m + 1 : g[i] = IF i = 0 THEN Nothing ELSE AddByte(g[i - 1], more[i])
  BY DEF Splits
<1>2. 0 \in T
  BY <1>1
<1>3. ASSUME NEW i \in Nat, i \in T PROVE i + 1 \in T
  <2> SUFFICES ASSUME i + 1 <= m PROVE f[i + 1] = g[i + 1]
    OBVIOUS
  <2>1. f[i] = g[i] /\ text[i + 1] = more[i + 1] /\ (i + 1) - 1 = i
    BY <1>3
  <2>2. f[i + 1] = AddByte(f[i], text[i + 1])
    BY <1>1, <2>1
  <2>3. g[i + 1] = AddByte(g[i], more[i + 1])
    BY <1>1, <2>1
  <2> QED
    BY <2>1, <2>2, <2>3
<1> HIDE DEF T
<1>4. Nat \subseteq T
  BY <1>2, <1>3, Induction
<1> QED
  BY <1>4 DEF T

LEMMA SplitIsSplits ==
  ASSUME NEW text, Len(text) \in Nat
  PROVE  \E f : Splits(f, text, Len(text)) /\ Split(text) = f[Len(text)]
<1> DEFINE f == CHOOSE f : Splits(f, text, Len(text))
<1>1. Splits(f, text, Len(text))
  BY SplitsExist
<1>2. Split(text) = f[Len(text)]
  BY DEF Split, Splits, Nothing
<1> QED
  BY <1>1, <1>2

\* Split, one byte at a time.
LEMMA SplitStep ==
  /\ Split(<<>>) = Nothing
  /\ \A text \in Seq(Byte), b \in Byte : Split(Append(text, b)) = AddByte(Split(text), b)
<1>1. Split(<<>>) = Nothing
  <2>1. Len(<<>>) = 0
    OBVIOUS
  <2>2. PICK f : Splits(f, <<>>, 0) /\ Split(<<>>) = f[0]
    BY <2>1, SplitIsSplits
  <2> QED
    BY <2>2 DEF Splits
<1>2. ASSUME NEW text \in Seq(Byte), NEW b \in Byte
      PROVE  Split(Append(text, b)) = AddByte(Split(text), b)
  <2> DEFINE more == Append(text, b)
             n == Len(text)
  <2>1. /\ n \in Nat /\ Len(more) = n + 1
        /\ \A i \in 1 .. n : text[i] = more[i]
        /\ more[n + 1] = b
    BY AppendProperties, LenProperties
  <2> HIDE DEF more, n
  <2>2. PICK f : Splits(f, text, n) /\ Split(text) = f[n]
    BY <2>1, SplitIsSplits DEF n
  <2>3. PICK g : Splits(g, more, n + 1) /\ Split(more) = g[n + 1]
    BY <2>1, SplitIsSplits
  <2>4. f[n] = g[n]
    BY <2>1, <2>2, <2>3, SplitsAgree
  <2>5. g[n + 1] = AddByte(g[n], b)
    <3>1. n + 1 \in 0 .. n + 1 /\ n + 1 # 0 /\ (n + 1) - 1 = n
      BY <2>1
    <3> QED
      BY <2>1, <2>3, <3>1 DEF Splits
  <2> QED
    BY <2>2, <2>3, <2>4, <2>5 DEF more
<1> QED
  BY <1>1, <1>2

Splitting == [lines : Seq(Seq(Byte)), rest : Seq(Byte)]

LEMMA SplitType == \A text \in Seq(Byte) : Split(text) \in Splitting
<1> DEFINE T == {text \in Seq(Byte) : Split(text) \in Splitting}
<1>1. <<>> \in T
  <2>1. <<>> \in Seq(Byte) /\ <<>> \in Seq(Seq(Byte))
    BY EmptySeq
  <2>2. Nothing \in Splitting
    BY <2>1 DEF Nothing, Splitting
  <2> QED
    BY <2>1, <2>2, SplitStep
<1>2. ASSUME NEW s \in Seq(Byte), NEW b \in Byte, s \in T PROVE Append(s, b) \in T
  <2>1. PICK split \in Splitting : split = Split(s)
    BY <1>2
  <2>2. /\ split.lines \in Seq(Seq(Byte)) /\ split.rest \in Seq(Byte)
        /\ Append(split.lines, split.rest) \in Seq(Seq(Byte))
        /\ Append(split.rest, b) \in Seq(Byte) /\ Append(s, b) \in Seq(Byte)
    BY AppendProperties DEF Splitting
  <2>3. AddByte(split, b) \in Splitting
    BY <2>2 DEF AddByte, WithLine, Splitting
  <2> QED
    BY <2>1, <2>2, <2>3, SplitStep
<1> HIDE DEF T
<1>3. Seq(Byte) \subseteq T
  BY <1>1, <1>2, SeqInduction
<1> QED
  BY <1>3 DEF T

\* What is left behind the last line end holds no line.
LEMMA RestIsNoLine ==
  \A text \in Seq(Byte) : Split(Split(text).rest) = [lines |-> <<>>, rest |-> Split(text).rest]
<1> DEFINE T == {text \in Seq(Byte) :
                   Split(Split(text).rest) = [lines |-> <<>>, rest |-> Split(text).rest]}
<1>1. <<>> \in T
  BY SplitStep DEF Nothing
<1>2. ASSUME NEW s \in Seq(Byte), NEW b \in Byte, s \in T PROVE Append(s, b) \in T
  <2>1. Split(s) \in Splitting /\ Split(s).rest \in Seq(Byte)
    BY SplitType DEF Splitting
  <2>2. Append(s, b) \in Seq(Byte)
    BY AppendProperties
  <2>3. Split(Append(s, b)) = AddByte(Split(s), b)
    BY SplitStep
  <2>4. CASE b = "nl"
    <3>1. Split(Append(s, b)).rest = <<>>
      BY <2>3, <2>4 DEF AddByte
    <3> QED
      BY <2>2, <3>1, SplitStep DEF Nothing
  <2>5. CASE b # "nl"
    <3>1. Split(Append(s, b)).rest = Append(Split(s).rest, b)
      BY <2>3, <2>5 DEF AddByte
    <3>2. Split(Append(Split(s).rest, b)) = AddByte(Split(Split(s).rest), b)
      BY <2>1, SplitStep
    <3>3. PICK rest : rest = Split(s).rest /\ Split(rest) = [lines |-> <<>>, rest |-> rest]
      BY <1>2
    <3>4. AddByte(Split(Split(s).rest), b) = [lines |-> <<>>, rest |-> Append(Split(s).rest, b)]
      BY <2>5, <3>3 DEF AddByte
    <3> QED
      BY <2>2, <3>1, <3>2, <3>4
  <2> QED
    BY <2>4, <2>5
<1> HIDE DEF T
<1>3. Seq(Byte) \subseteq T
  BY <1>1, <1>2, SeqInduction
<1> QED
  BY <1>3 DEF T

\* One element more at the end of the second of two sequences.
LEMMA ConcatAppend ==
  ASSUME NEW S, NEW s \in Seq(S), NEW t \in Seq(S), NEW e \in S
  PROVE  s \o Append(t, e) = Append(s \o t, e)
<1>1. <<e>> \in Seq(S) /\ s \o t \in Seq(S)
  BY ConcatProperties
<1>2. s \o (t \o <<e>>) = (s \o t) \o <<e>>
  BY <1>1, ConcatAssociative
<1> QED
  BY <1>1, <1>2, AppendIsConcat

LEMMA SplitParts ==
  ASSUME NEW text \in Seq(Byte)
  PROVE  \E lines \in Seq(Seq(Byte)), rest \in Seq(Byte) :
           Split(text) = [lines |-> lines, rest |-> rest]
BY SplitType DEF Splitting

\* Text may be split piece by piece: what the first piece leaves behind its last
\* line end goes before the second.
LEMMA SplitConcat ==
  ASSUME NEW s \in Seq(Byte)
  PROVE  \A t \in Seq(Byte) :
           Split(s \o t) = [lines |-> Split(s).lines \o Split(Split(s).rest \o t).lines,
                            rest |-> Split(Split(s).rest \o t).rest]
<1>1. PICK lines \in Seq(Seq(Byte)), rest \in Seq(Byte) :
             Split(s) = [lines |-> lines, rest |-> rest]
  BY SplitParts
<1> DEFINE Pieces(new) == [lines |-> lines \o new.lines, rest |-> new.rest]
           T == {t \in Seq(Byte) : Split(s \o t) = Pieces(Split(rest \o t))}
<1>2. <<>> \in T
  <2>1. <<>> \in Seq(Byte)
    BY EmptySeq
  <2>2. s \o <<>> = s /\ rest \o <<>> = rest /\ lines \o <<>> = lines
    BY ConcatEmptySeq
  <2>3. Split(rest) = [lines |-> <<>>, rest |-> rest]
    <3>1. Split(s).rest = rest
      BY <1>1
    <3> QED
      BY <3>1, RestIsNoLine
  <2> QED
    BY <1>1, <2>1, <2>2, <2>3
<1>3. ASSUME NEW t \in Seq(Byte), NEW e \in Byte, t \in T PROVE Append(t, e) \in T
  <2>1. Append(t, e) \in Seq(Byte) /\ s \o t \in Seq(Byte) /\ rest \o t \in Seq(Byte)
    BY AppendProperties, ConcatProperties
  <2>2. s \o Append(t, e) = Append(s \o t, e)
    BY ConcatAppend
  <2>3. rest \o Append(t, e) = Append(rest \o t, e)
    BY ConcatAppend
  <2>4. PICK newLines \in Seq(Seq(Byte)), newRest \in Seq(Byte) :
               Split(rest \o t) = [lines |-> newLines, rest |-> newRest]
    BY <2>1, SplitParts
  <2>5. Split(s \o t) = [lines |-> lines \o newLines, rest |-> newRest]
    BY <1>3, <2>4, SMTT(30)
  <2>6. Split(s \o Append(t, e)) = AddByte([lines |-> lines \o newLines, rest |-> newRest], e)
    BY <2>1, <2>2, <2>5, SplitStep
  <2>7. Split(rest \o Append(t, e)) = AddByte([lines |-> newLines, rest |-> newRest], e)
    BY <2>1, <2>3, <2>4, SplitStep
  <2>8. Append(lines \o newLines, newRest) = lines \o Append(newLines, newRest)
    BY ConcatAppend, SMTT(30)
  <2>9. AddByte([lines |-> lines \o newLines, rest |-> newRest], e)
          = Pieces(AddByte([lines |-> newLines, rest |-> newRest], e))
    BY <2>8 DEF AddByte, WithLine
  <2> HIDE DEF Pieces
  <2> QED
    BY <2>1, <2>6, <2>7, <2>9
<1> HIDE DEF T
<1>4. Seq(Byte) \subseteq T
  BY <1>2, <1>3, SeqInduction
<1> QED
  BY <1>1, <1>4 DEF T

-----------------------------------------------------------------------------
(* Characters.                                                               *)

LEMMA Utf8Concat ==
  ASSUME NEW s \in Seq(Byte), NEW t \in Seq(Byte), IsUtf8(s)
  PROVE  IsUtf8(s \o t) <=> IsUtf8(t)
<1> DEFINE m == Len(s)
           n == Len(t)
           both == s \o t
<1>1. /\ m \in Nat /\ n \in Nat /\ DOMAIN s = 1 .. m /\ DOMAIN t = 1 .. n
      /\ both \in Seq(Byte) /\ Len(both) = m + n /\ DOMAIN both = 1 .. m + n
      /\ \A i \in 1 .. m : both[i] = s[i]
      /\ \A i \in 1 .. n : both[m + i] = t[i]
  <2>1. /\ m \in Nat /\ n \in Nat /\ DOMAIN s = 1 .. m /\ DOMAIN t = 1 .. n
        /\ both \in Seq(Byte) /\ Len(both) = m + n
        /\ \A i \in 1 .. m + n : both[i] = IF i <= m THEN s[i] ELSE t[i - m]
    BY LenProperties, ConcatProperties
  <2>2. DOMAIN both = 1 .. Len(both)
    BY <2>1, LenProperties
  <2> HIDE DEF m, n, both
  <2>3. ASSUME NEW i \in 1 .. n PROVE both[m + i] = t[i]
    <3>1. m + i \in 1 .. m + n /\ ~(m + i <= m) /\ (m + i) - m = i
      BY <2>1
    <3> QED
      BY <2>1, <3>1
  <2>4. ASSUME NEW i \in 1 .. m PROVE both[i] = s[i]
    BY <2>1, <2>4
  <2> QED
    BY <2>1, <2>2, <2>3, <2>4
<1>2. \A i \in 1 .. m : /\ s[i] = "lead" => i < m /\ s[i + 1] = "cont"
                        /\ s[i] = "cont" => i > 1 /\ s[i - 1] = "lead"
  BY <1>1 DEF IsUtf8
<1> HIDE DEF m, n, both
<1>3. ASSUME IsUtf8(both) PROVE IsUtf8(t)
  <2>1. \A i \in 1 .. m + n : /\ both[i] = "lead" => i < m + n /\ both[i + 1] = "cont"
                              /\ both[i] = "cont" => i > 1 /\ both[i - 1] = "lead"
    BY <1>1, <1>3 DEF IsUtf8
  <2>2. ASSUME NEW i \in 1 .. n, t[i] = "lead" PROVE i < n /\ t[i + 1] = "cont"
    <3>1. m + i \in 1 .. m + n /\ both[m + i] = "lead"
      BY <1>1, <2>2
    <3>2. m + i < m + n /\ both[(m + i) + 1] = "cont"
      BY <2>1, <3>1
    <3>3. i + 1 \in 1 .. n /\ (m + i) + 1 = m + (i + 1)
      BY <1>1, <3>2
    <3> QED
      BY <1>1, <3>2, <3>3
  <2>3. ASSUME NEW i \in 1 .. n, t[i] = "cont" PROVE i > 1 /\ t[i - 1] = "lead"
    <3>1. m + i \in 1 .. m + n /\ both[m + i] = "cont"
      BY <1>1, <2>3
    <3>2. m + i > 1 /\ both[(m + i) - 1] = "lead"
      BY <2>1, <3>1
    <3>3. CASE i = 1
      <4>1. (m + i) - 1 = m /\ m \in 1 .. m
        BY <1>1, <3>2, <3>3
      <4>2. s[m] = "lead"
        BY <1>1, <3>2, <4>1
      <4> QED
        BY <1>1, <1>2, <4>1, <4>2
    <3>4. CASE i # 1
      <4>1. i - 1 \in 1 .. n /\ (m + i) - 1 = m + (i - 1)
        BY <1>1, <3>4
      <4> QED
        BY <1>1, <3>2, <3>4, <4>1
    <3> QED
      BY <3>3, <3>4
  <2> QED
    BY <1>1, <2>2, <2>3 DEF IsUtf8, n
<1>4. ASSUME IsUtf8(t) PROVE IsUtf8(both)
  <2>1. \A i \in 1 .. n : /\ t[i] = "lead" => i < n /\ t[i + 1] = "cont"
                          /\ t[i] = "cont" => i > 1 /\ t[i - 1] = "lead"
    BY <1>1, <1>4 DEF IsUtf8, n
  <2>2. ASSUME NEW i \in 1 .. m + n
        PROVE  /\ both[i] = "lead" => i < m + n /\ both[i + 1] = "cont"
               /\ both[i] = "cont" => i > 1 /\ both[i - 1] = "lead"
    <3>1. CASE i <= m
      <4>1. i \in 1 .. m /\ both[i] = s[i]
        BY <1>1, <3>1
      <4>2. i < m => i + 1 \in 1 .. m
        BY <1>1, <4>1
      <4>3. i > 1 => i - 1 \in 1 .. m
        BY <1>1, <4>1
      <4> QED
        BY <1>1, <1>2, <4>1, <4>2, <4>3
    <3>2. CASE i > m
      <4>1. PICK j \in 1 .. n : i = m + j
        <5>1. i - m \in 1 .. n /\ i = m + (i - m)
          BY <1>1, <3>2
        <5> QED
          BY <5>1
      <4>2. both[i] = t[j]
        BY <1>1, <4>1
      <4>3. j < n => j + 1 \in 1 .. n /\ i + 1 = m + (j + 1)
        BY <1>1, <4>1
      <4>4. j > 1 => j - 1 \in 1 .. n /\ i - 1 = m + (j - 1)
        BY <1>1, <4>1
      <4>5. ASSUME both[i] = "lead" PROVE i < m + n /\ both[i + 1] = "cont"
        <5>1. j < n /\ t[j + 1] = "cont"
          BY <2>1, <4>2, <4>5
        <5>2. both[m + (j + 1)] = t[j + 1]
          BY <1>1, <4>3, <5>1
        <5> QED
          BY <1>1, <4>1, <4>3, <5>1, <5>2
      <4>6. ASSUME both[i] = "cont" PROVE i > 1 /\ both[i - 1] = "lead"
        <5>1. j > 1 /\ t[j - 1] = "lead"
          BY <2>1, <4>2, <4>6
        <5>2. both[m + (j - 1)] = t[j - 1]
          BY <1>1, <4>4, <5>1
        <5> QED
          BY <1>1, <4>1, <4>4, <5>1, <5>2
      <4> QED
        BY <4>5, <4>6
    <3> QED
      BY <1>1, <3>1, <3>2
  <2> QED
    BY <1>1, <2>2 DEF IsUtf8
<1> QED
  BY <1>3, <1>4 DEF both

-----------------------------------------------------------------------------
(* Records written one after the other: the same steps as for Split.         *)

Joined(a, b) == a \o b

Joins(f, records, n) ==
  f = [i \in 0 .. n |-> IF i = 0 THEN <<>> ELSE Joined(f[i - 1], records[i])]

LEMMA JoinsExist ==
  ASSUME NEW records, NEW n \in Nat
  PROVE  \E f : Joins(f, records, n)
<1> DEFINE T == {m \in Nat : \E f : Joins(f, records, m)}
<1>1. 0 \in T
  <2> DEFINE f == [i \in 0 .. 0 |-> <<>>]
  <2>1. Joins(f, records, 0)
    BY DEF Joins
  <2> QED
    BY <2>1
<1>2. ASSUME NEW m \in Nat, m \in T PROVE m + 1 \in T
  <2>1. PICK f : Joins(f, records, m)
    BY <1>2
  <2> DEFINE g == [i \in 0 .. m + 1 |-> IF i = m + 1 THEN Joined(f[m], records[m + 1]) ELSE f[i]]
  <2>2. \A i \in 0 .. m : f[i] = IF i = 0 THEN <<>> ELSE Joined(f[i - 1], records[i])
    BY <2>1 DEF Joins
  <2>3. \A i \in 0 .. m + 1 : g[i] = IF i = 0 THEN <<>> ELSE Joined(g[i - 1], records[i])
    <3> TAKE i \in 0 .. m + 1
    <3>1. CASE i = m + 1
      <4>1. g[i - 1] = f[m]
        BY <3>1
      <4> QED
        BY <3>1, <4>1
    <3>2. CASE i # m + 1 /\ i # 0
      <4>1. g[i] = f[i] /\ g[i - 1] = f[i - 1]
        BY <3>2
      <4> QED
        BY <2>2, <3>2, <4>1
    <3>3. CASE i = 0
      BY <2>2, <3>3
    <3> QED
      BY <3>1, <3>2, <3>3
  <2>4. g = [i \in 0 .. m + 1 |-> g[i]]
    OBVIOUS
  <2> HIDE DEF g
  <2>5. Joins(g, records, m + 1)
    BY <2>3, <2>4 DEF Joins
  <2> QED
    BY <2>5
<1> HIDE DEF T
<1>3. Nat \subseteq T
  BY <1>1, <1>2, Induction
<1> QED
  BY <1>3 DEF T

LEMMA JoinsAgree ==
  ASSUME NEW records, NEW more, NEW m \in Nat,
         \A i \in 1 .. m : records[i] = more[i],
         NEW f, Joins(f, records, m), NEW g, Joins(g, more, m + 1)
  PROVE  f[m] = g[m]
<1> DEFINE T == {i \in Nat : i <= m => f[i] = g[i]}
<1>1. /\ \A i \in 0 .. m : f[i] = IF i = 0 THEN <<>> ELSE Joined(f[i - 1], records[i])
      /\ \A i \in 0 .. m + 1 : g[i] = IF i = 0 THEN <<>> ELSE Joined(g[i - 1], more[i])
  BY DEF Joins
<1>2. 0 \in T
  BY <1>1
<1>3. ASSUME NEW i \in Nat, i \in T PROVE i + 1 \in T
  <2> SUFFICES ASSUME i + 1 <= m PROVE f[i + 1] = g[i + 1]
    OBVIOUS
  <2>1. f[i] = g[i] /\ records[i + 1] = more[i + 1] /\ (i + 1) - 1 = i
    BY <1>3
  <2>2. f[i + 1] = Joined(f[i], records[i + 1])
    BY <1>1, <2>1
  <2>3. g[i + 1] = Joined(g[i], more[i + 1])
    BY <1>1, <2>1
  <2> QED
    BY <2>1, <2>2, <2>3
<1> HIDE DEF T
<1>4. Nat \subseteq T
  BY <1>2, <1>3, Induction
<1> QED
  BY <1>4 DEF T

LEMMA BytesIsJoins ==
  ASSUME NEW records, Len(records) \in Nat
  PROVE  \E f : Joins(f, records, Len(records)) /\ Bytes(records) = f[Len(records)]
<1> DEFINE f == CHOOSE f : Joins(f, records, Len(records))
<1>1. Joins(f, records, Len(records))
  BY JoinsExist
<1>2. Bytes(records) = f[Len(records)]
  BY DEF Bytes, Joins, Joined
<1> QED
  BY <1>1, <1>2

LEMMA BytesOneMore ==
  ASSUME NEW records, NEW more, NEW n \in Nat, Len(records) = n, Len(more) = n + 1,
         \A i \in 1 .. n : records[i] = more[i]
  PROVE  Bytes(more) = Bytes(records) \o more[n + 1]
<1>1. PICK f : Joins(f, records, n) /\ Bytes(records) = f[n]
  BY BytesIsJoins
<1>2. PICK g : Joins(g, more, n + 1) /\ Bytes(more) = g[n + 1]
  BY BytesIsJoins
<1>3. f[n] = g[n]
  BY <1>1, <1>2, JoinsAgree
<1>4. g[n + 1] = Joined(g[n], more[n + 1])
  BY <1>2 DEF Joins
<1> QED
  BY <1>1, <1>2, <1>3, <1>4 DEF Joined

\* Bytes, one record at a time.
LEMMA BytesStep ==
  /\ Bytes(<<>>) = <<>>
  /\ \A records \in Seq(Seq(Byte)), r \in Seq(Byte) :
       Bytes(Append(records, r)) = Bytes(records) \o r
<1>1. Bytes(<<>>) = <<>>
  <2>1. Len(<<>>) = 0
    OBVIOUS
  <2>2. PICK f : Joins(f, <<>>, 0) /\ Bytes(<<>>) = f[0]
    BY <2>1, BytesIsJoins
  <2> QED
    BY <2>2 DEF Joins
<1>2. ASSUME NEW records \in Seq(Seq(Byte)), NEW r \in Seq(Byte)
      PROVE  Bytes(Append(records, r)) = Bytes(records) \o r
  <2> DEFINE more == Append(records, r)
             n == Len(records)
  <2>1. /\ n \in Nat /\ Len(more) = n + 1
        /\ \A i \in 1 .. n : records[i] = more[i]
        /\ more[n + 1] = r
    BY AppendProperties, LenProperties
  <2> HIDE DEF more
  <2>2. Bytes(more) = Bytes(records) \o more[n + 1]
    BY <2>1, BytesOneMore
  <2> QED
    BY <2>1, <2>2 DEF more
<1> QED
  BY <1>1, <1>2

LEMMA BytesType == \A records \in Seq(Seq(Byte)) : Bytes(records) \in Seq(Byte)
<1> DEFINE T == {records \in Seq(Seq(Byte)) : Bytes(records) \in Seq(Byte)}
<1>1. <<>> \in T
  BY BytesStep, EmptySeq
<1>2. ASSUME NEW rs \in Seq(Seq(Byte)), NEW r \in Seq(Byte), rs \in T
      PROVE  Append(rs, r) \in T
  <2>1. Append(rs, r) \in Seq(Seq(Byte)) /\ Bytes(rs) \o r \in Seq(Byte)
    BY <1>2, AppendProperties, ConcatProperties
  <2> QED
    BY <2>1, BytesStep
<1> HIDE DEF T
<1>3. Seq(Seq(Byte)) \subseteq T
  BY <1>1, <1>2, SeqInduction
<1> QED
  BY <1>3 DEF T

\* Bytes of records that are text are text.
LEMMA BytesAreText ==
  \A records \in Seq(Seq(Byte)) :
    (\A i \in DOMAIN records : IsUtf8(records[i])) => IsUtf8(Bytes(records))
<1> DEFINE AreText(rs) == \A i \in DOMAIN rs : IsUtf8(rs[i])
           T == {rs \in Seq(Seq(Byte)) : AreText(rs) => IsUtf8(Bytes(rs))}
<1>1. <<>> \in T
  <2>1. IsUtf8(<<>>)
    BY DEF IsUtf8
  <2> QED
    BY <2>1, BytesStep, EmptySeq
<1>2. ASSUME NEW rs \in Seq(Seq(Byte)), NEW r \in Seq(Byte), rs \in T
      PROVE  Append(rs, r) \in T
  <2> SUFFICES ASSUME AreText(Append(rs, r)) PROVE IsUtf8(Bytes(Append(rs, r)))
    BY AppendProperties
  <2>1. /\ Append(rs, r) \in Seq(Seq(Byte)) /\ Len(Append(rs, r)) = Len(rs) + 1
        /\ \A i \in 1 .. Len(rs) : Append(rs, r)[i] = rs[i]
        /\ Append(rs, r)[Len(rs) + 1] = r
    BY AppendProperties
  <2>2. Len(rs) \in Nat /\ DOMAIN rs = 1 .. Len(rs) /\ DOMAIN Append(rs, r) = 1 .. Len(rs) + 1
    BY <2>1, LenProperties
  <2>3. AreText(rs) /\ IsUtf8(r)
    <3>1. ASSUME NEW i \in 1 .. Len(rs) PROVE IsUtf8(rs[i])
      <4>1. i \in 1 .. Len(rs) + 1
        BY <2>2
      <4> QED
        BY <2>1, <2>2, <4>1
    <3>2. Len(rs) + 1 \in 1 .. Len(rs) + 1
      BY <2>2
    <3> QED
      BY <2>1, <2>2, <3>1, <3>2
  <2>4. Bytes(rs) \in Seq(Byte) /\ IsUtf8(Bytes(rs))
    BY <1>2, <2>3, BytesType
  <2>5. IsUtf8(Bytes(rs) \o r)
    BY <2>3, <2>4, Utf8Concat
  <2> QED
    BY <2>5, BytesStep
<1> HIDE DEF T
<1>3. Seq(Seq(Byte)) \subseteq T
  BY <1>1, <1>2, SeqInduction
<1> QED
  BY <1>3 DEF T

\* The first record's bytes come first.
LEMMA BytesHead ==
  \A records \in Seq(Seq(Byte)) :
    records # <<>> => Bytes(records) = Head(records) \o Bytes(Tail(records))
<1> DEFINE T == {rs \in Seq(Seq(Byte)) :
                   rs # <<>> => Bytes(rs) = Head(rs) \o Bytes(Tail(rs))}
<1>1. <<>> \in T
  BY EmptySeq
<1>2. ASSUME NEW rs \in Seq(Seq(Byte)), NEW r \in Seq(Byte), rs \in T
      PROVE  Append(rs, r) \in T
  <2>1. Append(rs, r) \in Seq(Seq(Byte)) /\ Bytes(Append(rs, r)) = Bytes(rs) \o r
    BY AppendProperties, BytesStep
  <2>2. CASE rs = <<>>
    <3>1. Head(Append(rs, r)) = r /\ Tail(Append(rs, r)) = <<>>
      BY <2>2, HeadTailAppend
    <3>2. Bytes(rs) = <<>> /\ Bytes(<<>>) = <<>>
      BY <2>2, BytesStep
    <3>3. <<>> \o r = r /\ r \o <<>> = r
      BY ConcatEmptySeq
    <3> QED
      BY <2>1, <3>1, <3>2, <3>3
  <2>3. CASE rs # <<>>
    <3>1. Head(Append(rs, r)) = Head(rs) /\ Tail(Append(rs, r)) = Append(Tail(rs), r)
      BY <2>3, HeadTailAppend
    <3>2. Head(rs) \in Seq(Byte) /\ Tail(rs) \in Seq(Seq(Byte))
      BY <2>3, HeadTailProperties
    <3>3. Bytes(Tail(rs)) \in Seq(Byte)
      BY <3>2, BytesType
    <3>4. Bytes(Append(Tail(rs), r)) = Bytes(Tail(rs)) \o r
      BY <3>2, BytesStep
    <3>5. (Head(rs) \o Bytes(Tail(rs))) \o r = Head(rs) \o (Bytes(Tail(rs)) \o r)
      <4>1. PICK head \in Seq(Byte), tail \in Seq(Byte) :
                   head = Head(rs) /\ tail = Bytes(Tail(rs))
        BY <3>2, <3>3
      <4>2. (head \o tail) \o r = head \o (tail \o r)
        BY ConcatAssociative
      <4> QED
        BY <4>1, <4>2
    <3>6. Bytes(rs) = Head(rs) \o Bytes(Tail(rs))
      BY <1>2, <2>3
    <3> QED
      BY <2>1, <3>1, <3>4, <3>5, <3>6
  <2> QED
    BY <2>2, <2>3
<1> HIDE DEF T
<1>3. Seq(Seq(Byte)) \subseteq T
  BY <1>1, <1>2, SeqInduction
<1> QED
  BY <1>3 DEF T

\* Sequences of bytes: how they are grouped does not matter (Grouped names the equation for
\* the provers, which find its three sequences by it).
Grouped(a, b, c) == (a \o b) \o c = a \o (b \o c)

LEMMA BytesGrouped == \A a, b, c \in Seq(Byte) : Grouped(a, b, c)
BY ConcatAssociative DEF Grouped

LEMMA BytesConcat == \A a, b \in Seq(Byte) : a \o b \in Seq(Byte)
BY ConcatProperties

\* A sequence cut in two.
LEMMA CutInTwo ==
  ASSUME NEW bytes \in Seq(Byte), NEW n \in 0 .. Len(bytes)
  PROVE  /\ SubSeq(bytes, 1, n) \in Seq(Byte)
         /\ SubSeq(bytes, n + 1, Len(bytes)) \in Seq(Byte)
         /\ SubSeq(bytes, 1, n) \o SubSeq(bytes, n + 1, Len(bytes)) = bytes
<1>1. Len(bytes) \in Nat
  BY LenProperties
<1>2. /\ 1 \in 1 .. Len(bytes) + 1 /\ n + 1 \in 1 .. Len(bytes) + 1
      /\ Len(bytes) \in 0 .. Len(bytes) /\ n \in 1 - 1 .. Len(bytes)
      /\ Len(bytes) \in n .. Len(bytes)
  BY <1>1
<1>3. SubSeq(bytes, 1, n) \in Seq(Byte) /\ SubSeq(bytes, n + 1, Len(bytes)) \in Seq(Byte)
  BY <1>2, PartOfStream
<1>4. SubSeq(bytes, 1, n) \o SubSeq(bytes, n + 1, Len(bytes)) = SubSeq(bytes, 1, Len(bytes))
  BY <1>2, ConcatAdjacentSubSeq
<1> QED
  BY <1>3, <1>4, SubSeqFull

-----------------------------------------------------------------------------
(* What a reader has printed.                                                *)

ReaderState == [buffer : Seq(Byte), incomplete : Seq(Byte), printed : Seq(Seq(Byte))]

\* The bytes in the buffer are held back because they do not form a text.
HeldBack(buffer) == buffer = <<>> \/ ~IsUtf8(buffer)

\* The reader has taken in a text, and after it the bytes it holds back.
Heard(r, bytes) ==
  \E text \in Seq(Byte) :
    /\ IsUtf8(text)
    /\ bytes = text \o r.buffer
    /\ HeldBack(r.buffer)
    /\ r.printed = Split(text).lines
    /\ r.incomplete = Split(text).rest

HeardAll(r, bytes) ==
  \E text \in Seq(Byte) :
    /\ IsUtf8(text)
    /\ bytes = text \o r.buffer
    /\ HeldBack(r.buffer)
    /\ r.printed = WithLine(Split(text).lines, Split(text).rest)

LEMMA NewReaderHeard ==
  /\ NewReader \in ReaderState
  /\ Heard(NewReader, <<>>)
  /\ HeardAll(NewReader, <<>>)
<1>1. <<>> \in Seq(Byte) /\ <<>> \in Seq(Seq(Byte))
  BY EmptySeq
<1>2. <<>> = <<>> \o <<>>
  BY <1>1, ConcatEmptySeq
<1>3. IsUtf8(<<>>)
  BY DEF IsUtf8
<1>4. Split(<<>>) = [lines |-> <<>>, rest |-> <<>>]
  BY SplitStep DEF Nothing
<1>5. NewReader.buffer = <<>> /\ NewReader.printed = <<>> /\ NewReader.incomplete = <<>>
  BY DEF NewReader
<1>6. NewReader \in ReaderState
  BY <1>1 DEF NewReader, ReaderState
<1>7. /\ IsUtf8(<<>>) /\ <<>> = <<>> \o NewReader.buffer /\ HeldBack(NewReader.buffer)
      /\ NewReader.printed = Split(<<>>).lines /\ NewReader.incomplete = Split(<<>>).rest
      /\ NewReader.printed = WithLine(Split(<<>>).lines, Split(<<>>).rest)
  BY <1>2, <1>3, <1>4, <1>5 DEF HeldBack, WithLine
<1>8. \E text \in Seq(Byte) :
        /\ IsUtf8(text) /\ <<>> = text \o NewReader.buffer /\ HeldBack(NewReader.buffer)
        /\ NewReader.printed = Split(text).lines /\ NewReader.incomplete = Split(text).rest
        /\ NewReader.printed = WithLine(Split(text).lines, Split(text).rest)
  <2> WITNESS <<>> \in Seq(Byte)
  <2> QED
    BY <1>7
<1> HIDE DEF NewReader
<1> QED
  BY <1>6, <1>8 DEF Heard, HeardAll

\* A read keeps it so, wherever the chunk ends.
LEMMA ReadChunkHeard ==
  ASSUME NEW r \in ReaderState, NEW got \in Seq(Byte), NEW chunk \in Seq(Byte), Heard(r, got)
  PROVE  ReadChunk(r, chunk) \in ReaderState /\ Heard(ReadChunk(r, chunk), got \o chunk)
<1>1. PICK text \in Seq(Byte) : /\ IsUtf8(text)
                                /\ got = text \o r.buffer
                                /\ r.printed = Split(text).lines
                                /\ r.incomplete = Split(text).rest
  BY DEF Heard
<1>2. PICK buffer \in Seq(Byte), lines \in Seq(Seq(Byte)), rest \in Seq(Byte) :
             buffer = r.buffer /\ lines = r.printed /\ rest = r.incomplete
  BY DEF ReaderState
<1>3. PICK bytes \in Seq(Byte) : bytes = buffer \o chunk
  BY ConcatProperties
<1>4. got \o chunk = text \o bytes
  <2>1. (text \o buffer) \o chunk = text \o (buffer \o chunk)
    <3>1. Grouped(text, buffer, chunk)
      BY BytesGrouped
    <3> QED
      BY <3>1 DEF Grouped
  <2> QED
    BY <1>1, <1>2, <1>3, <2>1
<1>5. rest \o bytes \in Seq(Byte) /\ text \o bytes \in Seq(Byte)
  BY ConcatProperties
<1>6. CASE IsUtf8(bytes)
  <2>1. PICK newLines \in Seq(Seq(Byte)), newRest \in Seq(Byte) :
               Split(rest \o bytes) = [lines |-> newLines, rest |-> newRest]
    BY <1>5, SplitParts
  <2>2. ReadChunk(r, chunk) = [buffer |-> <<>>, incomplete |-> newRest,
                               printed |-> lines \o newLines]
    BY <1>2, <1>3, <1>6, <2>1 DEF ReadChunk
  <2>3. <<>> \in Seq(Byte) /\ lines \o newLines \in Seq(Seq(Byte))
    BY EmptySeq, ConcatProperties
  <2>4. ReadChunk(r, chunk) \in ReaderState
    BY <2>2, <2>3 DEF ReaderState
  <2>5. Split(text \o bytes) = [lines |-> lines \o newLines, rest |-> newRest]
    <3>1. Split(text).lines = lines /\ Split(text).rest = rest
      BY <1>1, <1>2
    <3>2. Split(text \o bytes) =
             [lines |-> Split(text).lines \o Split(Split(text).rest \o bytes).lines,
              rest |-> Split(Split(text).rest \o bytes).rest]
      BY SplitConcat
    <3>3. Split(text \o bytes) = [lines |-> lines \o Split(rest \o bytes).lines,
                                 rest |-> Split(rest \o bytes).rest]
      BY <3>1, <3>2
    <3> QED
      BY <2>1, <3>3
  <2>6. IsUtf8(text \o bytes)
    BY <1>1, <1>6, Utf8Concat
  <2>7. text \o bytes = (text \o bytes) \o <<>>
    BY <1>5, ConcatEmptySeq
  <2> HIDE DEF ReadChunk
  <2>8. Heard(ReadChunk(r, chunk), text \o bytes)
    <3>1. PICK whole \in Seq(Byte) : whole = text \o bytes
      BY <1>5
    <3>2. PICK s : s = ReadChunk(r, chunk)
      OBVIOUS
    <3>3. s.buffer = <<>> /\ s.printed = lines \o newLines /\ s.incomplete = newRest
      BY <2>2, <3>2
    <3>4. Split(whole).lines = s.printed /\ Split(whole).rest = s.incomplete
      BY <2>5, <3>1, <3>3
    <3>5. whole = whole \o s.buffer /\ HeldBack(s.buffer)
      BY <2>7, <3>1, <3>3 DEF HeldBack
    <3>6. Heard(s, whole)
      BY <2>6, <3>1, <3>4, <3>5 DEF Heard
    <3> QED
      BY <3>1, <3>2, <3>6
  <2> QED
    BY <1>4, <2>4, <2>8
<1>7. CASE ~IsUtf8(bytes)
  <2>1. ReadChunk(r, chunk) = [r EXCEPT !.buffer = bytes]
    BY <1>2, <1>3, <1>7 DEF ReadChunk, HoldBroken
  <2>2. ReadChunk(r, chunk) \in ReaderState
    BY <2>1 DEF ReaderState
  <2>3. /\ ReadChunk(r, chunk).buffer = bytes
        /\ ReadChunk(r, chunk).printed = r.printed
        /\ ReadChunk(r, chunk).incomplete = r.incomplete
    BY <2>1 DEF ReaderState
  <2>4. Heard(ReadChunk(r, chunk), text \o bytes)
    BY <1>1, <1>7, <2>3 DEF Heard, HeldBack
  <2> QED
    BY <1>4, <2>2, <2>4
<1> QED
  BY <1>6, <1>7

LEMMA FinishHeard ==
  ASSUME NEW r \in ReaderState, NEW got, Heard(r, got)
  PROVE  FinishReading(r) \in ReaderState /\ HeardAll(FinishReading(r), got)
<1>1. PICK text \in Seq(Byte) : /\ IsUtf8(text)
                                /\ got = text \o r.buffer
                                /\ HeldBack(r.buffer)
                                /\ r.printed = Split(text).lines
                                /\ r.incomplete = Split(text).rest
  BY DEF Heard
<1>2. PICK f : f = FinishReading(r)
  OBVIOUS
<1>3. /\ f.printed = WithLine(r.printed, r.incomplete)
      /\ f.buffer = r.buffer /\ f.incomplete = <<>>
      /\ f = [buffer |-> f.buffer, incomplete |-> f.incomplete, printed |-> f.printed]
  BY <1>2 DEF FinishReading, ReaderState
<1>4. WithLine(r.printed, r.incomplete) \in Seq(Seq(Byte))
  BY AppendProperties DEF WithLine, ReaderState
<1>5. f \in ReaderState
  BY <1>3, <1>4, EmptySeq DEF ReaderState
<1>6. HeardAll(f, got)
  BY <1>1, <1>3 DEF HeardAll
<1> QED
  BY <1>2, <1>5, <1>6

-----------------------------------------------------------------------------
(* What of the records comes through.                                        *)

\* Of VM c: its readers, and where the bytes of its records are.
ReaderInv(c) ==
  /\ reader[c] \in ReaderState
  /\ link[c] # "closed" => Heard(reader[c], received[c])
  /\ link[c] = "closed" => HeardAll(reader[c], received[c])
  /\ link[c] \in {"none", "pending"} => reader[c] = NewReader /\ received[c] = <<>>

Unused(c) == /\ link[c] = "none" /\ channel[c] = <<>> /\ stream[c] = <<>>
             /\ accepted[c] = <<>> /\ received[c] = <<>>

Through(c) == received[c] \o stream[c]

\* While the VM runs and its connection is open, all its bytes are on the way; of
\* what was lost later, nothing is lost from the middle.
Carried(c) ==
  /\ agent[c] \in {"none", "connecting"} => Unused(c)
  /\ c \in running /\ link[c] # "closed" => Through(c) \o Bytes(channel[c]) = Bytes(accepted[c])
  /\ \E rest \in Seq(Byte) : Through(c) \o rest = Bytes(accepted[c])
  /\ \A i \in DOMAIN accepted[c] : IsUtf8(accepted[c][i])

LogInv == /\ ManagerInv
          /\ DOMAIN reader = Cids
          /\ \A c \in Cids : ReaderInv(c) /\ Carried(c)

LEMMA UnusedCarried ==
  ASSUME NEW c \in Cids, Unused(c)
  PROVE  /\ Through(c) \o Bytes(channel[c]) = Bytes(accepted[c])
         /\ \E rest \in Seq(Byte) : Through(c) \o rest = Bytes(accepted[c])
<1>1. <<>> \in Seq(Byte)
  BY EmptySeq
<1>2. <<>> \o <<>> = <<>>
  BY <1>1, ConcatEmptySeq
<1>3. Bytes(<<>>) = <<>>
  BY BytesStep
<1>4. Through(c) = <<>>
  BY <1>2 DEF Unused, Through
<1> QED
  BY <1>1, <1>2, <1>3, <1>4 DEF Unused

LEMMA LogInit == SideInit => LogInv
<1> SUFFICES ASSUME SideInit PROVE LogInv
  OBVIOUS
<1>1. ManagerInv
  BY ManagerInvInit
<1>2. ASSUME NEW c \in Cids PROVE ReaderInv(c)
  BY NewReaderHeard DEF SideInit, ReaderInv
<1>3. ASSUME NEW c \in Cids PROVE Carried(c)
  <2>1. Unused(c)
    BY DEF SideInit, Unused
  <2>2. \A i \in DOMAIN accepted[c] : IsUtf8(accepted[c][i])
    BY <2>1 DEF Unused
  <2> QED
    BY <2>1, <2>2, UnusedCarried DEF Carried
<1>4. DOMAIN reader = Cids
  BY DEF SideInit
<1> QED
  BY <1>1, <1>2, <1>3, <1>4 DEF LogInv

LEMMA LogStep == LogInv /\ [SideNext]_vars => LogInv'
<1> SUFFICES ASSUME LogInv, [SideNext]_vars PROVE LogInv'
  OBVIOUS
<1>1. ManagerInv'
  BY ManagerInvStep DEF LogInv
<1>2. SideInv /\ SideTypeOK /\ Fresh /\ TypeInv /\ SideInv'
  BY <1>1 DEF LogInv, ManagerInv, SideInv
<1> DEFINE Rest == DOMAIN reader' = Cids /\ \A c \in Cids : ReaderInv(c)' /\ Carried(c)'
\* The steps that leave the readers alone, and those that leave the rest.
<1>3. ASSUME UNCHANGED <<reader, received, link>>, NEW c \in Cids
      PROVE  ReaderInv(c)'
  BY <1>3 DEF LogInv, ReaderInv
<1>4. ASSUME UNCHANGED <<reader, received, link, channel, stream, accepted>>, running' = running,
             \A c \in Cids : agent'[c] \in {"none", "connecting"}
                               => agent[c] \in {"none", "connecting"}
      PROVE  Rest
  <2>1. ASSUME NEW c \in Cids PROVE Carried(c)'
    BY <1>4 DEF LogInv, Carried, Unused, Through
  <2> QED
    BY <1>3, <1>4, <2>1 DEF LogInv
<1> HIDE DEF Rest
<1>5. ASSUME ManagerStep /\ UNCHANGED sideVars PROVE Rest
  <2>1. UNCHANGED <<reader, received, link, channel, stream, accepted, agent>>
    BY <1>5 DEF sideVars, logVars
  <2>2. ASSUME NEW c \in Cids PROVE Carried(c)'
    <3>1. CASE c \in running' /\ c \notin running
      <4>1. agent[c] = "none"
        BY <1>2, <1>5, <3>1, NewProcess
      <4>2. Unused(c)
        BY <4>1 DEF LogInv, Carried
      <4> QED
        BY <2>1, <4>2, UnusedCarried DEF LogInv, Carried, Unused, Through
    <3>2. CASE ~(c \in running' /\ c \notin running)
      BY <2>1, <3>2 DEF LogInv, Carried, Unused, Through
    <3> QED
      BY <3>1, <3>2
  <2>3. ASSUME NEW c \in Cids PROVE ReaderInv(c)'
    BY <1>3, <2>1
  <2>4. DOMAIN reader' = Cids
    BY <2>1 DEF LogInv
  <2> QED
    BY <2>2, <2>3, <2>4 DEF Rest
<1>6. ASSUME UNCHANGED vars PROVE Rest
  BY <1>4, <1>6 DEF vars, managerVars, sideVars, logVars
<1>7. ASSUME NEW s \in Sockets, LookForVm(s) \/ Bind(s) PROVE Rest
  BY <1>4, <1>7 DEF LookForVm, Bind, managerVars, logVars
<1>8. ASSUME NEW s \in Sockets, StopListening(s) PROVE Rest
  <2>1. UNCHANGED <<reader, received, channel, stream, accepted, agent, running>>
    BY <1>8 DEF StopListening, managerVars
  <2>2. ASSUME NEW c \in Cids
        PROVE  link'[c] = link[c] \/ (link[c] = "pending" /\ link'[c] = "closed")
    BY <1>8 DEF StopListening
  <2>3. ASSUME NEW c \in Cids PROVE ReaderInv(c)' /\ Carried(c)'
    <3>1. ReaderInv(c) /\ Carried(c)
      BY DEF LogInv
    <3>2. CASE link'[c] = link[c]
      BY <2>1, <3>1, <3>2 DEF ReaderInv, Carried, Unused, Through
    <3>3. CASE link[c] = "pending" /\ link'[c] = "closed"
      <4>1. reader[c] = NewReader /\ received[c] = <<>>
        BY <3>1, <3>3 DEF ReaderInv
      <4>2. ReaderInv(c)'
        BY <2>1, <3>1, <3>3, <4>1, NewReaderHeard DEF ReaderInv
      <4>3. agent[c] \notin {"none", "connecting"}
        BY <3>1, <3>3 DEF Carried, Unused
      <4>4. Carried(c)'
        BY <2>1, <3>1, <3>3, <4>3 DEF Carried, Through
      <4> QED
        BY <4>2, <4>4
    <3> QED
      BY <2>2, <3>2, <3>3
  <2> QED
    BY <2>1, <2>3 DEF LogInv, Rest
<1>9. ASSUME NEW c \in Cids, AcceptLog(c) PROVE Rest
  <2>1. /\ UNCHANGED <<reader, received, channel, stream, accepted, agent, running>>
        /\ link[c] = "pending" /\ link' = [link EXCEPT ![c] = "handled"]
    BY <1>9 DEF AcceptLog, managerVars
  <2>2. ASSUME NEW d \in Cids PROVE ReaderInv(d)' /\ Carried(d)'
    <3>1. ReaderInv(d) /\ Carried(d)
      BY DEF LogInv
    <3>2. link'[d] = link[d] \/ (link[d] = "pending" /\ link'[d] = "handled")
      BY <1>2, <2>1 DEF SideTypeOK
    <3>3. ReaderInv(d)'
      BY <2>1, <3>1, <3>2 DEF ReaderInv
    <3>4. Carried(d)'
      BY <2>1, <3>1, <3>2 DEF Carried, Unused, Through
    <3> QED
      BY <3>3, <3>4
  <2> QED
    BY <2>1, <2>2 DEF LogInv, Rest
<1>10. ASSUME NEW c \in Cids, ReadLog(c) PROVE Rest
  <2>1. PICK n \in 1 .. Len(stream[c]) :
          /\ reader' = [reader EXCEPT ![c] = ReadChunk(@, SubSeq(stream[c], 1, n))]
          /\ received' = [received EXCEPT ![c] = @ \o SubSeq(stream[c], 1, n)]
          /\ stream' = [stream EXCEPT ![c] = SubSeq(@, n + 1, Len(@))]
    BY <1>10 DEF ReadLog
  <2>2. link[c] = "handled" /\ UNCHANGED <<link, channel, accepted, agent, running>>
    BY <1>10 DEF ReadLog, managerVars
  <2>3. PICK got \in Seq(Byte), left \in Seq(Byte) : got = received[c] /\ left = stream[c]
    BY <1>2 DEF SideTypeOK
  <2>4. Len(left) \in Nat /\ n \in 1 .. Len(left)
    BY <2>1, <2>3, LenProperties
  <2>5. PICK chunk \in Seq(Byte), more \in Seq(Byte) :
               /\ chunk = SubSeq(left, 1, n) /\ more = SubSeq(left, n + 1, Len(left))
               /\ chunk \o more = left
    <3>1. n \in 0 .. Len(left)
      BY <2>4
    <3> QED
      BY <3>1, CutInTwo, ZenonT(40)
  <2>7. /\ reader'[c] = ReadChunk(reader[c], chunk)
        /\ received'[c] = got \o chunk
        /\ stream'[c] = more
    BY <1>2, <2>1, <2>3, <2>5 DEF LogInv, SideTypeOK
  <2>8. \A d \in Cids : d # c => /\ reader'[d] = reader[d] /\ received'[d] = received[d]
                                 /\ stream'[d] = stream[d]
    BY <1>2, <2>1 DEF LogInv, SideTypeOK
  <2>9. ReaderInv(c)'
    <3>1. reader[c] \in ReaderState /\ Heard(reader[c], got)
      BY <2>2, <2>3 DEF LogInv, ReaderInv
    <3>2. reader'[c] \in ReaderState /\ Heard(reader'[c], received'[c])
      BY <2>7, <3>1, ReadChunkHeard
    <3> QED
      BY <2>2, <3>2 DEF ReaderInv
  <2>10. Through(c)' = Through(c)
    <3>1. (got \o chunk) \o more = got \o (chunk \o more)
      BY ConcatAssociative
    <3> QED
      BY <2>3, <2>5, <2>7, <3>1 DEF Through
  <2>11. Carried(c)'
    BY <2>2, <2>10 DEF LogInv, Carried, Unused
  <2>12. ASSUME NEW d \in Cids, d # c PROVE ReaderInv(d)' /\ Carried(d)'
    BY <2>2, <2>8, <2>12, ZenonT(40) DEF LogInv, ReaderInv, Carried, Unused, Through
  <2> QED
    BY <2>1, <2>9, <2>11, <2>12 DEF LogInv, Rest
<1>11. ASSUME NEW c \in Cids, EndLog(c) PROVE Rest
  <2>1. /\ link[c] = "handled" /\ c \notin running
        /\ reader' = [reader EXCEPT ![c] = FinishReading(@)]
        /\ link' = [link EXCEPT ![c] = "closed"]
        /\ UNCHANGED <<received, stream, channel, accepted, agent, running>>
    BY <1>11 DEF EndLog, managerVars
  <2>2. reader'[c] = FinishReading(reader[c]) /\ link'[c] = "closed"
    BY <1>2, <2>1 DEF LogInv, SideTypeOK
  <2>3. \A d \in Cids : d # c => reader'[d] = reader[d] /\ link'[d] = link[d]
    BY <1>2, <2>1 DEF LogInv, SideTypeOK
  <2>4. ReaderInv(c)'
    <3>1. reader[c] \in ReaderState /\ Heard(reader[c], received[c])
      BY <2>1 DEF LogInv, ReaderInv
    <3>2. reader'[c] \in ReaderState /\ HeardAll(reader'[c], received'[c])
      BY <2>1, <2>2, <3>1, FinishHeard
    <3> QED
      BY <2>2, <3>2 DEF ReaderInv
  <2>5. Carried(c)'
    BY <2>1, <2>2 DEF LogInv, Carried, Unused, Through
  <2>6. ASSUME NEW d \in Cids, d # c PROVE ReaderInv(d)' /\ Carried(d)'
    BY <2>1, <2>3, <2>6 DEF LogInv, ReaderInv, Carried, Unused, Through
  <2> QED
    BY <2>1, <2>4, <2>5, <2>6 DEF LogInv, Rest
<1>12. ASSUME NEW c \in Cids, StartAgent(c) \/ StartServers(c) PROVE Rest
  <2>1. /\ UNCHANGED <<reader, received, link, channel, stream, accepted, running>>
        /\ \A d \in Cids : agent'[d] \in {"none", "connecting"}
                             => agent[d] \in {"none", "connecting"}
    BY <1>2, <1>12 DEF StartAgent, StartServers, managerVars, logVars, SideTypeOK
  <2> QED
    BY <1>4, <2>1
<1>13. ASSUME NEW c \in Cids, ConnectLogger(c) PROVE Rest
  <2>1. /\ agent[c] = "connecting" /\ agent' = [agent EXCEPT ![c] = "starting"]
        /\ link' = [link EXCEPT ![c] = "pending"]
        /\ UNCHANGED <<reader, received, channel, stream, accepted, running>>
    BY <1>13 DEF ConnectLogger, managerVars
  <2>2. /\ agent'[c] = "starting" /\ link'[c] = "pending"
        /\ \A d \in Cids : d # c => agent'[d] = agent[d] /\ link'[d] = link[d]
    BY <1>2, <2>1 DEF SideTypeOK
  <2>3. Unused(c) /\ ReaderInv(c) /\ Carried(c)
    BY <2>1 DEF LogInv, Carried
  <2>4. ReaderInv(c)'
    BY <2>1, <2>2, <2>3 DEF ReaderInv, Unused
  <2>5. Carried(c)'
    BY <2>1, <2>2, <2>3, UnusedCarried DEF Carried, Through
  <2>6. ASSUME NEW d \in Cids, d # c PROVE ReaderInv(d)' /\ Carried(d)'
    BY <2>1, <2>2, <2>6, ZenonT(40) DEF LogInv, ReaderInv, Carried, Unused, Through
  <2> QED
    BY <2>1, <2>4, <2>5, <2>6 DEF LogInv, Rest
<1>14. ASSUME NEW c \in Cids, Log(c) PROVE Rest
  <2> DEFINE record == Records[logged[c] + 1]
  <2>1. /\ agent[c] \in {"starting", "serving"} /\ c \in running
        /\ UNCHANGED <<reader, received, link, stream, agent, running>>
    BY <1>14 DEF Log, managerVars
  <2>2. logged[c] + 1 \in 1 .. Len(Records) /\ Len(Records) \in Nat
    BY <1>2, <1>14, RecordsAssumption, LenProperties DEF Log, SideTypeOK
  <2>3. record \in Seq(Byte) /\ IsUtf8(record)
    BY <2>2, RecordsAssumption, ElementOfSeq, LenProperties
  <2> HIDE DEF record
  <2>4. CASE UNCHANGED <<channel, accepted>>
    BY <1>4, <2>1, <2>4
  <2>5. CASE /\ channel' = [channel EXCEPT ![c] = Append(@, record)]
             /\ accepted' = [accepted EXCEPT ![c] = Append(@, record)]
    <3>1. PICK ch \in Seq(Seq(Byte)), acc \in Seq(Seq(Byte)) : ch = channel[c] /\ acc = accepted[c]
      BY <1>2 DEF SideTypeOK
    <3>2. /\ channel'[c] = Append(ch, record) /\ accepted'[c] = Append(acc, record)
          /\ \A d \in Cids : d # c => channel'[d] = channel[d] /\ accepted'[d] = accepted[d]
      BY <1>2, <2>5, <3>1 DEF SideTypeOK
    <3>3. PICK thru \in Seq(Byte), chBytes \in Seq(Byte), accBytes \in Seq(Byte) :
                 thru = Through(c) /\ chBytes = Bytes(ch) /\ accBytes = Bytes(acc)
      BY <1>2, BytesType, ConcatProperties DEF Through, SideTypeOK
    <3>4. Bytes(channel'[c]) = chBytes \o record /\ Bytes(accepted'[c]) = accBytes \o record
      BY <2>3, <3>2, <3>3, BytesStep
    <3>5. Through(c)' = thru
      BY <2>1, <3>3 DEF Through
    <3>6. link[c] # "closed" => thru \o (chBytes \o record) = accBytes \o record
      <4>1. thru \o (chBytes \o record) = (thru \o chBytes) \o record
        <5>1. Grouped(thru, chBytes, record)
          BY <2>3, BytesGrouped
        <5> QED
          BY <5>1 DEF Grouped
      <4>2. link[c] # "closed" => thru \o chBytes = accBytes
        BY <2>1, <3>1, <3>3 DEF LogInv, Carried
      <4> QED
        BY <4>1, <4>2
    <3>7. PICK rest \in Seq(Byte) : thru \o rest = accBytes
      BY <3>1, <3>3 DEF LogInv, Carried
    <3>8. thru \o (rest \o record) = accBytes \o record /\ rest \o record \in Seq(Byte)
      <4>1. thru \o (rest \o record) = (thru \o rest) \o record
        <5>1. Grouped(thru, rest, record)
          BY <2>3, BytesGrouped
        <5> QED
          BY <5>1 DEF Grouped
      <4> QED
        BY <2>3, <3>7, <4>1, ConcatProperties
    <3>9. \A i \in DOMAIN accepted'[c] : IsUtf8(accepted'[c][i])
      <4>1. \A i \in DOMAIN acc : IsUtf8(acc[i])
        BY <3>1 DEF LogInv, Carried
      <4>2. /\ Append(acc, record) \in Seq(Seq(Byte))
            /\ Len(Append(acc, record)) = Len(acc) + 1
            /\ \A i \in 1 .. Len(acc) : Append(acc, record)[i] = acc[i]
            /\ Append(acc, record)[Len(acc) + 1] = record
        BY <2>3, AppendProperties
      <4>3. /\ Len(acc) \in Nat /\ DOMAIN acc = 1 .. Len(acc)
            /\ DOMAIN Append(acc, record) = 1 .. Len(acc) + 1
        BY <4>2, LenProperties
      <4>4. ASSUME NEW i \in 1 .. Len(acc) + 1 PROVE IsUtf8(Append(acc, record)[i])
        <5>1. i \in 1 .. Len(acc) \/ i = Len(acc) + 1
          BY <4>3
        <5> QED
          BY <2>3, <4>1, <4>2, <4>3, <5>1
      <4> QED
        BY <3>2, <4>3, <4>4
    <3>10. Carried(c)'
      <4>1. agent'[c] \notin {"none", "connecting"}
        BY <2>1
      <4>2. \E more \in Seq(Byte) : Through(c)' \o more = Bytes(accepted'[c])
        BY <3>4, <3>5, <3>8
      <4>3. link'[c] # "closed" => Through(c)' \o Bytes(channel'[c]) = Bytes(accepted'[c])
        BY <2>1, <3>4, <3>5, <3>6
      <4> QED
        BY <3>9, <4>1, <4>2, <4>3 DEF Carried
    <3>11. ASSUME NEW d \in Cids, d # c PROVE Carried(d)'
      BY <2>1, <3>2, <3>11 DEF LogInv, Carried, Unused, Through
    <3> QED
      BY <1>3, <2>1, <3>10, <3>11 DEF LogInv, Rest
  <2> QED
    BY <1>14, <2>4, <2>5 DEF Log, record
<1>15. ASSUME NEW c \in Cids, WriteRecord(c) PROVE Rest
  <2>1. /\ c \in running /\ channel[c] # <<>>
        /\ channel' = [channel EXCEPT ![c] = Tail(@)]
        /\ stream' = IF link[c] = "closed" THEN stream
                     ELSE [stream EXCEPT ![c] = @ \o Head(channel[c])]
        /\ UNCHANGED <<reader, received, link, accepted, agent, running>>
    BY <1>15 DEF WriteRecord, managerVars
  <2>2. PICK ch \in Seq(Seq(Byte)), got \in Seq(Byte), left \in Seq(Byte) :
               ch = channel[c] /\ got = received[c] /\ left = stream[c]
    BY <1>2 DEF SideTypeOK
  <2>3. agent[c] \notin {"none", "connecting"}
    BY <2>1 DEF LogInv, Carried, Unused
  <2>4. PICK head \in Seq(Byte), tail \in Seq(Seq(Byte)) : head = Head(ch) /\ tail = Tail(ch)
    BY <2>1, <2>2, HeadTailProperties
  <2>5. PICK tailBytes \in Seq(Byte) : tailBytes = Bytes(tail) /\ Bytes(ch) = head \o tailBytes
    BY <2>1, <2>2, <2>4, BytesHead, BytesType
  <2>6. /\ channel'[c] = tail
        /\ \A d \in Cids : d # c => channel'[d] = channel[d] /\ stream'[d] = stream[d]
    BY <1>2, <2>1, <2>2, <2>4 DEF SideTypeOK
  <2>7. CASE link[c] = "closed"
    <3>1. stream' = stream
      BY <2>1, <2>7
    <3>2. Carried(c)'
      BY <2>1, <2>3, <2>7, <3>1 DEF LogInv, Carried, Through
    <3>3. ASSUME NEW d \in Cids, d # c PROVE Carried(d)'
      BY <2>1, <2>6, <3>3 DEF LogInv, Carried, Unused, Through
    <3> QED
      BY <1>3, <2>1, <3>2, <3>3 DEF LogInv, Rest
  <2>8. CASE link[c] # "closed"
    <3>1. stream'[c] = left \o head
      BY <1>2, <2>1, <2>2, <2>4, <2>8 DEF SideTypeOK
    <3>2. /\ got \o left \in Seq(Byte) /\ left \o head \in Seq(Byte)
          /\ got \o (left \o head) = (got \o left) \o head
      <4>1. Grouped(got, left, head)
        BY BytesGrouped
      <4> QED
        BY <4>1, BytesConcat DEF Grouped
    <3>3. ((got \o left) \o head) \o tailBytes = (got \o left) \o (head \o tailBytes)
      <4>1. Grouped(got \o left, head, tailBytes)
        BY <3>2, BytesGrouped
      <4> QED
        BY <4>1 DEF Grouped
    <3>4. (got \o left) \o (head \o tailBytes) = Bytes(accepted[c])
      BY <2>1, <2>2, <2>5, <2>8 DEF LogInv, Carried, Through
    <3>5. Through(c)' = (got \o left) \o head
      BY <2>1, <2>2, <3>1, <3>2 DEF Through
    <3>6. Through(c)' \o tailBytes = Bytes(accepted'[c])
      BY <2>1, <3>3, <3>4, <3>5
    <3>7. Carried(c)'
      <4>1. \A i \in DOMAIN accepted'[c] : IsUtf8(accepted'[c][i])
        BY <2>1 DEF LogInv, Carried
      <4>2. Through(c)' \o Bytes(channel'[c]) = Bytes(accepted'[c])
        BY <2>5, <2>6, <3>6
      <4>3. \E rest \in Seq(Byte) : Through(c)' \o rest = Bytes(accepted'[c])
        BY <3>6
      <4> QED
        BY <2>1, <2>3, <4>1, <4>2, <4>3 DEF Carried
    <3>8. ASSUME NEW d \in Cids, d # c PROVE Carried(d)'
      BY <2>1, <2>6, <3>8 DEF LogInv, Carried, Unused, Through
    <3> QED
      BY <1>3, <2>1, <3>7, <3>8 DEF LogInv, Rest
  <2> QED
    BY <2>7, <2>8
<1>16. ASSUME NEW c \in Cids, LoseTail(c) PROVE Rest
  <2>1. PICK n \in 0 .. Len(stream[c]) - 1 : stream' = [stream EXCEPT ![c] = SubSeq(@, 1, n)]
    BY <1>16 DEF LoseTail
  <2>2. /\ c \notin running /\ stream[c] # <<>>
        /\ UNCHANGED <<reader, received, link, channel, accepted, agent, running>>
    BY <1>16 DEF LoseTail, managerVars
  <2>3. PICK got \in Seq(Byte), left \in Seq(Byte) : got = received[c] /\ left = stream[c]
    BY <1>2 DEF SideTypeOK
  <2>4. n \in 0 .. Len(left) /\ Len(left) \in Nat
    BY <2>1, <2>3, LenProperties
  <2>5. PICK kept \in Seq(Byte), lost \in Seq(Byte) :
               kept = SubSeq(left, 1, n) /\ kept \o lost = left
    BY <2>4, CutInTwo, ZenonT(40)
  <2>7. /\ stream'[c] = kept
        /\ \A d \in Cids : d # c => stream'[d] = stream[d]
    BY <1>2, <2>1, <2>3, <2>5 DEF SideTypeOK
  <2>8. PICK rest \in Seq(Byte) : (got \o left) \o rest = Bytes(accepted[c])
    BY <2>3 DEF LogInv, Carried, Through
  <2>9. Through(c)' \o (lost \o rest) = Bytes(accepted'[c]) /\ lost \o rest \in Seq(Byte)
    <3>1. Through(c)' = got \o kept
      BY <2>2, <2>3, <2>7 DEF Through
    <3>2. got \o kept \in Seq(Byte) /\ lost \o rest \in Seq(Byte) /\ kept \o lost \in Seq(Byte)
      BY ConcatProperties
    <3>3. (got \o kept) \o (lost \o rest) = ((got \o kept) \o lost) \o rest
      <4>1. Grouped(got \o kept, lost, rest)
        BY <3>2, BytesGrouped
      <4> QED
        BY <4>1 DEF Grouped
    <3>4. (got \o kept) \o lost = got \o (kept \o lost)
      <4>1. Grouped(got, kept, lost)
        BY BytesGrouped
      <4> QED
        BY <4>1 DEF Grouped
    <3> QED
      BY <2>2, <2>5, <2>8, <3>1, <3>2, <3>3, <3>4
  <2>10. agent[c] \notin {"none", "connecting"}
    BY <2>2 DEF LogInv, Carried, Unused
  <2>11. Carried(c)'
    <3>1. \A i \in DOMAIN accepted'[c] : IsUtf8(accepted'[c][i])
      BY <2>2 DEF LogInv, Carried
    <3>2. \E more \in Seq(Byte) : Through(c)' \o more = Bytes(accepted'[c])
      BY <2>9
    <3> QED
      BY <2>2, <2>10, <3>1, <3>2 DEF Carried
  <2>12. ASSUME NEW d \in Cids, d # c PROVE Carried(d)'
    BY <2>2, <2>7, <2>12 DEF LogInv, Carried, Unused, Through
  <2> QED
    BY <1>3, <2>2, <2>11, <2>12 DEF LogInv, Rest
<1>17. Rest
  <2>1. ASSUME NEW s \in Sockets, ListenerStep(s) PROVE Rest
    BY <1>7, <1>8, <2>1 DEF ListenerStep
  <2>2. ASSUME NEW c \in Cids, ReaderStep(c) \/ LoseTail(c) PROVE Rest
    BY <1>9, <1>10, <1>11, <1>16, <2>2 DEF ReaderStep
  <2>3. ASSUME NEW c \in Cids, AgentStep(c) \/ Log(c) PROVE Rest
    BY <1>12, <1>13, <1>14, <1>15, <2>3 DEF AgentStep
  <2> QED
    BY <1>5, <1>6, <2>1, <2>2, <2>3 DEF SideNext
<1> QED
  BY <1>1, <1>17 DEF LogInv, Rest

LEMMA PrefixOfConcat ==
  ASSUME NEW s \in Seq(Byte), NEW t \in Seq(Byte)
  PROVE  IsPrefix(s, s \o t) /\ SubSeq(s \o t, 1, Len(s)) = s /\ Len(s) \in 0 .. Len(s \o t)
<1>1. Len(s) \in Nat /\ Len(t) \in Nat /\ Len(s \o t) = Len(s) + Len(t)
  BY LenProperties, ConcatProperties
<1>2. SubSeq(s, 1, Len(s)) = s
  BY SubSeqFull
<1>3. SubSeq(s \o t, 1, Len(s)) = s
  <2>1. CASE s = <<>>
    <3>1. Len(s) = 0
      BY <2>1, EmptySeq
    <3> QED
      BY <2>1, <3>1, SubSeqEmpty
  <2>2. CASE s # <<>>
    <3>1. Len(s) # 0 /\ 1 \in 1 .. Len(s) /\ Len(s) \in 1 .. Len(s)
      BY <1>1, <2>2, EmptySeq
    <3> QED
      BY <1>2, <3>1, SubSeqOfConcat1
  <2> QED
    BY <2>1, <2>2
<1> QED
  BY <1>1, <1>2, <1>3 DEF IsPrefix

\* If all the bytes are text, none are held back.
LEMMA NoneHeldBack ==
  ASSUME NEW text \in Seq(Byte), NEW buffer \in Seq(Byte), IsUtf8(text), HeldBack(buffer),
         IsUtf8(text \o buffer)
  PROVE  text \o buffer = text
<1>1. IsUtf8(buffer)
  BY Utf8Concat
<1>2. buffer = <<>>
  BY <1>1, SMTT(30) DEF HeldBack
<1> QED
  BY <1>2, ConcatEmptySeq

LEMMA LogInvPrints == LogInv => HostPrintsRecords
<1> SUFFICES ASSUME LogInv, NEW c \in Cids
             PROVE  /\ IsPrefix(received[c], Bytes(accepted[c]))
                    /\ \E n \in 0 .. Len(received[c]) :
                         LET text == SubSeq(received[c], 1, n)
                             split == Split(text)
                         IN /\ IsUtf8(text)
                            /\ IsUtf8(received[c]) => n = Len(received[c])
                            /\ reader[c].printed =
                                 IF link[c] = "closed" THEN WithLine(split.lines, split.rest)
                                                       ELSE split.lines
  BY DEF HostPrintsRecords
<1>1. PICK got \in Seq(Byte), left \in Seq(Byte) : got = received[c] /\ left = stream[c]
  BY DEF LogInv, ManagerInv, SideInv, SideTypeOK
<1>2. IsPrefix(received[c], Bytes(accepted[c]))
  <2>1. PICK rest \in Seq(Byte) : (got \o left) \o rest = Bytes(accepted[c])
    BY <1>1 DEF LogInv, Carried, Through
  <2>2. (got \o left) \o rest = got \o (left \o rest) /\ left \o rest \in Seq(Byte)
    BY ConcatAssociative, ConcatProperties
  <2> QED
    BY <1>1, <2>1, <2>2, PrefixOfConcat
<1>3. PICK buffer \in Seq(Byte) : buffer = reader[c].buffer
  BY DEF LogInv, ReaderInv, ReaderState
<1>4. PICK text \in Seq(Byte) :
        /\ IsUtf8(text) /\ got = text \o buffer /\ HeldBack(buffer)
        /\ reader[c].printed = IF link[c] = "closed"
                                 THEN WithLine(Split(text).lines, Split(text).rest)
                                 ELSE Split(text).lines
  <2>1. CASE link[c] = "closed"
    BY <1>1, <1>3, <2>1 DEF LogInv, ReaderInv, HeardAll
  <2>2. CASE link[c] # "closed"
    BY <1>1, <1>3, <2>2 DEF LogInv, ReaderInv, Heard
  <2> QED
    BY <2>1, <2>2
<1>5. Len(text) \in 0 .. Len(got) /\ SubSeq(got, 1, Len(text)) = text
  BY <1>4, PrefixOfConcat
<1>6. IsUtf8(got) => Len(text) = Len(got)
  BY <1>4, NoneHeldBack
<1> QED
  BY <1>1, <1>2, <1>4, <1>5, <1>6

(* The host prints the lines of the log records in order and whole, wherever *)
(* the reads end: for any records, any capacity and any way of cutting the   *)
(* bytes into chunks.                                                        *)
THEOREM RecordsArePrinted == SideSpec => []HostPrintsRecords
BY LogInit, LogStep, LogInvPrints, PTL DEF SideSpec

(* Once the channel and the connection of a running VM are empty, every line *)
(* of every accepted record has been printed.                                *)
THEOREM DrainedIsPrinted == SideSpec => []DrainedLogIsPrinted
<1>1. ASSUME LogInv, NEW c \in running \cap Cids, link[c] = "handled",
             channel[c] = <<>>, stream[c] = <<>>
      PROVE  reader[c].printed = Split(Bytes(accepted[c])).lines
  <2>1. PICK got \in Seq(Byte) : got = received[c]
    BY <1>1 DEF LogInv, ManagerInv, SideInv, SideTypeOK
  <2>2. got = Bytes(accepted[c])
    <3>1. (got \o <<>>) \o Bytes(<<>>) = Bytes(accepted[c])
      BY <1>1, <2>1 DEF LogInv, Carried, Through
    <3> QED
      BY <3>1, BytesStep, ConcatEmptySeq
  <2>3. IsUtf8(got)
    <3>1. accepted[c] \in Seq(Seq(Byte))
      BY <1>1 DEF LogInv, ManagerInv, SideInv, SideTypeOK
    <3>2. \A i \in DOMAIN accepted[c] : IsUtf8(accepted[c][i])
      BY <1>1 DEF LogInv, Carried
    <3> QED
      BY <2>2, <3>1, <3>2, BytesAreText
  <2>4. PICK buffer \in Seq(Byte) : buffer = reader[c].buffer
    BY <1>1 DEF LogInv, ReaderInv, ReaderState
  <2>5. PICK text \in Seq(Byte) : /\ IsUtf8(text) /\ got = text \o buffer /\ HeldBack(buffer)
                                  /\ reader[c].printed = Split(text).lines
    BY <1>1, <2>1, <2>4 DEF LogInv, ReaderInv, Heard
  <2>6. got = text
    BY <2>3, <2>5, NoneHeldBack
  <2> QED
    BY <2>2, <2>5, <2>6
<1>2. LogInv => DrainedLogIsPrinted
  BY <1>1 DEF DrainedLogIsPrinted
<1> QED
  BY <1>2, LogInit, LogStep, PTL DEF SideSpec
=============================================================================

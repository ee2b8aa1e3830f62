------------------------- MODULE VmCommandsProofs -------------------------
(***************************************************************************)
(* Proofs about VmCommands, for any finite sets of workers and VM names    *)
(* and any limit on retries, both with and without the shutdown of the     *)
(* host.                                                                   *)
(*                                                                         *)
(* Processors find instances and senders by name.  That they find the      *)
(* right ones rests on three facts: a cid names one VM for ever, a sender  *)
(* is kept only by an instance that is in the table, and a channel that is *)
(* still listened to has its sender in the instance its worker holds.      *)
(***************************************************************************)
EXTENDS VmCommands, VmManagerProofs, FiniteSetTheorems, SequenceTheorems

-----------------------------------------------------------------------------
(* The inductive invariant.                                                  *)

\* What the place of a worker in its operation says of its other variables.
Place(t) ==
  /\ op[t] = "idle" => attempt[t] = 0
  /\ op[t] # "idle" => vmOf[t] \in VmIds /\ kind[t] \in Kinds
  /\ op[t] \in {"send", "wait"} <=> held[t] # 0
  /\ op[t] \in {"send", "wait", "health", "destroy", "create"} => attempt[t] # 0
  /\ op[t] \in {"register", "health", "destroy", "create"}
       => attempt[t] <= MaxRetries /\ (attempt[t] # 0 => kind[t] = "exec")
  /\ op[t] # "done" => outcome[t] = "none"
  /\ outcome[t] \in {"result", "timeout"} => attempt[t] # 0
  /\ op[t] \notin {"idle", "create"} => pc[t] = "idle"
  /\ op[t] = "create" => pc[t] \in {"takeCid", "prepare", "spawn", "booting",
                                    "created", "createFailed"}
Places == \A t \in Workers : Place(t)

\* The draws that have been made or can no longer be: a worker draws a cid once,
\* or once after each attempt.
MaxDraws == IF MaxRetries = 0 THEN 1 ELSE MaxRetries
Spent(t, n) == \/ n < attempt[t]
               \/ n = attempt[t] /\ op[t] \in {"register", "done"}
               \/ n = attempt[t] /\ op[t] = "create" /\ pc[t] # "takeCid"
               \/ n = 1 /\ op[t] = "idle" /\ pc[t] \notin {"idle", "takeCid"}
Draws == {d \in Workers \X (1 .. MaxDraws) : Spent(d[1], d[2])}
CidBound == nextCid <= FirstCid + Cardinality(VmIds) + Cardinality(Draws)

\* A cid is given to one VM, once.
Served ==
  /\ \A c \in Cids : /\ c >= nextCid => servedVm[c] = None
                     /\ servedVm[c] = None => processor[c] = "none"
  /\ \A t \in Workers : Creating(t) => servedVm[cidOf[t]] = None
  /\ \A t, u \in Workers : Creating(t) /\ Creating(u) /\ cidOf[t] = cidOf[u] => t = u
  /\ \A v \in VmIds : instances[v] # 0 => servedVm[instances[v]] = v
  /\ \A t \in Workers : held[t] # 0 => servedVm[held[t]] = vmOf[t]

\* The channel has been made; its number and its worker say what its id is.
Made(ch) == ch[2] <= attempt[ch[1]]
IdOfChannel(ch) == IdOf(ch[1], ch[2])

\* A sender in a map.
EntryAt(c, e) ==
  /\ Made(e.to) /\ e.id = IdOfChannel(e.to)
  /\ Listening(e.to) => c = held[e.to[1]]
Entries ==
  \A c \in Cids :
    /\ \A e \in senders[c] : EntryAt(c, e)
    /\ senders[c] # {} => \E v \in VmIds : instances[v] = c
    /\ \A e, f \in senders[c] : e.id = f.id => e = f

\* A command that was sent: by a worker that is past sending it.
Sent(m) ==
  \/ m = [id |-> HealthId, from |-> None]
  \/ /\ m.from \in Channel /\ Made(m.from) /\ m.id = IdOfChannel(m.from)
     /\ op[m.from[1]] = "send" => m.from[2] # attempt[m.from[1]]
Queued == \A c \in Cids : \A i \in DOMAIN queue[c] : Sent(queue[c][i])

\* A command being run: the result goes to a channel that waits for its id.
Running(j) ==
  /\ Sent(j.cmd)
  /\ j.to # None => /\ Made(j.to) /\ j.cmd.id = IdOfChannel(j.to)
                    /\ Listening(j.to) => j.at = held[j.to[1]]
Jobs == \A c \in Cids : /\ processor[c] = "busy" <=> current[c] # None
                        /\ current[c] # None => Running(current[c])

\* A result is kept from the time its channel is registered; that of a retried
\* operation answers the command of the current attempt.
Results ==
  \A t \in Workers : result[t] # None =>
    /\ op[t] \in {"send", "wait", "done"}
    /\ kind[t] = "exec" => op[t] # "send"
    /\ op[t] \in {"send", "wait"} => /\ result[t].at = held[t]
                                     /\ kind[t] = "exec" => result[t].from = Mine(t)

CommandsInv == /\ TypeInv /\ CommandsTypeOK
               /\ Places /\ CidBound /\ Served
               /\ Entries /\ Queued /\ Jobs /\ Results

-----------------------------------------------------------------------------
(* The steps, with and without the shutdown of the host.                     *)

Answered(t) == \/ op[t] = "wait" /\ result[t] # None /\ ReturnWith(t, "result")
               \/ op[t] = "wait" /\ ReturnWith(t, "timeout")

\* A step of VmManager that neither starts nor drops an instance.
ManagerStep ==
  /\ [Next]_managerVars
  /\ UNCHANGED <<taskVars, channelVars>>
  /\ \/ \E t \in Workers, v \in VmIds : op[t] = "idle" /\ BeginCreate(t, v)
     \/ \E t \in Workers : TakeCid(t) \/ Prepare(t) \/ FailCreate(t) \/ Spawn(t)
     \/ UNCHANGED <<nextCid, instances, pc, vmOf, cidOf>>

WorkerAction(t) ==
  \/ Register(t) \/ SendCommand(t) \/ Answered(t) \/ Disconnected(t)
  \/ CheckHealth(t) \/ DestroyUnhealthy(t) \/ Recreated(t) \/ StartInstance(t)
  \/ \E v \in VmIds : DestroyVm(t, v)
  \/ \E v \in VmIds, k \in Kinds : BeginCommand(t, v, k)

AnyStep ==
  \/ \E t \in Workers : WorkerAction(t)
  \/ \E c \in Cids : TakeCommand(c) \/ FinishCommand(c) \/ EndProcessor(c)
  \/ ClearVms
  \/ ManagerStep

EitherNext == CommandsNext \/ ServingNext

LEMMA Steps == [EitherNext]_vars => AnyStep
<1> SUFFICES ASSUME [EitherNext]_vars PROVE AnyStep
  OBVIOUS
<1> USE DEF AnyStep
<1>1. ASSUME NEW t \in Workers, WorkerStep(t) \/ TimeLimit(t) PROVE AnyStep
  <2>1. CASE CreateVm(t)
    <3>1. CASE StartInstance(t)
      BY <3>1 DEF WorkerAction
    <3>2. CASE (TakeCid(t) \/ Prepare(t) \/ FailCreate(t) \/ Spawn(t))
               /\ UNCHANGED <<taskVars, channelVars>>
      <4>1. Next
        BY <3>2 DEF Next, CreateStep
      <4> QED
        BY <3>2, <4>1 DEF ManagerStep
    <3> QED
      BY <2>1, <3>1, <3>2 DEF CreateVm
  <2>2. CASE GetResult(t) \/ TimeLimit(t)
    BY <2>2 DEF WorkerAction, Answered, GetResult, TimeLimit
  <2> QED
    BY <1>1, <2>1, <2>2 DEF WorkerStep, WorkerAction
<1>2. ASSUME NEW t \in Workers, NEW v \in VmIds,
             \/ \E k \in Kinds : BeginCommand(t, v, k)
             \/ DestroyVm(t, v)
      PROVE  AnyStep
  BY <1>2 DEF WorkerAction
<1>3. ASSUME NEW c \in Cids, ProcessorStep(c) PROVE AnyStep
  BY <1>3 DEF ProcessorStep
<1>4. ASSUME NEW t \in Workers, NEW v \in VmIds, op[t] = "idle", BeginCreate(t, v),
             UNCHANGED <<taskVars, channelVars>>
      PROVE  AnyStep
  <2>1. Next
    BY <1>4 DEF Next
  <2> QED
    BY <1>4, <2>1 DEF ManagerStep
<1>5. ASSUME \/ BuildImage \/ SetShutdownFlag \/ ListInstances \/ FindProcesses
             \/ SignalAgents \/ Return
             \/ \E c \in running : FirecrackerExits(c)
             \/ \E c \in victims : TerminateVictim(c),
             UNCHANGED <<taskVars, channelVars>>
      PROVE  AnyStep
  <2>1. Next
    BY <1>5 DEF Next, MainStep
  <2>2. UNCHANGED <<nextCid, instances, pc, vmOf, cidOf>>
    BY <1>5 DEF BuildImage, SetShutdownFlag, ListInstances, FindProcesses, SignalAgents,
         Return, FirecrackerExits, TerminateVictim, workerVars
  <2> QED
    BY <1>5, <2>1, <2>2 DEF ManagerStep
<1>6. CASE OtherManagerStep
  BY <1>4, <1>5, <1>6 DEF OtherManagerStep
<1>7. CASE UNCHANGED vars \/ (Ended /\ UNCHANGED <<taskVars, channelVars>>)
  <2>1. UNCHANGED managerVars /\ UNCHANGED <<taskVars, channelVars>>
    BY <1>7 DEF vars, Ended
  <2> QED
    BY <2>1 DEF ManagerStep, managerVars
<1>8. CASE CommandsNext
  BY <1>1, <1>2, <1>3, <1>6, <1>7, <1>8 DEF CommandsNext
<1>9. CASE ServingNext
  BY <1>1, <1>2, <1>3, <1>4, <1>5, <1>7, <1>9 DEF ServingNext
<1> QED
  BY <1>7, <1>8, <1>9 DEF EitherNext

-----------------------------------------------------------------------------
(* The variables of VmManager.                                               *)

LEMMA ManagerStepType == TypeInv /\ Places /\ AnyStep => TypeInv'
<1> SUFFICES ASSUME TypeInv, Places, AnyStep PROVE TypeInv'
  OBVIOUS
<1>1. ASSUME NEW t \in Workers, NEW v \in VmIds, NEW k \in Kinds, BeginCommand(t, v, k)
      PROVE  TypeInv'
  BY <1>1 DEF BeginCommand, TypeInv, TypeOK, HasVm, HasCid, Creating
<1>2. ASSUME NEW t \in Workers, DestroyUnhealthy(t) PROVE TypeInv'
  <2>1. vmOf[t] \in VmIds
    BY <1>2 DEF DestroyUnhealthy, Places, Place
  <2>2. /\ instances' \in [VmIds -> {0} \cup FirstCid .. nextCid - 1]
        /\ running' \subseteq running /\ spared' \in SUBSET running' /\ image' \in BOOLEAN
    BY <1>2, <2>1 DEF DestroyUnhealthy, DestroyInstance, Kill, TypeInv, TypeOK
  <2>3. pc' = [pc EXCEPT ![t] = "takeCid"]
        /\ UNCHANGED <<nextCid, vmOf, cidOf, main, victims, replaced, late>>
    BY <1>2 DEF DestroyUnhealthy
  <2> QED
    BY <2>1, <2>2, <2>3 DEF TypeInv, TypeOK, HasVm, HasCid, Creating, WorkerState
<1>3. ASSUME NEW t \in Workers, Recreated(t) PROVE TypeInv'
  BY <1>3 DEF Recreated, TypeInv, TypeOK, HasVm, HasCid, Creating, WorkerState
<1>4. ASSUME NEW t \in Workers,
             StartInstance(t) \/ \E v \in VmIds : DestroyVm(t, v)
      PROVE  [Next]_managerVars
  BY <1>4 DEF StartInstance, DestroyVm, Next, CreateStep
<1>5. CASE ClearVms
  BY <1>5, TypeStep DEF ClearVms, Next, MainStep
<1>6. ASSUME NEW t \in Workers,
             \/ Register(t) \/ SendCommand(t) \/ Answered(t) \/ Disconnected(t)
             \/ CheckHealth(t)
      PROVE  UNCHANGED managerVars
  BY <1>6 DEF Register, SendCommand, Answered, ReturnWith, Disconnected, CheckHealth
<1>7. ASSUME NEW c \in Cids, TakeCommand(c) \/ FinishCommand(c) \/ EndProcessor(c)
      PROVE  UNCHANGED managerVars
  BY <1>7 DEF TakeCommand, FinishCommand, EndProcessor
<1>8. CASE ManagerStep
  BY <1>8, TypeStep DEF ManagerStep
<1> QED
  BY <1>1, <1>2, <1>3, <1>4, <1>5, <1>6, <1>7, <1>8, TypeStep DEF AnyStep, WorkerAction

-----------------------------------------------------------------------------
(* The counter of cids.                                                      *)

LEMMA DrawsFinite ==
  /\ IsFiniteSet(Workers \X (1 .. MaxDraws))
  /\ Cardinality(Workers \X (1 .. MaxDraws)) = Cardinality(Workers) * MaxDraws
  /\ IsFiniteSet(Draws) /\ Cardinality(Draws) \in Nat
  /\ Cardinality(Draws) <= Cardinality(Workers) * MaxDraws
  /\ Cardinality(VmIds) \in Nat /\ Cardinality(Workers) \in Nat /\ MaxDraws \in Nat \ {0}
<1>1. MaxDraws \in Nat \ {0}
  BY MaxRetriesAssumption DEF MaxDraws
<1>2. IsFiniteSet(1 .. MaxDraws) /\ Cardinality(1 .. MaxDraws) = MaxDraws
  BY <1>1, FS_Interval
<1>3. /\ IsFiniteSet(Workers \X (1 .. MaxDraws))
      /\ Cardinality(Workers \X (1 .. MaxDraws)) = Cardinality(Workers) * MaxDraws
  BY <1>2, FinitenessAssumption, FS_Product
<1>4. Draws \in SUBSET (Workers \X (1 .. MaxDraws))
  BY DEF Draws
<1>5. IsFiniteSet(Draws) /\ Cardinality(Draws) <= Cardinality(Workers \X (1 .. MaxDraws))
  BY <1>3, <1>4, FS_Subset
<1>6. Cardinality(Draws) \in Nat
  BY <1>5, FS_CardinalityType
<1>7. Cardinality(VmIds) \in Nat /\ Cardinality(Workers) \in Nat
  BY FinitenessAssumption, FS_CardinalityType
<1> QED
  BY <1>1, <1>3, <1>5, <1>6, <1>7

\* Every cid given out is one of Cids.
LEMMA CidsTop == TypeInv /\ CidBound => FirstCid .. nextCid - 1 \subseteq Cids
<1> SUFFICES ASSUME TypeInv, CidBound PROVE FirstCid .. nextCid - 1 \subseteq Cids
  OBVIOUS
<1> DEFINE top == FirstCid + Cardinality(VmIds) - 1 + Cardinality(Workers) * MaxDraws
<1>1. Cids = FirstCid .. top
  BY DEF Cids, MaxDraws
<1>2. Cardinality(Workers) * MaxDraws \in Nat
  BY DrawsFinite
<1>3. nextCid - 1 <= top /\ nextCid \in Nat
  BY <1>2, DrawsFinite DEF CidBound, FirstCid, TypeInv, TypeOK
<1> HIDE DEF top
<1>4. top \in Int
  BY <1>2, DrawsFinite DEF top, FirstCid
<1> QED
  BY <1>1, <1>3, <1>4 DEF FirstCid

LEMMA CidsKnown ==
  ASSUME TypeInv, CidBound
  PROVE  /\ FirstCid .. nextCid - 1 \subseteq Cids
         /\ \A v \in VmIds : instances[v] \in {0} \cup Cids
         /\ \A t \in Workers : Creating(t) => cidOf[t] \in Cids /\ cidOf[t] < nextCid
         /\ 0 \notin Cids
<1>1. nextCid \in Nat
  BY DEF TypeInv, TypeOK
<1>2. FirstCid .. nextCid - 1 \subseteq Cids
  BY CidsTop
<1>3. \A v \in VmIds : instances[v] \in {0} \cup Cids
  BY <1>2 DEF TypeInv, TypeOK
<1>4. \A t \in Workers : Creating(t) => cidOf[t] \in FirstCid .. nextCid - 1
  BY CidsAreDrawn
<1>5. 0 \notin Cids
  <2>1. PICK w \in Nat : w = Cardinality(Workers) * MaxDraws
    BY DrawsFinite
  <2> QED
    BY <2>1, DrawsFinite DEF Cids, MaxDraws, FirstCid
<1> QED
  BY <1>1, <1>2, <1>3, <1>4, <1>5 DEF FirstCid

LEMMA CidBoundStep ==
  CommandsInv /\ AnyStep => CidBound'
<1> SUFFICES ASSUME CommandsInv, AnyStep PROVE CidBound'
  OBVIOUS
<1>1. /\ Cardinality(Draws) \in Nat /\ Cardinality(Draws') \in Nat
      /\ IsFiniteSet(Draws) /\ IsFiniteSet(Draws')
      /\ Cardinality(VmIds) \in Nat /\ MaxDraws' = MaxDraws
  <2>1. IsFiniteSet(Draws')
    <3>1. Draws' \in SUBSET (Workers \X (1 .. MaxDraws))
      BY DEF Draws, MaxDraws
    <3> QED
      BY <3>1, DrawsFinite, FS_Subset
  <2> QED
    BY <2>1, DrawsFinite, FS_CardinalityType DEF MaxDraws
<1>2. nextCid \in Nat /\ CidBound
  BY DEF CommandsInv, TypeInv, TypeOK
<1>3. ASSUME nextCid' = nextCid, Draws \subseteq Draws' PROVE CidBound'
  <2>1. Cardinality(Draws) <= Cardinality(Draws')
    BY <1>1, <1>3, FS_Subset
  <2> QED
    BY <1>1, <1>2, <1>3, <2>1 DEF CidBound, FirstCid
<1>4. ASSUME NEW t \in Workers, TakeCid(t), UNCHANGED <<taskVars, channelVars>>
      PROVE  CidBound'
  <2>1. /\ pc[t] = "takeCid" /\ pc' = [pc EXCEPT ![t] = "prepare"]
        /\ nextCid' = nextCid + 1 /\ op' = op /\ attempt' = attempt
    BY <1>4 DEF TakeCid, DrawCid, taskVars
  <2>2. Place(t) /\ attempt[t] \in Nat
    BY DEF CommandsInv, Places, CommandsTypeOK
  <2>3. op[t] \in {"idle", "create"}
    BY <2>1, <2>2 DEF Place
  <2>4. PICK n \in 1 .. MaxDraws : n = IF op[t] = "idle" THEN 1 ELSE attempt[t]
    BY <2>2, <2>3, MaxRetriesAssumption DEF Place, MaxDraws
  <2>5. <<t, n>> \in Workers \X (1 .. MaxDraws) /\ ~Spent(t, n)
    BY <2>1, <2>2, <2>3, <2>4 DEF Spent, Place
  <2>6. Spent(t, n)'
    BY <2>1, <2>2, <2>3, <2>4 DEF Spent, Place, CommandsInv, TypeInv, TypeOK
  <2>7. \A u \in Workers, m \in 1 .. MaxDraws : Spent(u, m) => Spent(u, m)'
    BY <2>1 DEF Spent, CommandsInv, TypeInv, TypeOK
  <2>8. <<t, n>> \notin Draws /\ Draws \cup {<<t, n>>} \subseteq Draws'
    <3>1. <<t, n>>[1] = t /\ <<t, n>>[2] = n
      OBVIOUS
    <3>2. <<t, n>> \notin Draws
      BY <2>5, <3>1 DEF Draws
    <3>3. Draws' = {d \in Workers \X (1 .. MaxDraws) : Spent(d[1], d[2])'}
      BY DEF Draws, MaxDraws, Spent
    <3>4. \A d \in Draws : d \in Draws'
      <4> TAKE d \in Draws
      <4>1. /\ d \in Workers \X (1 .. MaxDraws) /\ Spent(d[1], d[2])
            /\ d[1] \in Workers /\ d[2] \in 1 .. MaxDraws
        BY DEF Draws
      <4> QED
        BY <2>7, <3>3, <4>1
    <3>5. <<t, n>> \in Draws'
      BY <2>5, <2>6, <3>1, <3>3
    <3> QED
      BY <3>2, <3>4, <3>5
  <2>9. Cardinality(Draws) + 1 <= Cardinality(Draws')
    <3>1. Cardinality(Draws \cup {<<t, n>>}) = Cardinality(Draws) + 1
      BY <1>1, <2>8, FS_AddElement
    <3> QED
      BY <1>1, <2>8, <3>1, FS_Subset
  <2> QED
    BY <1>1, <1>2, <2>1, <2>9 DEF CidBound, FirstCid
<1>5. ASSUME nextCid' = nextCid, \A u \in Workers, m \in 1 .. MaxDraws : Spent(u, m) => Spent(u, m)'
      PROVE  CidBound'
  <2>1. Draws \subseteq Draws'
    BY <1>1, <1>5 DEF Draws
  <2> QED
    BY <1>3, <1>5, <2>1
<1> USE DEF Spent
<1>6. ASSUME UNCHANGED <<nextCid, op, attempt, pc>> PROVE CidBound'
  BY <1>5, <1>6
<1>7. ASSUME NEW t \in Workers, WorkerAction(t) PROVE CidBound'
  <2>1. Place(t) /\ attempt[t] \in Nat
    BY DEF CommandsInv, Places, CommandsTypeOK
  <2>2. ASSUME \/ Register(t) \/ SendCommand(t) \/ Answered(t) \/ Disconnected(t)
               \/ CheckHealth(t)
        PROVE  nextCid' = nextCid /\ pc' = pc
    BY <2>2 DEF Register, SendCommand, Answered, ReturnWith, Disconnected, CheckHealth,
                managerVars
  <2> USE DEF CommandsInv, CommandsTypeOK, TypeInv, TypeOK, OpState
  <2>3. CASE Register(t)
    <3>1. \/ op' = [op EXCEPT ![t] = "done"] /\ attempt' = attempt
          \/ /\ op' = [op EXCEPT ![t] = "send"]
             /\ attempt' = [attempt EXCEPT ![t] = attempt[t] + 1]
      BY <2>3 DEF Register, Finished
    <3>2. op[t] = "register"
      BY <2>3 DEF Register
    <3> QED
      BY <1>5, <2>2, <2>3, <3>1, <3>2
  <2>4. CASE SendCommand(t) \/ Answered(t) \/ Disconnected(t) \/ CheckHealth(t)
    <3>1. /\ attempt' = attempt /\ op[t] \in {"send", "wait", "health"}
          /\ \E o \in OpState : op' = [op EXCEPT ![t] = o]
      BY <2>4 DEF SendCommand, Answered, ReturnWith, Disconnected, CheckHealth, RetryOr,
                  Finished
    <3> QED
      BY <1>5, <2>2, <2>4, <3>1
  <2>5. CASE DestroyUnhealthy(t)
    <3>1. /\ op[t] = "destroy" /\ op' = [op EXCEPT ![t] = "create"]
          /\ UNCHANGED <<nextCid, attempt>> /\ pc' = [pc EXCEPT ![t] = "takeCid"]
      BY <2>5 DEF DestroyUnhealthy
    <3> QED
      BY <1>5, <2>1, <3>1
  <2>6. CASE Recreated(t)
    <3>1. /\ op[t] = "create" /\ op' = [op EXCEPT ![t] = "register"]
          /\ UNCHANGED <<nextCid, attempt>> /\ pc' = [pc EXCEPT ![t] = "idle"]
      BY <2>6 DEF Recreated
    <3> QED
      BY <1>5, <2>1, <3>1
  <2>7. CASE StartInstance(t)
    <3>1. /\ UNCHANGED <<nextCid, op, attempt>> /\ pc' = [pc EXCEPT ![t] = "created"]
      BY <2>7 DEF StartInstance, InsertInstance, taskVars
    <3> QED
      BY <1>5, <2>1, <3>1
  <2>8. ASSUME NEW v \in VmIds, DestroyVm(t, v) PROVE CidBound'
    <3>1. /\ UNCHANGED <<nextCid, op, attempt>> /\ op[t] = "idle" /\ pc[t] = "idle"
          /\ \E p \in {"destroyed", "destroyFailed"} : pc' = [pc EXCEPT ![t] = p]
      BY <2>8 DEF DestroyVm, Destroy, taskVars
    <3> QED
      BY <1>5, <2>1, <3>1
  <2>9. ASSUME NEW v \in VmIds, NEW k \in Kinds, BeginCommand(t, v, k) PROVE CidBound'
    <3>1. /\ UNCHANGED <<nextCid, pc, attempt>> /\ op[t] = "idle" /\ pc[t] = "idle"
          /\ op' = [op EXCEPT ![t] = "register"]
      BY <2>9 DEF BeginCommand
    <3> QED
      BY <1>5, <2>1, <3>1
  <2> QED
    BY <1>7, <2>3, <2>4, <2>5, <2>6, <2>7, <2>8, <2>9 DEF WorkerAction
<1>8. ASSUME NEW c \in Cids, TakeCommand(c) \/ FinishCommand(c) \/ EndProcessor(c)
      PROVE  CidBound'
  BY <1>6, <1>8 DEF TakeCommand, FinishCommand, EndProcessor, managerVars, taskVars
<1>9. CASE ClearVms
  BY <1>6, <1>9 DEF ClearVms, ClearInstances, workerVars, taskVars
<1>10. CASE ManagerStep
  <2>1. op' = op /\ attempt' = attempt
    BY <1>10 DEF ManagerStep, taskVars
  <2>2. ASSUME NEW t \in Workers,
               \/ op[t] = "idle" /\ \E v \in VmIds : BeginCreate(t, v)
               \/ Prepare(t) \/ FailCreate(t) \/ Spawn(t)
        PROVE  CidBound'
    <3>1. /\ nextCid' = nextCid
          /\ \/ /\ op[t] = "idle" /\ pc[t] = "idle" /\ pc' = [pc EXCEPT ![t] = "takeCid"]
             \/ \E p \in {"spawn", "createFailed", "booting"} : pc' = [pc EXCEPT ![t] = p]
      BY <2>2 DEF BeginCreate, Prepare, FailCreate, Spawn
    <3>2. Place(t) /\ attempt[t] \in Nat
      BY DEF CommandsInv, Places, CommandsTypeOK
    <3> QED
      BY <1>5, <2>1, <3>1, <3>2 DEF Place, CommandsInv, TypeInv, TypeOK
  <2> QED
    BY <1>4, <1>6, <1>10, <2>1, <2>2 DEF ManagerStep
<1> QED
  BY <1>7, <1>8, <1>9, <1>10 DEF AnyStep

-----------------------------------------------------------------------------
(* The places of the workers.                                                *)

LEMMA PlacesStep == CommandsInv /\ AnyStep => Places'
<1> SUFFICES ASSUME CommandsInv, AnyStep PROVE Places'
  OBVIOUS
<1> USE DEF CommandsInv, TypeInv, TypeOK, CommandsTypeOK, OpState, Outcome
<1>1. ASSUME UNCHANGED <<op, attempt, vmOf, kind, held, outcome, pc>> PROVE Places'
  BY <1>1 DEF Places, Place
<1>2. ASSUME NEW t \in Workers, Place(t)',
             \A u \in Workers \ {t} :
               UNCHANGED <<op[u], attempt[u], vmOf[u], kind[u], held[u], outcome[u], pc[u]>>
      PROVE  Places'
  <2> SUFFICES ASSUME NEW u \in Workers, u # t PROVE Place(u)'
    BY <1>2 DEF Places
  <2>1. Place(u)
    BY DEF Places
  <2>2. UNCHANGED <<op[u], attempt[u], vmOf[u], kind[u], held[u], outcome[u], pc[u]>>
    BY <1>2
  <2> QED
    BY <2>1, <2>2 DEF Place
<1>3. ASSUME NEW t \in Workers, WorkerAction(t) PROVE Places'
  <2>1. Place(t)
    BY DEF Places
  <2>2. CASE Register(t)
    <3>1. op[t] = "register" /\ UNCHANGED <<vmOf, kind, pc>>
      BY <2>2 DEF Register, managerVars
    <3>2. CASE instances[vmOf[t]] = 0
      <4>1. /\ op' = [op EXCEPT ![t] = "done"] /\ UNCHANGED <<attempt, held>>
            /\ outcome' = [outcome EXCEPT ![t] = "notFound"]
        BY <2>2, <3>2 DEF Register, Finished
      <4> QED
        BY <1>2, <2>1, <3>1, <4>1 DEF Place
    <3>3. CASE instances[vmOf[t]] # 0
      <4>1. /\ op' = [op EXCEPT ![t] = "send"] /\ outcome' = outcome
            /\ attempt' = [attempt EXCEPT ![t] = attempt[t] + 1]
            /\ held' = [held EXCEPT ![t] = instances[vmOf[t]]]
        BY <2>2, <3>3 DEF Register
      <4>2. /\ op'[t] = "send" /\ attempt'[t] = attempt[t] + 1 /\ attempt[t] \in Nat
            /\ held'[t] # 0
        BY <3>3, <4>1
      <4>3. Place(t)'
        BY <2>1, <3>1, <4>1, <4>2 DEF Place
      <4>4. \A u \in Workers \ {t} :
              UNCHANGED <<op[u], attempt[u], vmOf[u], kind[u], held[u], outcome[u], pc[u]>>
        BY <3>1, <4>1
      <4> QED
        BY <1>2, <4>3, <4>4
    <3> QED
      BY <3>2, <3>3
  <2>3. CASE SendCommand(t) \/ Disconnected(t)
    <3>1. op[t] \in {"send", "wait"} /\ UNCHANGED <<vmOf, kind, attempt, pc>>
      BY <2>3 DEF SendCommand, Disconnected, managerVars
    <3>2. CASE \E o \in {"closed", "disconnected"} : RetryOr(t, o)
      <4>1. held' = [held EXCEPT ![t] = 0]
        BY <3>2 DEF RetryOr
      <4>2. \/ /\ op' = [op EXCEPT ![t] = "health"] /\ outcome' = outcome
               /\ kind[t] = "exec" /\ attempt[t] <= MaxRetries
            \/ /\ op' = [op EXCEPT ![t] = "done"]
               /\ \E o \in {"closed", "disconnected"} : outcome' = [outcome EXCEPT ![t] = o]
        BY <3>2 DEF RetryOr, MayRetry, Finished
      <4> QED
        BY <1>2, <2>1, <3>1, <4>1, <4>2 DEF Place
    <3>3. CASE /\ Finished(t, "sent") /\ held' = [held EXCEPT ![t] = 0]
      BY <1>2, <2>1, <3>1, <3>3 DEF Place, Finished
    <3>4. CASE op' = [op EXCEPT ![t] = "wait"] /\ UNCHANGED <<outcome, held>>
      BY <1>2, <2>1, <3>1, <3>4 DEF Place
    <3> QED
      BY <2>3, <3>2, <3>3, <3>4 DEF SendCommand, Disconnected
  <2>4. CASE Answered(t)
    <3>1. /\ op[t] = "wait" /\ UNCHANGED <<vmOf, kind, attempt, pc>>
          /\ op' = [op EXCEPT ![t] = "done"] /\ held' = [held EXCEPT ![t] = 0]
          /\ \E o \in {"result", "timeout"} : outcome' = [outcome EXCEPT ![t] = o]
      BY <2>4 DEF Answered, ReturnWith, Finished, managerVars
    <3> QED
      BY <1>2, <2>1, <3>1 DEF Place
  <2>5. CASE CheckHealth(t)
    <3>1. /\ op[t] = "health" /\ UNCHANGED <<vmOf, kind, attempt, pc, held, outcome>>
          /\ \E o \in {"register", "destroy"} : op' = [op EXCEPT ![t] = o]
      BY <2>5 DEF CheckHealth, managerVars
    <3> QED
      BY <1>2, <2>1, <3>1 DEF Place
  <2>6. CASE DestroyUnhealthy(t)
    <3>1. /\ op[t] = "destroy" /\ UNCHANGED <<vmOf, kind, attempt, held, outcome>>
          /\ op' = [op EXCEPT ![t] = "create"] /\ pc' = [pc EXCEPT ![t] = "takeCid"]
      BY <2>6 DEF DestroyUnhealthy
    <3> QED
      BY <1>2, <2>1, <3>1 DEF Place
  <2>7. CASE Recreated(t)
    <3>1. /\ op[t] = "create" /\ UNCHANGED <<vmOf, kind, attempt, held, outcome>>
          /\ op' = [op EXCEPT ![t] = "register"] /\ pc' = [pc EXCEPT ![t] = "idle"]
      BY <2>7 DEF Recreated
    <3> QED
      BY <1>2, <2>1, <3>1 DEF Place
  <2>8. CASE StartInstance(t)
    <3>1. /\ pc[t] = "booting" /\ UNCHANGED <<op, vmOf, kind, attempt, held, outcome>>
          /\ pc' = [pc EXCEPT ![t] = "created"]
      BY <2>8 DEF StartInstance, InsertInstance, taskVars
    <3> QED
      BY <1>2, <2>1, <3>1 DEF Place
  <2>9. ASSUME NEW v \in VmIds, DestroyVm(t, v) PROVE Places'
    <3>1. /\ op[t] = "idle" /\ UNCHANGED <<op, kind, attempt, held, outcome>>
          /\ vmOf' = [vmOf EXCEPT ![t] = v]
          /\ \E p \in {"destroyed", "destroyFailed"} : pc' = [pc EXCEPT ![t] = p]
      BY <2>9 DEF DestroyVm, Destroy, taskVars
    <3> QED
      BY <1>2, <2>1, <3>1 DEF Place
  <2>10. ASSUME NEW v \in VmIds, NEW k \in Kinds, BeginCommand(t, v, k) PROVE Places'
    <3>1. /\ op[t] = "idle" /\ pc[t] = "idle" /\ UNCHANGED <<attempt, held, outcome, pc>>
          /\ vmOf' = [vmOf EXCEPT ![t] = v] /\ kind' = [kind EXCEPT ![t] = k]
          /\ op' = [op EXCEPT ![t] = "register"]
      BY <2>10 DEF BeginCommand
    <3>2. /\ op'[t] = "register" /\ vmOf'[t] = v /\ kind'[t] = k /\ attempt'[t] = 0
          /\ held'[t] = held[t] /\ outcome'[t] = outcome[t] /\ pc'[t] = "idle"
      BY <2>1, <3>1 DEF Place
    <3>3. Place(t)'
      BY <2>1, <3>1, <3>2, MaxRetriesAssumption DEF Place
    <3>4. \A u \in Workers \ {t} :
            UNCHANGED <<op[u], attempt[u], vmOf[u], kind[u], held[u], outcome[u], pc[u]>>
      BY <3>1
    <3> QED
      BY <1>2, <3>3, <3>4
  <2> QED
    BY <1>3, <2>2, <2>3, <2>4, <2>5, <2>6, <2>7, <2>8, <2>9, <2>10 DEF WorkerAction
<1>4. ASSUME NEW c \in Cids, TakeCommand(c) \/ FinishCommand(c) \/ EndProcessor(c)
      PROVE  Places'
  BY <1>1, <1>4 DEF TakeCommand, FinishCommand, EndProcessor, managerVars, taskVars
<1>5. CASE ClearVms
  BY <1>1, <1>5 DEF ClearVms, ClearInstances, workerVars, taskVars
<1>6. CASE ManagerStep
  <2>1. UNCHANGED <<op, attempt, kind, held, outcome>>
    BY <1>6 DEF ManagerStep, taskVars
  <2>2. ASSUME NEW t \in Workers, TakeCid(t) \/ Prepare(t) \/ FailCreate(t) \/ Spawn(t)
        PROVE  Places'
    <3>1. /\ vmOf' = vmOf /\ pc[t] \in {"takeCid", "prepare", "spawn"}
          /\ \E p \in {"prepare", "spawn", "createFailed", "booting"} :
                pc' = [pc EXCEPT ![t] = p]
      BY <2>2 DEF TakeCid, Prepare, FailCreate, Spawn
    <3>2. Place(t)
      BY DEF Places
    <3> QED
      BY <1>2, <2>1, <3>1, <3>2 DEF Place
  <2>3. ASSUME NEW t \in Workers, NEW v \in VmIds, op[t] = "idle", BeginCreate(t, v)
        PROVE  Places'
    <3>1. vmOf' = [vmOf EXCEPT ![t] = v] /\ pc' = [pc EXCEPT ![t] = "takeCid"]
      BY <2>3 DEF BeginCreate
    <3>2. Place(t)
      BY DEF Places
    <3> QED
      BY <1>2, <2>1, <2>3, <3>1, <3>2 DEF Place
  <2> QED
    BY <1>1, <1>6, <2>1, <2>2, <2>3 DEF ManagerStep
<1> QED
  BY <1>3, <1>4, <1>5, <1>6 DEF AnyStep

-----------------------------------------------------------------------------
(* The variables of the channels.                                            *)

LEMMA Ids == /\ ListId \in Id /\ HealthId \in Id
             /\ \A t \in Workers, n \in 1 .. MaxRetries + 1 : IdOf(t, n) \in Id
BY DEF Id, IdOf, Channel

\* The instance a processor finds is one of Cids or none.
LEMMA LookUp ==
  ASSUME CommandsInv, NEW c \in Cids, processor[c] # "none"
  PROVE  servedVm[c] \in VmIds /\ instances[servedVm[c]] \in {0} \cup Cids
<1>1. servedVm[c] \in VmIds
  BY DEF CommandsInv, Served, CommandsTypeOK
<1> QED
  BY <1>1, CidsKnown DEF CommandsInv

LEMMA CommandsTypeStep == CommandsInv /\ AnyStep => CommandsTypeOK'
<1> SUFFICES ASSUME CommandsInv, AnyStep PROVE CommandsTypeOK'
  OBVIOUS
<1> DEFINE Task == /\ kind \in [Workers -> Kinds \cup {None}]
                   /\ op \in [Workers -> OpState]
                   /\ attempt \in [Workers -> 0 .. MaxRetries + 1]
                   /\ held \in [Workers -> {0} \cup Cids]
                   /\ outcome \in [Workers -> Outcome]
           Answers == result \in [Workers -> VmCommandResult \cup {None}]
           Senders == senders \in [Cids -> SUBSET Entry]
           Queues == queue \in [Cids -> Seq(Cmd)]
           Threads == /\ servedVm \in [Cids -> VmIds \cup {None}]
                      /\ processor \in [Cids -> {"none", "ready", "busy", "ended"}]
           Runs == current \in [Cids -> Job \cup {None}]
<1>1. /\ Task /\ Answers /\ Senders /\ Queues /\ Threads /\ Runs
      /\ Task' /\ Answers' /\ Senders' /\ Queues' /\ Threads' /\ Runs' => CommandsTypeOK'
  BY DEF CommandsInv, CommandsTypeOK
<1>2. CommandsInv /\ \A t \in Workers : Place(t)
  BY DEF CommandsInv, Places
<1>3. ASSUME senders' = [c \in Cids |-> {}] PROVE Senders'
  BY <1>3
<1>4. ASSUME NEW c, senders' = DropSenders(c) PROVE Senders'
  BY <1>1, <1>4 DEF DropSenders
<1>5. ASSUME UNCHANGED taskVars PROVE Task' /\ Answers'
  BY <1>1, <1>5 DEF taskVars
<1>6. ASSUME NEW t \in Workers, NEW o, o \in Outcome, Finished(t, o) PROVE
        op' \in [Workers -> OpState] /\ outcome' \in [Workers -> Outcome]
  BY <1>1, <1>6 DEF Finished, OpState
<1> HIDE DEF Task, Answers, Senders, Queues, Threads, Runs
<1> USE DEF OpState, Outcome
<1>7. ASSUME NEW t \in Workers, WorkerAction(t) PROVE CommandsTypeOK'
  <2>1. CASE Register(t)
    <3>1. UNCHANGED <<kind, result, queue, servedVm, processor, current>>
      BY <2>1 DEF Register
    <3>2. op[t] = "register" /\ vmOf[t] \in VmIds /\ attempt[t] \in 0 .. MaxRetries
      BY <1>1, <1>2, <2>1 DEF Register, Place, Task
    <3>3. CASE instances[vmOf[t]] = 0
      <4>1. Finished(t, "notFound") /\ UNCHANGED <<attempt, held, senders>>
        BY <2>1, <3>3 DEF Register
      <4>2. op' \in [Workers -> OpState] /\ outcome' \in [Workers -> Outcome]
        BY <1>6, <4>1
      <4>3. Task' /\ Senders'
        BY <1>1, <3>1, <4>1, <4>2 DEF Task, Senders
      <4> QED
        BY <1>1, <3>1, <4>3 DEF Answers, Queues, Threads, Runs
    <3>4. CASE instances[vmOf[t]] # 0
      <4> DEFINE c == instances[vmOf[t]]
                 ch == <<t, attempt[t] + 1>>
                 id == IdOf(t, attempt[t] + 1)
      <4>1. /\ op' = [op EXCEPT ![t] = "send"]
            /\ attempt' = [attempt EXCEPT ![t] = attempt[t] + 1]
            /\ held' = [held EXCEPT ![t] = c] /\ outcome' = outcome
            /\ senders' = [senders EXCEPT ![c] =
                             {e \in senders[c] : e.id # id} \cup {[id |-> id, to |-> ch]}]
        BY <2>1, <3>4 DEF Register
      <4>2. c \in Cids
        BY <3>2, <3>4, CidsKnown DEF CommandsInv
      <4>3. attempt[t] + 1 \in 1 .. MaxRetries + 1
        BY <3>2, MaxRetriesAssumption
      <4>4. Task'
        BY <1>1, <3>1, <4>1, <4>2, <4>3 DEF Task
      <4>5. id \in Id /\ ch \in Channel
        BY <4>3, Ids DEF Channel
      <4>6. [id |-> id, to |-> ch] \in Entry
        BY <4>5 DEF Entry
      <4>7. {e \in senders[c] : e.id # id} \cup {[id |-> id, to |-> ch]} \in SUBSET Entry
        BY <1>1, <4>2, <4>6 DEF Senders
      <4>8. Senders'
        BY <1>1, <4>1, <4>7 DEF Senders
      <4> QED
        BY <1>1, <3>1, <4>4, <4>8 DEF Answers, Queues, Threads, Runs
    <3> QED
      BY <3>3, <3>4
  <2>2. ASSUME NEW o \in Outcome, RetryOr(t, o)
        PROVE  op' \in [Workers -> OpState] /\ outcome' \in [Workers -> Outcome]
               /\ held' \in [Workers -> {0} \cup Cids]
    <3>1. held' \in [Workers -> {0} \cup Cids]
      BY <1>1, <2>2 DEF RetryOr, Task
    <3>2. CASE MayRetry(t)
      BY <1>1, <2>2, <3>1, <3>2 DEF RetryOr, Task
    <3>3. CASE ~MayRetry(t)
      <4>1. Finished(t, o)
        BY <2>2, <3>3 DEF RetryOr
      <4> QED
        BY <1>6, <3>1, <4>1
    <3> QED
      BY <3>2, <3>3
  <2>3. CASE SendCommand(t)
    <3>1. op[t] = "send" /\ UNCHANGED <<kind, attempt, result, senders,
                                       servedVm, processor, current>>
      BY <2>3 DEF SendCommand
    <3>2. held[t] \in Cids /\ attempt[t] \in 1 .. MaxRetries + 1
      BY <1>1, <1>2, <3>1 DEF Place, Task
    <3>3. [id |-> CommandId(t), from |-> Mine(t)] \in Cmd
      <4>1. CommandId(t) \in Id /\ Mine(t) \in Channel
        BY <3>2, Ids DEF CommandId, Mine, Channel
      <4> QED
        BY <4>1 DEF Cmd
    <3>4. Queues'
      <4>1. CASE queue' = queue
        BY <1>1, <4>1 DEF Queues
      <4>2. CASE queue' = [queue EXCEPT ![held[t]] =
                             Append(queue[held[t]], [id |-> CommandId(t), from |-> Mine(t)])]
        <5>1. Append(queue[held[t]], [id |-> CommandId(t), from |-> Mine(t)]) \in Seq(Cmd)
          BY <1>1, <3>2, <3>3, AppendProperties DEF Queues
        <5> QED
          BY <1>1, <4>2, <5>1 DEF Queues
      <4> QED
        BY <2>3, <4>1, <4>2 DEF SendCommand
    <3>5. /\ op' \in [Workers -> OpState] /\ outcome' \in [Workers -> Outcome]
          /\ held' \in [Workers -> {0} \cup Cids]
      <4>1. CASE RetryOr(t, "closed")
        BY <2>2, <4>1
      <4>2. CASE Finished(t, "sent") /\ held' = [held EXCEPT ![t] = 0]
        BY <1>1, <1>6, <4>2 DEF Task
      <4>3. CASE op' = [op EXCEPT ![t] = "wait"] /\ UNCHANGED <<outcome, held>>
        BY <1>1, <4>3 DEF Task
      <4> QED
        BY <2>3, <4>1, <4>2, <4>3 DEF SendCommand
    <3>6. Task'
      BY <1>1, <3>1, <3>5 DEF Task
    <3> QED
      BY <1>1, <3>1, <3>4, <3>6 DEF Answers, Senders, Threads, Runs
  <2>4. CASE Answered(t)
    <3>1. PICK o \in {"result", "timeout"} : ReturnWith(t, o)
      BY <2>4 DEF Answered
    <3>2. UNCHANGED <<kind, attempt, result, queue, servedVm, processor, current>>
          /\ held' = [held EXCEPT ![t] = 0]
      BY <3>1 DEF ReturnWith
    <3>3. op' \in [Workers -> OpState] /\ outcome' \in [Workers -> Outcome]
      BY <1>6, <3>1 DEF ReturnWith
    <3>4. Task'
      BY <1>1, <3>2, <3>3 DEF Task
    <3>5. Senders'
      <4>1. senders' = WithoutEntry(t)
        BY <3>1 DEF ReturnWith
      <4> QED
        BY <1>1, <4>1 DEF WithoutEntry, Senders
    <3> QED
      BY <1>1, <3>2, <3>4, <3>5 DEF Answers, Queues, Threads, Runs
  <2>5. CASE Disconnected(t)
    <3>1. RetryOr(t, "disconnected") /\ UNCHANGED <<kind, attempt, result, channelVars>>
      BY <2>5 DEF Disconnected
    <3>2. Task'
      BY <1>1, <2>2, <3>1 DEF Task
    <3> QED
      BY <1>1, <3>1, <3>2 DEF channelVars, Answers, Senders, Queues, Threads, Runs
  <2>6. CASE CheckHealth(t)
    <3>1. /\ UNCHANGED <<kind, attempt, held, result, outcome, senders,
                         servedVm, processor, current>>
          /\ \E o \in {"register", "destroy"} : op' = [op EXCEPT ![t] = o]
      BY <2>6 DEF CheckHealth
    <3>2. Task'
      BY <1>1, <3>1 DEF Task
    <3>3. Queues'
      <4> DEFINE c == instances[vmOf[t]]
                 m == [id |-> HealthId, from |-> None]
      <4>1. CASE queue' = queue
        BY <1>1, <4>1 DEF Queues
      <4>2. CASE queue' = [queue EXCEPT ![c] = Append(queue[c], m)]
        <5>1. m \in Cmd
          BY Ids DEF Cmd
        <5>2. c \in Cids => Append(queue[c], m) \in Seq(Cmd)
          BY <1>1, <5>1, AppendProperties DEF Queues
        <5> QED
          BY <1>1, <4>2, <5>2 DEF Queues
      <4> QED
        BY <2>6, <4>1, <4>2 DEF CheckHealth
    <3> QED
      BY <1>1, <3>1, <3>2, <3>3 DEF Answers, Senders, Threads, Runs
  <2>7. CASE DestroyUnhealthy(t)
    <3>1. /\ UNCHANGED <<kind, attempt, held, result, outcome, queue, servedVm, processor, current>>
          /\ op' = [op EXCEPT ![t] = "create"] /\ senders' = DropSenders(instances[vmOf[t]])
      BY <2>7 DEF DestroyUnhealthy
    <3>2. Task' /\ Senders'
      BY <1>1, <1>4, <3>1 DEF Task
    <3> QED
      BY <1>1, <3>1, <3>2 DEF Answers, Queues, Threads, Runs
  <2>8. CASE Recreated(t)
    <3>1. /\ UNCHANGED <<kind, attempt, held, result, outcome, channelVars>>
          /\ op' = [op EXCEPT ![t] = "register"]
      BY <2>8 DEF Recreated
    <3>2. Task'
      BY <1>1, <3>1 DEF Task
    <3> QED
      BY <1>1, <3>1, <3>2 DEF channelVars, Answers, Senders, Queues, Threads, Runs
  <2>9. CASE StartInstance(t)
    <3>1. /\ UNCHANGED <<taskVars, queue, current>> /\ senders' = DropSenders(instances[vmOf[t]])
          /\ servedVm' = [servedVm EXCEPT ![cidOf[t]] = vmOf[t]]
          /\ processor' = [processor EXCEPT ![cidOf[t]] = "ready"]
      BY <2>9 DEF StartInstance
    <3>2. vmOf[t] \in VmIds
      BY <2>9 DEF StartInstance, InsertInstance, CommandsInv, TypeInv, HasVm
    <3>3. Threads'
      BY <1>1, <3>1, <3>2 DEF Threads
    <3>4. Senders'
      BY <1>4, <3>1
    <3> QED
      BY <1>1, <1>5, <3>1, <3>3, <3>4 DEF Queues, Runs
  <2>10. ASSUME NEW v \in VmIds, DestroyVm(t, v) PROVE CommandsTypeOK'
    <3>1. /\ UNCHANGED <<taskVars, queue, servedVm, processor, current>>
          /\ senders' = DropSenders(instances[v])
      BY <2>10 DEF DestroyVm
    <3>2. Senders'
      BY <1>4, <3>1
    <3> QED
      BY <1>1, <1>5, <3>1, <3>2 DEF Queues, Threads, Runs
  <2>11. ASSUME NEW v \in VmIds, NEW k \in Kinds, BeginCommand(t, v, k) PROVE CommandsTypeOK'
    <3>1. /\ UNCHANGED <<attempt, held, result, outcome, channelVars>>
          /\ op' = [op EXCEPT ![t] = "register"] /\ kind' = [kind EXCEPT ![t] = k]
      BY <2>11 DEF BeginCommand
    <3>2. Task'
      BY <1>1, <3>1 DEF Task
    <3> QED
      BY <1>1, <3>1, <3>2 DEF channelVars, Answers, Senders, Queues, Threads, Runs
  <2> QED
    BY <1>7, <2>1, <2>3, <2>4, <2>5, <2>6, <2>7, <2>8, <2>9, <2>10, <2>11 DEF WorkerAction
<1>8. ASSUME NEW c \in Cids, TakeCommand(c) PROVE CommandsTypeOK'
  <2> DEFINE at == instances[servedVm[c]]
             cmd == Head(queue[c])
             found == SendersOf(at, cmd.id)
             to == IF found = {} THEN None ELSE (CHOOSE e \in found : TRUE).to
  <2>1. /\ UNCHANGED <<taskVars, senders, servedVm>>
        /\ processor[c] = "ready" /\ queue[c] # <<>>
    BY <1>8 DEF TakeCommand
  <2>2. at \in {0} \cup Cids
    BY <1>2, <2>1, LookUp
  <2>3. cmd \in Cmd /\ Tail(queue[c]) \in Seq(Cmd) /\ <<>> \in Seq(Cmd)
    BY <1>1, <2>1, HeadTailProperties, EmptySeq DEF Queues
  <2>4. \/ queue' = [queue EXCEPT ![c] = <<>>] \/ queue' = [queue EXCEPT ![c] = Tail(queue[c])]
    BY <1>8 DEF TakeCommand
  <2>5. Queues'
    BY <1>1, <2>3, <2>4 DEF Queues
  <2>6. Threads'
    <3>1. \/ processor' = processor
          \/ \E p \in {"busy", "ended"} : processor' = [processor EXCEPT ![c] = p]
      BY <1>8 DEF TakeCommand
    <3> QED
      BY <1>1, <2>1, <3>1 DEF Threads
  <2>7. Runs'
    <3>1. CASE current' = current
      BY <1>1, <3>1 DEF Runs
    <3>2. CASE at # 0 /\ current' = [current EXCEPT ![c] = [cmd |-> cmd, at |-> at, to |-> to]]
      <4>1. to \in Channel \cup {None}
        <5>1. CASE found = {}
          BY <5>1
        <5>2. CASE found # {}
          <6>1. PICK e \in found : e = CHOOSE x \in found : TRUE
            BY <5>2
          <6>2. e \in Entry /\ to = e.to
            BY <1>1, <2>2, <3>2, <5>2, <6>1 DEF SendersOf, Senders
          <6> QED
            BY <6>2 DEF Entry
        <5> QED
          BY <5>1, <5>2
      <4> HIDE DEF to, at, cmd
      <4>2. [cmd |-> cmd, at |-> at, to |-> to] \in Job
        BY <2>2, <2>3, <3>2, <4>1 DEF Job
      <4> QED
        BY <1>1, <3>2, <4>2 DEF Runs
    <3> QED
      BY <1>8, <3>1, <3>2 DEF TakeCommand
  <2> QED
    BY <1>1, <1>5, <2>1, <2>5, <2>6, <2>7 DEF Senders
<1>9. ASSUME NEW c \in Cids, FinishCommand(c) PROVE CommandsTypeOK'
  <2>1. /\ UNCHANGED <<kind, op, attempt, held, outcome, queue, senders, servedVm>>
        /\ processor' = [processor EXCEPT ![c] = "ready"]
        /\ current' = [current EXCEPT ![c] = None]
        /\ result' = Delivered(c)
    BY <1>9 DEF FinishCommand
  <2>2. Answers'
    <3> DEFINE job == current[c]
    <3>1. CASE result' = result
      BY <1>1, <3>1 DEF Answers
    <3>2. CASE result' # result
      <4>1. /\ job.to # None
            /\ result' = [result EXCEPT ![job.to[1]] = [from |-> job.cmd.from, at |-> job.at]]
        BY <2>1, <3>2 DEF Delivered
      <4>2. job \in Job
        <5>1. current[c] # None
          BY <1>2, <1>9 DEF FinishCommand, CommandsInv, Jobs
        <5>2. current[c] \in Job \cup {None}
          BY <1>1 DEF Runs
        <5> QED
          BY <5>1, <5>2
      <4>3. job.cmd.from \in Channel \cup {None} /\ job.at \in Cids
        BY <4>2 DEF Job, Cmd
      <4>4. [from |-> job.cmd.from, at |-> job.at] \in VmCommandResult
        BY <4>3 DEF VmCommandResult
      <4> HIDE DEF job
      <4> QED
        BY <1>1, <4>1, <4>4 DEF Answers
    <3> QED
      BY <3>1, <3>2
  <2>3. Threads' /\ Runs'
    BY <1>1, <2>1 DEF Threads, Runs
  <2> QED
    BY <1>1, <2>1, <2>2, <2>3 DEF Task, Senders, Queues
<1>10. ASSUME NEW c \in Cids, EndProcessor(c) PROVE CommandsTypeOK'
  <2>1. /\ UNCHANGED <<taskVars, queue, senders, servedVm, current>>
        /\ processor' = [processor EXCEPT ![c] = "ended"]
    BY <1>10 DEF EndProcessor
  <2>2. Threads'
    BY <1>1, <2>1 DEF Threads
  <2> QED
    BY <1>1, <1>5, <2>1, <2>2 DEF Senders, Queues, Runs
<1>11. CASE ClearVms
  <2>1. UNCHANGED <<taskVars, queue, servedVm, processor, current>>
        /\ senders' = [c \in Cids |-> {}]
    BY <1>11 DEF ClearVms
  <2> QED
    BY <1>1, <1>3, <1>5, <2>1 DEF Queues, Threads, Runs
<1>12. CASE ManagerStep
  <2>1. UNCHANGED <<taskVars, channelVars>>
    BY <1>12 DEF ManagerStep
  <2> QED
    BY <1>1, <1>5, <2>1 DEF channelVars, Senders, Queues, Threads, Runs
<1> QED
  BY <1>7, <1>8, <1>9, <1>10, <1>11, <1>12 DEF AnyStep

-----------------------------------------------------------------------------
(* A cid names one VM.                                                       *)

LEMMA ServedStep == CommandsInv /\ AnyStep => Served'
<1> SUFFICES ASSUME CommandsInv, AnyStep PROVE Served'
  OBVIOUS
<1> USE DEF CommandsInv, CommandsTypeOK, TypeInv, TypeOK, Creating
<1>1. Served /\ \A t \in Workers : Place(t)
  BY DEF Places
\* The steps that give no cid to anyone.
<1>2. ASSUME nextCid' = nextCid, servedVm' = servedVm,
             \A c \in Cids : processor[c] = "none" => processor'[c] = "none",
             \A t \in Workers : Creating(t)' => Creating(t) /\ cidOf'[t] = cidOf[t],
             \A v \in VmIds : instances'[v] \in {0, instances[v]},
             \A t \in Workers : held'[t] # 0 =>
                vmOf'[t] = vmOf[t] /\ (held'[t] = held[t] \/ held'[t] = instances[vmOf[t]]),
             \A t \in Workers : held'[t] # 0 => vmOf[t] \in VmIds
      PROVE  Served'
  <2>1. \A c \in Cids : /\ c >= nextCid' => servedVm'[c] = None
                        /\ servedVm'[c] = None => processor'[c] = "none"
    BY <1>1, <1>2 DEF Served
  <2>2. /\ \A t \in Workers : Creating(t)' => servedVm'[cidOf'[t]] = None
        /\ \A t, u \in Workers : Creating(t)' /\ Creating(u)' /\ cidOf'[t] = cidOf'[u] => t = u
    BY <1>1, <1>2 DEF Served
  <2>3. \A v \in VmIds : instances'[v] # 0 => servedVm'[instances'[v]] = v
    BY <1>1, <1>2 DEF Served
  <2>4. \A t \in Workers : held'[t] # 0 => servedVm'[held'[t]] = vmOf'[t]
    <3> TAKE t \in Workers
    <3> HAVE held'[t] # 0
    <3>1. vmOf'[t] = vmOf[t] /\ vmOf[t] \in VmIds
      BY <1>2
    <3>2. CASE held'[t] = held[t]
      BY <1>1, <1>2, <3>1, <3>2 DEF Served
    <3>3. CASE held'[t] = instances[vmOf[t]]
      BY <1>1, <1>2, <3>1, <3>3 DEF Served
    <3> QED
      BY <1>2, <3>2, <3>3
  <2> QED
    BY <2>1, <2>2, <2>3, <2>4 DEF Served
<1>3. ASSUME NEW t \in Workers, TakeCid(t), UNCHANGED <<taskVars, channelVars>>
      PROVE  Served'
  <2>1. /\ nextCid' = nextCid + 1 /\ cidOf' = [cidOf EXCEPT ![t] = nextCid]
        /\ pc' = [pc EXCEPT ![t] = "prepare"]
        /\ UNCHANGED <<instances, vmOf, held, servedVm, processor>>
    BY <1>3 DEF TakeCid, DrawCid, taskVars, channelVars
  <2>2. nextCid \in Cids /\ nextCid \in Nat
    <3>1. CidBound'
      BY <1>3, CidBoundStep
    <3>2. TypeInv'
      BY ManagerStepType
    <3>3. (TypeInv /\ CidBound)' => (FirstCid .. nextCid - 1 \subseteq Cids)'
      BY CidsTop, PTL
    <3>4. nextCid \in FirstCid .. nextCid' - 1
      BY <2>1 DEF FirstCid
    <3> QED
      BY <3>1, <3>2, <3>3, <3>4, ZenonT(40) DEF Cids, FirstCid
  <2>3. \A u \in Workers : Creating(u) => cidOf[u] < nextCid
    BY CidsKnown
  <2>4. \A u \in Workers \ {t} : Creating(u)' => Creating(u) /\ cidOf'[u] = cidOf[u]
    BY <2>1
  <2>5. cidOf'[t] = nextCid /\ servedVm[nextCid] = None
    BY <1>1, <2>1, <2>2 DEF Served
  <2>6. \A c \in Cids : /\ c >= nextCid' => servedVm'[c] = None
                        /\ servedVm'[c] = None => processor'[c] = "none"
    BY <1>1, <2>1, <2>2 DEF Served, Cids, FirstCid
  <2>7. \A u \in Workers : Creating(u)' => servedVm'[cidOf'[u]] = None
    BY <1>1, <2>1, <2>4, <2>5 DEF Served
  <2>8. \A u, w \in Workers : Creating(u)' /\ Creating(w)' /\ cidOf'[u] = cidOf'[w] => u = w
    <3>1. \A u \in Workers \ {t} : Creating(u)' => cidOf'[u] # nextCid
      BY <2>2, <2>3, <2>4
    <3>2. \A u, w \in Workers \ {t} : Creating(u)' /\ Creating(w)' /\ cidOf'[u] = cidOf'[w] => u = w
      BY <1>1, <2>4 DEF Served
    <3> HIDE DEF Creating
    <3> QED
      BY <2>5, <3>1, <3>2
  <2> QED
    BY <1>1, <2>1, <2>6, <2>7, <2>8 DEF Served
<1>4. ASSUME NEW t \in Workers, StartInstance(t) PROVE Served'
  <2> DEFINE v == vmOf[t]
             c == cidOf[t]
  <2>1. v \in VmIds /\ c \in Cids /\ c # 0 /\ c < nextCid /\ Creating(t) /\ v # None
    BY <1>4, CidsKnown, NoVmAssumption DEF StartInstance, InsertInstance, HasVm
  <2>2. /\ instances' = [instances EXCEPT ![v] = c] /\ pc' = [pc EXCEPT ![t] = "created"]
        /\ servedVm' = [servedVm EXCEPT ![c] = v]
        /\ processor' = [processor EXCEPT ![c] = "ready"]
        /\ UNCHANGED <<nextCid, cidOf, vmOf, held>>
    BY <1>4 DEF StartInstance, InsertInstance, taskVars
  <2>3. servedVm[c] = None
    BY <1>1, <2>1 DEF Served
  <2>4. servedVm'[c] = v /\ \A d \in Cids \ {c} : servedVm'[d] = servedVm[d]
    BY <2>1, <2>2
  <2>5. \A d \in Cids : /\ d >= nextCid' => servedVm'[d] = None
                        /\ servedVm'[d] = None => processor'[d] = "none"
    <3> TAKE d \in Cids
    <3>1. d = c => ~(d >= nextCid')
      BY <2>1, <2>2 DEF Cids, FirstCid
    <3> QED
      BY <1>1, <2>1, <2>2, <2>4, <3>1 DEF Served
  <2>6. \A u \in Workers : Creating(u)' => Creating(u) /\ u # t /\ cidOf'[u] = cidOf[u]
    BY <2>2
  <2>7. \A u \in Workers : Creating(u)' => servedVm'[cidOf'[u]] = None
    <3> TAKE u \in Workers
    <3> HAVE Creating(u)'
    <3>1. cidOf[u] \in Cids \ {c}
      BY <1>1, <2>1, <2>6, CidsKnown DEF Served
    <3> QED
      BY <1>1, <2>4, <2>6, <3>1 DEF Served
  <2>8. \A u, w \in Workers : Creating(u)' /\ Creating(w)' /\ cidOf'[u] = cidOf'[w] => u = w
    BY <1>1, <2>6 DEF Served
  <2>9. \A w \in VmIds : instances'[w] # 0 => servedVm'[instances'[w]] = w
    <3> TAKE w \in VmIds
    <3>1. CASE w = v
      BY <2>1, <2>2, <2>4, <3>1
    <3>2. CASE w # v
      <4>1. instances'[w] = instances[w]
        BY <2>2, <3>2
      <4>2. instances[w] # 0 => instances[w] \in Cids /\ servedVm[instances[w]] = w
        BY <1>1, CidsKnown DEF Served
      <4>3. instances[w] # 0 => instances[w] # c
        BY <2>3, <4>2, NoVmAssumption
      <4> QED
        BY <2>4, <4>1, <4>2, <4>3
    <3> QED
      BY <3>1, <3>2
  <2>10. \A u \in Workers : held'[u] # 0 => servedVm'[held'[u]] = vmOf'[u]
    <3> TAKE u \in Workers
    <3> HAVE held'[u] # 0
    <3>1. held[u] # 0 /\ held[u] \in Cids /\ servedVm[held[u]] = vmOf[u]
      BY <1>1, <2>2 DEF Served
    <3>2. vmOf[u] \in VmIds
      BY <1>1, <3>1 DEF Place
    <3>3. held[u] # c
      BY <2>3, <3>1, <3>2, NoVmAssumption
    <3> QED
      BY <2>2, <2>4, <3>1, <3>3
  <2> QED
    BY <2>5, <2>7, <2>8, <2>9, <2>10 DEF Served
<1>5. \A t \in Workers : held[t] # 0 => vmOf[t] \in VmIds /\ op[t] \notin {"idle", "register"}
  BY <1>1 DEF Place
<1>6. ASSUME NEW t \in Workers, WorkerAction(t) PROVE Served'
  <2>1. CASE Register(t)
    <3>1. UNCHANGED <<nextCid, servedVm, processor, pc, cidOf, instances, vmOf>>
      BY <2>1 DEF Register, managerVars
    <3>2. held' = held \/ held' = [held EXCEPT ![t] = instances[vmOf[t]]]
      BY <2>1 DEF Register
    <3>3. vmOf[t] \in VmIds
      BY <1>1, <2>1 DEF Register, Place
    <3> QED
      BY <1>2, <1>5, <3>1, <3>2, <3>3
  <2>2. CASE SendCommand(t) \/ Answered(t) \/ Disconnected(t) \/ CheckHealth(t)
    <3>1. UNCHANGED <<nextCid, servedVm, processor, pc, cidOf, instances, vmOf>>
      BY <2>2 DEF SendCommand, Answered, ReturnWith, Disconnected, CheckHealth, managerVars,
                  channelVars
    <3>2. held' = held \/ held' = [held EXCEPT ![t] = 0]
      BY <2>2 DEF SendCommand, Answered, ReturnWith, Disconnected, CheckHealth, RetryOr
    <3> QED
      BY <1>2, <1>5, <3>1, <3>2
  <2>3. CASE DestroyUnhealthy(t)
    <3>1. /\ UNCHANGED <<nextCid, servedVm, processor, cidOf, vmOf, held>>
          /\ pc' = [pc EXCEPT ![t] = "takeCid"]
          /\ instances' = instances \/ instances' = [instances EXCEPT ![vmOf[t]] = 0]
      BY <2>3 DEF DestroyUnhealthy, DestroyInstance
    <3> QED
      BY <1>2, <1>5, <3>1
  <2>4. CASE Recreated(t)
    <3>1. /\ UNCHANGED <<nextCid, servedVm, processor, cidOf, vmOf, held, instances>>
          /\ pc' = [pc EXCEPT ![t] = "idle"]
      BY <2>4 DEF Recreated, channelVars
    <3> QED
      BY <1>2, <1>5, <3>1
  <2>5. ASSUME NEW v \in VmIds, DestroyVm(t, v) PROVE Served'
    <3>1. /\ UNCHANGED <<nextCid, servedVm, processor, cidOf, held>> /\ op[t] = "idle"
          /\ vmOf' = [vmOf EXCEPT ![t] = v]
          /\ \E p \in {"destroyed", "destroyFailed"} : pc' = [pc EXCEPT ![t] = p]
          /\ instances' = instances \/ instances' = [instances EXCEPT ![v] = 0]
      BY <2>5 DEF DestroyVm, Destroy, DestroyInstance, taskVars
    <3> QED
      BY <1>2, <1>5, <3>1
  <2>6. ASSUME NEW v \in VmIds, NEW k \in Kinds, BeginCommand(t, v, k) PROVE Served'
    <3>1. /\ UNCHANGED <<nextCid, servedVm, processor, cidOf, held, instances, pc>>
          /\ op[t] = "idle" /\ vmOf' = [vmOf EXCEPT ![t] = v]
      BY <2>6 DEF BeginCommand, channelVars
    <3> QED
      BY <1>2, <1>5, <3>1
  <2> QED
    BY <1>4, <1>6, <2>1, <2>2, <2>3, <2>4, <2>5, <2>6 DEF WorkerAction
<1>7. ASSUME NEW c \in Cids, TakeCommand(c) \/ FinishCommand(c) \/ EndProcessor(c)
      PROVE  Served'
  <2>1. /\ UNCHANGED <<nextCid, servedVm, pc, cidOf, instances, vmOf, held>>
        /\ processor[c] # "none"
        /\ processor' = processor
             \/ \E p \in {"ready", "busy", "ended"} : processor' = [processor EXCEPT ![c] = p]
    BY <1>7 DEF TakeCommand, FinishCommand, EndProcessor, managerVars, taskVars
  <2> QED
    BY <1>2, <1>5, <2>1
<1>8. CASE ClearVms
  <2>1. /\ UNCHANGED <<nextCid, servedVm, processor, pc, cidOf, vmOf, held>>
        /\ instances' = [v \in VmIds |-> 0]
    BY <1>8 DEF ClearVms, ClearInstances, workerVars, taskVars
  <2> QED
    BY <1>2, <1>5, <2>1
<1>9. CASE ManagerStep
  <2>1. UNCHANGED <<held, op, servedVm, processor>>
    BY <1>9 DEF ManagerStep, taskVars, channelVars
  <2>2. ASSUME NEW t \in Workers, Prepare(t) \/ FailCreate(t) \/ Spawn(t) PROVE Served'
    <3>1. /\ UNCHANGED <<nextCid, cidOf, instances, vmOf>> /\ pc[t] \in {"prepare", "spawn"}
          /\ \E p \in {"spawn", "createFailed", "booting"} : pc' = [pc EXCEPT ![t] = p]
      BY <2>2 DEF Prepare, FailCreate, Spawn
    <3> QED
      BY <1>2, <1>5, <2>1, <3>1
  <2>3. ASSUME NEW t \in Workers, NEW v \in VmIds, op[t] = "idle", BeginCreate(t, v)
        PROVE  Served'
    <3>1. /\ UNCHANGED <<nextCid, cidOf, instances>> /\ vmOf' = [vmOf EXCEPT ![t] = v]
          /\ pc' = [pc EXCEPT ![t] = "takeCid"]
      BY <2>3 DEF BeginCreate
    <3> QED
      BY <1>2, <1>5, <2>1, <2>3, <3>1
  <2>4. CASE UNCHANGED <<nextCid, instances, pc, vmOf, cidOf>>
    BY <1>2, <1>5, <2>1, <2>4
  <2> QED
    BY <1>3, <1>9, <2>1, <2>2, <2>3, <2>4 DEF ManagerStep
<1> QED
  BY <1>6, <1>7, <1>8, <1>9 DEF AnyStep

-----------------------------------------------------------------------------
(* The channels of results.                                                  *)

\* A channel that was made keeps its id, is not made again, and is not listened
\* to again once its worker has turned away.
Stable(ch) ==
  /\ Made(ch)' /\ IdOfChannel(ch)' = IdOfChannel(ch)
  /\ Listening(ch)' => Listening(ch) /\ held'[ch[1]] = held[ch[1]]
  /\ op'[ch[1]] = "send" /\ ch[2] = attempt'[ch[1]]
       => op[ch[1]] = "send" /\ ch[2] = attempt[ch[1]]

LEMMA ChannelsStep ==
  CommandsInv /\ AnyStep => \A ch \in Channel : Made(ch) => Stable(ch)
<1> SUFFICES ASSUME CommandsInv, AnyStep, NEW t \in Workers, NEW n \in 1 .. MaxRetries + 1,
                    n <= attempt[t]
             PROVE  Stable(<<t, n>>)
  <2>1. \A ch \in Channel : Made(ch) =>
          /\ ch[1] \in Workers /\ ch[2] \in 1 .. MaxRetries + 1
          /\ ch[2] <= attempt[ch[1]] /\ ch = <<ch[1], ch[2]>>
    BY DEF Channel, Made
  <2> QED
    BY <2>1
<1> USE DEF Listening, Made, IdOfChannel, IdOf
<1> DEFINE Goal == /\ n <= attempt'[t] /\ kind'[t] = kind[t]
                   /\ op'[t] \in {"send", "wait"} /\ attempt'[t] = n
                        => /\ op[t] \in {"send", "wait"} /\ attempt[t] = n
                           /\ held'[t] = held[t]
                   /\ op'[t] = "send" /\ n = attempt'[t] => op[t] = "send" /\ n = attempt[t]
<1>1. Goal => Stable(<<t, n>>)
  BY DEF Stable
<1>2. Place(t) /\ op[t] # "idle" /\ attempt[t] \in Nat
  BY DEF CommandsInv, Places, Place, CommandsTypeOK
<1>3. ASSUME UNCHANGED <<op[t], attempt[t], kind[t], held[t]>> PROVE Goal
  BY <1>2, <1>3
<1> USE DEF CommandsInv, CommandsTypeOK
<1>4. ASSUME NEW u \in Workers, WorkerAction(u) PROVE Goal
  <2>1. CASE Register(u)
    <3>1. /\ kind' = kind
          /\ \/ op' = [op EXCEPT ![u] = "done"] /\ UNCHANGED <<attempt, held>>
             \/ /\ op' = [op EXCEPT ![u] = "send"]
                /\ attempt' = [attempt EXCEPT ![u] = attempt[u] + 1]
                /\ held' = [held EXCEPT ![u] = instances[vmOf[u]]]
      BY <2>1 DEF Register, Finished
    <3>2. CASE u # t
      BY <1>3, <3>1, <3>2
    <3>3. CASE u = t
      <4>1. \/ op'[t] = "done" /\ attempt'[t] = attempt[t]
            \/ op'[t] = "send" /\ attempt'[t] = attempt[t] + 1
        BY <3>1, <3>3
      <4> QED
        BY <1>2, <3>1, <4>1
    <3> QED
      BY <3>2, <3>3
  <2>2. CASE SendCommand(u)
    <3>1. /\ op[u] = "send" /\ kind' = kind /\ attempt' = attempt
          /\ \/ op' = [op EXCEPT ![u] = "wait"] /\ held' = held
             \/ /\ \E o \in {"health", "done"} : op' = [op EXCEPT ![u] = o]
                /\ held' = [held EXCEPT ![u] = 0]
      BY <2>2 DEF SendCommand, RetryOr, Finished
    <3> QED
      BY <1>2, <3>1
  <2>3. CASE Answered(u) \/ Disconnected(u)
    <3>1. /\ kind' = kind /\ attempt' = attempt
          /\ \E o \in {"health", "done"} : op' = [op EXCEPT ![u] = o]
          /\ held' = [held EXCEPT ![u] = 0]
      BY <2>3 DEF Answered, ReturnWith, Disconnected, RetryOr, Finished
    <3> QED
      BY <1>2, <3>1
  <2>4. CASE CheckHealth(u) \/ DestroyUnhealthy(u) \/ Recreated(u)
    <3>1. /\ kind' = kind /\ attempt' = attempt
          /\ \E o \in {"register", "destroy", "create"} : op' = [op EXCEPT ![u] = o]
          /\ held' = held
      BY <2>4 DEF CheckHealth, DestroyUnhealthy, Recreated
    <3> QED
      BY <1>2, <3>1
  <2>5. CASE StartInstance(u) \/ \E v \in VmIds : DestroyVm(u, v)
    BY <1>3, <2>5 DEF StartInstance, DestroyVm, taskVars
  <2>6. ASSUME NEW v \in VmIds, NEW k \in Kinds, BeginCommand(u, v, k) PROVE Goal
    <3>1. /\ op[u] = "idle" /\ UNCHANGED <<attempt, held>>
          /\ op' = [op EXCEPT ![u] = "register"] /\ kind' = [kind EXCEPT ![u] = k]
      BY <2>6 DEF BeginCommand
    <3> QED
      BY <1>2, <1>3, <3>1
  <2> QED
    BY <1>4, <2>1, <2>2, <2>3, <2>4, <2>5, <2>6 DEF WorkerAction
<1>5. ASSUME \/ ClearVms \/ ManagerStep
             \/ \E c \in Cids : TakeCommand(c) \/ FinishCommand(c) \/ EndProcessor(c)
      PROVE  Goal
  BY <1>3, <1>5 DEF ClearVms, ManagerStep, TakeCommand, FinishCommand, EndProcessor, taskVars
<1> QED
  BY <1>1, <1>4, <1>5 DEF AnyStep

\* Every sender, command and job names channels of workers.
LEMMA Typed ==
  ASSUME CommandsTypeOK
  PROVE  /\ \A c \in Cids : \A e \in senders[c] : e \in Entry /\ e.to \in Channel
         /\ \A c \in Cids : \A i \in DOMAIN queue[c] : queue[c][i] \in Cmd
         /\ \A c \in Cids : current[c] # None =>
              current[c] \in Job /\ current[c].cmd \in Cmd /\ current[c].to \in Channel \cup {None}
<1>1. \A c \in Cids : senders[c] \subseteq Entry
  BY DEF CommandsTypeOK
<1>2. \A c \in Cids : queue[c] \in Seq(Cmd)
  BY DEF CommandsTypeOK
<1>3. \A c \in Cids : current[c] # None => current[c] \in Job
  BY DEF CommandsTypeOK
<1>4. \A c \in Cids : \A i \in DOMAIN queue[c] : queue[c][i] \in Cmd
  <2> TAKE c \in Cids
  <2> QED
    BY <1>2
<1> QED
  BY <1>1, <1>3, <1>4 DEF Entry, Job

LEMMA EntriesStep == CommandsInv /\ AnyStep => Entries'
<1> SUFFICES ASSUME CommandsInv, AnyStep PROVE Entries'
  OBVIOUS
<1> DEFINE Kept == \A c \in Cids :
                     /\ senders'[c] \subseteq senders[c]
                     /\ senders'[c] # {} => \E v \in VmIds : instances'[v] = c
<1>1. Entries /\ Places /\ CommandsTypeOK /\ TypeInv
  BY DEF CommandsInv
<1>2. \A c \in Cids : \A e \in senders[c] : EntryAt(c, e)' 
  <2> SUFFICES ASSUME NEW c \in Cids, NEW e \in senders[c]
               PROVE  /\ Made(e.to)' /\ e.id = IdOfChannel(e.to)'
                      /\ Listening(e.to)' => c = held'[e.to[1]]
    BY DEF EntryAt
  <2>1. EntryAt(c, e) /\ e.to \in Channel
    BY <1>1, Typed DEF Entries
  <2>2. Stable(e.to)
    BY <2>1, ChannelsStep DEF EntryAt
  <2> QED
    BY <2>1, <2>2 DEF EntryAt, Stable
<1>3. ASSUME Kept PROVE Entries'
  BY <1>1, <1>2, <1>3 DEF Entries
<1> HIDE DEF Kept
<1>4. ASSUME UNCHANGED <<senders, instances>> PROVE Kept
  BY <1>1, <1>4 DEF Kept, Entries
<1>5. ASSUME NEW v \in VmIds, NEW x, senders' = DropSenders(instances[v]),
             \/ instances' = [instances EXCEPT ![v] = x]
             \/ instances' = instances
      PROVE  Kept
  <2>1. 0 \notin Cids
    BY CidsKnown DEF CommandsInv
  <2>2. \A c \in Cids : /\ senders'[c] \subseteq senders[c]
                        /\ senders'[c] # {} => c # instances[v] /\ senders[c] # {}
    BY <1>1, <1>5, <2>1 DEF DropSenders, CommandsTypeOK
  <2>3. \A w \in VmIds : w # v => instances'[w] = instances[w]
    BY <1>1, <1>5 DEF TypeInv, TypeOK
  <2> QED
    BY <1>1, <2>2, <2>3 DEF Kept, Entries
<1>6. ASSUME NEW t \in Workers, Register(t) PROVE Entries'
  <2>1. instances' = instances /\ kind' = kind /\ vmOf[t] \in VmIds
    BY <1>1, <1>6 DEF Register, managerVars, Places, Place
  <2>2. CASE instances[vmOf[t]] = 0
    BY <1>3, <1>4, <1>6, <2>1, <2>2 DEF Register
  <2>3. CASE instances[vmOf[t]] # 0
    <3>1. PICK d \in Cids : d = instances[vmOf[t]]
      BY <2>1, <2>3, CidsKnown DEF CommandsInv
    <3>2. PICK m \in Nat : m = attempt[t] + 1
      BY <1>1 DEF CommandsTypeOK
    <3>3. PICK id : id = IdOf(t, m)
      OBVIOUS
    <3> DEFINE new == [id |-> id, to |-> <<t, m>>]
    <3>4. /\ attempt' = [attempt EXCEPT ![t] = m]
          /\ held' = [held EXCEPT ![t] = d]
          /\ senders' = [senders EXCEPT ![d] = {e \in senders[d] : e.id # id} \cup {new}]
      BY <1>6, <2>3, <3>1, <3>2, <3>3 DEF Register
    <3>5. senders'[d] = {e \in senders[d] : e.id # id} \cup {new}
          /\ \A c \in Cids \ {d} : senders'[c] = senders[c]
      BY <1>1, <3>4 DEF CommandsTypeOK
    <3>6. EntryAt(d, new)'
      <4>1. attempt'[t] = m /\ held'[t] = d
        BY <1>1, <3>4 DEF CommandsTypeOK
      <4>2. id = IdOf(t, m)'
        BY <2>1, <3>3 DEF IdOf
      <4>3. new.to[1] = t /\ new.to[2] = m /\ new.id = id
        OBVIOUS
      <4> QED
        BY <3>2, <4>1, <4>2, <4>3 DEF EntryAt, Made, IdOfChannel
    <3>7. \A c \in Cids : \A e \in senders'[c] : e \in senders[c] \/ (c = d /\ e = new)
      BY <3>5
    <3>8. \A c \in Cids : \A e \in senders'[c] : EntryAt(c, e)'
      BY <1>2, <3>6, <3>7
    <3>9. \A c \in Cids : senders'[c] # {} => \E v \in VmIds : instances'[v] = c
      BY <1>1, <2>1, <3>1, <3>5 DEF Entries
    <3>10. \A c \in Cids : \A e, f \in senders'[c] : e.id = f.id => e = f
      <4> SUFFICES ASSUME NEW c \in Cids, NEW e \in senders'[c], NEW f \in senders'[c],
                          e.id = f.id
                   PROVE  e = f
        OBVIOUS
      <4>1. CASE c # d
        BY <1>1, <3>5, <4>1 DEF Entries
      <4>2. CASE c = d
        <5>1. new.id = id
          OBVIOUS
        <5> HIDE DEF new
        <5> QED
          BY <1>1, <3>5, <4>2, <5>1 DEF Entries
      <4> QED
        BY <4>1, <4>2
    <3> QED
      BY <3>8, <3>9, <3>10 DEF Entries
  <2> QED
    BY <2>2, <2>3
<1>7. ASSUME NEW t \in Workers, WorkerAction(t) PROVE Entries'
  <2>1. CASE SendCommand(t) \/ Disconnected(t) \/ CheckHealth(t) \/ Recreated(t)
    BY <1>3, <1>4, <2>1 DEF SendCommand, Disconnected, CheckHealth, Recreated, managerVars,
         channelVars
  <2>2. CASE Answered(t)
    <3>1. instances' = instances /\ senders' = WithoutEntry(t)
      BY <2>2 DEF Answered, ReturnWith, managerVars
    <3>2. \A c \in Cids : senders'[c] \subseteq senders[c]
      BY <1>1, <3>1 DEF WithoutEntry, CommandsTypeOK
    <3>3. Kept
      BY <1>1, <3>1, <3>2 DEF Kept, Entries
    <3> QED
      BY <1>3, <3>3
  <2>3. CASE DestroyUnhealthy(t)
    <3>1. vmOf[t] \in VmIds
      BY <1>1, <2>3 DEF DestroyUnhealthy, Places, Place
    <3> QED
      BY <1>3, <1>5, <2>3, <3>1 DEF DestroyUnhealthy, DestroyInstance
  <2>4. CASE StartInstance(t)
    <3>1. vmOf[t] \in VmIds
      BY <1>1, <2>4 DEF StartInstance, InsertInstance, TypeInv, HasVm
    <3> QED
      BY <1>3, <1>5, <2>4, <3>1 DEF StartInstance, InsertInstance
  <2>5. ASSUME NEW v \in VmIds, DestroyVm(t, v) PROVE Entries'
    BY <1>3, <1>5, <2>5 DEF DestroyVm, Destroy, DestroyInstance
  <2>6. ASSUME NEW v \in VmIds, NEW k \in Kinds, BeginCommand(t, v, k) PROVE Entries'
    BY <1>3, <1>4, <2>6 DEF BeginCommand, channelVars
  <2> QED
    BY <1>6, <1>7, <2>1, <2>2, <2>3, <2>4, <2>5, <2>6 DEF WorkerAction
<1>8. CASE ClearVms
  <2>1. \A c \in Cids : senders'[c] = {}
    BY <1>8 DEF ClearVms
  <2>2. Kept
    BY <2>1 DEF Kept
  <2> QED
    BY <1>3, <2>2
<1>9. ASSUME NEW c \in Cids, TakeCommand(c) \/ FinishCommand(c) \/ EndProcessor(c)
      PROVE  Entries'
  BY <1>3, <1>4, <1>9 DEF TakeCommand, FinishCommand, EndProcessor, managerVars
<1>10. CASE ManagerStep
  <2>1. senders' = senders
    BY <1>10 DEF ManagerStep, channelVars
  <2>2. instances' = instances
    BY <1>10 DEF ManagerStep, BeginCreate, TakeCid, Prepare, FailCreate, Spawn
  <2> QED
    BY <1>3, <1>4, <2>1, <2>2
<1> QED
  BY <1>7, <1>8, <1>9, <1>10 DEF AnyStep

-----------------------------------------------------------------------------
(* Commands and jobs.                                                        *)

LEMMA SentStep ==
  CommandsInv /\ AnyStep => \A m \in Cmd : Sent(m) => Sent(m)'
<1> SUFFICES ASSUME CommandsInv, AnyStep, NEW m \in Cmd, Sent(m) PROVE Sent(m)'
  OBVIOUS
<1>1. CASE m = [id |-> HealthId, from |-> None]
  BY <1>1 DEF Sent, HealthId
<1>2. CASE m # [id |-> HealthId, from |-> None]
  <2>1. Stable(m.from)
    BY <1>2, ChannelsStep DEF Sent
  <2> QED
    BY <1>2, <2>1 DEF Sent, Stable
<1> QED
  BY <1>1, <1>2

LEMMA QueuedStep == CommandsInv /\ AnyStep => Queued'
<1> SUFFICES ASSUME CommandsInv, AnyStep,
                    NEW c \in Cids, NEW i \in DOMAIN queue'[c], NEW m, m = queue'[c][i]
             PROVE  Sent(m)'
  BY DEF Queued, Sent, Made, IdOfChannel, IdOf
<1>1. CommandsTypeOK /\ Places
  BY DEF CommandsInv
<1>2. queue[c] \in Seq(Cmd)
  BY <1>1 DEF CommandsTypeOK
<1>3. ASSUME NEW j \in DOMAIN queue[c], m = queue[c][j] PROVE Sent(m)'
  <2>1. m \in Cmd /\ Sent(m)
    BY <1>1, <1>3, Typed DEF CommandsInv, Queued
  <2> QED
    BY <2>1, SentStep
<1>4. ASSUME NEW d, NEW n \in Cmd, queue' = [queue EXCEPT ![d] = Append(queue[d], n)], Sent(n)'
      PROVE  Sent(m)'
  <2>1. CASE c # d
    BY <1>1, <1>3, <1>4, <2>1 DEF CommandsTypeOK
  <2>2. CASE c = d
    <3>1. queue'[c] = Append(queue[c], n)
      BY <1>1, <1>4, <2>2 DEF CommandsTypeOK
    <3>2. (i \in DOMAIN queue[c] /\ m = queue[c][i]) \/ m = n
      BY <1>2, <3>1, AppendProperties
    <3> QED
      BY <1>3, <1>4, <3>2
  <2> QED
    BY <2>1, <2>2
<1>5. ASSUME NEW t \in Workers, WorkerAction(t) PROVE Sent(m)'
  <2>1. CASE SendCommand(t)
    <3>1. CASE queue' = queue
      BY <1>3, <3>1
    <3>2. CASE queue' # queue
      <4>1. PICK x : x = [id |-> CommandId(t), from |-> Mine(t)]
        OBVIOUS
      <4>2. /\ queue' = [queue EXCEPT ![held[t]] = Append(queue[held[t]], x)]
            /\ UNCHANGED <<kind, attempt>> /\ op[t] = "send"
            /\ \E o \in {"done", "wait"} : op' = [op EXCEPT ![t] = o]
        BY <2>1, <3>2, <4>1 DEF SendCommand, Finished
      <4>3. PICK n \in 1 .. MaxRetries + 1 : n = attempt[t]
        BY <1>1, <4>2 DEF Places, Place, CommandsTypeOK
      <4>4. /\ x.from = <<t, n>> /\ x.id = IdOf(t, n) /\ x.from \in Channel
            /\ x.from[1] = t /\ x.from[2] = n
        BY <4>1, <4>3 DEF CommandId, Mine, Channel
      <4>5. x \in Cmd
        BY <4>1, <4>4, Ids DEF Cmd
      <4>6. attempt'[t] = n /\ op'[t] # "send" /\ IdOf(t, n)' = IdOf(t, n)
        BY <1>1, <4>2, <4>3 DEF CommandsTypeOK, IdOf
      <4>7. Sent(x)'
        BY <4>4, <4>6 DEF Sent, Made, IdOfChannel
      <4> QED
        BY <1>4, <4>2, <4>5, <4>7
    <3> QED
      BY <3>1, <3>2
  <2>2. CASE CheckHealth(t)
    <3>1. PICK x : x = [id |-> HealthId, from |-> None]
      OBVIOUS
    <3>2. queue' = queue \/ \E d : queue' = [queue EXCEPT ![d] = Append(queue[d], x)]
      BY <2>2, <3>1 DEF CheckHealth
    <3>3. x \in Cmd /\ Sent(x)'
      BY <3>1, Ids DEF Cmd, Sent, HealthId
    <3> QED
      BY <1>3, <1>4, <3>2, <3>3
  <2>3. CASE Register(t) \/ Answered(t) \/ Disconnected(t) \/ DestroyUnhealthy(t)
             \/ Recreated(t) \/ StartInstance(t)
    BY <1>3, <2>3 DEF Register, Answered, ReturnWith, Disconnected, DestroyUnhealthy,
         Recreated, StartInstance, channelVars
  <2>4. ASSUME \/ \E v \in VmIds : DestroyVm(t, v)
               \/ \E v \in VmIds, k \in Kinds : BeginCommand(t, v, k)
        PROVE  Sent(m)'
    BY <1>3, <2>4 DEF DestroyVm, BeginCommand, channelVars
  <2> QED
    BY <1>5, <2>1, <2>2, <2>3, <2>4 DEF WorkerAction
<1>6. ASSUME NEW d \in Cids, TakeCommand(d) PROVE Sent(m)'
  <2>1. /\ queue[d] # <<>>
        /\ \/ queue' = [queue EXCEPT ![d] = <<>>]
           \/ queue' = [queue EXCEPT ![d] = Tail(queue[d])]
    BY <1>6 DEF TakeCommand
  <2>2. CASE c # d
    BY <1>1, <1>3, <2>1, <2>2 DEF CommandsTypeOK
  <2>3. CASE c = d
    <3>1. queue'[c] = <<>> \/ queue'[c] = Tail(queue[c])
      BY <1>1, <2>1, <2>3 DEF CommandsTypeOK
    <3>2. queue'[c] = Tail(queue[c])
      BY <3>1
    <3>3. i + 1 \in DOMAIN queue[c] /\ m = queue[c][i + 1]
      BY <1>2, <2>1, <2>3, <3>2
    <3> QED
      BY <1>3, <3>3
  <2> QED
    BY <2>2, <2>3
<1>7. ASSUME \/ ClearVms \/ ManagerStep
             \/ \E b \in Cids : FinishCommand(b) \/ EndProcessor(b)
      PROVE  Sent(m)'
  BY <1>3, <1>7 DEF ClearVms, ManagerStep, FinishCommand, EndProcessor, channelVars
<1> QED
  BY <1>5, <1>6, <1>7 DEF AnyStep

\* The sender found for a command belongs to the instance that was found.
LEMMA SenderFound ==
  ASSUME CommandsInv, NEW at \in {0} \cup Cids, at # 0, NEW id,
         SendersOf(at, id) # {}
  PROVE  LET e == CHOOSE x \in SendersOf(at, id) : TRUE
         IN  e \in senders[at] /\ e.id = id /\ e.to \in Channel /\ EntryAt(at, e)
<1>1. PICK e \in SendersOf(at, id) : e = CHOOSE x \in SendersOf(at, id) : TRUE
  OBVIOUS
<1>2. e \in senders[at] /\ e.id = id
  BY <1>1 DEF SendersOf
<1>3. e.to \in Channel /\ EntryAt(at, e)
  BY <1>2, Typed DEF CommandsInv, Entries
<1> QED
  BY <1>1, <1>2, <1>3

LEMMA JobsStep == CommandsInv /\ AnyStep => Jobs'
<1> SUFFICES ASSUME CommandsInv, AnyStep,
                    NEW c \in Cids, NEW j, j = current'[c]
             PROVE  (processor'[c] = "busy" <=> j # None) /\ (j # None => Running(j)')
  BY DEF Jobs, Running, Sent, Made, IdOfChannel, IdOf, Listening
<1> DEFINE Goal == (processor'[c] = "busy" <=> j # None) /\ (j # None => Running(j)')
<1>1. CommandsTypeOK /\ Places /\ Jobs
  BY DEF CommandsInv
<1>2. ASSUME j # None, j = current[c] PROVE Running(j)'
  <2>1. j \in Job /\ j.cmd \in Cmd /\ j.to \in Channel \cup {None} /\ Running(j)
    BY <1>1, <1>2, Typed DEF Jobs
  <2>2. Sent(j.cmd)'
    BY <2>1, SentStep DEF Running
  <2>3. CASE j.to = None
    BY <2>2, <2>3 DEF Running
  <2>4. CASE j.to # None
    <3>1. Stable(j.to)
      BY <2>1, <2>4, ChannelsStep DEF Running
    <3> QED
      BY <2>1, <2>2, <2>4, <3>1 DEF Running, Stable
  <2> QED
    BY <2>3, <2>4
<1>3. ASSUME current' = current, processor'[c] = "busy" <=> processor[c] = "busy" PROVE Goal
  BY <1>1, <1>2, <1>3 DEF Jobs
<1> HIDE DEF Goal
<1>4. ASSUME NEW t \in Workers, WorkerAction(t) PROVE Goal
  <2>1. CASE StartInstance(t)
    <3>1. /\ current' = current /\ processor' = [processor EXCEPT ![cidOf[t]] = "ready"]
          /\ Creating(t)
      BY <2>1 DEF StartInstance, InsertInstance, Creating
    <3>2. cidOf[t] \in Cids /\ processor[cidOf[t]] = "none"
      BY <3>1, CidsKnown DEF CommandsInv, Served
    <3> QED
      BY <1>1, <1>3, <3>1, <3>2 DEF CommandsTypeOK
  <2>2. ASSUME \/ Register(t) \/ SendCommand(t) \/ Answered(t) \/ Disconnected(t)
               \/ CheckHealth(t) \/ DestroyUnhealthy(t) \/ Recreated(t)
               \/ \E v \in VmIds : DestroyVm(t, v)
               \/ \E v \in VmIds, k \in Kinds : BeginCommand(t, v, k)
        PROVE  UNCHANGED <<current, processor>>
    BY <2>2 DEF Register, SendCommand, Answered, ReturnWith, Disconnected, CheckHealth,
         DestroyUnhealthy, Recreated, DestroyVm, BeginCommand, channelVars
  <2> QED
    BY <1>3, <1>4, <2>1, <2>2 DEF WorkerAction
<1>5. ASSUME NEW d \in Cids, TakeCommand(d) PROVE Goal
  <2> DEFINE at == instances[servedVm[d]]
             cmd == Head(queue[d])
             found == SendersOf(at, cmd.id)
             to == IF found = {} THEN None ELSE (CHOOSE e \in found : TRUE).to
  <2>1. processor[d] = "ready" /\ queue[d] # <<>>
    BY <1>5 DEF TakeCommand
  <2>2. CASE current' = current /\ (processor' = processor
                                    \/ processor' = [processor EXCEPT ![d] = "ended"])
    BY <1>1, <1>3, <2>1, <2>2 DEF CommandsTypeOK
  <2>3. CASE /\ at # 0 /\ processor' = [processor EXCEPT ![d] = "busy"]
             /\ current' = [current EXCEPT ![d] = [cmd |-> cmd, at |-> at, to |-> to]]
    <3>1. CASE c # d
      <4>1. j = current[c] /\ processor'[c] = processor[c]
        BY <1>1, <2>3, <3>1 DEF CommandsTypeOK
      <4> QED
        BY <1>1, <1>2, <4>1 DEF Jobs, Goal
    <3>2. CASE c = d
      <4>1. processor'[c] = "busy" /\ j = [cmd |-> cmd, at |-> at, to |-> to]
        BY <1>1, <2>3, <3>2 DEF CommandsTypeOK
      <4>2. at \in Cids
        BY <2>1, <2>3, LookUp
      <4>3. 1 \in DOMAIN queue[d] /\ cmd = queue[d][1]
        BY <1>1, <2>1 DEF CommandsTypeOK
      <4>4. cmd \in Cmd /\ Sent(cmd)
        BY <1>1, <4>3, Typed DEF CommandsInv, Queued
      <4>5. j.cmd = cmd /\ j.at = at /\ j.to = to
        BY <4>1
      <4> HIDE DEF cmd, at
      <4>6. \A m : m = cmd => Sent(m)'
        BY <4>4, SentStep
      <4>7. Sent(j.cmd)'
        BY <4>5, <4>6
      <4>8. CASE found = {}
        <5>1. to = None
          BY <4>8
        <5> HIDE DEF to
        <5>2. j \in Job
          BY <4>1, <4>2, <4>4, <5>1 DEF Job
        <5> QED
          BY <4>1, <4>5, <4>7, <5>1, <5>2, NoneAssumption DEF Goal, Running
      <4>9. CASE found # {}
        <5>1. PICK e : e = CHOOSE x \in found : TRUE
          OBVIOUS
        <5>2. e \in senders[at] /\ e.id = cmd.id /\ e.to \in Channel /\ EntryAt(at, e)
          BY <4>2, <4>9, <5>1, SenderFound, CidsKnown DEF CommandsInv
        <5>3. Stable(e.to)
          BY <5>2, ChannelsStep DEF EntryAt
        <5>4. to = e.to
          BY <4>9, <5>1
        <5> HIDE DEF found, to
        <5>5. j.to = e.to /\ j.cmd.id = e.id /\ j.at = at
          BY <4>5, <5>2, <5>4
        <5>6. j \in Job
          BY <4>1, <4>2, <4>4, <5>2, <5>4 DEF Job
        <5>7. Running(j)'
          BY <4>7, <5>2, <5>3, <5>5 DEF Running, EntryAt, Stable
        <5> QED
          BY <4>1, <5>6, <5>7, NoneAssumption DEF Goal
      <4> QED
        BY <4>8, <4>9
    <3> QED
      BY <3>1, <3>2
  <2> QED
    BY <1>5, <2>2, <2>3 DEF TakeCommand
<1>6. ASSUME NEW d \in Cids, FinishCommand(d) PROVE Goal
  <2>1. /\ current' = [current EXCEPT ![d] = None]
        /\ processor' = [processor EXCEPT ![d] = "ready"]
    BY <1>6 DEF FinishCommand
  <2>2. CASE c = d
    BY <1>1, <2>1, <2>2 DEF Goal, CommandsTypeOK
  <2>3. CASE c # d
    <3>1. j = current[c] /\ processor'[c] = processor[c]
      BY <1>1, <2>1, <2>3 DEF CommandsTypeOK
    <3> QED
      BY <1>1, <1>2, <3>1 DEF Jobs, Goal
  <2> QED
    BY <2>2, <2>3
<1>7. ASSUME NEW d \in Cids, EndProcessor(d) PROVE Goal
  <2>1. /\ current' = current /\ processor[d] = "ready"
        /\ processor' = [processor EXCEPT ![d] = "ended"]
    BY <1>7 DEF EndProcessor
  <2> QED
    BY <1>1, <1>3, <2>1 DEF CommandsTypeOK
<1>8. ASSUME ClearVms \/ ManagerStep PROVE Goal
  <2>1. current' = current /\ processor' = processor
    BY <1>8 DEF ClearVms, ManagerStep, channelVars
  <2>2. processor'[c] = "busy" <=> processor[c] = "busy"
    BY <2>1
  <2> QED
    BY <1>3, <2>1, <2>2
<1> QED
  BY <1>4, <1>5, <1>6, <1>7, <1>8 DEF AnyStep, Goal

-----------------------------------------------------------------------------
(* Results.                                                                  *)

\* A job whose result goes to a retried operation runs that operation's command.
LEMMA OwnJob ==
  ASSUME NEW j \in Job, Running(j), j.to # None, kind[j.to[1]] = "exec"
  PROVE  j.cmd.from = j.to /\ (op[j.to[1]] = "send" => j.to[2] # attempt[j.to[1]])
<1>1. PICK t \in Workers, n \in 1 .. MaxRetries + 1 : j.to = <<t, n>>
  BY DEF Job, Channel
<1>2. j.to[1] = t /\ j.to[2] = n
  BY <1>1
<1>3. j.cmd.id = <<t, n>>
  BY <1>2 DEF Running, IdOfChannel, IdOf
<1>4. t # None
  BY NoneAssumption
<1>5. j.cmd # [id |-> HealthId, from |-> None]
  BY <1>3, <1>4 DEF HealthId
<1>6. /\ j.cmd.from \in Channel /\ j.cmd.id = IdOfChannel(j.cmd.from)
      /\ op[j.cmd.from[1]] = "send" => j.cmd.from[2] # attempt[j.cmd.from[1]]
  BY <1>5 DEF Running, Sent
<1>7. PICK u \in Workers, m \in 1 .. MaxRetries + 1 : j.cmd.from = <<u, m>>
  BY <1>6 DEF Channel
<1>8. IdOfChannel(j.cmd.from) \in {ListId, <<u, m>>}
  BY <1>7 DEF IdOfChannel, IdOf
<1>9. <<u, m>> = <<t, n>>
  BY <1>3, <1>4, <1>6, <1>8 DEF ListId
<1> QED
  BY <1>1, <1>2, <1>6, <1>7, <1>9

LEMMA ResultsStep == CommandsInv /\ AnyStep => Results'
<1> SUFFICES ASSUME CommandsInv, AnyStep, NEW t \in Workers, result'[t] # None
             PROVE  /\ op'[t] \in {"send", "wait", "done"}
                    /\ kind'[t] = "exec" => op'[t] # "send"
                    /\ op'[t] \in {"send", "wait"} =>
                         /\ result'[t].at = held'[t]
                         /\ kind'[t] = "exec" => result'[t].from = <<t, attempt'[t]>>
  BY DEF Results, Mine
<1> DEFINE Goal == /\ op'[t] \in {"send", "wait", "done"}
                   /\ kind'[t] = "exec" => op'[t] # "send"
                   /\ op'[t] \in {"send", "wait"} =>
                        /\ result'[t].at = held'[t]
                        /\ kind'[t] = "exec" => result'[t].from = <<t, attempt'[t]>>
<1>1. CommandsTypeOK /\ Place(t) /\ Results
  BY DEF CommandsInv, Places
<1>2. result[t] # None =>
        /\ op[t] \in {"send", "wait", "done"}
        /\ kind[t] = "exec" => op[t] # "send"
        /\ op[t] \in {"send", "wait"} =>
             /\ result[t].at = held[t]
             /\ kind[t] = "exec" => result[t].from = <<t, attempt[t]>>
  BY <1>1 DEF Results, Mine
<1>3. ASSUME UNCHANGED <<result[t], op[t], kind[t], held[t], attempt[t]>> PROVE Goal
  BY <1>2, <1>3
<1>4. ASSUME NEW u \in Workers, WorkerAction(u) PROVE Goal
  <2>1. CASE u # t
    <3>1. UNCHANGED <<result[t], op[t], kind[t], held[t], attempt[t]>>
      <4>1. ASSUME \/ Register(u) \/ SendCommand(u) \/ Answered(u) \/ Disconnected(u)
            PROVE  UNCHANGED <<result[t], op[t], kind[t], held[t], attempt[t]>>
        BY <1>1, <2>1, <4>1 DEF Register, SendCommand, Answered, ReturnWith, Disconnected, RetryOr,
             Finished, CommandsTypeOK
      <4>2. ASSUME \/ CheckHealth(u) \/ DestroyUnhealthy(u) \/ Recreated(u) \/ StartInstance(u)
                   \/ \E v \in VmIds : DestroyVm(u, v)
                   \/ \E v \in VmIds, k \in Kinds : BeginCommand(u, v, k)
            PROVE  UNCHANGED <<result[t], op[t], kind[t], held[t], attempt[t]>>
        BY <1>1, <2>1, <4>2 DEF CheckHealth, DestroyUnhealthy, Recreated, StartInstance,
             DestroyVm, BeginCommand, taskVars, CommandsTypeOK
      <4> QED
        BY <1>4, <4>1, <4>2 DEF WorkerAction
    <3> QED
      BY <1>3, <3>1
  <2>2. CASE u = t
    <3>1. CASE StartInstance(t) \/ \E v \in VmIds : DestroyVm(t, v)
      BY <1>3, <3>1 DEF StartInstance, DestroyVm, taskVars
    <3>2. result'[t] = result[t]
      BY <1>4, <2>2 DEF WorkerAction, Register, SendCommand, Answered, ReturnWith, Disconnected,
           CheckHealth, DestroyUnhealthy, Recreated, StartInstance, DestroyVm, BeginCommand,
           taskVars
    <3>3. op[t] \in {"send", "wait", "done"}
      BY <1>2, <3>2
    <3>4. CASE SendCommand(t)
      <4>1. kind[t] # "exec" /\ op[t] = "send"
        BY <1>2, <3>2, <3>4 DEF SendCommand
      <4>2. /\ UNCHANGED <<kind, attempt>>
            /\ \/ op' = [op EXCEPT ![t] = "done"]
               \/ op' = [op EXCEPT ![t] = "wait"] /\ held' = held
        BY <3>4, <4>1 DEF SendCommand, RetryOr, MayRetry, Finished
      <4> QED
        BY <1>1, <1>2, <3>2, <4>1, <4>2 DEF CommandsTypeOK
    <3>5. CASE Answered(t)
      <4>1. op' = [op EXCEPT ![t] = "done"]
        BY <3>5 DEF Answered, ReturnWith, Finished
      <4> QED
        BY <1>1, <4>1 DEF CommandsTypeOK
    <3>6. CASE \/ Register(t) \/ Disconnected(t) \/ CheckHealth(t) \/ DestroyUnhealthy(t)
               \/ Recreated(t) \/ \E v \in VmIds, k \in Kinds : BeginCommand(t, v, k)
      <4>1. op[t] \in {"register", "health", "destroy", "create", "idle"} \/ result[t] = None
        BY <3>6 DEF Register, Disconnected, CheckHealth, DestroyUnhealthy, Recreated,
             BeginCommand
      <4> QED
        BY <3>2, <3>3, <4>1
    <3> QED
      BY <1>4, <2>2, <3>1, <3>4, <3>5, <3>6 DEF WorkerAction
  <2> QED
    BY <2>1, <2>2
<1>5. ASSUME NEW c \in Cids, FinishCommand(c) PROVE Goal
  <2>1. UNCHANGED <<op, kind, held, attempt>> /\ result' = Delivered(c) /\ processor[c] = "busy"
    BY <1>5 DEF FinishCommand
  <2>2. CASE result'[t] = result[t]
    BY <1>3, <2>1, <2>2
  <2>3. CASE result'[t] # result[t]
    <3>1. PICK j : j = current[c]
      OBVIOUS
    <3>2. /\ j.to # None /\ Listening(j.to)
          /\ result' = [result EXCEPT ![j.to[1]] = [from |-> j.cmd.from, at |-> j.at]]
      BY <2>1, <2>3, <3>1 DEF Delivered
    <3>3. j # None /\ j \in Job /\ Running(j)
      BY <1>1, <2>1, <3>1, Typed DEF CommandsInv, Jobs
    <3>4. j.to[1] = t /\ result'[t] = [from |-> j.cmd.from, at |-> j.at]
      BY <1>1, <2>3, <3>2 DEF CommandsTypeOK
    <3>5. result'[t].from = j.cmd.from /\ result'[t].at = j.at
      BY <3>4
    <3>6. j.at = held[t] /\ op[t] \in {"send", "wait"} /\ j.to[2] = attempt[t]
      BY <3>2, <3>3, <3>4 DEF Running, Listening
    <3>7. j.to = <<t, attempt[t]>>
      BY <3>2, <3>3, <3>4, <3>6 DEF Job, Channel
    <3>8. kind[t] = "exec" => j.cmd.from = j.to /\ op[t] # "send"
      BY <3>2, <3>3, <3>4, <3>6, OwnJob
    <3> QED
      BY <2>1, <3>5, <3>6, <3>7, <3>8
  <2> QED
    BY <2>2, <2>3
<1>6. ASSUME \/ ClearVms \/ ManagerStep
             \/ \E c \in Cids : TakeCommand(c) \/ EndProcessor(c)
      PROVE  Goal
  BY <1>3, <1>6 DEF ClearVms, ManagerStep, TakeCommand, EndProcessor, taskVars
<1> QED
  BY <1>4, <1>5, <1>6 DEF AnyStep

-----------------------------------------------------------------------------
(* The whole invariant.                                                      *)

LEMMA InvStep == CommandsInv /\ [EitherNext]_vars => CommandsInv'
<1> SUFFICES ASSUME CommandsInv, AnyStep PROVE CommandsInv'
  BY Steps
<1>1. TypeInv'
  BY ManagerStepType DEF CommandsInv
<1>2. CommandsTypeOK' /\ Places' /\ CidBound' /\ Served'
  BY CommandsTypeStep, PlacesStep, CidBoundStep, ServedStep
<1>3. Entries' /\ Queued' /\ Jobs' /\ Results'
  BY EntriesStep, QueuedStep, JobsStep, ResultsStep
<1> QED
  BY <1>1, <1>2, <1>3 DEF CommandsInv

\* The VMs of the initial state have distinct cids.
LEMMA FirstVms ==
  LET top == FirstCid + Cardinality(VmIds) - 1
  IN  \E f \in [VmIds -> FirstCid .. top] : \A v, w \in VmIds : f[v] = f[w] => v = w
<1> DEFINE n == Cardinality(VmIds)
<1>1. n \in Nat /\ ExistsBijection(1 .. n, VmIds)
  BY FinitenessAssumption, FS_CardinalityType
<1>2. PICK g \in Bijection(1 .. n, VmIds) : TRUE
  BY <1>1 DEF ExistsBijection
<1> HIDE DEF n
<1>3. g \in [1 .. n -> VmIds] /\ \A v \in VmIds : \E i \in 1 .. n : g[i] = v
  BY <1>2 DEF Bijection, Surjection, Injection
<1> DEFINE f == [v \in VmIds |-> FirstCid - 1 + CHOOSE i \in 1 .. n : g[i] = v]
<1>4. \A v \in VmIds : \E i \in 1 .. n : f[v] = FirstCid - 1 + i /\ g[i] = v
  BY <1>3
<1>5. f \in [VmIds -> FirstCid .. FirstCid + n - 1]
  BY <1>1, <1>4 DEF FirstCid
<1>6. \A v, w \in VmIds : f[v] = f[w] => v = w
  BY <1>1, <1>4 DEF FirstCid
<1> QED
  BY <1>5, <1>6 DEF n

LEMMA InvInit == CommandsInit => CommandsInv
<1> SUFFICES ASSUME CommandsInit PROVE CommandsInv
  OBVIOUS
<1> DEFINE top == FirstCid + Cardinality(VmIds) - 1
<1>1. PICK first \in [VmIds -> FirstCid .. top] :
         /\ \A v, w \in VmIds : first[v] = first[w] => v = w
         /\ instances = first /\ running = {first[v] : v \in VmIds}
         /\ servedVm = [c \in Cids |-> IF c \in {first[v] : v \in VmIds}
                                         THEN CHOOSE v \in VmIds : first[v] = c ELSE None]
         /\ processor = [c \in Cids |-> IF c \in {first[v] : v \in VmIds}
                                          THEN "ready" ELSE "none"]
  BY FirstVms DEF CommandsInit
<1>2. /\ nextCid = FirstCid + Cardinality(VmIds) /\ image = TRUE
      /\ pc = [t \in Workers |-> "idle"] /\ vmOf = [t \in Workers |-> None]
      /\ cidOf = [t \in Workers |-> 0] /\ main = "serving"
      /\ victims = {} /\ replaced = {} /\ late = {} /\ spared = {}
      /\ kind = [t \in Workers |-> None] /\ op = [t \in Workers |-> "idle"]
      /\ attempt = [t \in Workers |-> 0] /\ held = [t \in Workers |-> 0]
      /\ result = [t \in Workers |-> None] /\ outcome = [t \in Workers |-> "none"]
      /\ queue = [c \in Cids |-> <<>>] /\ senders = [c \in Cids |-> {}]
      /\ current = [c \in Cids |-> None]
  BY DEF CommandsInit
<1>3. Cardinality(VmIds) \in Nat
  BY DrawsFinite
<1>4. TypeInv
  BY <1>1, <1>2, <1>3 DEF TypeInv, TypeOK, HasVm, HasCid, Creating, FirstCid, WorkerState, MainState
<1>5. CommandsTypeOK
  <2>1. queue \in [Cids -> Seq(Cmd)]
    BY <1>2, EmptySeq
  <2>2. servedVm \in [Cids -> VmIds \cup {None}]
    BY <1>1
  <2>3. processor \in [Cids -> {"none", "ready", "busy", "ended"}]
    BY <1>1
  <2> QED
    BY <1>2, <2>1, <2>2, <2>3, MaxRetriesAssumption DEF CommandsTypeOK, OpState, Outcome
<1>6. Places
  BY <1>2, MaxRetriesAssumption DEF Places, Place
<1>7. CidBound
  BY <1>2, <1>3, DrawsFinite DEF CidBound, FirstCid
<1>8. Served
  <2>1. \A c \in Cids : /\ c >= nextCid => servedVm[c] = None
                        /\ servedVm[c] = None => processor[c] = "none"
    <3> TAKE c \in Cids
    <3>1. CASE c \in {first[v] : v \in VmIds}
      <4>1. PICK v \in VmIds : first[v] = c
        BY <3>1
      <4>2. c < nextCid /\ c \in Nat
        BY <1>1, <1>2, <1>3, <4>1 DEF FirstCid
      <4>3. servedVm[c] \in VmIds
        BY <1>1, <3>1, <4>1
      <4> QED
        BY <4>2, <4>3, <1>2, <1>3, NoVmAssumption DEF FirstCid
    <3>2. CASE c \notin {first[v] : v \in VmIds}
      BY <1>1, <3>2
    <3> QED
      BY <3>1, <3>2
  <2>2. \A v \in VmIds : servedVm[instances[v]] = v
    <3> TAKE v \in VmIds
    <3>1. first[v] \in Cids
      <4>1. first[v] \in FirstCid .. nextCid - 1
        BY <1>1, <1>2, <1>3 DEF FirstCid
      <4> QED
        BY <1>4, <1>7, <4>1, CidsTop
    <3>2. first[v] \in {first[w] : w \in VmIds}
      OBVIOUS
    <3>3. servedVm[first[v]] = CHOOSE w \in VmIds : first[w] = first[v]
      BY <1>1, <3>1, <3>2
    <3> QED
      BY <1>1, <3>3
  <2> QED
    BY <1>2, <2>1, <2>2 DEF Served, Creating
<1>9. Entries /\ Queued /\ Jobs /\ Results
  <2>1. \A c \in Cids : processor[c] # "busy"
    BY <1>1
  <2> QED
    BY <1>2, <2>1 DEF Entries, Queued, Jobs, Results
<1> QED
  BY <1>4, <1>5, <1>6, <1>7, <1>8, <1>9 DEF CommandsInv

LEMMA Invariance ==
  /\ CommandsSpec => []CommandsInv /\ [][EitherNext]_vars
  /\ ServingSpec => []CommandsInv /\ [][EitherNext]_vars
<1>1. [CommandsNext]_vars => [EitherNext]_vars
  BY DEF EitherNext
<1>2. [ServingNext]_vars => [EitherNext]_vars
  BY DEF EitherNext
<1>3. CommandsSpec => []CommandsInv /\ [][EitherNext]_vars
  BY <1>1, InvInit, InvStep, PTL DEF CommandsSpec
<1>4. ServingSpec => []CommandsInv /\ [][EitherNext]_vars
  BY <1>2, InvInit, InvStep, PTL DEF ServingSpec
<1> QED
  BY <1>3, <1>4

(* Every variable of the channels has its type; in particular no cid is      *)
(* drawn that a processor thread and its queue are not ready for.            *)
THEOREM CommandsTypeCorrect == (CommandsSpec \/ ServingSpec) => []CommandsTypeOK
<1>1. CommandsInv => CommandsTypeOK
  BY DEF CommandsInv
<1> QED
  BY <1>1, Invariance, PTL

(* A worker reads the answer of the instance it registered with, and         *)
(* execute_vm_command the answer to its own command of this attempt, through *)
(* any sequence of re-creations of its VM.                                   *)
THEOREM OwnResults == (CommandsSpec \/ ServingSpec) => []OwnResult
<1>1. CommandsInv => OwnResult
  BY DEF CommandsInv, Results, OwnResult
<1> QED
  BY <1>1, Invariance, PTL

-----------------------------------------------------------------------------
(* Entries that are left behind.                                             *)

\* The sender of a channel that is listened to is in the instance of its name.
LEMMA SenderPlace ==
  ASSUME CommandsInv, NEW t \in Workers, op[t] = "wait",
         NEW c \in Cids, NEW e \in senders[c], e.to = Mine(t)
  PROVE  c = held[t] /\ c = instances[vmOf[t]] /\ e.id = CommandId(t) /\ servedVm[c] = vmOf[t]
<1>1. EntryAt(c, e) /\ \E v \in VmIds : instances[v] = c
  BY DEF CommandsInv, Entries
<1>2. e.to[1] = t /\ e.to[2] = attempt[t]
  BY DEF Mine
<1>3. c = held[t] /\ e.id = CommandId(t)
  BY <1>1, <1>2 DEF EntryAt, Listening, IdOfChannel, CommandId
<1>4. PICK v \in VmIds : instances[v] = c
  BY <1>1
<1>5. c # 0
  BY CidsKnown DEF CommandsInv
<1>6. servedVm[c] = v /\ servedVm[c] = vmOf[t]
  BY <1>3, <1>4, <1>5 DEF CommandsInv, Served
<1> QED
  BY <1>3, <1>4, <1>6

\* Only execute_vm_command uses the id of its channel.
LEMMA OwnEntry ==
  ASSUME CommandsInv, NEW t \in Workers, attempt[t] # 0,
         NEW c \in Cids, NEW e \in senders[c], e.id = Mine(t)
  PROVE  e.to = Mine(t)
<1>1. PICK u \in Workers, m \in 1 .. MaxRetries + 1 : e.to = <<u, m>>
  BY Typed DEF CommandsInv, Channel
<1>2. e.id \in {ListId, <<u, m>>}
  <2>1. e.id = IdOfChannel(e.to)
    BY DEF CommandsInv, Entries, EntryAt
  <2> QED
    BY <1>1, <2>1 DEF IdOfChannel, IdOf
<1> QED
  BY <1>1, <1>2, NoneAssumption DEF Mine, ListId

\* Only Register adds a sender, that of the channel it makes.
LEMMA NewSenders ==
  ASSUME CommandsTypeOK, AnyStep, NEW c \in Cids, NEW e \in senders'[c], e \notin senders[c]
  PROVE  \E u \in Workers, m \in Nat : Register(u) /\ e.id = IdOf(u, m) /\ e.to = <<u, m>>
<1>1. senders \in [Cids -> SUBSET Entry]
  BY DEF CommandsTypeOK
<1>2. senders' # senders
  OBVIOUS
<1>3. ASSUME NEW v, senders' = DropSenders(v) PROVE FALSE
  BY <1>1, <1>3 DEF DropSenders
<1>4. ASSUME NEW u \in Workers, Register(u)
      PROVE  \E m \in Nat : e.id = IdOf(u, m) /\ e.to = <<u, m>>
  <2>1. PICK m \in Nat : m = attempt[u] + 1
    BY DEF CommandsTypeOK
  <2>2. PICK new : new = [id |-> IdOf(u, m), to |-> <<u, m>>]
    OBVIOUS
  <2>3. PICK d : senders' = [senders EXCEPT ![d] =
                               {x \in senders[d] : x.id # IdOf(u, m)} \cup {new}]
    BY <1>2, <1>4, <2>1, <2>2 DEF Register
  <2>4. CASE d # c
    BY <1>1, <2>3, <2>4
  <2>5. CASE d = c
    <3>1. e = new
      BY <1>1, <2>3, <2>5
    <3> QED
      BY <2>2, <3>1
  <2> QED
    BY <2>4, <2>5
<1>5. ASSUME NEW u \in Workers, WorkerAction(u) PROVE Register(u)
  <2>1. ASSUME Answered(u) PROVE FALSE
    <3>1. senders' = WithoutEntry(u)
      BY <2>1 DEF Answered, ReturnWith
    <3> QED
      BY <1>1, <3>1 DEF WithoutEntry
  <2>2. ASSUME \/ DestroyUnhealthy(u) \/ StartInstance(u) \/ \E v \in VmIds : DestroyVm(u, v)
        PROVE  FALSE
    BY <1>3, <2>2 DEF DestroyUnhealthy, StartInstance, DestroyVm
  <2>3. ASSUME \/ SendCommand(u) \/ Disconnected(u) \/ CheckHealth(u) \/ Recreated(u)
               \/ \E v \in VmIds, k \in Kinds : BeginCommand(u, v, k)
        PROVE  FALSE
    BY <1>2, <2>3 DEF SendCommand, Disconnected, CheckHealth, Recreated, BeginCommand, channelVars
  <2> QED
    BY <1>5, <2>1, <2>2, <2>3 DEF WorkerAction
<1>6. ~ClearVms
  BY DEF ClearVms
<1>7. ~(ManagerStep \/ \E d \in Cids : TakeCommand(d) \/ FinishCommand(d) \/ EndProcessor(d))
  BY <1>2 DEF ManagerStep, TakeCommand, FinishCommand, EndProcessor, channelVars
<1> QED
  BY <1>4, <1>5, <1>6, <1>7 DEF AnyStep

LEMMA NoEntryStep == CommandsInv /\ NoEntryLeft /\ AnyStep => NoEntryLeft'
<1> SUFFICES ASSUME CommandsInv, NoEntryLeft, AnyStep,
                    NEW t \in Workers, kind'[t] = "exec", outcome'[t] \in {"result", "timeout"},
                    NEW c \in Cids, NEW e \in senders'[c], e.id = <<t, attempt'[t]>>
             PROVE  FALSE
  BY DEF NoEntryLeft, Mine
<1>1. CommandsTypeOK /\ Place(t) /\ TypeInv
  BY DEF CommandsInv, Places
\* A step that leaves t alone: an entry that is new belongs to another worker.
<1>2. ASSUME UNCHANGED <<kind[t], outcome[t], attempt[t]>> PROVE FALSE
  <2>1. kind[t] = "exec" /\ outcome[t] \in {"result", "timeout"} /\ e.id = Mine(t)
    BY <1>2 DEF Mine
  <2>2. e \notin senders[c]
    BY <2>1 DEF NoEntryLeft
  <2>3. PICK u \in Workers, m \in Nat : Register(u) /\ e.id = IdOf(u, m)
    BY <1>1, <2>2, NewSenders
  <2>4. u # t
    BY <1>1, <2>1, <2>3 DEF Register, Place
  <2> QED
    BY <2>1, <2>3, <2>4, NoneAssumption DEF Mine, ListId, IdOf
<1>3. ASSUME NEW u \in Workers, WorkerAction(u) PROVE FALSE
  <2>1. CASE Answered(u)
    <3>1. /\ senders' = WithoutEntry(u) /\ UNCHANGED <<kind, attempt>> /\ op[u] = "wait"
          /\ \E o \in {"result", "timeout"} : outcome' = [outcome EXCEPT ![u] = o]
      BY <2>1 DEF Answered, ReturnWith, Finished
    <3>2. CASE u # t
      BY <1>1, <1>2, <3>1, <3>2 DEF CommandsTypeOK
    <3>3. CASE u = t
      <4>1. senders'[c] \subseteq senders[c]
        BY <1>1, <3>1 DEF WithoutEntry, CommandsTypeOK
      <4>2. e \in senders[c] /\ e.id = Mine(t) /\ attempt[t] # 0 /\ kind[t] = "exec"
        BY <1>1, <3>1, <3>3, <4>1 DEF Mine, Place
      <4>3. c = instances[vmOf[t]] /\ e.id = CommandId(t)
        BY <3>1, <3>3, <4>2, OwnEntry, SenderPlace
      <4>4. c # 0
        BY CidsKnown DEF CommandsInv
      <4>5. senders'[c] = {x \in senders[c] : x.id # CommandId(t)}
        BY <1>1, <3>1, <3>3, <4>2, <4>3, <4>4 DEF WithoutEntry, CommandsTypeOK
      <4> QED
        BY <4>3, <4>5
    <3> QED
      BY <3>2, <3>3
  <2>2. CASE Register(u)
    <3>1. /\ op[u] = "register" /\ kind' = kind
          /\ \/ outcome' = [outcome EXCEPT ![u] = "notFound"] /\ attempt' = attempt
             \/ outcome' = outcome /\ attempt' = [attempt EXCEPT ![u] = attempt[u] + 1]
      BY <2>2 DEF Register, Finished
    <3>2. u # t
      BY <1>1, <3>1 DEF Place, CommandsTypeOK
    <3> QED
      BY <1>1, <1>2, <3>1, <3>2 DEF CommandsTypeOK
  <2>3. CASE SendCommand(u) \/ Disconnected(u)
    <3>1. /\ UNCHANGED <<kind, attempt>>
          /\ \/ outcome' = outcome
             \/ \E o \in {"closed", "disconnected", "sent"} : outcome' = [outcome EXCEPT ![u] = o]
      BY <2>3 DEF SendCommand, Disconnected, RetryOr, Finished
    <3> QED
      BY <1>1, <1>2, <3>1 DEF CommandsTypeOK
  <2>4. CASE CheckHealth(u) \/ DestroyUnhealthy(u) \/ Recreated(u) \/ StartInstance(u)
             \/ \E v \in VmIds : DestroyVm(u, v)
    BY <1>2, <2>4 DEF CheckHealth, DestroyUnhealthy, Recreated, StartInstance, DestroyVm, taskVars
  <2>5. ASSUME NEW v \in VmIds, NEW k \in Kinds, BeginCommand(u, v, k) PROVE FALSE
    <3>1. /\ UNCHANGED <<attempt, outcome>> /\ op[u] = "idle" /\ kind' = [kind EXCEPT ![u] = k]
      BY <2>5 DEF BeginCommand
    <3>2. u # t
      BY <1>1, <3>1 DEF Place
    <3> QED
      BY <1>1, <1>2, <3>1, <3>2 DEF CommandsTypeOK
  <2> QED
    BY <1>3, <2>1, <2>2, <2>3, <2>4, <2>5 DEF WorkerAction
<1>4. ASSUME \/ ClearVms \/ ManagerStep
             \/ \E d \in Cids : TakeCommand(d) \/ FinishCommand(d) \/ EndProcessor(d)
      PROVE  FALSE
  BY <1>2, <1>4 DEF ClearVms, ManagerStep, TakeCommand, FinishCommand, EndProcessor, taskVars
<1> QED
  BY <1>3, <1>4 DEF AnyStep

(* execute_vm_command that got a result or ran out of time leaves no sender  *)
(* in any map, whatever happened to its VM while it waited.                  *)
THEOREM NothingLeft == (CommandsSpec \/ ServingSpec) => []NoEntryLeft
<1>1. CommandsInit => NoEntryLeft
  BY DEF CommandsInit, NoEntryLeft
<1>2. CommandsInv /\ NoEntryLeft /\ [EitherNext]_vars => NoEntryLeft'
  BY Steps, NoEntryStep
<1>3. (CommandsSpec \/ ServingSpec) => CommandsInit
  BY DEF CommandsSpec, ServingSpec
<1> QED
  BY <1>1, <1>2, <1>3, Invariance, PTL

-----------------------------------------------------------------------------
(* Answers that are on their way.                                            *)

LEMMA ServingBefore == AnyStep /\ ~ShuttingDown' => ~ShuttingDown
<1> SUFFICES ASSUME AnyStep, main' = "serving" PROVE main = "serving"
  BY DEF ShuttingDown
<1>1. ASSUME [Next]_managerVars PROVE main = "serving"
  BY <1>1 DEF Next, MainStep, CreateStep, BeginCreate, Destroy, TakeCid, Prepare, FailCreate,
         Spawn, InsertInstance, FirecrackerExits, BuildImage, SetShutdownFlag,
         ListInstances, TerminateVictim, ClearInstances, FindProcesses, SignalAgents,
         Return, Ended, managerVars
<1>2. ASSUME NEW t \in Workers, WorkerAction(t) PROVE main = "serving"
  BY <1>2 DEF WorkerAction, Register, SendCommand, Answered, ReturnWith, Disconnected, CheckHealth,
         DestroyUnhealthy, Recreated, StartInstance, InsertInstance, DestroyVm, Destroy,
         BeginCommand, managerVars
<1>3. ASSUME NEW c \in Cids, TakeCommand(c) \/ FinishCommand(c) \/ EndProcessor(c)
      PROVE  main = "serving"
  BY <1>3 DEF TakeCommand, FinishCommand, EndProcessor, managerVars
<1>4. ~ClearVms
  BY DEF ClearVms, ClearInstances
<1> QED
  BY <1>1, <1>2, <1>3, <1>4 DEF AnyStep, ManagerStep

\* The command of a waiting worker is in its queue or being run for it.
OnItsWay(t) ==
  \/ \E i \in DOMAIN queue[held[t]] : queue[held[t]][i].from = Mine(t)
  \/ \E c \in Cids : current[c] # None /\ current[c].to = Mine(t)

\* What a worker keeps while it waits.
LEMMA WaitStep ==
  ASSUME CommandsInv, AnyStep, NEW t \in Workers, op'[t] = "wait"
  PROVE  \/ op[t] = "send" /\ SendCommand(t)
         \/ op[t] = "wait" /\ UNCHANGED <<attempt[t], held[t]>>
<1>1. CommandsTypeOK
  BY DEF CommandsInv
<1>2. ASSUME NEW u \in Workers, WorkerAction(u), u # t
      PROVE  UNCHANGED <<op[t], attempt[t], held[t]>>
  <2>1. ASSUME \/ Register(u) \/ SendCommand(u) \/ Answered(u) \/ Disconnected(u)
        PROVE  UNCHANGED <<op[t], attempt[t], held[t]>>
    BY <1>1, <1>2, <2>1 DEF Register, SendCommand, Answered, ReturnWith, Disconnected, RetryOr,
         Finished, CommandsTypeOK
  <2>2. ASSUME \/ CheckHealth(u) \/ DestroyUnhealthy(u) \/ Recreated(u) \/ StartInstance(u)
               \/ \E v \in VmIds : DestroyVm(u, v)
               \/ \E v \in VmIds, k \in Kinds : BeginCommand(u, v, k)
        PROVE  UNCHANGED <<op[t], attempt[t], held[t]>>
    BY <1>1, <1>2, <2>2 DEF CheckHealth, DestroyUnhealthy, Recreated, StartInstance,
         DestroyVm, BeginCommand, taskVars, CommandsTypeOK
  <2> QED
    BY <1>2, <2>1, <2>2 DEF WorkerAction
<1>3. ASSUME WorkerAction(t)
      PROVE  SendCommand(t) \/ UNCHANGED <<op[t], attempt[t], held[t]>>
  <2>1. ASSUME Register(t) \/ Answered(t) \/ Disconnected(t) PROVE FALSE
    <3>1. \E o \in {"send", "health", "done"} : op' = [op EXCEPT ![t] = o]
      BY <2>1 DEF Register, Answered, ReturnWith, Disconnected, RetryOr, Finished
    <3> QED
      BY <1>1, <3>1 DEF CommandsTypeOK
  <2>2. ASSUME \/ CheckHealth(t) \/ DestroyUnhealthy(t) \/ Recreated(t)
               \/ \E v \in VmIds, k \in Kinds : BeginCommand(t, v, k)
        PROVE  FALSE
    <3>1. \E o \in {"register", "destroy", "create"} : op' = [op EXCEPT ![t] = o]
      BY <2>2 DEF CheckHealth, DestroyUnhealthy, Recreated, BeginCommand
    <3> QED
      BY <1>1, <3>1 DEF CommandsTypeOK
  <2>3. ASSUME StartInstance(t) \/ \E v \in VmIds : DestroyVm(t, v)
        PROVE  UNCHANGED <<op[t], attempt[t], held[t]>>
    BY <2>3 DEF StartInstance, DestroyVm, taskVars
  <2> QED
    BY <1>3, <2>1, <2>2, <2>3 DEF WorkerAction
<1>4. ASSUME \/ ClearVms \/ ManagerStep
             \/ \E d \in Cids : TakeCommand(d) \/ FinishCommand(d) \/ EndProcessor(d)
      PROVE  UNCHANGED <<op[t], attempt[t], held[t]>>
  BY <1>4 DEF ClearVms, ManagerStep, TakeCommand, FinishCommand, EndProcessor, taskVars
<1>5. SendCommand(t) => op[t] = "send"
  BY DEF SendCommand
<1> QED
  BY <1>2, <1>3, <1>4, <1>5 DEF AnyStep

LEMMA PendingStep == CommandsInv /\ PendingIsQueued /\ AnyStep => PendingIsQueued'
<1> SUFFICES ASSUME CommandsInv, PendingIsQueued, AnyStep,
                    NEW t \in Workers, ~ShuttingDown', op'[t] = "wait", result'[t] = None,
                    NEW b \in Cids, NEW e \in senders'[b], e.to = Mine(t)'
             PROVE  OnItsWay(t)'
  BY DEF PendingIsQueued, OnItsWay
<1>1. CommandsTypeOK /\ Place(t) /\ Jobs /\ ~ShuttingDown
  BY ServingBefore DEF CommandsInv, Places
<1>2. PICK n \in 1 .. MaxRetries + 1, h \in Cids :
         n = attempt[t] /\ h = held[t] /\ n = attempt'[t] /\ h = held'[t]
  <2>1. op[t] \in {"send", "wait"} /\ UNCHANGED <<attempt[t], held[t]>>
    <3>1. CASE SendCommand(t)
      <4>1. attempt' = attempt /\ op[t] = "send"
        BY <3>1 DEF SendCommand
      <4>2. held' = held
        <5>1. ~(\E o \in {"health", "done"} : op' = [op EXCEPT ![t] = o])
          BY <1>1 DEF CommandsTypeOK
        <5> QED
          BY <3>1, <5>1 DEF SendCommand, RetryOr, Finished
      <4> QED
        BY <4>1, <4>2
    <3> QED
      BY <3>1, WaitStep
  <2>2. attempt[t] \in 1 .. MaxRetries + 1 /\ held[t] \in Cids
    BY <1>1, <2>1 DEF Place, CommandsTypeOK
  <2> QED
    BY <2>1, <2>2
<1>3. /\ Mine(t) = <<t, n>> /\ e.to = <<t, n>>
      /\ OnItsWay(t)' <=> \/ \E i \in DOMAIN queue'[h] : queue'[h][i].from = <<t, n>>
                          \/ \E c \in Cids : current'[c] # None /\ current'[c].to = <<t, n>>
  BY <1>2 DEF Mine, OnItsWay
<1>4. queue[h] \in Seq(Cmd)
  BY <1>1 DEF CommandsTypeOK
\* The command has just been sent.
<1>5. CASE SendCommand(t)
  <2>1. op' # [op EXCEPT ![t] = "health"] /\ op' # [op EXCEPT ![t] = "done"]
    BY <1>1 DEF CommandsTypeOK
  <2>2. PICK m : m = [id |-> CommandId(t), from |-> <<t, n>>]
    OBVIOUS
  <2>3. queue' = [queue EXCEPT ![h] = Append(queue[h], m)]
    BY <1>2, <1>3, <1>5, <2>1, <2>2 DEF SendCommand, RetryOr, Finished
  <2>4. queue'[h] = Append(queue[h], m)
    BY <1>1, <2>3 DEF CommandsTypeOK
  <2>5. Len(queue[h]) + 1 \in DOMAIN queue'[h] /\ queue'[h][Len(queue[h]) + 1] = m
    BY <1>4, <2>4
  <2> QED
    BY <1>3, <2>2, <2>5
<1>6. CASE op[t] = "wait"
  <2>1. e \in senders[b]
    <3>1. SUFFICES ASSUME e \notin senders[b] PROVE FALSE
      OBVIOUS
    <3>2. PICK u \in Workers, m \in Nat : Register(u) /\ e.to = <<u, m>>
      BY <1>1, <3>1, NewSenders
    <3>3. u = t
      BY <1>3, <3>2
    <3> QED
      BY <1>6, <3>2, <3>3 DEF Register
  <2>2. /\ b = h /\ instances[vmOf[t]] = h /\ servedVm[h] = vmOf[t] /\ e.id = IdOf(t, n)
    <3>1. e.to = Mine(t)
      BY <1>3
    <3>2. b = held[t] /\ b = instances[vmOf[t]] /\ e.id = CommandId(t) /\ servedVm[b] = vmOf[t]
      BY <1>6, <2>1, <3>1, SenderPlace
    <3> QED
      BY <1>2, <3>2 DEF CommandId
  <2>3. ASSUME result[t] = None
        PROVE  \/ \E i \in DOMAIN queue[h] : queue[h][i].from = <<t, n>>
               \/ \E c \in Cids : current[c] # None /\ current[c].to = <<t, n>>
    BY <1>1, <1>2, <1>3, <1>6, <2>1, <2>3 DEF PendingIsQueued
  <2>4. ASSUME NEW d, NEW m, queue' = [queue EXCEPT ![d] = Append(queue[d], m)]
        PROVE  \A i \in DOMAIN queue[h] : i \in DOMAIN queue'[h] /\ queue'[h][i] = queue[h][i]
    <3>1. queue'[h] = queue[h] \/ queue'[h] = Append(queue[h], m)
      BY <1>1, <2>4 DEF CommandsTypeOK
    <3> QED
      BY <1>4, <3>1
  <2>5. ASSUME result' = result, current' = current,
               queue' = queue \/ \E d, m : queue' = [queue EXCEPT ![d] = Append(queue[d], m)]
        PROVE  OnItsWay(t)'
    <3>1. \A i \in DOMAIN queue[h] : i \in DOMAIN queue'[h] /\ queue'[h][i] = queue[h][i]
      BY <2>4, <2>5
    <3> QED
      BY <1>3, <2>3, <2>5, <3>1
  <2>6. ASSUME NEW u \in Workers, WorkerAction(u) PROVE OnItsWay(t)'
    <3>1. ASSUME \/ Register(u) \/ Answered(u) \/ Disconnected(u) \/ DestroyUnhealthy(u)
                 \/ Recreated(u) \/ StartInstance(u) \/ \E v \in VmIds : DestroyVm(u, v)
                 \/ \E v \in VmIds, k \in Kinds : BeginCommand(u, v, k)
          PROVE  UNCHANGED <<result, current, queue>>
      BY <3>1 DEF Register, Answered, ReturnWith, Disconnected, DestroyUnhealthy,
           Recreated, StartInstance, DestroyVm, BeginCommand, taskVars, channelVars
    <3>2. ASSUME SendCommand(u) \/ CheckHealth(u)
          PROVE  /\ UNCHANGED <<result, current>>
                 /\ queue' = queue \/ \E d, m : queue' = [queue EXCEPT ![d] = Append(queue[d], m)]
      BY <3>2, ZenonT(40) DEF SendCommand, CheckHealth
    <3> QED
      BY <2>5, <2>6, <3>1, <3>2 DEF WorkerAction
  <2>7. ASSUME NEW d \in Cids, TakeCommand(d) PROVE OnItsWay(t)'
    <3>1. result' = result /\ processor[d] = "ready" /\ queue[d] # <<>>
      BY <2>7 DEF TakeCommand, taskVars
    <3>2. CASE \E c \in Cids : current[c] # None /\ current[c].to = <<t, n>>
      <4>1. PICK c \in Cids : current[c] # None /\ current[c].to = <<t, n>>
        BY <3>2
      <4>2. c # d
        BY <1>1, <3>1, <4>1 DEF Jobs
      <4>3. current'[c] = current[c]
        BY <1>1, <2>7, <4>2 DEF TakeCommand, CommandsTypeOK
      <4> QED
        BY <1>3, <4>1, <4>3
    <3>3. CASE d # h /\ \E i \in DOMAIN queue[h] : queue[h][i].from = <<t, n>>
      <4>1. queue'[h] = queue[h]
        BY <1>1, <2>7, <3>3 DEF TakeCommand, CommandsTypeOK
      <4> QED
        BY <1>3, <3>3, <4>1
    <3>4. CASE d = h /\ \E i \in DOMAIN queue[h] : queue[h][i].from = <<t, n>>
      <4>1. PICK i \in DOMAIN queue[h] : queue[h][i].from = <<t, n>>
        BY <3>4
      <4>2. queue'[h] = Tail(queue[h])
        BY <1>1, <2>7, <3>4 DEF TakeCommand, CommandsTypeOK
      <4>3. CASE i # 1
        <5>1. i - 1 \in DOMAIN queue'[h] /\ queue'[h][i - 1] = queue[h][i]
          BY <1>4, <4>1, <4>2, <4>3
        <5> QED
          BY <1>3, <4>1, <5>1
      <4>4. CASE i = 1
        <5>1. PICK m : m = Head(queue[h]) /\ m = queue[h][1] /\ m.from = <<t, n>>
          BY <4>1, <4>4
        <5>2. m.id = e.id
          <6>1. Sent(m) /\ m # [id |-> HealthId, from |-> None]
            <7>1. Sent(m)
              BY <4>1, <4>4, <5>1 DEF CommandsInv, Queued
            <7>2. <<t, n>> # None
              BY NoneAssumption DEF Channel
            <7>3. [id |-> HealthId, from |-> None].from = None
              OBVIOUS
            <7>4. m.from = <<t, n>>
              BY <5>1
            <7> QED
              BY <7>1, <7>2, <7>3, <7>4
          <6>2. m.id = IdOfChannel(<<t, n>>)
            BY <5>1, <6>1 DEF Sent
          <6> QED
            BY <2>2, <6>2 DEF IdOfChannel
        <5>3. e \in SendersOf(h, m.id) /\ SendersOf(h, m.id) = {e}
          BY <2>1, <2>2, <5>2 DEF SendersOf, CommandsInv, Entries
        <5>4. (CHOOSE x \in SendersOf(h, m.id) : TRUE) = e
          BY <5>3
        <5>5. /\ processor' = [processor EXCEPT ![h] = "busy"]
              /\ current' = [current EXCEPT ![h] = [cmd |-> m, at |-> h, to |-> e.to]]
          <6>1. h # 0
            BY CidsKnown DEF CommandsInv
          <6>2. instances[servedVm[h]] = h
            BY <2>2
          <6>3. /\ processor' = [processor EXCEPT ![h] = "busy"]
                /\ current' = [current EXCEPT ![h] =
                     [cmd |-> m, at |-> h,
                      to |-> IF SendersOf(h, m.id) = {} THEN None
                             ELSE (CHOOSE x \in SendersOf(h, m.id) : TRUE).to]]
            BY <1>1, <2>7, <3>4, <5>1, <6>1, <6>2 DEF TakeCommand
          <6>4. SendersOf(h, m.id) # {}
            BY <5>3
          <6> QED
            BY <5>4, <6>3, <6>4
        <5>6. current'[h].to = <<t, n>> /\ processor'[h] = "busy"
          BY <1>1, <1>3, <5>5 DEF CommandsTypeOK
        <5>7. current'[h] # None
          BY <5>6, JobsStep DEF Jobs
        <5> QED
          BY <1>3, <5>6, <5>7
      <4> QED
        BY <4>3, <4>4
    <3> QED
      BY <2>3, <3>1, <3>2, <3>3, <3>4
  <2>8. ASSUME NEW d \in Cids, FinishCommand(d) PROVE OnItsWay(t)'
    <3>1. /\ queue' = queue /\ current' = [current EXCEPT ![d] = None] /\ result' = Delivered(d)
      BY <2>8 DEF FinishCommand
    <3>2. result[t] = None
      BY <1>1, <3>1 DEF Delivered, CommandsTypeOK
    <3>3. current[d] # None => current[d].to # <<t, n>>
      <4> SUFFICES ASSUME current[d] # None, current[d].to = <<t, n>> PROVE FALSE
        OBVIOUS
      <4>1. <<t, n>> # None /\ <<t, n>>[1] = t /\ <<t, n>>[2] = n
        BY NoneAssumption DEF Channel
      <4>2. Listening(<<t, n>>)
        BY <1>2, <1>6, <4>1 DEF Listening
      <4>3. result'[t] = [from |-> current[d].cmd.from, at |-> current[d].at]
        BY <1>1, <3>1, <3>2, <4>1, <4>2 DEF Delivered, CommandsTypeOK
      <4>4. current[d] \in Job
        BY <1>1, Typed
      <4>5. result'[t] \in VmCommandResult
        BY <4>3, <4>4 DEF VmCommandResult, Job, Cmd
      <4> QED
        BY <4>5, NoneAssumption
    <3>4. CASE \E i \in DOMAIN queue[h] : queue[h][i].from = <<t, n>>
      BY <1>3, <3>1, <3>4
    <3>5. CASE \E c \in Cids : current[c] # None /\ current[c].to = <<t, n>>
      <4>1. PICK c \in Cids : current[c] # None /\ current[c].to = <<t, n>>
        BY <3>5
      <4>2. current'[c] = current[c]
        BY <1>1, <3>1, <3>3, <4>1 DEF CommandsTypeOK
      <4> QED
        BY <1>3, <4>1, <4>2
    <3> QED
      BY <2>3, <3>2, <3>4, <3>5
  <2>9. ASSUME ClearVms \/ ManagerStep \/ \E d \in Cids : EndProcessor(d) PROVE OnItsWay(t)'
    BY <2>5, <2>9 DEF ClearVms, ManagerStep, EndProcessor, taskVars, channelVars
  <2> QED
    BY <2>6, <2>7, <2>8, <2>9 DEF AnyStep
<1> QED
  BY <1>5, <1>6, WaitStep

(* While a worker's channel is connected, the answer it waits for is on its  *)
(* way: no command is lost between the queue and the map of senders unless   *)
(* the host shuts down.                                                      *)
THEOREM PendingAreQueued == (CommandsSpec \/ ServingSpec) => []PendingIsQueued
<1>1. CommandsInit => PendingIsQueued
  BY DEF CommandsInit, PendingIsQueued
<1>2. CommandsInv /\ PendingIsQueued /\ [EitherNext]_vars => PendingIsQueued'
  BY Steps, PendingStep
<1>3. (CommandsSpec \/ ServingSpec) => CommandsInit
  BY DEF CommandsSpec, ServingSpec
<1> QED
  BY <1>1, <1>2, <1>3, Invariance, PTL

-----------------------------------------------------------------------------
(* What VmManager promises, among workers that destroy and create VMs in the *)
(* middle of a command.                                                      *)

\* A step between two operations of VmManager: it may take an instance away and
\* kill its process, and a thread that creates no VM begins to or stops.
BetweenOperations(t) ==
  /\ \/ UNCHANGED <<instances, running, spared>>
     \/ /\ instances' = [instances EXCEPT ![vmOf[t]] = 0]
        /\ Kill(instances[vmOf[t]])
  /\ \A u \in Workers : \/ pc'[u] = pc[u]
                        \/ ~Creating(u) /\ pc'[u] \in {"idle", "takeCid"}
  /\ UNCHANGED <<nextCid, cidOf, main, victims, replaced, late>>

LEMMA ManagerSteps ==
  ASSUME CommandsInv, AnyStep
  PROVE  \/ [Next]_managerVars
         \/ \E t \in Workers : vmOf[t] \in VmIds /\ BetweenOperations(t)
         \/ UNCHANGED <<instances, running, pc, cidOf, main, victims, replaced, late, spared>>
<1>1. TypeOK /\ Places
  BY DEF CommandsInv, TypeInv
<1>2. ASSUME NEW t \in Workers, NEW v \in VmIds, NEW k \in Kinds, BeginCommand(t, v, k)
      PROVE  UNCHANGED <<instances, running, pc, cidOf, main, victims, replaced, late, spared>>
  BY <1>2 DEF BeginCommand
<1>3. ASSUME NEW t \in Workers, DestroyUnhealthy(t)
      PROVE  vmOf[t] \in VmIds /\ BetweenOperations(t)
  <2>1. vmOf[t] \in VmIds /\ pc[t] = "idle"
    BY <1>1, <1>3 DEF DestroyUnhealthy, Places, Place
  <2>2. /\ pc' = [pc EXCEPT ![t] = "takeCid"]
        /\ UNCHANGED <<nextCid, cidOf, main, victims, replaced, late>>
    BY <1>3 DEF DestroyUnhealthy
  <2>3. \A u \in Workers : \/ pc'[u] = pc[u]
                           \/ ~Creating(u) /\ pc'[u] \in {"idle", "takeCid"}
    BY <1>1, <2>1, <2>2 DEF TypeOK, Creating
  <2>4. DestroyInstance(vmOf[t])
    BY <1>3 DEF DestroyUnhealthy
  <2>5. CASE vmOf[t] \in ListedVms
    <3>1. /\ instances' = [instances EXCEPT ![vmOf[t]] = 0]
          /\ Kill(instances[vmOf[t]])
      BY <2>4, <2>5 DEF DestroyInstance
    <3> QED
      BY <2>1, <2>2, <2>3, <3>1 DEF BetweenOperations
  <2>6. CASE vmOf[t] \notin ListedVms
    <3>1. UNCHANGED <<instances, running, spared>>
      BY <2>4, <2>6 DEF DestroyInstance
    <3> QED
      BY <2>1, <2>2, <2>3, <3>1 DEF BetweenOperations
  <2> QED
    BY <2>5, <2>6
<1>4. ASSUME NEW t \in Workers, Recreated(t)
      PROVE  vmOf[t] \in VmIds /\ BetweenOperations(t)
  <2>1. vmOf[t] \in VmIds
    BY <1>1, <1>4 DEF Recreated, Places, Place
  <2>2. /\ pc[t] \in {"created", "createFailed"} /\ pc' = [pc EXCEPT ![t] = "idle"]
        /\ UNCHANGED <<nextCid, instances, running, cidOf, main, victims, replaced, late, spared>>
    BY <1>4 DEF Recreated
  <2>3. \A u \in Workers : \/ pc'[u] = pc[u]
                           \/ ~Creating(u) /\ pc'[u] \in {"idle", "takeCid"}
    BY <1>1, <2>2 DEF TypeOK, Creating
  <2> QED
    BY <2>1, <2>2, <2>3 DEF BetweenOperations
<1>5. ASSUME NEW t \in Workers,
             StartInstance(t) \/ \E v \in VmIds : DestroyVm(t, v)
      PROVE  [Next]_managerVars
  BY <1>5 DEF StartInstance, DestroyVm, Next, CreateStep
<1>6. CASE ClearVms
  BY <1>6 DEF ClearVms, Next, MainStep
<1>7. ASSUME NEW t \in Workers,
             \/ Register(t) \/ SendCommand(t) \/ Answered(t) \/ Disconnected(t)
             \/ CheckHealth(t)
      PROVE  UNCHANGED managerVars
  BY <1>7 DEF Register, SendCommand, Answered, ReturnWith, Disconnected, CheckHealth
<1>8. ASSUME NEW c \in Cids, TakeCommand(c) \/ FinishCommand(c) \/ EndProcessor(c)
      PROVE  UNCHANGED managerVars
  BY <1>8 DEF TakeCommand, FinishCommand, EndProcessor
<1>9. CASE ManagerStep
  BY <1>9 DEF ManagerStep
<1> QED
  BY <1>2, <1>3, <1>4, <1>5, <1>6, <1>7, <1>8, <1>9 DEF AnyStep, WorkerAction

LEMMA BetweenStep ==
  ASSUME TypeInv, CidsAreUnique, NoForgottenProcess, Survivors,
         NEW t \in Workers, vmOf[t] \in VmIds, BetweenOperations(t)
  PROVE  CidsAreUnique' /\ NoForgottenProcess' /\ Survivors'
<1> DEFINE v == vmOf[t]
<1>1. /\ ListedVms' \subseteq ListedVms
      /\ \A w \in ListedVms' : instances'[w] = instances[w]
      /\ \A w \in ListedVms : w \in ListedVms' \/ (w = v /\ instances' # instances)
  BY DEF BetweenOperations, ListedVms, TypeInv, TypeOK
<1>2. Owned' \subseteq Owned
  BY <1>1 DEF Owned
<1>3. \A u \in Workers : /\ Creating(u)' => Creating(u) /\ cidOf'[u] = cidOf[u]
                         /\ pc[u] = "booting" => pc'[u] = "booting" /\ cidOf'[u] = cidOf[u]
  BY DEF BetweenOperations, Creating
<1>4. replaced' = replaced /\ main' = main /\ victims' = victims /\ late' = late
      /\ running' \ spared' \subseteq running \ spared
  BY DEF BetweenOperations, Kill
<1>5. CidsAreUnique'
  BY <1>1, <1>2, <1>3, <1>4 DEF CidsAreUnique
<1>6. Survivors'
  BY <1>4 DEF Survivors
<1>7. NoForgottenProcess'
  <2> SUFFICES ASSUME main = "serving", NEW c \in running' \ spared'
               PROVE  c \in Owned' \cup replaced' \cup Booting'
    BY <1>4 DEF NoForgottenProcess, Booting
  <2>1. c \in Owned \cup replaced \cup Booting
    BY <1>4 DEF NoForgottenProcess, Booting
  <2>2. Booting \subseteq Booting'
    BY <1>3 DEF Booting
  <2>3. CASE c \in Owned
    <3>1. PICK w \in ListedVms : instances[w] = c
      BY <2>3 DEF Owned
    <3>2. CASE w \in ListedVms'
      BY <1>1, <3>1, <3>2 DEF Owned
    <3>3. CASE w = v /\ instances' # instances
      BY <3>1, <3>3 DEF BetweenOperations, Kill
    <3> QED
      BY <1>1, <3>2, <3>3
  <2> QED
    BY <1>4, <2>1, <2>2, <2>3
<1> QED
  BY <1>5, <1>6, <1>7

LEMMA ManagerKeptStep ==
  ASSUME CommandsInv, CidsAreUnique, NoForgottenProcess, Survivors, AnyStep
  PROVE  CidsAreUnique' /\ NoForgottenProcess' /\ Survivors'
<1>1. TypeInv
  BY DEF CommandsInv
<1>2. CASE [Next]_managerVars
  BY <1>1, <1>2, CidsStep, ProcessesStep, SurvivorsStep
<1>3. CASE \E t \in Workers : vmOf[t] \in VmIds /\ BetweenOperations(t)
  BY <1>1, <1>3, BetweenStep
<1>4. CASE UNCHANGED <<instances, running, pc, cidOf, main, victims, replaced, late, spared>>
  BY <1>4 DEF CidsAreUnique, NoForgottenProcess, Survivors, Creating, Owned, ListedVms
<1> QED
  BY <1>2, <1>3, <1>4, ManagerSteps

LEMMA ManagerKeptInit == CommandsInit => CidsAreUnique /\ NoForgottenProcess /\ Survivors
<1> SUFFICES ASSUME CommandsInit PROVE CidsAreUnique /\ NoForgottenProcess /\ Survivors
  OBVIOUS
<1> DEFINE top == FirstCid + Cardinality(VmIds) - 1
<1>1. PICK first \in [VmIds -> FirstCid .. top] :
         /\ \A v, w \in VmIds : first[v] = first[w] => v = w
         /\ instances = first /\ running = {first[v] : v \in VmIds}
  BY FirstVms DEF CommandsInit
<1>2. pc = [t \in Workers |-> "idle"] /\ main = "serving" /\ replaced = {}
  BY DEF CommandsInit
<1>3. Cardinality(VmIds) \in Nat
  BY DrawsFinite
<1>4. \A v \in VmIds : instances[v] # 0
  BY <1>1, <1>3 DEF FirstCid
<1>5. ListedVms = VmIds /\ Owned = running
  BY <1>1, <1>4 DEF ListedVms, Owned
<1>6. \A t \in Workers : ~Creating(t)
  BY <1>2 DEF Creating
<1>7. CidsAreUnique
  BY <1>1, <1>2, <1>5, <1>6 DEF CidsAreUnique
<1>8. NoForgottenProcess
  BY <1>5 DEF NoForgottenProcess
<1> QED
  BY <1>2, <1>7, <1>8 DEF Survivors

(* Retries that destroy and create VMs in the middle of a command keep what   *)
(* VmManager promises, with the exceptions stated there: unique context ids,  *)
(* an entry for every process that no other create displaced and no failed    *)
(* kill left, and nothing left to the shutdown that it would not find.        *)
THEOREM ManagerPromisesHold ==
  (CommandsSpec \/ ServingSpec)
    => [](CidsAreUnique /\ NoForgottenProcess /\ OnlyLateVmsSurvive)
<1> DEFINE Kept == CidsAreUnique /\ NoForgottenProcess /\ Survivors
           Promises == CidsAreUnique /\ NoForgottenProcess /\ OnlyLateVmsSurvive
<1>1. CommandsInit => Kept
  BY ManagerKeptInit
<1>2. CommandsInv /\ Kept /\ [EitherNext]_vars => Kept'
  BY ManagerKeptStep, Steps
<1>3. Kept => Promises
  BY DEF Survivors, OnlyLateVmsSurvive
<1> HIDE DEF Kept, Promises
<1>4. CommandsSpec => []Promises
  BY <1>1, <1>2, <1>3, Invariance, PTL DEF CommandsSpec
<1>5. ServingSpec => []Promises
  BY <1>1, <1>2, <1>3, Invariance, PTL DEF ServingSpec
<1> QED
  BY <1>4, <1>5 DEF Promises

-----------------------------------------------------------------------------
(* What a retry displaces.                                                   *)

\* A worker is known by the cid it drew last, and has none before its first draw.
CidOwners == \A t, u \in Workers : cidOf[t] # 0 /\ cidOf[t] = cidOf[u] => t = u
Undrawn == \A t \in Workers :
             op[t] = "idle" /\ pc[t] \in {"idle", "takeCid"} => cidOf[t] = 0

RivalInv == OnlyRivalsAreDisplaced /\ CidOwners /\ Undrawn

\* A step that draws no cid and puts no instance in the table.
LEMMA NoRival ==
  ASSUME TypeInv, TypeInv', RivalInv, cidOf' = cidOf,
         \A v \in VmIds : instances'[v] \in {0, instances[v]},
         \A u \in Workers : cidOf[u] # 0 => vmOf'[u] = vmOf[u],
         \A u \in Workers : Recreating(u)' => \/ Recreating(u) /\ vmOf'[u] = vmOf[u]
                                              \/ instances'[vmOf'[u]] = 0,
         \A u \in Workers : op'[u] = "idle" /\ pc'[u] \in {"idle", "takeCid"}
                              => op[u] = "idle" /\ pc[u] \in {"idle", "takeCid"}
  PROVE  RivalInv'
<1>1. CidOwners' /\ Undrawn'
  BY DEF RivalInv, CidOwners, Undrawn
<1>2. OnlyRivalsAreDisplaced'
  <2> SUFFICES ASSUME NEW t \in Workers, Recreating(t)', instances'[vmOf'[t]] # 0
               PROVE  \E u \in Workers \ {t} :
                        vmOf'[u] = vmOf'[t] /\ cidOf'[u] = instances'[vmOf'[t]]
    BY DEF OnlyRivalsAreDisplaced
  <2>1. Recreating(t) /\ vmOf'[t] = vmOf[t]
    OBVIOUS
  <2>2. vmOf[t] \in VmIds
    BY <2>1 DEF Recreating, Creating, TypeInv, HasVm
  <2>3. instances'[vmOf[t]] = instances[vmOf[t]]
    BY <2>1, <2>2
  <2>4. PICK u \in Workers \ {t} : vmOf[u] = vmOf[t] /\ cidOf[u] = instances[vmOf[t]]
    BY <2>1, <2>3 DEF RivalInv, OnlyRivalsAreDisplaced
  <2> QED
    BY <2>1, <2>3, <2>4
<1> QED
  BY <1>1, <1>2 DEF RivalInv

\* A retry draws a new cid only when the table no longer has its old one.
LEMMA DrawStep ==
  ASSUME CommandsInv, RivalInv, NEW t \in Workers, TakeCid(t), op' = op
  PROVE  RivalInv'
<1>1. /\ TypeInv /\ Places
  BY DEF CommandsInv
<1>2. /\ pc[t] = "takeCid" /\ pc' = [pc EXCEPT ![t] = "prepare"]
      /\ cidOf' = [cidOf EXCEPT ![t] = nextCid] /\ UNCHANGED <<instances, vmOf>>
  BY DEF TakeCid, DrawCid
<1>3. /\ cidOf'[t] = nextCid /\ nextCid # 0
      /\ \A u \in Workers : u # t => cidOf'[u] = cidOf[u]
      /\ \A u \in Workers : cidOf[u] # nextCid
  BY <1>1, <1>2 DEF TypeInv, TypeOK, FirstCid
<1>4. CidOwners'
  BY <1>3 DEF CidOwners, RivalInv
<1>5. Undrawn'
  BY <1>1, <1>2, <1>3 DEF Undrawn, RivalInv, TypeInv, TypeOK
<1>6. op[t] \in {"idle", "create"}
  BY <1>1, <1>2 DEF Places, Place
<1>7. OnlyRivalsAreDisplaced'
  <2> SUFFICES ASSUME NEW u \in Workers, Recreating(u)', instances[vmOf[u]] # 0
               PROVE  \E w \in Workers \ {u} :
                        vmOf[w] = vmOf[u] /\ cidOf'[w] = instances[vmOf[u]]
    BY <1>2 DEF OnlyRivalsAreDisplaced
  <2>1. Recreating(u)
    BY <1>1, <1>2 DEF Recreating, Creating, TypeInv, TypeOK
  <2>2. PICK w \in Workers \ {u} : vmOf[w] = vmOf[u] /\ cidOf[w] = instances[vmOf[u]]
    BY <2>1 DEF RivalInv, OnlyRivalsAreDisplaced
  <2>3. w # t
    <3> SUFFICES ASSUME w = t PROVE FALSE
      OBVIOUS
    <3>1. op[t] = "create"
      BY <1>2, <1>6, <2>2 DEF RivalInv, Undrawn
    <3>2. PICK x \in Workers \ {t} : cidOf[x] = instances[vmOf[t]]
      BY <1>2, <2>2, <3>1 DEF RivalInv, OnlyRivalsAreDisplaced, Recreating
    <3> QED
      BY <2>2, <3>2 DEF RivalInv, CidOwners
  <2> QED
    BY <1>3, <2>2, <2>3
<1> QED
  BY <1>4, <1>5, <1>7 DEF RivalInv

\* The worker that inserts its instance is the rival of all others.
LEMMA RivalInserts ==
  ASSUME CommandsInv, RivalInv, NEW t \in Workers, StartInstance(t)
  PROVE  RivalInv'
<1>1. TypeInv
  BY DEF CommandsInv
<1>2. /\ pc[t] = "booting" /\ pc' = [pc EXCEPT ![t] = "created"]
      /\ instances' = [instances EXCEPT ![vmOf[t]] = cidOf[t]]
      /\ UNCHANGED <<vmOf, cidOf, op>>
  BY DEF StartInstance, InsertInstance, taskVars
<1>3. vmOf[t] \in VmIds
  BY <1>1, <1>2 DEF TypeInv, HasVm
<1>4. CidOwners' /\ Undrawn'
  BY <1>1, <1>2 DEF RivalInv, CidOwners, Undrawn, TypeInv, TypeOK
<1>5. OnlyRivalsAreDisplaced'
  <2> SUFFICES ASSUME NEW u \in Workers, Recreating(u)', instances'[vmOf[u]] # 0
               PROVE  \E w \in Workers \ {u} :
                        vmOf[w] = vmOf[u] /\ cidOf[w] = instances'[vmOf[u]]
    BY <1>2 DEF OnlyRivalsAreDisplaced
  <2>1. u # t /\ Recreating(u)
    BY <1>1, <1>2 DEF Recreating, Creating, TypeInv, TypeOK
  <2>2. vmOf[u] \in VmIds
    BY <1>1, <2>1 DEF Recreating, Creating, TypeInv, HasVm
  <2>3. CASE vmOf[u] = vmOf[t]
    <3>1. instances'[vmOf[u]] = cidOf[t]
      BY <1>1, <1>2, <1>3, <2>3 DEF TypeInv, TypeOK
    <3> QED
      BY <2>1, <2>3, <3>1
  <2>4. CASE vmOf[u] # vmOf[t]
    <3>1. instances'[vmOf[u]] = instances[vmOf[u]]
      BY <1>1, <1>2, <2>2, <2>4 DEF TypeInv, TypeOK
    <3> QED
      BY <2>1, <3>1 DEF RivalInv, OnlyRivalsAreDisplaced
  <2> QED
    BY <2>3, <2>4
<1> QED
  BY <1>4, <1>5 DEF RivalInv

LEMMA RivalStep == ASSUME CommandsInv, RivalInv, AnyStep PROVE RivalInv'
<1>1. TypeInv /\ TypeInv' /\ TypeOK /\ CommandsTypeOK /\ Places
  BY ManagerStepType DEF CommandsInv, TypeInv
<1>2. ASSUME UNCHANGED <<instances, pc, vmOf, cidOf>>,
             \A u \in Workers : op'[u] \in {"idle", "create"} => op[u] = op'[u]
      PROVE  RivalInv'
  BY <1>1, <1>2, NoRival DEF Recreating, Creating
<1>3. ASSUME NEW t \in Workers,
             \/ Register(t) \/ SendCommand(t) \/ Answered(t) \/ Disconnected(t)
             \/ CheckHealth(t)
      PROVE  RivalInv'
  <2>1. UNCHANGED managerVars
    BY <1>3 DEF Register, SendCommand, Answered, ReturnWith, Disconnected, CheckHealth
  <2>2. \E o \in {"send", "wait", "done", "health", "destroy", "register"} :
           op' = [op EXCEPT ![t] = o]
    BY <1>3 DEF Register, SendCommand, Answered, ReturnWith, Disconnected, CheckHealth,
         Finished, RetryOr
  <2>3. \A u \in Workers : op'[u] \in {"idle", "create"} => op[u] = op'[u]
    BY <1>1, <2>2 DEF CommandsTypeOK
  <2> QED
    BY <1>2, <2>1, <2>3 DEF managerVars
<1>4. ASSUME NEW t \in Workers, DestroyUnhealthy(t) PROVE RivalInv'
  <2>1. /\ op[t] = "destroy" /\ op' = [op EXCEPT ![t] = "create"]
        /\ pc' = [pc EXCEPT ![t] = "takeCid"] /\ UNCHANGED <<vmOf, cidOf>>
        /\ DestroyInstance(vmOf[t])
    BY <1>4 DEF DestroyUnhealthy
  <2>2. vmOf[t] \in VmIds
    BY <1>1, <2>1 DEF Places, Place
  <2>3. /\ instances'[vmOf[t]] = 0
        /\ \A v \in VmIds : instances'[v] \in {0, instances[v]}
    BY <1>1, <2>1, <2>2 DEF DestroyInstance, ListedVms, TypeOK
  <2>4. \A u \in Workers : Recreating(u)' => \/ Recreating(u) /\ vmOf'[u] = vmOf[u]
                                             \/ instances'[vmOf'[u]] = 0
    BY <1>1, <2>1, <2>3 DEF Recreating, Creating, TypeOK, CommandsTypeOK
  <2>5. \A u \in Workers : op'[u] = "idle" /\ pc'[u] \in {"idle", "takeCid"}
                            => op[u] = "idle" /\ pc[u] \in {"idle", "takeCid"}
    BY <1>1, <2>1 DEF TypeOK, CommandsTypeOK
  <2> QED
    BY <1>1, <2>1, <2>3, <2>4, <2>5, NoRival
<1>5. ASSUME NEW t \in Workers, Recreated(t) PROVE RivalInv'
  <2>1. /\ op[t] = "create" /\ op' = [op EXCEPT ![t] = "register"]
        /\ pc' = [pc EXCEPT ![t] = "idle"] /\ UNCHANGED <<instances, vmOf, cidOf>>
    BY <1>5 DEF Recreated
  <2>2. \A u \in Workers : /\ Recreating(u)' => Recreating(u)
                           /\ op'[u] = "idle" => op[u] = "idle" /\ pc'[u] = pc[u]
    BY <1>1, <2>1 DEF Recreating, Creating, TypeOK, CommandsTypeOK
  <2>3. \A u \in Workers : op'[u] = "idle" /\ pc'[u] \in {"idle", "takeCid"}
                            => op[u] = "idle" /\ pc[u] \in {"idle", "takeCid"}
    BY <2>2
  <2>4. \A v \in VmIds : instances'[v] \in {0, instances[v]}
    BY <2>1
  <2> QED
    BY <1>1, <2>1, <2>2, <2>3, <2>4, NoRival
<1>6. ASSUME NEW t \in Workers, NEW v \in VmIds, DestroyVm(t, v) PROVE RivalInv'
  <2>1. /\ op[t] = "idle" /\ pc[t] = "idle" /\ UNCHANGED <<cidOf, op>>
        /\ vmOf' = [vmOf EXCEPT ![t] = v] /\ DestroyInstance(v)
        /\ pc'[t] \in {"destroyed", "destroyFailed"}
        /\ \A u \in Workers : u # t => pc'[u] = pc[u]
    BY <1>1, <1>6 DEF DestroyVm, Destroy, taskVars, TypeOK
  <2>2. cidOf[t] = 0
    BY <2>1 DEF RivalInv, Undrawn
  <2>3. \A w \in VmIds : instances'[w] \in {0, instances[w]}
    BY <1>1, <2>1 DEF DestroyInstance, ListedVms, TypeOK
  <2>4. \A u \in Workers : u # t => vmOf'[u] = vmOf[u]
    BY <1>1, <2>1 DEF TypeOK
  <2>5. \A u \in Workers : Recreating(u)' => Recreating(u) /\ vmOf'[u] = vmOf[u]
    BY <2>1, <2>4 DEF Recreating, Creating
  <2>6. \A u \in Workers : op'[u] = "idle" /\ pc'[u] \in {"idle", "takeCid"}
                            => op[u] = "idle" /\ pc[u] \in {"idle", "takeCid"}
    BY <2>1
  <2> QED
    BY <1>1, <2>1, <2>2, <2>3, <2>4, <2>5, <2>6, NoRival
<1>7. ASSUME NEW t \in Workers, NEW v \in VmIds,
             \/ \E k \in Kinds : BeginCommand(t, v, k)
             \/ op[t] = "idle" /\ BeginCreate(t, v) /\ UNCHANGED <<taskVars, channelVars>>
      PROVE  RivalInv'
  <2>1. /\ op[t] = "idle" /\ pc[t] = "idle" /\ UNCHANGED <<instances, cidOf>>
        /\ vmOf' = [vmOf EXCEPT ![t] = v]
        /\ \/ pc' = pc /\ op' = [op EXCEPT ![t] = "register"]
           \/ pc' = [pc EXCEPT ![t] = "takeCid"] /\ op' = op
    BY <1>7 DEF BeginCommand, BeginCreate, taskVars
  <2>2. cidOf[t] = 0
    BY <2>1 DEF RivalInv, Undrawn
  <2>3. /\ op'[t] \in {"idle", "register"}
        /\ \A u \in Workers : u # t => /\ vmOf'[u] = vmOf[u] /\ op'[u] = op[u]
                                       /\ pc'[u] = pc[u]
    BY <1>1, <2>1 DEF TypeOK, CommandsTypeOK
  <2>4. \A u \in Workers : Recreating(u)' => Recreating(u) /\ vmOf'[u] = vmOf[u]
    BY <2>3 DEF Recreating, Creating
  <2>5. \A u \in Workers : op'[u] = "idle" /\ pc'[u] \in {"idle", "takeCid"}
                            => op[u] = "idle" /\ pc[u] \in {"idle", "takeCid"}
    BY <2>1, <2>3
  <2> QED
    BY <1>1, <2>1, <2>2, <2>3, <2>4, <2>5, NoRival
<1>8. CASE ClearVms
  <2>1. instances' = [v \in VmIds |-> 0] /\ UNCHANGED <<pc, vmOf, cidOf, op>>
    BY <1>8 DEF ClearVms, ClearInstances, workerVars, taskVars
  <2> QED
    BY <1>1, <2>1, NoRival DEF Recreating, Creating
<1>9. ASSUME NEW c \in Cids, TakeCommand(c) \/ FinishCommand(c) \/ EndProcessor(c)
      PROVE  RivalInv'
  <2>1. UNCHANGED managerVars /\ op' = op
    BY <1>9 DEF TakeCommand, FinishCommand, EndProcessor, taskVars
  <2> QED
    BY <1>2, <2>1 DEF managerVars
<1>10. ASSUME NEW t \in Workers, Prepare(t) \/ FailCreate(t) \/ Spawn(t), op' = op
       PROVE  RivalInv'
  <2>1. /\ UNCHANGED <<instances, vmOf, cidOf>>
        /\ pc[t] \in {"prepare", "spawn"}
        /\ \E p \in {"spawn", "booting", "createFailed"} : pc' = [pc EXCEPT ![t] = p]
    BY <1>10 DEF Prepare, FailCreate, Spawn
  <2>2. \A u \in Workers : /\ Recreating(u)' => Recreating(u)
                           /\ pc'[u] \in {"idle", "takeCid"} => pc[u] = pc'[u]
    BY <1>1, <1>10, <2>1 DEF Recreating, Creating, TypeOK
  <2>3. \A u \in Workers : op'[u] = "idle" /\ pc'[u] \in {"idle", "takeCid"}
                            => op[u] = "idle" /\ pc[u] \in {"idle", "takeCid"}
    BY <1>10, <2>2
  <2>4. \A v \in VmIds : instances'[v] \in {0, instances[v]}
    BY <2>1
  <2> QED
    BY <1>1, <2>1, <2>2, <2>3, <2>4, NoRival
<1>11. CASE ManagerStep
  <2>1. op' = op /\ UNCHANGED <<taskVars, channelVars>>
    BY <1>11 DEF ManagerStep, taskVars
  <2>2. CASE \E t \in Workers, v \in VmIds : op[t] = "idle" /\ BeginCreate(t, v)
    BY <1>7, <2>1, <2>2
  <2>3. CASE \E t \in Workers : TakeCid(t) \/ Prepare(t) \/ FailCreate(t) \/ Spawn(t)
    BY <1>10, <2>1, <2>3, DrawStep
  <2>4. CASE UNCHANGED <<nextCid, instances, pc, vmOf, cidOf>>
    BY <1>2, <2>1, <2>4
  <2> QED
    BY <1>11, <2>2, <2>3, <2>4 DEF ManagerStep
<1> QED
  BY <1>3, <1>4, <1>5, <1>6, <1>7, <1>8, <1>9, <1>11, RivalInserts DEF AnyStep, WorkerAction

(* What the create of a retry displaces is the VM of another worker's create: *)
(* a retry displaces nothing of its own and nothing it was to destroy, for    *)
(* any workers, VMs and number of retries.                                    *)
THEOREM RivalsAreDisplaced == (CommandsSpec \/ ServingSpec) => []OnlyRivalsAreDisplaced
<1>1. CommandsInit => RivalInv
  BY DEF CommandsInit, RivalInv, OnlyRivalsAreDisplaced, Recreating, CidOwners, Undrawn
<1>2. CommandsInv /\ RivalInv /\ [EitherNext]_vars => RivalInv'
  BY RivalStep, Steps
<1>3. RivalInv => OnlyRivalsAreDisplaced
  BY DEF RivalInv
<1>4. CommandsSpec => []OnlyRivalsAreDisplaced
  BY <1>1, <1>2, <1>3, Invariance, PTL DEF CommandsSpec
<1>5. ServingSpec => []OnlyRivalsAreDisplaced
  BY <1>1, <1>2, <1>3, Invariance, PTL DEF ServingSpec
<1> QED
  BY <1>4, <1>5
=============================================================================

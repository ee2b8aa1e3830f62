-------------------------- MODULE VmManagerProofs --------------------------
(***************************************************************************)
(* Proofs about VmManager, for any number of worker threads and VM names.  *)
(*                                                                         *)
(* Uniqueness of context ids needs the three places a cid can be (in the   *)
(* hands of a thread, in the table, displaced from it) to be disjoint and  *)
(* below the counter; what survives the host needs to be followed through  *)
(* main's shutdown sequence.                                               *)
(***************************************************************************)
EXTENDS VmManager, TLAPS

\* A thread that creates a VM has its name, and from the drawing on its cid.
HasVm == \A t \in Workers :
           pc[t] \in {"takeCid", "prepare", "spawn", "booting"} => vmOf[t] \in VmIds
HasCid == \A t \in Workers : Creating(t) => cidOf[t] # 0

TypeInv == TypeOK /\ HasVm /\ HasCid

\* From the listing of the processes on, a process is about to be killed, late, or
\* one that a tool has failed on.
Survivors == /\ main = "killing" => running \subseteq victims \cup late \cup spared
             /\ main \in {"joining", "ended"} => running \subseteq late \cup spared

-----------------------------------------------------------------------------
LEMMA TypeInit == Init => TypeInv
BY DEF Init, TypeInv, TypeOK, HasVm, HasCid, Creating, FirstCid, WorkerState, MainState

LEMMA TypeStep == TypeInv /\ [Next]_managerVars => TypeInv'
<1> SUFFICES ASSUME TypeInv, [Next]_managerVars PROVE TypeInv'
  OBVIOUS
<1> USE DEF TypeInv, TypeOK, HasVm, HasCid, Creating, HostAlive, FirstCid, workerVars
<1>1. ASSUME NEW t \in Workers, NEW v \in VmIds, BeginCreate(t, v)
      PROVE  TypeInv'
  BY <1>1 DEF BeginCreate, WorkerState
<1>2. ASSUME NEW t \in Workers, NEW v \in VmIds, Destroy(t, v)
      PROVE  TypeInv'
  BY <1>2, ZenonT(40) DEF Destroy, DestroyInstance, Kill, WorkerState
<1>3. ASSUME NEW t \in Workers, TakeCid(t)
      PROVE  TypeInv'
  BY <1>3 DEF TakeCid, DrawCid, WorkerState
<1>4. ASSUME NEW t \in Workers, Prepare(t)
      PROVE  TypeInv'
  BY <1>4 DEF Prepare, WorkerState
<1>5. ASSUME NEW t \in Workers, FailCreate(t)
      PROVE  TypeInv'
  BY <1>5 DEF FailCreate, WorkerState
<1>6. ASSUME NEW t \in Workers, Spawn(t)
      PROVE  TypeInv'
  <2>1. cidOf[t] \in FirstCid .. nextCid - 1
    BY <1>6 DEF Spawn
  <2>2. /\ running' \in SUBSET (FirstCid .. nextCid - 1) /\ running \subseteq running'
        /\ late' \in SUBSET (FirstCid .. nextCid - 1)
    BY <1>6, <2>1, ZenonT(40) DEF Spawn
  <2>3. /\ pc' = [pc EXCEPT ![t] = "booting"] /\ pc[t] = "spawn"
        /\ UNCHANGED <<nextCid, instances, image, vmOf, cidOf, main, victims, replaced, spared>>
    BY <1>6 DEF Spawn
  <2> QED
    BY <2>2, <2>3 DEF WorkerState
<1>7. ASSUME NEW t \in Workers, InsertInstance(t)
      PROVE  TypeInv'
  <2>1. cidOf[t] \in FirstCid .. nextCid - 1 /\ vmOf[t] \in VmIds
    BY <1>7 DEF InsertInstance
  <2>2. replaced' \in SUBSET (FirstCid .. nextCid - 1)
    <3>1. instances[vmOf[t]] \in {0} \cup FirstCid .. nextCid - 1
      BY <2>1
    <3> QED
      BY <1>7, <3>1 DEF InsertInstance
  <2>3. instances' \in [VmIds -> {0} \cup FirstCid .. nextCid - 1]
    BY <1>7, <2>1 DEF InsertInstance
  <2>4. /\ pc' = [pc EXCEPT ![t] = "created"]
        /\ UNCHANGED <<nextCid, running, image, vmOf, cidOf, main, victims, late, spared>>
    BY <1>7 DEF InsertInstance
  <2> QED
    BY <2>2, <2>3, <2>4 DEF WorkerState
<1>8. ASSUME NEW c \in running, FirecrackerExits(c)
      PROVE  TypeInv'
  BY <1>8 DEF FirecrackerExits
<1>9. CASE BuildImage
  BY <1>9 DEF BuildImage
<1>10. CASE SetShutdownFlag
  BY <1>10 DEF SetShutdownFlag, MainState
<1>11. CASE ListInstances
  BY <1>11 DEF ListInstances, MainState, Owned, ListedVms
<1>12. ASSUME NEW c \in victims, TerminateVictim(c)
       PROVE  TypeInv'
  BY <1>12 DEF TerminateVictim, Kill
<1>13. CASE ClearInstances
  BY <1>13 DEF ClearInstances, MainState
<1>14. CASE FindProcesses
  BY <1>14 DEF FindProcesses, ListProcesses, MainState
<1>15. CASE SignalAgents \/ Return
  BY <1>15, ZenonT(40) DEF SignalAgents, Return, MainState
<1>16. CASE Ended \/ UNCHANGED managerVars
  BY <1>16, ZenonT(40) DEF Ended, managerVars
<1> QED
  BY <1>1, <1>2, <1>3, <1>4, <1>5, <1>6, <1>7, <1>8, <1>9, <1>10, <1>11,
     <1>12, <1>13, <1>14, <1>15, <1>16 DEF Next, CreateStep, MainStep

(* Every variable holds a value of its type, and no cid is used that the     *)
(* counter has not given out.                                                *)
THEOREM TypeCorrect == Spec => []TypeOK
<1>1. TypeInv => TypeOK
  BY DEF TypeInv
<1> QED
  BY <1>1, TypeInit, TypeStep, PTL DEF Spec

-----------------------------------------------------------------------------
(* Context ids.                                                              *)

\* A cid in the table, displaced from it or used for a process was given out.
LEMMA CidsAreDrawn ==
  ASSUME TypeInv
  PROVE  /\ Owned \cup replaced \subseteq FirstCid .. nextCid - 1
         /\ \A t \in Workers : Creating(t) => cidOf[t] \in FirstCid .. nextCid - 1
BY DEF TypeInv, TypeOK, HasCid, Owned, ListedVms

LEMMA CidsInit == Init => CidsAreUnique
BY DEF Init, CidsAreUnique, Creating, Owned, ListedVms

LEMMA CidsStep == TypeInv /\ CidsAreUnique /\ [Next]_managerVars => CidsAreUnique'
<1> SUFFICES ASSUME TypeInv, CidsAreUnique, [Next]_managerVars PROVE CidsAreUnique'
  OBVIOUS
<1> DEFINE Kept == /\ instances' = instances /\ replaced' = replaced
                   /\ \A u \in Workers : Creating(u)' => Creating(u) /\ cidOf'[u] = cidOf[u]
<1>1. ASSUME Kept PROVE CidsAreUnique'
  BY <1>1 DEF CidsAreUnique, Owned, ListedVms
<1> HIDE DEF Kept
<1>2. ASSUME NEW t \in Workers, TakeCid(t) PROVE CidsAreUnique'
  <2>1. /\ cidOf' = [cidOf EXCEPT ![t] = nextCid] /\ pc' = [pc EXCEPT ![t] = "prepare"]
        /\ UNCHANGED <<instances, replaced>>
    BY <1>2 DEF TakeCid, DrawCid
  <2>2. nextCid \notin Owned \cup replaced
    BY CidsAreDrawn DEF TypeInv, TypeOK
  <2>3. \A u \in Workers : Creating(u) => cidOf[u] # nextCid
    BY CidsAreDrawn DEF TypeInv, TypeOK
  <2>4. cidOf'[t] = nextCid
    BY <2>1 DEF TypeInv, TypeOK
  <2>5. \A u \in Workers \ {t} : Creating(u)' => Creating(u) /\ cidOf'[u] = cidOf[u]
    BY <2>1 DEF TypeInv, TypeOK, Creating
  <2>6. Owned' = Owned /\ ListedVms' = ListedVms
    BY <2>1 DEF Owned, ListedVms
  <2> QED
    BY <2>1, <2>2, <2>3, <2>4, <2>5, <2>6 DEF CidsAreUnique
<1>3. ASSUME NEW t \in Workers, InsertInstance(t) PROVE CidsAreUnique'
  <2> DEFINE v == vmOf[t]
             c == cidOf[t]
             old == instances[v]
  <2>1. v \in VmIds /\ c # 0 /\ Creating(t)
    BY <1>3 DEF InsertInstance, TypeInv, HasVm, HasCid, Creating
  <2>2. /\ instances' = [instances EXCEPT ![v] = c] /\ replaced' = replaced \cup ({old} \ {0})
        /\ cidOf' = cidOf /\ pc' = [pc EXCEPT ![t] = "created"]
    BY <1>3 DEF InsertInstance
  <2>3. /\ ListedVms' = ListedVms \cup {v}
        /\ \A w \in VmIds : instances'[w] = IF w = v THEN c ELSE instances[w]
    BY <2>1, <2>2 DEF ListedVms, TypeInv, TypeOK
  <2>4. c \notin Owned \cup replaced
    BY <2>1 DEF CidsAreUnique
  <2>5. \A w \in ListedVms : instances[w] \in Owned
    BY DEF Owned
  <2>6. \A u \in Workers : Creating(u)' => Creating(u) /\ u # t
    BY <2>2 DEF Creating, TypeInv, TypeOK
  <2>7. old = 0 \/ (old \in Owned /\ v \in ListedVms)
    BY <2>1 DEF Owned, ListedVms
  <2>8. \A x, y \in ListedVms' : instances'[x] = instances'[y] => x = y
    <3> SUFFICES ASSUME NEW x \in ListedVms', NEW y \in ListedVms',
                        instances'[x] = instances'[y], x # y
                 PROVE  FALSE
      OBVIOUS
    <3>1. CASE x # v /\ y # v
      BY <2>3, <3>1 DEF CidsAreUnique, ListedVms
    <3>2. CASE x = v
      <4>1. y \in ListedVms /\ instances[y] = c
        BY <2>3, <3>2 DEF ListedVms
      <4> QED
        BY <2>4, <2>5, <4>1
    <3>3. CASE y = v
      <4>1. x \in ListedVms /\ instances[x] = c
        BY <2>3, <3>3 DEF ListedVms
      <4> QED
        BY <2>4, <2>5, <4>1
    <3> QED
      BY <3>1, <3>2, <3>3
  <2>9. \A x \in Owned' : x = c \/ (x \in Owned /\ x # old)
    <3> SUFFICES ASSUME NEW w \in ListedVms' 
                 PROVE  instances'[w] = c \/ (instances'[w] \in Owned /\ instances'[w] # old)
      BY DEF Owned
    <3> QED
      BY <2>1, <2>3, <2>5, <2>7 DEF CidsAreUnique, ListedVms
  <2>10. Owned' \cap replaced' = {}
    BY <2>2, <2>4, <2>7, <2>9 DEF CidsAreUnique
  <2>11. \A u \in Workers : Creating(u)' => cidOf'[u] \notin Owned' \cup replaced'
    BY <2>1, <2>2, <2>6, <2>7, <2>9 DEF CidsAreUnique
  <2>12. \A u, w \in Workers : Creating(u)' /\ Creating(w)' /\ cidOf'[u] = cidOf'[w] => u = w
    BY <2>2, <2>6 DEF CidsAreUnique
  <2> QED
    BY <2>8, <2>10, <2>11, <2>12 DEF CidsAreUnique
<1>4. ASSUME NEW t \in Workers, NEW v \in VmIds, Destroy(t, v) PROVE CidsAreUnique'
  <2>1. instances' \in {instances, [instances EXCEPT ![v] = 0]} /\ replaced' = replaced
    BY <1>4 DEF Destroy, DestroyInstance
  <2>2. /\ ListedVms' \subseteq ListedVms
        /\ \A w \in ListedVms' : instances'[w] = instances[w]
    BY <2>1 DEF ListedVms, TypeInv, TypeOK
  <2>3. Owned' \subseteq Owned
    BY <2>2 DEF Owned
  <2>4. \A u \in Workers : Creating(u)' => Creating(u) /\ cidOf'[u] = cidOf[u]
    BY <1>4 DEF Destroy, Creating, TypeInv, TypeOK
  <2> QED
    BY <2>1, <2>2, <2>3, <2>4 DEF CidsAreUnique
<1>5. CASE ClearInstances
  <2>1. ListedVms' = {} /\ replaced' = replaced /\ UNCHANGED <<pc, cidOf>>
    BY <1>5 DEF ClearInstances, ListedVms, workerVars
  <2>2. Owned' = {}
    BY <2>1 DEF Owned
  <2> QED
    BY <2>1, <2>2 DEF CidsAreUnique, Creating
<1>6. ASSUME NEW t \in Workers, NEW v \in VmIds, BeginCreate(t, v) PROVE Kept
  BY <1>6 DEF BeginCreate, Creating, TypeInv, TypeOK, Kept
<1>7. ASSUME NEW t \in Workers, Prepare(t) \/ FailCreate(t) \/ Spawn(t) PROVE Kept
  BY <1>7 DEF Prepare, FailCreate, Spawn, Creating, TypeInv, TypeOK, Kept
<1>8. ASSUME NEW c, FirecrackerExits(c) \/ TerminateVictim(c) PROVE Kept
  BY <1>8 DEF FirecrackerExits, TerminateVictim, workerVars, Creating, Kept
<1>9. CASE \/ BuildImage \/ SetShutdownFlag \/ ListInstances \/ FindProcesses
           \/ SignalAgents \/ Return \/ Ended \/ UNCHANGED managerVars
  <2>1. UNCHANGED <<instances, replaced, pc, cidOf>>
    BY <1>9 DEF BuildImage, SetShutdownFlag, ListInstances, FindProcesses, SignalAgents,
         Return, Ended, workerVars, managerVars
  <2> QED
    BY <1>1, <2>1 DEF Creating, Kept
<1> QED
  BY <1>1, <1>2, <1>3, <1>4, <1>5, <1>6, <1>7, <1>8, <1>9 DEF Next, CreateStep, MainStep

(* No two VMs share a vsock context id, in whatever order threads create,    *)
(* replace and destroy them.                                                 *)
THEOREM CidUniqueness == Spec => []CidsAreUnique
BY TypeInit, TypeStep, CidsInit, CidsStep, PTL DEF Spec

-----------------------------------------------------------------------------
(* Processes.                                                                *)

\* The cids of the processes that are about to reach the table.
Booting == {cidOf[t] : t \in {u \in Workers : pc[u] = "booting"}}

LEMMA ProcessesStep ==
  TypeInv /\ NoForgottenProcess /\ [Next]_managerVars => NoForgottenProcess'
<1> SUFFICES ASSUME TypeInv, NoForgottenProcess, [Next]_managerVars, main' = "serving"
             PROVE  running' \subseteq Owned' \cup replaced' \cup spared' \cup Booting'
  BY DEF NoForgottenProcess, Booting
<1> DEFINE Goal == running' \subseteq Owned' \cup replaced' \cup spared' \cup Booting'
<1>1. main = "serving"
  BY DEF Next, MainStep, CreateStep, BeginCreate, Destroy, TakeCid, Prepare, FailCreate,
         Spawn, InsertInstance, FirecrackerExits, BuildImage, SetShutdownFlag,
         ListInstances, TerminateVictim, ClearInstances, FindProcesses, SignalAgents,
         Return, Ended, managerVars
<1>2. running \subseteq Owned \cup replaced \cup spared \cup Booting
  BY <1>1 DEF NoForgottenProcess, Booting
<1>3. ASSUME NEW t \in Workers, Spawn(t) PROVE Goal
  <2>1. Owned' = Owned /\ UNCHANGED <<replaced, spared, cidOf>>
    BY <1>3 DEF Spawn, Owned, ListedVms
  <2>2. pc' = [pc EXCEPT ![t] = "booting"]
    BY <1>3 DEF Spawn
  <2>3. Booting \cup {cidOf[t]} \subseteq Booting'
    BY <2>1, <2>2 DEF Booting, TypeInv, TypeOK
  <2>4. running' \subseteq running \cup {cidOf[t]}
    BY <1>3 DEF Spawn
  <2> QED
    BY <1>2, <2>1, <2>3, <2>4
<1>4. ASSUME NEW t \in Workers, InsertInstance(t) PROVE Goal
  <2> DEFINE v == vmOf[t]
  <2>1. /\ v \in VmIds /\ cidOf[t] # 0 /\ UNCHANGED <<cidOf, running, spared>>
        /\ instances' = [instances EXCEPT ![v] = cidOf[t]]
        /\ replaced' = replaced \cup ({instances[v]} \ {0})
        /\ pc' = [pc EXCEPT ![t] = "created"]
    BY <1>4 DEF InsertInstance, TypeInv, HasVm, HasCid, Creating
  <2>2. cidOf[t] \in Owned'
    BY <2>1 DEF Owned, ListedVms, TypeInv, TypeOK
  <2>3. Owned \subseteq Owned' \cup replaced'
    <3> SUFFICES ASSUME NEW w \in ListedVms
                 PROVE  instances[w] \in Owned' \cup replaced'
      BY DEF Owned
    <3>1. CASE w = v
      BY <2>1, <3>1 DEF ListedVms
    <3>2. CASE w # v
      <4>1. w \in ListedVms' /\ instances'[w] = instances[w]
        BY <2>1, <3>2 DEF ListedVms, TypeInv, TypeOK
      <4> QED
        BY <4>1 DEF Owned
    <3> QED
      BY <3>1, <3>2
  <2>4. Booting \subseteq Booting' \cup {cidOf[t]}
    BY <2>1 DEF Booting, TypeInv, TypeOK
  <2> QED
    BY <1>2, <2>1, <2>2, <2>3, <2>4
<1>5. ASSUME NEW t \in Workers, NEW v \in VmIds, Destroy(t, v) PROVE Goal
  <2>1. replaced' = replaced /\ cidOf' = cidOf
    BY <1>5 DEF Destroy
  <2>2. Booting \subseteq Booting'
    BY <1>5 DEF Destroy, Booting, TypeInv, TypeOK
  <2>3. CASE v \in ListedVms
    <3>1. /\ instances' = [instances EXCEPT ![v] = 0]
          /\ running' \ spared' \subseteq (running \ spared) \ {instances[v]}
      BY <1>5, <2>3 DEF Destroy, DestroyInstance, Kill
    <3>2. Owned \subseteq Owned' \cup {instances[v]}
      <4> SUFFICES ASSUME NEW w \in ListedVms, w # v
                   PROVE  instances[w] \in Owned'
        BY DEF Owned
      <4>1. w \in ListedVms' /\ instances'[w] = instances[w]
        BY <3>1 DEF ListedVms, TypeInv, TypeOK
      <4> QED
        BY <4>1 DEF Owned
    <3> QED
      BY <1>2, <2>1, <2>2, <3>1, <3>2
  <2>4. CASE v \notin ListedVms
    <3>1. UNCHANGED <<instances, running, spared>>
      BY <1>5, <2>4 DEF Destroy, DestroyInstance
    <3> QED
      BY <1>2, <2>1, <2>2, <3>1 DEF Owned, ListedVms
  <2> QED
    BY <2>3, <2>4
<1>6. ASSUME running' \ spared' \subseteq running \ spared, UNCHANGED <<instances, replaced>>,
             Booting \subseteq Booting'
      PROVE  Goal
  BY <1>2, <1>6 DEF Owned, ListedVms
<1>7. ASSUME NEW t \in Workers,
             \/ \E v \in VmIds : BeginCreate(t, v)
             \/ TakeCid(t) \/ Prepare(t) \/ FailCreate(t)
      PROVE  Goal
  <2>1. UNCHANGED <<running, instances, replaced, spared>>
    BY <1>7 DEF BeginCreate, TakeCid, DrawCid, Prepare, FailCreate
  <2>2. \A u \in Workers : pc[u] = "booting" => pc'[u] = "booting" /\ cidOf'[u] = cidOf[u]
    BY <1>7 DEF BeginCreate, TakeCid, DrawCid, Prepare, FailCreate, TypeInv, TypeOK
  <2>3. Booting \subseteq Booting'
    BY <2>2 DEF Booting
  <2> QED
    BY <1>6, <2>1, <2>3
<1>8. CASE (\E c \in running : FirecrackerExits(c)) \/ BuildImage \/ UNCHANGED managerVars
  <2>1. running' \ spared' \subseteq running \ spared /\ UNCHANGED <<instances, replaced, pc, cidOf>>
    BY <1>8 DEF FirecrackerExits, BuildImage, workerVars, managerVars
  <2> QED
    BY <1>6, <2>1 DEF Booting
<1>9. ~ (MainStep \/ SetShutdownFlag \/ Ended)
  BY <1>1 DEF MainStep, SetShutdownFlag, ListInstances, TerminateVictim, ClearInstances,
         FindProcesses, SignalAgents, Return, Ended
<1> QED
  BY <1>3, <1>4, <1>5, <1>7, <1>8, <1>9 DEF Next, CreateStep

(* While the host serves it knows of every process, but for those displaced    *)
(* by a later create of the same name and those a failed kill left alive.      *)
THEOREM ProcessesAreKnown == Spec => []NoForgottenProcess
<1>1. Init => NoForgottenProcess
  BY DEF Init, NoForgottenProcess
<1> QED
  BY <1>1, TypeInit, TypeStep, ProcessesStep, PTL DEF Spec

LEMMA SurvivorsStep == Survivors /\ [Next]_managerVars => Survivors'
<1> SUFFICES ASSUME Survivors, [Next]_managerVars PROVE Survivors'
  OBVIOUS
<1> USE DEF Survivors, workerVars
<1>1. ASSUME NEW t \in Workers, CreateStep(t) PROVE Survivors'
  BY <1>1 DEF CreateStep, TakeCid, DrawCid, Prepare, FailCreate, Spawn, InsertInstance, HostAlive
<1>2. ASSUME NEW t \in Workers, NEW v \in VmIds, BeginCreate(t, v) \/ Destroy(t, v)
      PROVE  Survivors'
  BY <1>2 DEF BeginCreate, Destroy, DestroyInstance, Kill
<1>3. ASSUME NEW c, FirecrackerExits(c) \/ TerminateVictim(c) PROVE Survivors'
  BY <1>3 DEF FirecrackerExits, TerminateVictim, Kill
<1>4. CASE FindProcesses \/ SignalAgents \/ Return
  BY <1>4 DEF FindProcesses, ListProcesses, SignalAgents, Return
<1>5. CASE BuildImage \/ SetShutdownFlag \/ ListInstances \/ ClearInstances
  BY <1>5 DEF BuildImage, SetShutdownFlag, ListInstances, ClearInstances
<1>6. CASE Ended \/ UNCHANGED managerVars
  BY <1>6 DEF Ended, managerVars
<1> QED
  BY <1>1, <1>2, <1>3, <1>4, <1>5, <1>6 DEF Next, MainStep

(* Only a VM started after the last listing outlives the host, or one that   *)
(* pgrep or kill failed on the last time it should have ended it.            *)
THEOREM LateVmsSurvive == Spec => []OnlyLateVmsSurvive
<1>1. Init => Survivors
  BY DEF Init, Survivors
<1>2. Survivors => OnlyLateVmsSurvive
  BY DEF Survivors, OnlyLateVmsSurvive
<1> QED
  BY <1>1, <1>2, SurvivorsStep, PTL DEF Spec
=============================================================================

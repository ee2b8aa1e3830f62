----------------------------- MODULE VmManager -----------------------------
(***************************************************************************)
(* The life of Firecracker VMs in VmManager (vm_functions/mod.rs and       *)
(* firecracker.rs): the table of instances, the counter of vsock context   *)
(* ids, the processes, and main's shutdown sequence.                       *)
(*                                                                         *)
(* Worker threads run create_vm and destroy_vm concurrently.  The table    *)
(* and the counter each have a lock; a process is spawned under neither,   *)
(* two seconds before its instance reaches the table.  A process is named  *)
(* by the context id it was started with.  Processes are listed and killed *)
(* by the programs pgrep and kill, whose failures the code ignores.        *)
(***************************************************************************)
EXTENDS Naturals, FiniteSets

CONSTANTS Workers,    \* threads started by host functions, one operation each
          VmIds,      \* the names clients give to VMs
          None,       \* not a VM
          ToolsMayFail  \* whether pgrep and kill may fail

FirstCid == 100

ASSUME NoVmAssumption == None \notin VmIds
ASSUME ToolsAssumption == ToolsMayFail \in BOOLEAN

VARIABLES
  nextCid,            \* VmManager.next_cid
  instances,          \* VmManager.instances, the cid of each VM; 0: no entry
  running,            \* the firecracker processes that are alive
  image,              \* whether firecracker/rootfs.squashfs exists
  pc,                 \* where each worker is
  vmOf, cidOf,        \* the vm_id and the cid of each worker
  main,               \* where the shutdown sequence of main is
  victims,            \* processes that shutdown or the cleanup goes on to kill
  replaced,           \* history: processes whose instance was overwritten
  late,               \* history: processes started after the last listing
  spared              \* history: processes pgrep or kill failed on the last time

workerVars == <<pc, vmOf, cidOf>>
managerVars == <<nextCid, instances, running, image, pc, vmOf, cidOf,
                 main, victims, replaced, late, spared>>

WorkerState == {"idle", "takeCid", "prepare", "spawn", "booting", "created",
                "createFailed", "destroyed", "destroyFailed"}
MainState == {"serving", "flagged", "terminating", "listing", "killing",
              "joining", "ended"}

Init ==
  /\ nextCid = FirstCid
  /\ instances = [v \in VmIds |-> 0]
  /\ running = {}
  /\ image = TRUE
  /\ pc = [t \in Workers |-> "idle"]
  /\ vmOf = [t \in Workers |-> None]
  /\ cidOf = [t \in Workers |-> 0]
  /\ main = "serving"
  /\ victims = {}
  /\ replaced = {}
  /\ late = {}
  /\ spared = {}

ShuttingDown == main # "serving"     \* VmManager.shutdown_flag

\* Worker threads are detached: they end with the process and not before.
HostAlive == main # "ended"

\* list_vms
ListedVms == {v \in VmIds : instances[v] # 0}
Owned == {instances[v] : v \in ListedVms}

-----------------------------------------------------------------------------
(* create_vm                                                                *)

BeginCreate(t, v) ==
  /\ HostAlive
  /\ pc[t] = "idle"
  /\ pc' = [pc EXCEPT ![t] = "takeCid"]
  /\ vmOf' = [vmOf EXCEPT ![t] = v]
  /\ UNCHANGED <<nextCid, instances, running, image, cidOf, main, victims,
                 replaced, late, spared>>

\* Mutant: the next cid is derived from the table of instances.
CidFromTable(t) ==
  /\ cidOf' = [cidOf EXCEPT ![t] = FirstCid + Cardinality(ListedVms)]
  /\ UNCHANGED nextCid

\* Read and increment under the lock of next_cid.
DrawCid(t) ==
  /\ cidOf' = [cidOf EXCEPT ![t] = nextCid]
  /\ nextCid' = nextCid + 1

TakeCid(t) ==
  /\ HostAlive
  /\ pc[t] = "takeCid"
  /\ DrawCid(t)
  /\ pc' = [pc EXCEPT ![t] = "prepare"]
  /\ UNCHANGED <<instances, running, image, vmOf, main, victims, replaced, late, spared>>

\* The root file system image is there; the rest of the preparation follows.
Prepare(t) ==
  /\ HostAlive
  /\ pc[t] = "prepare"
  /\ image
  /\ pc' = [pc EXCEPT ![t] = "spawn"]
  /\ UNCHANGED <<nextCid, instances, running, image, vmOf, cidOf, main, victims,
                 replaced, late, spared>>

\* No image, or no kernel, temporary directory, config file or executable.
FailCreate(t) ==
  /\ HostAlive
  /\ pc[t] \in {"prepare", "spawn"}
  /\ pc' = [pc EXCEPT ![t] = "createFailed"]
  /\ UNCHANGED <<nextCid, instances, running, image, vmOf, cidOf, main, victims,
                 replaced, late, spared>>

\* spawn returns a pid even if the image has gone since it was looked for: the
\* process then exits at once.  The worker sleeps two seconds.
Spawn(t) ==
  /\ HostAlive
  /\ pc[t] = "spawn"
  /\ running' = IF image THEN running \cup {cidOf[t]} ELSE running
  /\ late' = IF main \in {"killing", "joining"} THEN late \cup {cidOf[t]} ELSE late
  /\ pc' = [pc EXCEPT ![t] = "booting"]
  /\ UNCHANGED <<nextCid, instances, image, vmOf, cidOf, main, victims, replaced, spared>>

\* instances.insert: an instance under the same id is dropped, which removes its
\* directory and channels and leaves its process alone.
InsertInstance(t) ==
  /\ HostAlive
  /\ pc[t] = "booting"
  /\ instances' = [instances EXCEPT ![vmOf[t]] = cidOf[t]]
  /\ replaced' = replaced \cup ({instances[vmOf[t]]} \ {0})
  /\ pc' = [pc EXCEPT ![t] = "created"]
  /\ UNCHANGED <<nextCid, running, image, vmOf, cidOf, main, victims, late, spared>>

-----------------------------------------------------------------------------
(* destroy_vm, under the lock of the table.                                 *)

\* Mutant: the process is told to stop with a signal it may ignore.
LeaveProcess(c) == UNCHANGED <<running, spared>>

\* terminate_process: a kill that cannot be run or fails is not acted on.
Kill(c) ==
  \/ running' = running \ {c} /\ spared' = spared \ {c}
  \/ ToolsMayFail /\ UNCHANGED running /\ spared' = spared \cup ({c} \cap running)

\* The entry goes first, whether or not the process does.  rootfs_symlink holds the
\* path of the image itself, which every VM shares: the first destroy deletes it.
DestroyInstance(v) ==
  IF v \in ListedVms
    THEN /\ instances' = [instances EXCEPT ![v] = 0]
         /\ Kill(instances[v])
         /\ image' = FALSE
    ELSE UNCHANGED <<instances, running, image, spared>>

Destroy(t, v) ==
  /\ HostAlive
  /\ pc[t] = "idle"
  /\ vmOf' = [vmOf EXCEPT ![t] = v]
  /\ DestroyInstance(v)
  /\ pc' = [pc EXCEPT ![t] = IF v \in ListedVms THEN "destroyed" ELSE "destroyFailed"]
  /\ UNCHANGED <<nextCid, cidOf, main, victims, replaced, late>>

-----------------------------------------------------------------------------
(* The world around the host.                                               *)

\* A VM powers off, reboots (which ends firecracker) or crashes; the terminal's
\* Ctrl+C reaches the processes of the host's group.
FirecrackerExits(c) ==
  /\ c \in running
  /\ running' = running \ {c}
  /\ spared' = spared \ {c}
  /\ UNCHANGED <<nextCid, instances, image, workerVars, main, victims, replaced, late>>

\* Someone builds the image again.
BuildImage ==
  /\ ~image
  /\ HostAlive
  /\ image' = TRUE
  /\ UNCHANGED <<nextCid, instances, running, workerVars, main, victims, replaced, late, spared>>

-----------------------------------------------------------------------------
(* main after Ctrl+C: VmManager.shutdown, emergency_cleanup, join, return.   *)

SetShutdownFlag ==
  /\ main = "serving"
  /\ main' = "flagged"
  /\ UNCHANGED <<nextCid, instances, running, image, workerVars, victims, replaced, late, spared>>

\* The processes of the table are read in one critical section.  With an empty
\* table shutdown returns at once.
ListInstances ==
  /\ main = "flagged"
  /\ victims' = Owned
  /\ main' = IF ListedVms = {} THEN "listing" ELSE "terminating"
  /\ UNCHANGED <<nextCid, instances, running, image, workerVars, replaced, late, spared>>

\* TERM, half a second, KILL, one process after the other.
TerminateVictim(c) ==
  /\ main \in {"terminating", "killing"}
  /\ c \in victims
  /\ Kill(c)
  /\ victims' = victims \ {c}
  /\ UNCHANGED <<nextCid, instances, image, workerVars, main, replaced, late>>

\* instances.clear: an instance inserted since the listing goes with the rest,
\* its process does not.
ClearInstances ==
  /\ main = "terminating"
  /\ victims = {}
  /\ instances' = [v \in VmIds |-> 0]
  /\ main' = "listing"
  /\ UNCHANGED <<nextCid, running, image, workerVars, victims, replaced, late, spared>>

\* Mutant: the emergency cleanup goes by the table instead of by pgrep.
ListTable == victims' = Owned /\ UNCHANGED spared

\* pgrep -f firecracker.  If it cannot be run or fails, nothing is killed.
ListProcesses ==
  \/ victims' = running /\ UNCHANGED spared
  \/ ToolsMayFail /\ victims' = {} /\ spared' = running

\* emergency_cleanup; then KILL for each line.
FindProcesses ==
  /\ main = "listing"
  /\ ListProcesses
  /\ main' = "killing"
  /\ UNCHANGED <<nextCid, instances, running, image, workerVars, replaced, late>>

SignalAgents ==
  /\ main = "killing"
  /\ victims = {}
  /\ main' = "joining"
  /\ UNCHANGED <<nextCid, instances, running, image, workerVars, victims, replaced, late, spared>>

\* The agent threads have been joined and main returns; workers end here.
Return ==
  /\ main = "joining"
  /\ main' = "ended"
  /\ UNCHANGED <<nextCid, instances, running, image, workerVars, victims, replaced, late, spared>>

MainStep == \/ ListInstances \/ \E c \in victims : TerminateVictim(c)
            \/ ClearInstances \/ FindProcesses \/ SignalAgents \/ Return

Ended == main = "ended" /\ UNCHANGED managerVars

CreateStep(t) == TakeCid(t) \/ Prepare(t) \/ FailCreate(t) \/ Spawn(t) \/ InsertInstance(t)

Next == \/ \E t \in Workers, v \in VmIds : BeginCreate(t, v) \/ Destroy(t, v)
        \/ \E t \in Workers : CreateStep(t)
        \/ \E c \in running : FirecrackerExits(c)
        \/ BuildImage
        \/ SetShutdownFlag
        \/ MainStep
        \/ Ended

Spec == Init /\ [][Next]_managerVars

-----------------------------------------------------------------------------
(* Properties.                                                              *)

\* Every variable holds a value of the code's type; cids come from the counter.
TypeOK ==
  /\ nextCid \in Nat /\ nextCid >= FirstCid
  /\ instances \in [VmIds -> {0} \cup FirstCid .. nextCid - 1]
  /\ running \in SUBSET (FirstCid .. nextCid - 1)
  /\ image \in BOOLEAN
  /\ pc \in [Workers -> WorkerState]
  /\ vmOf \in [Workers -> VmIds \cup {None}]
  /\ cidOf \in [Workers -> {0} \cup FirstCid .. nextCid - 1]
  /\ main \in MainState
  /\ victims \in SUBSET (FirstCid .. nextCid - 1)
  /\ replaced \in SUBSET (FirstCid .. nextCid - 1)
  /\ late \in SUBSET (FirstCid .. nextCid - 1)
  /\ spared \in SUBSET running

\* A worker between drawing its cid and putting the instance in the table.
Creating(t) == pc[t] \in {"prepare", "spawn", "booting"}

\* No two VMs share a vsock context id, whether they are in the table, being
\* created by different threads, or no longer known to the manager.
CidsAreUnique ==
  /\ \A v, w \in ListedVms : instances[v] = instances[w] => v = w
  /\ \A t, u \in Workers : Creating(t) /\ Creating(u) /\ cidOf[t] = cidOf[u] => t = u
  /\ \A t \in Workers : Creating(t) => cidOf[t] \notin Owned \cup replaced
  /\ Owned \cap replaced = {}

\* While the host serves, a running process is in the table or about to be, unless
\* another create with the same vm_id displaced it or the kill of its destroy failed.
NoForgottenProcess ==
  main = "serving" =>
    running \subseteq Owned \cup replaced \cup spared
                      \cup {cidOf[t] : t \in {u \in Workers : pc[u] = "booting"}}

\* Whatever the manager had forgotten, only a VM started while the emergency cleanup
\* was already under way can outlive the host, or one that the last pgrep or the
\* last kill that should have reached it failed on.
OnlyLateVmsSurvive == main = "ended" => running \subseteq late \cup spared

\* main logs that all VMs are terminated and all resources cleaned up.
NoVmSurvives == main = "ended" => running = {}
=============================================================================

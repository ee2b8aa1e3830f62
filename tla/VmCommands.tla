----------------------------- MODULE VmCommands -----------------------------
(***************************************************************************)
(* Commands sent to VMs (firecracker.rs, mod.rs), over the VMs of          *)
(* VmManager.  Each instance owns the sender of a command queue and a map  *)
(* from command id to the sender of a result; a processor thread, started  *)
(* with the instance and named here by its cid, takes commands from the    *)
(* queue.  The thread keeps the vm_id and looks the instance up again for  *)
(* each command.  A result channel is identified by the worker that waits  *)
(* on it and the number of its attempt.                                    *)
(*                                                                         *)
(* "list" stands for list_spawned_processes and stop_spawned_process: both *)
(* use a fixed command id and otherwise differ in how a result is read.    *)
(***************************************************************************)
EXTENDS VmManager, Sequences

CONSTANTS MaxRetries,    \* max_retries; 30 in the code
          Kinds          \* the operations workers choose from

ASSUME MaxRetriesAssumption == MaxRetries \in Nat
ASSUME KindsAssumption == Kinds \subseteq {"exec", "spawn", "list"}
ASSUME FinitenessAssumption == IsFiniteSet(Workers) /\ IsFiniteSet(VmIds)

\* Every cid that can be drawn: by the VMs of the initial state, and by workers
\* that create a VM once or again at every retry.
Cids == FirstCid .. FirstCid + Cardinality(VmIds) - 1
                    + Cardinality(Workers) * (IF MaxRetries = 0 THEN 1 ELSE MaxRetries)

VARIABLES
  kind,               \* the command operation a worker runs
  op,                 \* where it is
  attempt,            \* how many times it has registered
  held,               \* the instance whose command_sender it holds a clone of
  result,             \* the command whose result is in the worker's channel
  outcome,            \* what the operation returned
  queue,              \* commands between an instance and its processor
  senders,            \* VmInstance.result_receiver: command id, channel
  servedVm,           \* the vm_id a processor thread was started with
  processor,          \* where the processor thread is
  current             \* the command it runs

taskVars == <<kind, op, attempt, held, result, outcome>>
channelVars == <<queue, senders, servedVm, processor, current>>
vars == <<managerVars, taskVars, channelVars>>

-----------------------------------------------------------------------------
Channel == Workers \X (1 .. MaxRetries + 1)
ListId == <<None, 0>>       \* "list_spawned_processes", "stop_<process>"
HealthId == <<None, 1>>     \* "health-check"
Id == Channel \cup {ListId, HealthId}
Cmd == [id : Id, from : Channel \cup {None}]
Entry == [id : Id, to : Channel]
Job == [cmd : Cmd, at : Cids, to : Channel \cup {None}]
VmCommandResult == [from : Channel \cup {None}, at : Cids]   \* whose answer it is

ASSUME NoneAssumption == None \notin Workers \cup Kinds \cup Channel \cup Job \cup VmCommandResult

OpState == {"idle", "register", "send", "wait", "health", "destroy", "create", "done"}
Outcome == {"none", "result", "notFound", "closed", "disconnected", "timeout", "sent"}

\* The host has one VM under each name.
CommandsInit ==
  LET first == CHOOSE f \in [VmIds -> FirstCid .. FirstCid + Cardinality(VmIds) - 1] :
                 \A v, w \in VmIds : f[v] = f[w] => v = w
      started == {first[v] : v \in VmIds}
  IN /\ nextCid = FirstCid + Cardinality(VmIds)
     /\ instances = first
     /\ running = started
     /\ image = TRUE
     /\ pc = [t \in Workers |-> "idle"]
     /\ vmOf = [t \in Workers |-> None]
     /\ cidOf = [t \in Workers |-> 0]
     /\ main = "serving"
     /\ victims = {} /\ replaced = {} /\ late = {} /\ spared = {}
     /\ kind = [t \in Workers |-> None]
     /\ op = [t \in Workers |-> "idle"]
     /\ attempt = [t \in Workers |-> 0]
     /\ held = [t \in Workers |-> 0]
     /\ result = [t \in Workers |-> None]
     /\ outcome = [t \in Workers |-> "none"]
     /\ queue = [c \in Cids |-> <<>>]
     /\ senders = [c \in Cids |-> {}]
     /\ servedVm = [c \in Cids |-> IF c \in started
                                      THEN CHOOSE v \in VmIds : first[v] = c ELSE None]
     /\ processor = [c \in Cids |-> IF c \in started THEN "ready" ELSE "none"]
     /\ current = [c \in Cids |-> None]

\* Mutant: a coarser clock gives two commands one id.
CoarseId(t, n) == IF kind[t] = "list" THEN ListId ELSE <<None, 2>>

\* The id of the n-th command of worker t: a time in nanoseconds, which no two
\* commands share, except for list and stop.
IdOf(t, n) == IF kind[t] = "list" THEN ListId ELSE <<t, n>>

\* The channel worker t waits on, and the id of the command it sends.
Mine(t) == <<t, attempt[t]>>
CommandId(t) == IdOf(t, attempt[t])

\* The worker still holds the receiver of the channel.
Listening(ch) == op[ch[1]] \in {"send", "wait"} /\ attempt[ch[1]] = ch[2]

\* Dropping an instance drops its map and with it every result sender there.
DropSenders(c) == IF c = 0 THEN senders ELSE [senders EXCEPT ![c] = {}]

-----------------------------------------------------------------------------
(* A worker: execute_command_with_retry, spawn_command, list and stop.       *)

BeginCommand(t, v, k) ==
  /\ op[t] = "idle" /\ pc[t] = "idle"
  /\ op' = [op EXCEPT ![t] = "register"]
  /\ kind' = [kind EXCEPT ![t] = k]
  /\ vmOf' = [vmOf EXCEPT ![t] = v]
  /\ UNCHANGED <<nextCid, instances, running, image, pc, cidOf, main, victims,
                 replaced, late, spared, attempt, held, result, outcome, channelVars>>

Finished(t, o) == /\ op' = [op EXCEPT ![t] = "done"]
                  /\ outcome' = [outcome EXCEPT ![t] = o]

\* Under the lock of the table: put the sender of a new channel in the map of
\* the instance, over an entry of the same id, and clone its command_sender.
Register(t) ==
  LET c == instances[vmOf[t]] IN
  /\ op[t] = "register"
  /\ IF c = 0
       THEN /\ Finished(t, "notFound")
            /\ UNCHANGED <<attempt, held, senders>>
       ELSE /\ op' = [op EXCEPT ![t] = "send"]
            /\ attempt' = [attempt EXCEPT ![t] = @ + 1]
            /\ held' = [held EXCEPT ![t] = c]
            /\ LET ch == <<t, attempt[t] + 1>>
                   id == IdOf(t, attempt[t] + 1)
               IN senders' = [senders EXCEPT ![c] =
                                {e \in @ : e.id # id} \cup {[id |-> id, to |-> ch]}]
            /\ UNCHANGED outcome
  /\ UNCHANGED <<managerVars, kind, result, queue, servedVm, processor, current>>

\* Mutant: one attempt too many.
MayRetryOnceMore(t) == kind[t] = "exec" /\ attempt[t] <= MaxRetries + 1

\* retries < max_retries, where retries is the number of attempts before this one.
MayRetry(t) == kind[t] = "exec" /\ attempt[t] <= MaxRetries

\* Errors that contain "closed channel" or "VM disconnected" make execute_vm_command
\* try again; the other operations return them.
RetryOr(t, o) ==
  /\ IF MayRetry(t)
       THEN op' = [op EXCEPT ![t] = "health"] /\ UNCHANGED outcome
       ELSE Finished(t, o)
  /\ held' = [held EXCEPT ![t] = 0]

\* command_sender.send; spawn_command returns without looking at a result.
SendCommand(t) ==
  /\ op[t] = "send"
  /\ IF processor[held[t]] = "ended"
       THEN RetryOr(t, "closed") /\ UNCHANGED queue
       ELSE /\ queue' = [queue EXCEPT ![held[t]] =
                           Append(@, [id |-> CommandId(t), from |-> Mine(t)])]
            /\ IF kind[t] = "spawn"
                 THEN Finished(t, "sent") /\ held' = [held EXCEPT ![t] = 0]
                 ELSE op' = [op EXCEPT ![t] = "wait"] /\ UNCHANGED <<outcome, held>>
  /\ UNCHANGED <<managerVars, kind, attempt, result, senders, servedVm, processor, current>>

\* Mutant: nothing is removed.
KeepEntries(t) == senders

\* execute_command removes its entry from whatever instance has the name now;
\* list and stop leave theirs.
WithoutEntry(t) ==
  LET c == instances[vmOf[t]] IN
  IF kind[t] = "exec" /\ c # 0
    THEN [senders EXCEPT ![c] = {e \in @ : e.id # CommandId(t)}] ELSE senders

ReturnWith(t, o) ==
  /\ Finished(t, o)
  /\ held' = [held EXCEPT ![t] = 0]
  /\ senders' = WithoutEntry(t)
  /\ UNCHANGED <<managerVars, kind, attempt, result, queue, servedVm, processor, current>>

GetResult(t) == op[t] = "wait" /\ result[t] # None /\ ReturnWith(t, "result")

TimeLimit(t) == op[t] = "wait" /\ result[t] = None /\ ReturnWith(t, "timeout")

\* No sender of the channel is left, in a map or with a processor.
Disconnected(t) ==
  /\ op[t] = "wait" /\ result[t] = None
  /\ \A c \in Cids : /\ \A e \in senders[c] : e.to # Mine(t)
                     /\ current[c] # None => current[c].to # Mine(t)
  /\ RetryOr(t, "disconnected")
  /\ UNCHANGED <<managerVars, kind, attempt, result, channelVars>>

-----------------------------------------------------------------------------
(* reconnect_vm_channels.                                                   *)

\* A VM is healthy if a command for it can be queued.  The command is run like
\* any other; nobody waits for it.
CheckHealth(t) ==
  LET c == instances[vmOf[t]] IN
  /\ op[t] = "health"
  /\ IF c # 0 /\ processor[c] # "ended"
       THEN /\ queue' = [queue EXCEPT ![c] =
                           Append(@, [id |-> HealthId, from |-> None])]
            /\ op' = [op EXCEPT ![t] = "register"]
       ELSE op' = [op EXCEPT ![t] = "destroy"] /\ UNCHANGED queue
  /\ UNCHANGED <<managerVars, kind, attempt, held, result, outcome, senders,
                 servedVm, processor, current>>

\* Mutant: the create is trusted to replace what is there.
KeepUnhealthy(t) ==
  /\ op[t] = "destroy"
  /\ op' = [op EXCEPT ![t] = "create"]
  /\ pc' = [pc EXCEPT ![t] = "takeCid"]
  /\ UNCHANGED <<nextCid, instances, running, image, vmOf, cidOf, main, victims, replaced,
                 late, spared, kind, attempt, held, result, outcome, channelVars>>

\* Another worker may have created the VM again since the check.
DestroyUnhealthy(t) ==
  /\ op[t] = "destroy"
  /\ DestroyInstance(vmOf[t])
  /\ senders' = DropSenders(instances[vmOf[t]])
  /\ op' = [op EXCEPT ![t] = "create"]
  /\ pc' = [pc EXCEPT ![t] = "takeCid"]
  /\ UNCHANGED <<nextCid, vmOf, cidOf, main, victims, replaced, late, kind, attempt,
                 held, result, outcome, queue, servedVm, processor, current>>

\* create_vm has returned, successfully or not; the delay is over.
Recreated(t) ==
  /\ op[t] = "create"
  /\ pc[t] \in {"created", "createFailed"}
  /\ pc' = [pc EXCEPT ![t] = "idle"]
  /\ op' = [op EXCEPT ![t] = "register"]
  /\ UNCHANGED <<nextCid, instances, running, image, vmOf, cidOf, main, victims, replaced,
                 late, spared, kind, attempt, held, result, outcome, channelVars>>

-----------------------------------------------------------------------------
(* The steps of VmManager and what they do to the channels.                  *)

\* instances.insert and start_command_processor; the queue holds what is sent
\* before the thread runs.
StartInstance(t) ==
  /\ InsertInstance(t)
  /\ senders' = DropSenders(instances[vmOf[t]])
  /\ servedVm' = [servedVm EXCEPT ![cidOf[t]] = vmOf[t]]
  /\ processor' = [processor EXCEPT ![cidOf[t]] = "ready"]
  /\ UNCHANGED <<taskVars, queue, current>>

CreateVm(t) == \/ (TakeCid(t) \/ Prepare(t) \/ FailCreate(t) \/ Spawn(t))
                  /\ UNCHANGED <<taskVars, channelVars>>
               \/ StartInstance(t)

DestroyVm(t, v) ==
  /\ op[t] = "idle"
  /\ Destroy(t, v)
  /\ senders' = DropSenders(instances[v])
  /\ UNCHANGED <<taskVars, queue, servedVm, processor, current>>

\* shutdown drops every instance.
ClearVms == /\ ClearInstances
            /\ senders' = [c \in Cids |-> {}]
            /\ UNCHANGED <<taskVars, queue, servedVm, processor, current>>

OtherManagerStep ==
  /\ \/ \E t \in Workers, v \in VmIds : op[t] = "idle" /\ BeginCreate(t, v)
     \/ \E c \in running : FirecrackerExits(c)
     \/ BuildImage
     \/ SetShutdownFlag \/ ListInstances
     \/ \E c \in victims : TerminateVictim(c)
     \/ FindProcesses \/ SignalAgents \/ Return
  /\ UNCHANGED <<taskVars, channelVars>>

-----------------------------------------------------------------------------
(* The processor thread.                                                    *)

SendersOf(c, id) == {e \in senders[c] : e.id = id}

\* Take a command and look the VM up by name: the instance found may be younger
\* than the command.  Without one the command is dropped.  During shutdown the
\* thread ends, and the queue with it.
TakeCommand(c) ==
  LET cmd == Head(queue[c])
      at == instances[servedVm[c]]
      found == SendersOf(at, cmd.id)
  IN
  /\ processor[c] = "ready"
  /\ queue[c] # <<>>
  /\ IF ShuttingDown
       THEN /\ processor' = [processor EXCEPT ![c] = "ended"]
            /\ queue' = [queue EXCEPT ![c] = <<>>]
            /\ UNCHANGED current
       ELSE /\ queue' = [queue EXCEPT ![c] = Tail(@)]
            /\ IF at = 0
                 THEN UNCHANGED <<processor, current>>
                 ELSE /\ processor' = [processor EXCEPT ![c] = "busy"]
                      /\ current' = [current EXCEPT ![c] =
                           [cmd |-> cmd, at |-> at,
                            to |-> IF found = {} THEN None ELSE (CHOOSE e \in found : TRUE).to]]
  /\ UNCHANGED <<managerVars, taskVars, senders, servedVm>>

\* Mutant: no result when the socket of the VM is missing or fails.
Silent(c) == result

\* The answer of the VM agent, or an error result if the VM cannot be reached.
\* The worker reads the first message of its channel only.
Delivered(c) ==
  LET job == current[c] IN
  IF job.to # None /\ Listening(job.to) /\ result[job.to[1]] = None
    THEN [result EXCEPT ![job.to[1]] = [from |-> job.cmd.from, at |-> job.at]]
    ELSE result

FinishCommand(c) ==
  /\ processor[c] = "busy"
  /\ result' = Delivered(c)
  /\ processor' = [processor EXCEPT ![c] = "ready"]
  /\ current' = [current EXCEPT ![c] = None]
  /\ UNCHANGED <<managerVars, kind, op, attempt, held, outcome, queue, senders, servedVm>>

\* The iteration over the receiver ends when the last command_sender is gone.
EndProcessor(c) ==
  /\ processor[c] = "ready"
  /\ queue[c] = <<>>
  /\ c \notin Owned
  /\ \A t \in Workers : held[t] # c
  /\ processor' = [processor EXCEPT ![c] = "ended"]
  /\ UNCHANGED <<managerVars, taskVars, queue, senders, servedVm, current>>

-----------------------------------------------------------------------------
WorkerStep(t) == HostAlive /\ (\/ Register(t) \/ SendCommand(t) \/ GetResult(t)
                               \/ Disconnected(t) \/ CheckHealth(t) \/ DestroyUnhealthy(t)
                               \/ Recreated(t) \/ CreateVm(t))
ProcessorStep(c) == HostAlive /\ (TakeCommand(c) \/ FinishCommand(c) \/ EndProcessor(c))

CommandsNext ==
  \/ \E t \in Workers, v \in VmIds :
        HostAlive /\ ((\E k \in Kinds : BeginCommand(t, v, k)) \/ DestroyVm(t, v))
  \/ \E t \in Workers : WorkerStep(t) \/ (HostAlive /\ TimeLimit(t))
  \/ \E c \in Cids : ProcessorStep(c)
  \/ ClearVms
  \/ OtherManagerStep
  \/ Ended /\ UNCHANGED <<taskVars, channelVars>>

\* Every worker has run its operation; the threads that remain wait for more.
WorkersDone == \A t \in Workers :
                 op[t] = "done" \/ pc[t] \in {"created", "createFailed", "destroyed", "destroyFailed"}

\* The same while the host serves and no VM fails by itself: without the steps
\* of main and of the world, more workers can be checked.
ServingNext ==
  \/ \E t \in Workers, v \in VmIds :
        \/ (\E k \in Kinds : BeginCommand(t, v, k)) \/ DestroyVm(t, v)
        \/ op[t] = "idle" /\ BeginCreate(t, v) /\ UNCHANGED <<taskVars, channelVars>>
  \/ \E t \in Workers : WorkerStep(t) \/ TimeLimit(t)
  \/ \E c \in Cids : ProcessorStep(c)
  \/ BuildImage /\ UNCHANGED <<taskVars, channelVars>>
  \/ WorkersDone /\ UNCHANGED vars

\* The host schedules its threads.  Neither time limits nor operations are
\* certain, and nothing limits how long a processor waits for its VM.
CommandsFairness == /\ \A t \in Workers : WF_vars(WorkerStep(t))
                    /\ \A c \in Cids : WF_vars(HostAlive /\ (TakeCommand(c) \/ EndProcessor(c)))

CommandsSpec == CommandsInit /\ [][CommandsNext]_vars /\ CommandsFairness
ServingSpec == CommandsInit /\ [][ServingNext]_vars /\ CommandsFairness

-----------------------------------------------------------------------------
(* Properties.                                                              *)

\* Every channel variable holds a value of the code's type.
CommandsTypeOK ==
  /\ kind \in [Workers -> Kinds \cup {None}]
  /\ op \in [Workers -> OpState]
  /\ attempt \in [Workers -> 0 .. MaxRetries + 1]
  /\ held \in [Workers -> {0} \cup Cids]
  /\ result \in [Workers -> VmCommandResult \cup {None}]
  /\ outcome \in [Workers -> Outcome]
  /\ queue \in [Cids -> Seq(Cmd)]
  /\ senders \in [Cids -> SUBSET Entry]
  /\ servedVm \in [Cids -> VmIds \cup {None}]
  /\ processor \in [Cids -> {"none", "ready", "busy", "ended"}]
  /\ current \in [Cids -> Job \cup {None}]

\* A worker that waits reads a result of the instance it registered with, and
\* execute_vm_command reads the result of its own command of this attempt,
\* although processors look instances and senders up by name.
OwnResult ==
  \A t \in Workers :
    op[t] = "wait" /\ result[t] # None
      => /\ result[t].at = held[t]
         /\ kind[t] = "exec" => result[t].from = Mine(t)

\* While a worker's channel is still connected its answer is on the way: its
\* command is in the queue it was sent to or being run for it.
PendingIsQueued ==
  \A t \in Workers :
    (/\ ~ShuttingDown
     /\ op[t] = "wait" /\ result[t] = None
     /\ \E c \in Cids : \E e \in senders[c] : e.to = Mine(t))
      => \/ \E i \in DOMAIN queue[held[t]] : queue[held[t]][i].from = Mine(t)
         \/ \E c \in Cids : current[c] # None /\ current[c].to = Mine(t)

\* execute_vm_command that got a result or ran out of time leaves no sender in
\* any map, although the VM may have been replaced while it waited.
NoEntryLeft ==
  \A t \in Workers :
    kind[t] = "exec" /\ outcome[t] \in {"result", "timeout"}
      => \A c \in Cids : \A e \in senders[c] : e.id # Mine(t)

\* A retry between its destroy and its insert.
Recreating(t) == op[t] = "create" /\ (pc[t] = "takeCid" \/ Creating(t))

\* A retry's create may displace a VM, which then runs without an entry, but only
\* one that another worker has created: not the VM that the retry found unhealthy, nor
\* one of its own.  Two retries of one VM can do this to each other.
OnlyRivalsAreDisplaced ==
  \A t \in Workers :
    Recreating(t) /\ instances[vmOf[t]] # 0
      => \E u \in Workers \ {t} : vmOf[u] = vmOf[t] /\ cidOf[u] = instances[vmOf[t]]

\* The VM at the other end of each processor's socket answers or breaks off.
VmsAnswer == \A c \in Cids : []<>(processor[c] # "busy")

\* Unless the host shuts down or a VM keeps silent, no worker depends on its
\* time limit: it gets a result or learns that its VM has gone.
NoStrandedWorker ==
  VmsAnswer => \A t \in Workers : op[t] = "wait" ~> op[t] # "wait" \/ ShuttingDown
=============================================================================

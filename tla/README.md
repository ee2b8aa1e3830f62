# A verification of hyperlight_agents in TLA+

hyperlight_agents is a host program that offers tools over MCP.  Each tool is an
*agent*: a guest binary in a Hyperlight sandbox with an event loop on a
thread of its own.  Guests ask the host for work (HTTP requests, Firecracker VMs
and commands in them) through host functions; the work runs on further threads
and comes back to the guest as a callback.  Inside each VM a *VM agent* runs the
commands.  This directory holds TLA+ modules translated from that code, the TLC
configurations that check them on small instances, and theorems about them that
TLAPS proves for every value of the constants.

    tlc -workers 2 -config VmManager.cfg MCVmManager.tla
    tlapm VmManagerProofs.tla

`PROJECT.json` lists the runs, the lines each definition stands for, the hazards
of the code and the properties that cover them, and for every property a mutant:
a small change of one definition, kept in the module beside the definition it
replaces (`AnyEntry` beside `Entry`), under which TLC finds the property
violated.  Mutants are used by no specification.

## The system

| component | code | state | operations |
|---|---|---|---|
| MCP handler | `host/src/mcp/mcp_handler.rs` | one open call per HTTP request: request id, oneshot receiver | look up the tool, register a response channel, send the message, wait 120 s, clean up |
| MCP registry | `host/src/mcp/mcp_server.rs` | four global maps: channels and metadata of agents, response channels, request id of each agent | `register_agent` before the server starts; the maps are shared by handlers and agents |
| Agent | `host/src/agents/agent.rs` | `request_id`, receiver, a sender for its own channel, sandbox | `run_agent_event_loop`, `handle_callback_result`, the host functions, `FinalResult` |
| Guests | `guest/`, `guest-common/` | none between calls | `Run` starts one host function; its callback calls `FinalResult` |
| VM manager | `host/src/host_functions/vm_functions/mod.rs`, `firecracker.rs` | `next_cid`, table of instances, shutdown flag; firecracker processes; the image file | `create_vm`, `destroy_vm`, `list_vms`, `shutdown`, `emergency_cleanup` |
| VM commands | the same files | per instance: a command channel, a map of result senders, a processor thread | execute, spawn, list, stop; retries; re-creation of unhealthy VMs |
| VM agent | `vm-agent/src/main.rs`, `command_execution/mod.rs` | one connection at a time; a child and its pipes | read a request, run or spawn it, reply |
| Log and its listener | `vm-agent/src/logger/bounded_logger.rs`, `host/.../log_listener.rs` | a bounded channel and a connection per VM agent; the listener's directory; per connection unfinished bytes and an unfinished line | connect before serving; log, write out; listen in one VM's directory, read, print lines |
| HTTP proxy | `vm-agent/src/http_proxy/mod.rs`, `host/.../http_proxy.rs` | per tunnel two channels, four tasks, two threads and a flag | forward a plain request; open a CONNECT tunnel, copy both ways, shut down |
| Host main | `host/src/main.rs` | threads of agents, server task | start everything; on Ctrl+C: VM manager, emergency cleanup, agents |

They interact in five ways.  A handler and an agent share the channel of the
agent and two global maps; neither calls the other.  A host function starts a
thread that works for the agent and sends the result into the agent's own
channel.  Threads of host functions call the VM manager and wait for a
processor thread, which talks to the VM agent over a Unix socket.  A VM agent
reaches the host through Unix sockets in the directory of its own VM, where the
log and proxy listeners may or may not listen.  Main ends
all of this by two flags: the VM manager's, which creates never read, and the
agents', which their loops poll.

### What is hard about it

* A call is answered through an entry the *agent* looks up at the time the work
  ends, not through anything the work carries.  Calls overlap, time out and
  leave work behind.
* The active request is kept twice (`Agent.request_id`,
  `MCP_AGENT_REQUEST_IDS`), written in separate critical sections by three
  parties: the loop, the error path and the handler's clean-up.
* VMs are named by the caller.  An instance may be replaced, destroyed, crash or
  be re-created by a retry while commands for it are queued, held or running;
  processors look the instance up by name again for every command.
* A create takes two seconds with a process running and no table entry.
  Shutdown works from the table, then from a listing of processes, and neither
  stops creates.
* Time limits are everywhere and late answers follow them.
* A VM agent waits for its log listener before it serves anything, and listener
  and VM find each other through a directory one of them chooses.
* A tunnel has six copying tasks, each of which ends by itself and none of which
  ends another; what closes a connection is the drop of its last descriptor.

### What would make each component correct

* Handler, registry and agent: an answer comes from the right agent, is final,
  is of the call's own work; the active request can be found; accepted calls
  are answered; agents stop.
* VM manager: context ids are unique; no process is forgotten; nothing outlives
  the host; one VM's operations leave the others alone.
* VM commands: a result reaches the attempt that asked; a pending command is on
  its way; nothing is left in the maps; nobody waits for a dead processor.
* VM agent: every request gets a reply within the limit; the connection thread
  always returns to `accept`.
* Log: every VM that runs comes to serve; the channel never blocks the program
  nor outgrows its bound; what it took is printed, whole and in order.
* Proxy: a plain request is answered; an open tunnel stays open; nothing is lost
  or cut short on the way; when both ends have closed everything is released.

## Modules

    RequestService   <--- refined by --- AgentRequests <- MCAgentRequests
                                             ^
                                   AgentRequestsProofs
                                             ^
                                   RequestServiceProofs   (the refinement)
                                   SerialClientProofs     (OwnAnswer)

    VmManager <- MCVmManager, VmManagerProofs
       ^    ^
       |    +---- VmCommands <- MCVmCommands, VmCommandsProofs
       |
    SideChannels <- MCSideChannels, SideChannelsProofs
       |
       +--> LogLines

    VmAgent <- MCVmAgent, VmAgentProofs

    HttpProxy <- MCHttpProxy, HttpProxyProofs

### AgentRequests (and RequestService)

| TLA+ | code |
|---|---|
| `call[r]`, `target[r]` | where the handler of call `r` is; the agent it found |
| `response[r]` | the oneshot channel: `None` or what was put into it |
| `responseChannels` | keys of `MCP_RESPONSE_CHANNELS` |
| `agentRequestIds` | `MCP_AGENT_REQUEST_IDS`, `None` for no entry |
| `queue[a]` | the channel behind `Agent.rx`: requests and callbacks |
| `requestId[a]`, `pc[a]`, `msg[a]`, `found[a]` | `Agent.request_id`; the loop's position; the message in hand; the id `FinalResult` looked up |
| `workers` | the threads host functions started |
| `ticket`, `issued` | history: the order in which messages were sent |

A response is `[agent, work]`: which agent produced it and for which call the
work was begun.  The text does not matter, so it is not there.  Each critical
section is one action, which is why `StoreRequestId` is apart from
`BeginMessage` (the loop assigns `agent.request_id` and then locks the map) and
`LookUpRequest` apart from `FinalResult` (two locks).  The clean-up of a call
locks the second map while it holds the first, and is one action.
`OpenCall`, `SendCall`, `Receive`, `CleanUp` and `Timeout` are the handler;
`RejectCall` is an unknown tool.  A call that times out, or whose send fails,
returns before its clean-up and leaves its entries in the maps (`Timeout`), as in
the code; `AnsweredLeavesNothing` says that a call that is answered leaves none,
although the loop may store its id before, during or after the handler's steps.

A guest's `Run` starts one worker or fails; a callback calls `FinalResult` or
fails.  Both guests of the repository are of this form.  A host function called
by a guest never fails in a way the guest reports: `vm_builder` discards that
error (`guest/src/bin/vm_builder.rs:118`), and the host functions return a
message in every case.

`RequestService` is the promise to a client, without maps, loops or channels: a
call is refused or accepted by one agent, gets at most one reply, and the reply
is work of that agent, of this call or of one accepted *earlier*.  It is weaker
than "of this call" because the code is: see the findings.

### VmManager

`nextCid` is the counter, `instances` the table (0 for no entry), each instance
known by its context id; `running` the firecracker processes of the machine;
`image` whether `rootfs.squashfs` exists.  A worker thread runs one create or
destroy: `BeginCreate`, `TakeCid`, `Prepare` (the checks), `FailCreate`,
`Spawn`, `InsertInstance`, `Destroy`.  `main` walks through the shutdown.  Three
history variables: `replaced`, the processes that lost their entry to a later
create of the same name; `late`, those spawned after the emergency cleanup
listed processes; and `spared`, those that the last kill or pgrep meant for them
failed on.  `FirecrackerExits` and `BuildImage` are the world's steps.

The manager runs `kill` and `pgrep` as programs and goes on when one fails: a
destroy has removed the entry before it kills and ignores the error
(`firecracker.rs:501-503`), the shutdown does too, and an `emergency_cleanup`
whose pgrep cannot be run, or fails, kills nothing (`mod.rs:220-221`).  `Kill` and
`ListProcesses` have both outcomes; the constant `ToolsMayFail` says whether a
run has the second.

Cids identify processes: a pid is used where the code uses one, and the reuse of
a pid by the system is left out, as are zombies (the code never waits for its
children, so `kill -0` succeeds on a dead one and a second signal follows, which
does nothing).  The width of the context id (32 bits) is not modelled.

### VmCommands

EXTENDS VmManager with, for each instance `c`, its command queue `queue[c]`, its
result senders `senders[c]` (entries id -> channel), its processor thread and
the job in hand; and for each worker the operation, the attempt, the instance
whose command sender it `held`, and the result.  A channel is a pair of worker
and attempt, so a result that arrives for an earlier attempt can be told from
one for this attempt.  The id of an `exec` or `spawn` command is a timestamp in
nanoseconds, taken to be unique (`IdOf`); `list` has a constant id, `stop` one
per process, and the kind `"list"` stands for both; the health check has
`HealthId`.  `execute_vm_command` removes its sender when it returns with a result or
at its limit (`WithoutEntry`); list, stop and spawn leave theirs, as in the code.
The actions of VmManager are conjoined with what they do to the
channels: dropping an instance drops its sender map (`DropSenders`).  A
processor sees its channel closed when no instance and no worker holds its
sender (`EndProcessor`), and `Disconnected` is a worker whose channel has no
sender left, in a map or with a processor.

The condition for a retry is the text of the error.  The model retries on the
outcomes that produce the two texts (`closed`, `disconnected`); a command whose
own stderr contains such a text is not modelled.  Delays between retries are
interleaving.

### VmAgent

`backlog`, `served` and `pc` are the accept loop and `handle_connection`, which
runs on the same thread; `client`, `asks`, `sent` and `got` the connections.  A
request arrives in `Parts` reads and parses when the last is there.  A
foreground command is `process["child"]`, the shell, and
`process["background"]`, a process it leaves behind; either writes to the two
pipes what `toWrite` says, and a pipe holds what is `written` and not yet in
`output`.  `Reap` and `KillAtLimit` are the two exits of the `try_wait` loop,
`ReadOutput` and `FinishStream` the two `read_to_string` calls, which end when
nobody can write any more.  `read_to_string` gives all of a stream if its bytes
are UTF-8 and otherwise an error, which the code ignores, and an empty string:
`utf8[s]` says what the bytes of a stream are so far - a write may begin, complete
or break a character - and `TextOf` what comes of them.  `Return` closes the descriptors.  Spawned commands
have no pipes, are entered in `processTable` and, as in the code, never waited
for.

Two peers at once are real: the processor of a replaced instance looks its VM
up by name and connects to the new one.  The 30 s limit for reading a request
is in a branch a blocking socket does not reach and is left out; so is the
error of `try_wait`, which needs a child that is not the server's.

This module stands for what VmCommands assumes of a VM: `VmsAnswer` there is
`EventuallyAnswered` here, with the same exception.

### SideChannels and LogLines

SideChannels EXTENDS VmManager: its VMs come and go by the actions there.
`listener` and `place` are the two threads of the host that wait for a VM, one for
logs and one for proxy requests, and the VM in whose directory each listens;
looking at the table and binding are two steps (`LookForVm`, `Bind`), because
the table is not locked in between, and after that a thread never looks again.
`agent[c]` is the start of the agent in VM `c`: it connects its logger
(`ConnectLogger`, which needs the listener in its own directory), then starts its
servers.  `channel[c]` is the bounded channel, `stream[c]` what is in the
connection, `reader[c]` the host's thread for it.  A connection is buffered by
the system, so a record may be written before the host accepts; it breaks when
the VM ends, in the middle of a record (`LoseTail`).  `accepted` and `received`
are histories of what the channel took and what the host read.

LogLines is the reader's function: bytes that are not yet UTF-8 stay in
`buffer`, what follows the last line end in `incomplete`.  Both are lost when the
connection ends, as in the code: what `HostPrintsRecords` promises is the lines of
the text that was read, and `DrainedLogIsPrinted` that no record is among what is
held back once channel and connection are empty.  `Split` and `Bytes` are recursive
functions of a position, so that they can be reasoned about.  The four kinds of
byte are what the code tells apart; carriage return ends a line as line feed
does, and a line of blanks, which is not printed, is the empty line.

`ManagerStep` leaves out the shutdown after its flag: it kills VMs, which
`FirecrackerExits` also does, and clears a table no listener reads again.

### HttpProxy

One request, since requests share nothing but the listeners.  Bytes are counted
in chunks: `up` and `down` say how many chunks have come how far - sent, taken
into a channel of the guest, written on, relayed, got - and every buffer is the
difference of two counters, which is enough since buffers keep their order.
`task` are the four tasks of the guest, `relay` the two threads of the host,
`closed` the flag they share and `shut` the half-closes it decides on.
`GuestHungUp`, `ClientDropped` and `HostHungUp` say when the last descriptor of
a socket has gone; they are the reason why `select!` at the end of the guest's
half has no effect: the tasks it does not wait for go on.

Client and target are programs outside the repository (`PeerStep`): they send,
read, close their sending half or everything, whenever they like.  A peer that
closes with unread data resets the connection, and the write after that fails.
Firecracker forwards the host's half-close to the guest; it may close the
connection both ways then, and `ClientWriterWrites` has both outcomes.

## Runs

| run | instance | what it shows |
|---|---|---|
| `requests` | 2 agents, 2 calls, `FairSpec` | `AgentIsolation`, `MapFollowsAgent`, `ActiveRequestIsMapped`, `OneAnswer`, `AnsweredLeavesNothing`, `ShutdownStopsAgents` (liveness), and that the code implements `RequestService` |
| `serial` | 1 agent, 3 calls, `SerialSpec` | `OwnAnswer` and `AnsweredInTime` for a client that waits until earlier work is done |
| `wrong_call` | 1 agent, 2 calls | **violation** of `OwnAnswer` without that discipline |
| `vms` | 3 threads, 2 VM ids, tools may fail | `CidsAreUnique`, `NoForgottenProcess`, `OnlyLateVmsSurvive` |
| `vm_survivor` | the same, tools work | **violation** of `NoVmSurvives` |
| `commands` | 2 threads, 1 VM id, 1 retry, with shutdown and crashes, tools work | `CommandsTypeOK` (the retry bound among it), `OnlyRivalsAreDisplaced`, `NoStrandedWorker` (liveness) |
| `results` | 3 threads, 1 VM id, 1 retry, host serving, tools may fail | `OwnResult`, `PendingIsQueued`, and `NoEntryLeft`, which is about `execute_vm_command` |
| `vm_agent` | 2 connections, requests of 2 parts, pipes of 1 unit, up to 2 units of output per stream and process | `CompleteOutput`, `NoRequestLost`, `EventuallyAnswered` (liveness) |
| `vm_agent_limit` | the same | **violation** of `LimitEndsCommand` |
| `side_channels` | 2 threads, 1 VM id, tools may fail, 2 records (one with a character of two bytes), a channel for 1 | `SideTypeOK` (the channel's bound among it), `OneVmEverServes`, `HostPrintsRecords`, `DrainedLogIsPrinted`, `LoneVmIsServed` (liveness) |
| `vm_never_serves` | 2 threads, 2 VM ids, tools work, no records | **violation** of `EveryVmServes` |
| `http_proxy` | 3 chunks each way, channels of 2, connections of 1 | `OpenTunnelStays`, `NoTruncation`, `ClientFirstLosesNothing`, and the liveness properties `UploadArrives`, `Released`, and `PlainIsAnswered` for a target that does not keep silent |

`vm_agent` and `http_proxy` do not check deadlock: a server without connections
waits, and a tunnel whose ends are idle does too.

Why these bounds: the faults of the request path need an earlier call, whose
work is late, and a call it can meet; what crosses agents needs two of them.
A third call of one agent is in `serial`, and what `requests` checks of safety,
the refinement included, is proved for any number.  A VM needs one thread that
creates it, one that replaces or destroys it and one in flight beside the
shutdown; two names tell replacing from creating.  For commands, two workers
meet on a constant id and the third destroys or replaces the VM under them; one
retry has an earlier and a later attempt.  In the VM agent two units through a
pipe of one make a process block, and a second connection is there to be held
up.  The log needs a channel that is full while a record is written, a read that
ends inside a character, and a second VM that replaces the first.  A tunnel
needs chunks in its channel, in both connections and still to come at once: with
rooms of 2 and 1, three chunks fill a direction and block its source; the proofs
hold for any number and any room.  Every thread runs one operation and every
call happens once, which bounds the state spaces; there is no other bound.
`commands` has fewer threads than `results` because the shutdown, the crashes and
the liveness property multiply its states; the kind `"spawn"` differs from
`"exec"` only in not waiting and is in `results`.  For the same reason its tools
do not fail; the theorems hold whether they do or not.  The two violations do not
need failing tools and are shown without them.

`OnlyRivalsAreDisplaced` is what is left of a stronger wish.  Two retries of one VM
may both find it unhealthy and both create it; the second insert then displaces
the first instance, whose process keeps running without an entry until the pgrep
of the shutdown.  `NoForgottenProcess` exempts displaced processes, here and wherever
`create_vm` is called with an id in use, since the code does not prevent it.
What the retries do keep is that a VM they displace is a rival's: the destroy in
front of the create takes away whatever the retry had found.

`SerialSpec` restricts the client, not the code: `OpenCall` waits until no call
of the agent is open and no work of an earlier one remains.  It is the
discipline under which the tools can be used safely, and `wrong_call` shows
that without it they cannot.  `ServingSpec` leaves out the shutdown and
processes that end by themselves.

### Fairness

Handler steps, loop steps and the steps of worker threads are weakly fair: they
are threads and tasks of one process whose every wait has a limit (10 s for the
HTTP client of `FetchData`, `main.rs:57`; 30 s for commands; 2 s for a boot), and a guest's call returns or is
stopped by the sandbox.  New calls, Ctrl+C, the 120 s limit and the limits of
commands are *not* fair: no property relies on such a limit being reached, or on
its not being reached.

A processor of VmCommands has no limit for its exchange with a VM, so
`FinishCommand` is not fair; `NoStrandedWorker` has the condition `VmsAnswer`
instead, that no processor waits for its VM for ever.  In VmAgent the server and
the host's sending of a request are fair, and `LimitPasses` is, because time
passes; nothing is assumed of commands except in `BackgroundLetsGo`, the
condition of `EventuallyAnswered`.

In SideChannels the listener threads, the readers and the agent of a running VM
are fair; clients, logging programs and the ends of VMs are not.  In HttpProxy
tasks and threads are fair, and so is the host's handler of a CONNECT, whose
connect the system limits; the client and the target are not.  Nor is the host's
handler of a plain request: it waits for the target with a client of its own
that has no limit (`Client::new()`, `mod.rs:76`), and the guest waits for it without
one.  `PlainIsAnswered` has as its condition that this wait ends (`TargetNotSilent`),
`UploadArrives` that the target reads, and `Released` that both ends close.

## Proofs

Every safety property of the passing runs is proved, for every value of the
constants, by the theorem of `PROJECT.json` that names it.  Each proof module has
the same form: an invariant in named parts, a lemma that `Init` establishes it,
one that every action keeps it, and a theorem for each property.

`AgentRequestsProofs` proves, for any finite or infinite sets of requests and
agents, `TypeOK`, `AgentIsolation`, `MapFollowsAgent`, `ActiveRequestIsMapped`
and `OneAnswer`.  The inductive invariant `IInv` joins three parts:

* `TypeInv`: the types, and what position of the loop has which message in hand;
* `Own`: every request in a queue, in a loop, in a map or with a worker of agent
  `a` is a call whose target is `a` - without it a step of one agent could touch
  the entry of another;
* `Kept`: an agent's entry names its `request_id` or nothing, and if that request
  still has a response channel then the entry is there.  The clean-up of call
  `r` removes the entries that name `r` *and* the channel of `r` in one critical
  section, which is what makes this inductive; so does the error path, which
  removes the channel before the entry.

`OneAnswer` follows since a response is written only to a call that is a key of
the map, its key is removed by the same step, and a key's response is `None`.
`AnswerStep`, that no step changes an answer, is its core and is used again below.

`VmManagerProofs` proves `TypeOK`, `CidsAreUnique`, `NoForgottenProcess` and
`OnlyLateVmsSurvive`, for any threads and names.  Cids below the counter are in
use at most once: a create draws a fresh one, and table, creates and displaced
instances stay disjoint.  Of the shutdown: once processes have been listed,
every running one is in the list still to be killed, is late, or was spared by
a failed tool.  The theorems hold whether or not tools fail; if they do not,
`spared` is empty.

`VmCommandsProofs` proves `CommandsTypeOK`, `OwnResult`, `NoEntryLeft` and
`PendingIsQueued`, for any finite sets of workers and names and any limit on
retries, under `CommandsSpec` and under `ServingSpec`; it rests on the invariant
of VmManagerProofs.  Processors and workers find instances and senders by name,
so the invariant `CommandsInv` says what the names stand for:

* `Served`: a cid is given to one VM, once - a processor started for a cid never
  serves another;
* `Entries`: only an instance in the table has senders, no two of one instance
  have the same id, and the sender of a channel that is listened to is in the
  instance its worker holds;
* `Queued` and `Jobs`: every queued or running command carries the id of the
  channel it was sent for, and runs where that channel's worker registered;
* `Places`, `Results`: where a worker is in its operation, and what a channel may
  hold there;
* `CidBound`: cids drawn are no more than the draws the workers have made, which
  is what makes `Cids`, the domain of queues and processors, large enough.

That a channel, once made, keeps its id and its worker (`ChannelsStep`) carries
the last four over every step.  `NoEntryLeft` then follows from `Entries`, since
an operation ends by removing its id from the instance the entry must be in; and
`PendingIsQueued` since a sender of the worker's own channel is written before
the command is queued, and a processor that takes the command finds it.

`ManagerPromisesHold` carries `CidsAreUnique`, `NoForgottenProcess` and
`OnlyLateVmsSurvive`, with the exceptions they state, over to VmCommands, whose
workers destroy and create VMs in the middle of a command and are therefore no
threads of VmManager.  `ManagerSteps` sorts the steps: those of VmManager, those
that leave its variables alone, and those *between* operations, of a retry that
destroys an unhealthy instance or goes back to registering.  `BetweenOperations` is
what the last kind may do - take an instance away with its process, and move a
thread that has drawn no context id - and it keeps the invariants of
VmManagerProofs.

`RivalsAreDisplaced` proves `OnlyRivalsAreDisplaced`.  It needs that no two workers drew
the same context id (`CidOwners`), and that who has not drawn yet has none
(`Undrawn`).  The retry's destroy leaves no instance of its name in the table, and
what is put there afterwards is put there by a create in hand, whose worker is
known by its context id.

`VmAgentProofs` proves `TypeOK`, `CompleteOutput` and `NoRequestLost`, for any
number of connections and any sizes.  The invariant of the second says what was
true when the server left a stream - the child reaped, no process left to write,
the pipe empty, the answer made of all the bytes or, if they are no text, of
none - and that it stays true since only a running child starts a process.  That of the third gives every connection one place: in the listener's
queue once and not read from, in the server's hands, or ended; and past its reads
the server has a whole request.

`RequestServiceProofs` proves that AgentRequests implements `RequestService`
(`Implements`): initial states map to initial states and every step to a step of
the service or a stutter.  All steps but one follow from types.  The receipt of
an answer needs its work to be of a call accepted no later than the one that is
answered, and that is a fact about queues in which requests and callbacks of
earlier requests are mixed.  The invariant `Order` gives each accepted call its
`ticket` and says of every agent: requests are queued in the order of their
tickets, and all behind the work the agent has already begun (`Work`: what its
workers, callbacks and loop hold); of that work, the message in hand or
`request_id` is the latest; and `FinalResult` has looked up `request_id` or
nothing.  It uses `IInv` of AgentRequestsProofs.

The same module proves `AnsweredLeavesNothing` (`NothingOfAnswered`).  The danger is
an event loop that stores the id of a call after the call's handler has cleaned
up: the entry would stay.  `AheadIsUnanswered` excludes it: a call whose message is
queued, or taken and not yet stored in the map, has no answer, so its handler has
not come to the clean-up.  The proof needs `Order`, since `FinalResult` answers
`request_id` or nothing, and what is queued for the agent was accepted later.

`SerialClientProofs` proves `OwnAnswer` under `SerialSpec`, for any number of
calls.  A call may be opened while callbacks of timed out calls are queued and
while `request_id`, the map and `FinalResult` name such a call.  The invariant
`Serial` says, of the one call an agent may have open: all workers and requests
of the agent are for it; whatever is behind its message in the queue is for it;
and once the loop has begun it, or any of the three places names it, nothing of
another call is left.  So what is posted to an open call is its own work.

`SideChannelsProofs` proves `SideTypeOK`, `OneVmEverServes`, `HostPrintsRecords` and
`DrainedLogIsPrinted`, and that the composition implements VmManager
(`SideImplementsManager`), so that what is proved of the manager holds of it.  An
agent gets past its logger only in the directory the listener listens in, and once
it listens the listener never moves: the invariant says that whoever is past it is
at `place["log"]`, and that the listener does not go back to choosing.

The two properties of the log are about what functions compute: that reading a
text in pieces gives the same lines as reading it at once, whatever the pieces.
`Split` and `Bytes` are recursive functions on the naturals, and the facts about them
(`SplitConcat`: the lines of a text in two parts are those of the first and then
those of what the first left over with the second; `BytesHead`: the bytes of
records come record by record) are shown from a least counterexample, with `WFMin`
and `NatLessThanWellFounded`, which need no operator as a parameter.
`LogInv` says of a connection that the bytes read are those of a complete text, whose
lines are printed or in `incomplete`, followed by those held back (`Heard`), and that
the bytes read, in the stream and in the channel are those of the accepted records
while the VM runs, and a part from their start otherwise (`Carried`).  A
first form of `HostPrintsRecords` had the printed lines as a prefix of the lines of
all that was read, and is false: a connection cut inside a character prints, as its
last line, what came before the bytes held back and not the line they were part of.
TLC gave the counterexample with a record whose character has two bytes, which the
run now has; the property says of which part of the text the printed lines are the
lines.

`HttpProxyProofs` proves `TypeOK`, `OpenTunnelStays`, `NoTruncation` and
`ClientFirstLosesNothing`, for any number of chunks and any room.  The first two
need why each task ended: `client reader` only after the client closed, and so
on along the chain, so that with both ends open none has ended.  `NoTruncation`
needs what was empty when each of the three stages of the download ended, and
that it stays empty.

Assumed: the tools of agents are tools, and `None` is not a value
(`ToolNameAssumption`, `NoneAssumption`, `NoVmAssumption`,
`ConnectionsAssumption`); requests and pipes are not empty (`SizesAssumption`);
channels and connections have room (`CapacityAssumption`, `RoomAssumption`),
records are sequences of bytes and each is UTF-8
(`RecordsAssumption`; the logger writes Rust strings), `Chunks` is a number
(`ChunksAssumption`), tools fail or they do not (`ToolsAssumption`), for SideChannels that there are finitely many threads
(`WorkersAssumption`), and for VmCommands finitely many threads and names
(`FinitenessAssumption`).  TLC evaluates them in every run.

Only model-checked: the liveness properties (`ShutdownStopsAgents`, `AnsweredInTime`,
`NoStrandedWorker`, `EventuallyAnswered`, `LoneVmIsServed`, `UploadArrives`,
`Released`, `PlainIsAnswered`), which need fairness and so ENABLED.  Of three of
them the safety part is proved: `PendingIsQueued` for `NoStrandedWorker`,
`NoRequestLost` for `EventuallyAnswered` and `NoTruncation` for the download beside
`UploadArrives`.  What is violated in the runs above is of course not proved;
`OnlyLateVmsSurvive` and `OneVmEverServes` prove how far two of the violations go.

## Findings

1. `OwnAnswer` (`wrong_call`): `FinalResult` answers the latest request of the
   agent.  With two calls in flight the work of the first answers the second,
   and the first never gets its result.
2. `NoVmSurvives` (`vm_survivor`): a create that has passed its checks spawns
   its VM after the last listing of processes; main then reports that all
   resources have been cleaned up.  `OnlyLateVmsSurvive`, proved, says this is
   the only way, as long as `pgrep` and `kill` can be run; if one cannot, what it
   should have found or killed survives too.
3. `EveryVmServes` (`vm_never_serves`): a VM agent connects its logger before it
   listens for commands, the log listener listens in the directory of one VM and
   never of another, and so of all VMs ever created one serves commands at most
   (`OneVmEverServes`, proved).  Commands to any other run into their time limit.
4. `LimitEndsCommand` (`vm_agent_limit`): the limit of 15 s kills the shell only.
   What the shell has started keeps the pipes, the server reads until it ends,
   and the VM serves nobody meanwhile.  A command that puts a process in the
   background and exits at once has the same effect without any limit.

Seen while modelling, in the models, but no property of a run:

* Destroying a VM removes the file `rootfs_symlink` names, which is
  `firecracker/rootfs.squashfs`, the image all VMs boot from (`firecracker.rs:506`);
  later creates fail (`FailCreate`) until it is built again.
* Two retries of one VM both create it, and the displaced process has no entry
  by which to destroy it (`mod.rs:281-282`, `firecracker.rs:47`; the state after the
  second `StartInstance`).
* A destroy whose kill cannot be run reports success and has dropped the entry
  (`firecracker.rs:503`, `spared`).
* list, stop and spawn leave their result senders in the instance
  (`firecracker.rs:352-357`, `419-420`, `483-485`, `WithoutEntry`).
* The output of a command is dropped, a whole stream at a time and without an
  error, if it is not UTF-8 (`command_execution/mod.rs:73-78`, `96-101`, `TextOf`).
* The log and the proxy listener choose their VMs separately and may choose
  different ones; then no VM that serves can reach the proxy.
* The guest's proxy reads the host's reply once and never looks at it: what the
  target sent behind it is lost (`lost`), and a client whose target refused is
  told 200 and finds its tunnel closed (`ReadReply`).
* A tunnel with one end closed stays until the other end closes or sends: nothing
  passes the end of one direction on to the tasks of the other.

## Not modelled, and the plan

Left out: the text of messages, JSON, MCP and HTTP formats; the parsing in the
guests; logging; the build tasks (`xtask`); the integration tests.
`start_vsock_server` and `handle_vm_connection` (`vm_functions/mod.rs:158-185`,
`285-317`) are not reached with effect: the handler looks up the empty VM id.
The VM agent's list and stop functions are called by nothing.

In HttpProxy the bytes of requests, their headers and a failing bind are left
out; the guest's handler reads the host's reply on a thread of the runtime, of
which a VM with one processor has one, so a slow target delays the other
requests of the VM: one request at a time does not show that.

Next: **HostShutdown**, AgentRequests and VmManager under one main, with calls
that still arrive.  Of proofs, what VmCommands assumes of a VM (`VmsAnswer`) against
what VmAgent gives is stated only in words.

------------------------------ MODULE VmAgent ------------------------------
(***************************************************************************)
(* The command server inside a VM (vm-agent): one thread accepts a         *)
(* connection, reads one request, runs or spawns its command, replies and  *)
(* only then accepts again.  A foreground command is a child with a pipe   *)
(* for each output stream; it may leave a background process behind that   *)
(* has inherited the pipes.                                                *)
(***************************************************************************)
EXTENDS Naturals, Sequences

CONSTANTS Connections,   \* the connections processors of the host make
          None,          \* not a connection
          Parts,         \* how many reads it takes to receive a request
          PipeSize,      \* what a pipe holds
          MaxOutput      \* what a process writes to one stream at most

ASSUME ConnectionsAssumption == None \notin Connections
ASSUME SizesAssumption == Parts \in Nat \ {0} /\ PipeSize \in Nat \ {0} /\ MaxOutput \in Nat

Streams == {"stdout", "stderr"}
Processes == {"child", "background"}
Mode == {"foreground", "spawn", "proxy"}

VARIABLES
  client,        \* the peer of a connection, as the host sees it
  asks,          \* what its request asks for
  sent, got,     \* the parts of the request it has sent, and the server read
  backlog,       \* connections not yet accepted
  served,        \* the connection in the server's hands, or None
  pc,            \* where the server is
  expired,       \* 15 s have passed since the child was started
  process,       \* the child of the command, and what it leaves behind
  toWrite,       \* what either still wants to write to each stream
  written,       \* what was written to each pipe
  utf8,          \* whether the bytes of a stream are a text so far
  output,        \* what the server has read from it
  answer,        \* the text it answers with
  processTable   \* PROCESS_TABLE: spawned processes, never waited for

clientVars == <<client, asks, sent>>
commandVars == <<expired, process, toWrite, written, utf8, output, answer>>
vars == <<clientVars, got, backlog, served, pc, commandVars, processTable>>

ServerState == {"accept", "read", "poll", "stdout", "stderr", "reply"}
ClientState == {"new", "open", "answered", "closed"}
ProcessState == {"none", "running", "exited", "reaped"}

Nothing == [s \in Streams |-> 0]
Silent == [p \in Processes |-> Nothing]

Init ==
  /\ client = [c \in Connections |-> "new"]
  /\ asks \in [Connections -> Mode]
  /\ sent = [c \in Connections |-> 0]
  /\ got = [c \in Connections |-> 0]
  /\ backlog = <<>>
  /\ served = None
  /\ pc = "accept"
  /\ expired = FALSE
  /\ process = [p \in Processes |-> "none"]
  /\ toWrite = Silent
  /\ written = Nothing
  /\ utf8 = [s \in Streams |-> TRUE]
  /\ output = Nothing
  /\ answer = Nothing
  /\ processTable = {}

-----------------------------------------------------------------------------
(* The host's end of a connection.                                          *)

Connect(c) ==
  /\ client[c] = "new"
  /\ client' = [client EXCEPT ![c] = "open"]
  /\ backlog' = Append(backlog, c)
  /\ UNCHANGED <<asks, sent, got, served, pc, commandVars, processTable>>

Send(c) ==
  /\ client[c] = "open"
  /\ sent[c] < Parts
  /\ sent' = [sent EXCEPT ![c] = @ + 1]
  /\ UNCHANGED <<client, asks, got, backlog, served, pc, commandVars, processTable>>

\* The host ends, or its thread does, before the answer.
HangUp(c) ==
  /\ client[c] = "open"
  /\ client' = [client EXCEPT ![c] = "closed"]
  /\ UNCHANGED <<asks, sent, got, backlog, served, pc, commandVars, processTable>>

-----------------------------------------------------------------------------
(* The server's loop and handle_connection.                                 *)

Accept ==
  /\ pc = "accept"
  /\ backlog # <<>>
  /\ served' = Head(backlog)
  /\ backlog' = Tail(backlog)
  /\ pc' = "read"
  /\ UNCHANGED <<clientVars, got, commandVars, processTable>>

\* The handler returns, its connection closed, and the loop accepts again.
\* The descriptors of the last child are closed with it: what a background
\* process writes from now on goes nowhere, so it is forgotten here.
Return ==
  /\ served' = None
  /\ pc' = "accept"
  /\ expired' = FALSE
  /\ process' = [p \in Processes |-> "none"]
  /\ toWrite' = Silent
  /\ written' = Nothing
  /\ utf8' = [s \in Streams |-> TRUE]
  /\ output' = Nothing
  /\ answer' = Nothing

\* write_all and flush; an error, the client gone, is logged.
Answer ==
  /\ client' = [client EXCEPT ![served] = IF @ = "open" THEN "answered" ELSE @]
  /\ Return

\* Mutant: another part is taken for granted once one has arrived.
ArrivedOnce(c) == sent[c] > 0

Arrived(c) == got[c] < sent[c]

\* A read that leaves the request incomplete: it does not parse as JSON.
ReadPart ==
  /\ pc = "read"
  /\ Arrived(served)
  /\ got[served] + 1 < Parts
  /\ got' = [got EXCEPT ![served] = @ + 1]
  /\ UNCHANGED <<clientVars, backlog, served, pc, commandVars, processTable>>

\* The read that completes the request.
ReadRequest(mode) ==
  /\ pc = "read"
  /\ Arrived(served)
  /\ got[served] + 1 = Parts
  /\ asks[served] = mode
  /\ got' = [got EXCEPT ![served] = @ + 1]

\* Mutant: a read that finds nothing is taken for the end.
ReadNothing ==
  /\ pc = "read"
  /\ ~Arrived(served)
  /\ Return
  /\ UNCHANGED <<clientVars, got, backlog, processTable>>

\* The read returns 0 or an error.  Error texts are written to a connection
\* whose other end has gone.
ReadEnd ==
  /\ pc = "read"
  /\ client[served] = "closed"
  /\ ~Arrived(served)
  /\ Return
  /\ UNCHANGED <<clientVars, got, backlog, processTable>>

\* execute_command: the shell is spawned, with output of its choice.
StartChild ==
  /\ ReadRequest("foreground")
  /\ process' = [process EXCEPT !["child"] = "running"]
  /\ \E w \in [Streams -> 0 .. MaxOutput] : toWrite' = [toWrite EXCEPT !["child"] = w]
  /\ pc' = "poll"
  /\ UNCHANGED <<clientVars, backlog, served, expired, written, utf8, output, answer, processTable>>

\* The spawn fails and exit code -1 is returned at once.
FailToStart ==
  /\ ReadRequest("foreground")
  /\ Answer
  /\ UNCHANGED <<asks, sent, backlog, processTable>>

\* spawn_command_struct: the process has no pipes and is entered in the table,
\* or its spawn fails and an answer says so.
SpawnCommand ==
  /\ ReadRequest("spawn")
  /\ \/ processTable' = processTable \cup {served}
     \/ UNCHANGED processTable
  /\ Answer
  /\ UNCHANGED <<asks, sent, backlog>>

RefuseProxyRequest ==
  /\ ReadRequest("proxy")
  /\ Answer
  /\ UNCHANGED <<asks, sent, backlog, processTable>>

\* try_wait finds that the child has exited.
Reap ==
  /\ pc = "poll"
  /\ process["child"] = "exited"
  /\ process' = [process EXCEPT !["child"] = "reaped"]
  /\ pc' = "stdout"
  /\ UNCHANGED <<clientVars, got, backlog, served,
                 expired, toWrite, written, utf8, output, answer, processTable>>

\* Mutant: the child is waited for at the limit but not killed.
WaitAtLimit ==
  /\ pc = "poll"
  /\ expired
  /\ process["child"] = "exited"
  /\ process' = [process EXCEPT !["child"] = "reaped"]
  /\ pc' = "stdout"
  /\ UNCHANGED <<clientVars, got, backlog, served,
                 expired, toWrite, written, utf8, output, answer, processTable>>

\* The child is running when try_wait looks and the limit has passed: kill and
\* wait.  It may have exited in between; what it had still to write is lost.
KillAtLimit ==
  /\ pc = "poll"
  /\ expired
  /\ process["child"] \in {"running", "exited"}
  /\ process' = [process EXCEPT !["child"] = "reaped"]
  /\ toWrite' = [toWrite EXCEPT !["child"] = Nothing]
  /\ pc' = "stdout"
  /\ UNCHANGED <<clientVars, got, backlog, served,
                 expired, written, utf8, output, answer, processTable>>

\* read_to_string on one stream and then on the other: it reads to the end.
ReadOutput(s) ==
  /\ pc = s
  /\ output[s] < written[s]
  /\ output' = [output EXCEPT ![s] = @ + 1]
  /\ UNCHANGED <<clientVars, got, backlog, served, pc,
                 expired, process, toWrite, written, utf8, answer, processTable>>

NextStream(s) == IF s = "stdout" THEN "stderr" ELSE "reply"

\* Mutant: the server stops reading when the pipe is empty.
PipeIsEmpty(s) == output[s] = written[s]

\* Nothing to read and nobody left who could write.
EndOfFile(s) == output[s] = written[s] /\ \A p \in Processes : process[p] # "running"

\* Mutant: bytes that are not a text are taken over all the same.
AnyText(s) == output[s]

\* Bytes that are not UTF-8 are an error, which is ignored: the string stays empty.
TextOf(s) == IF utf8[s] THEN output[s] ELSE 0

FinishStream(s) ==
  /\ pc = s
  /\ EndOfFile(s)
  /\ answer' = [answer EXCEPT ![s] = TextOf(s)]
  /\ pc' = NextStream(s)
  /\ UNCHANGED <<clientVars, got, backlog, served,
                 expired, process, toWrite, written, utf8, output, processTable>>

AnswerCommand ==
  /\ pc = "reply"
  /\ Answer
  /\ UNCHANGED <<asks, sent, got, backlog, processTable>>

-----------------------------------------------------------------------------
(* The command's processes, the kernel's pipes and the clock.               *)

\* A write to a full pipe blocks: the process waits until there is room.  What it
\* writes may begin, complete or break a character.
Write(p, s) ==
  /\ process[p] = "running"
  /\ toWrite[p][s] > 0
  /\ written[s] - output[s] < PipeSize
  /\ toWrite' = [toWrite EXCEPT ![p][s] = @ - 1]
  /\ written' = [written EXCEPT ![s] = @ + 1]
  /\ \E whole \in BOOLEAN : utf8' = [utf8 EXCEPT ![s] = whole]
  /\ UNCHANGED <<clientVars, got, backlog, served, pc,
                 expired, process, output, answer, processTable>>

\* The child starts a process that keeps its standard output and error.
StartBackground ==
  /\ process["child"] = "running"
  /\ process["background"] = "none"
  /\ process' = [process EXCEPT !["background"] = "running"]
  /\ \E w \in [Streams -> 0 .. MaxOutput] : toWrite' = [toWrite EXCEPT !["background"] = w]
  /\ UNCHANGED <<clientVars, got, backlog, served, pc,
                 expired, written, utf8, output, answer, processTable>>

ChildExits ==
  /\ process["child"] = "running"
  /\ toWrite["child"] = Nothing
  /\ process' = [process EXCEPT !["child"] = "exited"]
  /\ UNCHANGED <<clientVars, got, backlog, served, pc,
                 expired, toWrite, written, utf8, output, answer, processTable>>

\* It may exit, or be killed, before it has written all that it wanted to.
BackgroundExits ==
  /\ process["background"] = "running"
  /\ process' = [process EXCEPT !["background"] = "exited"]
  /\ toWrite' = [toWrite EXCEPT !["background"] = Nothing]
  /\ UNCHANGED <<clientVars, got, backlog, served, pc,
                 expired, written, utf8, output, answer, processTable>>

LimitPasses ==
  /\ pc = "poll"
  /\ ~expired
  /\ expired' = TRUE
  /\ UNCHANGED <<clientVars, got, backlog, served, pc,
                 process, toWrite, written, utf8, output, answer, processTable>>

-----------------------------------------------------------------------------
ServerStep == \/ Accept \/ ReadPart \/ ReadEnd
              \/ StartChild \/ FailToStart \/ SpawnCommand \/ RefuseProxyRequest
              \/ Reap \/ KillAtLimit
              \/ \E s \in Streams : ReadOutput(s) \/ FinishStream(s)
              \/ AnswerCommand

CommandStep == \/ \E p \in Processes, s \in Streams : Write(p, s)
               \/ StartBackground \/ ChildExits \/ BackgroundExits

Next == \/ \E c \in Connections : Connect(c) \/ Send(c) \/ HangUp(c)
        \/ ServerStep
        \/ CommandStep
        \/ LimitPasses

Spec == Init /\ [][Next]_vars

\* The server's thread is scheduled, a processor of the host writes its request
\* once connected, and time passes.  Commands may do as they like.
Fairness == /\ WF_vars(ServerStep)
            /\ \A c \in Connections : WF_vars(Send(c))
            /\ WF_vars(LimitPasses)

FairSpec == Spec /\ Fairness

-----------------------------------------------------------------------------
(* Properties.                                                              *)

\* Every variable holds a value of its type, and no more is read than was sent.
TypeOK ==
  /\ client \in [Connections -> ClientState]
  /\ asks \in [Connections -> Mode]
  /\ sent \in [Connections -> 0 .. Parts]
  /\ got \in [Connections -> 0 .. Parts]
  /\ \A c \in Connections : got[c] <= sent[c]
  /\ backlog \in Seq(Connections)
  /\ served \in Connections \cup {None}
  /\ pc \in ServerState
  /\ expired \in BOOLEAN
  /\ process \in [Processes -> ProcessState]
  /\ toWrite \in [Processes -> [Streams -> 0 .. MaxOutput]]
  /\ written \in [Streams -> Nat]
  /\ output \in [Streams -> Nat]
  /\ utf8 \in [Streams -> BOOLEAN]
  /\ answer \in [Streams -> Nat]
  /\ \A s \in Streams : output[s] <= written[s] /\ answer[s] <= output[s]
  /\ processTable \in SUBSET Connections

\* The answer to a command has all of a stream or nothing of it, and nothing only if
\* what was written is not UTF-8, as when the kill cuts a character: what the shell and
\* the processes it left behind wrote, on both streams, although the streams are read
\* one after the other and only after the child has ended.
CompleteOutput ==
  pc = "reply" => \A s \in Streams : answer[s] = IF utf8[s] THEN written[s] ELSE 0

\* The connection is still to be accepted.
Waiting(c) == \E i \in DOMAIN backlog : backlog[i] = c

\* However connections come, stall and break off, the server gives none up but
\* one whose host has gone: an open connection is in its hands or waits, untouched,
\* to be accepted, and only a request that was read to its end is answered, once.
NoRequestLost ==
  \A c \in Connections :
    /\ client[c] = "open" => c = served \/ Waiting(c)
    /\ client[c] = "answered" => got[c] = Parts /\ c # served /\ ~Waiting(c)
    /\ Waiting(c) => c # served /\ got[c] = 0

\* No background process of a command keeps the pipes for ever.
BackgroundLetsGo == []<>(process["background"] # "running")

\* Unless a background process keeps the pipes, every connection is answered,
\* whatever the commands of the earlier ones do: fill a pipe, or never end.
EventuallyAnswered ==
  BackgroundLetsGo =>
    \A c \in Connections : client[c] = "open" ~> client[c] # "open"

\* A command that has run out of time is answered, as its message says: "Command
\* timed out after 15 seconds".
LimitEndsCommand == expired ~> pc = "accept"
=============================================================================

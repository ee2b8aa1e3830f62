--------------------------- MODULE RequestService ---------------------------
(***************************************************************************)
(* What the MCP side of the host promises a client, without agents' event  *)
(* loops, response channels or maps: a tool call is refused, or accepted   *)
(* by one agent, and an accepted call gets at most one reply or gives up.  *)
(* A reply is work of the same agent, done for this call or for a call the *)
(* agent accepted earlier, never for a later one.                          *)
(***************************************************************************)
EXTENDS Naturals

CONSTANTS Requests,   \* the identities of tool calls
          Agents,     \* the agents that serve them
          None        \* not a request and not an agent

VARIABLES status,     \* what the client knows of each call
          server,     \* the agent that accepted the call
          ticket,     \* the position of the call among those accepted, 0 before
          issued,     \* how many tickets were given out
          reply       \* the call whose work the client was given

vars == <<status, server, ticket, issued, reply>>

Init == /\ status = [r \in Requests |-> "idle"]
        /\ server = [r \in Requests |-> None]
        /\ ticket = [r \in Requests |-> 0]
        /\ issued = 0
        /\ reply = [r \in Requests |-> None]

Accept(r, a) == /\ status[r] = "idle"
                /\ status' = [status EXCEPT ![r] = "pending"]
                /\ server' = [server EXCEPT ![r] = a]
                /\ ticket' = [ticket EXCEPT ![r] = issued + 1]
                /\ issued' = issued + 1
                /\ UNCHANGED reply

Refuse(r) == /\ status[r] = "idle"
             /\ status' = [status EXCEPT ![r] = "refused"]
             /\ UNCHANGED <<server, ticket, issued, reply>>

\* The work of request w answers r.
Reply(r, w) == /\ status[r] = "pending"
               /\ server[w] = server[r]
               /\ ticket[w] \in 1 .. ticket[r]
               /\ status' = [status EXCEPT ![r] = "replied"]
               /\ reply' = [reply EXCEPT ![r] = w]
               /\ UNCHANGED <<server, ticket, issued>>

GiveUp(r) == /\ status[r] = "pending"
             /\ status' = [status EXCEPT ![r] = "failed"]
             /\ UNCHANGED <<server, ticket, issued, reply>>

Next == \E r \in Requests : \/ \E a \in Agents : Accept(r, a)
                            \/ Refuse(r)
                            \/ \E w \in Requests : Reply(r, w)
                            \/ GiveUp(r)

Spec == Init /\ [][Next]_vars
=============================================================================

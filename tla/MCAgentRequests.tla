-------------------------- MODULE MCAgentRequests --------------------------
(* Instances of AgentRequests.  Each agent has a tool of its own; "unknown"  *)
(* is a tool name nobody registered.                                         *)
EXTENDS AgentRequests, TLC

CONSTANTS vmBuilder, topHnLinks

MCTools == {"VmBuilder", "Top HN Links", "unknown"}
MCToolName == [a \in Agents |-> IF a = vmBuilder THEN "VmBuilder" ELSE "Top HN Links"]

Symmetry == Permutations(Requests)
=============================================================================

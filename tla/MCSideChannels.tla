--------------------------- MODULE MCSideChannels ---------------------------
(* Instances of SideChannels.  Both records end a line, and the second has a *)
(* character of two bytes inside.                                            *)
EXTENDS SideChannels, TLC

MCRecords == << <<"x", "nl">>, <<"x", "lead", "cont", "nl">> >>

\* Agents that log nothing.
MCNoRecords == <<>>
=============================================================================

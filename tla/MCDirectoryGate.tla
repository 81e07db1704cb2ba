--------------------------- MODULE MCDirectoryGate ---------------------------
(* DirectoryGate on two chats, one of each kind of agent, with a message for *)
(* each, one delivery, and two turns by work that does not ask.              *)
EXTENDS DirectoryGate

CONSTANTS s1, s2, p1, p2

MCSessionOf == [p \in {p1, p2} |-> IF p = p1 THEN s1 ELSE s2]
=============================================================================

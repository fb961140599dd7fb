------------------------------ MODULE MCServer ------------------------------
(* Small instances of Server: who connects.                                *)
EXTENDS Server

CONSTANTS p1, p2, p3, p4

MCPeers == {p1, p2, p3, p4}

\* Three clients, for two connections, and a health check.
Orderly == [p \in MCPeers |-> IF p = p4 THEN "health" ELSE "client"]
\* One peer connects and sends nothing.
OneSilent == [p \in MCPeers |-> IF p = p1 THEN "silent" ELSE "client"]
=============================================================================

------------------------------ MODULE MCGoConn ------------------------------
(* Two calls that wait and one publish.                                    *)
EXTENDS GoConn

CONSTANTS c1, c2, p1

MCCalls == {c1, c2, p1}
MCPublishes == {p1}
\* A new connection, and one whose counter is about to wrap.
FirstAndLast == {0, IdSpace - 2}
=============================================================================

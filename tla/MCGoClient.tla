----------------------------- MODULE MCGoClient -----------------------------
(* Small instances of GoClient.                                            *)
EXTENDS GoClient

CONSTANTS x1, w1

MCSubs == {x1}
MCWriters == {w1}
\* Every object has a topic of its own.
OwnTopics == [x \in MCSubs \cup MCWriters |-> x]

ASSUME TopicsApart
=============================================================================

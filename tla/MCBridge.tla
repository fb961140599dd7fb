------------------------------ MODULE MCBridge ------------------------------
(* Small instances of Bridge: what the clients of each run may ask for.    *)
EXTENDS Bridge

CONSTANTS s1, s2, t1, t2

MCSessions == {s1, s2}
MCTopics == {t1, t2}

Default == <<>>
Explicit == <<Policy(1, <<1, 100>>)>>
Late == <<Policy(2, <<1>>)>>
MCQosSets == {Default, Explicit, Late}

Sub(t, q) == [op |-> "subscribe", topic |-> t, qos |-> q]
Unsub(t) == [op |-> "unsubscribe", topic |-> t]
ByTopic(op, t, q) == [op |-> op, mode |-> "topic", topic |-> t, qos |-> q]
ById(op, id) == [op |-> op, mode |-> "id", id |-> id]
Create(t, q) == [op |-> "create_writer", topic |-> t, qos |-> q]
Delete(id) == [op |-> "delete_writer", id |-> id]
Ping == [op |-> "ping"]
Malformed == [op |-> "malformed"]

\* Two subscribers of one topic.  The first comes and goes, each time perhaps to
\* a new reader.  The second spells the same QoS differently and so shares that
\* reader, or asks for a durable one.
PubSubOps ==
    (s1 :> {Sub(t1, Default), Unsub(t1)}) @@ (s2 :> {Sub(t1, Explicit), Sub(t1, Late)})
PubSubBudget == (s1 :> 3) @@ (s2 :> 1)

\* Calls into DDS that fail.  The first client subscribes, publishes by topic
\* name, spelling its QoS in two ways, and tries writer 1, its own or the one
\* of the second client.
FailureOps ==
    (s1 :> {Sub(t1, Default), Delete(1), ByTopic("write", t1, Default),
            ByTopic("dispose", t1, Explicit), ById("write_dispose", 1)})
    @@ (s2 :> {Create(t1, Late), Ping, Malformed})
FailureBudget == (s1 :> 3) @@ (s2 :> 1)

First == {s1}

\* What arrives from elsewhere in the domain: nothing, or data.
NoSamples == {}
Nobody == {}
AnySample == {<<t1, TRUE, "Alive">>}

\* What the theorems of Bridge_proofs assume.
ASSUME SymmetricEq /\ MaxWriters < WriterIdSpace
=============================================================================

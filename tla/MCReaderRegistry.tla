-------------------------- MODULE MCReaderRegistry --------------------------
(* Small instances of ReaderRegistry: the clients of each run.             *)
EXTENDS ReaderRegistry

CONSTANTS s1, s2, s3, t1, t2

MCSessions == {s1, s2, s3}
MCTopics == {t1, t2}

Default == <<>>
\* Reliability spelled out with its default value: normalizes to Default.
Explicit == <<Policy(1, <<1, 100>>)>>
Durable == <<Policy(2, <<1>>)>>
MCQosSets == {Default, Explicit, Durable}

\* s1 and s2 share a reader of t1 although they spell the QoS differently;
\* s3 asks for t1 with two QoS, one of them that of the shared reader.
MCRequests ==
    {<<s1, t1, Default>>, <<s1, t1, Explicit>>, <<s2, t1, Default>>,
     <<s3, t1, Default>>, <<s3, t1, Durable>>,
     <<s1, t2, Durable>>, <<s3, t2, Durable>>}
=============================================================================

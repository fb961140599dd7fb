------------------------------- MODULE Bridge -------------------------------
(***************************************************************************)
(* The bridge of src/bridge.rs: client sessions, the two registries and    *)
(* the poll loop, sharing one mutex.                                       *)
(*                                                                         *)
(* A handler holds the mutex from its first to its last access to the      *)
(* state, so each request is one action.  The poll loop takes samples and  *)
(* copies the subscribers' senders under the mutex and then fans out       *)
(* without it, one try_send per step here.                                 *)
(*                                                                         *)
(* Cyclone DDS is external: each reader has a cache of samples and the     *)
(* state of its (single) instance, as dds_take reports them.               *)
(***************************************************************************)
EXTENDS Writers, FiniteSets

CONSTANTS
    ClientOps,      \* session -> the requests its client may send
    Leavers,        \* the sessions whose clients may leave
    DdsMayFail,     \* whether calls into DDS may fail
    RemoteSamples,  \* what other DDS participants write: <<topic, valid, state>>
    BufferSize,
    MaxTake,        \* samples taken from a reader per poll, 256 in the code
    CacheDepth,     \* history depth of the readers
    MaxReaders, MaxReplies, MaxOffers,  \* bounds of the components
    MaxSamples      \* bound: samples that arrive in DDS caches

\* What parse_qos and the payload parsers let through to the handlers.
WellFormedRequest(rq) ==
    /\ rq.op \in {"subscribe", "unsubscribe", "create_writer"} => rq.topic \in Topics
    /\ rq.op \in {"subscribe", "create_writer"} => rq.qos \in QosSets
    /\ rq.op \in {"write", "dispose", "write_dispose"} /\ rq.mode = "topic" =>
          rq.topic \in Topics /\ rq.qos \in QosSets

InstanceStates == {"Alive", "Disposed", "NoWriters"}

ASSUME BridgeConstants ==
    /\ BufferSize \in Nat \ {0} /\ MaxTake \in Nat /\ CacheDepth \in Nat
    /\ MaxReaders \in Nat /\ MaxOffers \in Nat /\ MaxReplies \in [Sessions -> Nat]
    /\ RemoteSamples \subseteq Topics \X BOOLEAN \X InstanceStates
    /\ \A q \in QosSets : WellFormed(q)
    /\ \A s \in Sessions : \A rq \in ClientOps[s] : WellFormedRequest(rq)

VARIABLES
    readers, key_to_reader, session_subscriptions, next_reader_id,
    phase, peer, session_senders, resps, resp_ch, bridge_ch, inflight, writer,
    wire, issued, offered,
    topics,        \* DdsParticipant.topics: the topics created so far
    dds,           \* external: reader_id -> its cache and instance state
    history,       \* external: topic -> what durable writers keep for late readers
    samples_made,  \* how many samples have arrived in DDS
    pending        \* the poll loop's fan-out list: what is still to be sent

SubscribeRequests ==
    UNION {{<<s, rq.topic, rq.qos>> :
              rq \in {o \in ClientOps[s] : o.op = "subscribe"}} : s \in Sessions}

RR == INSTANCE ReaderRegistry WITH Requests <- SubscribeRequests
WR == INSTANCE WriterRegistry
SS == INSTANCE Session WITH Bodies <- {}

rr == <<readers, key_to_reader, session_subscriptions, next_reader_id>>
wr == <<writers, session_writers, writers_created>>
ss == <<phase, peer, session_senders, resps, resp_ch, bridge_ch, inflight, writer,
        wire, issued, offered>>
world == <<topics, dds, history, samples_made, pending>>
vars == <<rr, wr, ss, world>>

EmptyCache == [samples |-> <<>>, state |-> "Alive"]

Init ==
    /\ RR!Init /\ WR!Init /\ SS!Init
    /\ topics = {}
    /\ dds = EmptyMap
    /\ history = [t \in Topics |-> EmptyCache]
    /\ samples_made = 0
    /\ pending = <<>>

\* A response carries the request it answers (the request_id of the code);
\* notifications carry the topic and, for the properties, where they come from:
\* the reader, its key and the number of the sample, or Nowhere when the bridge
\* made them up.
Answer(type, rq) == [type |-> type, rq |-> rq]
Notice(type, t, from) == [type |-> type, topic |-> t, from |-> from]
Nowhere == [reader |-> 0, key |-> <<>>, sample |-> 0]

-----------------------------------------------------------------------------
(* Cyclone DDS, external.                                                  *)

\* A QoS with a durability above VOLATILE.
Durable(q) == \E i \in DOMAIN q : q[i].id = 2 /\ q[i].value # <<0>>

\* What the cache of a new reader may start with: nothing or, if the reader is
\* durable and the writers are, what was written before it came.
StartsWith(t, q) == {EmptyCache} \cup (IF Durable(q) THEN {history[t]} ELSE {})

\* A reader's cache exists as long as the reader does.
CachesFollowReaders(new) ==
    /\ dds' = [id \in DOMAIN readers' |-> IF id \in DOMAIN dds THEN dds[id] ELSE new]
    /\ UNCHANGED history

LastOf(q, depth) == IF Len(q) <= depth THEN q ELSE SubSeq(q, Len(q) - depth + 1, Len(q))

\* A cache after the next sample, which also sets the instance state.
With(cache, valid, state) ==
    [samples |-> LastOf(Append(cache.samples, [n |-> samples_made + 1, valid |-> valid]),
                        CacheDepth),
     state |-> state]

\* A sample arrives at the readers of its topic.
Arrives(t, valid, state) ==
    /\ samples_made < MaxSamples
    /\ samples_made' = samples_made + 1
    /\ dds' = [id \in DOMAIN dds |->
                 IF readers[id].topic # t THEN dds[id] ELSE With(dds[id], valid, state)]
    /\ history' = [history EXCEPT ![t] = With(@, valid, state)]

\* Writers elsewhere in the DDS domain; also how DDS reports, in its own time,
\* that the last writer of an instance was deleted.
RemoteWrite ==
    /\ \E r \in RemoteSamples : Arrives(r[1], r[2], r[3])
    /\ UNCHANGED <<rr, wr, ss, topics, pending>>

-----------------------------------------------------------------------------
(* handle_message and the handlers: the reply is part of the same action.  *)

\* What a handler that only answers leaves alone.
Quiet == UNCHANGED <<phase, peer, session_senders, resp_ch, inflight, writer, wire>>

answer(s, type, rq) ==
    /\ SS!Reply(s, <<Answer(type, rq)>>)
    /\ Quiet /\ UNCHANGED <<bridge_ch, offered>>

\* get_or_create_topic: a cached topic is always found, a new one may fail.
TopicFails(t) == DdsMayFail /\ t \notin topics /\ UNCHANGED topics
TopicReady(t) == topics' = topics \cup {t}

handle_subscribe(s, rq) ==
    \/ /\ TopicFails(rq.topic)
       /\ answer(s, "DdsError", rq)
       /\ UNCHANGED <<rr, wr, dds, history, samples_made, pending>>
    \/ /\ TopicReady(rq.topic)
       /\ RR!subscribe(s, rq.topic, rq.qos)
       /\ \E new \in StartsWith(rq.topic, rq.qos) : CachesFollowReaders(new)
       /\ answer(s, "Ok", rq)
       /\ UNCHANGED <<wr, samples_made, pending>>
    \/ /\ TopicReady(rq.topic)             \* dds_create_reader fails
       /\ DdsMayFail
       /\ ~RR!Shared(rq.topic, rq.qos)
       /\ answer(s, "DdsError", rq)
       /\ UNCHANGED <<rr, wr, dds, history, samples_made, pending>>

handle_unsubscribe(s, rq) ==
    \/ /\ RR!unsubscribe(s, rq.topic)
       /\ CachesFollowReaders(EmptyCache)
       /\ answer(s, IF RR!Subscribed(s, rq.topic) THEN "Ok" ELSE "ReaderNotFound", rq)
       /\ UNCHANGED <<wr, topics, samples_made, pending>>
    \/ /\ <<s, rq.topic>> \notin DOMAIN session_subscriptions
       /\ answer(s, "ReaderNotFound", rq)
       /\ UNCHANGED <<rr, wr, world>>

handle_create_writer(s, rq) ==
    \/ /\ TopicFails(rq.topic)
       /\ answer(s, "DdsError", rq)
       /\ UNCHANGED <<rr, wr, dds, history, samples_made, pending>>
    \/ /\ TopicReady(rq.topic)
       /\ register(s, rq.topic, rq.qos)
       /\ answer(s, "Ok", rq)
       /\ UNCHANGED <<rr, dds, history, samples_made, pending>>
    \/ /\ TopicReady(rq.topic)             \* dds_create_writer fails
       /\ DdsMayFail
       /\ answer(s, "DdsError", rq)
       /\ UNCHANGED <<rr, wr, dds, history, samples_made, pending>>

handle_delete_writer(s, rq) ==
    \/ /\ delete(s, rq.id)
       /\ answer(s, "Ok", rq)
       /\ UNCHANGED <<rr, world>>
    \/ /\ ~Owns(s, rq.id)
       /\ answer(s, "WriterNotFound", rq)
       /\ UNCHANGED <<rr, wr, world>>

\* PING, and the frames refused before a handler sees them: too short, a bad
\* header, payload or type.
handle_other(s, rq) ==
    /\ answer(s, IF rq.op = "ping" THEN "Pong" ELSE "InvalidMessage", rq)
    /\ UNCHANGED <<rr, wr, world>>

-----------------------------------------------------------------------------
(* WRITE, DISPOSE and WRITE_DISPOSE: rq.op is the operation, rq.mode says  *)
(* whether the writer is named by topic or by id.                          *)

\* The writer is there, or a topic-name request makes it.
WriterReady(s, rq) ==
    \/ /\ rq.mode = "id"
       /\ Owns(s, rq.id)
       /\ UNCHANGED <<wr, topics>>
    \/ /\ rq.mode = "topic"
       /\ Reusable(s, rq.topic, normalize(rq.qos)) # {}
       /\ UNCHANGED <<wr, topics>>
    \/ /\ rq.mode = "topic"
       /\ Reusable(s, rq.topic, normalize(rq.qos)) = {}
       /\ TopicReady(rq.topic)
       /\ register(s, rq.topic, rq.qos)

\* No writer: the topic or the DDS writer could not be created.
WriterFails(s, rq) ==
    /\ DdsMayFail
    /\ rq.mode = "topic"
    /\ Reusable(s, rq.topic, normalize(rq.qos)) = {}
    /\ TopicFails(rq.topic) \/ TopicReady(rq.topic)
    /\ UNCHANGED wr

\* The topic of the writer that find_by_topic or get returns.
WriterTopic(rq) == IF rq.mode = "topic" THEN rq.topic ELSE writers[rq.id].topic

\* What a successful operation does in DDS; a dispose on an opaque sertype
\* may or may not show in the readers (comment at bridge.rs:218).
execute_write_op(op, t) ==
    \/ op = "write" /\ Arrives(t, TRUE, "Alive")
    \/ op = "write_dispose" /\ Arrives(t, TRUE, "Disposed")
    \/ op = "dispose" /\ Arrives(t, FALSE, "Disposed")
    \/ op = "dispose" /\ UNCHANGED <<dds, history, samples_made>>

\* In how many fan-out lists of a topic a session is.
Lists(t, s) ==
    Cardinality({id \in DOMAIN readers :
                   readers[id].topic = t /\ s \in readers[id].subscribers})

\* Mutant of resp_with_dispose_notification: the Ok is appended last.
resp_with_dispose_notification_OkLast(s, rq, t) ==
    LET note == Notice("DataDisposed", t, Nowhere)
    IN  /\ SS!Reply(s, [i \in 1 .. Lists(t, s) |-> note] \o <<Answer("Ok", rq)>>)
        /\ SS!try_send([u \in Sessions |->
                          IF u # s /\ u \in session_senders THEN Lists(t, u) ELSE 0], note)
        /\ Quiet

\* The requester's notifications follow its Ok in the same channel, the other
\* subscribers' go to their bridge channels.
resp_with_dispose_notification(s, rq, t) ==
    LET note == Notice("DataDisposed", t, Nowhere)
    IN  /\ SS!Reply(s, <<Answer("Ok", rq)>> \o [i \in 1 .. Lists(t, s) |-> note])
        /\ SS!try_send([u \in Sessions |->
                          IF u # s /\ u \in session_senders THEN Lists(t, u) ELSE 0], note)
        /\ Quiet

handle_write(s, rq) ==
    \/ /\ rq.mode = "id" /\ ~Owns(s, rq.id)
       /\ answer(s, "WriterNotFound", rq)
       /\ UNCHANGED <<rr, wr, world>>
    \/ /\ WriterFails(s, rq)
       /\ answer(s, "DdsError", rq)
       /\ UNCHANGED <<rr, dds, history, samples_made, pending>>
    \/ /\ WriterReady(s, rq)               \* dds_write or dds_dispose fails
       /\ DdsMayFail
       /\ answer(s, "DdsError", rq)
       /\ UNCHANGED <<rr, dds, history, samples_made, pending>>
    \/ /\ WriterReady(s, rq)
       /\ execute_write_op(rq.op, WriterTopic(rq))
       /\ IF rq.op = "write"
          THEN answer(s, "Ok", rq)
          ELSE resp_with_dispose_notification(s, rq, WriterTopic(rq))
       /\ UNCHANGED <<rr, pending>>

handle_message(s, rq) ==
    \/ rq.op = "subscribe" /\ handle_subscribe(s, rq)
    \/ rq.op = "unsubscribe" /\ handle_unsubscribe(s, rq)
    \/ rq.op = "create_writer" /\ handle_create_writer(s, rq)
    \/ rq.op = "delete_writer" /\ handle_delete_writer(s, rq)
    \/ rq.op \in {"write", "dispose", "write_dispose"} /\ handle_write(s, rq)
    \/ rq.op \in {"ping", "malformed"} /\ handle_other(s, rq)

\* Mutant of unregister_session: the writers are forgotten.
unregister_session_KeepsWriters(s) ==
    /\ SS!Unregister(s)
    /\ RR!remove_session(s)
    /\ CachesFollowReaders(EmptyCache)
    /\ UNCHANGED <<wr, topics, samples_made, pending>>

unregister_session(s) ==
    /\ SS!Unregister(s)
    /\ remove_session(s)
    /\ RR!remove_session(s)
    /\ CachesFollowReaders(EmptyCache)
    /\ UNCHANGED <<topics, samples_made, pending>>

\* The steps of a session that touch nothing but itself.
SessionStep(s) ==
    /\ \/ SS!Open(s) \/ SS!PushReply(s) \/ SS!PushFails(s) \/ SS!EndReading(s)
       \/ SS!RecvBridge(s) \/ SS!RecvResp(s) \/ SS!SendOk(s) \/ SS!SendFails(s)
       \/ s \in Leavers /\ SS!PeerLeaves(s)
    /\ UNCHANGED <<rr, wr, world>>

-----------------------------------------------------------------------------
(* reader_poll_loop.                                                       *)

\* take_samples: of the first n samples in the cache, where those are that are
\* forwarded.  The samples of one poll are taken at one instant.
take_samples(id, n) ==
    {k \in DOMAIN dds[id].samples :
        k <= n /\ (dds[id].samples[k].valid \/ dds[id].state # "Alive")}

NoticeType == [Alive |-> "Data", Disposed |-> "DataDisposed", NoWriters |-> "DataNoWriters"]

\* sample_to_message goes by the state the instance has when the sample is taken.
sample_to_message(id, k) ==
    Notice(NoticeType[dds[id].state], readers[id].topic,
           [reader |-> id, key |-> RR!KeyOf(id), sample |-> dds[id].samples[k].n])

\* Whose senders the poll loop copies for a reader.
Receivers(id) == readers[id].subscribers \cap session_senders

\* The <<reader, position>> pairs there is something to send for, when at most
\* n[id] samples are taken from reader id.
Taken(n) ==
    {x \in (DOMAIN readers) \X (1 .. MaxTake) :
        x[2] \in take_samples(x[1], n[x[1]]) /\ Receivers(x[1]) # {}}

\* The readers one after the other in the map's arbitrary order, each in the
\* order of its cache.
ReaderByReader(q) ==
    \A i, j \in DOMAIN q :
       i < j /\ q[i][1] = q[j][1] =>
          q[i][2] < q[j][2] /\ \A k \in i .. j : q[k][1] = q[i][1]

\* Mutant of NotTaken: dds_read, which leaves the samples in the cache.
NotTaken_Read(id, n) == dds[id].samples

\* dds_take removes what it returns.
NotTaken(id, n) == SubSeq(dds[id].samples, n + 1, Len(dds[id].samples))

\* Under the mutex: all readers are drained; a dds_take that fails ends the
\* loop of its reader early.
PollTake ==
    /\ pending = <<>>
    /\ \E id \in DOMAIN dds : dds[id].samples # <<>>
    /\ \E n \in [DOMAIN readers -> IF DdsMayFail THEN 0 .. MaxTake ELSE {MaxTake}] :
          /\ \E q \in SetToSeqs(Taken(n)) :
                /\ ReaderByReader(q)
                /\ pending' = [i \in DOMAIN q |->
                                 [body |-> sample_to_message(q[i][1], q[i][2]),
                                  to |-> Receivers(q[i][1])]]
          /\ dds' = [id \in DOMAIN dds |-> [dds[id] EXCEPT !.samples = NotTaken(id, n[id])]]
    /\ UNCHANGED <<rr, wr, ss, topics, history, samples_made>>

\* Mutant of FanOut: send().await, which waits for room in the channel.
FanOut_Waits(s) ==
    /\ pending # <<>>
    /\ s \in Head(pending).to
    /\ Len(bridge_ch[s]) < BufferSize \/ writer[s] = "done"
    /\ SS!try_send(SS!OnceTo(s), Head(pending).body)
    /\ pending' = IF Head(pending).to = {s} THEN Tail(pending)
                  ELSE [pending EXCEPT ![1].to = @ \ {s}]
    /\ UNCHANGED <<rr, wr, phase, peer, session_senders, resps, resp_ch, inflight,
                   writer, wire, issued, topics, dds, history, samples_made>>

\* Without the mutex: one try_send on a copied sender.
FanOut(s) ==
    /\ pending # <<>>
    /\ s \in Head(pending).to
    /\ SS!try_send(SS!OnceTo(s), Head(pending).body)
    /\ pending' = IF Head(pending).to = {s} THEN Tail(pending)
                  ELSE [pending EXCEPT ![1].to = @ \ {s}]
    /\ UNCHANGED <<rr, wr, phase, peer, session_senders, resps, resp_ch, inflight,
                   writer, wire, issued, topics, dds, history, samples_made>>

reader_poll_loop == PollTake \/ \E s \in Sessions : FanOut(s)

Next ==
    \/ \E s \in Sessions : \E rq \in ClientOps[s] : handle_message(s, rq)
    \/ \E s \in Sessions : SessionStep(s)
    \/ \E s \in Sessions : unregister_session(s)
    \/ reader_poll_loop
    \/ RemoteWrite

Spec == Init /\ [][Next]_vars

\* The poll loop is a task of its own that waits for nothing but its interval
\* and the mutex; no progress of any client is assumed.
PollSpec == Spec /\ WF_vars(reader_poll_loop)

-----------------------------------------------------------------------------
(* Properties.                                                             *)

\* docs/protocol.md:401-403, that a disconnect removes the subscriptions and
\* deletes the writers: whichever calls into DDS failed before it, no writer
\* belongs to a session that has been unregistered, and no reader fans out to
\* one, unless its client asked for the topic with two QoS.
ResourcesHaveLiveOwners ==
    /\ \A id \in DOMAIN readers : \A s \in readers[id].subscribers :
          s \in session_senders \/ ~RR!OneKey(s, readers[id].topic)
    /\ \A w \in DOMAIN writers : writers[w].owner \in session_senders

\* The keys whose readers may start with samples from before they came.
KeysWithHistory ==
    {RR!ReaderKey(rq[2], rq[3]) : rq \in {o \in SubscribeRequests : Durable(o[3])}}

\* Of two samples taken from one reader, or from two readers that lived one
\* after the other under one key without history, the first is the older one.
\* Notifications the bridge made up have no place in the order.
Older(a, b) ==
    /\ a.from.sample > 0 /\ b.from.sample > 0
    /\ \/ a.from.reader = b.from.reader
       \/ a.from.key = b.from.key /\ a.from.key \notin KeysWithHistory
    => a.from.sample < b.from.sample

\* What a session was sent through its bridge channel and what is in it, mixed
\* with the replies sent so far; the entries of the fan-out list it is to get.
Sent(s) == wire[s] \o inflight[s] \o bridge_ch[s]
Due(s) == {i \in DOMAIN pending : s \in pending[i].to}

\* A session gets the samples of a reader in the order they arrived in DDS and
\* none of them twice, through take, copy of the senders, fan-out, channel and
\* writer task, whatever requests run in between, and also when the reader is
\* deleted and made again meanwhile, unless it is durable.  (Another QoS on the
\* topic, or the history of a durable reader, does deliver samples again.)
SamplesInOrder ==
    \A s \in Sessions :
       /\ \A i, j \in SS!At("bridge", Sent(s)) :
             i < j => Older(Sent(s)[i].body, Sent(s)[j].body)
       /\ \A i, j \in Due(s) : i < j => Older(pending[i].body, pending[j].body)
       /\ \A i \in SS!At("bridge", Sent(s)), j \in Due(s) :
             Older(Sent(s)[i].body, pending[j].body)

\* The replies of a session, oldest first and mixed with the notifications
\* sent: those sent and, as long as they can be sent, those on their way.
ReplyPath(s) ==
    wire[s] \o inflight[s] \o (IF writer[s] = "done" THEN <<>> ELSE resp_ch[s] \o resps[s])

\* Every DataDisposed among the replies of q directly follows, with others of
\* its kind, the Ok for a dispose.
Noted(q) ==
    \A i \in SS!At("resp", q) :
       q[i].body.type = "DataDisposed" =>
          \E j \in SS!At("resp", q) :
             /\ j < i
             /\ q[j].body.type = "Ok"
             /\ q[j].body.rq.op \in {"dispose", "write_dispose"}
             /\ \A k \in SS!At("resp", q) :
                   j < k /\ k <= i => q[k].body.type = "DataDisposed"

\* bridge.rs:76-77, "The first element is always the response": the requester
\* hears of its own dispose only after the Ok for it.
DisposeNotedAfterOk == \A s \in Sessions : Noted(ReplyPath(s))

\* Clients that name topics and create no writers themselves.
TopicNameClients == {s \in Sessions : \A rq \in ClientOps[s] : rq.op # "create_writer"}

\* The comparison of find_by_topic asks one way only, whether all policies of
\* the first set are in the second.  For sets of equal length without repeated
\* policies, which parse_qos guarantees, that is symmetric.
SymmetricEq ==
    \A p, q \in QosSets :
       normalized_eq(normalize(p), normalize(q)) => normalized_eq(normalize(q), normalize(p))

\* docs/protocol.md:148-149, "If found, it is reused": a session that
\* leaves its writers to the bridge never has two of one topic and QoS.
OneWriterPerQos ==
    \A a, b \in DOMAIN writers :
       /\ writers[a].owner \in TopicNameClients
       /\ writers[a].owner = writers[b].owner
       /\ writers[a].topic = writers[b].topic
       /\ normalized_eq(writers[a].qos, writers[b].qos)
       => a = b

\* docs/protocol.md:366, "a slow client does not block fan-out to other
\* clients": what has arrived in the caches leaves them and the fan-out list,
\* although no client is assumed to read anything.
Backlog == pending # <<>> \/ \E id \in DOMAIN dds : dds[id].samples # <<>>
EverySampleIsFannedOut == Backlog ~> ~Backlog
=============================================================================

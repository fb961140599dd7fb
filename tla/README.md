# TLA+ verification of cyclone-dds-ws-bridge

The bridge connects WebSocket clients to a DDS domain. Clients subscribe to
topics, create writers and publish over a binary protocol (`docs/protocol.md`);
the bridge owns the DDS readers and writers, shares readers between clients and
fans samples out; a Go client library restores a client's state when its
connection is lost. This directory models the Rust bridge and the Go client,
down to the bytes of the protocol and the C
callbacks of the sertype, and checks them with TLC on small instances. With TLAPS
it proves, for all instances, the safety of every component but the codec, also in
the composition of the bridge.

## 1. Inventory

| Part | Source | State | Operations |
|------|--------|-------|-----------|
| Reader registry | `src/dds/reader.rs` | readers with their subscriber sets, key → reader, (session, topic) → reader, id counter | subscribe, unsubscribe, remove_session, take_samples |
| Writer registry | `src/dds/writer.rs` | writers with owner, list of ids per session, u32 id counter | register, get, delete, remove_session, find_by_topic |
| QoS sets | `src/qos.rs` | none | parse, normalize, normalized_eq, serialize |
| Session | `src/ws/session.rs` | two bounded channels, reader loop, writer task | frames, pushes, sends, teardown |
| Bridge | `src/bridge.rs` | the registries, topic cache and session senders under one mutex; the poll loop's fan-out list | one handler per message type, register/unregister, poll loop |
| Participant | `src/dds/participant.rs` | topic cache | get_or_create_topic |
| Server | `src/ws/server.rs`, `src/main.rs` | accept loop, connection counter, shutdown | accept, health check, spawn, stop |
| Codec | `src/protocol.rs`, `ddswsclient/protocol.go` | none | parse and serialize each message, validate the header |
| Sertype | `src/dds/sertype.rs` | serdata with reference counts, data and key buffers | C callbacks of Cyclone DDS: construct, compare, hash, lend, take, free |
| QoS handle | `src/dds/qos_handle.rs` | none | one dds_qset call per policy |
| Config, errors | `src/config.rs`, `src/dds/error.rs` | none | plain translation |
| Go connection | `ddswsclient/conn.go` | request id counter, pending calls with a channel each, receive loop | sendAndWait, publish, recvLoop, close |
| Go client | `ddswsclient/client.go` | the connection in use, lists of subscriptions and writers | Subscribe, Unsubscribe, CreateWriter, Writer.Close, Close, watchLoop with reconnect and restoreState |

How they interact: the server spawns a session per connection. A session passes
each frame to `handle_message`, which locks the bridge, calls the participant
and a registry, and returns the messages to send back. The poll loop locks the
bridge every 10 ms, takes samples from all readers, copies the senders of their
subscribers, unlocks and offers the messages to the sessions' bounded channels.
The writer task of a session merges that channel with the replies. In the Go
client user goroutines share a `Conn`, whose receive loop matches answers to
calls by request id; `watchLoop` replaces a lost `Conn` and re-creates what the
client has listed before it installs the new one.

What is hard: two channels merged at random onto one wire; state copied under
the mutex and used after it; bounded buffers that overflow; shared readers
counted by a set that several indexes must agree with; teardown that waits for a
task that waits for the teardown; calls into DDS that fail in the middle of a
request; an accept loop that awaits a peer; late answers that meet calls which
have given up; a reconnect that runs against user calls and Close; lengths inside
messages that do not add up; reference counts shared with the threads of a C
library. `PROJECT.json` lists each hazard at its line, with the properties aimed at it.

What makes each part correct: see the properties in section 3.

## 2. Modules

| Module | Models | Notes |
|--------|--------|-------|
| `Qos` | `qos.rs` | a QoS set is the sequence of policies as sent; a policy is an id and a tuple of fields |
| `Maps` | `HashMap` | external: insert and remove on functions |
| `Subscriptions` | what a client sees of `reader.rs` | abstract: who is fanned out to and which subscriptions can still be removed, as two sets of (session, key) pairs |
| `ReaderRegistry` | `reader.rs` | one action per method; refines `Subscriptions` |
| `Writers` | `writer.rs` | state, one action per method and the properties; ids modulo `WriterIdSpace` |
| `WriterRegistry` | `writer.rs` | `Writers` on its own: sessions call the methods in any order |
| `Session` | `session.rs` | one action per await point of the two tasks |
| `Bridge` | `bridge.rs`, `participant.rs` | extends `Writers`, composes the readers and sessions by INSTANCE; one action per request, poll and `try_send` |
| `Server` | `server.rs`, shutdown of `main.rs` | one action per await point of the accept loop and of a task |
| `QosHandle` | `qos_handle.rs` | the arguments of the dds_qset calls as a function of the QoS set |
| `Codec` | `protocol.rs`, `parse_qos` of `qos.rs`, `process_binary_frame` of `session.rs`, `protocol.go` | operators only: one table of layouts per direction and language, one reader and one writer per kind of field |
| `Wire` | a message on its way | encodes with `Codec`, then cuts, pads or alters the bytes |
| `Sertype` | `sertype.rs`, the release of samples in `take_samples` | one action per callback that changes a count or a buffer |
| `GoConn` | `conn.go` | one action per step between two channel, socket or map operations |
| `GoClient` | `client.go` | user goroutines, watchLoop, Close and the deliveries of the receive loop; a request is asked, carried out and returned |
| `ReaderRegistry_proofs`, `WriterRegistry_proofs`, `Session_proofs`, `Bridge_proofs`, `Server_proofs`, `Sertype_proofs`, `GoConn_proofs`, `GoClient_proofs` | | theorems about these modules |
| `MC*` | | the instances TLC checks |

Conventions. Variables, actions and helpers keep the source's names
(`key_to_reader`, `remove_session`, `resp_with_dispose_notification`). A member
of `Topics` is a (topic_name, type_name) pair. Rust maps are functions whose
domain is the set of present keys. A definition named `X_Something` next to `X`
and commented "Mutant of X" is a deliberately wrong version of `X`; no
specification uses it, it documents which mistake the properties catch.

Correspondence worth knowing:

* Every registry method and every handler runs under the bridge's mutex from
  its first to its last access to the state, so each is one action. `Bridge`
  conjoins the registry's action, the topic cache, the DDS effect and the reply.
* `subscribe` is the disjunction of the code's two paths: the two nested lookups
  hit (`SubscribeShared`) or not (`SubscribeNew`). The common tail of
  `unsubscribe` and `remove_session` is `Leave`.
* `Session.resps` holds the messages of a handled frame that still wait for room
  in `resp_ch` (the `send().await` of the loop); the next frame is read only when
  it is empty. When the writer task is gone the rest is dropped and the loop
  reads on, as the inner `break` does.
* The `else => break` of the writer task's select is no action: its condition,
  both channels closed, is unreachable, because the bridge drops its sender only in
  `Unregister`, after the task has ended.
* `Bridge.pending` is the poll loop's list of (message, senders). It is filled by
  `PollTake` under the mutex and emptied by `FanOut` one `try_send` at a time,
  with any request in between. A reader's cache, the state of its instance and the
  history of durable samples with which a durable reader starts are external. A
  notification carries, as history, the reader, key and sample it comes from; one that
  the bridge makes up for a dispose comes from `Nowhere`. A sample becomes DATA, DATA_DISPOSED or DATA_NO_WRITERS by the state
  its instance has when it is taken, as in `take_samples`. `Taken` is the set of
  samples there is something to send for and `ReaderByReader` the order of the two
  loops, the readers in the arbitrary order of their map.
* Requests refused before a handler runs (short frame, header, payload, type) are
  the request `malformed`.
* With `DdsMayFail` each call that creates a topic, reader or writer, writes,
  disposes or takes may fail; the disjuncts follow the order of the calls, so an
  implicit writer made for a failing write stays registered.
* `Server.loop` is the connection whose first bytes the loop awaits in `peek`. A task
  ends by a failed upgrade, by the end of its session or by a panic in it
  (`SessionPanics`: a type name with a NUL byte, `sertype.rs:747`), which unwinds past
  the `fetch_sub` of `server.rs:74`.
* In `Codec` a u32 has `WordBytes` bytes and a u64 two words, so that a message is
  short enough to alter each of its bytes to each value; a count or a kind keeps its
  one byte. A policy is described by the sizes and largest values of its fields
  (`PolicyFields`), which is what each arm of `parse_qos` reads and validates. The
  text of a string is its bytes, checked by the rules of `from_utf8`. The two
  languages have tables of their own and share the field encodings, which are the
  same code in both; what Go checks less (UTF-8, error codes) are field kinds of
  their own.
* In `QosHandle` a duration stays in milliseconds: the factor to nanoseconds fits an
  i64 for every u32.
* In `Sertype` a behaviour is about one topic, chosen in `Init`. A serdata keeps its
  entry after its release, so that a use of it would show. `serdata_unref` is the
  `fetch_sub`, `sd_free` the release that follows it: other threads run in between.
  `of` is history: the key the sample is about. A hash is the term hashed, so
  collisions, which FNV over four bytes has, are not modelled.
* In `GoConn` a call's name stands for the channel it makes. Messages carry the
  call they belong to beside the request id, as history: the code, and the
  guards, see the id only. Ids wrap modulo `IdSpace` and skip 0; `StartIDs` lets a
  behaviour start on a connection whose counter is about to wrap.
* In `GoClient` connections are numbered as they are dialled, and `Conn` is reduced
  to what its callers can tell: a request fails before or after the bridge
  carried it out. `Restore` is atomic, because `w.mu` is held around the request
  and no one else has the connection yet; `CopyLists`, each `Restore` and `Install`
  are steps of their own, with user calls in between. The user makes each object
  once and ends it at most once. The three steps of `Unsubscribe` before its request
  (flag, list, channel) are one: what a delivery does between them it could as well
  have done before. `Targets` is the collection of the topic's subscriptions in the
  order of the list, said by what it returns. `delivery` is the message `deliverData` is handing out, with the
  targets left and the select it is at; a send on a closed channel panics, after which
  nothing happens, and the liveness properties exclude it by name. `Write`, `Dispose`, `Ping` and `Publish` of a client
  change nothing the model holds and are left out.

## 3. Runs

| Run | What it checks | Bounds |
|-----|----------------|--------|
| `reader` | index and readers agree; no idle reader; a session cannot affect another, and loses its way back to a reader only by its own second QoS; a disconnect removes the rest; refinement of `Subscriptions` | 3 sessions, 2 topics, 7 requests, QoS spelled in two ways, one session with two QoS on a topic, 5 readers created |
| `session` | order and completeness of replies, order of notifications; liveness of replies | channels of 2, 5 replies, 4 notifications |
| `bridge_pubsub` | order of samples end to end, every sample is fanned out | 2 subscribers of one topic, one coming and going (3 requests), the other sharing its reader or asking for a durable one; 2 samples from elsewhere, caches and history of 2, 3 readers created, channels of 1 |
| `bridge_failures` | under failing DDS calls: no resource without a live owner, lists and owners of writers agree, sessions cannot touch each other's writers, implicit writers are reused, dispose after OK | 3 replies to a client that subscribes and publishes by topic name and by id, spelling its QoS in two ways, and may leave; a second one that makes a writer of its own, pings or sends a bad frame |
| `codec` | both languages' encodings are understood as meant; cut or padded messages are refused; nothing in an accepted payload is overlooked; DDS is told the QoS asked for, but for numbers past i32 and names with a NUL | 16 messages with every type, policy and mode; every prefix, every byte appended, every byte changed to every value; 2-byte words, strings of 3 |
| `sertype` | no serdata is used after its release, released twice or leaked; samples share an instance if they have one key and come the same way; on a topic with one way, instances and keyhashes are what has equal keys | 3 serdata of one of six topics: keys of clients (short and over 16 bytes), fixed and string keys by descriptors, keyhashes, no key, keys of clients beside descriptors |
| `server` | counter, limit, progress, shutdown; a session may panic | 3 clients and a health check, 2 connections |
| `go_conn` | answers reach their own calls, the receive loop never waits for a caller, nothing is left in `pending`; every call and `close` return | 2 calls and a publish, 5 ids from the first or the last, 1 notification at a time |
| `go_client` | one connection at a time, what was copied is served, Close is final and never closes a channel under a delivery, a full channel loses its oldest message; reconnects and Close complete | 1 subscription, 1 writer, 3 connections, 2 attempts, 2 data messages, channel of 1 |

The bounds are chosen so that the interesting cases happen: a shared reader has
two subscribers and is emptied and re-created (more readers than live keys), also
while samples of the old one are in the fan-out list or on their way; the
channels fill up (capacity below the number of messages); a client leaves at
every point of a request, in `bridge_failures`; there are more clients than connections; request ids
wrap within a run and within a call; a connection is lost before, during and after
a restore, which needs three of them; an instance is forgotten and made again while
an old sample of it is still being sent; a 2-byte length reaches past the end of its
message and past the limit of strings. Every bound is a constant named `Max...` in a
guard. `BufferSize`, `IdSpace`, `WriterIdSpace` and `max_connections` are the code's
own limits at small values, and so are `MaxString`, `MaxPayload` and `WordBytes`.
`OneWriterPerQos` is about the `TopicNameClients`, those that make writers by topic
name only, which the first client of `bridge_failures` is; CREATE_WRITER makes a new
one each time. The MC modules of the bridge and the Go client assert the hypotheses
of the theorems (`SymmetricEq`, `TopicsApart`, writer ids below their wrap),
so the runs check instances the theorems are about. In `GoClient` the last
connection is never lost, so that `Reconnects` does not fail by the bound alone.

Runs that end in a violation, each a disagreement of the code with its own
documentation or comments (details in `PROJECT.json`, `findings`):

* `session_cleanup`: a client that leaves while nothing is sent to it is never
  cleaned up; the connection slot of `Server` is then lost as well.
* `server_silent`: a connection that sends nothing blocks the accept loop.
* `go_client_restore`: a writer closed while `restoreState` runs stays in the new
  session.

Behaviours worth a reader's attention that no run refutes: a client that
subscribes to one topic with two QoS sets loses the entry of the first, and its
disconnect then leaves a subscription behind, against `docs/protocol.md:401` (the
properties of the readers say that this is the only way); a session that panics
keeps its place in the connection count and its readers and writers for good; equal
policies in another order are not shared by readers (writers compare in any
order); writer ids repeat after 2^32 writers; the newest message is dropped on
overflow where `docs/protocol.md` says the oldest; DATA may precede the OK of its
SUBSCRIBE; a full bridge refuses its health check. A keyed topic on which a client
publishes with key bytes while samples of the same key come from the network has two
instances of that key: the hashes differ, and the table compares only within a hash
(`sertype.rs:391`, whose comment says otherwise). Writers of both byte orders, and a
keyed topic without descriptors, have the like. Depth and strength from 2^31 on
reach DDS negative (`qos_handle.rs:53`, `68`); a set without policies is passed to DDS as
NULL, so that its own defaults apply and not those of `docs/protocol.md:284-298`. `docs/protocol.md` leaves the
`is_keyed` byte out of SUBSCRIBE and CREATE_WRITER and the key bytes out of writer-id
mode; the Rust and the Go code agree with each other. The idle timeout of
`docs/protocol.md:410` is configured and never used. Bytes after a frame's payload and
the payload of a PING are ignored. A topic keeps the key descriptors of its first
request. DATA can still arrive after the OK of an UNSUBSCRIBE, from a fan-out list
collected before it (`bridge.rs:525`). A sample carries the state its instance has
when it is taken, so valid data taken after a dispose goes out as DATA_DISPOSED
(`reader.rs:101`). A partition name with a NUL byte becomes the empty name, the
default partition (`qos_handle.rs:108`); `sd_to_ser_ref` with a range outside the
data leaks a buffer (`sertype.rs:543`). In the Go client an
`Unsubscribe` that runs between the check of `unsubscribed` and the send in
`deliverData` makes the send panic (`client.go:538-542`), although `README.md:151`
of the repository promises thread-safe access; `GoClient` has that step, and
`CloseNeverPanics` shows that `Close` cannot cause it. Two `Subscription`s to one
topic share one bridge subscription, so unsubscribing one silences the other
(`client.go:71`); an `OnDisconnect` handler that calls `Close` waits for `watchLoop`,
which waits for the handler (`client.go:579`); a request that timed out may still be
carried out (`conn.go:122`). The hazards name the lines of the others.

Fairness. `Session.FairSpec`: tokio runs ready tasks (weak fairness on pushes,
teardown and the completion of a send); `select!` polls its branches in random
order, so a branch that is ready again and again is taken (strong fairness on the
two receives). The completion of a send assumes a client that reads or whose
connection fails; a client may leave at any time or never. `Bridge.PollSpec`: weak
fairness of the poll loop only; no client is assumed to do anything.
`Server.FairSpec`: the loop runs, a pending shutdown is seen in the end, and peers
that are not silent send a request or hang up; nothing makes a session end.
`GoConn.FairSpec`: goroutines that can run do, a reachable bridge answers, and the
owner closes the connection after the receive loop ended, as `watchLoop` does; no
context is assumed to have a deadline. `GoClient.FairSpec`: weak fairness of
`watchLoop`, `Close` and `deliverData`; strong fairness of a successful dial, because each attempt
is a new chance and only a bridge that is never reachable defeats them all; no user
goroutine is assumed to move.

Deadlock checking is off for all but `reader`: the bounded behaviours of the others
end when all requests are made and all clients are gone, or when the one message has
arrived.

## 4. Proofs

All theorems are about every value of the constants: any sessions, topics, clients,
calls, objects, sizes of channels and bounds. An assumption beyond the ASSUMEs of the
modules is a hypothesis of the theorem and is explained here.

`ReaderRegistry_proofs`:

* `RegistryConsistent` and `NoReaderIsIdle`: TypeOK, KeysMatchReaders, NoIdleReader and
  SubscriptionsBacked are invariants for arbitrary clients. The inductive
  invariant `Registry` adds `SubscribersAsked` (fan-out lists hold only sessions
  that asked for that key). `LeaveLemma` describes what `Leave` leaves behind and
  carries both `unsubscribe` and `remove_session`; NoIdleReader is what makes a
  deleted reader one whose only subscriber was the leaving session.
* `OthersAlwaysStaySubscribed`: isolation of sessions, from `Registry`.
* `TrackAlwaysLostByResubscribe`, `DisconnectIsComplete` and
  `RegistryImplementsSubscriptions`, for arbitrary clients too, those with two QoS on one
  topic included. The first is an action property: a session gets onto a fan-out list,
  or stays on it, without an entry that leads there only in the step in which it asks for
  the same topic with another reader key. The second rests on the invariant `Followed`,
  which adds `OneKeyTracked` to `Registry`: where a client uses one key on a topic, its
  subscription is tracked, because SubscribersAsked rules out that an entry is
  overwritten while its reader still lists the session. For the refinement the
  abstract state keeps both sets, who is fanned out to and what can be removed, and
  NoIdleReader makes the deletion of a reader invisible in either.

`WriterRegistry_proofs`, under `NoWrap` (fewer writers are made than there are ids):
`OwnershipAgrees` and `WritersSafeFromOthers`, from the inductive invariant
`Ownership`. Past the wrap `register` replaces the writer of whoever holds the id, so
the assumption is necessary. OwnedWritersListed (what a session owns it lists) is part
of the invariant and of the first theorem.

`Session_proofs`: `RepliesAlwaysInOrder` and `NotificationsAlwaysInOrder`. The
properties speak of what is on the wire and on its way there. The inductive
invariant `Delivery` describes each sequence on the way for itself: the wire has
replies 1 .. n, the message being sent is n + 1 if it is a reply, the channel and the
handler's messages continue the count, with a gap (`lost`) only behind the channel
and only when the writer task is gone; notifications rise within each sequence and
from one to the next. A step moves one message across one boundary, so each lemma
is about two neighbours; the whole is put together only in the end
(`DeliveryReplies`, `DeliveryNotifications`). The lemmas about answers and offers are for any number
of messages, so that `Bridge_proofs` can use them.

`Bridge_proofs`:

* The first lemmas show `ReadersStep` and `WritersStep`: each handler, with each of its failing
  calls, is a step of each registry's specification by the session whose request it is,
  or leaves it alone. The invariants of the registries, taken over through the instances
  `RRP` and `WRP` of their proof modules, therefore hold of the bridge. That is a tool
  here and no result: the handlers are written with the registries' actions.
* `OwnersAlwaysLive`, for arbitrary clients, under `MaxWriters < WriterIdSpace`: no writer
  belongs to an unregistered session, and no reader fans out to one, but for readers of a topic
  its client asked for with two QoS. The inductive invariant `Owners` joins the registries'
  invariants `Followed` and `Ownership` with `SendersCurrent`: a session that can still
  handle a request has its sender, so what is made is made for a live session, and
  `unregister_session` reaches everything the leaving session has only because its
  places in the fan-out lists are tracked and every owned writer is listed.
* `ListedAlwaysOwned`, under `MaxWriters < WriterIdSpace`.
* `WritersAlwaysReused`, under the same and `SymmetricEq`: `find_by_topic` asks whether the
  stored set contains the wanted one, and the property is about either order.
  `SymmetricEq` holds for QoS sets without repeated policies, as `parse_qos`
  returns them; TLC checks it on the QoS sets of the runs.
* `DisposeAlwaysNoted`, for any clients. The inductive invariant is `Typed` with the
  property. `Typed` says what the channels hold: the readers' registry, samples with
  numbers given out so far, and messages of the kinds each channel is for. The
  argument is that the Ok and the note of a dispose are put into `resps` in one step,
  and every later step moves the head of one sequence to the end of the one before
  it, so the replies keep their neighbours while notifications come in between.
* `SamplesAlwaysInOrder`, for arbitrary clients and durable readers. The order is among the
  samples of one reader, and of readers that live one after the other under one key without
  history (`Older`). It says no more because no more is true: with two QoS on a
  topic a session gets each sample from two readers, and a durable reader starts with
  samples that its predecessor has delivered. The inductive invariant `Delivered` adds to
  `Typed` and the property what the order rests on: `CachesRise` (a cache, and the history,
  holds its samples in the order of arrival), `Known` (no session has been sent, or is about
  to be sent, a sample that is not yet made or of a reader yet to come) and `Behind`
  (everything a session has reached is older than what is left in the cache of any reader
  it `Precedes`). `Behind` is
  why the fan-out may run without the mutex: the list is filled only when it is empty,
  and what a take removes from a cache it puts into the list. It speaks of every
  reader, not only of those the session is subscribed to now, so that leaving and coming
  back between take and fan-out changes nothing. That a reader keeps its key as long as it
  lives is `ReadersKeepKeys` of `ReaderRegistry_proofs`, that no id is given twice `IdsGrow`.
* `SessionsAlwaysInOrder`: `RepliesInOrder` and `NotificationsInOrder` of `Session` hold of the
  bridge. The bridge does not implement the specification of a session alone, since a
  dispose answers its client and offers to many others in one step and the poll loop
  offers to sessions that are gone. But each of its steps is, for each session, a move, an
  answer or some offers, so it keeps the invariant `Delivery`, here of the instance `SP` of
  `Session_proofs`.

`Server_proofs`: `CountAlwaysMatches` (active_connections is the number of tasks that run
or were ended by a panic) and
`LimitAlwaysHolds` (never more than max_connections). The inductive invariant
`Counted` adds that the set of tasks is finite, `Queued` (the backlog holds each
waiting connection once, so that a spawned task is new) and `RoomKept` (while the
loop awaits a peer's first bytes there is room for one more). RoomKept is the
argument: the counter is checked before the await and raised after it, which is safe
only because nobody else raises it.

`Sertype_proofs`:

* `NeverUsedAfterFree` and `NothingEverLeaks`, from the inductive invariant `Counting`: the
  count of a serdata is the number of its users, and a count of 0 goes with exactly one
  release, due or done. Neither property is inductive without the exact count.
* `InstancesAlwaysFollowKeyData`, for any topic: two samples in use are of one instance
  exactly if `OneKey` says so of their bytes, that is if they carry the same key bytes, or
  neither carries any and the fields named by the descriptors agree. For a topic on which
  clients send key bytes and other participants do not this says that one key has two
  instances, against the comment at `sertype.rs:388`. The theorem is about the table:
  instances are found, made, forgotten and made again while samples of the old one are in
  use. The invariant `Keyed` has at most one standing instance per key, which is the one
  every sample in use was given. That hashes agree exactly where they should is `SameKeyIsAlike`.

`GoConn_proofs`, under `EnoughIds` (a connection makes fewer calls than there are ids,
2^32 - 1): `AnswersAlwaysMatch`, `RecvNeverWaits` and `PendingAlwaysExact`. The inductive
invariant `Exchange` has `IdsFresh` (ids are given out in a cycle and no id taken is as
old as the cycle is long, wherever the counter started), the owner of every message
on its way, and `ExchangedOnce`: an exchange is at one stage at a time, so the channel of
a call, which has room for one answer, is given at most one. The assumption is
necessary: with as many calls as ids a call takes the entry of an earlier one, and
TLC finds PendingIsExact violated.

`GoClient_proofs`:

* `AlwaysOneConnection`, from `Connections`: the place `watchLoop` is at tells which
  connection is in use and that all before the newest are closed.
* `OldestAlwaysDropped` and `CloseNeverCausesPanic`, from `DeliveryInv`. `Lists` says
  when an object is listed, `Handing` that each target of a delivery is reached once,
  `ChannelOk` that after a failed send the room the delivery made cannot be taken (only
  it sends), so the second send succeeds; `Closings` that `Close` closes channels only
  when no connection can deliver.
* `CopiedAlwaysServed`, under `TopicsApart` (one `Subscription` per topic; two of them share a
  bridge subscription, and ending one ends both, see section 3). The inductive
  invariant `Service` follows the copy: while `restoreState` runs, what was copied and is
  still wanted is either left to do or served on the new connection, and requests in
  flight belong to older connections (`Uses`).

Assumptions on constants: `RequestsAssumption`, `MaxReadersAssumption`,
`QosSetsAssumption`, `WriterConstants`, `SessionConstants`, `BridgeConstants`,
`ServerConstants`, `ConnConstants`, `ClientConstants`. They say that counts are numbers,
that channels have room for a message and that requests are as the parsers leave them.

Only model-checked:

* all liveness: fairness and ENABLED are beyond the prover;
* the codec (`RoundTrip`, `PartsAreRefused`, `NothingOverlooked`, `SettingsAreExact`): what a
  reader or writer of a list of fields computes needs an induction over the data with
  an operator as its parameter;
* `InstancesAreKeys`, which is about what the samples mean and not only about their bytes: that
  the key functions tell the keys of the run's topics apart;
* `SymmetricEq`, on the constants of the runs.

## 5. Not modelled

* The configuration: a file and environment variables read once; its values are the
  constants of the modules. `healthcheck` of `main.rs`: a blocking client of its own.
* Of the sertype: the arithmetic of the three hashes, the life of the sertype itself
  and the copies of `sd_to_ser`, which change nothing.
* Of the participant: key descriptors of a cached topic, the domain.
* Of the Go client: the handlers, `connectWithRetry` of the first connection, and publishing through a `Writer`.
* Instances in `Bridge` (each reader has one), WebSocket ping/pong, the overflow of the
  u64 session and reader ids.

## 6. Plan

Done: the registries with their abstract specification, sessions, bridge, server, Go
connection and client, the codec of both languages, the QoS handle and the sertype, and
the proofs of section 4: every invariant the runs check, but those of the codec, is
stated by a theorem, except for `InstancesAreKeys`. Left is a proof of `SymmetricEq` from the absence of repeated policies.
`normalize` is a SelectSeq, of which the library has no theorem and whose definition the
provers do not unfold, so `normalize` has to be described by positions first.

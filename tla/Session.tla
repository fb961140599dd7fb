------------------------------- MODULE Session -------------------------------
(***************************************************************************)
(* run_session of src/ws/session.rs: for each client connection a reader   *)
(* loop and a writer task, joined by two bounded channels.                 *)
(*                                                                         *)
(* The reader loop handles one frame at a time and pushes the messages the *)
(* handler returned into resp_ch, waiting while it is full.  The bridge    *)
(* offers notifications to bridge_ch with try_send, which drops what does  *)
(* not fit.  The writer task selects from both channels and sends on the   *)
(* WebSocket.  A message is [via, seq, body]: the channel it takes, its    *)
(* number on that channel of its session, and what the bridge puts in it.  *)
(***************************************************************************)
EXTENDS Naturals, Sequences, SequencesExt

CONSTANTS
    Sessions,      \* session ids
    BufferSize,    \* config session_buffer_size: the capacity of both channels
    Bodies,        \* what messages say, for the specification of a session alone
    MaxReplies,    \* bound: session -> replies issued to it
    MaxOffers      \* bound: notifications offered to one session

ASSUME SessionConstants ==
    BufferSize \in Nat \ {0} /\ MaxReplies \in [Sessions -> Nat] /\ MaxOffers \in Nat

VARIABLES
    phase,            \* the run_session task: "new", "reading", "draining" or "gone"
    peer,             \* the client's side of the connection: "up" or "leaving"
    session_senders,  \* the sessions whose bridge_tx the bridge holds
    resps,            \* messages of the handled frame not yet pushed to resp_ch
    resp_ch,          \* resp_tx / resp_rx
    bridge_ch,        \* bridge_tx / bridge_rx
    inflight,         \* what the writer task received and is sending, if anything
    writer,           \* the writer task: "running" or "done"
    wire,             \* what was sent to the client, in order
    issued,           \* how many replies were issued to the session
    offered           \* how many notifications were offered to the session

chans == <<resp_ch, bridge_ch, inflight, writer, wire>>
vars == <<phase, peer, session_senders, resps, chans, issued, offered>>

Message(via, seq, body) == [via |-> via, seq |-> seq, body |-> body]

Init ==
    /\ phase = [s \in Sessions |-> "new"]
    /\ peer = [s \in Sessions |-> "up"]
    /\ session_senders = {}
    /\ resps = [s \in Sessions |-> <<>>]
    /\ resp_ch = [s \in Sessions |-> <<>>]
    /\ bridge_ch = [s \in Sessions |-> <<>>]
    /\ inflight = [s \in Sessions |-> <<>>]
    /\ writer = [s \in Sessions |-> "running"]
    /\ wire = [s \in Sessions |-> <<>>]
    /\ issued = [s \in Sessions |-> 0]
    /\ offered = [s \in Sessions |-> 0]

-----------------------------------------------------------------------------
(* The run_session task.                                                   *)

\* run_session starts: register_session, then the writer task is spawned.
Open(s) ==
    /\ phase[s] = "new"
    /\ phase' = [phase EXCEPT ![s] = "reading"]
    /\ session_senders' = session_senders \cup {s}
    /\ UNCHANGED <<peer, resps, chans, issued, offered>>

\* The reader loop is ready for the next frame: all replies are pushed.
Reading(s) == phase[s] = "reading" /\ resps[s] = <<>>

\* process_binary_frame returned these messages.
Reply(s, bodies) ==
    /\ Reading(s)
    /\ issued[s] + Len(bodies) <= MaxReplies[s]
    /\ resps' = [resps EXCEPT ![s] =
                   [i \in DOMAIN bodies |-> Message("resp", issued[s] + i, bodies[i])]]
    /\ issued' = [issued EXCEPT ![s] = @ + Len(bodies)]

\* Mutant of PushReply: only the first message of a reply is pushed.
PushReply_OnlyFirst(s) ==
    /\ phase[s] = "reading"
    /\ resps[s] # <<>>
    /\ writer[s] = "running"
    /\ Len(resp_ch[s]) < BufferSize
    /\ resp_ch' = [resp_ch EXCEPT ![s] = Append(@, Head(resps[s]))]
    /\ resps' = [resps EXCEPT ![s] = <<>>]
    /\ UNCHANGED <<phase, peer, session_senders, bridge_ch, inflight, writer, wire,
                   issued, offered>>

\* resp_tx.send(msg).await: waits for room.
PushReply(s) ==
    /\ phase[s] = "reading"
    /\ resps[s] # <<>>
    /\ writer[s] = "running"
    /\ Len(resp_ch[s]) < BufferSize
    /\ resp_ch' = [resp_ch EXCEPT ![s] = Append(@, Head(resps[s]))]
    /\ resps' = [resps EXCEPT ![s] = Tail(@)]
    /\ UNCHANGED <<phase, peer, session_senders, bridge_ch, inflight, writer, wire,
                   issued, offered>>

\* resp_rx is gone: the rest of the replies is dropped, the loop reads on.
PushFails(s) ==
    /\ phase[s] = "reading"
    /\ resps[s] # <<>>
    /\ writer[s] = "done"
    /\ resps' = [resps EXCEPT ![s] = <<>>]
    /\ UNCHANGED <<phase, peer, session_senders, chans, issued, offered>>

\* A Close frame, the end of the stream or a read error ends the reader loop
\* and drops resp_tx.
EndReading(s) ==
    /\ Reading(s)
    /\ peer[s] = "leaving"
    /\ phase' = [phase EXCEPT ![s] = "draining"]
    /\ UNCHANGED <<peer, session_senders, resps, chans, issued, offered>>

\* writer_task.await returned; unregister_session drops bridge_tx.
Unregister(s) ==
    /\ phase[s] = "draining"
    /\ writer[s] = "done"
    /\ phase' = [phase EXCEPT ![s] = "gone"]
    /\ session_senders' = session_senders \ {s}
    /\ UNCHANGED <<peer, resps, chans, issued, offered>>

-----------------------------------------------------------------------------
(* The writer task.  Its `else => break` needs both channels closed; the   *)
(* bridge's sender is dropped only by Unregister, after the task is done,  *)
(* so the branch is never taken.                                           *)

\* Mutant of Idle: the next message is received while one is being sent.
Idle_Busy(s) == phase[s] # "new" /\ writer[s] = "running"

Idle(s) == phase[s] # "new" /\ writer[s] = "running" /\ inflight[s] = <<>>

\* Mutant of RecvBridge: the newest notification is taken first.
RecvBridge_Newest(s) ==
    /\ Idle(s)
    /\ bridge_ch[s] # <<>>
    /\ inflight' = [inflight EXCEPT ![s] = <<Last(bridge_ch[s])>>]
    /\ bridge_ch' = [bridge_ch EXCEPT ![s] = Front(@)]
    /\ UNCHANGED <<phase, peer, session_senders, resps, resp_ch, writer, wire,
                   issued, offered>>

RecvBridge(s) ==
    /\ Idle(s)
    /\ bridge_ch[s] # <<>>
    /\ inflight' = [inflight EXCEPT ![s] = <<Head(bridge_ch[s])>>]
    /\ bridge_ch' = [bridge_ch EXCEPT ![s] = Tail(@)]
    /\ UNCHANGED <<phase, peer, session_senders, resps, resp_ch, writer, wire,
                   issued, offered>>

RecvResp(s) ==
    /\ Idle(s)
    /\ resp_ch[s] # <<>>
    /\ inflight' = [inflight EXCEPT ![s] = <<Head(resp_ch[s])>>]
    /\ resp_ch' = [resp_ch EXCEPT ![s] = Tail(@)]
    /\ UNCHANGED <<phase, peer, session_senders, resps, bridge_ch, writer, wire,
                   issued, offered>>

SendOk(s) ==
    /\ inflight[s] # <<>>
    /\ wire' = [wire EXCEPT ![s] = @ \o inflight[s]]
    /\ inflight' = [inflight EXCEPT ![s] = <<>>]
    /\ UNCHANGED <<phase, peer, session_senders, resps, resp_ch, bridge_ch, writer,
                   issued, offered>>

\* ws_sink.send fails: the task ends and drops both receivers.
SendFails(s) ==
    /\ inflight[s] # <<>>
    /\ peer[s] = "leaving"
    /\ writer' = [writer EXCEPT ![s] = "done"]
    /\ inflight' = [inflight EXCEPT ![s] = <<>>]
    /\ resp_ch' = [resp_ch EXCEPT ![s] = <<>>]
    /\ bridge_ch' = [bridge_ch EXCEPT ![s] = <<>>]
    /\ UNCHANGED <<phase, peer, session_senders, resps, wire, issued, offered>>

-----------------------------------------------------------------------------
(* What the rest of the bridge and the client do to a session.             *)

\* The client closes, crashes or breaks the connection; frames it sent
\* before may still be read.
PeerLeaves(s) ==
    /\ phase[s] = "reading"
    /\ peer[s] = "up"
    /\ peer' = [peer EXCEPT ![s] = "leaving"]
    /\ UNCHANGED <<phase, session_senders, resps, chans, issued, offered>>

\* How many of n messages try_send puts into the channel of s.
Taken(s, n) ==
    LET room == BufferSize - Len(bridge_ch[s])
    IN  IF writer[s] = "done" THEN 0 ELSE IF n <= room THEN n ELSE room

\* Offering a notification to every session s, times[s] times.
try_send(times, body) ==
    /\ \A s \in Sessions : offered[s] + times[s] <= MaxOffers
    /\ bridge_ch' =
         [s \in Sessions |->
            bridge_ch[s] \o [i \in 1 .. Taken(s, times[s]) |->
                               Message("bridge", offered[s] + i, body)]]
    /\ offered' = [s \in Sessions |-> offered[s] + times[s]]

OnceTo(s) == [u \in Sessions |-> IF u = s THEN 1 ELSE 0]

-----------------------------------------------------------------------------
(* A session alone: any frame may be answered by one or two messages and   *)
(* the bridge may offer a notification at any time.                        *)

Handle(s) ==
    /\ \E bodies \in BoundedSeq(Bodies, 2) : bodies # <<>> /\ Reply(s, bodies)
    /\ UNCHANGED <<phase, peer, session_senders, chans, offered>>

Notify(s) ==
    /\ s \in session_senders
    /\ \E body \in Bodies : try_send(OnceTo(s), body)
    /\ UNCHANGED <<phase, peer, session_senders, resps, resp_ch, inflight, writer,
                   wire, issued>>

Step(s) ==
    \/ Open(s)
    \/ PushReply(s)
    \/ PushFails(s)
    \/ EndReading(s)
    \/ Unregister(s)
    \/ RecvBridge(s)
    \/ RecvResp(s)
    \/ SendOk(s)
    \/ SendFails(s)
    \/ PeerLeaves(s)

Next == \E s \in Sessions : Step(s) \/ Handle(s) \/ Notify(s)

\* tokio runs every ready task; select! picks among ready branches at random,
\* so a branch that is ready again and again is taken; a connection either
\* takes what is sent or fails.
TasksRun(s) ==
    /\ WF_vars(PushReply(s)) /\ WF_vars(PushFails(s))
    /\ WF_vars(EndReading(s)) /\ WF_vars(Unregister(s))
    /\ SF_vars(RecvBridge(s)) /\ SF_vars(RecvResp(s))
    /\ WF_vars(SendOk(s) \/ SendFails(s))

Spec == Init /\ [][Next]_vars
FairSpec == Spec /\ \A s \in Sessions : TasksRun(s)

-----------------------------------------------------------------------------
(* Properties.                                                             *)

Via(via, q) == SelectSeq(q, LAMBDA m : m.via = via)

\* The types, and the two channels within their capacity.
TypeOK ==
    /\ phase \in [Sessions -> {"new", "reading", "draining", "gone"}]
    /\ peer \in [Sessions -> {"up", "leaving"}]
    /\ session_senders \subseteq Sessions
    /\ writer \in [Sessions -> {"running", "done"}]
    /\ \A s \in Sessions :
          /\ Len(resp_ch[s]) <= BufferSize
          /\ Len(bridge_ch[s]) <= BufferSize
          /\ Len(inflight[s]) <= 1
          /\ issued[s] \in 0 .. MaxReplies[s]
          /\ offered[s] \in 0 .. MaxOffers

\* Where messages of a channel are in a sequence, and that they are there in
\* the order of their numbers, each at most once.
At(via, q) == {i \in DOMAIN q : q[i].via = via}
Ascending(via, q) == \A i, j \in At(via, q) : i < j => q[i].seq < q[j].seq
Numbers(via, q) == {q[i].seq : i \in At(via, q)}

\* Replies are never lost, duplicated or reordered on the way from the handler
\* through the blocking push, the channel and the writer task to the wire; a
\* connection that fails has received a prefix of them (session.rs:58-65).
RepliesInOrder ==
    \A s \in Sessions :
       LET path == wire[s] \o inflight[s] \o resp_ch[s] \o resps[s]
       IN  /\ Ascending("resp", path)
           /\ writer[s] = "running" => Numbers("resp", path) = 1 .. issued[s]
           /\ \E n \in 0 .. issued[s] : Numbers("resp", wire[s]) = 1 .. n

\* Notifications that were not dropped arrive once and in the order offered.
NotificationsInOrder ==
    \A s \in Sessions : Ascending("bridge", wire[s] \o inflight[s] \o bridge_ch[s])

\* Every reply reaches the client, unless the client leaves: neither the
\* waiting push nor a stream of notifications starves it.
RepliesArrive ==
    \A s \in Sessions : \A n \in 1 .. MaxReplies[s] :
       issued[s] >= n ~> Len(Via("resp", wire[s])) >= n \/ peer[s] = "leaving"

\* docs/protocol.md:399-403, Client Disconnect: a client that leaves is
\* eventually unregistered and its resources are cleaned up.
LeaversAreCleanedUp ==
    \A s \in Sessions : peer[s] = "leaving" ~> phase[s] = "gone"
=============================================================================

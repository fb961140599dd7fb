------------------------------- MODULE GoConn -------------------------------
(***************************************************************************)
(* Conn of ddswsclient/conn.go: goroutines that send requests over one     *)
(* WebSocket and wait for the answers, the receive loop that hands answers *)
(* out by request id, and close.                                           *)
(*                                                                         *)
(* A call is one use of sendAndWait or of a fire-and-forget publish, made  *)
(* once; its name also stands for the channel it makes.  Messages carry    *)
(* the call they belong to beside the request id, so that properties can   *)
(* tell whose answer it is; the code sees the id only.                     *)
(***************************************************************************)
EXTENDS Naturals, Sequences, FiniteSets, Maps

CONSTANTS
    Calls,      \* the calls made on the connection
    Publishes,  \* those of them that wait for no answer
    IdSpace,    \* 2^32 in the code: request ids are a uint32
    StartIDs,   \* the ids last used when the calls start
    MaxQueue    \* bound: messages from the bridge when it sends a notification

ASSUME ConnConstants ==
    /\ Publishes \subseteq Calls /\ IdSpace \in Nat \ {0, 1} /\ MaxQueue \in Nat
    /\ StartIDs \subseteq 0 .. IdSpace - 1

VARIABLES
    nextID,       \* the atomic counter of nextRequestID
    pending,      \* request id -> the call whose channel is stored under it
    state,        \* of each call: "idle", "stored", "waiting" or how it returned
    id,           \* the request id of each call
    ch,           \* each call's channel, of capacity 1
    got,          \* the answer each call returned, if any
    recv,         \* recvLoop: "reading" or "done"
    held,         \* the answer recvLoop is putting into a channel, if any
    closing,      \* close: "open", "swapped", "shut" (closeCh and ws) or "closed"
    ws,           \* the link: "up", "broken" or "closed"
    to_bridge,    \* external: requests on their way
    from_bridge   \* external: answers and notifications on their way

calls == <<nextID, pending, state, id, got>>
link == <<ws, to_bridge, from_bridge>>
vars == <<calls, ch, recv, held, closing, link>>

Returned == {"answered", "refused", "failed", "sent"}

\* A connection that has already made any number of calls, all of them over.
Init ==
    /\ nextID \in StartIDs
    /\ pending = EmptyMap
    /\ state = [c \in Calls |-> "idle"]
    /\ id = [c \in Calls |-> 0]
    /\ ch = [c \in Calls |-> <<>>]
    /\ got = [c \in Calls |-> <<>>]
    /\ recv = "reading"
    /\ held = <<>>
    /\ closing = "open"
    /\ ws = "up"
    /\ to_bridge = <<>>
    /\ from_bridge = <<>>

-----------------------------------------------------------------------------
(* sendAndWait and publish.                                                *)

\* Mutants of nextRequestID: 0 is not skipped; the counter is only read.
nextRequestID_Zero == (nextID + 1) % IdSpace
nextRequestID_Load == IF nextID = 0 THEN 1 ELSE nextID

\* The counter wraps; 0 means "no request" and is skipped.
nextRequestID == IF (nextID + 1) % IdSpace = 0 THEN 1 ELSE (nextID + 1) % IdSpace

\* The closed check, the id and the channel stored under it.
Store(c) ==
    /\ state[c] = "idle" /\ c \notin Publishes
    /\ closing = "open"
    /\ nextID' = nextRequestID
    /\ id' = [id EXCEPT ![c] = nextRequestID]
    /\ pending' = insert(pending, nextRequestID, c)
    /\ state' = [state EXCEPT ![c] = "stored"]
    /\ UNCHANGED <<ch, got, recv, held, closing, link>>

Refuse(c) ==
    /\ state[c] = "idle" /\ c \notin Publishes
    /\ closing # "open"
    /\ state' = [state EXCEPT ![c] = "failed"]
    /\ UNCHANGED <<nextID, pending, id, got, ch, recv, held, closing, link>>

\* WriteMessage succeeds; on a broken link the bytes may still be accepted.
Written(c, request) ==
    /\ closing = "open" /\ ws # "closed"
    /\ to_bridge' = IF ws = "up" THEN Append(to_bridge, [id |-> request, of |-> c])
                    ELSE to_bridge

\* send finds the connection closed or WriteMessage fails.
NotWritten == closing # "open" \/ ws # "up"

Send(c) ==
    /\ state[c] = "stored"
    /\ Written(c, id[c])
    /\ state' = [state EXCEPT ![c] = "waiting"]
    /\ UNCHANGED <<nextID, pending, id, got, ch, recv, held, closing, ws, from_bridge>>

\* Every way out of sendAndWait deletes the entry of its id.
Returns(c, how) ==
    /\ pending' = remove(pending, {id[c]})
    /\ state' = [state EXCEPT ![c] = how]
    /\ UNCHANGED <<nextID, id, recv, held, closing, link>>

SendFails(c) ==
    /\ state[c] = "stored"
    /\ NotWritten
    /\ Returns(c, "failed")
    /\ UNCHANGED <<ch, got>>

\* Mutant of TimesOut: the entry is left in pending.
TimesOut_KeepsEntry(c) ==
    /\ state[c] = "waiting"
    /\ state' = [state EXCEPT ![c] = "failed"]
    /\ UNCHANGED <<nextID, pending, id, got, ch, recv, held, closing, link>>

\* select: the context ends, closeCh is closed, or the answer is there; when
\* several are ready any of them may be taken.
TimesOut(c) ==
    /\ state[c] = "waiting"
    /\ Returns(c, "failed")
    /\ UNCHANGED <<ch, got>>

SeesClose(c) ==
    /\ state[c] = "waiting"
    /\ closing \in {"shut", "closed"}
    /\ Returns(c, "failed")
    /\ UNCHANGED <<ch, got>>

GetsAnswer(c) ==
    /\ state[c] = "waiting"
    /\ ch[c] # <<>>
    /\ got' = [got EXCEPT ![c] = ch[c]]
    /\ ch' = [ch EXCEPT ![c] = <<>>]
    /\ Returns(c, IF Head(ch[c]).type = "Error" THEN "refused" ELSE "answered")

\* publish, publishDispose and publishWriteDispose: send under a fresh id.
Publish(c) ==
    /\ state[c] = "idle" /\ c \in Publishes
    /\ nextID' = nextRequestID
    /\ id' = [id EXCEPT ![c] = nextRequestID]
    /\ \/ /\ Written(c, nextRequestID)
          /\ state' = [state EXCEPT ![c] = "sent"]
       \/ /\ NotWritten
          /\ state' = [state EXCEPT ![c] = "failed"]
          /\ UNCHANGED to_bridge
    /\ UNCHANGED <<pending, got, ch, recv, held, closing, ws, from_bridge>>

-----------------------------------------------------------------------------
(* recvLoop.                                                               *)

\* Some call waits for this message; request id 0 marks a notification.
Awaited(m) == m.id # 0 /\ m.id \in DOMAIN pending

Reads ==
    /\ recv = "reading" /\ held = <<>>
    /\ from_bridge # <<>>
    /\ from_bridge' = Tail(from_bridge)
    /\ UNCHANGED <<calls, ch, recv, closing, ws, to_bridge>>

\* pending.Load finds a channel; the send on it is the next step.
RecvAnswer ==
    /\ Reads
    /\ Awaited(Head(from_bridge))
    /\ held' = <<[to |-> pending[Head(from_bridge).id], msg |-> Head(from_bridge)]>>

\* No channel: an OK is discarded, an error goes to the error handler, a
\* notification to onData; none of them waits.
RecvOther ==
    /\ Reads
    /\ ~Awaited(Head(from_bridge))
    /\ UNCHANGED held

\* Mutant of Deliver: the channel has no buffer, its call must be waiting.
Deliver_Unbuffered ==
    /\ held # <<>>
    /\ state[held[1].to] = "waiting" /\ ch[held[1].to] = <<>>
    /\ ch' = [ch EXCEPT ![held[1].to] = <<held[1].msg>>]
    /\ held' = <<>>
    /\ UNCHANGED <<calls, recv, closing, link>>

\* The send on the channel, which blocks while its one place is taken.
Deliver ==
    /\ held # <<>>
    /\ ch[held[1].to] = <<>>
    /\ ch' = [ch EXCEPT ![held[1].to] = <<held[1].msg>>]
    /\ held' = <<>>
    /\ UNCHANGED <<calls, recv, closing, link>>

\* ReadMessage fails; what had arrived before may have been read or not.
RecvEnds ==
    /\ recv = "reading" /\ held = <<>>
    /\ ws # "up"
    /\ recv' = "done"
    /\ UNCHANGED <<calls, ch, held, closing, link>>

-----------------------------------------------------------------------------
(* close.                                                                  *)

CloseSwaps ==
    /\ closing = "open"
    /\ closing' = "swapped"
    /\ UNCHANGED <<calls, ch, recv, held, link>>

CloseShuts ==
    /\ closing = "swapped"
    /\ closing' = "shut"
    /\ ws' = "closed"
    /\ UNCHANGED <<calls, ch, recv, held, to_bridge, from_bridge>>

CloseReturns ==
    /\ closing = "shut"
    /\ recv = "done"
    /\ closing' = "closed"
    /\ UNCHANGED <<calls, ch, recv, held, link>>

-----------------------------------------------------------------------------
(* The bridge and the network, external.                                   *)

\* The bridge answers each request once, with the request's id.
BridgeAnswers ==
    /\ ws = "up" /\ to_bridge # <<>>
    /\ \E type \in {"Ok", "Error"} :
          from_bridge' = Append(from_bridge, [id |-> Head(to_bridge).id,
                                              of |-> <<Head(to_bridge).of>>,
                                              type |-> type])
    /\ to_bridge' = Tail(to_bridge)
    /\ UNCHANGED <<calls, ch, recv, held, closing, ws>>

\* DATA and the like, which have request id 0.
BridgeNotifies ==
    /\ ws = "up" /\ Len(from_bridge) < MaxQueue
    /\ from_bridge' = Append(from_bridge, [id |-> 0, of |-> <<>>, type |-> "Data"])
    /\ UNCHANGED <<calls, ch, recv, held, closing, ws, to_bridge>>

LinkBreaks ==
    /\ ws = "up"
    /\ ws' = "broken"
    /\ UNCHANGED <<calls, ch, recv, held, closing, to_bridge, from_bridge>>

Calling(c) ==
    \/ Store(c) \/ Refuse(c) \/ Send(c) \/ SendFails(c) \/ TimesOut(c) \/ SeesClose(c)
    \/ GetsAnswer(c) \/ Publish(c)

recvLoop == RecvAnswer \/ RecvOther \/ Deliver \/ RecvEnds
close == CloseShuts \/ CloseReturns

Next ==
    \/ \E c \in Calls : Calling(c)
    \/ recvLoop
    \/ CloseSwaps
    \/ close
    \/ BridgeAnswers \/ BridgeNotifies \/ LinkBreaks

Spec == Init /\ [][Next]_vars

\* Goroutines that can run do, a bridge that is reachable answers, and the
\* owner closes the connection once recvLoop has ended (watchLoop does).  No
\* context is assumed to end.
FairSpec ==
    /\ Spec
    /\ WF_vars(recvLoop) /\ WF_vars(close) /\ WF_vars(BridgeAnswers)
    /\ WF_vars(recv = "done" /\ CloseSwaps)
    /\ \A c \in Calls :
          WF_vars(Send(c) \/ SendFails(c) \/ GetsAnswer(c) \/ SeesClose(c))

-----------------------------------------------------------------------------
(* Properties.                                                             *)

\* The types; ids are never 0 once given.
TypeOK ==
    /\ nextID \in 0 .. IdSpace - 1
    /\ state \in [Calls -> {"idle", "stored", "waiting"} \cup Returned]
    /\ DOMAIN pending \subseteq 1 .. IdSpace - 1
    /\ \A r \in DOMAIN pending : pending[r] \in Calls
    /\ recv \in {"reading", "done"}
    /\ closing \in {"open", "swapped", "shut", "closed"}
    /\ ws \in {"up", "broken", "closed"}

\* A call returns the answer to its own request, although other calls time out
\* and their answers still arrive (conn.go:288-291).
AnswersMatch == \A c \in Calls : got[c] # <<>> => got[c][1].of = <<c>>

\* recvLoop never waits for a caller: whatever the call did between Load and
\* the send on its channel, there is room (conn.go:111, 290).  A loop that
\* waited would stop the data of every subscription.
RecvNeverBlocks == held # <<>> => ch[held[1].to] = <<>>

\* pending holds exactly the calls in progress, each under its own id: no call
\* leaves an entry behind and none takes the entry of another with it.
PendingIsExact ==
    /\ \A r \in DOMAIN pending :
          state[pending[r]] \in {"stored", "waiting"} /\ id[pending[r]] = r
    /\ \A c \in Calls :
          state[c] \in {"stored", "waiting"} =>
             id[c] \in DOMAIN pending /\ pending[id[c]] = c

\* No call waits for ever, although its context may have no deadline and the
\* link may break at any point of the exchange.
EveryCallReturns ==
    \A c \in Calls : state[c] \in {"stored", "waiting"} ~> state[c] \in Returned

\* close, which waits for recvLoop, returns.
CloseCompletes == closing # "open" ~> closing = "closed"
=============================================================================

------------------------------ MODULE GoClient ------------------------------
(***************************************************************************)
(* Client of ddswsclient/client.go: subscriptions and writers that outlive *)
(* connections.  watchLoop notices a lost connection, dials a new one,     *)
(* restores what is listed on it and installs it, while user goroutines    *)
(* subscribe, unsubscribe, create and close writers, and close the client. *)
(*                                                                         *)
(* Connections are numbered in the order they are dialled.  What a Conn    *)
(* does is in GoConn; here a request is asked, carried out by the bridge   *)
(* and returned, and may fail before or after it is carried out, and the   *)
(* receive loop hands data to the channels of the subscriptions.  The      *)
(* bridge's session of each connection is external.                        *)
(*                                                                         *)
(* A send on a closed channel panics and ends the process: after it        *)
(* nothing happens any more.                                               *)
(***************************************************************************)
EXTENDS Integers, Sequences, SequencesExt, FiniteSets

CONSTANTS
    Subs,           \* the Subscription objects the user makes, each once
    Writers,        \* the Writer objects the user makes, each once
    TopicOf,        \* object -> its topic
    CallsMayFail,   \* whether contexts may end and the bridge may refuse
    maxReconnects,  \* cfg.maxReconnects, -1 for no limit
    ChanSize,       \* the capacity of a subscription's channel, 256 in the code
    MaxConns,       \* bound: connections; the last one is neither lost nor refused
    MaxData         \* bound: data messages received

Objects == Subs \cup Writers

ASSUME ClientConstants ==
    /\ Subs \cap Writers = {} /\ CallsMayFail \in BOOLEAN
    /\ maxReconnects \in Int /\ MaxConns \in Nat \ {0}
    /\ ChanSize \in Nat \ {0} /\ MaxData \in Nat

VARIABLES
    conn,       \* c.conn: a connection, or 0 for nil
    subs,       \* c.subs
    writers,    \* c.writers
    writerID,   \* writer -> the id its Writer holds
    w_closed,   \* the writers with closed = true
    at,         \* where the user's goroutine of each object is
    on,         \* the connection that goroutine's call uses
    watch,      \* where watchLoop is
    attempts,   \* dials of the current reconnect
    todo,       \* what restoreState still has to restore, in order
    copied,     \* what restoreState copied for the newest connection
    closing,    \* Client.Close: "no", "asked", "shut" or "closed"
    chan,       \* subscription -> what its channel holds: numbers of messages
    shut,       \* the subscriptions whose channel is closed
    seen,       \* subscription -> the message the user received last
    handed,     \* subscription -> the message deliverData dealt with last
    delivery,   \* the message deliverData is handing out, if any
    data_made,  \* how many data messages deliverData had targets for
    link,       \* connection -> "none", "up", "lost" or "closed"
    served,     \* external: connection -> the topics its session subscribes
    made,       \* external: connection -> its session's writers as <<id, writer>>
    next_id     \* external: the bridge's writer id counter

lists == <<subs, writers, writerID, w_closed>>
user == <<at, on>>
loop == <<watch, attempts, todo, copied>>
bridge == <<served, made, next_id>>
data == <<chan, shut, seen, handed, delivery, data_made>>
vars == <<conn, lists, user, loop, closing, link, bridge, data>>

Conns == 1 .. MaxConns
newest == CHOOSE e \in 0 .. MaxConns :
             /\ e # 0 => link[e] # "none"
             /\ \A f \in Conns : f > e => link[f] = "none"

\* NewClient has dialled the first connection.
Init ==
    /\ conn = 1
    /\ subs = <<>> /\ writers = <<>>
    /\ writerID = [w \in Writers |-> 0]
    /\ w_closed = {}
    /\ at = [x \in Objects |-> "new"]
    /\ on = [x \in Objects |-> 0]
    /\ watch = "watching" /\ attempts = 0 /\ todo = <<>> /\ copied = {}
    /\ closing = "no"
    /\ chan = [x \in Subs |-> <<>>] /\ shut = {}
    /\ seen = [x \in Subs |-> 0] /\ handed = [x \in Subs |-> 0]
    /\ delivery = <<>> /\ data_made = 0
    /\ link = [e \in Conns |-> IF e = 1 THEN "up" ELSE "none"]
    /\ served = [e \in Conns |-> {}]
    /\ made = [e \in Conns |-> {}]
    /\ next_id = 1

-----------------------------------------------------------------------------
(* The bridge: what a request does to the session of connection e.         *)

Serve(e, x) ==
    /\ served' = [served EXCEPT ![e] = @ \cup {TopicOf[x]}]
    /\ UNCHANGED <<made, next_id>>

Make(e, w) ==
    /\ made' = [made EXCEPT ![e] = @ \cup {<<next_id, w>>}]
    /\ next_id' = next_id + 1
    /\ UNCHANGED served

-----------------------------------------------------------------------------
(* The user's goroutines: Subscribe and CreateWriter, then Unsubscribe and *)
(* Writer.Close.                                                           *)

\* c.conn is read under connMu and used after it.
Ask(x, from, to) ==
    /\ at[x] = from /\ conn # 0
    /\ at' = [at EXCEPT ![x] = to]
    /\ on' = [on EXCEPT ![x] = conn]
    /\ UNCHANGED <<conn, lists, loop, closing, link, bridge, data>>

\* Without a connection Subscribe and CreateWriter fail; Unsubscribe and
\* Writer.Close succeed and send nothing.
AskNobody(x, from, to) ==
    /\ at[x] = from /\ conn = 0
    /\ at' = [at EXCEPT ![x] = to]
    /\ UNCHANGED <<conn, lists, on, loop, closing, link, bridge, data>>

Begin(x) == Ask(x, "new", "asked") \/ AskNobody(x, "new", "failed")

\* The bridge carries the request out.
Carried(x) ==
    /\ at[x] = "asked" /\ link[on[x]] = "up"
    /\ at' = [at EXCEPT ![x] = "carried"]
    /\ IF x \in Subs THEN Serve(on[x], x) ELSE Make(on[x], x)
    /\ UNCHANGED <<conn, lists, on, loop, closing, link, data>>

\* The OK arrived; the object is made and listed.
Listed(x) ==
    /\ at[x] = "carried"
    /\ at' = [at EXCEPT ![x] = "live"]
    /\ IF x \in Subs
       THEN subs' = Append(subs, x) /\ UNCHANGED <<writers, writerID>>
       ELSE /\ writers' = Append(writers, x)
            /\ \E p \in made[on[x]] :
                  p[2] = x /\ writerID' = [writerID EXCEPT ![x] = p[1]]
            /\ UNCHANGED subs
    /\ UNCHANGED <<conn, w_closed, on, loop, closing, link, bridge, data>>

\* The call returns an error, whether or not it was carried out.
Fails(x) ==
    /\ at[x] \in {"asked", "carried"}
    /\ CallsMayFail \/ link[on[x]] # "up"
    /\ at' = [at EXCEPT ![x] = "failed"]
    /\ UNCHANGED <<conn, lists, on, loop, closing, link, bridge, data>>

\* Writer.Close marks the writer closed before it takes it off the list.
\* Unsubscribe sets unsubscribed, takes the subscription off the list and
\* closes its channel in one step here: a send that falls between these three
\* could as well come before them.
Mark(w) ==
    /\ w \in Writers /\ at[w] = "live"
    /\ at' = [at EXCEPT ![w] = "marked"]
    /\ w_closed' = w_closed \cup {w}
    /\ UNCHANGED <<conn, subs, writers, writerID, on, loop, closing, link, bridge, data>>

Unlist(x) ==
    /\ at[x] = IF x \in Subs THEN "live" ELSE "marked"
    /\ at' = [at EXCEPT ![x] = "unlisted"]
    /\ subs' = RemoveFirst(subs, x)
    /\ writers' = RemoveFirst(writers, x)
    /\ shut' = shut \cup ({x} \cap Subs)
    /\ UNCHANGED <<conn, writerID, w_closed, on, loop, closing, link, bridge,
                   chan, seen, handed, delivery, data_made>>

End(x) == Ask(x, "unlisted", "ending") \/ AskNobody(x, "unlisted", "ended")

\* UNSUBSCRIBE or DELETE_WRITER is carried out; the call may as well fail.
Ended(x) ==
    /\ at[x] = "ending"
    /\ \/ /\ link[on[x]] = "up"
          /\ served' = IF x \in Subs THEN [served EXCEPT ![on[x]] = @ \ {TopicOf[x]}]
                       ELSE served
          /\ made' = [made EXCEPT ![on[x]] = {p \in @ : x \in Subs \/ p[1] # writerID[x]}]
       \/ /\ CallsMayFail \/ link[on[x]] # "up"
          /\ UNCHANGED <<served, made>>
    /\ at' = [at EXCEPT ![x] = "ended"]
    /\ UNCHANGED <<conn, lists, on, loop, closing, link, next_id, data>>

User(x) ==
    \/ Begin(x) \/ Carried(x) \/ Listed(x) \/ Fails(x)
    \/ Mark(x) \/ Unlist(x) \/ End(x) \/ Ended(x)

-----------------------------------------------------------------------------
(* Data: the receive loop of the one connection that has not ended calls   *)
(* deliverData, which takes several steps for each subscription.           *)

Panicked == delivery # <<>> /\ delivery[1].step = "panic"

\* What is left to do: nothing when there are no more targets.
Deliver(msg, targets) ==
    IF targets = <<>> THEN <<>>
    ELSE <<[msg |-> msg, step |-> "check", targets |-> targets]>>

\* The listed subscriptions of topic t, in the order of the list.
Targets(t) ==
    {q \in SeqOf(Subs, Len(subs)) :
        /\ ToSet(q) = {x \in ToSet(subs) : TopicOf[x] = t}
        /\ \A i, j \in DOMAIN q :
              i < j => \E k, l \in DOMAIN subs : k < l /\ q[i] = subs[k] /\ q[j] = subs[l]}

\* The subscriptions of the topic are collected under subsMu; data for none of
\* them changes nothing.
DataArrives ==
    /\ delivery = <<>> /\ data_made < MaxData
    /\ \E e \in Conns : \E t \in served[e] :
          /\ link[e] = "up"
          /\ \E targets \in Targets(t) \ {<<>>} :
                delivery' = Deliver(data_made + 1, targets)
    /\ data_made' = data_made + 1
    /\ UNCHANGED <<conn, lists, user, loop, closing, link, bridge,
                   chan, shut, seen, handed>>

\* The next step of the delivery to subscription x.
At(x, step) ==
    /\ delivery # <<>>
    /\ x = Head(delivery[1].targets) /\ delivery[1].step = step
    /\ UNCHANGED <<conn, lists, user, loop, closing, link, bridge, shut, seen, data_made>>

GoTo(step) == delivery' = <<[delivery[1] EXCEPT !.step = step]>>
NextTarget == delivery' = Deliver(delivery[1].msg, Tail(delivery[1].targets))

\* unsubscribed is set with the channel closed.
CheckSub(x) ==
    /\ At(x, "check")
    /\ IF x \in shut THEN NextTarget ELSE GoTo("send")
    /\ UNCHANGED <<chan, handed>>

\* A send that does not wait; on a full channel it goes on with full.
TrySend(x, full) ==
    \/ /\ x \in shut
       /\ GoTo("panic")
       /\ UNCHANGED <<chan, handed>>
    \/ /\ x \notin shut /\ Len(chan[x]) < ChanSize
       /\ chan' = [chan EXCEPT ![x] = Append(@, delivery[1].msg)]
       /\ handed' = [handed EXCEPT ![x] = delivery[1].msg]
       /\ NextTarget
    \/ /\ x \notin shut /\ Len(chan[x]) >= ChanSize
       /\ full
       /\ UNCHANGED chan

SendFirst(x) == At(x, "send") /\ TrySend(x, GoTo("drop") /\ UNCHANGED handed)

\* Mutant of DropOldest: nothing is taken out.
DropOldest_Keeps(x) ==
    /\ At(x, "drop")
    /\ GoTo("resend")
    /\ UNCHANGED <<chan, handed>>

\* The oldest message is taken out, unless the user has emptied the channel.
DropOldest(x) ==
    /\ At(x, "drop")
    /\ chan' = [chan EXCEPT ![x] = IF @ = <<>> THEN @ ELSE Tail(@)]
    /\ GoTo("resend")
    /\ UNCHANGED handed

\* If the channel is full again the new message is lost.
SendAgain(x) ==
    /\ At(x, "resend")
    /\ TrySend(x, NextTarget /\ handed' = [handed EXCEPT ![x] = delivery[1].msg])

deliverData ==
    \E x \in Subs : CheckSub(x) \/ SendFirst(x) \/ DropOldest(x) \/ SendAgain(x)

\* The user reads from C.
Receive(x) ==
    /\ chan[x] # <<>>
    /\ seen' = [seen EXCEPT ![x] = Head(chan[x])]
    /\ chan' = [chan EXCEPT ![x] = Tail(@)]
    /\ UNCHANGED <<conn, lists, user, loop, closing, link, bridge,
                   shut, handed, delivery, data_made>>

-----------------------------------------------------------------------------
(* watchLoop, reconnect and restoreState.                                  *)

\* The network; the read error ends the receive loop, which is not in the
\* middle of a delivery then.
LinkLost(e) ==
    /\ link[e] = "up" /\ e < MaxConns
    /\ delivery = <<>>
    /\ link' = [link EXCEPT ![e] = "lost"]
    /\ UNCHANGED <<conn, lists, user, loop, closing, bridge, data>>

\* Mutant of Quit: watchLoop waits for the connection only.
Quit_OnlyRetry ==
    /\ watch = "retry"
    /\ closing # "no"
    /\ watch' = "done"
    /\ UNCHANGED <<conn, lists, user, attempts, todo, copied, closing, link, bridge, data>>

\* The select of watchLoop, or the check and the timer of reconnect, sees
\* that the client is being closed.
Quit ==
    /\ watch \in {"watching", "retry"}
    /\ closing # "no"
    /\ watch' = "done"
    /\ UNCHANGED <<conn, lists, user, attempts, todo, copied, closing, link, bridge, data>>

\* recvDone: c.conn = nil.
DropConn ==
    /\ watch = "watching" /\ conn # 0 /\ link[conn] = "lost"
    /\ conn' = 0
    /\ watch' = "dropped"
    /\ attempts' = 0
    /\ UNCHANGED <<lists, user, todo, copied, closing, link, bridge, data>>

CloseOld ==
    /\ watch = "dropped"
    /\ link' = [link EXCEPT ![newest] = "closed"]
    /\ watch' = "retry"
    /\ UNCHANGED <<conn, lists, user, attempts, todo, copied, closing, bridge, data>>

Exhausted == maxReconnects >= 0 /\ attempts >= maxReconnects

GiveUp ==
    /\ watch = "retry" /\ Exhausted
    /\ watch' = "done"
    /\ UNCHANGED <<conn, lists, user, attempts, todo, copied, closing, link, bridge, data>>

\* The timer fired; the attempts of an unlimited client are not counted here.
Counted == attempts' = IF maxReconnects >= 0 THEN attempts + 1 ELSE attempts

DialFails ==
    /\ watch = "retry" /\ ~Exhausted
    /\ Counted
    /\ UNCHANGED <<conn, lists, user, watch, todo, copied, closing, link, bridge, data>>

Dial ==
    /\ watch = "retry" /\ ~Exhausted
    /\ newest < MaxConns
    /\ Counted
    /\ link' = [link EXCEPT ![newest + 1] = "up"]
    /\ watch' = "dialled"
    /\ UNCHANGED <<conn, lists, user, todo, copied, closing, bridge, data>>

\* Mutant of CopyLists: subsMu is held by Subscribe and CreateWriter around
\* their requests.
CopyLists_Waits ==
    /\ watch = "dialled"
    /\ \A x \in Objects : at[x] \notin {"asked", "carried"}
    /\ todo' = writers \o subs
    /\ copied' = ToSet(todo')
    /\ watch' = "restoring"
    /\ UNCHANGED <<conn, lists, user, attempts, closing, link, bridge, data>>

\* restoreState copies both lists under subsMu.
CopyLists ==
    /\ watch = "dialled"
    /\ todo' = writers \o subs
    /\ copied' = ToSet(todo')
    /\ watch' = "restoring"
    /\ UNCHANGED <<conn, lists, user, attempts, closing, link, bridge, data>>

\* A writer that was closed meanwhile needs no request.
Skippable(x) == x \in Writers /\ x \in w_closed

\* The next object is restored.  w.mu is held around the request, and nobody
\* else uses the connection yet, so a writer's step is atomic; subscriptions
\* are restored whether or not they were given up meanwhile.
Restore ==
    /\ watch = "restoring" /\ todo # <<>>
    /\ ~Skippable(Head(todo)) /\ link[newest] = "up"
    /\ LET x == Head(todo)
       IN  IF x \in Subs THEN Serve(newest, x) /\ UNCHANGED writerID
           ELSE Make(newest, x) /\ writerID' = [writerID EXCEPT ![x] = next_id]
    /\ todo' = Tail(todo)
    /\ UNCHANGED <<conn, subs, writers, w_closed, user, watch, attempts, copied, closing, link, data>>

RestoreSkips ==
    /\ watch = "restoring" /\ todo # <<>>
    /\ Skippable(Head(todo))
    /\ todo' = Tail(todo)
    /\ UNCHANGED <<conn, lists, user, watch, attempts, copied, closing, link, bridge, data>>

\* Mutants of RestoreFails: the object that failed is skipped; the new
\* connection is left open.
RestoreFails_Skips ==
    /\ watch = "restoring" /\ todo # <<>> /\ ~Skippable(Head(todo))
    /\ CallsMayFail \/ link[newest] # "up"
    /\ todo' = Tail(todo)
    /\ UNCHANGED <<conn, lists, user, watch, attempts, copied, closing, link, bridge, data>>

RestoreFails_LeavesOpen ==
    /\ watch = "restoring" /\ todo # <<>> /\ ~Skippable(Head(todo))
    /\ CallsMayFail \/ link[newest] # "up"
    /\ newest < MaxConns
    /\ todo' = <<>>
    /\ watch' = "retry"
    /\ UNCHANGED <<conn, lists, user, attempts, copied, closing, link, bridge, data>>

\* All or nothing: the new connection is closed, which waits for its receive
\* loop, and another one dialled.
RestoreFails ==
    /\ watch = "restoring" /\ todo # <<>> /\ ~Skippable(Head(todo))
    /\ delivery = <<>>
    /\ CallsMayFail \/ link[newest] # "up"
    /\ newest < MaxConns
    /\ link' = [link EXCEPT ![newest] = "closed"]
    /\ todo' = <<>>
    /\ watch' = "retry"
    /\ UNCHANGED <<conn, lists, user, attempts, copied, closing, bridge, data>>

Install ==
    /\ watch = "restoring" /\ todo = <<>>
    /\ conn' = newest
    /\ watch' = "watching"
    /\ UNCHANGED <<lists, user, attempts, todo, copied, closing, link, bridge, data>>

watchLoop ==
    \/ Quit \/ DropConn \/ CloseOld \/ GiveUp \/ Dial \/ CopyLists
    \/ Restore \/ RestoreSkips \/ RestoreFails \/ Install

-----------------------------------------------------------------------------
(* Client.Close.                                                           *)

CloseAsked ==
    /\ closing = "no"
    /\ closing' = "asked"
    /\ UNCHANGED <<conn, lists, user, loop, link, bridge, data>>

\* <-c.done, then c.conn is taken and closed.
CloseConn ==
    /\ closing = "asked" /\ watch = "done"
    /\ conn' = 0
    /\ link' = [e \in Conns |-> IF e = conn THEN "closed" ELSE link[e]]
    /\ closing' = "shut"
    /\ UNCHANGED <<lists, user, loop, bridge, data>>

\* Mutant of CloseLists: conn.close does not wait for recvDone.
CloseLists_NoAwait ==
    /\ closing = "shut"
    /\ shut' = shut \cup ToSet(subs)
    /\ subs' = <<>> /\ writers' = <<>>
    /\ closing' = "closed"
    /\ UNCHANGED <<conn, writerID, w_closed, user, loop, link, bridge,
                   chan, seen, handed, delivery, data_made>>

\* conn.close returns when the receive loop has ended; then both lists are
\* emptied and the channels of the listed subscriptions closed.
CloseLists ==
    /\ closing = "shut"
    /\ delivery = <<>>
    /\ shut' = shut \cup ToSet(subs)
    /\ subs' = <<>> /\ writers' = <<>>
    /\ closing' = "closed"
    /\ UNCHANGED <<conn, writerID, w_closed, user, loop, link, bridge,
                   chan, seen, handed, delivery, data_made>>

Close == CloseConn \/ CloseLists

Next ==
    /\ ~Panicked
    /\ \/ \E x \in Objects : User(x)
       \/ \E x \in Subs : Receive(x)
       \/ DataArrives \/ deliverData
       \/ \E e \in Conns : LinkLost(e)
       \/ watchLoop \/ DialFails
       \/ CloseAsked \/ Close

Spec == Init /\ [][Next]_vars

\* Goroutines of the client run when they can, and the bridge is reachable
\* often enough for a dial to succeed in the end.  No user goroutine need move.
FairSpec ==
    /\ Spec
    /\ WF_vars(~Panicked /\ watchLoop) /\ SF_vars(~Panicked /\ Dial)
    /\ WF_vars(~Panicked /\ deliverData) /\ WF_vars(~Panicked /\ Close)

-----------------------------------------------------------------------------
(* Properties.                                                             *)

\* The client never has two connections that it has not closed, the one it
\* uses is the newest, and Close leaves none and no reconnect that brings one
\* back: a session that the bridge still serves is not leaked, whether a
\* reconnect succeeds, fails half-way or races with Close.
OneConnection ==
    /\ Cardinality({e \in Conns : link[e] \in {"up", "lost"}}) <= 1
    /\ conn # 0 => conn = newest
    /\ closing \in {"shut", "closed"} =>
          conn = 0 /\ \A e \in Conns : link[e] \in {"none", "closed"}

\* The user subscribes to a topic with one object.
TopicsApart == \A x, y \in Subs : TopicOf[x] = TopicOf[y] => x = y

\* "all-or-nothing" (client.go:629): on an installed connection every listed
\* object that restoreState copied, or that was made on it, is served, under
\* the writer id its Writer holds (for clients with TopicsApart).
CopiedAreServed ==
    conn # 0 =>
       \A x \in ToSet(subs) \cup (ToSet(writers) \ w_closed) :
          x \in copied \/ on[x] = conn =>
             IF x \in Subs THEN TopicOf[x] \in served[conn]
             ELSE <<writerID[x], x>> \in made[conn]

\* client.go:544, "Drop oldest to make room": between deliveries the user has
\* received, or finds in the channel, the newest message handed to the
\* subscription, and the messages are in order, however the user's receives
\* fall between the three selects of deliverData.
OldestIsDropped ==
    \A x \in Subs :
       LET got == <<seen[x]>> \o chan[x]
       IN  /\ \A i, j \in DOMAIN got : i < j => got[i] < got[j]
           /\ delivery = <<>> => got[Len(got)] = handed[x]

\* Client.Close never closes a channel that a delivery may still send on: a
\* send on a closed channel (client.go:542) needs an Unsubscribe that runs
\* between the check of unsubscribed and the send.
CloseNeverPanics == Panicked => at[Head(delivery[1].targets)] # "live"

\* A lost connection is replaced, unless the client gives up or is closed.
Reconnects == conn = 0 ~> conn # 0 \/ watch = "done" \/ Panicked

\* Close returns, at whatever point of a reconnect or a delivery it is called.
CloseCompletes == closing = "asked" ~> closing = "closed" \/ Panicked

\* client.go:188, "Close deletes this writer": a writer whose Close returned
\* is not left in the session of the connection in use.
ClosedWritersAreDeleted ==
    conn # 0 /\ link[conn] = "up" =>
       \A w \in Writers : at[w] = "ended" => \A p \in made[conn] : p[2] # w
=============================================================================

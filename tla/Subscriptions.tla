---------------------------- MODULE Subscriptions ----------------------------
(***************************************************************************)
(* Subscriptions as a client sees them, without readers, ids or indexes:   *)
(* the fan-out list of each shared reader as (session, key) pairs, and of  *)
(* each session and topic the subscription made last.  SUBSCRIBE adds the  *)
(* client to the list of one key.  UNSUBSCRIBE, which names a topic, and a *)
(* disconnect remove what was subscribed last per topic.  docs/protocol.md *)
(* promises of a disconnect that it removes all; that is the same as long  *)
(* as fanout = latest, until a client asks for one topic with two QoS.     *)
(***************************************************************************)
CONSTANTS Sessions, Topics, Keys

VARIABLES fanout, latest

Init == fanout = {} /\ latest = {}

Of(s, t) == {p \in latest : p[1] = s /\ p[2][1] = t}

Subscribe(s, k) ==
    /\ fanout' = fanout \cup {<<s, k>>}
    /\ latest' = (latest \ Of(s, k[1])) \cup {<<s, k>>}

Drop(gone) == fanout' = fanout \ gone /\ latest' = latest \ gone

Unsubscribe(s, t) == Drop(Of(s, t))

Disconnect(s) == Drop({p \in latest : p[1] = s})

Next ==
    \/ \E s \in Sessions, k \in Keys : Subscribe(s, k)
    \/ \E s \in Sessions, t \in Topics : Unsubscribe(s, t)
    \/ \E s \in Sessions : Disconnect(s)

Spec == Init /\ [][Next]_<<fanout, latest>>
=============================================================================

--------------------------- MODULE Session_proofs ---------------------------
(***************************************************************************)
(* Proofs about Session, for any number of sessions, any capacity of the   *)
(* channels and any bounds: replies and notifications keep their order and *)
(* no reply is lost on a connection that works.                            *)
(***************************************************************************)
EXTENDS Session, SequenceTheorems, TLAPS

Messages == [via : {"resp", "bridge"}, seq : Nat, body : Bodies]

-----------------------------------------------------------------------------
(* The way of the replies, over the sequences it leads through: w, what is *)
(* on the wire; f, what the writer task sends; c, the channel; r, what the *)
(* handler returned.                                                       *)

\* One if what is being sent is a reply.
Own(f) == IF Len(f) = 1 /\ f[1].via = "resp" THEN 1 ELSE 0

\* q holds replies n + 1, n + 2, ...
Numbered(q, n) == \A i \in 1 .. Len(q) : q[i].via = "resp" /\ q[i].seq = n + i

\* The wire has replies 1 .. n, in this order.
Received(w, n) ==
    /\ \A i \in 1 .. Len(w) : w[i].via = "resp" => w[i].seq \in 1 .. n
    /\ \A k \in 1 .. n : \E i \in 1 .. Len(w) : w[i].via = "resp" /\ w[i].seq = k
    /\ \A i, j \in 1 .. Len(w) :
          w[i].via = "resp" /\ w[j].via = "resp" /\ i < j => w[i].seq < w[j].seq

\* The rest follows it without a gap, but for the lost ones of a connection
\* that failed, behind the channel.
InLine(w, f, c, r, n, lost) ==
    /\ Received(w, n)
    /\ Own(f) = 1 => f[1].seq = n + 1
    /\ Numbered(c, n + Own(f))
    /\ Numbered(r, n + Own(f) + Len(c) + lost)

\* The replies of s.
RepliesOf(s) ==
    \E n, lost \in Nat :
       /\ InLine(wire[s], inflight[s], resp_ch[s], resps[s], n, lost)
       /\ issued[s] = n + Own(inflight[s]) + Len(resp_ch[s]) + lost + Len(resps[s])
       /\ writer[s] = "running" => lost = 0

\* The state of s consists of sequences of messages.
Typed(s) ==
    /\ wire[s] \in Seq(Messages) /\ inflight[s] \in Seq(Messages)
    /\ resp_ch[s] \in Seq(Messages) /\ resps[s] \in Seq(Messages)
    /\ bridge_ch[s] \in Seq(Messages)
    /\ Len(inflight[s]) \in {0, 1}
    /\ issued[s] \in Nat /\ offered[s] \in Nat
    /\ \A i \in 1 .. Len(bridge_ch[s]) : bridge_ch[s][i].via = "bridge"

\* Both channels, both receivers: dropped with the writer task.
Dropped(s) == writer[s] = "done" => Len(inflight[s]) = 0 /\ Len(resp_ch[s]) = 0

-----------------------------------------------------------------------------
(* The way of the notifications.                                           *)

\* The notifications of q come before those of p, ...
Before(q, p) ==
    \A i \in 1 .. Len(q) : \A j \in 1 .. Len(p) :
       q[i].via = "bridge" /\ p[j].via = "bridge" => q[i].seq < p[j].seq

\* ... are in order, and are some of the first n.
Rising(q, n) ==
    /\ \A i \in 1 .. Len(q) : q[i].via = "bridge" => q[i].seq <= n
    /\ \A i, j \in 1 .. Len(q) :
          q[i].via = "bridge" /\ q[j].via = "bridge" /\ i < j => q[i].seq < q[j].seq

NotificationsOf(s) ==
    /\ Rising(wire[s], offered[s]) /\ Rising(inflight[s], offered[s])
    /\ Rising(bridge_ch[s], offered[s])
    /\ Before(wire[s], inflight[s]) /\ Before(wire[s], bridge_ch[s])
    /\ Before(inflight[s], bridge_ch[s])

\* The inductive invariant.
SessionOk(s) == Typed(s) /\ RepliesOf(s) /\ Dropped(s) /\ NotificationsOf(s)

Domains ==
    /\ DOMAIN wire = Sessions /\ DOMAIN inflight = Sessions /\ DOMAIN resp_ch = Sessions
    /\ DOMAIN resps = Sessions /\ DOMAIN bridge_ch = Sessions /\ DOMAIN writer = Sessions
    /\ DOMAIN issued = Sessions /\ DOMAIN offered = Sessions

Delivery == Domains /\ \A s \in Sessions : SessionOk(s)

-----------------------------------------------------------------------------
(* Lemmas about the ways.                                                  *)

\* A message that is sent ends up behind those on the wire.
LEMMA WireGrows ==
    ASSUME NEW w \in Seq(Messages), NEW f \in Seq(Messages), Len(f) = 1
    PROVE  /\ Len(w) \in Nat /\ f[1] \in Messages
           /\ w \o f \in Seq(Messages) /\ Len(w \o f) = Len(w) + 1
           /\ \A i \in 1 .. Len(w) : (w \o f)[i] = w[i] /\ w[i] \in Messages
           /\ (w \o f)[Len(w) + 1] = f[1]
  <1>1. Len(w) \in Nat /\ f[1] \in Messages
    BY ElementOfSeq
  <1>2. /\ w \o f \in Seq(Messages) /\ Len(w \o f) = Len(w) + 1
        /\ \A i \in 1 .. Len(w) + 1 : (w \o f)[i] = IF i <= Len(w) THEN w[i] ELSE f[i - Len(w)]
    BY <1>1, ConcatProperties
  <1>3. \A i \in 1 .. Len(w) : (w \o f)[i] = w[i]
    BY <1>1, <1>2
  <1>4. (w \o f)[Len(w) + 1] = f[1]
    BY <1>1, <1>2
  <1>5. \A i \in 1 .. Len(w) : w[i] \in Messages
    BY ElementOfSeq
  <1> QED BY <1>1, <1>2, <1>3, <1>4, <1>5

\* The next reply is received.
LEMMA ReplySent ==
    ASSUME NEW w \in Seq(Messages), NEW f \in Seq(Messages), NEW n \in Nat,
           Len(f) = 1, Received(w, n), Own(f) = 1 => f[1].seq = n + 1
    PROVE  Received(w \o f, n + Own(f))
  <1> DEFINE v == w \o f
  <1>1. /\ Len(w) \in Nat /\ f[1] \in Messages /\ Len(v) = Len(w) + 1
        /\ \A i \in 1 .. Len(w) : v[i] = w[i] /\ w[i] \in Messages
        /\ v[Len(w) + 1] = f[1]
    BY WireGrows
  <1> HIDE DEF v
  <1>2. CASE f[1].via = "resp"
    <2>1. Own(f) = 1 /\ f[1].seq = n + 1
      BY <1>2 DEF Own
    <2>2. ASSUME NEW i \in 1 .. Len(v), v[i].via = "resp" PROVE v[i].seq \in 1 .. n + 1
      <3>1. CASE i = Len(w) + 1
        BY <1>1, <2>1, <3>1
      <3>2. CASE i \in 1 .. Len(w)
        <4>1. v[i] = w[i] /\ w[i].seq \in 1 .. n
          BY <1>1, <2>2, <3>2 DEF Received
        <4> QED BY <4>1
      <3> QED BY <1>1, <3>1, <3>2
    <2>3. ASSUME NEW k \in 1 .. n + 1
          PROVE  \E i \in 1 .. Len(v) : v[i].via = "resp" /\ v[i].seq = k
      <3>1. CASE k = n + 1
        BY <1>1, <1>2, <2>1, <3>1
      <3>2. CASE k \in 1 .. n
        <4>1. PICK i \in 1 .. Len(w) : w[i].via = "resp" /\ w[i].seq = k
          BY <3>2 DEF Received
        <4> QED BY <1>1, <4>1
      <3> QED BY <3>1, <3>2
    <2>4. ASSUME NEW i \in 1 .. Len(v), NEW j \in 1 .. Len(v),
                 v[i].via = "resp", v[j].via = "resp", i < j
          PROVE  v[i].seq < v[j].seq
      <3>1. i \in 1 .. Len(w)
        BY <1>1, <2>4
      <3>2. CASE j = Len(w) + 1
        <4>1. w[i].seq \in 1 .. n
          BY <1>1, <2>4, <3>1 DEF Received
        <4> QED BY <1>1, <2>1, <3>1, <3>2, <4>1
      <3>3. CASE j \in 1 .. Len(w)
        BY <1>1, <2>4, <3>1, <3>3 DEF Received
      <3> QED BY <1>1, <3>2, <3>3
    <2> QED BY <2>1, <2>2, <2>3, <2>4 DEF Received, v
  <1>3. CASE f[1].via # "resp"
    <2>1. Own(f) = 0
      BY <1>3 DEF Own
    <2>2. \A i \in 1 .. Len(v) : v[i].via = "resp" => i \in 1 .. Len(w)
      BY <1>1, <1>3
    <2>3. ASSUME NEW k \in 1 .. n
          PROVE  \E i \in 1 .. Len(v) : v[i].via = "resp" /\ v[i].seq = k
      <3>1. PICK i \in 1 .. Len(w) : w[i].via = "resp" /\ w[i].seq = k
        BY DEF Received
      <3> QED BY <1>1, <3>1
    <2>4. \A i \in 1 .. Len(v) : v[i].via = "resp" => v[i].seq \in 1 .. n
      BY <1>1, <2>2 DEF Received
    <2>5. \A i, j \in 1 .. Len(v) :
             v[i].via = "resp" /\ v[j].via = "resp" /\ i < j => v[i].seq < v[j].seq
      BY <1>1, <2>2 DEF Received
    <2> QED BY <2>1, <2>3, <2>4, <2>5 DEF Received, v
  <1> QED BY <1>2, <1>3

\* A notification that is sent keeps the order.
LEMMA NotificationSent ==
    ASSUME NEW w \in Seq(Messages), NEW f \in Seq(Messages), NEW b \in Seq(Messages),
           NEW n \in Nat, Len(f) = 1,
           Rising(w, n), Rising(f, n), Before(w, f), Before(w, b), Before(f, b)
    PROVE  Rising(w \o f, n) /\ Before(w \o f, b)
  <1> DEFINE v == w \o f
  <1>1. /\ Len(w) \in Nat /\ Len(v) = Len(w) + 1
        /\ \A i \in 1 .. Len(w) : v[i] = w[i]
        /\ v[Len(w) + 1] = f[1]
    BY WireGrows
  <1> HIDE DEF v
  <1>2. \A i \in 1 .. Len(v) : v[i].via = "bridge" => v[i].seq <= n
    BY <1>1 DEF Rising
  <1>3. ASSUME NEW i \in 1 .. Len(v), NEW j \in 1 .. Len(v),
               v[i].via = "bridge", v[j].via = "bridge", i < j
        PROVE  v[i].seq < v[j].seq
    <2>1. i \in 1 .. Len(w)
      BY <1>1, <1>3
    <2>2. CASE j = Len(w) + 1
      BY <1>1, <1>3, <2>1, <2>2 DEF Before
    <2>3. CASE j \in 1 .. Len(w)
      BY <1>1, <1>3, <2>1, <2>3 DEF Rising
    <2> QED BY <1>1, <2>2, <2>3
  <1>4. ASSUME NEW i \in 1 .. Len(v), NEW j \in 1 .. Len(b),
               v[i].via = "bridge", b[j].via = "bridge"
        PROVE  v[i].seq < b[j].seq
    <2>1. CASE i = Len(w) + 1
      BY <1>1, <1>4, <2>1 DEF Before
    <2>2. CASE i \in 1 .. Len(w)
      BY <1>1, <1>4, <2>2 DEF Before
    <2> QED BY <1>1, <2>1, <2>2
  <1> QED BY <1>2, <1>3, <1>4 DEF Rising, Before, v

\* The first message of a channel, and those behind it.
LEMMA FirstOut ==
    ASSUME NEW q \in Seq(Messages), Len(q) > 0
    PROVE  /\ Head(q) = q[1] /\ q[1] \in Messages
           /\ Tail(q) \in Seq(Messages) /\ Len(q) \in Nat /\ Len(q) > 0
           /\ Len(Tail(q)) = Len(q) - 1
           /\ \A i \in 1 .. Len(Tail(q)) : i + 1 \in 1 .. Len(q) /\ Tail(q)[i] = q[i + 1]
           /\ <<Head(q)>> \in Seq(Messages) /\ Len(<<Head(q)>>) = 1 /\ <<Head(q)>>[1] = q[1]
  <1>1. /\ Head(q) = q[1] /\ q[1] \in Messages
        /\ Tail(q) \in Seq(Messages) /\ Len(q) \in Nat /\ Len(q) > 0
        /\ Len(Tail(q)) = Len(q) - 1
    BY HeadTailProperties, EmptySeq
  <1>2. \A i \in 1 .. Len(Tail(q)) : i + 1 \in 1 .. Len(q) /\ Tail(q)[i] = q[i + 1]
    BY <1>1, HeadTailProperties
  <1> QED BY <1>1, <1>2

\* What the writer task receives of the replies.
LEMMA ReplyTaken ==
    ASSUME NEW c \in Seq(Messages), NEW n \in Nat, Len(c) > 0, Numbered(c, n)
    PROVE  Own(<<Head(c)>>) = 1 /\ <<Head(c)>>[1].seq = n + 1 /\ Numbered(Tail(c), n + 1)
  <1>1. c[1].via = "resp" /\ c[1].seq = n + 1
    BY FirstOut DEF Numbered
  <1>2. Own(<<Head(c)>>) = 1 /\ <<Head(c)>>[1].seq = n + 1
    BY <1>1, FirstOut DEF Own
  <1>3. ASSUME NEW i \in 1 .. Len(Tail(c))
        PROVE  Tail(c)[i].via = "resp" /\ Tail(c)[i].seq = n + 1 + i
    <2>1. i \in Nat /\ i + 1 \in 1 .. Len(c) /\ Tail(c)[i] = c[i + 1]
      BY FirstOut
    <2>2. c[i + 1].via = "resp" /\ c[i + 1].seq = n + (i + 1)
      BY <2>1 DEF Numbered
    <2> QED BY <2>1, <2>2
  <1> QED BY <1>2, <1>3 DEF Numbered

-----------------------------------------------------------------------------
(* One session at a time.                                                  *)

\* What the invariant says of s depends on the state of s only.
Same(s) ==
    /\ wire'[s] = wire[s] /\ inflight'[s] = inflight[s] /\ resp_ch'[s] = resp_ch[s]
    /\ resps'[s] = resps[s] /\ bridge_ch'[s] = bridge_ch[s] /\ writer'[s] = writer[s]
    /\ issued'[s] = issued[s] /\ offered'[s] = offered[s]

LEMMA SameOk ==
    ASSUME NEW s \in Sessions, SessionOk(s), Same(s)
    PROVE  SessionOk(s)'
  BY DEF SessionOk, Same, Typed, RepliesOf, Dropped, NotificationsOf

\* The handler's messages come behind all earlier ones.
LEMMA HandleOk ==
    ASSUME NEW s \in Sessions, SessionOk(s), Len(resps[s]) = 0,
           NEW bodies \in Seq(Bodies),
           resps'[s] = [i \in DOMAIN bodies |-> Message("resp", issued[s] + i, bodies[i])],
           issued'[s] = issued[s] + Len(bodies),
           wire'[s] = wire[s], inflight'[s] = inflight[s], resp_ch'[s] = resp_ch[s],
           bridge_ch'[s] = bridge_ch[s], writer'[s] = writer[s], offered'[s] = offered[s]
    PROVE  SessionOk(s)'
  <1>1. Len(bodies) \in Nat /\ DOMAIN bodies = 1 .. Len(bodies) /\ issued[s] \in Nat
    BY LenProperties DEF SessionOk, Typed
  <1>2. \A i \in 1 .. Len(bodies) :
           /\ resps'[s][i] = Message("resp", issued[s] + i, bodies[i])
           /\ resps'[s][i] \in Messages /\ resps'[s][i].via = "resp"
           /\ resps'[s][i].seq = issued[s] + i
    BY <1>1 DEF Message, Messages
  <1>3. resps'[s] \in Seq(Messages) /\ Len(resps'[s]) = Len(bodies)
    BY <1>1, <1>2
  <1>4. Typed(s)'
    BY <1>1, <1>3 DEF SessionOk, Typed
  <1>5. Dropped(s)' /\ NotificationsOf(s)'
    BY DEF SessionOk, Dropped, NotificationsOf
  <1>6. PICK n \in Nat, lost \in Nat :
           /\ InLine(wire[s], inflight[s], resp_ch[s], resps[s], n, lost)
           /\ issued[s] = n + Own(inflight[s]) + Len(resp_ch[s]) + lost + Len(resps[s])
           /\ writer[s] = "running" => lost = 0
    BY DEF SessionOk, RepliesOf
  <1>7. issued[s] = n + Own(inflight[s]) + Len(resp_ch[s]) + lost
    BY <1>6 DEF Own, SessionOk, Typed
  <1>8. InLine(wire[s], inflight[s], resp_ch[s], resps'[s], n, lost)
    BY <1>2, <1>3, <1>6, <1>7, ZenonT(30) DEF InLine, Numbered
  <1>9. RepliesOf(s)'
    BY <1>3, <1>6, <1>7, <1>8 DEF RepliesOf
  <1> QED BY <1>4, <1>5, <1>9 DEF SessionOk

\* A message is pushed into the channel (session.rs:61-65).
LEMMA PushOk ==
    ASSUME NEW s \in Sessions, SessionOk(s), Len(resps[s]) > 0, writer[s] = "running",
           resp_ch'[s] = Append(resp_ch[s], Head(resps[s])), resps'[s] = Tail(resps[s]),
           wire'[s] = wire[s], inflight'[s] = inflight[s], bridge_ch'[s] = bridge_ch[s],
           writer'[s] = writer[s], issued'[s] = issued[s], offered'[s] = offered[s]
    PROVE  SessionOk(s)'
  <1> DEFINE c == resp_ch[s]
             r == resps[s]
             base == Own(inflight[s])
  <1>1. /\ c \in Seq(Messages) /\ r \in Seq(Messages) /\ Len(c) \in Nat
        /\ Len(r) \in Nat /\ Len(r) > 0 /\ base \in Nat
        /\ Head(r) = r[1] /\ r[1] \in Messages
        /\ Tail(r) \in Seq(Messages) /\ Len(Tail(r)) = Len(r) - 1
    BY FirstOut DEF SessionOk, Typed, Own
  <1>2. /\ resp_ch'[s] \in Seq(Messages) /\ Len(resp_ch'[s]) = Len(c) + 1
        /\ \A i \in 1 .. Len(c) : resp_ch'[s][i] = c[i]
        /\ resp_ch'[s][Len(c) + 1] = r[1]
    BY <1>1, AppendProperties
  <1>3. PICK n \in Nat, lost \in Nat :
           /\ InLine(wire[s], inflight[s], c, r, n, lost)
           /\ issued[s] = n + base + Len(c) + lost + Len(r)
           /\ lost = 0
    BY DEF SessionOk, RepliesOf
  <1>4. /\ r[1].via = "resp" /\ r[1].seq = n + base + Len(c) + 1
        /\ Numbered(Tail(r), n + base + Len(c) + 1)
    <2>1. Numbered(r, n + base + Len(c)) /\ n + base + Len(c) \in Nat
      BY <1>1, <1>3 DEF InLine
    <2>2. /\ Own(<<Head(r)>>) = 1 /\ <<Head(r)>>[1].seq = n + base + Len(c) + 1
          /\ Numbered(Tail(r), n + base + Len(c) + 1)
      BY <1>1, <2>1, ReplyTaken
    <2>3. r[1].via = "resp"
      BY <1>1, <2>1 DEF Numbered
    <2> QED BY <1>1, <2>2, <2>3
  <1>5. Numbered(resp_ch'[s], n + base)
    <2>1. ASSUME NEW i \in 1 .. Len(c) + 1
          PROVE  resp_ch'[s][i].via = "resp" /\ resp_ch'[s][i].seq = n + base + i
      <3>1. CASE i = Len(c) + 1
        <4>1. resp_ch'[s][i] = r[1]
          BY <1>2, <3>1
        <4>2. n + base + Len(c) + 1 = n + base + i
          BY <1>1, <3>1
        <4> QED BY <1>4, <4>1, <4>2
      <3>2. CASE i \in 1 .. Len(c)
        BY <1>2, <1>3, <3>2 DEF InLine, Numbered
      <3> QED BY <1>1, <3>1, <3>2
    <2> QED BY <1>2, <2>1 DEF Numbered
  <1>6. Numbered(resps'[s], n + base + Len(resp_ch'[s]) + lost)
    <2>1. n + base + Len(resp_ch'[s]) + lost = n + base + Len(c) + 1
      BY <1>1, <1>2, <1>3
    <2> QED BY <1>4, <2>1
  <1>7. InLine(wire'[s], inflight'[s], resp_ch'[s], resps'[s], n, lost)
    BY <1>3, <1>5, <1>6 DEF InLine
  <1>8. issued'[s] = n + Own(inflight'[s]) + Len(resp_ch'[s]) + lost + Len(resps'[s])
    BY <1>1, <1>2, <1>3
  <1>9. RepliesOf(s)'
    BY <1>3, <1>7, <1>8 DEF RepliesOf
  <1>10. Typed(s)' /\ Dropped(s)' /\ NotificationsOf(s)'
    BY <1>1, <1>2 DEF SessionOk, Typed, Dropped, NotificationsOf
  <1> QED BY <1>9, <1>10 DEF SessionOk

\* resp_rx.recv(): the writer task, which sends nothing, takes the next reply.
LEMMA RecvRespOk ==
    ASSUME NEW s \in Sessions, SessionOk(s), Len(inflight[s]) = 0, Len(resp_ch[s]) > 0,
           writer[s] = "running",
           inflight'[s] = <<Head(resp_ch[s])>>, resp_ch'[s] = Tail(resp_ch[s]),
           wire'[s] = wire[s], resps'[s] = resps[s], bridge_ch'[s] = bridge_ch[s],
           writer'[s] = writer[s], issued'[s] = issued[s], offered'[s] = offered[s]
    PROVE  SessionOk(s)'
  <1> DEFINE c == resp_ch[s]
  <1>1. /\ c \in Seq(Messages) /\ Len(c) \in Nat /\ Len(resps[s]) \in Nat /\ Own(inflight[s]) = 0
        /\ inflight'[s] \in Seq(Messages) /\ Len(inflight'[s]) = 1 /\ inflight'[s][1] = c[1]
        /\ resp_ch'[s] \in Seq(Messages) /\ Len(resp_ch'[s]) = Len(c) - 1
    BY FirstOut DEF SessionOk, Typed, Own
  <1>2. PICK n \in Nat, lost \in Nat :
           /\ InLine(wire[s], inflight[s], c, resps[s], n, lost)
           /\ issued[s] = n + Own(inflight[s]) + Len(c) + lost + Len(resps[s])
           /\ lost = 0
    BY DEF SessionOk, RepliesOf
  <1>3. /\ Received(wire[s], n) /\ Numbered(c, n) /\ Numbered(resps[s], n + Len(c))
        /\ issued[s] = n + Len(c) + Len(resps[s])
    <2>1. n + Own(inflight[s]) = n /\ n + Own(inflight[s]) + Len(c) + lost = n + Len(c)
      BY <1>1, <1>2
    <2> QED BY <1>1, <1>2, <2>1 DEF InLine
  <1>4. /\ Own(inflight'[s]) = 1 /\ inflight'[s][1].seq = n + 1
        /\ Numbered(resp_ch'[s], n + 1) /\ inflight'[s][1].via = "resp"
    BY <1>1, <1>3, ReplyTaken DEF Numbered
  <1>5. /\ n + Own(inflight'[s]) = n + 1
        /\ n + Own(inflight'[s]) + Len(resp_ch'[s]) + lost = n + Len(c)
        /\ n + Own(inflight'[s]) + Len(resp_ch'[s]) + lost + Len(resps[s]) = issued[s]
    <2> DEFINE o == Own(inflight'[s])
               d == Len(resp_ch'[s])
               l == Len(c)
               e == Len(resps[s])
    <2>1. /\ o = 1 /\ d = l - 1 /\ lost = 0 /\ l \in Nat /\ e \in Nat
          /\ issued[s] = n + l + e
      BY <1>1, <1>2, <1>3, <1>4
    <2> HIDE DEF o, d, l, e
    <2>2. n + o = n + 1 /\ n + o + d + lost = n + l /\ n + o + d + lost + e = issued[s]
      BY <2>1
    <2> QED BY <2>2 DEF o, d, l, e
  <1>6. RepliesOf(s)'
    <2>1. InLine(wire'[s], inflight'[s], resp_ch'[s], resps'[s], n, lost)
      BY <1>3, <1>4, <1>5 DEF InLine
    <2> QED BY <1>2, <1>5, <2>1 DEF RepliesOf
  <1>7. NotificationsOf(s)'
    BY <1>1, <1>4 DEF SessionOk, NotificationsOf, Rising, Before
  <1>8. Typed(s)' /\ Dropped(s)'
    BY <1>1 DEF SessionOk, Typed, Dropped
  <1> QED BY <1>6, <1>7, <1>8 DEF SessionOk

\* bridge_rx.recv(): or it takes the oldest notification.
LEMMA RecvBridgeOk ==
    ASSUME NEW s \in Sessions, SessionOk(s), Len(inflight[s]) = 0, Len(bridge_ch[s]) > 0,
           writer[s] = "running",
           inflight'[s] = <<Head(bridge_ch[s])>>, bridge_ch'[s] = Tail(bridge_ch[s]),
           wire'[s] = wire[s], resps'[s] = resps[s], resp_ch'[s] = resp_ch[s],
           writer'[s] = writer[s], issued'[s] = issued[s], offered'[s] = offered[s]
    PROVE  SessionOk(s)'
  <1> DEFINE b == bridge_ch[s]
  <1>1. /\ b \in Seq(Messages) /\ Len(b) \in Nat /\ Own(inflight[s]) = 0
        /\ inflight'[s] \in Seq(Messages) /\ Len(inflight'[s]) = 1 /\ inflight'[s][1] = b[1]
        /\ bridge_ch'[s] \in Seq(Messages)
        /\ \A i \in 1 .. Len(bridge_ch'[s]) :
              i + 1 \in 1 .. Len(b) /\ bridge_ch'[s][i] = b[i + 1]
    BY FirstOut DEF SessionOk, Typed, Own
  <1>2. /\ \A i \in 1 .. Len(b) : b[i].via = "bridge"
        /\ 1 \in 1 .. Len(b)
    BY <1>1 DEF SessionOk, Typed
  <1>3. Own(inflight'[s]) = 0
    BY <1>1, <1>2 DEF Own
  <1>4. RepliesOf(s)'
    <2>1. PICK n \in Nat, lost \in Nat :
             /\ InLine(wire[s], inflight[s], resp_ch[s], resps[s], n, lost)
             /\ issued[s] = n + Own(inflight[s]) + Len(resp_ch[s]) + lost + Len(resps[s])
             /\ writer[s] = "running" => lost = 0
      BY DEF SessionOk, RepliesOf
    <2>2. Own(inflight'[s]) = Own(inflight[s]) /\ Own(inflight'[s]) # 1
      BY <1>1, <1>3
    <2>3. InLine(wire'[s], inflight'[s], resp_ch'[s], resps'[s], n, lost)
      BY <2>1, <2>2 DEF InLine
    <2> QED BY <2>1, <2>2, <2>3 DEF RepliesOf
  <1>5. NotificationsOf(s)'
    <2>1. /\ Rising(b, offered[s]) /\ Rising(wire[s], offered[s]) /\ Before(wire[s], b)
      BY DEF SessionOk, NotificationsOf
    <2>2. Rising(inflight'[s], offered[s]) /\ Before(wire[s], inflight'[s])
      BY <1>1, <1>2, <2>1 DEF Rising, Before
    <2>3. Before(wire[s], bridge_ch'[s])
      BY <1>1, <2>1 DEF Before
    <2>4. Rising(bridge_ch'[s], offered[s])
      <3>1. \A i \in 1 .. Len(bridge_ch'[s]) :
               bridge_ch'[s][i].via = "bridge" => bridge_ch'[s][i].seq <= offered[s]
        BY <1>1, <2>1 DEF Rising
      <3>2. ASSUME NEW i \in 1 .. Len(bridge_ch'[s]), NEW j \in 1 .. Len(bridge_ch'[s]),
                   bridge_ch'[s][i].via = "bridge", bridge_ch'[s][j].via = "bridge", i < j
            PROVE  bridge_ch'[s][i].seq < bridge_ch'[s][j].seq
        <4>1. i + 1 \in 1 .. Len(b) /\ j + 1 \in 1 .. Len(b) /\ i + 1 < j + 1
          BY <1>1, <3>2
        <4> QED BY <1>1, <2>1, <3>2, <4>1 DEF Rising
      <3> QED BY <3>1, <3>2 DEF Rising
    <2>5. Before(inflight'[s], bridge_ch'[s])
      <3>1. ASSUME NEW j \in 1 .. Len(bridge_ch'[s])
            PROVE  b[1].seq < bridge_ch'[s][j].seq
        <4>1. j + 1 \in 1 .. Len(b) /\ 1 < j + 1 /\ bridge_ch'[s][j] = b[j + 1]
          BY <1>1
        <4> QED BY <1>2, <2>1, <4>1 DEF Rising
      <3> QED BY <1>1, <3>1 DEF Before
    <2> QED BY <2>1, <2>2, <2>3, <2>4, <2>5 DEF NotificationsOf
  <1>6. Typed(s)' /\ Dropped(s)'
    BY <1>1, <1>2 DEF SessionOk, Typed, Dropped
  <1> QED BY <1>4, <1>5, <1>6 DEF SessionOk

\* ws_sink.send succeeds.
LEMMA SendOkOk ==
    ASSUME NEW s \in Sessions, SessionOk(s), Len(inflight[s]) = 1,
           wire'[s] = wire[s] \o inflight[s], inflight'[s] = <<>>,
           resp_ch'[s] = resp_ch[s], resps'[s] = resps[s], bridge_ch'[s] = bridge_ch[s],
           writer'[s] = writer[s], issued'[s] = issued[s], offered'[s] = offered[s]
    PROVE  SessionOk(s)'
  <1>1. /\ wire[s] \in Seq(Messages) /\ inflight[s] \in Seq(Messages)
        /\ bridge_ch[s] \in Seq(Messages) /\ offered[s] \in Nat
        /\ Len(resp_ch[s]) \in Nat /\ Len(resps[s]) \in Nat /\ Own(inflight[s]) \in Nat
        /\ wire'[s] \in Seq(Messages)
    BY ConcatProperties DEF SessionOk, Typed, Own
  <1>2. /\ inflight'[s] \in Seq(Messages) /\ Len(inflight'[s]) = 0 /\ Own(inflight'[s]) = 0
    BY DEF Own
  <1>3. PICK n \in Nat, lost \in Nat :
           /\ InLine(wire[s], inflight[s], resp_ch[s], resps[s], n, lost)
           /\ issued[s] = n + Own(inflight[s]) + Len(resp_ch[s]) + lost + Len(resps[s])
           /\ writer[s] = "running" => lost = 0
    BY DEF SessionOk, RepliesOf
  <1> DEFINE m == n + Own(inflight[s])
  <1>4. Received(wire'[s], m) /\ m \in Nat /\ m + Own(inflight'[s]) = m
    BY <1>1, <1>2, <1>3, ReplySent, SMTT(30) DEF InLine
  <1>5. InLine(wire'[s], inflight'[s], resp_ch'[s], resps'[s], m, lost)
    BY <1>2, <1>3, <1>4 DEF InLine
  <1>6. RepliesOf(s)'
    BY <1>3, <1>4, <1>5 DEF RepliesOf
  <1>7. NotificationsOf(s)'
    <2>1. Rising(wire'[s], offered[s]) /\ Before(wire'[s], bridge_ch[s])
      BY <1>1, NotificationSent DEF SessionOk, NotificationsOf
    <2>2. Rising(inflight'[s], offered[s]) /\ Before(wire'[s], inflight'[s])
          /\ Before(inflight'[s], bridge_ch[s])
      BY <1>2 DEF Rising, Before
    <2> QED BY <2>1, <2>2 DEF SessionOk, NotificationsOf
  <1>8. Typed(s)' /\ Dropped(s)'
    BY <1>1, <1>2 DEF SessionOk, Typed, Dropped
  <1> QED BY <1>6, <1>7, <1>8 DEF SessionOk

\* ws_sink.send fails: what was being sent and what waited is lost.
LEMMA SendFailsOk ==
    ASSUME NEW s \in Sessions, SessionOk(s), Len(inflight[s]) = 1, writer'[s] = "done",
           inflight'[s] = <<>>, resp_ch'[s] = <<>>, bridge_ch'[s] = <<>>,
           wire'[s] = wire[s], resps'[s] = resps[s],
           issued'[s] = issued[s], offered'[s] = offered[s]
    PROVE  SessionOk(s)'
  <1>1. /\ Len(resp_ch[s]) \in Nat /\ Len(resps[s]) \in Nat /\ Own(inflight[s]) \in Nat
        /\ Len(inflight'[s]) = 0 /\ Own(inflight'[s]) = 0 /\ Len(resp_ch'[s]) = 0
        /\ Len(bridge_ch'[s]) = 0
    BY DEF SessionOk, Typed, Own
  <1>2. PICK n \in Nat, lost \in Nat :
           /\ InLine(wire[s], inflight[s], resp_ch[s], resps[s], n, lost)
           /\ issued[s] = n + Own(inflight[s]) + Len(resp_ch[s]) + lost + Len(resps[s])
    BY DEF SessionOk, RepliesOf
  <1> DEFINE gone == Own(inflight[s]) + Len(resp_ch[s]) + lost
  <1>3. /\ gone \in Nat
        /\ n + Own(inflight'[s]) + Len(resp_ch'[s]) + gone
              = n + Own(inflight[s]) + Len(resp_ch[s]) + lost
    BY <1>1, <1>2
  <1>4. InLine(wire'[s], inflight'[s], resp_ch'[s], resps'[s], n, gone)
    <2>1. Numbered(resps'[s], n + Own(inflight'[s]) + Len(resp_ch'[s]) + gone)
      BY <1>2, <1>3 DEF InLine
    <2>2. Numbered(resp_ch'[s], n + Own(inflight'[s]))
      BY <1>1 DEF Numbered
    <2> QED BY <1>1, <1>2, <2>1, <2>2 DEF InLine
  <1>5. RepliesOf(s)'
    <2>1. issued'[s] = n + Own(inflight'[s]) + Len(resp_ch'[s]) + gone + Len(resps'[s])
      BY <1>1, <1>2, <1>3
    <2> HIDE DEF gone
    <2> QED BY <1>3, <1>4, <2>1 DEF RepliesOf
  <1>6. NotificationsOf(s)'
    BY <1>1 DEF SessionOk, NotificationsOf, Rising, Before
  <1>7. Typed(s)' /\ Dropped(s)'
    BY <1>1 DEF SessionOk, Typed, Dropped
  <1> QED BY <1>5, <1>6, <1>7 DEF SessionOk

\* resp_tx.send fails, since the writer task is gone.
LEMMA PushFailsOk ==
    ASSUME NEW s \in Sessions, SessionOk(s), writer[s] = "done", resps'[s] = <<>>,
           wire'[s] = wire[s], inflight'[s] = inflight[s], resp_ch'[s] = resp_ch[s],
           bridge_ch'[s] = bridge_ch[s], writer'[s] = writer[s],
           issued'[s] = issued[s], offered'[s] = offered[s]
    PROVE  SessionOk(s)'
  <1>1. /\ Len(resp_ch[s]) \in Nat /\ Len(resps[s]) \in Nat /\ Own(inflight[s]) \in Nat
        /\ Len(resps'[s]) = 0 /\ resps'[s] \in Seq(Messages)
    BY DEF SessionOk, Typed, Own
  <1>2. PICK n \in Nat, lost \in Nat :
           /\ InLine(wire[s], inflight[s], resp_ch[s], resps[s], n, lost)
           /\ issued[s] = n + Own(inflight[s]) + Len(resp_ch[s]) + lost + Len(resps[s])
    BY DEF SessionOk, RepliesOf
  <1> DEFINE gone == lost + Len(resps[s])
  <1>3. /\ gone \in Nat
        /\ issued[s] = n + Own(inflight'[s]) + Len(resp_ch'[s]) + gone + Len(resps'[s])
    <2> DEFINE o == Own(inflight[s])
               x == Len(resp_ch[s])
               y == Len(resps[s])
    <2>1. o \in Nat /\ x \in Nat /\ y \in Nat /\ issued[s] = n + o + x + lost + y
      BY <1>1, <1>2
    <2> HIDE DEF o, x, y
    <2>2. lost + y \in Nat /\ issued[s] = n + o + x + (lost + y) + 0
      BY <2>1
    <2> QED BY <1>1, <2>2 DEF o, x, y
  <1>4. InLine(wire'[s], inflight'[s], resp_ch'[s], resps'[s], n, gone)
    BY <1>1, <1>2 DEF InLine, Numbered
  <1>5. RepliesOf(s)'
    <2> HIDE DEF gone
    <2> QED BY <1>3, <1>4 DEF RepliesOf
  <1>6. Typed(s)' /\ Dropped(s)' /\ NotificationsOf(s)'
    BY <1>1 DEF SessionOk, Typed, Dropped, NotificationsOf
  <1> QED BY <1>5, <1>6 DEF SessionOk

\* The elements of two sequences joined.
LEMMA Joined ==
    ASSUME NEW q \in Seq(Messages), NEW p \in Seq(Messages)
    PROVE  /\ q \o p \in Seq(Messages)
           /\ Len(q) \in Nat /\ Len(p) \in Nat /\ Len(q \o p) = Len(q) + Len(p)
           /\ \A i \in 1 .. Len(q) : (q \o p)[i] = q[i]
           /\ \A i \in 1 .. Len(p) : (q \o p)[Len(q) + i] = p[i]
           /\ \A i \in 1 .. Len(q \o p) :
                 i \in 1 .. Len(q) \/ \E j \in 1 .. Len(p) : i = Len(q) + j
  <1> DEFINE m == Len(q)
             n == Len(p)
             v == q \o p
  <1>1. m \in Nat /\ n \in Nat /\ v \in Seq(Messages) /\ Len(v) = m + n
    BY ConcatProperties
  <1>2. \A i \in 1 .. m + n : v[i] = IF i <= m THEN q[i] ELSE p[i - m]
    BY ConcatProperties
  <1> HIDE DEF m, n, v
  <1>3. \A i \in 1 .. m : v[i] = q[i]
    BY <1>1, <1>2
  <1>4. ASSUME NEW i \in 1 .. n PROVE v[m + i] = p[i]
    <2>1. m + i \in 1 .. m + n /\ ~(m + i <= m) /\ (m + i) - m = i
      BY <1>1
    <2> QED BY <1>2, <2>1
  <1>5. ASSUME NEW i \in 1 .. m + n PROVE i \in 1 .. m \/ \E j \in 1 .. n : i = m + j
    <2>1. CASE i <= m
      BY <1>1, <2>1
    <2>2. CASE ~(i <= m)
      <3>1. i - m \in 1 .. n /\ i = m + (i - m)
        BY <1>1, <2>2
      <3> QED BY <3>1
    <2> QED BY <2>1, <2>2
  <1> QED BY <1>1, <1>3, <1>4, <1>5 DEF m, n, v

\* Two stretches of notifications in order, the first before the second.
LEMMA RisingJoined ==
    ASSUME NEW q \in Seq(Messages), NEW p \in Seq(Messages), NEW n \in Nat,
           Rising(q, n), Rising(p, n), Before(q, p)
    PROVE  Rising(q \o p, n)
  <1> DEFINE v == q \o p
             m == Len(q)
             l == Len(p)
  <1>1. /\ m \in Nat /\ l \in Nat
        /\ \A i \in 1 .. m : v[i] = q[i]
        /\ \A i \in 1 .. l : v[m + i] = p[i]
        /\ \A i \in 1 .. Len(v) : i \in 1 .. m \/ \E j \in 1 .. l : i = m + j
    BY Joined
  <1>2. /\ \A i \in 1 .. m : q[i].via = "bridge" => q[i].seq <= n
        /\ \A i, j \in 1 .. m :
              q[i].via = "bridge" /\ q[j].via = "bridge" /\ i < j => q[i].seq < q[j].seq
        /\ \A i \in 1 .. l : p[i].via = "bridge" => p[i].seq <= n
        /\ \A i, j \in 1 .. l :
              p[i].via = "bridge" /\ p[j].via = "bridge" /\ i < j => p[i].seq < p[j].seq
        /\ \A i \in 1 .. m : \A j \in 1 .. l :
              q[i].via = "bridge" /\ p[j].via = "bridge" => q[i].seq < p[j].seq
    BY DEF Rising, Before
  <1> HIDE DEF v, m, l
  <1>3. ASSUME NEW i \in 1 .. Len(v), v[i].via = "bridge" PROVE v[i].seq <= n
    <2>1. CASE i \in 1 .. m
      BY <1>1, <1>2, <1>3, <2>1
    <2>2. ASSUME NEW j \in 1 .. l, i = m + j PROVE v[i].seq <= n
      BY <1>1, <1>2, <1>3, <2>2
    <2> QED BY <1>1, <2>1, <2>2
  <1>4. ASSUME NEW i \in 1 .. Len(v), NEW j \in 1 .. Len(v),
               v[i].via = "bridge", v[j].via = "bridge", i < j
        PROVE  v[i].seq < v[j].seq
    <2>1. CASE i \in 1 .. m /\ j \in 1 .. m
      BY <1>1, <1>2, <1>4, <2>1
    <2>2. ASSUME i \in 1 .. m, NEW e \in 1 .. l, j = m + e PROVE v[i].seq < v[j].seq
      BY <1>1, <1>2, <1>4, <2>2, ZenonT(30)
    <2>3. ASSUME NEW d \in 1 .. l, i = m + d, NEW e \in 1 .. l, j = m + e
          PROVE  v[i].seq < v[j].seq
      <3>1. d < e
        BY <1>1, <1>4, <2>3
      <3> QED BY <1>1, <1>2, <1>4, <2>3, <3>1, ZenonT(30)
    <2>4. ASSUME NEW d \in 1 .. l, i = m + d, j \in 1 .. m PROVE FALSE
      BY <1>1, <1>4, <2>4
    <2> QED BY <1>1, <2>1, <2>2, <2>3, <2>4
  <1>5. Rising(v, n)
    BY <1>3, <1>4 DEF Rising
  <1> QED BY <1>5 DEF v

\* What comes before two stretches comes before both joined.
LEMMA BeforeJoined ==
    ASSUME NEW q \in Seq(Messages), NEW p \in Seq(Messages), NEW r \in Seq(Messages),
           Before(q, r), Before(p, r)
    PROVE  Before(q \o p, r)
  <1> DEFINE v == q \o p
             m == Len(q)
             l == Len(p)
  <1>1. /\ \A i \in 1 .. m : v[i] = q[i]
        /\ \A i \in 1 .. l : v[m + i] = p[i]
        /\ \A i \in 1 .. Len(v) : i \in 1 .. m \/ \E j \in 1 .. l : i = m + j
    BY Joined
  <1>2. /\ \A i \in 1 .. m : \A j \in 1 .. Len(r) :
              q[i].via = "bridge" /\ r[j].via = "bridge" => q[i].seq < r[j].seq
        /\ \A i \in 1 .. l : \A j \in 1 .. Len(r) :
              p[i].via = "bridge" /\ r[j].via = "bridge" => p[i].seq < r[j].seq
    BY DEF Before
  <1> HIDE DEF v, m, l
  <1>3. ASSUME NEW i \in 1 .. Len(v), NEW j \in 1 .. Len(r),
               v[i].via = "bridge", r[j].via = "bridge"
        PROVE  v[i].seq < r[j].seq
    <2>1. CASE i \in 1 .. m
      BY <1>1, <1>2, <1>3, <2>1
    <2>2. ASSUME NEW k \in 1 .. l, i = m + k PROVE v[i].seq < r[j].seq
      BY <1>1, <1>2, <1>3, <2>2
    <2> QED BY <1>1, <2>1, <2>2
  <1>4. Before(v, r)
    BY <1>3 DEF Before
  <1> QED BY <1>4 DEF v

\* A longer channel, and a larger count of offers.
LEMMA BeforeBoth ==
    ASSUME NEW q \in Seq(Messages), NEW b \in Seq(Messages), NEW a \in Seq(Messages),
           Before(q, b), Before(q, a)
    PROVE  Before(q, b \o a)
  <1> DEFINE v == b \o a
             m == Len(b)
             l == Len(a)
  <1>1. /\ \A i \in 1 .. m : v[i] = b[i]
        /\ \A i \in 1 .. l : v[m + i] = a[i]
        /\ \A i \in 1 .. Len(v) : i \in 1 .. m \/ \E j \in 1 .. l : i = m + j
    BY Joined
  <1>2. /\ \A i \in 1 .. Len(q) : \A j \in 1 .. m :
              q[i].via = "bridge" /\ b[j].via = "bridge" => q[i].seq < b[j].seq
        /\ \A i \in 1 .. Len(q) : \A j \in 1 .. l :
              q[i].via = "bridge" /\ a[j].via = "bridge" => q[i].seq < a[j].seq
    BY DEF Before
  <1> HIDE DEF v, m, l
  <1>3. ASSUME NEW i \in 1 .. Len(q), NEW j \in 1 .. Len(v),
               q[i].via = "bridge", v[j].via = "bridge"
        PROVE  q[i].seq < v[j].seq
    <2>1. CASE j \in 1 .. m
      BY <1>1, <1>2, <1>3, <2>1
    <2>2. ASSUME NEW k \in 1 .. l, j = m + k PROVE q[i].seq < v[j].seq
      BY <1>1, <1>2, <1>3, <2>2
    <2> QED BY <1>1, <2>1, <2>2
  <1>4. Before(q, v)
    BY <1>3 DEF Before
  <1> QED BY <1>4 DEF v

LEMMA RisingLater ==
    ASSUME NEW q \in Seq(Messages), NEW n \in Nat, NEW k \in Nat, Rising(q, n)
    PROVE  Rising(q, n + k)
  <1>1. ASSUME NEW i \in 1 .. Len(q), q[i].via = "bridge" PROVE q[i].seq <= n + k
    <2>1. q[i] \in Messages
      BY ElementOfSeq
    <2>2. q[i].seq \in Nat /\ q[i].seq <= n
      BY <1>1, <2>1 DEF Messages, Rising
    <2> QED BY <2>2
  <1> QED BY <1>1 DEF Rising

\* The first of k offers join the channel, the others are dropped.
LEMMA OffersTaken ==
    ASSUME NEW s \in Sessions, SessionOk(s), NEW k \in Nat,
           NEW a \in Seq(Messages), Len(a) <= k,
           \A i \in 1 .. Len(a) : a[i].via = "bridge" /\ a[i].seq = offered[s] + i,
           bridge_ch'[s] = bridge_ch[s] \o a, offered'[s] = offered[s] + k,
           wire'[s] = wire[s], inflight'[s] = inflight[s], resp_ch'[s] = resp_ch[s],
           resps'[s] = resps[s], writer'[s] = writer[s], issued'[s] = issued[s]
    PROVE  SessionOk(s)'
  <1> DEFINE b == bridge_ch[s]
             n == offered[s]
             v == b \o a
  <1>1. b \in Seq(Messages) /\ n \in Nat /\ Len(a) \in Nat
    BY DEF SessionOk, Typed
  <1>2. /\ Len(b) \in Nat /\ v \in Seq(Messages)
        /\ \A i \in 1 .. Len(b) : v[i] = b[i]
        /\ \A i \in 1 .. Len(a) : v[Len(b) + i] = a[i]
        /\ \A i \in 1 .. Len(v) : i \in 1 .. Len(b) \/ \E j \in 1 .. Len(a) : i = Len(b) + j
    BY <1>1, Joined
  <1>3. bridge_ch'[s] = v
    OBVIOUS
  <1>4. Rising(b, n) /\ Rising(wire[s], n) /\ Rising(inflight[s], n)
    BY DEF SessionOk, NotificationsOf
  <1>5. \A i \in 1 .. Len(b) : b[i].via = "bridge"
    BY DEF SessionOk, Typed
  <1> HIDE DEF b, n, v
  <1>6. Typed(s)'
    <2>1. ASSUME NEW i \in 1 .. Len(v) PROVE v[i].via = "bridge"
      <3>1. CASE i \in 1 .. Len(b)
        BY <1>2, <1>5, <3>1
      <3>2. ASSUME NEW j \in 1 .. Len(a), i = Len(b) + j PROVE v[i].via = "bridge"
        BY <1>2, <3>2
      <3> QED BY <1>2, <3>1, <3>2
    <2>2. offered'[s] \in Nat
      BY <1>1 DEF n
    <2> QED BY <1>2, <1>3, <2>1, <2>2 DEF SessionOk, Typed
  <1>7. Dropped(s)' /\ RepliesOf(s)'
    BY DEF SessionOk, Dropped, RepliesOf
  <1>8. Rising(a, n + k)
    <2>1. \A i \in 1 .. Len(a) : a[i].seq = n + i
      BY DEF n
    <2>2. ASSUME NEW i \in 1 .. Len(a) PROVE a[i].seq <= n + k
      BY <1>1, <2>1
    <2>3. ASSUME NEW i \in 1 .. Len(a), NEW j \in 1 .. Len(a), i < j PROVE a[i].seq < a[j].seq
      BY <1>1, <2>1, <2>3
    <2> QED BY <2>2, <2>3 DEF Rising
  <1>9. ASSUME NEW q \in Seq(Messages), Rising(q, n) PROVE Rising(q, n + k) /\ Before(q, a)
    <2>1. ASSUME NEW i \in 1 .. Len(q), q[i].via = "bridge", NEW j \in 1 .. Len(a)
          PROVE  q[i].seq < a[j].seq
      <3>1. q[i] \in Messages
        BY ElementOfSeq
      <3>2. q[i].seq \in Nat /\ q[i].seq <= n
        BY <1>9, <2>1, <3>1 DEF Messages, Rising
      <3>3. a[j].seq = n + j
        BY DEF n
      <3> QED BY <1>1, <3>2, <3>3
    <2> QED BY <1>1, <1>9, <2>1, RisingLater DEF Before
  <1>10. Rising(v, n + k)
    <2>1. Rising(b, n + k) /\ Before(b, a) /\ n + k \in Nat
      BY <1>1, <1>4, <1>9
    <2> QED BY <1>1, <1>8, <2>1, RisingJoined DEF v
  <1>11. ASSUME NEW q \in Seq(Messages), Rising(q, n), Before(q, b)
         PROVE  Rising(q, n + k) /\ Before(q, v)
    BY <1>1, <1>9, <1>11, BeforeBoth DEF v
  <1>12. /\ wire[s] \in Seq(Messages) /\ inflight[s] \in Seq(Messages)
         /\ Before(wire[s], b) /\ Before(inflight[s], b) /\ Before(wire[s], inflight[s])
    BY DEF SessionOk, Typed, NotificationsOf, b
  <1>13. NotificationsOf(s)'
    <2>1. offered'[s] = n + k
      BY DEF n
    <2>2. Rising(wire[s], n + k) /\ Before(wire[s], v)
      BY <1>4, <1>11, <1>12
    <2>3. Rising(inflight[s], n + k) /\ Before(inflight[s], v)
      BY <1>4, <1>11, <1>12
    <2> QED BY <1>3, <1>10, <1>12, <2>1, <2>2, <2>3 DEF NotificationsOf
  <1> QED BY <1>6, <1>7, <1>13 DEF SessionOk

\* try_send, seen from one session.
LEMMA OffersOk ==
    ASSUME NEW s \in Sessions, SessionOk(s), NEW body \in Bodies,
           NEW times, times[s] \in Nat, try_send(times, body),
           wire'[s] = wire[s], inflight'[s] = inflight[s], resp_ch'[s] = resp_ch[s],
           resps'[s] = resps[s], writer'[s] = writer[s], issued'[s] = issued[s]
    PROVE  SessionOk(s)'
  <1> DEFINE m == Taken(s, times[s])
             n == offered[s]
             a == [i \in 1 .. m |-> Message("bridge", n + i, body)]
  <1>1. n \in Nat /\ Len(bridge_ch[s]) \in Nat
    BY DEF SessionOk, Typed
  <1>2. m \in Int /\ m <= times[s]
    BY <1>1, SessionConstants DEF Taken
  <1>3. bridge_ch'[s] = bridge_ch[s] \o a /\ offered'[s] = n + times[s]
    BY DEF try_send
  <1> HIDE DEF m, n
  <1>4. PICK l \in Nat : 1 .. m = 1 .. l /\ l <= times[s]
    <2>1. CASE m >= 0
      BY <1>2, <2>1
    <2>2. CASE m < 0
      <3>1. 1 .. m = 1 .. 0 /\ 0 \in Nat /\ 0 <= times[s]
        BY <1>2, <2>2
      <3> HIDE DEF a
      <3> QED BY <3>1, Zenon
    <2> QED BY <1>2, <2>1, <2>2
  <1>5. /\ a \in [1 .. l -> Messages]
        /\ \A i \in 1 .. l : a[i].via = "bridge" /\ a[i].seq = n + i
    <2>1. a = [i \in 1 .. l |-> [via |-> "bridge", seq |-> n + i, body |-> body]]
      BY <1>4 DEF Message
    <2> HIDE DEF a
    <2> QED BY <1>1, <2>1 DEF Messages
  <1> HIDE DEF a
  <1>6. a \in Seq(Messages) /\ Len(a) = l
    <2>1. a \in Seq(Messages)
      BY <1>5, SeqDef
    <2>2. DOMAIN a = 1 .. l /\ DOMAIN a = 1 .. Len(a) /\ Len(a) \in Nat
      BY <1>5, <2>1, LenProperties
    <2> QED BY <2>1, <2>2
  <1> QED BY <1>3, <1>4, <1>5, <1>6, OffersTaken DEF n

\* A session that is offered nothing.
LEMMA NotOffered ==
    ASSUME NEW s \in Sessions, SessionOk(s), NEW body, NEW times, times[s] = 0,
           try_send(times, body)
    PROVE  bridge_ch'[s] = bridge_ch[s] /\ offered'[s] = offered[s]
  <1> DEFINE m == Taken(s, times[s])
             a == [i \in 1 .. m |-> Message("bridge", offered[s] + i, body)]
  <1>1. offered[s] \in Nat /\ bridge_ch[s] \in Seq(Messages) /\ Len(bridge_ch[s]) \in Nat
    BY DEF SessionOk, Typed
  <1>2. m \in Int /\ m <= 0
    BY <1>1, SessionConstants DEF Taken
  <1>3. bridge_ch'[s] = bridge_ch[s] \o a /\ offered'[s] = offered[s] + 0
    BY DEF try_send
  <1> HIDE DEF m
  <1>4. 1 .. m = {} /\ a = <<>>
    BY <1>2
  <1> HIDE DEF a
  <1> QED BY <1>1, <1>3, <1>4, ConcatEmptySeq

-----------------------------------------------------------------------------
(* The specification.                                                      *)

LEMMA DeliveryInit == Init => Delivery
  <1> SUFFICES ASSUME Init PROVE Delivery
    OBVIOUS
  <1>1. Domains
    BY DEF Init, Domains
  <1>2. ASSUME NEW s \in Sessions PROVE SessionOk(s)
    <2>1. /\ wire[s] = <<>> /\ inflight[s] = <<>> /\ resp_ch[s] = <<>> /\ resps[s] = <<>>
          /\ bridge_ch[s] = <<>> /\ writer[s] = "running" /\ issued[s] = 0 /\ offered[s] = 0
      BY DEF Init
    <2>2. <<>> \in Seq(Messages) /\ Len(<<>>) = 0
      BY EmptySeq
    <2>3. Typed(s) /\ Dropped(s)
      BY <2>1, <2>2 DEF Typed, Dropped
    <2>4. NotificationsOf(s)
      BY <2>1, <2>2 DEF NotificationsOf, Rising, Before
    <2>5. RepliesOf(s)
      <3>1. Own(<<>>) = 0 /\ Received(<<>>, 0) /\ Numbered(<<>>, 0) /\ 0 \in Nat
        BY <2>2 DEF Own, Received, Numbered
      <3>2. 0 + Own(<<>>) = 0 /\ 0 + Own(<<>>) + Len(<<>>) + 0 = 0
            /\ 0 + Own(<<>>) + Len(<<>>) + 0 + Len(<<>>) = 0
        BY <2>2, <3>1
      <3>3. InLine(<<>>, <<>>, <<>>, <<>>, 0, 0)
        BY <3>1, <3>2 DEF InLine
      <3> QED BY <2>1, <3>1, <3>2, <3>3 DEF RepliesOf
    <2> QED BY <2>3, <2>4, <2>5 DEF SessionOk
  <1> QED BY <1>1, <1>2 DEF Delivery

\* An empty channel has no messages, and another one some.
LEMMA Occupied ==
    ASSUME NEW q \in Seq(Messages)
    PROVE  /\ q # <<>> => Len(q) > 0
           /\ q = <<>> => Len(q) = 0
  BY EmptySeq

\* Steps of one session's tasks.
LEMMA StepKeeps ==
    ASSUME Delivery, NEW s \in Sessions, Step(s)
    PROVE  Delivery'
  <1> USE DEF chans
  <1>1. /\ Domains /\ SessionOk(s)
        /\ wire[s] \in Seq(Messages) /\ inflight[s] \in Seq(Messages)
        /\ resp_ch[s] \in Seq(Messages) /\ resps[s] \in Seq(Messages)
        /\ bridge_ch[s] \in Seq(Messages) /\ Len(inflight[s]) \in {0, 1}
    BY DEF Delivery, SessionOk, Typed
  <1>2. Domains'
    BY <1>1 DEF Step, Open, PushReply, PushFails, EndReading, Unregister, RecvBridge, RecvResp,
                SendOk, SendFails, PeerLeaves, Domains
  <1>3. ASSUME NEW t \in Sessions, t # s PROVE SessionOk(t)'
    <2>1. Same(t)
      BY <1>1, <1>3 DEF Step, Open, PushReply, PushFails, EndReading, Unregister, RecvBridge,
                        RecvResp, SendOk, SendFails, PeerLeaves, Domains, Same
    <2> QED BY <2>1, SameOk DEF Delivery
  <1>4. CASE Open(s) \/ EndReading(s) \/ Unregister(s) \/ PeerLeaves(s)
    <2>1. Same(s)
      BY <1>4 DEF Open, EndReading, Unregister, PeerLeaves, Same
    <2> QED BY <1>1, <1>2, <1>3, <2>1, SameOk DEF Delivery
  <1>5. CASE PushReply(s)
    <2>1. Len(resps[s]) > 0
      BY <1>1, <1>5, Occupied DEF PushReply
    <2>2. SessionOk(s)'
      BY <1>1, <1>5, <2>1, PushOk DEF PushReply, Domains
    <2> QED BY <1>2, <1>3, <2>2 DEF Delivery
  <1>6. CASE PushFails(s)
    <2>1. SessionOk(s)'
      BY <1>1, <1>6, PushFailsOk DEF PushFails, Domains
    <2> QED BY <1>2, <1>3, <2>1 DEF Delivery
  <1>7. CASE RecvBridge(s)
    <2>1. Len(inflight[s]) = 0 /\ Len(bridge_ch[s]) > 0 /\ writer[s] = "running"
      BY <1>1, <1>7, Occupied DEF RecvBridge, Idle
    <2>2. SessionOk(s)'
      BY <1>1, <1>7, <2>1, RecvBridgeOk DEF RecvBridge, Domains
    <2> QED BY <1>2, <1>3, <2>2 DEF Delivery
  <1>8. CASE RecvResp(s)
    <2>1. Len(inflight[s]) = 0 /\ Len(resp_ch[s]) > 0 /\ writer[s] = "running"
      BY <1>1, <1>8, Occupied DEF RecvResp, Idle
    <2>2. SessionOk(s)'
      BY <1>1, <1>8, <2>1, RecvRespOk DEF RecvResp, Domains
    <2> QED BY <1>2, <1>3, <2>2 DEF Delivery
  <1>9. CASE SendOk(s)
    <2>1. Len(inflight[s]) = 1
      BY <1>1, <1>9, Occupied DEF SendOk
    <2>2. SessionOk(s)'
      BY <1>1, <1>9, <2>1, SendOkOk DEF SendOk, Domains
    <2> QED BY <1>2, <1>3, <2>2 DEF Delivery
  <1>10. CASE SendFails(s)
    <2>1. Len(inflight[s]) = 1
      BY <1>1, <1>10, Occupied DEF SendFails
    <2>2. SessionOk(s)'
      BY <1>1, <1>10, <2>1, SendFailsOk DEF SendFails, Domains
    <2> QED BY <1>2, <1>3, <2>2 DEF Delivery
  <1> QED BY <1>4, <1>5, <1>6, <1>7, <1>8, <1>9, <1>10 DEF Step

\* A frame is answered by the messages its handler returns, ...
LEMMA AnswerOk ==
    ASSUME Delivery, NEW s \in Sessions, NEW bodies \in Seq(Bodies), Reply(s, bodies),
           UNCHANGED <<resp_ch, inflight, writer, wire>>,
           bridge_ch'[s] = bridge_ch[s], offered'[s] = offered[s]
    PROVE  /\ SessionOk(s)'
           /\ DOMAIN resps' = Sessions /\ DOMAIN issued' = Sessions
           /\ \A u \in Sessions \ {s} : resps'[u] = resps[u] /\ issued'[u] = issued[u]
  <1>1. /\ Domains /\ SessionOk(s) /\ resps[s] \in Seq(Messages) /\ resps[s] = <<>>
        /\ resps' = [resps EXCEPT ![s] =
                       [i \in DOMAIN bodies |-> Message("resp", issued[s] + i, bodies[i])]]
        /\ issued' = [issued EXCEPT ![s] = issued[s] + Len(bodies)]
    BY DEF Delivery, SessionOk, Typed, Reply, Reading, Domains
  <1>2. Len(resps[s]) = 0
    BY <1>1, Occupied
  <1>3. SessionOk(s)'
    BY <1>1, <1>2, HandleOk DEF Domains
  <1> QED BY <1>1, <1>3 DEF Domains

LEMMA AnswerKeeps ==
    ASSUME Delivery, NEW s \in Sessions, NEW bodies \in Seq(Bodies), Reply(s, bodies),
           UNCHANGED <<resp_ch, bridge_ch, inflight, writer, wire, offered>>
    PROVE  Delivery'
  <1>1. /\ SessionOk(s)'
        /\ DOMAIN resps' = Sessions /\ DOMAIN issued' = Sessions
        /\ \A u \in Sessions \ {s} : resps'[u] = resps[u] /\ issued'[u] = issued[u]
    BY AnswerOk
  <1>2. ASSUME NEW u \in Sessions \ {s} PROVE SessionOk(u)'
    <2>1. Same(u)
      BY <1>1 DEF Same
    <2> QED BY <2>1, SameOk DEF Delivery
  <1> QED BY <1>1, <1>2 DEF Delivery, Domains

\* ... and other sessions may be offered something in the same step.
LEMMA AnswerAndOffersKeep ==
    ASSUME Delivery, NEW s \in Sessions, NEW bodies \in Seq(Bodies), Reply(s, bodies),
           NEW body \in Bodies, NEW times, \A u \in Sessions : times[u] \in Nat, times[s] = 0,
           try_send(times, body), UNCHANGED <<resp_ch, inflight, writer, wire>>
    PROVE  Delivery'
  <1>1. /\ \A u \in Sessions : SessionOk(u)
        /\ Domains /\ DOMAIN bridge_ch' = Sessions /\ DOMAIN offered' = Sessions
    BY DEF Delivery, try_send
  <1>2. bridge_ch'[s] = bridge_ch[s] /\ offered'[s] = offered[s]
    BY <1>1, NotOffered
  <1>3. /\ SessionOk(s)'
        /\ DOMAIN resps' = Sessions /\ DOMAIN issued' = Sessions
        /\ \A u \in Sessions \ {s} : resps'[u] = resps[u] /\ issued'[u] = issued[u]
    BY <1>2, AnswerOk
  <1>4. ASSUME NEW u \in Sessions \ {s} PROVE SessionOk(u)'
    BY <1>1, <1>3, OffersOk
  <1> QED BY <1>1, <1>3, <1>4 DEF Delivery, Domains

\* Offers alone.
LEMMA OffersKeep ==
    ASSUME Delivery, NEW body \in Bodies, NEW times, \A u \in Sessions : times[u] \in Nat,
           try_send(times, body), UNCHANGED <<resps, resp_ch, inflight, writer, wire, issued>>
    PROVE  Delivery'
  <1>1. /\ \A u \in Sessions : SessionOk(u)
        /\ Domains /\ DOMAIN bridge_ch' = Sessions /\ DOMAIN offered' = Sessions
    BY DEF Delivery, try_send
  <1>2. ASSUME NEW u \in Sessions PROVE SessionOk(u)'
    BY <1>1, OffersOk
  <1> QED BY <1>1, <1>2 DEF Delivery, Domains

\* Nothing is under way that was not before.
LEMMA NothingMoves ==
    ASSUME Delivery,
           UNCHANGED <<resps, resp_ch, bridge_ch, inflight, writer, wire, issued, offered>>
    PROVE  Delivery'
  <1>1. \A s \in Sessions : Same(s)
    BY DEF Same
  <1>2. \A s \in Sessions : SessionOk(s)'
    BY <1>1, SameOk DEF Delivery
  <1> QED BY <1>2 DEF Delivery, Domains

LEMMA HandleKeeps ==
    ASSUME Delivery, NEW s \in Sessions, Handle(s)
    PROVE  Delivery'
  <1>1. PICK bodies \in BoundedSeq(Bodies, 2) : Reply(s, bodies)
    BY DEF Handle
  <1>2. bodies \in Seq(Bodies)
    <2>1. PICK m \in 0 .. 2 : bodies \in [1 .. m -> Bodies]
      BY DEF BoundedSeq, SeqOf
    <2> QED BY <2>1, SeqDef
  <1>3. UNCHANGED <<resp_ch, bridge_ch, inflight, writer, wire, offered>>
    BY DEF Handle, chans
  <1> QED BY <1>1, <1>2, <1>3, AnswerKeeps

LEMMA NotifyKeeps ==
    ASSUME Delivery, NEW s \in Sessions, Notify(s)
    PROVE  Delivery'
  <1>1. PICK body \in Bodies : try_send(OnceTo(s), body)
    BY DEF Notify
  <1>2. \A u \in Sessions : OnceTo(s)[u] \in Nat
    BY DEF OnceTo
  <1> QED BY <1>1, <1>2, OffersKeep DEF Notify

LEMMA DeliveryInvariant == Spec => []Delivery
  <1>1. Delivery /\ [Next]_vars => Delivery'
    <2> SUFFICES ASSUME Delivery, [Next]_vars PROVE Delivery'
      OBVIOUS
    <2>1. CASE UNCHANGED vars
      BY <2>1, NothingMoves DEF vars, chans
    <2> QED BY <2>1, StepKeeps, HandleKeeps, NotifyKeeps DEF Next
  <1> QED BY <1>1, DeliveryInit, PTL DEF Spec

-----------------------------------------------------------------------------
(* From the ways to the path as a whole.                                   *)

\* The replies in q are among lo + 1 .. hi and in order; all of these are there.
Within(q, lo, hi) ==
    /\ \A i \in 1 .. Len(q) : q[i].via = "resp" => q[i].seq \in lo + 1 .. hi
    /\ \A i, j \in 1 .. Len(q) :
          q[i].via = "resp" /\ q[j].via = "resp" /\ i < j => q[i].seq < q[j].seq
Covering(q, lo, hi) ==
    \A k \in lo + 1 .. hi : \E i \in 1 .. Len(q) : q[i].via = "resp" /\ q[i].seq = k

\* Replies in order, followed by later replies in order.
LEMMA WithinJoined ==
    ASSUME NEW q \in Seq(Messages), NEW p \in Seq(Messages),
           NEW lo \in Nat, NEW a \in Nat, NEW hi \in Nat,
           lo <= a, a <= hi, Within(q, lo, a), Within(p, a, hi)
    PROVE  Within(q \o p, lo, hi)
  <1> DEFINE v == q \o p
             m == Len(q)
             n == Len(p)
  <1>1. /\ m \in Nat /\ n \in Nat
        /\ \A i \in 1 .. m : v[i] = q[i]
        /\ \A i \in 1 .. n : v[m + i] = p[i]
        /\ \A i \in 1 .. Len(v) : i \in 1 .. m \/ \E j \in 1 .. n : i = m + j
    BY Joined
  <1>2. /\ \A i \in 1 .. m : q[i].via = "resp" => q[i].seq \in lo + 1 .. a
        /\ \A i, j \in 1 .. m :
              q[i].via = "resp" /\ q[j].via = "resp" /\ i < j => q[i].seq < q[j].seq
        /\ \A i \in 1 .. n : p[i].via = "resp" => p[i].seq \in a + 1 .. hi
        /\ \A i, j \in 1 .. n :
              p[i].via = "resp" /\ p[j].via = "resp" /\ i < j => p[i].seq < p[j].seq
    BY DEF Within
  <1> HIDE DEF v, m, n
  <1>3. ASSUME NEW i \in 1 .. Len(v), v[i].via = "resp" PROVE v[i].seq \in lo + 1 .. hi
    <2>1. CASE i \in 1 .. m
      <3>1. q[i].seq \in lo + 1 .. a /\ v[i] = q[i]
        BY <1>1, <1>2, <1>3, <2>1
      <3> QED BY <3>1
    <2>2. ASSUME NEW j \in 1 .. n, i = m + j PROVE v[i].seq \in lo + 1 .. hi
      <3>1. p[j].seq \in a + 1 .. hi /\ v[i] = p[j]
        BY <1>1, <1>2, <1>3, <2>2
      <3> QED BY <3>1
    <2> QED BY <1>1, <2>1, <2>2
  <1>4. ASSUME NEW i \in 1 .. Len(v), NEW j \in 1 .. Len(v),
               v[i].via = "resp", v[j].via = "resp", i < j
        PROVE  v[i].seq < v[j].seq
    <2>1. CASE i \in 1 .. m /\ j \in 1 .. m
      BY <1>1, <1>2, <1>4, <2>1
    <2>2. ASSUME i \in 1 .. m, NEW e \in 1 .. n, j = m + e PROVE v[i].seq < v[j].seq
      <3> DEFINE x == q[i].seq
                 y == p[e].seq
      <3>1. x \in lo + 1 .. a /\ v[i] = q[i] /\ y \in a + 1 .. hi /\ v[j] = p[e]
        BY <1>1, <1>2, <1>4, <2>2
      <3>2. v[i].seq = x /\ v[j].seq = y
        BY <3>1
      <3> HIDE DEF x, y
      <3>3. x < y
        BY <3>1
      <3> QED BY <3>2, <3>3
    <2>3. ASSUME NEW d \in 1 .. n, i = m + d, NEW e \in 1 .. n, j = m + e
          PROVE  v[i].seq < v[j].seq
      <3>1. d < e
        BY <1>1, <1>4, <2>3
      <3> QED BY <1>1, <1>2, <1>4, <2>3, <3>1, ZenonT(30)
    <2>4. ASSUME NEW d \in 1 .. n, i = m + d, j \in 1 .. m PROVE FALSE
      BY <1>1, <1>4, <2>4
    <2> QED BY <1>1, <2>1, <2>2, <2>3, <2>4
  <1>5. Within(v, lo, hi)
    BY <1>3, <1>4 DEF Within
  <1> QED BY <1>5 DEF v

LEMMA WithinMore ==
    ASSUME NEW q \in Seq(Messages), NEW lo \in Nat, NEW a \in Nat, NEW hi \in Nat,
           a <= hi, Within(q, lo, a)
    PROVE  Within(q, lo, hi)
  <1>1. \A x \in lo + 1 .. a : x \in lo + 1 .. hi
    OBVIOUS
  <1> QED BY <1>1 DEF Within

LEMMA CoveringJoined ==
    ASSUME NEW q \in Seq(Messages), NEW p \in Seq(Messages),
           NEW lo \in Nat, NEW a \in Nat, NEW hi \in Nat,
           lo <= a, a <= hi, Covering(q, lo, a), Covering(p, a, hi)
    PROVE  Covering(q \o p, lo, hi)
  <1> DEFINE v == q \o p
             m == Len(q)
             n == Len(p)
  <1>1. /\ m \in Nat /\ n \in Nat /\ Len(v) = m + n
        /\ \A i \in 1 .. m : v[i] = q[i]
        /\ \A i \in 1 .. n : v[m + i] = p[i]
    BY Joined
  <1>2. /\ \A k \in lo + 1 .. a : \E i \in 1 .. m : q[i].via = "resp" /\ q[i].seq = k
        /\ \A k \in a + 1 .. hi : \E i \in 1 .. n : p[i].via = "resp" /\ p[i].seq = k
    BY DEF Covering
  <1> HIDE DEF v, m, n
  <1>3. ASSUME NEW k \in lo + 1 .. hi
        PROVE  \E i \in 1 .. Len(v) : v[i].via = "resp" /\ v[i].seq = k
    <2>1. CASE k <= a
      <3>1. PICK i \in 1 .. m : q[i].via = "resp" /\ q[i].seq = k
        BY <1>2, <2>1
      <3>2. i \in 1 .. Len(v)
        BY <1>1
      <3> QED BY <1>1, <3>1, <3>2
    <2>2. CASE ~(k <= a)
      <3>1. PICK i \in 1 .. n : p[i].via = "resp" /\ p[i].seq = k
        <4>1. k \in a + 1 .. hi
          BY <2>2
        <4> QED BY <1>2, <4>1, ZenonT(30)
      <3>2. m + i \in 1 .. Len(v)
        BY <1>1
      <3> QED BY <1>1, <3>1, <3>2
    <2> QED BY <2>1, <2>2
  <1>4. Covering(v, lo, hi)
    BY <1>3 DEF Covering
  <1> QED BY <1>4 DEF v

\* Numbered replies are all there and in order.
LEMMA NumberedBlock ==
    ASSUME NEW q \in Seq(Messages), NEW n \in Nat, Numbered(q, n)
    PROVE  Within(q, n, n + Len(q)) /\ Covering(q, n, n + Len(q))
  <1> DEFINE m == Len(q)
  <1>1. m \in Nat /\ \A i \in 1 .. m : q[i].via = "resp" /\ q[i].seq = n + i
    BY DEF Numbered
  <1> HIDE DEF m
  <1>2. ASSUME NEW k \in n + 1 .. n + m PROVE \E i \in 1 .. m : q[i].via = "resp" /\ q[i].seq = k
    <2>1. k - n \in 1 .. m /\ n + (k - n) = k
      BY <1>1
    <2> QED BY <1>1, <2>1
  <1>3. \A i \in 1 .. m : q[i].seq \in n + 1 .. n + m
    BY <1>1
  <1>4. \A i, j \in 1 .. m : i < j => q[i].seq < q[j].seq
    BY <1>1
  <1> QED BY <1>2, <1>3, <1>4 DEF Within, Covering, m

\* What is being sent.
LEMMA InflightBlock ==
    ASSUME NEW f \in Seq(Messages), NEW n \in Nat, Len(f) \in {0, 1},
           Own(f) = 1 => f[1].seq = n + 1
    PROVE  Within(f, n, n + Own(f)) /\ Covering(f, n, n + Own(f))
  <1>1. CASE Len(f) = 1 /\ f[1].via = "resp"
    <2>1. Own(f) = 1 /\ f[1].seq = n + 1
      BY <1>1 DEF Own
    <2> QED BY <1>1, <2>1 DEF Within, Covering
  <1>2. CASE ~(Len(f) = 1 /\ f[1].via = "resp")
    <2>1. Own(f) = 0 /\ \A i \in 1 .. Len(f) : f[i].via # "resp"
      BY <1>2 DEF Own
    <2> QED BY <2>1 DEF Within, Covering
  <1> QED BY <1>1, <1>2

\* The replies of q, read as the properties of Session read them.
LEMMA InOrderOnPath ==
    ASSUME NEW q \in Seq(Messages), NEW n \in Nat, Within(q, 0, n)
    PROVE  /\ Ascending("resp", q)
           /\ Covering(q, 0, n) => Numbers("resp", q) = 1 .. n
  <1>1. DOMAIN q = 1 .. Len(q)
    BY LenProperties
  <1>2. Ascending("resp", q)
    BY <1>1 DEF Ascending, At, Within
  <1>3. \A i \in At("resp", q) : q[i].seq \in 1 .. n
    BY <1>1 DEF At, Within
  <1>4. ASSUME Covering(q, 0, n), NEW k \in 1 .. n PROVE \E i \in At("resp", q) : q[i].seq = k
    <2>1. PICK i \in 1 .. Len(q) : q[i].via = "resp" /\ q[i].seq = k
      BY <1>4 DEF Covering
    <2> QED BY <1>1, <2>1 DEF At
  <1>5. ASSUME Covering(q, 0, n) PROVE Numbers("resp", q) = 1 .. n
    <2>1. \A x : x \in Numbers("resp", q) => x \in 1 .. n
      BY <1>3 DEF Numbers
    <2>2. \A x : x \in 1 .. n => x \in Numbers("resp", q)
      BY <1>4, <1>5 DEF Numbers
    <2> QED BY <2>1, <2>2
  <1> QED BY <1>2, <1>5

\* What the client has received.
LEMMA ReceivedBlock ==
    ASSUME NEW w \in Seq(Messages), NEW n \in Nat, Received(w, n)
    PROVE  Within(w, 0, n) /\ Covering(w, 0, n)
  <1>1. 0 + 1 = 1
    OBVIOUS
  <1> QED BY <1>1 DEF Received, Within, Covering

\* Where the replies of each stretch end, counted in all.
Totals(f, c, r, n, lost, a, b, d, e) ==
    /\ a = n + Own(f) /\ b = a + Len(c) /\ d = b + lost /\ e = d + Len(r)
    /\ n <= a /\ a <= b /\ b <= d /\ d <= e

\* The whole path of the replies of a session.
LEMMA RepliesOnPath ==
    ASSUME NEW w \in Seq(Messages), NEW f \in Seq(Messages), NEW c \in Seq(Messages),
           NEW r \in Seq(Messages), NEW n \in Nat, NEW lost \in Nat,
           Len(f) \in {0, 1}, InLine(w, f, c, r, n, lost),
           NEW a \in Nat, NEW b \in Nat, NEW d \in Nat, NEW e \in Nat,
           Totals(f, c, r, n, lost, a, b, d, e)
    PROVE  /\ w \o f \o c \o r \in Seq(Messages)
           /\ Within(w \o f \o c \o r, 0, e)
           /\ lost = 0 => Covering(w \o f \o c \o r, 0, e)
  <1> DEFINE wf == w \o f
             wfc == wf \o c
             q == wfc \o r
  <1>1. n <= a /\ a <= b /\ b <= d /\ d <= e /\ (lost = 0 => d = b)
    BY DEF Totals
  <1>2. wf \in Seq(Messages)
    BY ConcatProperties
  <1>3. Within(w, 0, n) /\ Covering(w, 0, n)
    BY ReceivedBlock DEF InLine
  <1>4. Within(f, n, a) /\ Covering(f, n, a)
    BY InflightBlock DEF InLine, Totals
  <1>5. Within(c, a, b) /\ Covering(c, a, b)
    BY NumberedBlock DEF InLine, Totals
  <1>6. Within(r, d, e) /\ Covering(r, d, e)
    BY NumberedBlock DEF InLine, Totals
  <1>7. Within(wf, 0, a) /\ Covering(wf, 0, a)
    BY <1>1, <1>3, <1>4, WithinJoined, CoveringJoined
  <1> HIDE DEF wf
  <1>8. wfc \in Seq(Messages) /\ Within(wfc, 0, b)
    BY <1>1, <1>2, <1>5, <1>7, WithinJoined, ConcatProperties
  <1>9. Covering(wfc, 0, b)
    BY <1>1, <1>2, <1>5, <1>7, CoveringJoined
  <1> HIDE DEF wfc
  <1>10. q \in Seq(Messages) /\ Within(q, 0, e)
    <2>1. Within(wfc, 0, d)
      BY <1>1, <1>8, WithinMore
    <2> QED BY <1>1, <1>6, <1>8, <2>1, WithinJoined, ConcatProperties
  <1>11. ASSUME lost = 0 PROVE Covering(q, 0, e)
    <2>1. Covering(r, b, e) /\ b <= e
      BY <1>1, <1>6, <1>11
    <2> QED BY <1>1, <1>8, <1>9, <2>1, CoveringJoined
  <1> HIDE DEF q
  <1> QED BY <1>10, <1>11 DEF q, wfc, wf

\* What the invariant says of the replies, ...
LEMMA DeliveryReplies == Delivery => RepliesInOrder
  <1> SUFFICES ASSUME Delivery, NEW s \in Sessions
               PROVE  LET path == wire[s] \o inflight[s] \o resp_ch[s] \o resps[s]
                      IN  /\ Ascending("resp", path)
                          /\ writer[s] = "running" => Numbers("resp", path) = 1 .. issued[s]
                          /\ \E n \in 0 .. issued[s] : Numbers("resp", wire[s]) = 1 .. n
    BY DEF RepliesInOrder
  <1> DEFINE path == wire[s] \o inflight[s] \o resp_ch[s] \o resps[s]
  <1>1. Typed(s) /\ RepliesOf(s)
    BY DEF Delivery, SessionOk
  <1>2. PICK n \in Nat, lost \in Nat :
           /\ InLine(wire[s], inflight[s], resp_ch[s], resps[s], n, lost)
           /\ issued[s] = n + Own(inflight[s]) + Len(resp_ch[s]) + lost + Len(resps[s])
           /\ writer[s] = "running" => lost = 0
    BY <1>1 DEF RepliesOf
  <1>3. /\ path \in Seq(Messages)
        /\ Within(path, 0, issued[s])
        /\ lost = 0 => Covering(path, 0, issued[s])
    <2> DEFINE w == wire[s]
               f == inflight[s]
               c == resp_ch[s]
               r == resps[s]
               o == Own(f)
               x == Len(c)
               y == Len(r)
               a == n + o
               b == a + x
               d == b + lost
               e == d + y
    <2>1. /\ w \in Seq(Messages) /\ f \in Seq(Messages) /\ c \in Seq(Messages)
          /\ r \in Seq(Messages) /\ issued[s] \in Nat /\ Len(f) \in {0, 1}
      BY <1>1 DEF Typed
    <2>2. InLine(w, f, c, r, n, lost) /\ issued[s] = n + o + x + lost + y
      BY <1>2
    <2>3. o \in Nat /\ x \in Nat /\ y \in Nat
      BY <2>1 DEF Own
    <2> HIDE DEF w, f, c, r, o, x, y
    <2>4. a \in Nat /\ b \in Nat /\ d \in Nat /\ e \in Nat /\ issued[s] = e
      BY <2>2, <2>3
    <2>5. Totals(f, c, r, n, lost, a, b, d, e)
      <3>1. n <= a /\ a <= b /\ b <= d /\ d <= e
        BY <2>3, <2>4
      <3> QED BY <3>1 DEF Totals, o, x, y
    <2> HIDE DEF a, b, d, e
    <2>6. /\ w \o f \o c \o r \in Seq(Messages)
          /\ Within(w \o f \o c \o r, 0, e)
          /\ lost = 0 => Covering(w \o f \o c \o r, 0, e)
      BY <2>1, <2>2, <2>4, <2>5, RepliesOnPath
    <2> QED BY <2>4, <2>6 DEF w, f, c, r
  <1>4. Within(wire[s], 0, n) /\ Covering(wire[s], 0, n)
    BY <1>1, <1>2, ReceivedBlock DEF InLine, Typed
  <1>5. Numbers("resp", wire[s]) = 1 .. n
    BY <1>1, <1>4, InOrderOnPath DEF Typed
  <1>6. n \in 0 .. issued[s]
    <2> DEFINE a == Own(inflight[s])
               b == Len(resp_ch[s])
               c == Len(resps[s])
    <2>1. a \in Nat /\ b \in Nat /\ c \in Nat /\ issued[s] = n + a + b + lost + c
      BY <1>1, <1>2, SMTT(30) DEF Typed, Own
    <2> HIDE DEF a, b, c
    <2> QED BY <2>1
  <1> HIDE DEF path
  <1>7. issued[s] \in Nat
    BY <1>1 DEF Typed
  <1>8. /\ Ascending("resp", path)
        /\ lost = 0 => Numbers("resp", path) = 1 .. issued[s]
    BY <1>3, <1>7, InOrderOnPath
  <1> QED BY <1>2, <1>5, <1>6, <1>8 DEF path

\* ... and of the notifications.
LEMMA DeliveryNotifications == Delivery => NotificationsInOrder
  <1> SUFFICES ASSUME Delivery, NEW s \in Sessions
               PROVE  Ascending("bridge", wire[s] \o inflight[s] \o bridge_ch[s])
    BY DEF NotificationsInOrder
  <1> DEFINE some == wire[s] \o inflight[s]
             path == some \o bridge_ch[s]
  <1>1. Typed(s) /\ NotificationsOf(s)
    BY DEF Delivery, SessionOk
  <1>2. some \in Seq(Messages) /\ Rising(some, offered[s]) /\ Before(some, bridge_ch[s])
    BY <1>1, ConcatProperties, RisingJoined, BeforeJoined DEF Typed, NotificationsOf
  <1> HIDE DEF some
  <1>3. path \in Seq(Messages) /\ Rising(path, offered[s])
    BY <1>1, <1>2, ConcatProperties, RisingJoined DEF Typed, NotificationsOf
  <1> HIDE DEF path
  <1>4. DOMAIN path = 1 .. Len(path)
    BY <1>3, LenProperties
  <1>5. Ascending("bridge", path)
    BY <1>3, <1>4 DEF Ascending, At, Rising
  <1> QED BY <1>5 DEF path, some

-----------------------------------------------------------------------------
(* The theorems.                                                           *)

\* Whatever the interleaving of handler, bridge and writer task, the replies of
\* a session stay in order and complete until the connection fails, and what a
\* failed connection received is a prefix of them (session.rs:58-65,
\* resp_tx.send(msg).await and the writer's select!).
THEOREM RepliesAlwaysInOrder == Spec => []RepliesInOrder
  BY DeliveryInvariant, DeliveryReplies, PTL

\* Notifications are dropped when the channel is full, never reordered or
\* repeated (bridge.rs try_send, session.rs:58-65).
THEOREM NotificationsAlwaysInOrder == Spec => []NotificationsInOrder
  BY DeliveryInvariant, DeliveryNotifications, PTL
=============================================================================

-------------------------------- MODULE Wire --------------------------------
(***************************************************************************)
(* One message on its way between a client and the bridge, encoded by the  *)
(* Rust or the Go functions of Codec.  A client that gets the encoding     *)
(* wrong is one that cuts the payload short, alters a byte or adds bytes   *)
(* to an otherwise right message.                                          *)
(***************************************************************************)
EXTENDS Codec

CONSTANTS
    Messages,    \* the messages that are sent
    Bytes        \* the values an altered byte may take

VARIABLES
    sent,    \* the message that was encoded
    frame,   \* the bytes that arrive
    fault    \* what is wrong with them

vars == <<sent, frame, fault>>

Init ==
    /\ sent \in Messages
    /\ \/ frame = serialize(sent)
       \/ sent.type \in Requests /\ frame = GoEncode(sent)
    /\ fault = "none"

\* The frame ends early.
CutFrame ==
    /\ fault = "none"
    /\ \E n \in 0 .. (Len(frame) - 1) : frame' = SubSeq(frame, 1, n)
    /\ fault' = "frame"
    /\ UNCHANGED sent

\* The payload ends early and the header says so.
CutPayload ==
    /\ fault = "none"
    /\ \E n \in 0 .. (HeaderOf(frame).length - 1) :
          frame' = build_message(sent.type, sent.id, SubSeq(PayloadOf(frame), 1, n))
    /\ fault' = "payload"
    /\ UNCHANGED sent

\* The payload is too long and the header says so.
Pad ==
    /\ fault = "none"
    /\ \E x \in Bytes : frame' = build_message(sent.type, sent.id, Append(PayloadOf(frame), x))
    /\ fault' = "pad"
    /\ UNCHANGED sent

\* A byte is wrong.
Alter ==
    /\ fault = "none"
    /\ \E i \in DOMAIN frame : \E x \in Bytes \ {frame[i]} : frame' = [frame EXCEPT ![i] = x]
    /\ fault' = "byte"
    /\ UNCHANGED sent

Next == CutFrame \/ CutPayload \/ Pad \/ Alter

Spec == Init /\ [][Next]_vars

-----------------------------------------------------------------------------
(* Properties.                                                             *)

Got == process_binary_frame(frame)
Accepted == Got.type # "refused"

\* The functions of the two languages agree: the bridge understands a request
\* as the client meant it, whichever of them encoded it, and the Go client,
\* like the parsers of protocol.rs, what the bridge sends.
RoundTrip ==
    fault = "none" =>
       IF sent.type \in Requests THEN Got = sent
       ELSE /\ GoReceives(frame) = sent
            /\ parse(sent.type, PayloadOf(frame)).out = sent.fields

\* A part of a message is never taken for a request (session.rs:108-118, the
\* Truncated and TrailingBytes errors): an incomplete frame is refused, and so
\* is a payload that was cut or padded, unless what was cut or added belongs to
\* the opaque bytes at its end.
PartsAreRefused ==
    /\ fault = "frame" => ~Accepted
    /\ fault \in {"payload", "pad"} /\ Accepted /\ sent.type # "Ping" =>
          /\ sent.type \in Writes
          /\ Got.id = sent.id
          /\ Front(Got.fields) = Front(sent.fields)
          /\ \/ IsPrefix(Last(Got.fields), Last(sent.fields))
             \/ IsPrefix(Last(sent.fields), Last(Got.fields))

\* Nothing in an accepted payload is overlooked: written back, the request is
\* the payload again, but for an is_keyed byte other than 0 and 1.
NothingOverlooked ==
    Accepted /\ Got.type # "Ping" =>
       LET payload == PayloadOf(frame)
           again == PutBy(SerializeLayout, Got)
       IN  /\ Len(again) = Len(payload)
           /\ \A i \in DOMAIN again :
                 again[i] # payload[i] => again[i] = 1 /\ payload[i] > 1

HasQos(m) == m.type \in {"Subscribe", "CreateWriter"} \/ (m.type \in Writes /\ m.fields[1] = 0)
QosOf(m) == IF m.type \in Writes THEN m.fields[4] ELSE m.fields[3]

\* What a dds_qset call leaves DDS with, in the numbers of the wire: no number is
\* infinite there, 0 stands for it and nothing for no time at all; a flag is a bit.
Told(call) ==
    LET a == call.args
        Flag(b) == IF b THEN 1 ELSE 0
        Finite(ns) == IF ns = Infinite THEN 0 ELSE IF ns = 0 THEN -1 ELSE ns
    IN  CASE call.id = 4 -> <<Finite(a[1])>>
          [] call.id = 7 -> <<a[1], Finite(a[2])>>
          [] call.id = 9 -> <<a[1], Flag(a[2]), Flag(a[3])>>
          [] call.id = 12 -> <<Flag(a[1])>>
          [] OTHER -> a

\* The two kinds of values that an accepted request may ask for and DDS is not
\* told: a history depth or an ownership strength beyond i32::MAX, and a
\* partition with a NUL in its name.
PastI32(p) == p.id \in {3, 6} /\ Last(p.value) >= 2^(8 * WordBytes - 1)
NulName(p) == p.id = 10 /\ \E name \in ToSet(p.value) : 0 \in ToSet(name)

\* DDS is told what an accepted request asks for and nothing else: one call for
\* each of its policies, none twice, with the value on the wire (the catch-all
\* arms of from_qos_set never see a value they would fold into another), but
\* for two cases.  A number past i32::MAX (qos_handle.rs:53, 68) arrives
\* negative, a partition with a NUL (qos_handle.rs:108) as the empty name.  Of
\* a policy that is not in the set DDS is told nothing, so its own defaults
\* apply and not those of docs/protocol.md:284-298.
SettingsAreExact ==
    Accepted /\ HasQos(sent) /\ HasQos(Got) =>
       LET asked == QosOf(Got)
           calls == from_qos_set(asked)
       IN  /\ [i \in DOMAIN calls |-> calls[i].id] = [i \in DOMAIN asked |-> asked[i].id]
           /\ WellFormed(asked)
           /\ \A i \in DOMAIN asked :
                 /\ Told(calls[i]) = asked[i].value <=> ~PastI32(asked[i]) /\ ~NulName(asked[i])
                 /\ PastI32(asked[i]) => Last(calls[i].args) < 0
                 /\ NulName(asked[i]) => <<>> \in ToSet(calls[i].args)
=============================================================================

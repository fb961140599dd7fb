------------------------------- MODULE Codec -------------------------------
(***************************************************************************)
(* The binary protocol of src/protocol.rs and parse_qos of src/qos.rs, the *)
(* frame checks of src/ws/session.rs, and the Go encoders and decoders of  *)
(* ddswsclient/protocol.go that talk to them.                              *)
(*                                                                         *)
(* A payload is described by a layout, the kinds of its fields in order;   *)
(* each parse and serialize function of either language is one row of a    *)
(* table of layouts.  A message is its type, its request id and the tuple  *)
(* of its fields.  A u32 is a word of WordBytes bytes, a u64 two words.    *)
(* Which error a refused payload yields is left out: every one is answered *)
(* with INVALID_MESSAGE.                                                   *)
(***************************************************************************)
EXTENDS Integers, SequencesExt, QosHandle

CONSTANTS
    MaxString,    \* MAX_STRING_LENGTH, 2^20 in the code
    MaxPayload    \* max_payload_size of the configuration

Version == 1
HeaderSize == 4 + 2 * WordBytes

\* MsgType and its wire codes.
TypeByte ==
    [Subscribe |-> 1, Unsubscribe |-> 2, Write |-> 3, Dispose |-> 4, WriteDispose |-> 5,
     CreateWriter |-> 16, DeleteWriter |-> 17, Ping |-> 15, Ok |-> 128, Data |-> 192,
     DataDisposed |-> 193, DataNoWriters |-> 194, Error |-> 254, Pong |-> 143]

Requests == {"Subscribe", "Unsubscribe", "Write", "Dispose", "WriteDispose",
             "CreateWriter", "DeleteWriter", "Ping"}
Writes == {"Write", "Dispose", "WriteDispose"}

-----------------------------------------------------------------------------
(* Layouts.  A write has one of two, chosen by its first byte.             *)

EntityLayout == <<"string", "string", "qos", "bool", "keys", "end">>

ParseLayout ==
    [Subscribe |-> EntityLayout,
     CreateWriter |-> EntityLayout,
     Unsubscribe |-> <<"string", "string", "end">>,
     DeleteWriter |-> <<"word", "end">>,
     ByTopic |-> <<"mode", "string", "string", "qos", "keys", "rest">>,
     ById |-> <<"mode", "word", "blob", "rest">>,
     Data |-> <<"string", "word", "word", "rest">>,
     DataDisposed |-> <<"string", "word", "word", "rest">>,
     DataNoWriters |-> <<"string", "rest">>,
     Error |-> <<"code", "string", "end">>,
     Ping |-> <<>>, Pong |-> <<>>, Ok |-> <<"rest">>]

SerializeLayout ==
    [Subscribe |-> <<"string", "string", "qos", "bool", "keys">>,
     CreateWriter |-> <<"string", "string", "qos", "bool", "keys">>,
     Unsubscribe |-> <<"string", "string">>,
     DeleteWriter |-> <<"word">>,
     ByTopic |-> <<"mode", "string", "string", "qos", "keys", "rest">>,
     ById |-> <<"mode", "word", "blob", "rest">>,
     Data |-> <<"string", "word", "word", "rest">>,
     DataDisposed |-> <<"string", "word", "word", "rest">>,
     DataNoWriters |-> <<"string", "rest">>,
     Error |-> <<"code", "string">>,
     Ping |-> <<>>, Pong |-> <<>>, Ok |-> <<"rest">>]

\* What the Go client sends ...
GoEncodeLayout ==
    [Subscribe |-> <<"string", "string", "qos", "bool", "keys">>,
     CreateWriter |-> <<"string", "string", "qos", "bool", "keys">>,
     Unsubscribe |-> <<"string", "string">>,
     DeleteWriter |-> <<"word">>,
     ByTopic |-> <<"mode", "string", "string", "qos", "keys", "rest">>,
     ById |-> <<"mode", "word", "blob", "rest">>,
     Ping |-> <<>>]

\* ... and what it takes apart; gostring has no UTF-8 check and gocode takes
\* any number.
GoDecodeLayout ==
    [Data |-> <<"gostring", "word", "word", "rest">>,
     DataDisposed |-> <<"gostring", "word", "word", "rest">>,
     DataNoWriters |-> <<"gostring", "rest">>,
     Error |-> <<"gocode", "gostring", "end">>,
     Pong |-> <<>>, Ok |-> <<"rest">>]

-----------------------------------------------------------------------------
(* Little-endian numbers, and UTF-8 (std::str::from_utf8).                 *)

LE(n, k) == [i \in 1 .. k |-> (n \div 256^(i - 1)) % 256]

\* Mutant of Number: get_u32 for get_u32_le.
Number_BigEndian(b) == FoldLeft(LAMBDA high, x : x + 256 * high, 0, b)

Number(b) == FoldRight(LAMBDA x, high : x + 256 * high, b, 0)

\* After each byte: how many continuation bytes are due, and the range of the
\* next one; due = -1 once the text is wrong.
Utf8Step(st, x) ==
    LET State(due, lo, hi) == [due |-> due, lo |-> lo, hi |-> hi]
    IN  CASE st.due > 0 /\ x \in st.lo .. st.hi -> State(st.due - 1, 128, 191)
          [] st.due = 0 /\ x < 128 -> st
          [] st.due = 0 /\ x \in 194 .. 223 -> State(1, 128, 191)
          [] st.due = 0 /\ x = 224 -> State(2, 160, 191)
          [] st.due = 0 /\ x = 237 -> State(2, 128, 159)
          [] st.due = 0 /\ x \in (225 .. 239) \ {237} -> State(2, 128, 191)
          [] st.due = 0 /\ x = 240 -> State(3, 144, 191)
          [] st.due = 0 /\ x \in 241 .. 243 -> State(3, 128, 191)
          [] st.due = 0 /\ x = 244 -> State(3, 128, 143)
          [] OTHER -> State(-1, 0, 0)

IsUtf8(b) == FoldLeft(Utf8Step, [due |-> 0, lo |-> 128, hi |-> 191], b).due = 0

-----------------------------------------------------------------------------
(* Parsing: the bytes that remain, the values read, and whether an error   *)
(* has ended it.                                                           *)

Start(bytes) == [ok |-> TRUE, rest |-> bytes, out |-> <<>>]
Fail(s) == [s EXCEPT !.ok = FALSE]
Fits(s, n) == s.ok /\ n <= Len(s.rest)
First(s, n) == SubSeq(s.rest, 1, n)
Push(s, n, v) == [s EXCEPT !.rest = SubSeq(@, n + 1, Len(@)), !.out = Append(@, v)]

\* The values of an inner parse, r, as one value of s.
Nest(s, r) == IF r.ok THEN [s EXCEPT !.rest = r.rest, !.out = Append(@, r.out)] ELSE Fail(s)

\* A number of fixed size with the largest value it may have.
U8(max) == [size |-> 1, max |-> max]
U32 == [size |-> WordBytes, max |-> 256^WordBytes - 1]

ReadNumber(s, f) ==
    IF Fits(s, f.size) /\ Number(First(s, f.size)) <= f.max
    THEN Push(s, f.size, Number(First(s, f.size)))
    ELSE Fail(s)

\* One count byte and that many elements: the turns of the loop, and what it
\* starts from.  An element takes at least a byte, so a larger count fails.
Countable(s) == Fits(s, 1) /\ s.rest[1] < Len(s.rest)
Turns(s) == IF Countable(s) THEN [i \in 1 .. s.rest[1] |-> i] ELSE <<>>
Elements(s) == IF Countable(s) THEN Start(Tail(s.rest)) ELSE Fail(s)

\* Mutant of ReadSized: what is there is taken for all of it.
ReadSized_Clips(s, limit, text) ==
    LET n == Number(First(s, WordBytes))
        have == IF n < Len(s.rest) - WordBytes THEN n ELSE Len(s.rest) - WordBytes
        body == SubSeq(s.rest, WordBytes + 1, WordBytes + have)
    IN  IF Fits(s, WordBytes) /\ n <= limit /\ (text => IsUtf8(body))
        THEN Push(s, WordBytes + have, body)
        ELSE Fail(s)

\* A word of length and that many bytes, UTF-8 if they are a text.
ReadSized(s, limit, text) ==
    LET n == Number(First(s, WordBytes))
        body == SubSeq(s.rest, WordBytes + 1, WordBytes + n)
    IN  IF Fits(s, WordBytes) /\ n <= limit /\ Fits(s, WordBytes + n) /\ (text => IsUtf8(body))
        THEN Push(s, WordBytes + n, body)
        ELSE Fail(s)

read_string(s) == ReadSized(s, MaxString, TRUE)
ReadStrings(s) == Nest(s, FoldLeft(LAMBDA r, i : read_string(r), Elements(s), Turns(s)))

\* Mutant of PolicyFields: no range is validated.
PolicyFields_AnyValue ==
    << <<U8(255), U32>>, <<U8(255)>>, <<U8(255), U32>>, <<U32>>, <<U32>>, <<U32>>,
       <<U8(255), U32>>, <<U8(255)>>, <<U8(255), U8(255), U8(255)>>, <<>>, <<U8(255)>>,
       <<U8(255)>>, <<U32>> >>

\* The fields of each policy; Partition (10) is a list of strings instead.
PolicyFields ==
    << <<U8(1), U32>>, <<U8(3)>>, <<U8(1), U32>>, <<U32>>, <<U32>>, <<U32>>,
       <<U8(2), U32>>, <<U8(1)>>, <<U8(2), U8(1), U8(1)>>, <<>>, <<U8(1)>>,
       <<U8(1)>>, <<U32>> >>

ReadNumbers(s, fields) == FoldLeft(ReadNumber, s, fields)

ReadPolicy(s) ==
    IF ~Fits(s, 1) \/ s.rest[1] \notin PolicyId \/ (\E p \in ToSet(s.out) : p.id = s.rest[1])
    THEN Fail(s)
    ELSE LET id == s.rest[1]
             body == Start(Tail(s.rest))
             r == IF id = 10 THEN ReadStrings(body)
                  ELSE ReadNumbers(body, PolicyFields[id])
         IN  IF r.ok
             THEN [s EXCEPT !.rest = r.rest,
                            !.out = Append(@, Policy(id, IF id = 10 THEN r.out[1] ELSE r.out))]
             ELSE Fail(s)

parse_qos(s) == Nest(s, FoldLeft(LAMBDA r, i : ReadPolicy(r), Elements(s), Turns(s)))

\* offset, size and type_hint
KeyFields == <<U32, U32, U8(4)>>
ReadKey(s) == Nest(s, ReadNumbers(Start(s.rest), KeyFields))
parse_key_descriptors(s) ==
    Nest(s, FoldLeft(LAMBDA r, i : ReadKey(r), Elements(s), Turns(s)))

\* read_bool takes any byte for true but 0.
read_bool(s) == IF Fits(s, 1) THEN Push(s, 1, s.rest[1] # 0) ELSE Fail(s)

\* Mutant of check_no_trailing: it never complains.
check_no_trailing_Never(s) == s

check_no_trailing(s) == IF s.rest = <<>> THEN s ELSE Fail(s)

\* ErrorCode::from_u16
read_code(s, codes) ==
    IF Fits(s, 2) /\ Number(First(s, 2)) \in codes THEN Push(s, 2, Number(First(s, 2)))
    ELSE Fail(s)

ReadField(s, kind) ==
    CASE ~s.ok -> s
      [] kind = "string" -> read_string(s)
      [] kind = "gostring" -> ReadSized(s, MaxPayload, FALSE)
      [] kind = "qos" -> parse_qos(s)
      [] kind = "bool" -> read_bool(s)
      [] kind = "keys" -> parse_key_descriptors(s)
      [] kind = "word" -> ReadNumber(s, U32)
      [] kind = "mode" -> ReadNumber(s, U8(1))
      [] kind = "code" -> read_code(s, 1 .. 9)
      [] kind = "gocode" -> read_code(s, 0 .. 65535)
      [] kind = "blob" -> ReadSized(s, 256^WordBytes, FALSE)
      [] kind = "rest" -> Push(s, Len(s.rest), s.rest)
      [] kind = "end" -> check_no_trailing(s)

\* The row of a table for a payload of a type.
Row(type, payload) ==
    IF type \notin Writes THEN type
    ELSE IF payload # <<>> /\ payload[1] = 1 THEN "ById" ELSE "ByTopic"

ParseBy(table, type, payload) ==
    FoldLeft(ReadField, Start(payload), table[Row(type, payload)])

\* parse_subscribe to parse_data_no_writers; a PING's payload is not looked at.
parse(type, payload) == ParseBy(ParseLayout, type, payload)

-----------------------------------------------------------------------------
(* Serialization.                                                          *)

PutSized(b) == LE(Len(b), WordBytes) \o b

PutPolicy(p) ==
    IF p.id = 10
    THEN <<p.id, Len(p.value)>> \o FlattenSeq([i \in DOMAIN p.value |-> PutSized(p.value[i])])
    ELSE <<p.id>> \o FlattenSeq([i \in DOMAIN p.value |-> LE(p.value[i], PolicyFields[p.id][i].size)])

PutKey(k) == LE(k[1], WordBytes) \o LE(k[2], WordBytes) \o <<k[3]>>

PutField(kind, v) ==
    CASE kind \in {"string", "blob"} -> PutSized(v)
      [] kind = "qos" -> <<Len(v)>> \o FlattenSeq([i \in DOMAIN v |-> PutPolicy(v[i])])
      [] kind = "bool" -> IF v THEN <<1>> ELSE <<0>>
      [] kind = "keys" -> <<Len(v)>> \o FlattenSeq([i \in DOMAIN v |-> PutKey(v[i])])
      [] kind = "word" -> LE(v, WordBytes)
      [] kind = "mode" -> <<v>>
      [] kind = "code" -> LE(v, 2)
      [] kind = "rest" -> v

PutBy(table, m) ==
    LET layout == table[IF m.type \notin Writes THEN m.type
                        ELSE IF m.fields[1] = 1 THEN "ById" ELSE "ByTopic"]
    IN  FlattenSeq([i \in DOMAIN layout |-> PutField(layout[i], m.fields[i])])

serialize_header(version, type, id, len) ==
    <<68, 66, version, TypeByte[type]>> \o LE(id, WordBytes) \o LE(len, WordBytes)

build_message(type, id, payload) ==
    serialize_header(Version, type, id, Len(payload)) \o payload

serialize(m) == build_message(m.type, m.id, PutBy(SerializeLayout, m))
GoEncode(m) == build_message(m.type, m.id, PutBy(GoEncodeLayout, m))

-----------------------------------------------------------------------------
(* Frames.                                                                 *)

HeaderOf(frame) ==
    [version |-> frame[3],
     type |-> CHOOSE t \in DOMAIN TypeByte : TypeByte[t] = frame[4],
     id |-> Number(SubSeq(frame, 5, 4 + WordBytes)),
     length |-> Number(SubSeq(frame, 5 + WordBytes, HeaderSize))]

\* parse_header answers Ok.
HeaderParses(frame) ==
    /\ Len(frame) >= HeaderSize
    /\ frame[1] = 68 /\ frame[2] = 66
    /\ \E t \in DOMAIN TypeByte : TypeByte[t] = frame[4]

validate_client_header(h) ==
    /\ h.version <= Version
    /\ h.length <= MaxPayload
    /\ h.id # 0

PayloadOf(frame) == SubSeq(frame, HeaderSize + 1, HeaderSize + HeaderOf(frame).length)

\* process_binary_frame hands the payload to a handler; bytes after it are
\* ignored.
FrameOk(frame) ==
    /\ HeaderParses(frame)
    /\ validate_client_header(HeaderOf(frame))
    /\ Len(frame) >= HeaderSize + HeaderOf(frame).length

Message(type, id, fields) == [type |-> type, id |-> id, fields |-> fields]
Refused(id) == Message("refused", id, <<>>)

\* What the bridge makes of a frame: a request for a handler, or a refusal
\* with the request id its ERROR carries.
process_binary_frame(frame) ==
    LET h == HeaderOf(frame)
        p == parse(h.type, PayloadOf(frame))
    IN  IF ~HeaderParses(frame) THEN Refused(0)
        ELSE IF ~FrameOk(frame) \/ h.type \notin Requests \/ ~p.ok THEN Refused(h.id)
        ELSE Message(h.type, h.id, p.out)

\* What recvLoop makes of a frame; it drops what it cannot decode.
GoReceives(frame) ==
    LET h == HeaderOf(frame)
        p == ParseBy(GoDecodeLayout, h.type, PayloadOf(frame))
    IN  IF /\ HeaderParses(frame)
           /\ h.version <= Version
           /\ Len(frame) >= HeaderSize + h.length
           /\ h.type \in DOMAIN GoDecodeLayout
           /\ p.ok
        THEN Message(h.type, h.id, p.out)
        ELSE Refused(0)
=============================================================================

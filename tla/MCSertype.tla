----------------------------- MODULE MCSertype -----------------------------
(* Topics whose instances are told apart by the clients' key bytes, by the *)
(* key descriptors, or by both.                                            *)
EXTENDS Sertype

\* Little-endian CDR: header, string or fixed key at offset 4, then a value.
Header == <<0, 1, 0, 0>>
Fixed(k, v) == Header \o <<k, 0>> \o v
Str(chars, v) == Header \o <<Len(chars), 0>> \o chars \o v

FixedField == [offset |-> 4, size |-> 2, hint |-> "Opaque"]
StrField == [offset |-> 4, size |-> 0, hint |-> "String"]

Sample(via, data, key, of) == [via |-> via, data |-> data, key |-> key, of |-> of]

\* Writer-id mode: clients send the key bytes and, like the Go client, no
\* descriptors; a dispose carries the key alone.
Published ==
    [fields |-> <<>>,
     samples |-> { Sample("sample", Fixed(1, <<7>>), <<1, 0>>, 1),
                   Sample("sample", <<>>, <<1, 0>>, 1),
                   Sample("sample", Fixed(2, <<7>>), <<2, 0>>, 2),
                   Sample("sample", Fixed(1, <<7>>), [i \in 1 .. 17 |-> 1], 3) }]

\* Topic-name mode and other participants, with descriptors: a fixed key ...
FixedKey ==
    [fields |-> <<FixedField>>,
     samples |-> { Sample("sample", Fixed(1, <<7>>), <<>>, 1),
                   Sample("ser", Fixed(1, <<>>), <<>>, 1),
                   Sample("ser", Fixed(2, <<7>>), <<>>, 2) }]

\* ... and a string, where the value after a short key looks like a longer one.
StringKey ==
    [fields |-> <<StrField>>,
     samples |-> { Sample("ser", Str(<<5>>, <<6>>), <<>>, 1),
                   Sample("ser", Str(<<5>>, <<7, 7>>), <<>>, 1),
                   Sample("ser", Str(<<5, 6>>, <<>>), <<>>, 2) }]

\* Disposals of which only the keyhash came, for a key that is the keyhash.
KeyhashOnly ==
    [fields |-> <<[offset |-> 0, size |-> 16, hint |-> "Opaque"]>>,
     samples |-> { Sample("keyhash", [i \in 1 .. 16 |-> 1], <<>>, 1),
                   Sample("keyhash", [i \in 1 .. 16 |-> 2], <<>>, 2) }]

\* No key at all: one instance, whoever wrote.
Keyless ==
    [fields |-> <<>>,
     samples |-> { Sample("sample", <<>>, <<>>, 1), Sample("ser", Fixed(1, <<>>), <<>>, 1) }]

\* Clients that send key bytes beside participants that do not.
Mixed ==
    [fields |-> <<FixedField>>,
     samples |-> { Sample("sample", Fixed(1, <<7>>), <<1, 0>>, 1),
                   Sample("sample", <<>>, <<1, 0>>, 1),
                   Sample("ser", Fixed(1, <<7>>), <<>>, 1),
                   Sample("ser", Fixed(2, <<7>>), <<>>, 2) }]

MCTopics == {Published, FixedKey, StringKey, KeyhashOnly, Keyless, Mixed}
=============================================================================

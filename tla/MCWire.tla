------------------------------- MODULE MCWire -------------------------------
(* Messages of every type, every policy and both kinds of writes.          *)
EXTENDS Wire

T == <<116>>
Type == <<77, 195, 169>>        \* a name with a two-byte character
Names == <<T, <<>>>>

AllPolicies ==
    <<Policy(1, <<1, 100>>), Policy(2, <<3>>), Policy(3, <<0, 40000>>), Policy(4, <<0>>),
      Policy(5, <<1>>), Policy(6, <<300>>), Policy(7, <<2, 0>>), Policy(8, <<1>>),
      Policy(9, <<2, 1, 0>>), Policy(10, Names), Policy(11, <<1>>), Policy(12, <<0>>),
      Policy(13, <<7>>)>>
Keys == << <<4, 8, 0>>, <<0, 300, 4>> >>

MCMessages ==
    { Message("Subscribe", 1, <<T, Type, AllPolicies, TRUE, Keys>>),
      Message("Subscribe", 256, <<<<>>, T, <<>>, FALSE, <<>>>>),
      Message("CreateWriter", 2, <<T, Type, <<Policy(2, <<1>>), Policy(4, <<5>>)>>, TRUE, Keys>>),
      Message("Unsubscribe", 3, <<T, Type>>),
      Message("DeleteWriter", 4, <<258>>),
      Message("Write", 5, <<0, T, T, <<Policy(1, <<0, 0>>)>>, Keys, <<9, 9>>>>),
      Message("Dispose", 6, <<0, T, T, <<>>, <<>>, <<>>>>),
      Message("Write", 7, <<1, 1, <<5, 6>>, <<9>>>>),
      Message("WriteDispose", 8, <<1, 1, <<>>, <<9>>>>),
      Message("Ping", 9, <<>>),
      Message("Ok", 9, <<LE(1, WordBytes)>>),
      Message("Pong", 9, <<>>),
      Message("Data", 0, <<T, 1, 2, <<9>>>>),
      Message("DataDisposed", 0, <<Type, 1, 0, <<>>>>),
      Message("DataNoWriters", 0, <<T, <<9>>>>),
      Message("Error", 9, <<9, Type>>) }

MCBytes == 0 .. 255
=============================================================================

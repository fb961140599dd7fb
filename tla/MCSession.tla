----------------------------- MODULE MCSession -----------------------------
(* One session: sessions share no channel, so one shows what each does.    *)
EXTENDS Session

CONSTANT s1

MCSessions == {s1}
MCBodies == {"m"}
FewReplies == [s \in MCSessions |-> 2]
ManyReplies == [s \in MCSessions |-> 5]
=============================================================================

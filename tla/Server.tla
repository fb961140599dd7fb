------------------------------- MODULE Server -------------------------------
(***************************************************************************)
(* start of src/ws/server.rs: the accept loop, its connection limit, the   *)
(* health check and the shutdown, beside the tasks it spawns.              *)
(*                                                                         *)
(* The loop is one task: from accept to the end of an iteration it does    *)
(* nothing else, and it waits for the peer's first bytes inside the        *)
(* iteration.  What run_session does is in Session; here it is a task that *)
(* ends some time or never.                                                *)
(***************************************************************************)
EXTENDS Integers, Sequences, FiniteSets

CONSTANTS
    Peers,           \* TCP connections, each made at most once
    Kind,            \* peer -> "client", "health" or "silent"
    max_connections  \* config websocket.max_connections

ASSUME ServerConstants ==
    Kind \in [Peers -> {"client", "health", "silent"}] /\ max_connections \in Nat

VARIABLES
    backlog,             \* external: the kernel's queue of the listener
    loop,                \* <<p>> while the loop waits in peek for peer p, else <<>>
    conn,                \* what became of each connection
    sent,                \* what the peer's first bytes are, as peek sees them
    active_connections,  \* the AtomicUsize
    server               \* "listening", "signalled" (Ctrl+C) or "stopped"

vars == <<backlog, loop, conn, sent, active_connections, server>>

Init ==
    /\ backlog = <<>>
    /\ loop = <<>>
    /\ conn = [p \in Peers |-> "away"]
    /\ sent = [p \in Peers |-> "nothing"]
    /\ active_connections = 0
    /\ server = "listening"

-----------------------------------------------------------------------------
(* The peers, and the user who stops the server.                           *)

Connect(p) ==
    /\ conn[p] = "away" /\ server # "stopped"
    /\ backlog' = Append(backlog, p)
    /\ conn' = [conn EXCEPT ![p] = "waiting"]
    /\ UNCHANGED <<loop, sent, active_connections, server>>

\* A peer that is not silent sends its request; any peer may hang up instead.
Request(p) ==
    /\ conn[p] = "waiting" /\ sent[p] = "nothing" /\ Kind[p] # "silent"
    /\ sent' = [sent EXCEPT ![p] = "request"]
    /\ UNCHANGED <<backlog, loop, conn, active_connections, server>>

HangUp(p) ==
    /\ conn[p] = "waiting" /\ sent[p] = "nothing"
    /\ sent' = [sent EXCEPT ![p] = "eof"]
    /\ UNCHANGED <<backlog, loop, conn, active_connections, server>>

\* main: ctrl_c fires and shutdown_tx.send is called.
Signal ==
    /\ server = "listening"
    /\ server' = "signalled"
    /\ UNCHANGED <<backlog, loop, conn, sent, active_connections>>

-----------------------------------------------------------------------------
(* The loop.                                                               *)

\* Mutant of Full: one connection too many.
Full_OffByOne == active_connections > max_connections

\* The counter is read here and raised only after the wait in peek.
Full == active_connections >= max_connections

Reject ==
    /\ loop = <<>> /\ server # "stopped" /\ backlog # <<>>
    /\ Full
    /\ conn' = [conn EXCEPT ![Head(backlog)] = "rejected"]
    /\ backlog' = Tail(backlog)
    /\ UNCHANGED <<loop, sent, active_connections, server>>

Accept ==
    /\ loop = <<>> /\ server # "stopped" /\ backlog # <<>>
    /\ ~Full
    /\ loop' = <<Head(backlog)>>
    /\ backlog' = Tail(backlog)
    /\ UNCHANGED <<conn, sent, active_connections, server>>

\* peek saw "GET /health": drain, answer, next iteration.
AnswerHealth(p) ==
    /\ loop = <<p>> /\ sent[p] = "request" /\ Kind[p] = "health"
    /\ loop' = <<>>
    /\ conn' = [conn EXCEPT ![p] = "answered"]
    /\ UNCHANGED <<backlog, sent, active_connections, server>>

\* Mutant of Spawn: the session is awaited in the loop.
Spawn_Inline(p) ==
    /\ loop = <<p>> /\ sent[p] # "nothing"
    /\ ~(sent[p] = "request" /\ Kind[p] = "health")
    /\ conn' = [conn EXCEPT ![p] = "handshake"]
    /\ active_connections' = active_connections + 1
    /\ UNCHANGED <<backlog, loop, sent, server>>

\* peek saw anything else, the end of the stream included: fetch_add, spawn.
Spawn(p) ==
    /\ loop = <<p>> /\ sent[p] # "nothing"
    /\ ~(sent[p] = "request" /\ Kind[p] = "health")
    /\ loop' = <<>>
    /\ conn' = [conn EXCEPT ![p] = "handshake"]
    /\ active_connections' = active_connections + 1
    /\ UNCHANGED <<backlog, sent, server>>

\* shutdown.recv() is polled only between iterations.  The listener is
\* dropped and main returns, which ends every task.
Stop ==
    /\ loop = <<>> /\ server = "signalled"
    /\ server' = "stopped"
    /\ UNCHANGED <<backlog, loop, conn, sent, active_connections>>

-----------------------------------------------------------------------------
(* A spawned task.                                                         *)

\* accept_async succeeds; run_session starts.
Upgrade(p) ==
    /\ conn[p] = "handshake" /\ sent[p] = "request" /\ server # "stopped"
    /\ conn' = [conn EXCEPT ![p] = "session"]
    /\ UNCHANGED <<backlog, loop, sent, active_connections, server>>

\* Mutant of UpgradeFails: the counter is not lowered.
UpgradeFails_Leaks(p) ==
    /\ conn[p] = "handshake" /\ server # "stopped"
    /\ conn' = [conn EXCEPT ![p] = "closed"]
    /\ UNCHANGED <<backlog, loop, sent, active_connections, server>>

UpgradeFails(p) ==
    /\ conn[p] = "handshake" /\ server # "stopped"
    /\ conn' = [conn EXCEPT ![p] = "closed"]
    /\ active_connections' = active_connections - 1
    /\ UNCHANGED <<backlog, loop, sent, server>>

SessionEnds(p) ==
    /\ conn[p] = "session" /\ server # "stopped"
    /\ conn' = [conn EXCEPT ![p] = "closed"]
    /\ active_connections' = active_connections - 1
    /\ UNCHANGED <<backlog, loop, sent, server>>

\* A panic inside run_session, as on a type name with a NUL: tokio catches it
\* and drops the task, past the fetch_sub.  The process goes on.
SessionPanics(p) ==
    /\ conn[p] = "session" /\ server # "stopped"
    /\ conn' = [conn EXCEPT ![p] = "panicked"]
    /\ UNCHANGED <<backlog, loop, sent, active_connections, server>>

Iterate == Reject \/ Accept \/ \E p \in Peers : AnswerHealth(p) \/ Spawn(p)

Next ==
    \/ \E p \in Peers : Connect(p) \/ Request(p) \/ HangUp(p)
    \/ Iterate \/ Signal \/ Stop
    \/ \E p \in Peers : Upgrade(p) \/ UpgradeFails(p) \/ SessionEnds(p) \/ SessionPanics(p)

\* The loop runs whenever it can; select! polls its branches in random order,
\* so a pending shutdown is seen in the end.  Peers that are not silent send
\* a request or hang up.  Nothing makes a session end.
Spec == Init /\ [][Next]_vars
FairSpec ==
    /\ Spec
    /\ WF_vars(Iterate) /\ SF_vars(Stop)
    /\ \A p \in Peers : Kind[p] # "silent" => WF_vars(Request(p) \/ HangUp(p))

-----------------------------------------------------------------------------
(* Properties.                                                             *)

\* The types of the state; the unsigned counter does not underflow.
TypeOK ==
    /\ backlog \in Seq(Peers)
    /\ loop \in {<<>>} \cup {<<p>> : p \in Peers}
    /\ conn \in [Peers -> {"away", "waiting", "rejected", "answered", "handshake",
                           "session", "closed", "panicked"}]
    /\ sent \in [Peers -> {"nothing", "request", "eof"}]
    /\ active_connections \in Nat
    /\ server \in {"listening", "signalled", "stopped"}

Tasks == {p \in Peers : conn[p] \in {"handshake", "session"}}
Lost == {p \in Peers : conn[p] = "panicked"}

\* active_connections counts the tasks that run and the tasks a panic ended,
\* and nothing else: the two ways out of server.rs:65 and 74 lower it exactly
\* once, and a panic of run_session (sertype.rs:747) leaves it raised for good.
CountMatchesTasks == active_connections = Cardinality(Tasks \cup Lost)

\* There are never more than max_connections tasks, although the counter is
\* read before an await and raised after it (server.rs:37, 57).
ConnectionLimit == Cardinality(Tasks) <= max_connections

\* server.rs:59, "Spawn immediately so WS handshake doesn't block accept loop":
\* a peer that sends its request is answered, turned away or given a task, no
\* matter what the connections before it do.
EveryoneIsServed ==
    \A p \in {x \in Peers : Kind[x] # "silent"} :
       conn[p] = "waiting" ~> conn[p] # "waiting" \/ server = "stopped"

\* A shutdown signal stops the server (main.rs:70-73 waits for it).
ShutdownCompletes == server = "signalled" ~> server = "stopped"
=============================================================================

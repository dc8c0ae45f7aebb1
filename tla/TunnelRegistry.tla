--------------------------- MODULE TunnelRegistry ---------------------------
(***************************************************************************)
(* The local-mesh signaling tunnels of p2p-node/src/local_mesh.rs.         *)
(*                                                                         *)
(* Every node runs a TCP server and dials the peers it discovers.  A TCP   *)
(* connection carries a Noise XX handshake and a signed Handshake in each  *)
(* direction; then each end, in its own task, registers a session under    *)
(* the peer's id in the process-wide map ACTIVE_TCP_TUNNELS, tells the     *)
(* network manager with a TunnelEstablished signal, and runs               *)
(* run_tunnel_loop until the stream fails or the session's queue closes.   *)
(* The map holds the only sender of that queue, so overwriting or removing *)
(* an entry is what stops the session that was registered there.           *)
(*                                                                         *)
(* The two ends of a connection are the tasks of the model.  Noise and     *)
(* signatures are abstracted to what they decide (who signed for whom, and *)
(* whether the verifier knows the key).  The traffic of a running loop is  *)
(* left out.                                                               *)
(*                                                                         *)
(* Definitions marked Variant are plausible mistakes; the specification    *)
(* does not use them, they serve to see that the properties notice.        *)
(***************************************************************************)
EXTENDS Naturals, Sequences, FiniteSets

CONSTANTS Nodes,       \* node ids
          Conns,       \* TCP connection attempts (bounds the number of dials)
          None,        \* no session, no node
          Announced,   \* <<n, m>> when n may be told the key of m
          SignalCap,   \* capacity of the SIGNAL_TX channel
          MaxCrashes   \* bound on process crashes

ASSUME RegistryAssumption ==
    /\ None \notin Nodes
    /\ None \notin Conns \X {"out", "in"}
    /\ SignalCap \in Nat \ {0}
    /\ MaxCrashes \in Nat

VARIABLES
    dialer, target, responder,  \* per connection: who dials, whom, who answered
    pc,          \* per end: where its task is
    lost,        \* connections whose stream reports errors at both ends
    tunnels,     \* per node: ACTIVE_TCP_TUNNELS, peer id -> end or None
    known,       \* per node: peers whose public key is known
    port,        \* nodes whose LOCAL_TCP_PORT is set
    listening,   \* nodes whose accept loop runs
    signals,     \* per node: TunnelEstablished signals not yet received
    crashes,     \* number of crashes so far
    superseded   \* history: ends whose entry was overwritten by a newer one

conn == <<dialer, target, responder>>
vars == <<dialer, target, responder, pc, lost, tunnels, known, port,
          listening, signals, crashes, superseded>>

\* An end of a connection: the dialer's ("out") or the acceptor's ("in").
Ends == Conns \X {"out", "in"}

Other(e) == <<e[1], IF e[2] = "out" THEN "in" ELSE "out">>

\* The node whose task serves the end.
Owner(e) == IF e[2] = "out" THEN dialer[e[1]] ELSE responder[e[1]]

\* The id the end is registered under: the dialled target, or the initiator.
Peer(e) == IF e[2] = "out" THEN target[e[1]] ELSE dialer[e[1]]

\* idle: no task; spawned: dial task not connected yet; shaking: connected,
\* the dialer's Handshake is on the wire; responded: the acceptor has written
\* its own; announcing: registered, sending TunnelEstablished; loop: in
\* run_tunnel_loop; exiting: out of the loop, about to lock the map; failed
\* and done: the task has ended and dropped its stream.
Phases == {"idle", "spawned", "shaking", "responded", "announcing", "loop",
           "exiting", "failed", "done"}

Closed(e) == pc[e] \in {"failed", "done"}

\* The end sees its stream fail: an I/O error, or the other end hung up.
StreamDown(e) == e[1] \in lost \/ Closed(Other(e))

\* The session is the one in the map, so its queue still has a sender.
Registered(e) == tunnels[Owner(e)][Peer(e)] = e

-----------------------------------------------------------------------------
Init ==
    /\ dialer = [c \in Conns |-> None]
    /\ target = [c \in Conns |-> None]
    /\ responder = [c \in Conns |-> None]
    /\ pc = [e \in Ends |-> "idle"]
    /\ lost = {}
    /\ tunnels = [n \in Nodes |-> [m \in Nodes |-> None]]
    /\ known = [n \in Nodes |-> {}]
    /\ port = {}
    /\ listening = {}
    /\ signals = [n \in Nodes |-> <<>>]
    /\ crashes = 0
    /\ superseded = {}

\* start_tcp_signaling_server: nothing to do once the port is set; the port is
\* stored before the private key is decoded, so a bad key leaves it set with
\* nobody listening.  A bind or listen error changes nothing.
StartServer(n) ==
    /\ n \notin port
    /\ port' = port \cup {n}
    /\ listening' \in {listening, listening \cup {n}}
    /\ UNCHANGED <<conn, pc, lost, tunnels, known, signals, crashes, superseded>>

\* A public key is learned: an mDNS announcement, a server's or a peer's list,
\* which may hold the node itself, a topology.
Learn(n, m) ==
    /\ <<n, m>> \in Announced
    /\ m \notin known[n]
    /\ known' = [known EXCEPT ![n] = @ \cup {m}]
    /\ UNCHANGED <<conn, pc, lost, tunnels, port, listening, signals, crashes,
                   superseded>>

\* mDNS, cached-peer reconnection and AutoConnect all look the peer up in the
\* map, release the lock and then spawn the dial.
Dial(c, n, m) ==
    /\ n # m
    /\ pc[<<c, "out">>] = "idle"
    /\ tunnels[n][m] = None
    /\ dialer' = [dialer EXCEPT ![c] = n]
    /\ target' = [target EXCEPT ![c] = m]
    /\ pc' = [pc EXCEPT ![<<c, "out">>] = "spawned"]
    /\ UNCHANGED <<responder, lost, tunnels, known, port, listening, signals,
                   crashes, superseded>>

\* TcpStream::connect succeeds and the Noise messages are exchanged.  The
\* address may be stale: any listening node r can be the one that answers.
Connect(c, r) ==
    /\ pc[<<c, "out">>] = "spawned"
    /\ r \in listening
    /\ responder' = [responder EXCEPT ![c] = r]
    /\ pc' = [pc EXCEPT ![<<c, "out">>] = "shaking", ![<<c, "in">>] = "shaking"]
    /\ UNCHANGED <<dialer, target, lost, tunnels, known, port, listening,
                   signals, crashes, superseded>>

\* TcpStream::connect fails, or the dialer's own key does not decode.
ConnectFails(c) ==
    /\ pc[<<c, "out">>] = "spawned"
    /\ pc' = [pc EXCEPT ![<<c, "out">>] = "failed"]
    /\ UNCHANGED <<conn, lost, tunnels, known, port, listening, signals,
                   crashes, superseded>>

\* Variant: the acceptor does not check whom the handshake was addressed to.
AcceptorIgnoresTarget(c) == dialer[c] \in known[responder[c]]

\* The acceptor knows the initiator's key and the signature, made for the
\* dialled target, verifies against the acceptor's own id.
AcceptorVerifies(c) ==
    /\ dialer[c] \in known[responder[c]]
    /\ target[c] = responder[c]

\* The dialer compares the responder's id with the target, looks up its key and
\* verifies a signature made for the initiator.
DialerVerifies(c) ==
    /\ responder[c] = target[c]
    /\ responder[c] \in known[dialer[c]]

\* handle_incoming_tcp_tunnel: verify, sign and write the response.
Respond(c) ==
    /\ pc[<<c, "in">>] = "shaking"
    /\ AcceptorVerifies(c)
    /\ c \notin lost
    /\ pc' = [pc EXCEPT ![<<c, "in">>] = "responded"]
    /\ UNCHANGED <<conn, lost, tunnels, known, port, listening, signals,
                   crashes, superseded>>

AcceptFails(c) ==
    /\ pc[<<c, "in">>] = "shaking"
    /\ ~AcceptorVerifies(c) \/ StreamDown(<<c, "in">>)
    /\ pc' = [pc EXCEPT ![<<c, "in">>] = "failed"]
    /\ UNCHANGED <<conn, lost, tunnels, known, port, listening, signals,
                   crashes, superseded>>

\* Variant: an entry that is there is kept (entry(..).or_insert(..)).
InsertIfAbsent(e) ==
    /\ tunnels' = IF tunnels[Owner(e)][Peer(e)] = None
                  THEN [tunnels EXCEPT ![Owner(e)][Peer(e)] = e] ELSE tunnels
    /\ pc' = [pc EXCEPT ![e] = "announcing"]
    /\ UNCHANGED <<conn, lost, known, port, listening, signals, crashes,
                   superseded>>

\* tunnels.insert(peer, TunnelSession { tx, connection_id }) under the lock:
\* an entry that is there is overwritten and its sender dropped.
Insert(e) ==
    /\ tunnels' = [tunnels EXCEPT ![Owner(e)][Peer(e)] = e]
    /\ superseded' = superseded \cup ({tunnels[Owner(e)][Peer(e)]} \ {None})
    /\ pc' = [pc EXCEPT ![e] = "announcing"]
    /\ UNCHANGED <<conn, lost, known, port, listening, signals, crashes>>

InsertAccepted(c) ==
    /\ pc[<<c, "in">>] = "responded"
    /\ Insert(<<c, "in">>)

\* The acceptor's response has been written and can be read.
ResponseReadable(c) ==
    pc[<<c, "in">>] \in {"responded", "announcing", "loop", "exiting", "done"}

\* connect_to_peer_signaling: the response verifies, the session is inserted.
InsertDialed(c) ==
    /\ pc[<<c, "out">>] = "shaking"
    /\ ResponseReadable(c)
    /\ DialerVerifies(c)
    /\ Insert(<<c, "out">>)

DialFails(c) ==
    /\ pc[<<c, "out">>] = "shaking"
    /\ \/ c \in lost
       \/ pc[<<c, "in">>] = "failed"
       \/ ResponseReadable(c) /\ ~DialerVerifies(c)
    /\ pc' = [pc EXCEPT ![<<c, "out">>] = "failed"]
    /\ UNCHANGED <<conn, lost, tunnels, known, port, listening, signals,
                   crashes, superseded>>

\* Variant: the signal is sent whether or not the channel has room.
AnnounceAnyway(e) ==
    /\ pc[e] = "announcing"
    /\ signals' = [signals EXCEPT ![Owner(e)] = Append(@, Peer(e))]
    /\ pc' = [pc EXCEPT ![e] = "loop"]
    /\ UNCHANGED <<conn, lost, tunnels, known, port, listening, crashes,
                   superseded>>

\* sig_tx.send(TunnelEstablished(peer)).await, which waits for room in the
\* channel; then run_tunnel_loop is spawned.
Announce(e) ==
    /\ pc[e] = "announcing"
    /\ Len(signals[Owner(e)]) < SignalCap
    /\ signals' = [signals EXCEPT ![Owner(e)] = Append(@, Peer(e))]
    /\ pc' = [pc EXCEPT ![e] = "loop"]
    /\ UNCHANGED <<conn, lost, tunnels, known, port, listening, crashes,
                   superseded>>

\* The network manager receives the next signal.
ReceiveSignal(n) ==
    /\ signals[n] # <<>>
    /\ signals' = [signals EXCEPT ![n] = Tail(@)]
    /\ UNCHANGED <<conn, pc, lost, tunnels, known, port, listening, crashes,
                   superseded>>

\* Variant: only the stream ends the loop; a closed queue goes unnoticed.
BreakLoopOnStream(e) ==
    /\ pc[e] = "loop"
    /\ StreamDown(e)
    /\ pc' = [pc EXCEPT ![e] = "exiting"]
    /\ UNCHANGED <<conn, lost, tunnels, known, port, listening, signals,
                   crashes, superseded>>

\* run_tunnel_loop breaks: rx.recv() returns None because the sender is gone,
\* or reading or writing the stream fails.
BreakLoop(e) ==
    /\ pc[e] = "loop"
    /\ ~Registered(e) \/ StreamDown(e)
    /\ pc' = [pc EXCEPT ![e] = "exiting"]
    /\ UNCHANGED <<conn, lost, tunnels, known, port, listening, signals,
                   crashes, superseded>>

\* Variant: the entry is removed whatever its connection_id.
LeaveUnchecked(e) ==
    /\ pc[e] = "exiting"
    /\ tunnels' = [tunnels EXCEPT ![Owner(e)][Peer(e)] = None]
    /\ pc' = [pc EXCEPT ![e] = "done"]
    /\ UNCHANGED <<conn, lost, known, port, listening, signals, crashes,
                   superseded>>

\* Variant: the entry is left in the map.
LeaveEntry(e) ==
    /\ pc[e] = "exiting"
    /\ pc' = [pc EXCEPT ![e] = "done"]
    /\ UNCHANGED <<conn, lost, tunnels, known, port, listening, signals, crashes,
                   superseded>>

\* The end of run_tunnel_loop: under the lock the entry is removed if its
\* connection_id is this session's, then the stream is dropped.
Leave(e) ==
    /\ pc[e] = "exiting"
    /\ tunnels' = IF Registered(e)
                  THEN [tunnels EXCEPT ![Owner(e)][Peer(e)] = None]
                  ELSE tunnels
    /\ pc' = [pc EXCEPT ![e] = "done"]
    /\ UNCHANGED <<conn, lost, known, port, listening, signals, crashes,
                   superseded>>

\* The stream of an open connection starts to report errors at both ends.
Lose(c) ==
    /\ c \notin lost
    /\ pc[<<c, "in">>] # "idle"
    /\ ~(Closed(<<c, "out">>) /\ Closed(<<c, "in">>))
    /\ lost' = lost \cup {c}
    /\ UNCHANGED <<conn, pc, tunnels, known, port, listening, signals,
                   crashes, superseded>>

\* Where a task is once its process has died.  What it had already written to
\* the stream can still be read at the other end.
Killed(phase) ==
    IF phase \in {"spawned", "shaking"} THEN "failed"
    ELSE IF phase = "idle" THEN "idle"
    ELSE IF phase = "failed" THEN "failed" ELSE "done"

\* The process of node n dies and starts again with empty statics: its tasks
\* are gone and its streams are reset.
Crash(n) ==
    /\ crashes < MaxCrashes
    /\ crashes' = crashes + 1
    /\ pc' = [e \in Ends |-> IF Owner(e) = n THEN Killed(pc[e]) ELSE pc[e]]
    /\ lost' = lost \cup {c \in Conns : n \in {dialer[c], responder[c]}}
    /\ tunnels' = [tunnels EXCEPT ![n] = [m \in Nodes |-> None]]
    /\ known' = [known EXCEPT ![n] = {}]
    /\ port' = port \ {n}
    /\ listening' = listening \ {n}
    /\ signals' = [signals EXCEPT ![n] = <<>>]
    /\ UNCHANGED <<conn, superseded>>

Next ==
    \/ \E n \in Nodes : StartServer(n) \/ ReceiveSignal(n) \/ Crash(n)
    \/ \E n, m \in Nodes : Learn(n, m)
    \/ \E c \in Conns, n, m \in Nodes : Dial(c, n, m)
    \/ \E c \in Conns, r \in Nodes : Connect(c, r)
    \/ \E c \in Conns : \/ ConnectFails(c) \/ Respond(c) \/ AcceptFails(c)
                        \/ InsertAccepted(c) \/ InsertDialed(c) \/ DialFails(c)
                        \/ Lose(c)
    \/ \E e \in Ends : Announce(e) \/ BreakLoop(e) \/ Leave(e)

\* A spawned task runs until it waits, a waiting one is woken: tokio schedules
\* every ready task, the map's lock is held for a bounded time, and the manager
\* keeps receiving.  Nothing obliges anybody to dial, learn, start or crash.
Fairness ==
    /\ \A n \in Nodes : WF_vars(ReceiveSignal(n))
    /\ \A c \in Conns :
          /\ WF_vars(ConnectFails(c) \/ \E r \in Nodes : Connect(c, r))
          /\ WF_vars(Respond(c) \/ AcceptFails(c) \/ InsertAccepted(c))
          /\ WF_vars(InsertDialed(c) \/ DialFails(c))
    /\ \A e \in Ends : WF_vars(Announce(e) \/ BreakLoop(e) \/ Leave(e))

Spec == Init /\ [][Next]_vars
FairSpec == Spec /\ Fairness

-----------------------------------------------------------------------------
\* The types of the state; the signal channel never holds more than its
\* capacity, since sig_tx.send waits for room before Announce goes on.
TypeOK ==
    /\ dialer \in [Conns -> Nodes \cup {None}]
    /\ target \in [Conns -> Nodes \cup {None}]
    /\ responder \in [Conns -> Nodes \cup {None}]
    /\ pc \in [Ends -> Phases]
    /\ lost \in SUBSET Conns
    /\ tunnels \in [Nodes -> [Nodes -> Ends \cup {None}]]
    /\ known \in [Nodes -> SUBSET Nodes]
    /\ port \in SUBSET Nodes
    /\ listening \in SUBSET port
    /\ signals \in [Nodes -> Seq(Nodes)]
    /\ \A n \in Nodes : Len(signals[n]) <= SignalCap
    /\ crashes \in 0..MaxCrashes
    /\ superseded \in SUBSET Ends

\* Every entry of the map belongs to a task that is still there to serve its
\* queue (announcing, in its loop, or about to remove the entry itself): a
\* message routed through ACTIVE_TCP_TUNNELS never goes to a dead session.
NoDanglingEntry ==
    \A n, m \in Nodes : tunnels[n][m] # None =>
        pc[tunnels[n][m]] \in {"announcing", "loop", "exiting"}

\* An entry of node n for peer m is one end of a connection between exactly n
\* and m whose handshake was addressed to its acceptor, even when the dialled
\* address has come to belong to another node: what is sent to m reaches m.
AuthenticBinding ==
    \A n, m \in Nodes : tunnels[n][m] # None =>
        LET e == tunnels[n][m]
        IN  /\ Owner(e) = n
            /\ Peer(e) = m
            /\ Owner(Other(e)) = m
            /\ target[e[1]] = responder[e[1]]

\* The end has a reason to stop: its connection broke, its entry or that of the
\* other end was overwritten by a newer session, or the dialer rejected the
\* acceptor's response.
Excused(e) ==
    \/ e[1] \in lost
    \/ {e, Other(e)} \cap superseded # {}
    \/ pc[<<e[1], "out">>] = "failed"

\* A registered session is torn down only for a reason of its own: in
\* particular the late exit of an older session to the same peer never takes
\* the newer session with it (the connection_id test of run_tunnel_loop).
NoSpuriousTeardown ==
    \A e \in Ends : pc[e] \in {"exiting", "done"} => Excused(e)

\* Nothing is left to do for any connection that was started.
Quiet ==
    \A e \in Ends : /\ pc[e] \in {"idle", "loop", "failed", "done"}
                    /\ pc[e] = "loop" => Registered(e) /\ ~StreamDown(e)

\* Once the tasks are quiet the two sides agree: n has a session for m exactly
\* when m has the other end of the same connection registered for n.
QuietAgreement ==
    Quiet => \A n, m \in Nodes : \A e \in Ends :
                tunnels[n][m] = e <=> tunnels[m][n] = Other(e)

\* An entry disappears only when the session it names has left its loop, or
\* by being overwritten, or with its process.
OwnRemovalOnly ==
    [][\A n, m \in Nodes :
          (tunnels[n][m] # None /\ tunnels'[n][m] = None)
             => pc'[tunnels[n][m]] = "done"]_vars

\* The life of a session as those see it who use the map.
Life ==
    [e \in Ends |-> IF pc[e] \in {"announcing", "loop", "exiting"} THEN "live"
                   ELSE IF Closed(e) THEN "over" ELSE "new"]

Map == INSTANCE TunnelMap WITH Sessions <- Ends, map <- tunnels, life <- Life

\* The tunnels of local_mesh.rs, with every race of dials, acceptances, exits
\* and crashes, implement the map of TunnelMap.
ImplementsTunnelMap == Map!Spec

\* A session whose stream is down or whose entry was overwritten ends, and if
\* it is still in the map it is removed: a broken tunnel does not stay
\* registered and keep the node from dialling the peer again.
BrokenSessionEnds ==
    \A e \in Ends :
        (pc[e] \in {"announcing", "loop"} /\ (StreamDown(e) \/ ~Registered(e)))
            ~> pc[e] = "done"
=============================================================================

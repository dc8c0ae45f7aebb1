----------------------------- MODULE CommandFlow -----------------------------
(***************************************************************************)
(* The bounded queues between the tasks of one node, and who waits for     *)
(* room in which.                                                          *)
(*                                                                         *)
(* The network manager (client-core/src/network) takes commands from one   *)
(* queue and, while it handles one, waits for room in the outbound pipe of *)
(* a session, in the WebSocket's queue, or in its own command queue.  Each *)
(* session (client-core/src/rtc) has a pipe task that empties its pipe and *)
(* takes the lock on session_keys to sign a message, a receive task that   *)
(* answers a Handshake into the pipe while it holds that lock, and reports *)
(* to the manager through the command queue, and a link task that sends    *)
(* the Handshake and, later, pings.  All three write to the data channel   *)
(* under dc_write_lock, and keep that lock while the channel's buffer is   *)
(* too full: for ever, when the peer has vanished, since nobody but the    *)
(* manager drops the session.                                              *)
(*                                                                         *)
(* Which token a message is signed with is the subject of SessionHandshake, *)
(* what a command does to the sessions of PeerOrchestrator; here a session *)
(* that is dropped is replaced by a fresh one.  The application hears of   *)
(* messages through handlers that are taken to return.                     *)
(***************************************************************************)
EXTENDS Naturals, Sequences, FiniteSets, SequencesExt

CONSTANTS Peers,      \* peers the node may have a session with
          CmdCap,     \* capacity of the command queue (chosen by the host)
          PipeCap,    \* capacity of a session's pipe (1024 in the code)
          WsCap,      \* capacity of the WebSocket's queue (32 in the code)
          MaxInputs,  \* bound on commands of the application
          MaxTicks,   \* bound on ticks and local-mesh signals
          MaxNews     \* bound on PeersSync messages received

ASSUME FlowAssumption ==
    /\ IsFiniteSet(Peers)
    /\ {CmdCap, PipeCap, WsCap} \subseteq Nat \ {0}
    /\ {MaxInputs, MaxTicks, MaxNews} \subseteq Nat

VARIABLES
    cmds,     \* the command queue (net_tx, net_rx)
    todo,     \* sends the manager still has to make for what it is handling
    ws,       \* number of messages in the WebSocket's queue
    active,   \* active_peers
    dead,     \* sessions whose connection has failed
    pipe,     \* per peer: the session's outgoing queue
    out,      \* per peer: the pipe task
    rx,       \* per peer: the receive task
    auth,     \* per peer: is_authenticated
    shared,   \* per peer: its resources are known (remote_resources, keys)
    keys,     \* per peer: the session_keys lock is held by the receive task
    link,     \* per peer: on_open and then the ping loop; "down": channel not open
    writer,   \* per peer: who holds dc_write_lock until the channel has drained
    inputs, ticks, news,   \* counted for the bounds
    taken                  \* history: number of commands handled so far

sessionVars == <<pipe, out, rx, auth, shared, keys, link, writer>>
counters == <<inputs, ticks, news>>
vars == <<cmds, todo, ws, active, dead, sessionVars, counters, taken>>

\* What the manager is told to do, and what it waits to send: a command to
\* itself, a message into the pipe of a peer, a message to the cloud.
Commands == ({"send", "call", "drop"} \X Peers) \cup {<<"broadcast">>, <<"turn">>,
            <<"cloud">>, <<"news">>}
Items == ({"command"} \X Commands) \cup ({"pipe"} \X Peers) \cup {<<"ws">>}

Init ==
    /\ cmds = <<>> /\ todo = <<>>
    /\ ws = 0
    /\ active = {} /\ dead = {}
    /\ pipe = [p \in Peers |-> <<>>]
    /\ out = [p \in Peers |-> "idle"]
    /\ rx = [p \in Peers |-> "idle"]
    /\ auth = [p \in Peers |-> FALSE]
    /\ shared = [p \in Peers |-> FALSE]
    /\ keys = [p \in Peers |-> FALSE]
    /\ link = [p \in Peers |-> "down"]
    /\ writer = [p \in Peers |-> "none"]
    /\ inputs = 0 /\ ticks = 0 /\ news = 0
    /\ taken = 0

\* net_tx.send(c).await: waits for room in the command queue.
Push(c) ==
    /\ Len(cmds) < CmdCap
    /\ cmds' = Append(cmds, c)

PipeRoom(p) == Len(pipe[p]) < PipeCap
PushPipe(p, kind) == pipe' = [pipe EXCEPT ![p] = Append(@, kind)]

-----------------------------------------------------------------------------
(* The network manager.                                                    *)

\* The application, or a task of the node, gives the manager a command.
Input(c) ==
    /\ inputs < MaxInputs
    /\ inputs' = inputs + 1
    /\ Push(c)
    /\ UNCHANGED <<todo, ws, active, dead, sessionVars, ticks, news, taken>>

\* The items, one for each peer, in whatever order the map yields the peers.
Each(items) == SetToSeqs(items)

\* The sends a command makes the manager wait for, in their possible orders.
\* SendToPeer, SendP2p and SendP2pMessage: the pipe of the peer.
\* BroadcastP2pMessage: the pipe of every active peer that shares the resource.
\* ApplyTurnCredentials: a DisconnectPeer to itself for every active peer.
\* AutoConnect of a failed session: a DisconnectPeer to itself.  Send: the
\* WebSocket.  The others wait for nothing.
Sends(c) ==
    CASE c[1] = "send" -> IF c[2] \in active THEN {<<<<"pipe", c[2]>>>>} ELSE {<<>>}
      [] c[1] = "broadcast" ->
            Each({<<"pipe", p>> : p \in {q \in active : shared[q]}})
      [] c[1] = "turn" -> Each({<<"command", <<"drop", p>>>> : p \in active})
      [] c[1] = "call" /\ c[2] \in active \cap dead -> {<<<<"command", <<"drop", c[2]>>>>>>}
      [] c[1] = "cloud" -> {<<<<"ws">>>>}
      [] OTHER -> {<<>>}

\* What is left of the sessions: AutoConnect opens one for a peer without,
\* DisconnectPeer drops one, with its queue and its tasks.
Redial(c) ==
    IF c[1] \in {"call", "drop"} /\ (c[2] \in active <=> c[1] = "drop")
    THEN /\ active' = IF c[1] = "call" THEN active \cup {c[2]} ELSE active \ {c[2]}
         /\ dead' = dead \ {c[2]}
         /\ pipe' = [pipe EXCEPT ![c[2]] = <<>>]
         /\ out' = [out EXCEPT ![c[2]] = "idle"]
         /\ rx' = [rx EXCEPT ![c[2]] = "idle"]
         /\ auth' = [auth EXCEPT ![c[2]] = FALSE]
         /\ shared' = [shared EXCEPT ![c[2]] = FALSE]
         /\ keys' = [keys EXCEPT ![c[2]] = FALSE]
         /\ link' = [link EXCEPT ![c[2]] = "down"]
         /\ writer' = [writer EXCEPT ![c[2]] = "none"]
    ELSE UNCHANGED <<active, dead, sessionVars>>

\* The manager is between two events of its select! loop.
Idle == todo = <<>>

\* net_rx.recv() and handle_net_cmd, up to the first wait.
Take ==
    /\ Idle
    /\ cmds # <<>>
    /\ cmds' = Tail(cmds)
    /\ taken' = taken + 1
    /\ todo' \in Sends(Head(cmds))
    /\ Redial(Head(cmds))
    /\ UNCHANGED <<ws, counters>>

\* handle_tick: an AutoConnect to itself for every known peer without a session
\* whose cooldown is over.
Tick ==
    /\ Idle
    /\ ticks < MaxTicks
    /\ ticks' = ticks + 1
    /\ \E S \in SUBSET (Peers \ active) :
          todo' \in Each({<<"command", <<"call", p>>>> : p \in S})
    /\ UNCHANGED <<cmds, ws, active, dead, sessionVars, inputs, news, taken>>

\* handle_local_mesh_signal: an InboundRtcSignal goes to its own queue.
MeshSignal ==
    /\ Idle
    /\ ticks < MaxTicks
    /\ ticks' = ticks + 1
    /\ todo' = <<<<"command", <<"news">>>>>>
    /\ UNCHANGED <<cmds, ws, active, dead, sessionVars, inputs, news, taken>>

\* The next send of the command under way, when there is room for it.
ManagerSend ==
    /\ todo # <<>>
    /\ todo' = Tail(todo)
    /\ \/ /\ Head(todo)[1] = "command"
          /\ Push(Head(todo)[2])
          /\ UNCHANGED <<pipe, ws>>
       \/ /\ Head(todo)[1] = "pipe"
          /\ PipeRoom(Head(todo)[2])
          /\ PushPipe(Head(todo)[2], "unsigned")
          /\ UNCHANGED <<cmds, ws>>
       \/ /\ Head(todo)[1] = "ws"
          /\ ws < WsCap
          /\ ws' = ws + 1
          /\ UNCHANGED <<cmds, pipe>>
    /\ UNCHANGED <<active, dead, out, rx, auth, shared, keys, link, writer, counters,
                   taken>>

\* Variant: the manager writes the messages itself, between two commands.
WsWriteWhenIdle ==
    /\ Idle
    /\ ws > 0
    /\ ws' = ws - 1
    /\ UNCHANGED <<cmds, todo, active, dead, sessionVars, counters, taken>>

\* The write task of the WebSocket sends a message.
WsWrite ==
    /\ ws > 0
    /\ ws' = ws - 1
    /\ UNCHANGED <<cmds, todo, active, dead, sessionVars, counters, taken>>

-----------------------------------------------------------------------------
(* The pipe task of a session.                                             *)

\* out_rx.recv(): a message that needs a MAC is signed before it is sent.
PipeTake(p) ==
    /\ p \in active
    /\ out[p] = "idle"
    /\ pipe[p] # <<>>
    /\ pipe' = [pipe EXCEPT ![p] = Tail(@)]
    /\ out' = [out EXCEPT ![p] = IF Head(pipe[p]) = "unsigned" THEN "sign" ELSE "send"]
    /\ UNCHANGED <<cmds, todo, ws, active, dead, rx, auth, shared, keys, link, writer,
                   counters, taken>>

\* Authenticated: lock session_keys and find the token.
PipeSign(p) ==
    /\ out[p] = "sign"
    /\ auth[p]
    /\ ~keys[p]
    /\ out' = [out EXCEPT ![p] = "send"]
    /\ UNCHANGED <<cmds, todo, ws, active, dead, pipe, rx, auth, shared, keys, link,
                   writer, counters, taken>>

\* Not authenticated, or no token, for 100 polls: the message is dropped.  The
\* lock is not waited for before the session is authenticated.
PipeGivesUp(p) ==
    /\ out[p] = "sign"
    /\ ~auth[p] \/ (~shared[p] /\ ~keys[p])
    /\ out' = [out EXCEPT ![p] = "idle"]
    /\ UNCHANGED <<cmds, todo, ws, active, dead, pipe, rx, auth, shared, keys, link,
                   writer, counters, taken>>

\* The channel is not open: the message joins pending_messages, or is lost.
PipePends(p) ==
    /\ out[p] = "send"
    /\ link[p] = "down"
    /\ writer[p] # "pipe"
    /\ out' = [out EXCEPT ![p] = "idle"]
    /\ UNCHANGED <<cmds, todo, ws, active, dead, pipe, rx, auth, shared, keys, link,
                   writer, counters, taken>>

-----------------------------------------------------------------------------
(* The link task of a session, and the writes to its channel.              *)

\* The channel opens: on_open has the Handshake and pending messages to send.
OpenChannel(p) ==
    /\ p \in active \ dead
    /\ link[p] = "down"
    /\ link' = [link EXCEPT ![p] = "send"]
    /\ UNCHANGED <<cmds, todo, ws, active, dead, pipe, out, rx, auth, shared, keys,
                   writer, counters, taken>>

\* A tick of the ping loop: a ping is to be sent, or, when the peer is gone and
\* the timeout is over, the channel is closed.
PingTick(p) ==
    /\ link[p] = "watch"
    /\ \E next \in {"send"} \cup (IF p \in dead THEN {"down"} ELSE {}) :
          link' = [link EXCEPT ![p] = next]
    /\ UNCHANGED <<cmds, todo, ws, active, dead, pipe, out, rx, auth, shared, keys,
                   writer, counters, taken>>

\* Who has something to write, after the limiter's sleep.
Writers == {"pipe", "rx", "link"}
Asks(p, w) == \/ w = "pipe" /\ out[p] = "send"
              \/ w = "rx" /\ rx[p] = "reply"
              \/ w = "link" /\ link[p] = "send"

\* The writer goes on to what comes next.
Goes(p, w) ==
    /\ out' = IF w = "pipe" THEN [out EXCEPT ![p] = "idle"] ELSE out
    /\ rx' = IF w = "rx" THEN [rx EXCEPT ![p] = "idle"] ELSE rx
    /\ link' = IF w = "link" THEN [link EXCEPT ![p] = "watch"] ELSE link

\* send_chunked_binary: with dc_write_lock free the frames are sent; either the
\* message is out, or more than HIGH_WATER is buffered and the writer waits for
\* the channel to drain, with the lock.  (A message's several waits are one.)
Write(p, w) ==
    /\ Asks(p, w)
    /\ writer[p] = "none"
    /\ \/ /\ w = "pipe" => link[p] # "down"
          /\ Goes(p, w)
          /\ UNCHANGED writer
       \/ /\ link[p] # "down"
          /\ writer' = [writer EXCEPT ![p] = w]
          /\ UNCHANGED <<out, rx, link>>
    /\ UNCHANGED <<cmds, todo, ws, active, dead, pipe, auth, shared, keys, counters,
                   taken>>

\* The peer has taken what was buffered: the writer is done and frees the lock.
Drain(p) ==
    /\ writer[p] # "none"
    /\ p \notin dead
    /\ Goes(p, writer[p])
    /\ writer' = [writer EXCEPT ![p] = "none"]
    /\ UNCHANGED <<cmds, todo, ws, active, dead, pipe, auth, shared, keys, counters,
                   taken>>

-----------------------------------------------------------------------------
(* The receive task of a session.                                          *)

Goto(p, label) == rx' = [rx EXCEPT ![p] = label]

\* A Handshake arrives, once per session.
Handshake(p) ==
    /\ link[p] # "down"
    /\ rx[p] = "idle" /\ ~auth[p]
    /\ Goto(p, "issue")
    /\ UNCHANGED <<cmds, todo, ws, active, dead, pipe, out, auth, shared, keys,
                   link, writer, counters, taken>>

\* process_message(Handshake): the lock is taken and tokens are made, ...
LockKeys(p) ==
    /\ rx[p] \in {"issue", "reissue"}
    /\ ~keys[p]
    /\ keys' = [keys EXCEPT ![p] = TRUE]
    /\ UNCHANGED <<cmds, todo, ws, active, dead, pipe, out, rx, auth, shared, link,
                   writer, counters, taken>>

\* ... and the HandshakeResponse is queued, with the lock still held.
Answer(p) ==
    /\ rx[p] \in {"issue", "reissue"}
    /\ keys[p]
    /\ PipeRoom(p)
    /\ PushPipe(p, "plain")
    /\ keys' = [keys EXCEPT ![p] = FALSE]
    /\ Goto(p, IF rx[p] = "issue" THEN "verify" ELSE "idle")
    /\ UNCHANGED <<cmds, todo, ws, active, dead, out, auth, shared, link, writer,
                   counters, taken>>

\* handle_core_message: authenticated, and process_message once more.
Verified(p) ==
    /\ rx[p] = "verify"
    /\ auth' = [auth EXCEPT ![p] = TRUE]
    /\ Goto(p, "reissue")
    /\ UNCHANGED <<cmds, todo, ws, active, dead, pipe, out, shared, keys, link,
                   writer, counters, taken>>

\* Variant: the keys stay locked until the manager has been told.
ResponseLocked(p) ==
    /\ link[p] # "down"
    /\ rx[p] = "idle" /\ ~shared[p]
    /\ ~keys[p]
    /\ keys' = [keys EXCEPT ![p] = TRUE]
    /\ shared' = [shared EXCEPT ![p] = TRUE]
    /\ auth' = [auth EXCEPT ![p] = TRUE]
    /\ Goto(p, IF auth[p] THEN "report" ELSE "tell")
    /\ UNCHANGED <<cmds, todo, ws, active, dead, pipe, out, link, writer, counters,
                   taken>>

\* A HandshakeResponse: tokens and resources are stored, the locks dropped, and
\* the session is authenticated; the manager is to be told with PeerConnected,
\* and the first time the peer gets a HandshakeResponse in return.
Response(p) ==
    /\ link[p] # "down"
    /\ rx[p] = "idle" /\ ~shared[p]
    /\ ~keys[p]
    /\ shared' = [shared EXCEPT ![p] = TRUE]
    /\ auth' = [auth EXCEPT ![p] = TRUE]
    /\ Goto(p, IF auth[p] THEN "report" ELSE "tell")
    /\ UNCHANGED <<cmds, todo, ws, active, dead, pipe, out, keys, link, writer,
                   counters, taken>>

\* PeersSync: the manager is to be told with MergeNodesList.
PeersSync(p) ==
    /\ link[p] # "down"
    /\ rx[p] = "idle"
    /\ news < MaxNews
    /\ news' = news + 1
    /\ Goto(p, "report")
    /\ UNCHANGED <<cmds, todo, ws, active, dead, pipe, out, auth, shared, keys,
                   link, writer, inputs, ticks, taken>>

\* A Ping: the Pong is to be written.
PingArrives(p) ==
    /\ link[p] # "down"
    /\ rx[p] = "idle"
    /\ Goto(p, "reply")
    /\ UNCHANGED <<cmds, todo, ws, active, dead, pipe, out, auth, shared, keys, link,
                   writer, counters, taken>>

\* net_tx.send(..).await
Report(p) ==
    /\ rx[p] \in {"report", "tell"}
    /\ Push(<<"news">>)
    /\ Goto(p, IF rx[p] = "tell" THEN "reply" ELSE "idle")
    /\ UNCHANGED <<todo, ws, active, dead, pipe, out, auth, shared, keys, link,
                   writer, counters, taken>>

\* The connection of a session fails; its tasks do not notice.
Fail(p) ==
    /\ p \in active \ dead
    /\ dead' = dead \cup {p}
    /\ UNCHANGED <<cmds, todo, ws, active, sessionVars, counters, taken>>

PipeTask(p) == PipeTake(p) \/ PipeSign(p) \/ PipeGivesUp(p) \/ PipePends(p)
RxTask(p) == LockKeys(p) \/ Answer(p) \/ Verified(p) \/ Report(p)
Arrival(p) == Handshake(p) \/ Response(p) \/ PeersSync(p) \/ PingArrives(p)
Channel(p) == OpenChannel(p) \/ PingTick(p) \/ (\E w \in Writers : Write(p, w)) \/ Drain(p)

Next ==
    \/ \E c \in Commands : Input(c)
    \/ Take \/ Tick \/ MeshSignal \/ ManagerSend \/ WsWrite
    \/ \E p \in Peers : PipeTask(p) \/ RxTask(p) \/ Arrival(p) \/ Channel(p)
                           \/ Fail(p)

\* Every task that can go on does; the WebSocket's socket accepts what is
\* written, a peer that is there takes what is buffered for it, and dc_write_lock
\* goes to those who wait in the order they came.  Nothing obliges anybody to
\* give commands, the network to deliver messages, or a connection to fail, and
\* nothing ever drains the channel of a peer that is gone.
Fairness ==
    /\ WF_vars(Take) /\ WF_vars(ManagerSend) /\ WF_vars(WsWrite)
    /\ \A p \in Peers : /\ WF_vars(PipeTask(p)) /\ WF_vars(RxTask(p))
                        /\ WF_vars(Drain(p)) /\ SF_vars(Write(p, "pipe"))

Spec == Init /\ [][Next]_vars
FairSpec == Spec /\ Fairness

-----------------------------------------------------------------------------
(* Who waits for whom.                                                     *)

Manager == <<"manager">>
Tasks == {Manager} \cup (Writers \X Peers)
NoTask == <<"none">>

\* The task that a writer of p waits for: the holder of dc_write_lock, or, when
\* it holds the lock and the peer is gone, the manager, that alone can end the
\* session.  The channel of a peer that is there drains by itself.
WriteWaits(p, w) ==
    IF writer[p] = "none" THEN NoTask
    ELSE IF writer[p] # w THEN <<writer[p], p>>
    ELSE IF p \in dead THEN Manager ELSE NoTask

\* The task that must move before t can, or NoTask.
WaitsFor(t) ==
    CASE t = Manager ->
            IF todo = <<>> THEN NoTask
            ELSE IF Head(todo)[1] = "command" /\ Len(cmds) = CmdCap THEN Manager
            ELSE IF Head(todo)[1] = "pipe" /\ ~PipeRoom(Head(todo)[2])
                 THEN <<"pipe", Head(todo)[2]>> ELSE NoTask
      [] t[1] \in Writers /\ Asks(t[2], t[1]) -> WriteWaits(t[2], t[1])
      [] t[1] = "pipe" /\ ~Asks(t[2], "pipe") ->
            IF out[t[2]] = "sign" /\ auth[t[2]] /\ keys[t[2]]
            THEN <<"rx", t[2]>> ELSE NoTask
      [] t[1] = "rx" /\ ~Asks(t[2], "rx") ->
            IF rx[t[2]] \in {"issue", "reissue"} /\ keys[t[2]] /\ ~PipeRoom(t[2])
            THEN <<"pipe", t[2]>>
            ELSE IF rx[t[2]] \in {"report", "tell"} /\ Len(cmds) = CmdCap
            THEN Manager ELSE NoTask
      [] OTHER -> NoTask

Waiting == {t \in Tasks : WaitsFor(t) # NoTask}

\* The tasks that wait, directly or through others, for a circle of waits.
Stuck == UNION {S \in SUBSET Waiting : \A t \in S : WaitsFor(t) \in S}

\* The manager waits for room in the queue that only the manager empties.
ManagerJam == WaitsFor(Manager) = Manager

\* The receive task holds the keys and waits for the pipe; the pipe task waits
\* for the keys.
KeyJam(p) == WaitsFor(<<"rx", p>>) = <<"pipe", p>> /\ WaitsFor(<<"pipe", p>>) = <<"rx", p>>

\* The manager waits for room in the pipe of a peer that is gone; the pipe task
\* waits for the channel, or for who waits for the channel with the lock; and the
\* manager, that would drop the session, waits.
DrainJam(p) == WaitsFor(Manager) = <<"pipe", p>> /\ p \in dead /\ Asks(p, "pipe")
                  /\ writer[p] # "none"

-----------------------------------------------------------------------------
\* The types of the state; every queue within its capacity, since every sender
\* waits for room.
TypeOK ==
    /\ cmds \in Seq(Commands) /\ Len(cmds) <= CmdCap
    /\ todo \in Seq(Items)
    /\ ws \in 0..WsCap
    /\ active \subseteq Peers /\ dead \subseteq active
    /\ pipe \in [Peers -> Seq({"unsigned", "plain"})]
    /\ \A p \in Peers : Len(pipe[p]) <= PipeCap
    /\ out \in [Peers -> {"idle", "sign", "send"}]
    /\ rx \in [Peers -> {"idle", "issue", "verify", "reissue", "report", "tell", "reply"}]
    /\ link \in [Peers -> {"down", "send", "watch"}]
    /\ writer \in [Peers -> {"none"} \cup Writers]
    /\ auth \in [Peers -> BOOLEAN] /\ shared \in [Peers -> BOOLEAN]
    /\ keys \in [Peers -> BOOLEAN]
    /\ inputs \in 0..MaxInputs /\ ticks \in 0..MaxTicks /\ news \in 0..MaxNews
    /\ taken \in Nat

\* The tasks of a node get stuck in three ways only: the manager waits for room
\* in its own queue; the receive and the pipe task of an authenticated session
\* wait for each other's pipe and keys; or the manager waits for the pipe of a
\* peer that is gone, whose channel nobody else ends.  The manager, a pipe and a
\* task that writes or reports to the manager never form another circle, and
\* no circle forms over the channel of a peer that is there.
CircularWaits ==
    Stuck # {} => \/ ManagerJam
                  \/ \E p \in Peers : (auth[p] /\ KeyJam(p)) \/ DrainJam(p)

\* Every command that was accepted is handled, or some task is stuck.
CommandsHandled ==
    \A k \in 1..(MaxInputs + MaxTicks + MaxNews) :
        (taken + Len(cmds) >= k) ~> (taken >= k \/ Stuck # {})
=============================================================================

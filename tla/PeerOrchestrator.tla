-------------------------- MODULE PeerOrchestrator --------------------------
(***************************************************************************)
(* How two nodes keep one WebRTC session with each other: the network      *)
(* managers of client-core/src/network (the select loop, peer_orchestrator *)
(* and the parts of ws_client that touch sessions) and the connection      *)
(* state callbacks of client-core/src/rtc.                                 *)
(*                                                                         *)
(* A manager handles one command of its queue at a time.  active_peers has *)
(* at most one session for the peer; a session that leaves the map is      *)
(* closed by a spawned task.  Lo has the smaller id: it redials whenever   *)
(* the map has no session.  Hi answers, and dials only when asked to Call. *)
(*                                                                         *)
(* An SDP is the session it describes.  A session is live with the peer's  *)
(* when each was given the other's description; ICE fails every other      *)
(* pairing.  New and Connecting are one state, since the managers never    *)
(* tell them apart.  Session ids are taken from a pool and used again when *)
(* nothing refers to them any more.  Slots taken by other peers, lost or   *)
(* duplicated signals and failing WebRTC calls are events.                 *)
(***************************************************************************)
EXTENDS Naturals, Sequences

CONSTANTS Lo, Hi,       \* the two nodes, Lo with the smaller id
          None,         \* no session
          Pool,         \* session ids per node (bound)
          Top,          \* last rung of the redial ladder
          Ways,         \* ways to signal at the start
          Kinds,        \* kinds of events that happen
          Again,        \* those of them that may come on top of another
          MaxEvents     \* bound on events that disturb the nodes

ASSUME OrchestratorAssumption ==
    /\ Lo # Hi
    /\ None \notin {Lo, Hi} \X Pool
    /\ Top \in Nat \ {0}
    /\ Ways \subseteq {"server", "tunnel", "both", "none"}
    /\ MaxEvents \in Nat

VARIABLES
    active,      \* per node: the peer's entry of active_peers
    st,          \* per session: its connection state
    remote,      \* per session: the session whose SDP it was given
    closing,     \* sessions taken from the map, close() not yet called
    grace,       \* Disconnected sessions given time to recover by themselves
    watch,       \* and then, after an ICE restart, watched until given up
    greetings,   \* sessions whose handshake will send PeerConnected
    abandoned,   \* sessions given up before they were in a map, and never closed
    queue,       \* per node: commands sent to the manager
    spawned,     \* per node: commands that spawned tasks are about to send
    signals,     \* signals on their way
    backoff,     \* per node: the peer's PeerBackoff
    focused,     \* per node: focused_peer is the peer
    ws,          \* per node: connected to the signaling server
    tunnel,      \* the nodes have a local-mesh tunnel
    info,        \* per node: what last_known_nodes says of the peer
    events,      \* number of events so far
    dropped      \* history: some offer or answer was lost, refused or failed

session == <<st, remote, closing, grace, watch, greetings, abandoned>>
world   == <<ws, tunnel, info>>
vars    == <<active, session, queue, spawned, signals, backoff, focused, world,
             events, dropped>>

Nodes == {Lo, Hi}
Other(n) == IF n = Lo THEN Hi ELSE Lo
Sessions == Nodes \X Pool
States == {"Connecting", "Connected", "Disconnected", "Failed", "Closed"}

Cmd(op, s) == [op |-> op, s |-> s]
Signal(to, op, s) == [to |-> to, op |-> op, s |-> s]

\* The two sessions were given each other's descriptions.
Mutual(s) == remote[s] # None /\ remote[remote[s]] = s

\* A session the map no longer names and nothing else refers to.
Unused(s) ==
    /\ st[s] = "Closed"
    /\ s \notin closing \cup grace \cup watch \cup greetings
    /\ \A t \in Sessions : remote[t] # s
    /\ \A n \in Nodes : \A i \in DOMAIN queue[n] : queue[n][i].s # s
    /\ \A m \in signals : m.s # s

Fresh(n, s) == s[1] = n /\ Unused(s) /\ s = CHOOSE t \in Sessions : t[1] = n /\ Unused(t)

Listed(isOnline) == IF isOnline THEN "online" ELSE "offline"

NoBackoff == [attempts |-> 0, waiting |-> FALSE, connected |-> FALSE]

\* The nodes know each other and have, or have not, a way to signal.
Init ==
    /\ active = [n \in Nodes |-> None]
    /\ st = [s \in Sessions |-> "Closed"]
    /\ remote = [s \in Sessions |-> None]
    /\ closing = {} /\ grace = {} /\ watch = {} /\ greetings = {} /\ abandoned = {}
    /\ queue = [n \in Nodes |-> <<>>]
    /\ spawned = [n \in Nodes |-> {}]
    /\ signals = {}
    /\ backoff = [n \in Nodes |-> NoBackoff]
    /\ focused = [n \in Nodes |-> FALSE]
    /\ \E way \in Ways : /\ ws = [n \in Nodes |-> way \in {"server", "both"}]
                        /\ tunnel = (way \in {"tunnel", "both"})
                        /\ info = [n \in Nodes |-> Listed(way # "none")]
    /\ events = 0
    /\ dropped = FALSE

\* Something that disturbs the nodes, of one of the kinds
\*   call (the user calls), host (new resources or TURN credentials),
\*   list (node lists), tunnel, ws (lost or new), limit (other peers fill the
\*   slots), rtc (a WebRTC call fails), signal (lost, duplicated), net (no
\*   connectivity), delay (timers too short).
Event(kind) ==
    /\ kind \in IF events = 0 THEN Kinds ELSE Again
    /\ events < MaxEvents
    /\ events' = events + 1

\* No command, signal or spawned task is waiting.
Calm ==
    /\ signals = {} /\ closing = {} /\ greetings = {}
    /\ \A n \in Nodes : queue[n] = <<>> /\ spawned[n] = {}

\* Timers run for seconds.  One that ends before the nodes have got through
\* what was under way counts as an event.
Slow == IF Calm THEN UNCHANGED events ELSE Event("delay")

-----------------------------------------------------------------------------
(* Helpers of the handlers.                                                *)

\* The attempt has just been made: nothing to wait for on the first rung.
Touch(b) == [b EXCEPT !.waiting = b.attempts > 0]

\* The session is gone: back to the first rung if it had been connected.
Penalty(b) ==
    IF b.connected THEN [attempts |-> 1, waiting |-> TRUE, connected |-> FALSE]
    ELSE Touch(b)

\* The session in the map, if any, is removed and a task spawned to close it.
Removed(n) == {active[n]} \ {None}

\* A way to the peer: the tunnel, or the server.
CanSignal(n) == ws[n] \/ tunnel

\* route_rtc_signal, in a task of its own: a tunnel carries no restart flag.
Route(n, op, s) ==
    LET kind == IF op = "restart" /\ tunnel THEN "reoffer" ELSE op
    IN  signals' = IF CanSignal(n) THEN signals \cup {Signal(Other(n), kind, s)}
                   ELSE signals

Queued(n, cmd) == \E i \in DOMAIN queue[n] : queue[n][i] = cmd
Pop(n) == queue' = [queue EXCEPT ![n] = Tail(@)]
Handling(n, op) == queue[n] # <<>> /\ Head(queue[n]).op = op

\* A signal of the session is on its way.
Signalling(s) ==
    \/ \E m \in signals : m.s = s
    \/ \E n \in Nodes : \E i \in DOMAIN queue[n] : queue[n][i].s = s

\* ICE may still succeed: the peer's session lives and has, or will be given,
\* this one's description.
Hopeful(s) ==
    LET t == remote[s]
    IN  /\ t # None
        /\ st[t] \in {"Connecting", "Connected"}
        /\ t \notin closing
        /\ remote[t] = s \/ (remote[t] = None /\ Signalling(s))

\* A session that may yet connect if it is left alone.
Promising(s) ==
    Signalling(s) \/ Hopeful(s) \/ \E t \in Sessions : remote[t] = s /\ Hopeful(t)

\* AutoConnect and Call leave a session alone that is connected or young, and
\* reap one that is dead or has been connecting for too long: when that happens
\* to a promising session it counts as an event.
Spare(n) == active[n] # None /\ st[active[n]] \in {"Connecting", "Connected"}
Reapable(n) == active[n] # None /\ st[active[n]] # "Connected"
Untimely(n) == Reapable(n) /\ st[active[n]] = "Connecting" /\ Promising(active[n])

\* The time at which a handler that reaps may run.
InTime(n) == IF Untimely(n) THEN Event("delay") ELSE UNCHANGED events

\* Variant: the session that was in the map is forgotten instead of closed.
InstallOver(n, s, given) ==
    /\ active' = [active EXCEPT ![n] = s]
    /\ st' = [st EXCEPT ![s] = "Connecting"]
    /\ remote' = [remote EXCEPT ![s] = given]
    /\ UNCHANGED closing

\* A new session s of node n replaces the entry in the map.
Install(n, s, given) ==
    /\ active' = [active EXCEPT ![n] = s]
    /\ closing' = closing \cup Removed(n)
    /\ st' = [st EXCEPT ![s] = "Connecting"]
    /\ remote' = [remote EXCEPT ![s] = given]

\* The entry is removed and nothing takes its place.
Uninstall(n) ==
    /\ active' = [active EXCEPT ![n] = None]
    /\ closing' = closing \cup Removed(n)

\* The offer or the answer cannot be made.  Either there is no new session at all,
\* or its peer connection exists, perhaps with the peer's description, when
\* create_offer or accept_offer_and_answer fails: the client is dropped, which
\* closes nothing.
NotMade(n, s, descriptions) ==
    /\ Event("rtc")
    /\ \/ UNCHANGED <<st, remote, abandoned>>
       \/ /\ Fresh(n, s)
          /\ abandoned' = abandoned \cup {s}
          /\ st' = [st EXCEPT ![s] = "Connecting"]
          /\ \E given \in descriptions : remote' = [remote EXCEPT ![s] = given]

-----------------------------------------------------------------------------
(* The manager's commands.                                                 *)

\* What DisconnectPeer does, and DisconnectPeerSession for the right session.
Drop(n) ==
    /\ Uninstall(n)
    /\ focused' = [focused EXCEPT ![n] = FALSE]
    /\ backoff' = [backoff EXCEPT ![n] = Penalty(@)]

DisconnectPeer(n) ==
    /\ Handling(n, "DisconnectPeer")
    /\ Pop(n)
    /\ Drop(n)
    /\ UNCHANGED <<st, remote, grace, watch, greetings, abandoned, spawned, signals,
                   world, events, dropped>>

\* Variant: the connection id is not compared.
DisconnectAnySession(n) ==
    /\ Handling(n, "DisconnectPeerSession")
    /\ Pop(n)
    /\ Drop(n)
    /\ UNCHANGED <<st, remote, grace, watch, greetings, abandoned, spawned, signals, world,
                   events, dropped>>

DisconnectPeerSession(n) ==
    /\ Handling(n, "DisconnectPeerSession")
    /\ Pop(n)
    /\ IF active[n] = Head(queue[n]).s THEN Drop(n)
       ELSE UNCHANGED <<active, closing, focused, backoff>>
    /\ UNCHANGED <<st, remote, grace, watch, greetings, abandoned, spawned, signals,
                   world, events, dropped>>

\* The backoff is reset and the peer is online, whatever session reported it.
PeerConnected(n) ==
    /\ Handling(n, "PeerConnected")
    /\ Pop(n)
    /\ backoff' = [backoff EXCEPT ![n] = [NoBackoff EXCEPT !.connected = TRUE]]
    /\ info' = [info EXCEPT ![n] = "online"]
    /\ UNCHANGED <<active, session, spawned, signals, focused, ws, tunnel, events,
                   dropped>>

\* The peer restarts ICE and the flag says so: answered in place, or not at all
\* when the description is refused.
AnswerRestart(n) ==
    /\ Handling(n, "restart")
    /\ active[n] # None
    /\ Pop(n)
    /\ \/ Route(n, "answer", active[n]) /\ UNCHANGED events
       \/ Event("rtc") /\ UNCHANGED signals
    /\ UNCHANGED <<active, session, spawned, backoff, focused, world, dropped>>

\* Any other offer.  (A reoffer is an ICE restart that came by tunnel: its SDP
\* is new, so it is not taken for a duplicate.)
NewOffer(n) ==
    \/ Handling(n, "offer") \/ Handling(n, "reoffer")
    \/ Handling(n, "restart") /\ active[n] = None

Duplicate(n) ==
    /\ Handling(n, "offer")
    /\ active[n] # None
    /\ remote[active[n]] = Head(queue[n]).s

IgnoreDuplicate(n) ==
    /\ Duplicate(n)
    /\ Pop(n)
    /\ UNCHANGED <<active, session, spawned, signals, backoff, focused, world,
                   events, dropped>>

\* The peer limit is reached and the peer has no entry: the offer is dropped.
RefuseOffer(n) ==
    /\ NewOffer(n)
    /\ active[n] = None
    /\ Event("limit")
    /\ Pop(n)
    /\ dropped' = TRUE
    /\ UNCHANGED <<active, session, spawned, signals, backoff, focused, world>>

\* The old session is dropped, a new one made from the offer, the answer sent.
AnswerOffer(n, s) ==
    /\ NewOffer(n) /\ ~Duplicate(n)
    /\ Fresh(n, s)
    /\ Pop(n)
    /\ Install(n, s, Head(queue[n]).s)
    /\ Route(n, "answer", s)
    /\ dropped' = (dropped \/ ~CanSignal(n))
    /\ UNCHANGED <<grace, watch, greetings, abandoned, spawned, backoff, focused, world,
                   events>>

\* The answer cannot be made: the old session is gone all the same.
AnswerFails(n, s) ==
    /\ NewOffer(n) /\ ~Duplicate(n)
    /\ NotMade(n, s, {None, Head(queue[n]).s})
    /\ Pop(n)
    /\ Uninstall(n)
    /\ dropped' = TRUE
    /\ UNCHANGED <<grace, watch, greetings, spawned, signals, backoff, focused, world>>

\* An answer is given to whatever session is in the map.  Only one that has an
\* offer out and no description yet takes it, be it the answer to another offer.
ApplyAnswer(n) ==
    /\ Handling(n, "answer")
    /\ Pop(n)
    /\ remote' = IF active[n] # None /\ remote[active[n]] = None
                 THEN [remote EXCEPT ![active[n]] = Head(queue[n]).s]
                 ELSE remote
    /\ UNCHANGED <<active, st, closing, grace, watch, greetings, abandoned, spawned,
                   signals, backoff, focused, world, events, dropped>>

-----------------------------------------------------------------------------
(* Dialling: AutoConnect and Call.                                         *)

\* A session is in the map: a stuck or dead one is reaped by a command to the
\* manager itself, a healthy one is left alone.
AutoConnectActive(n) ==
    /\ Handling(n, "AutoConnect")
    /\ \/ Spare(n) /\ Pop(n) /\ UNCHANGED events
       \/ /\ Reapable(n)
          /\ InTime(n)
          /\ queue' = [queue EXCEPT ![n] = Append(Tail(@), Cmd("DisconnectPeer", None))]
    /\ UNCHANGED <<active, session, spawned, signals, backoff, focused, world, dropped>>

\* All slots are taken by other peers: try again after a rung of the ladder.
AutoConnectRefused(n) ==
    /\ Handling(n, "AutoConnect")
    /\ active[n] = None
    /\ Event("limit")
    /\ Pop(n)
    /\ backoff' = [backoff EXCEPT ![n].attempts = IF @ = 0 THEN 1 ELSE @,
                                  ![n].waiting = TRUE]
    /\ UNCHANGED <<active, session, spawned, signals, focused, world, dropped>>

\* A peer thought connected has no session: a disconnection nobody reported.
Noticed(b) == IF b.connected THEN Penalty(b) ELSE b

\* The cooldown is not over, or there is no way to signal (the tunnel is dialled
\* and its TunnelEstablished will bring another AutoConnect).
AutoConnectPostponed(n) ==
    LET b == Noticed(backoff[n])
    IN  /\ Handling(n, "AutoConnect")
        /\ active[n] = None
        /\ b.waiting \/ ~CanSignal(n)
        /\ Pop(n)
        /\ backoff' = [backoff EXCEPT ![n] = b]
        /\ UNCHANGED <<active, session, spawned, signals, focused, world, events,
                       dropped>>

NextRung(b) == Touch([b EXCEPT !.attempts = IF @ = Top THEN Top ELSE @ + 1,
                               !.connected = FALSE])

\* The attempt is counted; then the offer is made and sent, or that fails.
AutoConnectDials(n, s) ==
    LET b == Noticed(backoff[n])
    IN  /\ Handling(n, "AutoConnect")
        /\ active[n] = None
        /\ ~b.waiting /\ CanSignal(n)
        /\ Pop(n)
        /\ backoff' = [backoff EXCEPT ![n] = NextRung(b)]
        /\ \/ /\ Fresh(n, s)
              /\ Install(n, s, None)
              /\ Route(n, "offer", s)
              /\ UNCHANGED <<abandoned, events>>
           \/ /\ NotMade(n, s, {None})
              /\ UNCHANGED <<active, closing, signals>>
        /\ UNCHANGED <<grace, watch, greetings, spawned, focused, world, dropped>>

\* Call leaves a session alone that is connected or young.
CallSkips(n) ==
    /\ Handling(n, "Call")
    /\ Spare(n)
    /\ Pop(n)
    /\ UNCHANGED <<active, session, spawned, signals, backoff, focused, world,
                   events, dropped>>

\* A stuck or dead session is dropped at once; then all slots are taken.
CallRefused(n) ==
    /\ Handling(n, "Call")
    /\ active[n] = None \/ Reapable(n)
    /\ Event("limit") /\ (Untimely(n) => Event("delay"))
    /\ Pop(n)
    /\ Uninstall(n)
    /\ UNCHANGED <<st, remote, grace, watch, greetings, abandoned, spawned, signals, backoff,
                   focused, world, dropped>>

\* A stuck or dead session is dropped, the peer gets the focus and is dialled
\* without regard to the cooldown, provided there is a way to signal and the
\* offer can be made.
CallDials(n, s) ==
    /\ Handling(n, "Call")
    /\ active[n] = None \/ Reapable(n)
    /\ Pop(n)
    /\ focused' = [focused EXCEPT ![n] = TRUE]
    /\ backoff' = [backoff EXCEPT ![n] =
                      [attempts |-> 1, waiting |-> TRUE, connected |-> FALSE]]
    /\ \/ /\ CanSignal(n)
          /\ Fresh(n, s)
          /\ Install(n, s, None)
          /\ Route(n, "offer", s)
          /\ InTime(n)
          /\ UNCHANGED abandoned
       \/ /\ ~CanSignal(n)
          /\ Uninstall(n)
          /\ InTime(n)
          /\ UNCHANGED <<st, remote, abandoned, signals>>
       \/ /\ CanSignal(n)
          /\ NotMade(n, s, {None}) /\ (Untimely(n) => Event("delay"))
          /\ Uninstall(n)
          /\ UNCHANGED signals
    /\ UNCHANGED <<grace, watch, greetings, spawned, world, dropped>>

-----------------------------------------------------------------------------
(* The tick, the server's node lists and the local mesh.                   *)

\* handle_tick: while connected to the server the peer must be online.
Tick(n) ==
    /\ Slow
    /\ n = Lo \/ focused[n]
    /\ info[n] # "unknown" /\ (ws[n] => info[n] = "online")
    /\ active[n] = None
    /\ ~backoff[n].waiting
    /\ queue' = [queue EXCEPT ![n] = Append(@, Cmd("AutoConnect", None))]
    /\ UNCHANGED <<active, session, spawned, signals, backoff, focused, world,
                   dropped>>

\* The peer has come online: its backoff is forgotten.
Reset(n, isOnline) ==
    IF isOnline /\ info[n] = "offline" THEN NoBackoff ELSE backoff[n]

Spawn(n, ops) == spawned' = [spawned EXCEPT ![n] = @ \cup ops]

\* ProcessNodesList with the peer in it: Lo is going to AutoConnect if it is
\* online; if the resources it was known to have differ, its session is dropped
\* and is going to be called anew.
NodesList(n, isOnline, changed) ==
    LET anew == changed /\ info[n] # "unknown" /\ active[n] # None
    IN  /\ Event("list")
        /\ ws[n]
        /\ backoff' = [backoff EXCEPT ![n] = Reset(n, isOnline)]
        /\ info' = [info EXCEPT ![n] = Listed(isOnline)]
        /\ IF anew
           THEN Uninstall(n) /\ focused' = [focused EXCEPT ![n] = FALSE]
           ELSE UNCHANGED <<active, closing, focused>>
        /\ Spawn(n, {op \in {"AutoConnect", "Call"} :
                        IF op = "Call" THEN anew ELSE n = Lo /\ isOnline})
        /\ UNCHANGED <<st, remote, grace, watch, greetings, abandoned, queue, signals, ws,
                       tunnel, dropped>>

\* ProcessNodesList without the peer: its session is dropped.  A known peer stays
\* known, and online, if it is seen to have a tunnel (try_lock may fail).
NodesListWithout(n) ==
    /\ Event("list")
    /\ ws[n]
    /\ IF active[n] # None THEN Drop(n)
       ELSE UNCHANGED <<active, closing, focused, backoff>>
    /\ \/ info' = [info EXCEPT ![n] = "unknown"]
       \/ /\ tunnel /\ info[n] # "unknown"
          /\ info' = [info EXCEPT ![n] = "online"]
    /\ UNCHANGED <<st, remote, grace, watch, greetings, abandoned, queue, spawned,
                   signals, ws, tunnel, dropped>>

\* ReloadResources: every session is dropped, without a word to the backoff.
ReloadResources(n) ==
    /\ Event("host")
    /\ Uninstall(n)
    /\ focused' = [focused EXCEPT ![n] = FALSE]
    /\ UNCHANGED <<st, remote, grace, watch, greetings, abandoned, queue, spawned, signals,
                   backoff, world, dropped>>

\* ApplyTurnCredentials: the manager tells itself to disconnect every peer.
ApplyTurnCredentials(n) ==
    /\ Event("host")
    /\ active[n] # None
    /\ queue' = [queue EXCEPT ![n] = Append(@, Cmd("DisconnectPeer", None))]
    /\ UNCHANGED <<active, session, spawned, signals, backoff, focused, world,
                   dropped>>

\* MergeNodesList: another peer's PeersSync mentions this one.
MergeNodesList(n, isOnline) ==
    /\ Event("list")
    /\ backoff' = [backoff EXCEPT ![n] = IF isOnline /\ info[n] # "online"
                                         THEN NoBackoff ELSE @]
    /\ info' = [info EXCEPT ![n] = IF isOnline \/ @ = "unknown" THEN Listed(isOnline)
                                   ELSE @]
    /\ UNCHANGED <<active, session, queue, spawned, signals, focused, ws, tunnel,
                   dropped>>

\* PeerDiscovered, by mDNS: Lo is going to AutoConnect if that is news.
PeerDiscovered(n) ==
    /\ Event("list")
    /\ info' = [info EXCEPT ![n] = "online"]
    /\ Spawn(n, IF n = Lo /\ info[n] # "online" THEN {"AutoConnect"} ELSE {})
    /\ UNCHANGED <<active, session, queue, signals, backoff, focused, ws, tunnel,
                   dropped>>

\* TunnelEstablished: a session that is not Connected is dropped,
\* and the dialer (or who has the focus) is going to AutoConnect.
TunnelEstablished(n) ==
    /\ Event("tunnel")
    /\ tunnel' = TRUE
    /\ IF active[n] # None /\ st[active[n]] # "Connected"
       THEN Uninstall(n)
       ELSE UNCHANGED <<active, closing>>
    /\ info' = [info EXCEPT ![n] = "online"]
    /\ Spawn(n, IF n = Lo \/ focused[n] THEN {"AutoConnect"} ELSE {})
    /\ UNCHANGED <<st, remote, grace, watch, greetings, abandoned, queue, signals,
                   backoff, focused, ws, dropped>>

\* The tunnel's loop ends at both nodes, and what is in it may be lost.
TunnelLost ==
    /\ Event("tunnel")
    /\ tunnel /\ tunnel' = FALSE
    /\ \/ UNCHANGED <<signals, dropped>>
       \/ signals # {} /\ signals' = {} /\ dropped' = TRUE
    /\ UNCHANGED <<active, session, queue, spawned, backoff, focused, ws, info>>

\* The tasks of the server connection are aborted, and what the server was
\* passing on to the node may be lost.
CutServer(n) ==
    \/ UNCHANGED <<signals, dropped>>
    \/ /\ ws[n] /\ ~tunnel
       /\ \E m \in signals : m.to = n
       /\ signals' = {m \in signals : m.to # n}
       /\ dropped' = TRUE

\* transition_to_local_mesh_fallback: the focus is lost with the server.
Fallback(n) ==
    /\ ws' = [ws EXCEPT ![n] = FALSE]
    /\ focused' = [focused EXCEPT ![n] = FALSE]

\* Connect, which a new name or URL may bring at any time, succeeds or not.
WsConnect(n) ==
    /\ Event("ws")
    /\ CutServer(n)
    /\ \/ ws' = [ws EXCEPT ![n] = TRUE] /\ UNCHANGED focused
       \/ Fallback(n)
    /\ UNCHANGED <<active, session, queue, spawned, backoff, tunnel, info>>

WsDisconnect(n) ==
    /\ Event("ws")
    /\ CutServer(n)
    /\ Fallback(n)
    /\ UNCHANGED <<active, session, queue, spawned, backoff, tunnel, info>>

-----------------------------------------------------------------------------
(* Other tasks: senders of commands, signals, timers.                      *)

UserCalls(n) ==
    /\ Event("call")
    /\ Spawn(n, {"Call"})
    /\ UNCHANGED <<active, session, queue, signals, backoff, focused, world, dropped>>

SendSpawned(n, op) ==
    /\ op \in spawned[n]
    /\ spawned' = [spawned EXCEPT ![n] = @ \ {op}]
    /\ queue' = [queue EXCEPT ![n] = Append(@, Cmd(op, None))]
    /\ UNCHANGED <<active, session, signals, backoff, focused, world, events, dropped>>

\* A signal arrives as HandleInboundSignal, in any order; now and then twice.
Deliver(m) ==
    /\ CanSignal(m.to)
    /\ queue' = [queue EXCEPT ![m.to] = Append(@, Cmd(m.op, m.s))]
    /\ \/ signals' = signals \ {m} /\ UNCHANGED events
       \/ Event("signal") /\ UNCHANGED signals
    /\ UNCHANGED <<active, session, spawned, backoff, focused, world, dropped>>

\* A signal is lost: an event, unless the receiver is out of reach.
LoseSignal(m) ==
    /\ IF CanSignal(m.to) THEN Event("signal") ELSE UNCHANGED events
    /\ signals' = signals \ {m}
    /\ dropped' = TRUE
    /\ UNCHANGED <<active, session, queue, spawned, backoff, focused, world>>

CooldownEnds(n) ==
    /\ backoff[n].waiting
    /\ Slow
    /\ backoff' = [backoff EXCEPT ![n].waiting = FALSE]
    /\ UNCHANGED <<active, session, queue, spawned, signals, focused, world, dropped>>

-----------------------------------------------------------------------------
(* Connection states and their callbacks.                                  *)

\* DisconnectPeerSession is sent to the session's manager.
Tell(s) ==
    queue' = [queue EXCEPT ![s[1]] = Append(@, Cmd("DisconnectPeerSession", s))]

\* Variant: a Disconnected session is left to itself.
EnterUnwatched(s, new) ==
    /\ st' = [st EXCEPT ![s] = new]
    /\ IF new \in {"Failed", "Closed"} THEN Tell(s) ELSE UNCHANGED queue
    /\ UNCHANGED grace

\* Variant: only Closed is reported to the manager.
EnterUntold(s, new) ==
    /\ st' = [st EXCEPT ![s] = new]
    /\ IF new = "Closed" THEN Tell(s) ELSE UNCHANGED queue
    /\ grace' = IF new = "Disconnected" THEN grace \cup {s} ELSE grace

\* The session enters state new; its callback sends DisconnectPeerSession when
\* it is Failed or Closed, and spawns a watching task when it is Disconnected.
Enter(s, new) ==
    /\ st' = [st EXCEPT ![s] = new]
    /\ IF new \in {"Failed", "Closed"} THEN Tell(s) ELSE UNCHANGED queue
    /\ grace' = IF new = "Disconnected" THEN grace \cup {s} ELSE grace

\* ICE finds the peer's session, and the handshake will follow.
Establish(s) ==
    /\ st[s] = "Connecting"
    /\ Mutual(s)
    /\ st[remote[s]] \in {"Connecting", "Connected"}
    /\ Enter(s, "Connected")
    /\ greetings' = greetings \cup {s}
    /\ UNCHANGED <<active, remote, closing, watch, abandoned, spawned, signals, backoff,
                   focused, world, events, dropped>>

\* ICE fails, for want of a counterpart or (an event) because of the network.
IceFails(s) ==
    /\ st[s] = "Connecting"
    /\ remote[s] # None
    /\ IF Hopeful(s) THEN Event("net") ELSE Slow
    /\ Enter(s, "Failed")
    /\ UNCHANGED <<active, remote, closing, watch, greetings, abandoned, spawned, signals,
                   backoff, focused, world, dropped>>

\* The other end has gone: the data channel's on_close sends
\* DisconnectPeerSession, the transport still being Connected.
PeerGone(s) ==
    /\ st[s] = "Connected" /\ s \notin closing
    /\ ~Queued(s[1], Cmd("DisconnectPeerSession", s))
    /\ Mutual(s) => st[remote[s]] = "Failed"
    /\ Tell(s)
    /\ UNCHANGED <<active, st, remote, closing, grace, watch, greetings, abandoned,
                   spawned, signals, backoff, focused, world, events, dropped>>

\* The network fails for a while.
Trouble(s) ==
    /\ Event("net")
    /\ st[s] = "Connected"
    /\ Enter(s, "Disconnected")
    /\ UNCHANGED <<active, remote, closing, watch, greetings, abandoned, spawned, signals,
                   backoff, focused, world, dropped>>

Recover(s) ==
    /\ st[s] = "Disconnected"
    /\ Mutual(s)
    /\ st[remote[s]] \in {"Connected", "Disconnected"}
    /\ Enter(s, "Connected")
    /\ UNCHANGED <<active, remote, closing, watch, greetings, abandoned, spawned, signals,
                   backoff, focused, world, events, dropped>>

\* The grace period is over and the session is still Disconnected: the node with
\* the smaller id offers an ICE restart and both wait on.
GraceEnds(s) ==
    /\ s \in grace
    /\ Slow
    /\ grace' = grace \ {s}
    /\ IF st[s] = "Disconnected"
       THEN /\ watch' = watch \cup {s}
            /\ IF s[1] = Lo THEN Route(Lo, "restart", s) ELSE UNCHANGED signals
       ELSE UNCHANGED <<watch, signals>>
    /\ UNCHANGED <<active, st, remote, closing, greetings, abandoned, queue, spawned,
                   backoff, focused, world, dropped>>

\* The end of the watch: still Disconnected or Failed, the session is given up.
WatchEnds(s) ==
    /\ s \in watch
    /\ Slow
    /\ watch' = watch \ {s}
    /\ IF st[s] \in {"Disconnected", "Failed"} THEN Tell(s) ELSE UNCHANGED queue
    /\ UNCHANGED <<active, st, remote, closing, grace, greetings, abandoned, spawned,
                   signals, backoff, focused, world, dropped>>

\* A HandshakeResponse arrives (SessionHandshake); more than one is an event.
Greeted(s) ==
    /\ s \in greetings
    /\ \/ greetings' = greetings \ {s} /\ UNCHANGED events
       \/ Event("signal") /\ UNCHANGED greetings
    /\ queue' = [queue EXCEPT ![s[1]] = Append(@, Cmd("PeerConnected", None))]
    /\ UNCHANGED <<active, st, remote, closing, grace, watch, abandoned, spawned,
                   signals, backoff, focused, world, dropped>>

\* The task spawned when the session left the map calls close().
Close(s) ==
    /\ s \in closing
    /\ closing' = closing \ {s}
    /\ Enter(s, "Closed")
    /\ remote' = [remote EXCEPT ![s] = None]
    /\ UNCHANGED <<active, watch, greetings, abandoned, spawned, signals, backoff,
                   focused, world, events, dropped>>

-----------------------------------------------------------------------------
Manage(n) ==
    \/ DisconnectPeer(n) \/ DisconnectPeerSession(n) \/ PeerConnected(n)
    \/ AnswerRestart(n) \/ IgnoreDuplicate(n) \/ RefuseOffer(n)
    \/ ApplyAnswer(n) \/ AutoConnectActive(n) \/ AutoConnectRefused(n)
    \/ AutoConnectPostponed(n) \/ CallSkips(n) \/ CallRefused(n)
    \/ \E s \in Sessions : \/ AnswerOffer(n, s) \/ AnswerFails(n, s)
                            \/ AutoConnectDials(n, s) \/ CallDials(n, s)

Senders(s) == Greeted(s) \/ Close(s) \/ GraceEnds(s) \/ WatchEnds(s)
Transport(s) == Establish(s) \/ IceFails(s) \/ PeerGone(s)

Next ==
    \/ \E n \in Nodes : \/ Manage(n) \/ Tick(n) \/ UserCalls(n) \/ CooldownEnds(n)
                        \/ WsConnect(n) \/ WsDisconnect(n) \/ TunnelEstablished(n)
                        \/ NodesListWithout(n) \/ PeerDiscovered(n)
                        \/ ReloadResources(n) \/ ApplyTurnCredentials(n)
                        \/ \E isOnline \in BOOLEAN : MergeNodesList(n, isOnline)
                        \/ \E op \in spawned[n] : SendSpawned(n, op)
                        \/ \E isOnline, changed \in BOOLEAN :
                              NodesList(n, isOnline, changed)
    \/ TunnelLost
    \/ \E m \in signals : Deliver(m) \/ LoseSignal(m)
    \/ \E s \in Sessions : \/ Senders(s) \/ Transport(s) \/ Trouble(s)
                           \/ Recover(s)

\* The managers run, timers fire, spawned tasks are scheduled, signals arrive
\* while there is a way for them, and ICE comes to a result.
Fairness ==
    /\ \A n \in Nodes : /\ WF_vars(Manage(n)) /\ WF_vars(Tick(n))
                        /\ WF_vars(CooldownEnds(n))
                        /\ WF_vars(SendSpawned(n, "AutoConnect"))
                        /\ WF_vars(SendSpawned(n, "Call"))
    /\ \A s \in Sessions :
          /\ WF_vars(Greeted(s)) /\ WF_vars(Close(s))
          /\ WF_vars(GraceEnds(s)) /\ WF_vars(WatchEnds(s)) /\ WF_vars(Transport(s))
    /\ \A s \in Sessions, n \in Nodes, op \in {"offer", "reoffer", "restart", "answer"} :
          WF_vars(Signal(n, op, s) \in signals /\ Deliver(Signal(n, op, s)))

Spec == Init /\ [][Next]_vars
FairSpec == Spec /\ Fairness

-----------------------------------------------------------------------------
\* The types of the state; the attempts counter of PeerBackoff stays on the
\* redial ladder.
TypeOK ==
    /\ active \in [Nodes -> Sessions \cup {None}]
    /\ st \in [Sessions -> States]
    /\ remote \in [Sessions -> Sessions \cup {None}]
    /\ \A x \in {closing, grace, watch, greetings, abandoned} : x \subseteq Sessions
    /\ spawned \in [Nodes -> SUBSET {"AutoConnect", "Call"}]
    /\ backoff \in [Nodes -> [attempts : 0..Top, waiting : BOOLEAN, connected : BOOLEAN]]
    /\ focused \in [Nodes -> BOOLEAN]
    /\ ws \in [Nodes -> BOOLEAN]
    /\ info \in [Nodes -> {"unknown", "offline", "online"}]
    /\ tunnel \in BOOLEAN /\ dropped \in BOOLEAN
    /\ events \in 0..MaxEvents

\* A session that is not in the map is closed or about to be: however sessions
\* replace each other, no WebRTC connection is left running unowned, except one
\* whose own offer or answer could not be made.  No map names that one, ever, and
\* nobody is going to close it.
NoOrphan ==
    \A s \in Sessions :
        IF s \in abandoned THEN st[s] # "Closed" /\ active[s[1]] # s /\ s \notin closing
        ELSE st[s] # "Closed" => active[s[1]] = s \/ s \in closing

\* A session in the map that has failed, or does not recover, is going to be
\* removed: its teardown is queued, or a task is left that will see to it.  The
\* tick skips peers that are in the map, so nothing else would.
DeadSessionWatched ==
    \A n \in Nodes : active[n] # None =>
        LET s    == active[n]
            told == Queued(n, Cmd("DisconnectPeerSession", s))
        IN  /\ st[s] = "Failed" => told
            /\ st[s] = "Disconnected" => told \/ s \in grace \cup watch
            /\ st[s] # "Closed"

\* Both nodes have the two ends of one working connection in their maps.
Paired ==
    \A n \in Nodes : /\ active[n] # None
                     /\ st[active[n]] = "Connected"
                     /\ remote[active[n]] = active[Other(n)]

\* A node list that no longer has the peer or its resources, or own resources
\* reloaded.
ListStep == \E n \in Nodes : \/ NodesListWithout(n) \/ ReloadResources(n)
                             \/ \E isOnline, changed \in BOOLEAN :
                                   NodesList(n, isOnline, changed)

\* A working connection is given up only for a new list, for an offer of the
\* peer, for DisconnectPeer, or for a DisconnectPeerSession that names it: stale
\* reports about earlier sessions, AutoConnect, Call, late answers, restart
\* offers and new tunnels leave it alone.
WorkingSessionKept ==
    [][(Paired /\ ~ListStep) =>
          \A n \in Nodes : active'[n] # active[n] =>
              /\ queue[n] # <<>>
              /\ \/ Head(queue[n]).op \in {"DisconnectPeer", "offer", "reoffer"}
                 \/ Head(queue[n]) = Cmd("DisconnectPeerSession", active[n])]_vars

\* The nodes can reach each other and Lo knows that Hi is there.
Reachable ==
    /\ tunnel \/ \A n \in Nodes : ws[n]
    /\ info[Lo] # "unknown" /\ (ws[Lo] => info[Lo] = "online")

\* A dial whose offer or answer was lost, refused or failed: it waits in the map
\* for an answer that will never come.
Stranded ==
    /\ dropped
    /\ \E n \in Nodes : /\ active[n] # None
                        /\ st[active[n]] = "Connecting"
                        /\ remote[active[n]] = None

\* Once the nodes can reach each other they end up connected for good, through
\* crossing calls, mixed-up answers, failed sessions and cooldowns, unless an
\* offer or answer was lost and its dial is stranded.
Reconnect == <>[]Reachable => <>[](Paired \/ Stranded)
=============================================================================

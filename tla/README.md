# A TLA+ verification of p2p-common

This directory specifies, model-checks and partly proves the networking core of
p2p-common: how nodes find each other on the local network, how they set up and keep a
WebRTC session, how a session is opened, authenticated, framed, watched, throttled and
renegotiated, what its messages may do, and which tasks wait for which. Every definition
is translated from the Rust source; `PROJECT.json` gives the lines of each.

- [1 The system](#1-the-system): components, state, interactions, what is hard
- [2 Modules and code](#2-modules-and-code)
- [3 Runs](#3-runs): what each shows, bounds, fairness
- [4 Proofs](#4-proofs)
- [5 Abstractions and assumptions](#5-abstractions-and-assumptions)
- [6 Not modelled](#6-not-modelled)
- [7 Plan](#7-plan)

Running: `tlc -config tunnel_registry_two.cfg MCTunnelRegistry` (each .cfg with the MC module
of its component); `tlapm M.tla` for each of the eight proof modules `*Proofs.tla`.

## 1 The system

Four crates: `nodeinnet-api` (types of the server's API, cryptography), `nodeinnet-p2p`
(messages between nodes), `p2p-node` (the node's context, access check, local mesh, mDNS),
and `client-core` (network manager, signaling, WebRTC, accounts).

### Components

**Local-mesh tunnels** (`p2p-node/src/local_mesh.rs`). State: the process-wide map
`ACTIVE_TCP_TUNNELS` (peer id -> session: queue sender and `connection_id`), `LOCAL_TCP_PORT`,
the keys in `last_known_nodes`. Operations: `start_tcp_signaling_server`,
`handle_incoming_stream`, `connect_tunnel_only`, `reconnect_cached_peers`, `run_tunnel_loop`.
One task per end of a TCP connection; it registers itself, sends `TunnelEstablished` over the
bounded channel `SIGNAL_TX` to the manager and runs its loop. Only the map holds the sender of
a session's queue, so overwriting an entry is what stops a session. Hard: both nodes dial at
once; a check of the map and the insert it justifies are far apart; an old session leaves after
a new one was registered; addresses go stale; a crash leaves one side registered. Correct when:
an entry always names a live session to that very peer, sessions stop only for a reason, both
sides end up using the same connection, and broken tunnels disappear.

**mDNS discovery** (`mdns_discovery.rs`). State: the daemon, cached peers. Feeds public keys,
addresses and dials to the local mesh and `PeerDiscovered` to the manager.

**Chunk framing** (`client-core/src/rtc/chunking.rs`). State: the buffer of `ChunkAssembler`.
`frame_chunks` splits a message, `push` reassembles it; `send_chunked_binary` holds
`dc_write_lock` for a whole message while four tasks share the channel. Hard: message lengths at
multiples of the chunk size, concurrent senders, the channel closing in the middle. Correct when:
whole messages arrive, in lock order, and nothing is left in the buffer.

**Session handshake and outbound pipe** (`client-core/src/rtc/mod.rs`, `rtc/core.rs`, the
handshake branch of `NodeContext::process_message`). State: `is_authenticated`, `session_keys`,
`pending_messages`, the outbound queue. The `on_open` callback, the pipe task and the receive
task run concurrently at both nodes. Hard: each Handshake creates tokens twice and a first
HandshakeResponse once more, HandshakeResponses travel two paths, commands queued early block
the pipe. Correct when: both ends authenticate and end up with the same token per resource, a
newer token is never replaced by an older one, and the exchange of responses ends.

**Peer orchestration** (`client-core/src/network/peer_orchestrator.rs`, `mod.rs`, `manager.rs`,
`types.rs`). State: `active_peers` (peer -> WebRTC session), `PeerBackoff` per peer,
`focused_peer`, `last_known_nodes`, `max_peers`. A manager task handles one `NetCmd` at a time
(`AutoConnect`, `Call`, `DisconnectPeer`, `DisconnectPeerSession`, `PeerConnected`, incoming
offers and answers, lists, tunnels) and a tick. WebRTC callbacks, timers and close tasks send it
further commands. Hard: crossing dials, answers that belong to an earlier offer, reports about
sessions that were replaced meanwhile, recovery timers racing a replacement, failures half-way.
Correct when: no session leaks, no dead session stays, no working session is torn down for the
sake of another, and nodes that can reach each other end up connected.

**WebSocket signaling client** (`network/ws_client.rs`). State: the connection, the mode. Carries
offers and answers, delivers node lists, TURN credentials; falls back to the local mesh.

**WebRTC connection states** (`rtc/mod.rs`, the state callback). State: the connection state, the
tasks that give a Disconnected session time to recover, restart ICE, and watch it until it is
given up (`ice_recovery_grace_secs`, `ice_teardown_secs`).

**Tunnel traffic** (`run_tunnel_loop` and `handle_local_message` in `local_mesh.rs`,
`route_rtc_signal` in `network/mod.rs`). State: per session a queue of 100 messages, the stream
with its Noise nonces, the process-wide lock of the map. A loop alternates, in one `select!`,
between writing the queue's messages and reading packets. Hard: the read is cancelled when the
queue has a message; messages are queued while the lock is held; a write waits for a peer that
may be writing itself; a connection may go silent. Correct when: what is decrypted is a prefix of
what was encrypted, tasks never wait in a circle, and signals arrive.

**Command queues** (`network/mod.rs`, `ws_client.rs`, `p2p_transfer.rs`, the tasks of a session in
`rtc/mod.rs`). State: the manager's queue, the WebSocket's queue, and per session a pipe, the lock of
`session_keys`, `dc_write_lock` and the channel's buffer. Hard: the manager awaits room in its own queue
and in the pipes, the receive task awaits room in the pipe with the keys locked, whoever writes to the
channel awaits its drain, without end, with the write lock held. Correct when: it is known which circles
of waits there are, and apart from them every command that was accepted is handled.

**P2P messages and access check** (`nodeinnet-p2p/src/p2p.rs`, `p2p-node/src/lib.rs`,
`handle_incoming_p2p_message`). State: `session_keys`, `is_authenticated`. Some sixty kinds of
messages, of which most name a resource; tables say which kinds name one, which types of resource
a kind is for, which kinds are requests. Hard: the tables must agree, the keys may be cleared
between check and use, the peer brings keys for ids of its choice, and the application's event handler
is given messages before the access check. Correct when: whatever is given on was verified under a key of
the resource it names in an authenticated session, and a shut-down session stops.

**P2P transfer commands** (`network/p2p_transfer.rs`): which pipe a command's messages go to; part
of the command queues.

**Limits** (`limits.rs`). State: limits and timeouts in atomics, one token bucket for the process.
Hard: the limit is read before the bucket is locked and changes while tasks sleep. Correct when:
no more gets through than the limit allows, and everything does in the end.

**Keepalive** (ping loop in `rtc/mod.rs`, Pong in `rtc/core.rs`). State: `last_pong`, the loop's
interval. Hard: interval and timeout are read at different times, the wall clock may be set, the
subtraction is unsigned, a ping waits behind other messages inside its tick, missed ticks come in a
burst, and the loop starts only when `on_open` has sent what was pending. Correct when: a healthy peer
whose pings are not held up is not timed out, a vanished one is noticed, an open channel is watched.

**Renegotiation** (`rtc/mod.rs`, offers over the data channel and restarts of ICE). State:
`negotiation_lock`, the signaling state of the peer connection. Hard: both ends may offer; waits
time out; handlers of offers and answers run beside the task with the lock; every call of the library
may fail, and nothing repeats an offer. Correct when: a session settles stable and the last change of the tracks has been negotiated.

**Remote desktop streams** (`rtc/mod.rs`, `video_utils.rs`, `nodeinnet-p2p` desktop requests).
State: `ACTIVE_HOST_STREAMS` and the maps of sizes and bitrates, capture loops. Hard: requests still
queued when the session is dropped; loops that end by themselves. Correct when: nothing of the
screen is captured for a session that is over.

**Cryptography**, **accounts**, **wire types**, **launcher**: see section 6.

### How they interact

```
 mDNS --key, address--> local mesh --TunnelEstablished (SIGNAL_TX, bounded)--> manager
 server --lists, offers, answers--> ws_client --NetCmd--> manager <--NetCmd-- user, timers
 manager --offers, answers--> tunnel map (under its lock) or server
 manager --creates, closes--> WebRTC session --callbacks--> NetCmd queue of the manager
 data channel --frames--> ChunkAssembler --message--> receive task --reply--> pipe --> channel
```

The hazards this gives rise to are listed, each with its line, under `hazards` in
`PROJECT.json`, with the properties that would notice.

## 2 Modules and code

A definition whose comment begins with "Variant" is a plausible mistake in the code. No
specification uses it; put in place of the definition that follows it, it shows that a property
notices the mistake. `MC*` modules only add what TLC needs.

**TunnelRegistry.** The two *ends* of a TCP connection are the tasks: `<<c, "out">>` is
`connect_tunnel_only`, `<<c, "in">>` is `handle_incoming_stream`. `pc` says where each is
(spawned, shaking, responded, announcing, loop, exiting, failed or done). `tunnels[n]` is node
n's `ACTIVE_TCP_TUNNELS`; the end stands for the session with its `connection_id`.

| action | code |
|---|---|
| `StartServer` | `start_tcp_signaling_server`, with the port set before the key is decoded |
| `Learn` | a public key enters `last_known_nodes` or the discovered peers |
| `Dial` | map looked up, lock released, dial spawned (mDNS, cached peers, AutoConnect) |
| `Connect`, `ConnectFails` | TCP connect and the Noise messages; a stale address may lead to any node |
| `Respond`, `AcceptFails` | the acceptor verifies the signed Handshake for its own id and answers |
| `InsertAccepted`, `InsertDialed`, `DialFails` | the insert into the map; the dialer's checks |
| `Announce` | `sig_tx.send(TunnelEstablished)`, which waits for room |
| `BreakLoop`, `Leave` | `run_tunnel_loop` ends; lock, compare `connection_id`, remove |
| `ReceiveSignal`, `Lose`, `Crash` | the manager, the network, the process |

**Chunking** has `FrameChunks` and `Push` as pure operators (a frame's length field is
`% Word`, for the 2-byte header). **ChunkedChannel** puts them at work: writers that take the
lock, send frame by frame and may fail, a channel that may close, a receiver. `expected` is a history variable:
the messages in lock order, without the empty ones, which the assembler ignores.

**SessionHandshake.** `OpenChannel`, `Greet`, `Drain`, `SendDrained` are the steps of `on_open`;
`PipeSend`, `PipeStage`, `PipePark`, `PipeTimeout` those of the pipe task (`PipeStage` finds the
channel closed and `PipePark` adds to `pending_messages` later, as the code does);
`RxHandshake`, `RxVerified`, `RxReissue`, `RxRefused`, `RxResponse`, `RxReply`, `RxMessage`,
`RxGoodbye` those of the receive task. A token is the number of its generation.

**PeerOrchestrator.** Two managers. `active[n]` is the peer's entry in `active_peers`, a session
is a pair of node and id, and `remote[s]` is the session whose SDP it was given. Each handler of
a `NetCmd` is one action or several with disjoint guards:

| code | actions |
|---|---|
| `handle_disconnect_peer`, `..._session`, `handle_peer_connected` | `DisconnectPeer`, `DisconnectPeerSession`, `PeerConnected` |
| incoming offer | `AnswerRestart`, `IgnoreDuplicate`, `RefuseOffer`, `AnswerOffer`, `AnswerFails` |
| incoming answer | `ApplyAnswer` |
| `AutoConnect` | `AutoConnectActive`, `AutoConnectRefused`, `AutoConnectPostponed`, `AutoConnectDials` |
| `Call` | `CallSkips`, `CallRefused`, `CallDials` |
| tick, backoff | `Tick`, `CooldownEnds` |
| lists, resources, discovery, tunnels, server | `NodesList`, `NodesListWithout`, `MergeNodesList`, `ReloadResources`, `ApplyTurnCredentials`, `PeerDiscovered`, `TunnelEstablished`, `TunnelLost`, `WsConnect`, `WsDisconnect` |
| a peer connection whose offer or answer cannot be made | `NotMade` in `AnswerFails`, `AutoConnectDials`, `CallDials`: the session exists, is in no map, and nobody closes it (`abandoned`) |
| state callback and its timers | `Establish`, `IceFails`, `PeerGone`, `Trouble`, `Recover`, `GraceEnds`, `WatchEnds`, `Greeted` |
| spawned close | `Close` |
| tasks and signals in flight | `SendSpawned`, `Deliver`, `LoseSignal` |

**TunnelMap** is the abstract specification of `ACTIVE_TCP_TUNNELS`: what those who route
messages through the map may rely on. A session is `new`, `live` or `over`; `Register`, `Abandon`,
`End` and `Reset` are all that can happen. `ImplementsTunnelMap` in TunnelRegistry instantiates it
with the sessions' lives derived from `pc`; handshakes, announcements, losses and the leaving of a
loop are stutters of it.

**TunnelTraffic.** What goes through tunnels that exist. `pc[e]` is where `run_tunnel_loop` of end
`e` is.

| action | code |
|---|---|
| `Insert`, `Announce`, `AskLock`, `AskSend` | registration, `TunnelEstablished`, the dialer's `RequestTopology` |
| `TakeMessage`, `WriteLength`, `WriteBody`, `WriteFails` | the `rx.recv()` arm: encrypt and `write_packet`; `TakeMessage` in the middle of a read tears the packet |
| `ReadLength`, `ReadBody`, `ReadGarbage`, `ReadFails` | the `read_packet` arm, `ReadGarbage` after a torn packet |
| `SendSignal`, `HandlerLock`, `HandlerSend` | `handle_local_message`: a signal for the manager, an answer or a forwarded message queued under the lock |
| `Leave` | the end of the loop and the removal of the entry |
| `StartRoute`, `Attempt`, `RouteSend` | `route_rtc_signal`: up to ten attempts, the send under the lock |
| `ReceiveSignal`, `WantLookup`, `Lookup` | the manager |
| `Lose`, `FallSilent` | the network |

**CommandFlow.** The manager with its queue: `Input`, `Tick`, `MeshSignal`, `Take` (a command
becomes the list `todo` of sends it makes, `Sends`), `ManagerSend` (one of them, when there is
room), `WsWrite`. Three tasks per session:

| task | actions |
|---|---|
| pipe task | `PipeTake`, `PipeSign`, `PipeGivesUp`, `PipePends` (the channel is not open) |
| receive task | `Handshake`, `Response`, `PeersSync`, `PingArrives`; `LockKeys`, `Answer`, `Verified`, `Report` |
| `on_open`, then the ping loop (`link`) | `OpenChannel`, `PingTick` |
| whichever of them is in `send_chunked_binary` | `Write` (lock and frames), `Drain` (below `LOW_WATER` again) |

`writer[p]` holds `dc_write_lock` while the buffer is too full; only a peer that is there drains it.
`WaitsFor` says which task must move before a task can; `Stuck` are the tasks that wait for a circle.

**Keepalive.** `Open` (`on_open` begins to send), `Spawn` (it is done and starts the loop), `TickPing`,
`TickTimeout`, `TickEnds`, `TickPanics` (the ticks by what they find), `PingSent` (`send_chunked_binary`
returns: at any time, or never), `Pong`, `SetTimeouts` with `Sanitised`, `SetClock`, `PeerDies`, `Close`,
`Advance`. `due` is the schedule of the interval, from which ticks may be late in any measure, so that
missed ones follow each other at once. The panic is a debug build's; a release build wraps and so times
out.

**RateLimiter.** `SetLimit`, `Begin` (the limit is read), `Acquire` (lock, refill, charge, return or
sleep), `Wake`, `Advance`; `Mark` lets an observer count from some moment on.

**Renegotiation.** `Change` and `Interrupt` spawn a task; `TakeLock`, `CreateOffer` or `OfferNotMade`,
`SendOffer` or `OfferRefused`, `GiveBack` are its steps, in which a wait ends with the stable state or by
timeout; `SetRemoteOffer` or `OfferFails`, `SendAnswer` or `AnswerFails`, `Answered` or
`AnswerNotApplied` are the handlers. The second of each pair is the library's call failing: because of
the signaling state, or for a reason of its own (`Fails`), with the new state entered or not.

**DesktopStreams.** `Receive` queues a request; `Deny`, `Update`, `Start`, `StartFails`, `Stop`
handle it; `DropClient`, `CleanUp`, `ClosePc` end the session in the orders the code allows; `Encode`
and `LoopEnds` are the capture loop.

**MessageAccess.** The kinds of messages with `NamingKinds` and `AllowedTypes` after the tables of
`p2p.rs`. A message goes through the stages of `handle_incoming_p2p_message`: `Take`, `Check` (MAC),
`Wait` (for authentication), then `HandleDesktop` or `GiveToApplication` (`on_p2p_message`, before any
access check), then `HandleMessage` or `Refuse` (`process_message`). A Handshake goes through `Greet`
or `HandleHandshake`, `RejectHandshake` and `AcceptHandshake`, with new keys for the own resources of the
types it asks for; `TakeResponse` takes keys, unverified, for any set of ids, the node's own among them;
`HandleGoodbye` and `Shutdown` clear all keys. `revoked` are the resources without a key since then and
`strays` counts the messages on such that were given on.

## 3 Runs

| run | instance | distinct states | shows |
|---|---|---|---|
| `tunnel_registry_two` | 2 nodes, 2 connections, 1 crash, signal channel of 1 | 533 000 | `AuthenticBinding`, `NoDanglingEntry`, `NoSpuriousTeardown`, `QuietAgreement`, `OwnRemovalOnly`, `ImplementsTunnelMap` |
| `tunnel_registry_live` | same without crash or symmetry | 235 000 | `BrokenSessionEnds` |
| `chunked_channel` | 2 writers, 2 messages of 0..5 bytes, chunk sizes 1..4 | 10 000 | `DeliveredInOrder`, `NothingLeftOver`, `EventuallyDelivered` |
| `session_handshake` | 2 nodes, one application message each | 522 000 | `KeyAgreement`, `TokensBounded`, `TokensMoveForward`, `HandshakeCompletes` |
| `peer_orchestrator` | 4 session ids per node, any way of signaling, 1 disturbance of 10 kinds and another of 2 | 513 000 | `NoOrphan`, `DeadSessionWatched`, `WorkingSessionKept`, `Reconnect` |
| `tunnel_traffic` | 2 nodes, 1 link, a signal each way, every capacity full after 1 message | 306 000 | `DecryptedInOrder`, `CircularWaits`, `JammedForever`, `RouteEnds`, `SignalArrives` |
| `command_flow` | 1 session, queues of 1, 3 commands, 1 tick, 1 PeersSync | 345 000 | `CircularWaits`, `CommandsHandled` |
| `keepalive` | 8 units of time, a delay and a round trip of 1, 1 change of timeouts, 1 step of the clock | 6 740 000 | `NoFalseTimeout`, `DeadPeerNoticed`, `LoopWatches` |
| `rate_limiter` | 2 sessions, 4 messages of 2 sizes, limits none/floor/above, 6 units of time | 1 360 000 | `Throttled`, `WindowThrottled`, `AllGetThrough` |
| `renegotiation` | both ends share, 3 changes, 1 restart, 1 failure of the library | 911 000 | `SettlesStable`, `WedgedForever`, `ChangesNegotiated` |
| `desktop_streams` | 1 connection, 2 shared resources and 1 other, 4 requests | 288 000 | `NothingLeftRunning`, `StoppedAfterDrop` |
| `message_access` | every kind of message, 3 keys per resource, 1 shutdown | 1 590 000 | `HandledIsVerified`, `OneAfterShutdown` |

`TypeOK` of TunnelRegistry is checked by `tunnel_registry_two`. The other modules' `TypeOK` state
what their variables hold; they hold on the same instances (add `INVARIANT TypeOK` to the .cfg) and
are left out of the runs, which are about behaviour. All properties hold.

**Bounds.** *Tunnels:* two connections are what crossing dials, a redial after a loss and the
late exit of a stale session need. `Announced` says whose keys a node may be told; with `MCAllKeys` its own
key is among them (a list of the server or of a peer may hold the node itself), so a stale address may lead to a node
that knows the dialer even with two nodes, which is all that `AuthenticBinding` needs
(three nodes with one connection, 84 000 states, hold too). The signal channel holds one signal
so that it fills. (The safety properties are proved for all values, section 4.) *Chunks:*
`Word` 5 stands for 2^16 and `Default` 4 for 65535, the largest chunk; lengths below, at and
above multiples of each size occur, and zero. *Handshake:* one application message per node is
enough to block the pipe, to be parked, and to meet the handshake in every order; `AppKinds`
are one kind of message per way the tasks treat them. *Orchestration:* four session ids per
node, used again once nothing refers to them, are enough for a session in the map, one being
closed, one that was abandoned and a new one. `Top` (the last rung of the redial ladder) is 2 and waiting is a flag,
since only the order of events matters. `MaxEvents` bounds the disturbances, not the length of
behaviours: after them the nodes redial and recover for as long as they like. `Again` are the kinds
that may come on top of another disturbance: an interruption and a change of the limit, those that
meet sessions already in recovery. (The safety properties are proved for any number and kind of
disturbances.) *Queues* (`tunnel_traffic`, `command_flow`): what matters is a queue that is
full, so all hold one element, and a socket one packet (length and body). In
`command_flow` the tick calls the peer and three commands fill pipe, manager and queue. With two
sessions, two commands and no PeersSync (2 219 000 states up to symmetry) `CircularWaits` holds too, and
`ThreeJams` proves it for any number of sessions. *Keepalive:* two
intervals and two timeouts after sanitising, and time for the longest timeout to pass, with the delay and
round trip that make the bounds of `FittingTimeout` tight. *Limiter:* a
message smaller and one larger than what a unit brings at any limit; three sessions (1.4 million)
hold too. *Renegotiation:* three changes are an offer made during an outstanding one and a third
behind the lock; one failure of the library may fall on each of its calls. *Desktop:* four requests start both streams and
stop or change them; streams of different connections touch only their own keys, and two connections
(540 000) hold too. *Messages:* every kind is there; three keys per resource are an old one, a new one and
one made after a shutdown.

**Deadlock** is not checked: a network of nodes may come to rest (all connections used,
messages delivered, a session in place). That it does not come to rest in the wrong place is
what the liveness properties and `QuietAgreement`, `NothingLeftOver`, `KeyAgreement` say.

**Symmetry** of nodes and connections is used in `tunnel_registry_two` only.

**Fairness** is weak fairness of single tasks, but for one: the pipe task's write in CommandFlow is
strongly fair, since tokio's mutex hands `dc_write_lock` over in the order of the requests. The code justifies it: tokio runs every task that
is ready; the tunnel map's lock is released in bounded time as long as the queues sent to under it
have room (listed as a hazard where it may not); the manager's select loop goes on receiving;
timers fire; a signal arrives while there is a way for it; ICE comes to a result, success for a
pair of sessions that have each other's descriptions, failure for others. Nobody is obliged to
dial, call, learn, lose, fail or crash. In TunnelTraffic and CommandFlow a task whose step waits for
a lock or for room is not enabled, so fairness grants it nothing while it is stuck: the lock and the
queues are in the model and not assumed to come free; nor is the channel of a peer that is gone assumed
to drain. In Renegotiation a wait may end by timeout at
any moment; in DesktopStreams an encoder can be made in the end.

**What the runs show in particular.**

- `NoSpuriousTeardown` and `OwnRemovalOnly` depend on the comparison of `connection_id` in
  `run_tunnel_loop`; `AuthenticBinding` on the signature covering the target's id;
  `BrokenSessionEnds` on the loop ending when its queue is closed.
- `NothingLeftOver` depends on the terminator frame for lengths that are multiples of the chunk
  size. An empty message is a lone terminator, which the receiver ignores.
- `HandshakeCompletes` depends on the polling limit of the pipe: without it two nodes that queue
  a command before the handshake wait for each other for ever.
- `Reconnect` has an exception, `Stranded`: a dial whose offer or answer was lost, refused or
  failed stays in `active_peers` in state New, where ICE never starts and so never fails, and
  `handle_tick` skips peers that are in the map. It stays until something else (a call, an
  offer of the peer, a list) replaces it. Without the exception TLC finds such a behaviour.
- *Circular waits in tunnels.* `CircularWaits` says there are exactly two: a task that holds the map's
  lock waits for room in a queue whose loop waits for the lock (or for a manager that does), and two
  ends that both write with full buffers. The first is for ever (`JammedForever`): not even losing the
  connection ends it, since the loop that would notice is in the circle. With the code's capacity of
  100 both need a burst of messages; the model's capacities make it happen early.
- *A torn packet.* `select!` drops `read_packet` when a message is to be sent. Because every packet
  carries the next nonce, what follows is never taken for something else (`DecryptedInOrder`); the end
  just ignores everything from then on, or ends when a length makes no sense, which is why
  `SignalArrives` excuses a link with a torn packet.
- *Silence.* There is no keepalive in a tunnel: a silent link keeps its entry, and `RouteEnds` and
  `SignalArrives` excuse it.
- *Circular waits among a node's tasks.* Three: the manager waits for room in the queue only it
  empties; a receive task with the keys locked waits for the pipe whose task waits for the keys; and the
  manager waits for room in the pipe of a peer that is gone, whose task waits for a buffer that never
  drains (`send_chunked_binary` has no way out of its loop), or for the lock of a writer that does, while
  only the manager would drop the session, and with it everything that waits. All three occur in the run.
  There are no others, and apart from these every command is handled.
- *A session without an owner.* When `create_offer` or `accept_offer_and_answer` fails, the peer connection
  made for it is dropped without `close`, and dropping it does not close it. `NoOrphan` says that this is
  the only way a session is left without an owner, that no map names it later and that it stays open.
- *The keepalive behind bulk traffic.* A ping waits for `dc_write_lock` and the buffer within its tick, so
  the ticks after it may come late and in a burst. `NoFalseTimeout` therefore speaks of a session whose
  ticks and pings were never more than `Delay` late, and needs a timeout of the interval the loop *started*
  with, that delay and a round trip (and as much from the session's creation to the first answer): the
  three intervals of `set_timeouts` leave two for delay and answer, but only for the new interval.
  `DeadPeerNoticed` says when the look at a vanished peer is due; a send that never returns keeps the loop
  from it for ever, and then only the ICE timers report the session to the manager, which may itself be in
  the third circle above.
- *The wall clock.* Set back, it makes the keepalive's difference underflow: the channel is closed
  early or, in a build with overflow checks, the loop panics and nobody watches the channel. Without
  it `LoopWatches` and `DeadPeerNoticed` hold.
- *Glare.* Offers of both ends that meet wedge the session for good (`WedgedForever`): the code never
  rolls an offer back. With one end offering it settles stable whatever times out, and up to date
  unless a wait timed out, as long as no message is lost and no call of the library fails by itself: an
  error while an offer is made, set, answered or applied is logged, and the offer is not repeated.
- *Access.* `on_p2p_message` gets a verified message on any resource the peer has a key for, of
  whatever type, before the access check of `process_message`; so what holds of everything given on
  is `HandledIsVerified`. A shutdown lets one message through (`OneAfterShutdown`), until a key exists again, which a
  `HandshakeResponse` that was queued may bring for any id.
- *A late start.* A request handled after the clean-up and before the close starts a stream that no
  request or clean-up reaches any more; it is the only way (`NothingLeftRunning`). A stream whose loop
  ended by itself keeps its entry and has to be stopped before it can be started again.

## 4 Proofs

Eight modules prove the safety of a component with TLAPS, seven modules `XProofs` that of module `X`, and
`OpenSessionProofs` that of MessageAccess, DesktopStreams, Renegotiation and ChunkedChannel, which share no
state and so are extended side by side (hence the prefixes of the first three's `Init`, `Next` and `Spec`). All is for every value of the
constants: any nodes (two in PeerOrchestrator and SessionHandshake, which are about a pair), sessions
and capacities, and any bound on the disturbances, so that what the runs show for one or two
disturbances holds for any number of them. In each, `IInv` is the
inductive invariant, `InitIInv` and the step lemmas (one case per action) show that it is one, and
the theorem `Inductive` is `Spec => []IInv`; in OpenSessionProofs they are called `AccessInv`, `AccessFirst`,
`AccessInductive` and so on. No theorem needs fairness.

| module | theorem | statement: `Spec =>` |
|---|---|---|
| TunnelRegistryProofs | `Inductive` | `[]IInv` |
| | `TypeCorrect` | `[]TypeOK` |
| | `NoDangling` | `[]NoDanglingEntry` |
| | `Binding` | `[]AuthenticBinding` |
| | `NoSpurious` | `[]NoSpuriousTeardown` |
| | `Agreement` | `[]QuietAgreement` |
| | `RemovalByOwner` | `OwnRemovalOnly` |
| | `Refinement` | `ImplementsTunnelMap` |
| PeerOrchestratorProofs | `Inductive`, `TypeCorrect` | `[]IInv`, `[]TypeOK` |
| | `NothingOrphaned` | `[]NoOrphan` |
| | `DeadAreWatched` | `[]DeadSessionWatched` |
| | `WorkingKept` | `WorkingSessionKept` |
| SessionHandshakeProofs | `Inductive` | `[]IInv` |
| | `ThreeTokens` | `[]TokensBounded` |
| | `Agreement` | `[]KeyAgreement` |
| | `Forward` | `TokensMoveForward` |
| TunnelTrafficProofs | `Inductive`, `TypeCorrect` | `[]IInv`, `[]TypeOK` |
| | `InOrder` | `[]DecryptedInOrder` |
| | `TwoCircles` | `[]CircularWaits` |
| | `JamLasts` | `JammedForever` |
| CommandFlowProofs | `Inductive` | `[]IInv` |
| | `ThreeJams` | `[]CircularWaits` |
| KeepaliveProofs | `Inductive` | `[]IInv` |
| | `Watching` | `[]LoopWatches` |
| | `NoticedInTime` | `[]DeadPeerNoticed` |
| | `HealthyKept` | `NoFalseTimeout` |
| RateLimiterProofs | `Inductive`, `TypeCorrect` | `[]IInv`, `[]TypeOK` |
| | `LimitKept` | `[]Throttled` |
| | `LimitKeptFromAnyMoment` | `[]WindowThrottled` |
| OpenSessionProofs, MessageAccess | `AccessInductive` | `[]AccessInv` |
| | `VerifiedFirst` | `[]HandledIsVerified` |
| | `ShutdownStops` | `[]OneAfterShutdown` |
| OpenSessionProofs, DesktopStreams | `StreamsInductive` | `[]StreamsInv` |
| | `NothingLeft` | `[]NothingLeftRunning` |
| OpenSessionProofs, Renegotiation | `SdpInductive`, `SdpTypeCorrect` | `[]SdpInv`, `[]SdpTypeOK` |
| | `Settled` | `[]SettlesStable` |
| | `StaysWedged` | `WedgedForever` |
| OpenSessionProofs, ChunkedChannel | `ChannelInductive`, `ChannelTypeCorrect` | `[]ChannelInv`, `[]TypeOK` |
| | `InOrder` | `[]DeliveredInOrder` |
| | `ChannelEmptied` | `[]NothingLeftOver` |

**Assumptions** are those the modules state about their constants, and nothing else. Most say that a
constant is a number, or that `None` is none of the things it stands for the absence of. Finiteness is
assumed of `Peers` (CommandFlow), `Links` (TunnelTraffic), `Connections` and `Shareable`
(DesktopStreams), `Sessions` and `Sizes` (RateLimiter), which a running node always has finitely many of;
`Ends` (Renegotiation) are two. The keepalive's `MaxTimeout` is at
least three of its `MaxInterval`, as the constants of the code are.

**TunnelRegistry.** None of the properties is inductive by itself. `IInv` is the conjunction of

- `TypeOK`;
- `ConnShape`: what the phases of the two ends say about the connection. In particular the
  acceptor has answered only a handshake addressed to it, and the dialer is registered only
  after the acceptor has answered. It gives `AuthenticBinding` its second half: the other end
  belongs to the peer.
- `RegShape`: an entry is keyed by its end's owner and peer, and its task still runs. It
  implies that an end is in at most one place of one map, which is why an overwritten session
  can be told by looking at its own entry.
- `Reasons`: a running session that is not in the map was superseded, and one that left its
  loop has an excuse. It links the loop's end (queue closed) to the history of overwriting.

`StableEnds` and `ExcusedStable` say what no step changes about an end that is under way.
`QuietAgreement` follows without induction of its own: in a quiet state a registered session is in its
loop with its stream up, so the other end has not closed and, having been registered, is in its loop
and in the other map.

`Refinement` says that every behaviour of the registry is one of the abstract map. Its proof rests on
`Inductive`: `IInv` says that an entered session is live and in its own place only, so that taking it
out there is the abstract `End`, which takes it out everywhere, and that a crash's sessions are in no
other node's map. `LifeFacts`, `OneLife` and `SameLife` relate `pc` to the abstract lives;
`InsertRegisters`, `FailureAbandons`, `LeaveEnds` and `CrashResets` map the actions that are not
stutters.

**PeerOrchestrator.** `NoOrphan` and `DeadSessionWatched` need types, the types of what is queued and
on the way, and `Owned`: a map names its own node's sessions, and none that was taken out before
(else a session could be closed while it is in the map, and its report would go to the other manager).
An abandoned session was never in a map, so none of the commands and reports concerns it.
Steps are sorted by what they do to the sessions: nothing (`Undisturbed`), take one out of a map
(`Removing`), put a new one in (`Replacing`), move one to another state (`Moving`), or hand a dead one
from one watcher to the next (`StillWatched`). The crux is that a manager takes a report out of its
queue only by acting on it or because it names another session. `WorkingKept` follows by looking at
the handlers that change a map: in a working connection `Reapable` is false.

**SessionHandshake.** `KeyAgreement` is about a settled session, and its invariant about everything on
the way there: nothing of the handshake is parked (`Parked`), a node sends one Handshake (`Greetings`),
the tokens made are determined by what was received (`Stages`), and along wire and pipe the tokens
increase and are newer than the one held, the newest having arrived or being under way (`Paths`). When
nothing is under way the newest has therefore arrived.

**TunnelTraffic.** `Decrypted` compares what was decrypted with what was encrypted by position, which the
nonces and the numbers on the wire (`Wires`) preserve whatever `select!` tears apart. `Locks` says who
holds the map's lock and into which queue he sends: the walk along the waits from any stuck task ends in
one of the two circles. For `JamLasts` the circle is named by the queue waited for (`JamAt`), and the step
shows that none of its tasks can move.

**CommandFlow.** `KeysHeld` (the keys are locked only while a Handshake is answered) and `HolderWrites` (the
holder of `dc_write_lock` is one that has something to write) rule longer circles out: the receive task waits
neither for the manager nor for the channel with the keys locked, and who waits for the lock waits for one
that waits for the channel only.

**Keepalive.** The invariant relates the pings in flight, the last pong answered and the next tick. Pings
were due one interval apart and left no more than `Delay` after that (`Spaced`); an answer brings a time that
is no more than one interval before the next ping was due, unless the first is still to be answered
(`Answers`, with `Stamps` for the order of the times); the last tick did not find the peer overdue
(`Watched`). So at a tick the last pong is at most an interval, a delay and a round trip old, which a fitting
timeout allows (`HealthyTick`). How late or bunched the ticks are makes no difference beyond `Delay`, and
`Inductive`, `Watching` and `NoticedInTime` do not need even that.

**MessageAccess.** `VerifiedOnce` carries the result of the MAC check across the wait for authentication
during which keys are replaced or cleared; `Past` says what the stages behind it may rely on; `Cleared` says
that a resource whose key was cleared has none, and that once a message on such a resource was given on no
other is past its check.

**DesktopStreams.** `Captured` ties capture to the entries and `LateShape` the entries of a finished session
to the late starts.

**Renegotiation.** `SettlesStable` is about the case that one end only makes offers, and its invariant about
the other one, the `Passive` end: it only answers (`Answering`), and an offer of the first end that is
outstanding is on its way, set, or answered, unless something was lost or a call of the library failed. `Versions` bounds what is offered and
answered by the tracks, for the types. `StaysWedged` needs no more than types: in a wedged session both ends
wait for an answer and only offers are under way, and every handler of an offer drops it.

**RateLimiter.** `Throttled` compares a sum over messages that went through with what the highest limit
allows, and what keeps it true is the sum that the sleeping tasks still owe. The invariant avoids sums: it
says that there is a set of numbers for the bytes that went through and one for each sleeping task's message,
disjoint and of the right sizes (`Kept`), the numbers being those of the charges. A task that wakes hands its
set over; a task that is charged gets the next numbers. A task sleeps until the highest limit has paid for
the last of its numbers (`Cap`), whatever limit it read, and `Budget` relates the bucket to the last number.
There are two such accounts, since the first charge and since the observer's mark, the second with the unit's
worth the bucket may hold.

**ChunkedChannel.** No recursion over the frames is needed. The invariant says that the future of what is on
the wire can be told (`Foresight`): there are two functions, `B` for the assembler's buffer and `D` for the
number of messages delivered, which begin with the present values, go on as `Push` does (`Turns`), complete
only the message that is expected next, and end where the sender is: on an empty buffer with everything
delivered, or before the `i`-th frame of the message being sent (`Sending`). Sending a frame appends a point
to both functions, receiving one drops the first point, and a closed channel asks nothing of the last. That the
assembler takes a frame as it was cut is `FrameTaken`: the buffer holds the bytes before it, a full chunk adds
to them, and a short one or the terminator ends the message. It rests on the division into chunks
(`Division`, `FramesOf`, `ChunkFacts`), so it covers the lengths at, below and above a multiple of the chunk
size, and every chunk size of 1 to `Word - 1`. A chunk size beyond that would not fit the length field; no
node declares one.

**Only model-checked:** the liveness properties of all modules (fairness and `ENABLED` are beyond the
prover).

## 5 Abstractions and assumptions

- *Cryptography* is what it decides: a signature verifies when it was made by the claimed
  signer for the claimed target and the verifier knows the key. Tokens are distinct.
- *Tunnels.* In TunnelRegistry the traffic inside `run_tunnel_loop` is left out; a connection that
  breaks does so for both ends, at any moment. In TunnelTraffic each link has one connection that is
  not replaced; messages that come in while it is silent, and lookups of the map that wait for nothing,
  are left out; a garbage length either passes for one or ends the loop.
- *Chunks.* Both nodes declare the same `max_chunk_size` (every node declares 10240); the channel is ordered and reliable
  until it closes.
- *Handshake.* Each node shares one resource. A closed channel is not reopened.
- *Orchestration.* An SDP is the session it describes. New and Connecting are one state.
  Sessions given each other's descriptions connect or, in a disturbance, fail; other pairings
  fail. The initial state is the one after the first attempt to reach the server (before it the
  tick does nothing). Local discovery is enabled. A restart offer is sent directly instead of
  through the manager's `NetCmd::Send`. An answer to a restart that describes another session
  leaves the session Disconnected, as DTLS cannot go on with it. The command queue is unbounded here;
  CommandFlow bounds it.
  ICE candidates and the contents of `PeersSync` are left out. There is one peer per node; other
  peers appear as slots that are taken. A timer of seconds ends before the nodes have worked off
  what was under way only as a disturbance of kind "delay"; likewise the reaping of a young
  session that could still connect.
- *Command queues.* A command is what the manager waits for while it handles it. A session that is
  dropped is replaced by a fresh one. Handlers of the application return. The limiter's sleeps end, so they
  are not steps of their own. The several waits of one long message for the buffer are one wait. The tasks of
  a session that was dropped are not followed: its pipe and locks are its own. `CommandsHandled` assumes that a peer
  that is there takes what is buffered for it in the end.
- *Keepalive.* Time goes in units; a ping that was sent is answered within `Rtt` while the peer lives; a send
  in the loop or before it takes any time, and what holds it up is in CommandFlow. Once the channel is closed
  the passing of time is not followed any more.
- *Limiter.* Whole tokens; a sleep lasts at least its time. The limit is enforced for the messages the
  code charges (file chunks and HTTP response chunks).
- *Renegotiation.* A failure of the library is counted (`failures`), and `SettlesStable` and
  `ChangesNegotiated` are about sessions without one. An offer is the version of the offerer's tracks. Whether the library lets a second
  local offer replace an outstanding one depends on its version; both may happen.
- *Desktop.* Sizes and bitrates are one parameter; capture, conversion and codec either work or fail.
- *Messages.* A MAC is the key it was made under and the resource it is for; the payload is left out. The
  keys a peer brings are new ones, as are those a node makes.

## 6 Not modelled

- *Cryptography* (`crypto.rs`): algorithms of libraries; what they decide is in the models.
- *Accounts* (`auth.rs`, `account.rs`): single HTTP requests, no state of their own.
- *Wire types*: data declarations.
- *Launcher*: an interface the application implements, set once; no state of its own.
- *Video*: frame sizes, colour conversion, the codec (`video_utils.rs`), and input events.
- *The mDNS daemon*: a library; what it reports are inputs.
- *ICE candidates, the connection-type poller, message formats of the server*: no part in the
  properties.
- *Chunk sizes that differ or change*: `max_chunk_size` is the same constant in every node.
- *A second network manager in one process* (it would take over `SIGNAL_TX`).
- *A bad private key after the port was stored* (`LOCAL_TCP_PORT`): modelled as a server that never
  listens; there is no property about it.
- *The peer limit with several peers*: the limit is slots that are full; recovering sessions, which do
  not count, are not told apart from free ones.

## 7 Plan

Done: TunnelRegistry and TunnelMap with proofs; Chunking and ChunkedChannel; SessionHandshake;
PeerOrchestrator; TunnelTraffic; CommandFlow; Keepalive; RateLimiter; Renegotiation;
DesktopStreams; MessageAccess. Proved: the safety of all of them. What could be added: the peer limit
with recovering sessions told apart from free slots, and chunk sizes that differ between the ends.

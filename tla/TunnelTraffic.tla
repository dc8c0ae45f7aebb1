---------------------------- MODULE TunnelTraffic ----------------------------
(***************************************************************************)
(* What travels through the local-mesh tunnels of p2p-node/src/local_mesh.rs *)
(* and who waits for whom while it does.                                   *)
(*                                                                         *)
(* Each end of a link registers a session with a bounded queue in its      *)
(* node's map and runs run_tunnel_loop, which alternates between writing   *)
(* the queue's messages to the stream and reading packets (a length, then  *)
(* a body) from it.  A packet is encrypted with the next Noise nonce and   *)
(* decrypts only as the next one.  select! drops the read that is under    *)
(* way whenever the queue has a message: bytes already taken are gone.     *)
(*                                                                         *)
(* The map is behind one lock per process.  route_rtc_signal, the answer   *)
(* to RequestTopology and the dialer's own request all wait for room in a  *)
(* session's queue while they hold it; the loop that would make room, and  *)
(* the network manager, wait for the same lock elsewhere.                  *)
(*                                                                         *)
(* Establishing, overwriting and redialling sessions is in TunnelRegistry; *)
(* here every link has one connection.  Lookups of the map that release    *)
(* the lock without waiting for anything, other than the manager's, are    *)
(* left out.                                                               *)
(***************************************************************************)
EXTENDS Naturals, Sequences, FiniteSets, SequencesExt

CONSTANTS Nodes,      \* node ids
          Links,      \* tunnels, as <<dialer, acceptor>>
          Signals,    \* RTC signals to route, as <<from, to, number>>
          None,       \* the lock is free, there is no message
          QueueCap,   \* capacity of a session's queue (100 in the code)
          SignalCap,  \* capacity of SIGNAL_TX (100 in the code)
          WireCap,    \* what the socket buffers of one direction hold
          Attempts,   \* attempts of route_rtc_signal while offline (10)
          MaxEvents   \* bound on lookups of the managers and on links that fail

ASSUME TrafficAssumption ==
    /\ Links \subseteq Nodes \X Nodes /\ IsFiniteSet(Links)
    /\ \A l \in Links : l[1] # l[2] /\ <<l[2], l[1]>> \notin Links
    /\ Signals \subseteq Nodes \X Nodes \X Nat
    /\ \A s \in Signals : s[1] # s[2]
    /\ {QueueCap, SignalCap, WireCap, Attempts} \subseteq Nat \ {0}
    /\ MaxEvents \in Nat

\* The end of a link at its owner: <<owner, peer>>.
Ends == Links \cup {<<l[2], l[1]>> : l \in Links}
Owner(e) == e[1]
Peer(e) == e[2]
Other(e) == <<e[2], e[1]>>
LinkOf(e) == IF e \in Links THEN e ELSE Other(e)

From(s) == s[1]
To(s) == s[2]

\* The messages that are not signals, and the manager's TunnelEstablished.
Request == <<"RequestTopology">>
Response == <<"ResponseTopology">>
Established == <<"TunnelEstablished">>

VARIABLES
    pc,         \* per end: where the task of its session is
    msg,        \* per end: the message it is writing or handling
    queue,      \* per end: the session's queue (rx of run_tunnel_loop)
    wire,       \* per end: what it has written and the peer has not read
    sent,       \* history, per end: messages encrypted so far
    received,   \* history, per end: messages decrypted so far
    torn,       \* history: ends that dropped a packet half read
    up,         \* ends in their node's map
    ask,        \* per end: the dialer's task that requests the topology
    route,      \* per signal: its route_rtc_signal task
    tries,      \* per signal: attempts made
    lock,       \* per node: the task that holds the map, or None
    signals,    \* per node: the SIGNAL_TX channel
    mgr,        \* per node: the manager, waiting for the lock or not
    lookups,    \* number of lookups so far
    delivered,  \* history, per node: signals the manager received
    lost,       \* links whose stream reports errors at both ends
    silent      \* links on which nothing arrives any more, without an error

streamVars == <<wire, sent, received, torn>>
routeVars == <<route, tries>>
managerVars == <<mgr, lookups, delivered>>
faultVars == <<lost, silent>>
vars == <<pc, msg, queue, streamVars, up, ask, routeVars, lock, signals,
          managerVars, faultVars>>

-----------------------------------------------------------------------------
Init ==
    /\ pc = [e \in Ends |-> "connected"]
    /\ msg = [e \in Ends |-> None]
    /\ queue = [e \in Ends |-> <<>>]
    /\ wire = [e \in Ends |-> <<>>]
    /\ sent = [e \in Ends |-> <<>>]
    /\ received = [e \in Ends |-> <<>>]
    /\ torn = {}
    /\ up = {}
    /\ ask = [e \in Ends |-> "off"]
    /\ route = [s \in Signals |-> "off"]
    /\ tries = [s \in Signals |-> 0]
    /\ lock = [n \in Nodes |-> None]
    /\ signals = [n \in Nodes |-> <<>>]
    /\ mgr = [n \in Nodes |-> "free"]
    /\ lookups = 0
    /\ delivered = [n \in Nodes |-> <<>>]
    /\ lost = {}
    /\ silent = {}

Free(n) == lock[n] = None
Grant(n, t) == lock' = [lock EXCEPT ![n] = t]

HasRoom(e) == Len(queue[e]) < QueueCap
Enqueue(e, m) == queue' = [queue EXCEPT ![e] = Append(@, m)]
Goto(e, label) == pc' = [pc EXCEPT ![e] = label]

\* The stream reports an error or an end of file to the task of e.
Down(e) == LinkOf(e) \in lost \/ pc[Other(e)] = "ended"

-----------------------------------------------------------------------------
(* A session starts: registered under the lock, announced to the manager,  *)
(* then its loop is spawned, and the dialer asks for the topology.         *)

\* Variant: the map stays locked after the insertion.
InsertKeepsLock(e) ==
    /\ pc[e] = "connected"
    /\ Free(Owner(e))
    /\ up' = up \cup {e}
    /\ Grant(Owner(e), <<"loop", e>>)
    /\ Goto(e, "announcing")
    /\ UNCHANGED <<msg, queue, streamVars, ask, routeVars, signals, managerVars,
                   faultVars>>

\* tunnels.insert under the lock.
Insert(e) ==
    /\ pc[e] = "connected"
    /\ Free(Owner(e))
    /\ up' = up \cup {e}
    /\ Goto(e, "announcing")
    /\ UNCHANGED <<msg, queue, streamVars, ask, routeVars, lock, signals,
                   managerVars, faultVars>>

Announce(e) ==
    /\ pc[e] = "announcing"
    /\ Len(signals[Owner(e)]) < SignalCap
    /\ signals' = [signals EXCEPT ![Owner(e)] = Append(@, <<Peer(e), Established>>)]
    /\ Goto(e, "select")
    /\ ask' = IF e \in Links THEN [ask EXCEPT ![e] = "asking"] ELSE ask
    /\ UNCHANGED <<msg, queue, streamVars, up, routeVars, lock, managerVars,
                   faultVars>>

\* The dialer's task locks the map; the entry may already be gone.
AskLock(e) ==
    /\ ask[e] = "asking"
    /\ Free(Owner(e))
    /\ IF e \in up THEN Grant(Owner(e), <<"ask", e>>) ELSE UNCHANGED lock
    /\ ask' = [ask EXCEPT ![e] = IF e \in up THEN "holding" ELSE "done"]
    /\ UNCHANGED <<pc, msg, queue, streamVars, up, routeVars, signals,
                   managerVars, faultVars>>

\* session.tx.send(RequestTopology).await, still under the lock.
AskSend(e) ==
    /\ ask[e] = "holding"
    /\ HasRoom(e)
    /\ Enqueue(e, Request)
    /\ ask' = [ask EXCEPT ![e] = "done"]
    /\ Grant(Owner(e), None)
    /\ UNCHANGED <<pc, msg, streamVars, up, routeVars, signals, managerVars,
                   faultVars>>

-----------------------------------------------------------------------------
(* run_tunnel_loop: select! between the queue and the stream.              *)

Selecting(e) == pc[e] \in {"select", "partial", "garbage"}

\* rx.recv() wins: the read under way is dropped with the bytes it had taken;
\* the message is encrypted and its packet is to be written.
TakeMessage(e) ==
    /\ Selecting(e)
    /\ queue[e] # <<>>
    /\ msg' = [msg EXCEPT ![e] = Head(queue[e])]
    /\ queue' = [queue EXCEPT ![e] = Tail(@)]
    /\ sent' = [sent EXCEPT ![e] = Append(@, Head(queue[e]))]
    /\ torn' = IF pc[e] = "partial" THEN torn \cup {e} ELSE torn
    /\ Goto(e, "writing_length")
    /\ UNCHANGED <<wire, received, up, ask, routeVars, lock, signals,
                   managerVars, faultVars>>

\* write_packet: the length, then the body of the last message encrypted.
Write(e, part, next) ==
    /\ ~Down(e)
    /\ Len(wire[e]) < WireCap
    /\ wire' = [wire EXCEPT ![e] = Append(@, <<part, Len(sent[e])>>)]
    /\ Goto(e, next)
    /\ UNCHANGED <<msg, queue, sent, received, torn, up, ask, routeVars, lock,
                   signals, managerVars, faultVars>>

WriteLength(e) == pc[e] = "writing_length" /\ Write(e, "length", "writing_body")
WriteBody(e) == pc[e] = "writing_body" /\ Write(e, "body", "select")

WriteFails(e) ==
    /\ pc[e] \in {"writing_length", "writing_body"}
    /\ Down(e)
    /\ Goto(e, "exiting")
    /\ UNCHANGED <<msg, queue, streamVars, up, ask, routeVars, lock, signals,
                   managerVars, faultVars>>

\* Bytes can be read at e, and the first of them.
Readable(e) == wire[Other(e)] # <<>> /\ LinkOf(e) \notin silent \cup lost
NextBytes(e) == Head(wire[Other(e)])
Consume(e) == wire' = [wire EXCEPT ![Other(e)] = Tail(@)]

\* read_packet has taken the length and waits for the body.
ReadLength(e) ==
    /\ pc[e] = "select"
    /\ Readable(e)
    /\ NextBytes(e)[1] = "length"
    /\ Consume(e)
    /\ Goto(e, "partial")
    /\ UNCHANGED <<msg, queue, sent, received, torn, up, ask, routeVars, lock,
                   signals, managerVars, faultVars>>

\* Where handle_tunnel_message first waits: for the signal channel when the
\* signal is for this node, for the lock when it is to be forwarded or the
\* topology was requested.  A topology is taken in without waiting.
HandlerOf(e, m) ==
    CASE m = Request -> "want_lock"
      [] m = Response -> "select"
      [] OTHER -> IF To(m) = Owner(e) THEN "signal" ELSE "want_lock"

\* Variant: a packet decrypts whatever its nonce.
DecryptsAny(e, k) == TRUE

\* session.read_message: packet k authenticates only under its own nonce.
Decrypts(e, k) == k = Len(received[e]) + 1

\* read_packet is complete: decrypt, parse, handle_tunnel_message; a packet that
\* does not decrypt is ignored.
ReadBody(e) ==
    LET k == NextBytes(e)[2]
        m == sent[Other(e)][k]
    IN  /\ pc[e] = "partial"
        /\ Readable(e)
        /\ Consume(e)
        /\ IF Decrypts(e, k)
           THEN /\ received' = [received EXCEPT ![e] = Append(@, m)]
                /\ msg' = [msg EXCEPT ![e] = m]
                /\ Goto(e, HandlerOf(e, m))
           ELSE Goto(e, "select") /\ UNCHANGED <<received, msg>>
        /\ UNCHANGED <<queue, sent, torn, up, ask, routeVars, lock, signals,
                       managerVars, faultVars>>

\* The bytes at the front are not a length: they are either too large for one,
\* which ends the loop, or swallow what follows until a packet is complete that
\* does not decrypt.
ReadGarbage(e) ==
    /\ Readable(e)
    /\ \/ /\ pc[e] = "select"
          /\ NextBytes(e)[1] = "body"
          /\ \E label \in {"garbage", "select", "exiting"} : Goto(e, label)
       \/ /\ pc[e] = "garbage"
          /\ \E label \in {"garbage", "select"} : Goto(e, label)
    /\ Consume(e)
    /\ UNCHANGED <<msg, queue, sent, received, torn, up, ask, routeVars, lock,
                   signals, managerVars, faultVars>>

\* read_packet fails: an error, or the end of the stream once all is read.
ReadFails(e) ==
    /\ Selecting(e)
    /\ LinkOf(e) \in lost \/ (Down(e) /\ wire[Other(e)] = <<>>)
    /\ Goto(e, "exiting")
    /\ UNCHANGED <<msg, queue, streamVars, up, ask, routeVars, lock, signals,
                   managerVars, faultVars>>

\* The loop is over: the entry is removed under the lock; the queue and the
\* stream go when the task ends.
Leave(e) ==
    /\ pc[e] = "exiting"
    /\ Free(Owner(e))
    /\ up' = up \ {e}
    /\ Goto(e, "ended")
    /\ UNCHANGED <<msg, queue, streamVars, ask, routeVars, lock, signals,
                   managerVars, faultVars>>

-----------------------------------------------------------------------------
(* handle_tunnel_message                                                   *)

\* SIGNAL_TX.send(InboundRtcSignal { from_node_id: remote_node_id, .. }).await
SendSignal(e) ==
    /\ pc[e] = "signal"
    /\ Len(signals[Owner(e)]) < SignalCap
    /\ signals' = [signals EXCEPT ![Owner(e)] = Append(@, <<Peer(e), msg[e]>>)]
    /\ Goto(e, "select")
    /\ UNCHANGED <<msg, queue, streamVars, up, ask, routeVars, lock,
                   managerVars, faultVars>>

\* The session whose queue the reply or the forwarded signal goes to.
Outlet(e) == IF msg[e] = Request THEN e ELSE <<Owner(e), To(msg[e])>>

HandlerLock(e) ==
    /\ pc[e] = "want_lock"
    /\ Free(Owner(e))
    /\ IF Outlet(e) \in up
       THEN Grant(Owner(e), <<"loop", e>>) /\ Goto(e, "holding")
       ELSE Goto(e, "select") /\ UNCHANGED lock
    /\ UNCHANGED <<msg, queue, streamVars, up, ask, routeVars, signals,
                   managerVars, faultVars>>

\* Variant: a reply that finds the queue full is dropped.
HandlerSendTry(e) ==
    /\ pc[e] = "holding"
    /\ IF HasRoom(Outlet(e))
       THEN Enqueue(Outlet(e), IF msg[e] = Request THEN Response ELSE msg[e])
       ELSE UNCHANGED queue
    /\ Goto(e, "select")
    /\ Grant(Owner(e), None)
    /\ UNCHANGED <<msg, streamVars, up, ask, routeVars, signals, managerVars,
                   faultVars>>

\* session.tx.send(..).await under the lock: for a topology, into the queue
\* that this very loop is to empty.
HandlerSend(e) ==
    /\ pc[e] = "holding"
    /\ HasRoom(Outlet(e))
    /\ Enqueue(Outlet(e), IF msg[e] = Request THEN Response ELSE msg[e])
    /\ Goto(e, "select")
    /\ Grant(Owner(e), None)
    /\ UNCHANGED <<msg, streamVars, up, ask, routeVars, signals, managerVars,
                   faultVars>>

-----------------------------------------------------------------------------
(* route_rtc_signal, a task per signal, and the network manager.           *)

\* The manager spawns the task with the WebSocket sender it has, if any.
StartRoute(s) ==
    /\ route[s] = "off"
    /\ \E mode \in {"offline", "online"} : route' = [route EXCEPT ![s] = mode]
    /\ UNCHANGED <<pc, msg, queue, streamVars, up, ask, tries, lock, signals,
                   managerVars, faultVars>>

\* The session a signal is routed through.
ExitOf(s) == <<From(s), To(s)>>

\* Variant: the attempts of an offline node are not counted.
AttemptForever(s) ==
    /\ route[s] \in {"offline", "online"}
    /\ Free(From(s))
    /\ IF ExitOf(s) \in up
       THEN /\ Grant(From(s), <<"route", s>>)
            /\ route' = [route EXCEPT ![s] = "holding"]
       ELSE /\ route' = [route EXCEPT ![s] = IF @ = "online" THEN "cloud" ELSE @]
            /\ UNCHANGED lock
    /\ UNCHANGED <<pc, msg, queue, streamVars, up, ask, tries, signals,
                   managerVars, faultVars>>

\* An attempt: lock the map and look for the target.  Without a tunnel the
\* cloud is used when there is one; otherwise the task sleeps and tries again.
Attempt(s) ==
    /\ route[s] \in {"offline", "online"}
    /\ Free(From(s))
    /\ tries' = [tries EXCEPT ![s] = @ + 1]
    /\ IF ExitOf(s) \in up
       THEN /\ Grant(From(s), <<"route", s>>)
            /\ route' = [route EXCEPT ![s] = "holding"]
       ELSE /\ route' = [route EXCEPT ![s] = IF @ = "online" THEN "cloud"
                            ELSE IF tries[s] + 1 = Attempts THEN "given_up" ELSE @]
            /\ UNCHANGED lock
    /\ UNCHANGED <<pc, msg, queue, streamVars, up, ask, signals, managerVars,
                   faultVars>>

\* Variant: a signal that finds the queue full is dropped as if it were sent.
RouteSendTry(s) ==
    /\ route[s] = "holding"
    /\ IF HasRoom(ExitOf(s)) THEN Enqueue(ExitOf(s), s) ELSE UNCHANGED queue
    /\ route' = [route EXCEPT ![s] = "tunnel"]
    /\ Grant(From(s), None)
    /\ UNCHANGED <<pc, msg, streamVars, up, ask, tries, signals, managerVars,
                   faultVars>>

\* session.tx.send(p2p_msg).await under the lock.
RouteSend(s) ==
    /\ route[s] = "holding"
    /\ HasRoom(ExitOf(s))
    /\ Enqueue(ExitOf(s), s)
    /\ route' = [route EXCEPT ![s] = "tunnel"]
    /\ Grant(From(s), None)
    /\ UNCHANGED <<pc, msg, streamVars, up, ask, tries, signals, managerVars,
                   faultVars>>

ReceiveSignal(n) ==
    /\ mgr[n] = "free"
    /\ signals[n] # <<>>
    /\ signals' = [signals EXCEPT ![n] = Tail(@)]
    /\ delivered' = IF Head(signals[n])[2] = Established THEN delivered
                    ELSE [delivered EXCEPT ![n] = Append(@, Head(signals[n]))]
    /\ UNCHANGED <<pc, msg, queue, streamVars, up, ask, routeVars, lock, mgr,
                   lookups, faultVars>>

\* Links that are lost or have fallen silent.
Faulty == lost \cup silent

Event == lookups + Cardinality(Faulty) < MaxEvents

\* AutoConnect or StartRtcConnection while offline: the manager waits for the
\* lock to see whether there is a tunnel, and receives nothing meanwhile.
WantLookup(n) ==
    /\ mgr[n] = "free"
    /\ Event
    /\ lookups' = lookups + 1
    /\ mgr' = [mgr EXCEPT ![n] = "lookup"]
    /\ UNCHANGED <<pc, msg, queue, streamVars, up, ask, routeVars, lock,
                   signals, delivered, faultVars>>

Lookup(n) ==
    /\ mgr[n] = "lookup"
    /\ Free(n)
    /\ mgr' = [mgr EXCEPT ![n] = "free"]
    /\ UNCHANGED <<pc, msg, queue, streamVars, up, ask, routeVars, lock,
                   signals, lookups, delivered, faultVars>>

-----------------------------------------------------------------------------
\* The connection reports errors from now on, perhaps after a silence.
Lose(l) ==
    /\ l \notin lost
    /\ l \in silent \/ Event
    /\ lost' = lost \cup {l}
    /\ UNCHANGED <<pc, msg, queue, streamVars, up, ask, routeVars, lock,
                   signals, managerVars, silent>>

\* The peer or the network is gone without a word; the loop has no keepalive.
FallSilent(l) ==
    /\ l \notin Faulty
    /\ Event
    /\ silent' = silent \cup {l}
    /\ UNCHANGED <<pc, msg, queue, streamVars, up, ask, routeVars, lock,
                   signals, managerVars, lost>>

LoopStep(e) ==
    \/ Insert(e) \/ Announce(e) \/ TakeMessage(e)
    \/ WriteLength(e) \/ WriteBody(e) \/ WriteFails(e)
    \/ ReadLength(e) \/ ReadBody(e) \/ ReadGarbage(e) \/ ReadFails(e)
    \/ SendSignal(e) \/ HandlerLock(e) \/ HandlerSend(e) \/ Leave(e)

Next ==
    \/ \E e \in Ends : LoopStep(e) \/ AskLock(e) \/ AskSend(e)
    \/ \E s \in Signals : StartRoute(s) \/ Attempt(s) \/ RouteSend(s)
    \/ \E n \in Nodes : ReceiveSignal(n) \/ WantLookup(n) \/ Lookup(n)
    \/ \E l \in Links : Lose(l) \/ FallSilent(l)

\* Every task runs whenever it can go on.  With finitely many signals and
\* lookups no task can be overtaken for ever, so weak fairness is enough;
\* tokio's locks and channels are first come, first served anyway.  Nothing
\* obliges the manager to start a route or a lookup, or a link to fail.
Fairness ==
    /\ \A e \in Ends : WF_vars(LoopStep(e)) /\ WF_vars(AskLock(e) \/ AskSend(e))
    /\ \A s \in Signals : WF_vars(Attempt(s) \/ RouteSend(s))
    /\ \A n \in Nodes : WF_vars(ReceiveSignal(n) \/ Lookup(n))

Spec == Init /\ [][Next]_vars
FairSpec == Spec /\ Fairness

-----------------------------------------------------------------------------
(* Who waits for whom.  Every waiting task waits for exactly one other.    *)

Tasks == ({"loop", "ask"} \X Ends) \cup ({"route"} \X Signals)
            \cup ({"manager"} \X Nodes)

ASSUME NoneAssumption == None \notin Tasks

\* The task that must move before t can, or None when t can move, has ended
\* or waits for something outside (a silent stream, a queue to fill).
WaitsFor(t) ==
    CASE t[1] = "loop" ->
            LET e == t[2] IN
            CASE pc[e] \in {"want_lock", "exiting", "connected"} -> lock[Owner(e)]
              [] pc[e] = "holding" /\ ~HasRoom(Outlet(e)) -> <<"loop", Outlet(e)>>
              [] /\ pc[e] \in {"signal", "announcing"}
                 /\ Len(signals[Owner(e)]) = SignalCap -> <<"manager", Owner(e)>>
              [] /\ pc[e] \in {"writing_length", "writing_body"}
                 /\ ~Down(e) /\ Len(wire[e]) = WireCap
                 /\ LinkOf(e) \notin silent -> <<"loop", Other(e)>>
              [] OTHER -> None
      [] t[1] = "ask" ->
            LET e == t[2] IN
            CASE ask[e] = "asking" -> lock[Owner(e)]
              [] ask[e] = "holding" /\ ~HasRoom(e) -> <<"loop", e>>
              [] OTHER -> None
      [] t[1] = "route" ->
            LET s == t[2] IN
            CASE route[s] \in {"offline", "online"} -> lock[From(s)]
              [] route[s] = "holding" /\ ~HasRoom(ExitOf(s)) -> <<"loop", ExitOf(s)>>
              [] OTHER -> None
      [] OTHER -> IF mgr[t[2]] = "lookup" THEN lock[t[2]] ELSE None

Waiting == {t \in Tasks : WaitsFor(t) # None}

\* The tasks that wait, directly or through others, for a circle of tasks that
\* all wait for one another.
Stuck == UNION {S \in SUBSET Waiting : \A t \in S : WaitsFor(t) \in S}

\* Node n is held up: one of its tasks is stuck, or one of its links is silent.
HeldUp(n) ==
    \/ \E e \in Ends : Owner(e) = n /\ <<"loop", e>> \in Stuck
    \/ \E l \in silent : n \in {l[1], l[2]}

-----------------------------------------------------------------------------
Messages == Signals \cup {Request, Response}

\* The types of the state; queues, sockets and the signal channel within their
\* capacities, since every sender waits for room.
TypeOK ==
    /\ pc \in [Ends -> {"connected", "announcing", "select", "partial", "garbage",
                        "writing_length", "writing_body", "signal", "want_lock",
                        "holding", "exiting", "ended"}]
    /\ msg \in [Ends -> Messages \cup {None}]
    /\ queue \in [Ends -> Seq(Messages)]
    /\ \A e \in Ends : Len(queue[e]) <= QueueCap
    /\ wire \in [Ends -> Seq({"length", "body"} \X Nat)]
    /\ \A e \in Ends : Len(wire[e]) <= WireCap
    /\ sent \in [Ends -> Seq(Messages)] /\ received \in [Ends -> Seq(Messages)]
    /\ torn \subseteq Ends /\ up \subseteq Ends
    /\ ask \in [Ends -> {"off", "asking", "holding", "done"}]
    /\ route \in [Signals -> {"off", "offline", "online", "holding", "tunnel",
                              "cloud", "given_up"}]
    /\ tries \in [Signals -> 0..Attempts]
    /\ lock \in [Nodes -> Tasks \cup {None}]
    /\ signals \in [Nodes -> Seq(Nodes \X (Signals \cup {Established}))]
    /\ \A n \in Nodes : Len(signals[n]) <= SignalCap
    /\ mgr \in [Nodes -> {"free", "lookup"}] /\ lookups \in 0..MaxEvents
    /\ delivered \in [Nodes -> Seq(Nodes \X Signals)]
    /\ lost \subseteq Links /\ silent \subseteq Links

\* What an end has decrypted is, in order and without gaps, what the other end
\* encrypted first: whatever select! tears out of the stream, no message is
\* skipped, repeated or taken from the middle of another.
DecryptedInOrder ==
    \A e \in Ends : IsPrefix(received[e], sent[Other(e)])

\* Tasks get stuck in two ways only.  Either some node's map is locked by a task
\* that waits for room in the queue of a session whose own task is stuck, or
\* the two ends of a link both write and neither reads.
CircularWaits ==
    Stuck # {} =>
        \/ \E n \in Nodes : \E e \in Ends :
              /\ lock[n] \in Stuck
              /\ WaitsFor(lock[n]) = <<"loop", e>> /\ Owner(e) = n
              /\ Len(queue[e]) = QueueCap
        \/ \E e \in Ends : /\ WaitsFor(<<"loop", e>>) = <<"loop", Other(e)>>
                           /\ WaitsFor(<<"loop", Other(e)>>) = <<"loop", e>>

\* The circle that holds the map of n is within n: the loop its holder waits
\* for waits itself for the lock, or for a manager that does.
Jammed(n) ==
    /\ lock[n] \in Stuck
    /\ WaitsFor(WaitsFor(lock[n])) \in {lock[n], <<"manager", n>>}

\* Once the map of a node is jammed it stays locked: not even the loss of the
\* connection resolves it, since the task that would notice is in the circle.
JammedForever ==
    [][\A n \in Nodes : Jammed(n) => lock'[n] = lock[n] /\ Jammed(n)']_vars

\* A route_rtc_signal task ends, in a tunnel, in the cloud or by giving up,
\* unless its node is held up by a circular wait or by a silent peer.
RouteEnds ==
    \A s \in Signals :
        (route[s] \in {"offline", "online", "holding"})
            ~> (route[s] \in {"tunnel", "cloud", "given_up"} \/ HeldUp(From(s)))

\* A signal put in a tunnel arrives, unless the connection fails or falls
\* silent, one of its ends tore a packet (and ignores the rest, or ends the
\* session for both), or a task of one of the nodes is stuck.
SignalArrives ==
    \A s \in Signals :
        (route[s] = "tunnel") ~>
            \/ <<From(s), s>> \in ToSet(delivered[To(s)])
            \/ LinkOf(ExitOf(s)) \in lost \cup silent
            \/ {ExitOf(s), Other(ExitOf(s))} \cap torn # {}
            \/ HeldUp(From(s)) \/ HeldUp(To(s))
=============================================================================

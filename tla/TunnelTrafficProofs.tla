------------------------- MODULE TunnelTrafficProofs -------------------------
(***************************************************************************)
(* The traffic of the local-mesh tunnels, for any nodes, links, signals and *)
(* capacities: packets are decrypted in the order they were sent, tasks    *)
(* wait in two kinds of circles only, and a jammed map stays jammed.       *)
(***************************************************************************)
EXTENDS TunnelTraffic, FiniteSetTheorems, TLAPS

\* The labels of the tasks and the sets of ends and links; a session asks for the
\* topology only after it was announced.
Labels ==
    /\ pc \in [Ends -> {"connected", "announcing", "select", "partial", "garbage",
                        "writing_length", "writing_body", "signal", "want_lock",
                        "holding", "exiting", "ended"}]
    /\ ask \in [Ends -> {"off", "asking", "holding", "done"}]
    /\ route \in [Signals -> {"off", "offline", "online", "holding", "tunnel",
                              "cloud", "given_up"}]
    /\ mgr \in [Nodes -> {"free", "lookup"}]
    /\ torn \subseteq Ends /\ up \subseteq Ends
    /\ lost \subseteq Links /\ silent \subseteq Links
    /\ \A e \in Ends : pc[e] \in {"connected", "announcing"} => ask[e] = "off"

\* The queues of the sessions, within their capacity.
Queues ==
    /\ queue \in [Ends -> Seq(Messages)]
    /\ \A e \in Ends : Len(queue[e]) <= QueueCap

\* What is on the wire are parts of packets that were encrypted; who writes a
\* packet has encrypted one.
Wires ==
    /\ sent \in [Ends -> Seq(Messages)]
    /\ wire \in [Ends -> Seq({"length", "body"} \X Nat)]
    /\ \A e \in Ends : Len(wire[e]) <= WireCap
    /\ \A e \in Ends : \A i \in 1..Len(wire[e]) : wire[e][i][2] \in 1..Len(sent[e])
    /\ \A e \in Ends : pc[e] \in {"writing_length", "writing_body"} => Len(sent[e]) >= 1

\* The messages decrypted at an end are the first ones the other end encrypted.
Agree(e) ==
    /\ Len(received[e]) <= Len(sent[Other(e)])
    /\ \A i \in 1..Len(received[e]) : received[e][i] = sent[Other(e)][i]

Decrypted ==
    /\ received \in [Ends -> Seq(Messages)]
    /\ \A e \in Ends : Agree(e)

\* The channel to the manager and what came through it.
Channels ==
    /\ signals \in [Nodes -> Seq(Nodes \X (Signals \cup {Established}))]
    /\ \A n \in Nodes : Len(signals[n]) <= SignalCap
    /\ delivered \in [Nodes -> Seq(Nodes \X Signals)]

\* A route that may still be attempted has attempts left.
Counts ==
    /\ tries \in [Signals -> 0..Attempts]
    /\ \A s \in Signals : route[s] \in {"off", "offline", "online"} => tries[s] < Attempts
    /\ lookups \in 0..MaxEvents

\* A loop that handles a message has one in hand.
InHand ==
    /\ msg \in [Ends -> Messages \cup {None}]
    /\ \A e \in Ends : pc[e] \in {"want_lock", "holding"} => msg[e] \in Messages
    /\ \A e \in Ends : pc[e] = "signal" => msg[e] \in Signals

\* The map of n is locked by a task that sends into the queue of o.
HoldsFor(n, o) ==
    \/ \E e \in Ends : /\ lock[n] = <<"loop", e>> /\ Owner(e) = n
                       /\ pc[e] = "holding" /\ o = Outlet(e)
    \/ lock[n] = <<"ask", o>> /\ ask[o] = "holding"
    \/ \E s \in Signals : /\ lock[n] = <<"route", s>> /\ From(s) = n
                          /\ route[s] = "holding" /\ o = ExitOf(s)

\* A map is locked for a send into the queue of one of its own sessions, and
\* every task that is about to make such a send holds the lock.
Locks ==
    /\ lock \in [Nodes -> Tasks \cup {None}]
    /\ \A n \in Nodes : lock[n] # None => \E o \in Ends : Owner(o) = n /\ HoldsFor(n, o)
    /\ \A e \in Ends : pc[e] = "holding" => lock[Owner(e)] = <<"loop", e>>
    /\ \A e \in Ends : ask[e] = "holding" => lock[Owner(e)] = <<"ask", e>>
    /\ \A s \in Signals : route[s] = "holding" => lock[From(s)] = <<"route", s>>

\* The inductive invariant.
IInv ==
    Labels /\ Queues /\ Wires /\ Decrypted /\ Channels /\ Counts /\ InHand /\ Locks

-----------------------------------------------------------------------------
(* Links, ends and sequences.                                              *)

\* The two ends of a link belong to different nodes.
LEMMA EndFacts ==
    ASSUME NEW e \in Ends
    PROVE  /\ Owner(e) \in Nodes /\ Peer(e) \in Nodes /\ Owner(e) # Peer(e)
           /\ Other(e) \in Ends /\ Other(Other(e)) = e /\ Other(e) # e
           /\ Owner(Other(e)) = Peer(e)
<1>1. PICK l \in Links : e = l \/ e = <<l[2], l[1]>>
  BY DEF Ends
<1>2. l \in Nodes \X Nodes /\ l[1] # l[2]
  BY TrafficAssumption
<1>3. l = <<l[1], l[2]>> /\ l[1] \in Nodes /\ l[2] \in Nodes
  BY <1>2
<1>4. <<l[2], l[1]>> \in Ends /\ l \in Ends
  BY DEF Ends
<1>5. CASE e = l
  BY <1>2, <1>3, <1>4, <1>5 DEF Owner, Peer, Other
<1>6. CASE e = <<l[2], l[1]>>
  BY <1>2, <1>3, <1>4, <1>6 DEF Owner, Peer, Other
<1> QED BY <1>1, <1>5, <1>6

\* The parts of a signal.
LEMMA SignalFacts ==
    ASSUME NEW s \in Signals
    PROVE  From(s) \in Nodes /\ To(s) \in Nodes /\ Owner(ExitOf(s)) = From(s)
<1>1. s \in Nodes \X Nodes \X Nat
  BY TrafficAssumption
<1> QED BY <1>1 DEF From, To, ExitOf, Owner

\* A reply or a forwarded signal leaves through a session of the same node.
LEMMA OutletOwner ==
    ASSUME NEW e \in Ends
    PROVE  Owner(Outlet(e)) = Owner(e)
BY DEF Outlet, Owner

\* The names of different tasks differ, and none is None.
LEMMA TaskFacts ==
    /\ \A e \in Ends : /\ <<"loop", e>> \in Tasks /\ <<"ask", e>> \in Tasks
                       /\ <<"loop", e>> # None /\ <<"ask", e>> # None
    /\ \A s \in Signals : <<"route", s>> \in Tasks /\ <<"route", s>> # None
    /\ \A n \in Nodes : <<"manager", n>> \in Tasks /\ <<"manager", n>> # None
    /\ \A x, y : /\ <<"loop", x>> # <<"ask", y>> /\ <<"loop", x>> # <<"route", y>>
                 /\ <<"ask", x>> # <<"route", y>> /\ <<"loop", x>> # <<"manager", y>>
                 /\ <<"loop", x>> = <<"loop", y>> => x = y
                 /\ <<"ask", x>> = <<"ask", y>> => x = y
                 /\ <<"route", x>> = <<"route", y>> => x = y
<1>1. /\ \A e \in Ends : <<"loop", e>> \in Tasks /\ <<"ask", e>> \in Tasks
      /\ \A s \in Signals : <<"route", s>> \in Tasks
      /\ \A n \in Nodes : <<"manager", n>> \in Tasks
  BY DEF Tasks
<1>2. None \notin Tasks
  BY NoneAssumption
<1>3. \A x, y : /\ <<"loop", x>> # <<"ask", y>> /\ <<"loop", x>> # <<"route", y>>
                /\ <<"ask", x>> # <<"route", y>> /\ <<"loop", x>> # <<"manager", y>>
                /\ <<"loop", x>> = <<"loop", y>> => x = y
                /\ <<"ask", x>> = <<"ask", y>> => x = y
                /\ <<"route", x>> = <<"route", y>> => x = y
  OBVIOUS
<1> QED BY <1>1, <1>2, <1>3

\* The first element and the rest of a sequence.
LEMMA HeadTail ==
    ASSUME NEW S, NEW s \in Seq(S), s # <<>>
    PROVE  /\ Len(s) \in Nat /\ Len(s) >= 1
           /\ Head(s) = s[1] /\ s[1] \in S
           /\ Tail(s) \in Seq(S) /\ Len(Tail(s)) = Len(s) - 1
           /\ \A i \in 1..Len(Tail(s)) : Tail(s)[i] = s[i + 1]
<1>1. Len(s) \in Nat /\ Len(s) >= 1
  OBVIOUS
<1>2. Head(s) = s[1] /\ s[1] \in S
  BY <1>1
<1>3. Tail(s) \in Seq(S) /\ Len(Tail(s)) = Len(s) - 1
  BY <1>1
<1>4. \A i \in 1..Len(Tail(s)) : Tail(s)[i] = s[i + 1]
  BY <1>1, <1>3
<1> QED BY <1>1, <1>2, <1>3, <1>4

\* A sequence with one more element.
LEMMA Appended ==
    ASSUME NEW S, NEW s \in Seq(S), NEW x \in S
    PROVE  /\ Append(s, x) \in Seq(S) /\ Append(s, x) # <<>>
           /\ Len(Append(s, x)) = Len(s) + 1 /\ Len(s) \in Nat
           /\ \A i \in 1..Len(s) : Append(s, x)[i] = s[i]
           /\ Append(s, x)[Len(s) + 1] = x
OBVIOUS

\* What is known of each sequence of a family.
LEMMA Family ==
    ASSUME NEW D, NEW S, NEW f \in [D -> Seq(S)], NEW x \in D
    PROVE  f[x] \in Seq(S) /\ Len(f[x]) \in Nat
<1>1. f[x] \in Seq(S)
  OBVIOUS
<1> QED BY <1>1

\* Every message kind of the tunnels is a message.
LEMMA Kinds == Request \in Messages /\ Response \in Messages /\ Signals \subseteq Messages
BY DEF Messages

\* The parts of the invariant give the types of the state.
LEMMA Typed == IInv => TypeOK
BY DEF IInv, TypeOK, Labels, Queues, Wires, Decrypted, Channels, Counts, InHand, Locks

-----------------------------------------------------------------------------
\* Nothing is connected yet.
LEMMA InitIInv == Init => IInv
<1> SUFFICES ASSUME Init PROVE IInv
  OBVIOUS
<1>1. Labels /\ InHand
  BY DEF Init, Labels, InHand
<1>2. Queues
  <2>1. \A e \in Ends : queue[e] = <<>> /\ Len(queue[e]) = 0
    BY DEF Init
  <2> QED BY <2>1, TrafficAssumption DEF Init, Queues
<1>3. \A e \in Ends : /\ wire[e] = <<>> /\ Len(wire[e]) = 0
                      /\ sent[e] = <<>> /\ Len(sent[e]) = 0
                      /\ received[e] = <<>> /\ Len(received[e]) = 0
  BY DEF Init
<1>4. Wires
  BY <1>3, TrafficAssumption DEF Init, Wires
<1>5. Decrypted
  <2>1. \A e \in Ends : Agree(e)
    BY <1>3, EndFacts DEF Agree
  <2> QED BY <2>1 DEF Init, Decrypted
<1>6. Channels
  <2>1. \A n \in Nodes : signals[n] = <<>> /\ Len(signals[n]) = 0
    BY DEF Init
  <2> QED BY <2>1, TrafficAssumption DEF Init, Channels
<1>7. Counts
  BY TrafficAssumption DEF Init, Counts
<1>8. Locks
  <2>1. \A n \in Nodes : lock[n] = None
    BY DEF Init
  <2>2. /\ \A e \in Ends : pc[e] # "holding" /\ ask[e] # "holding"
        /\ \A s \in Signals : route[s] # "holding"
    BY DEF Init
  <2> QED BY <2>1, <2>2 DEF Init, Locks
<1> QED BY <1>1, <1>2, <1>4, <1>5, <1>6, <1>7, <1>8 DEF IInv

-----------------------------------------------------------------------------
(* One lemma for each part of the invariant: first the steps that change   *)
(* its variables, then those.                                              *)

\* The labels of the tasks.
LEMMA LabelsStep == ASSUME IInv, Next PROVE Labels'
<1>1. ASSUME NEW e \in Ends,
             \/ Insert(e) \/ TakeMessage(e) \/ WriteLength(e) \/ WriteBody(e) \/ WriteFails(e)
             \/ ReadLength(e) \/ ReadGarbage(e) \/ ReadFails(e) \/ SendSignal(e)
             \/ HandlerSend(e) \/ Leave(e)
      PROVE  Labels'
  <2>1. PICK label \in {"announcing", "writing_length", "writing_body", "select", "exiting",
                        "partial", "garbage", "ended"} :
           /\ pc' = [pc EXCEPT ![e] = label]
           /\ label = "announcing" => pc[e] = "connected"
    BY <1>1 DEF Insert, TakeMessage, WriteLength, WriteBody, WriteFails, Write, ReadLength,
                ReadGarbage, ReadFails, SendSignal, HandlerSend, Leave, Goto
  <2>2. /\ UNCHANGED <<ask, route, mgr, lost, silent>>
        /\ torn' \in {torn, torn \cup {e}} /\ up' \in {up, up \cup {e}, up \ {e}}
    BY <1>1 DEF Insert, TakeMessage, WriteLength, WriteBody, WriteFails, Write, ReadLength,
                ReadGarbage, ReadFails, SendSignal, HandlerSend, Leave, routeVars,
                managerVars, faultVars, streamVars
  <2> QED BY <2>1, <2>2 DEF IInv, Labels
<1>2. ASSUME NEW e \in Ends,
             Announce(e) \/ ReadBody(e) \/ HandlerLock(e) \/ AskLock(e) \/ AskSend(e)
      PROVE  Labels'
  BY <1>2 DEF IInv, Labels, Announce, ReadBody, HandlerOf, HandlerLock, AskLock, AskSend,
              Goto, routeVars, managerVars, faultVars, streamVars
<1>3. ASSUME NEW s \in Signals, StartRoute(s) \/ Attempt(s) \/ RouteSend(s)
      PROVE  Labels'
  BY <1>3 DEF IInv, Labels, StartRoute, Attempt, RouteSend, routeVars, managerVars,
              faultVars, streamVars
<1>4. ASSUME NEW n \in Nodes, ReceiveSignal(n) \/ WantLookup(n) \/ Lookup(n)
      PROVE  Labels'
  BY <1>4 DEF IInv, Labels, ReceiveSignal, WantLookup, Lookup, routeVars, managerVars,
              faultVars, streamVars
<1>5. ASSUME NEW l \in Links, Lose(l) \/ FallSilent(l)
      PROVE  Labels'
  BY <1>5 DEF IInv, Labels, Lose, FallSilent, routeVars, managerVars, faultVars, streamVars
<1> QED BY <1>1, <1>2, <1>3, <1>4, <1>5 DEF Next, LoopStep

\* A message goes into a queue only when there is room.
LEMMA EnqueueKeeps ==
    ASSUME IInv, NEW e \in Ends, NEW m \in Messages, HasRoom(e), Enqueue(e, m)
    PROVE  Queues'
<1>1. /\ queue \in [Ends -> Seq(Messages)] /\ QueueCap \in Nat
      /\ \A x \in Ends : Len(queue[x]) <= QueueCap
  BY TrafficAssumption DEF IInv, Queues
<1>2. queue[e] \in Seq(Messages) /\ Len(queue[e]) < QueueCap
  BY <1>1 DEF HasRoom
<1>3. /\ Append(queue[e], m) \in Seq(Messages) /\ Len(queue[e]) \in Nat
      /\ Len(Append(queue[e], m)) = Len(queue[e]) + 1
  BY <1>2, Appended
<1>4. Len(Append(queue[e], m)) <= QueueCap
  BY <1>1, <1>2, <1>3
<1>5. \A x \in Ends : queue'[x] = IF x = e THEN Append(queue[e], m) ELSE queue[x]
  BY <1>1 DEF Enqueue
<1>6. queue' \in [Ends -> Seq(Messages)]
  BY <1>1, <1>3 DEF Enqueue
<1> QED BY <1>1, <1>4, <1>5, <1>6 DEF Queues

\* The queues keep to their capacity.
LEMMA QueuesStep == ASSUME IInv, Next PROVE Queues'
<1>1. CASE queue' = queue
  BY <1>1 DEF IInv, Queues
<1>2. ASSUME NEW e \in Ends, TakeMessage(e) PROVE Queues'
  <2>1. /\ queue \in [Ends -> Seq(Messages)] /\ QueueCap \in Nat
        /\ \A x \in Ends : Len(queue[x]) <= QueueCap
    BY TrafficAssumption DEF IInv, Queues
  <2>2. queue[e] \in Seq(Messages) /\ queue[e] # <<>>
    BY <1>2, <2>1 DEF TakeMessage
  <2>3. /\ Tail(queue[e]) \in Seq(Messages) /\ Len(queue[e]) \in Nat
        /\ Len(Tail(queue[e])) = Len(queue[e]) - 1
    BY <2>2, HeadTail
  <2>4. Len(Tail(queue[e])) <= QueueCap
    BY <2>1, <2>3
  <2>5. queue' = [queue EXCEPT ![e] = Tail(queue[e])]
    BY <1>2 DEF TakeMessage
  <2>6. \A x \in Ends : queue'[x] = IF x = e THEN Tail(queue[e]) ELSE queue[x]
    BY <2>1, <2>5
  <2>7. queue' \in [Ends -> Seq(Messages)]
    BY <2>1, <2>3, <2>5
  <2> QED BY <2>1, <2>4, <2>6, <2>7 DEF Queues
<1>3. ASSUME NEW e \in Ends, AskSend(e) PROVE Queues'
  BY <1>3, EnqueueKeeps, Kinds DEF AskSend
<1>4. ASSUME NEW e \in Ends, HandlerSend(e) PROVE Queues'
  <2>1. Outlet(e) \in Ends
    <3>1. pc[e] = "holding" /\ lock[Owner(e)] = <<"loop", e>> /\ Owner(e) \in Nodes
      BY <1>4, EndFacts DEF HandlerSend, IInv, Locks
    <3>2. PICK o \in Ends : Owner(o) = Owner(e) /\ HoldsFor(Owner(e), o)
      BY <3>1, TaskFacts DEF IInv, Locks
    <3> QED BY <3>1, <3>2, TaskFacts DEF HoldsFor
  <2>2. msg[e] \in Messages
    BY <1>4 DEF HandlerSend, IInv, InHand
  <2>3. (IF msg[e] = Request THEN Response ELSE msg[e]) \in Messages
    BY <2>2, Kinds
  <2> QED BY <1>4, <2>1, <2>3, EnqueueKeeps DEF HandlerSend
<1>5. ASSUME NEW s \in Signals, RouteSend(s) PROVE Queues'
  <2>1. ExitOf(s) \in Ends
    <3>1. route[s] = "holding" /\ lock[From(s)] = <<"route", s>> /\ From(s) \in Nodes
      BY <1>5, SignalFacts DEF RouteSend, IInv, Locks
    <3>2. PICK o \in Ends : Owner(o) = From(s) /\ HoldsFor(From(s), o)
      BY <3>1, TaskFacts DEF IInv, Locks
    <3> QED BY <3>1, <3>2, TaskFacts DEF HoldsFor
  <2> QED BY <1>5, <2>1, EnqueueKeeps, Kinds DEF RouteSend
<1>6. \/ queue' = queue
      \/ \E e \in Ends : TakeMessage(e) \/ AskSend(e) \/ HandlerSend(e)
      \/ \E s \in Signals : RouteSend(s)
  BY DEF Next, LoopStep, Insert, Announce, WriteLength, WriteBody, Write, WriteFails,
         ReadLength, ReadBody, ReadGarbage, ReadFails, SendSignal, HandlerLock, Leave,
         AskLock, StartRoute, Attempt, ReceiveSignal, WantLookup, Lookup, Lose, FallSilent
<1> QED BY <1>1, <1>2, <1>3, <1>4, <1>5, <1>6

\* One more numbered part on the wire.
LEMMA LongerWire ==
    ASSUME NEW S, NEW s \in Seq(S), NEW x \in S, NEW n \in Nat,
           \A i \in 1..Len(s) : s[i][2] \in 1..n, x[2] \in 1..n
    PROVE  /\ Append(s, x) \in Seq(S) /\ Len(Append(s, x)) = Len(s) + 1
           /\ \A i \in 1..Len(Append(s, x)) : Append(s, x)[i][2] \in 1..n
<1> DEFINE w == Append(s, x)
<1>1. /\ w \in Seq(S) /\ Len(w) = Len(s) + 1 /\ Len(s) \in Nat
      /\ \A i \in 1..Len(s) : w[i] = s[i]
      /\ w[Len(s) + 1] = x
  BY Appended
<1> HIDE DEF w
<1>2. ASSUME NEW i \in 1..Len(w) PROVE w[i][2] \in 1..n
  <2>1. i \in 1..Len(s) \/ i = Len(s) + 1
    BY <1>1
  <2> QED BY <1>1, <2>1
<1> QED BY <1>1, <1>2 DEF w

\* What is written are parts of the last packet encrypted.
LEMMA WiresStep == ASSUME IInv, Next PROVE Wires'
<1> DEFINE Parts == {"length", "body"} \X Nat
<1>1. /\ sent \in [Ends -> Seq(Messages)] /\ wire \in [Ends -> Seq(Parts)]
      /\ WireCap \in Nat /\ Labels
      /\ \A x \in Ends : Len(wire[x]) <= WireCap /\ Len(wire[x]) \in Nat
      /\ \A x \in Ends : \A i \in 1..Len(wire[x]) : wire[x][i][2] \in 1..Len(sent[x])
      /\ \A x \in Ends : pc[x] \in {"writing_length", "writing_body"} => Len(sent[x]) >= 1
      /\ \A x \in Ends : Len(sent[x]) \in Nat /\ wire[x] \in Seq(Parts)
  <2>1. sent \in [Ends -> Seq(Messages)] /\ wire \in [Ends -> Seq(Parts)]
    BY DEF IInv, Wires
  <2>2. \A x \in Ends : /\ Len(wire[x]) \in Nat /\ wire[x] \in Seq(Parts)
                        /\ Len(sent[x]) \in Nat
    BY <2>1, Family
  <2> QED BY <2>1, <2>2, TrafficAssumption DEF IInv, Wires
<1> HIDE DEF Parts
<1>2. CASE /\ UNCHANGED <<wire, sent>>
           /\ \A x \in Ends : pc'[x] \in {"writing_length", "writing_body"} =>
                                 pc[x] \in {"writing_length", "writing_body"}
  BY <1>1, <1>2 DEF Wires, Parts
<1>3. ASSUME NEW e \in Ends, TakeMessage(e) PROVE Wires'
  <2>1. queue[e] \in Seq(Messages) /\ queue[e] # <<>> /\ sent[e] \in Seq(Messages)
    BY <1>1, <1>3 DEF TakeMessage, IInv, Queues
  <2>2. Head(queue[e]) \in Messages
    BY <2>1, HeadTail
  <2>3. /\ Append(sent[e], Head(queue[e])) \in Seq(Messages)
        /\ Len(Append(sent[e], Head(queue[e]))) = Len(sent[e]) + 1
    BY <2>1, <2>2, Appended
  <2>4. /\ sent' = [sent EXCEPT ![e] = Append(sent[e], Head(queue[e]))]
        /\ wire' = wire /\ pc' = [pc EXCEPT ![e] = "writing_length"]
    BY <1>3 DEF TakeMessage, Goto
  <2>5. sent' \in [Ends -> Seq(Messages)]
    BY <1>1, <2>3, <2>4
  <2>6. \A x \in Ends : /\ Len(sent'[x]) \in Nat /\ Len(sent[x]) <= Len(sent'[x])
                        /\ x = e => Len(sent'[x]) >= 1
    <3>1. SUFFICES ASSUME NEW x \in Ends
                   PROVE  /\ Len(sent'[x]) \in Nat /\ Len(sent[x]) <= Len(sent'[x])
                          /\ x = e => Len(sent'[x]) >= 1
      OBVIOUS
    <3>2. Len(sent[x]) \in Nat
      BY <1>1
    <3>3. Len(sent'[x]) = IF x = e THEN Len(sent[x]) + 1 ELSE Len(sent[x])
      BY <1>1, <2>3, <2>4
    <3> QED BY <3>2, <3>3
  <2>7. \A x \in Ends : \A i \in 1..Len(wire[x]) : wire[x][i][2] \in 1..Len(sent'[x])
    <3>1. SUFFICES ASSUME NEW x \in Ends, NEW i \in 1..Len(wire[x])
                   PROVE  wire[x][i][2] \in 1..Len(sent'[x])
      OBVIOUS
    <3>2. wire[x][i][2] \in 1..Len(sent[x])
      BY <1>1
    <3>3. Len(sent[x]) \in Nat /\ Len(sent'[x]) \in Nat /\ Len(sent[x]) <= Len(sent'[x])
      BY <1>1, <2>6
    <3> QED BY <3>2, <3>3
  <2>8. \A x \in Ends : pc'[x] \in {"writing_length", "writing_body"} => Len(sent'[x]) >= 1
    BY <1>1, <2>4, <2>6 DEF Labels
  <2> QED BY <1>1, <2>4, <2>5, <2>7, <2>8 DEF Wires, Parts
<1>4. ASSUME NEW e \in Ends, WriteLength(e) \/ WriteBody(e) PROVE Wires'
  <2>1. PICK part, label :
           /\ part \in {"length", "body"} /\ label \in {"writing_body", "select"}
           /\ wire' = [wire EXCEPT ![e] = Append(@, <<part, Len(sent[e])>>)]
           /\ pc' = [pc EXCEPT ![e] = label]
    BY <1>4 DEF WriteLength, WriteBody, Write, Goto
  <2>2. /\ Len(sent[e]) >= 1 /\ Len(sent[e]) \in Nat
        /\ Len(wire[e]) < WireCap /\ sent' = sent
    BY <1>1, <1>4 DEF WriteLength, WriteBody, Write
  <2>3. wire[e] \in Seq(Parts) /\ Len(wire[e]) \in Nat /\ WireCap \in Nat
    BY <1>1
  <2> DEFINE w == Append(wire[e], <<part, Len(sent[e])>>)
  <2>4. /\ <<part, Len(sent[e])>> \in Parts
        /\ <<part, Len(sent[e])>>[2] \in 1..Len(sent[e])
    BY <2>1, <2>2 DEF Parts
  <2>5. /\ w \in Seq(Parts) /\ Len(w) = Len(wire[e]) + 1
        /\ \A i \in 1..Len(w) : w[i][2] \in 1..Len(sent[e])
    BY <1>1, <2>2, <2>3, <2>4, LongerWire
  <2>6. wire' = [wire EXCEPT ![e] = w]
    BY <2>1
  <2>7. Len(w) <= WireCap
    <3>1. Len(w) = Len(wire[e]) + 1 /\ Len(wire[e]) < WireCap
      BY <2>2, <2>5
    <3> HIDE DEF w
    <3> QED BY <2>3, <3>1
  <2> HIDE DEF w
  <2>8. wire' \in [Ends -> Seq(Parts)] /\ \A x \in Ends : wire'[x] = IF x = e THEN w ELSE wire[x]
    BY <1>1, <2>5, <2>6
  <2>9. \A x \in Ends : \A i \in 1..Len(wire'[x]) : wire'[x][i][2] \in 1..Len(sent'[x])
    BY <1>1, <2>2, <2>5, <2>8
  <2>10. \A x \in Ends : Len(wire'[x]) <= WireCap
    BY <1>1, <2>7, <2>8
  <2>11. \A x \in Ends : pc'[x] \in {"writing_length", "writing_body"} => Len(sent'[x]) >= 1
    BY <1>1, <2>1, <2>2 DEF Labels
  <2> QED BY <1>1, <2>2, <2>8, <2>9, <2>10, <2>11 DEF Wires, Parts
<1>5. ASSUME NEW e \in Ends, ReadLength(e) \/ ReadBody(e) \/ ReadGarbage(e) PROVE Wires'
  <2> DEFINE o == Other(e)
             w == Tail(wire[o])
  <2>1. o \in Ends
    BY EndFacts
  <2>2. wire[o] # <<>> /\ wire' = [wire EXCEPT ![o] = w] /\ sent' = sent
    BY <1>5 DEF ReadLength, ReadBody, ReadGarbage, Readable, Consume
  <2>3. \A x \in Ends : pc'[x] \in {"writing_length", "writing_body"} =>
                           pc[x] \in {"writing_length", "writing_body"}
    BY <1>1, <1>5 DEF ReadLength, ReadBody, ReadGarbage, Goto, HandlerOf, Labels
  <2>4. /\ w \in Seq(Parts) /\ Len(w) = Len(wire[o]) - 1 /\ Len(wire[o]) \in Nat
        /\ \A i \in 1..Len(w) : w[i] = wire[o][i + 1]
    BY <1>1, <2>1, <2>2, HeadTail
  <2> HIDE DEF w, o
  <2>5. \A i \in 1..Len(w) : w[i][2] \in 1..Len(sent[o])
    <3>1. SUFFICES ASSUME NEW i \in 1..Len(w) PROVE w[i][2] \in 1..Len(sent[o])
      OBVIOUS
    <3>2. i + 1 \in 1..Len(wire[o]) /\ w[i] = wire[o][i + 1]
      BY <2>4
    <3> QED BY <1>1, <2>1, <3>2
  <2>6. wire' \in [Ends -> Seq(Parts)] /\ \A x \in Ends : wire'[x] = IF x = o THEN w ELSE wire[x]
    BY <1>1, <2>2, <2>4
  <2>7. \A x \in Ends : Len(wire'[x]) <= WireCap
    <3>1. Len(wire[o]) <= WireCap /\ WireCap \in Nat
      BY <1>1, <2>1
    <3>2. Len(w) <= WireCap
      BY <2>4, <3>1
    <3> QED BY <1>1, <2>6, <3>2
  <2>8. \A x \in Ends : \A i \in 1..Len(wire'[x]) : wire'[x][i][2] \in 1..Len(sent'[x])
    BY <1>1, <2>2, <2>5, <2>6
  <2> QED BY <1>1, <2>2, <2>3, <2>6, <2>7, <2>8 DEF Wires, Parts
<1>6. ASSUME NEW e \in Ends,
             \/ Insert(e) \/ Announce(e) \/ WriteFails(e) \/ ReadFails(e) \/ SendSignal(e)
             \/ HandlerLock(e) \/ HandlerSend(e) \/ Leave(e)
      PROVE  Wires'
  <2>1. UNCHANGED <<wire, sent>>
    BY <1>6 DEF Insert, Announce, WriteFails, ReadFails, SendSignal, HandlerLock, HandlerSend,
                Leave, streamVars
  <2>2. \A x \in Ends : pc'[x] \in {"writing_length", "writing_body"} =>
                           pc[x] \in {"writing_length", "writing_body"}
    BY <1>1, <1>6 DEF Insert, Announce, WriteFails, ReadFails, SendSignal, HandlerLock,
                      HandlerSend, Leave, Goto, Labels
  <2> QED BY <1>2, <2>1, <2>2
<1>7. ASSUME UNCHANGED <<pc, wire, sent>> PROVE Wires'
  BY <1>2, <1>7
<1>8. \/ UNCHANGED <<pc, wire, sent>>
      \/ \E e \in Ends : LoopStep(e)
  BY DEF Next, AskLock, AskSend, StartRoute, Attempt, RouteSend, ReceiveSignal, WantLookup,
         Lookup, Lose, FallSilent, streamVars
<1> QED BY <1>3, <1>4, <1>5, <1>6, <1>7, <1>8 DEF LoopStep

\* Only the packet whose nonce is next decrypts, and it holds what was encrypted
\* with that nonce.
LEMMA DecryptedStep == ASSUME IInv, Next PROVE Decrypted'
<1>1. /\ received \in [Ends -> Seq(Messages)] /\ sent \in [Ends -> Seq(Messages)]
      /\ \A x \in Ends : Agree(x)
      /\ \A x \in Ends : Len(received[x]) \in Nat /\ Len(sent[x]) \in Nat
  <2>1. /\ received \in [Ends -> Seq(Messages)] /\ sent \in [Ends -> Seq(Messages)]
        /\ \A x \in Ends : Agree(x)
    BY DEF IInv, Decrypted, Wires
  <2> QED BY <2>1, Family
<1>2. CASE UNCHANGED <<received, sent>>
  BY <1>1, <1>2 DEF Decrypted, Agree
<1>3. ASSUME NEW e \in Ends, TakeMessage(e) PROVE Decrypted'
  <2>1. queue[e] \in Seq(Messages) /\ queue[e] # <<>> /\ sent[e] \in Seq(Messages)
    BY <1>1, <1>3 DEF TakeMessage, IInv, Queues
  <2>2. Head(queue[e]) \in Messages
    BY <2>1, HeadTail
  <2> DEFINE t == Append(sent[e], Head(queue[e]))
  <2>3. Len(t) = Len(sent[e]) + 1 /\ \A i \in 1..Len(sent[e]) : t[i] = sent[e][i]
    BY <2>1, <2>2, Appended
  <2>4. sent' = [sent EXCEPT ![e] = t] /\ received' = received
    BY <1>3 DEF TakeMessage
  <2> HIDE DEF t
  <2>5. \A x \in Ends : /\ Len(sent[x]) <= Len(sent'[x])
                        /\ \A i \in 1..Len(sent[x]) : sent'[x][i] = sent[x][i]
                        /\ Len(sent'[x]) \in Nat
    BY <1>1, <2>3, <2>4
  <2>6. ASSUME NEW x \in Ends PROVE Agree(x)'
    <3>1. Other(x) \in Ends
      BY EndFacts
    <3>2. /\ Len(received[x]) <= Len(sent[Other(x)])
          /\ \A i \in 1..Len(received[x]) : received[x][i] = sent[Other(x)][i]
      BY <1>1 DEF Agree
    <3>3. Len(received[x]) <= Len(sent'[Other(x)])
      BY <1>1, <2>5, <3>1, <3>2
    <3>4. \A i \in 1..Len(received[x]) : received[x][i] = sent'[Other(x)][i]
      BY <1>1, <2>5, <3>1, <3>2
    <3>5. Other(x)' = Other(x)
      BY DEF Other
    <3> QED BY <2>4, <3>3, <3>4, <3>5 DEF Agree
  <2> QED BY <1>1, <2>4, <2>6 DEF Decrypted
<1>4. ASSUME NEW e \in Ends, ReadBody(e) PROVE Decrypted'
  <2> DEFINE o == Other(e)
             k == NextBytes(e)[2]
             m == sent[o][k]
             t == Append(received[e], m)
  <2>1. o \in Ends
    BY EndFacts
  <2>2. sent' = sent
    BY <1>4 DEF ReadBody
  <2>3. CASE received' = received
    BY <1>2, <2>2, <2>3
  <2>4. CASE received' # received
    <3>1. Decrypts(e, k) /\ received' = [received EXCEPT ![e] = t]
      BY <1>4, <2>4 DEF ReadBody
    <3>2. k \in 1..Len(sent[o])
      <4>1. wire[o] \in Seq({"length", "body"} \X Nat) /\ wire[o] # <<>>
        BY <1>4, <2>1 DEF ReadBody, Readable, IInv, Wires
      <4>2. Head(wire[o]) = wire[o][1] /\ 1 \in 1..Len(wire[o])
        BY <4>1, HeadTail
      <4>3. wire[o][1][2] \in 1..Len(sent[o])
        BY <2>1, <4>2 DEF IInv, Wires
      <4> QED BY <4>2, <4>3 DEF NextBytes
    <3>3. k = Len(received[e]) + 1
      BY <3>1 DEF Decrypts
    <3>4. m \in Messages
      BY <1>1, <2>1, <3>2
    <3>5. received[e] \in Seq(Messages)
      BY <1>1
    <3> HIDE DEF k, m
    <3>6. /\ t \in Seq(Messages) /\ Len(t) = Len(received[e]) + 1
          /\ \A i \in 1..Len(received[e]) : t[i] = received[e][i]
          /\ t[Len(received[e]) + 1] = m
      BY <3>4, <3>5, Appended
    <3> HIDE DEF t
    <3>7. received' \in [Ends -> Seq(Messages)]
      BY <1>1, <3>1, <3>6
    <3>8. Len(t) <= Len(sent[o]) /\ \A i \in 1..Len(t) : t[i] = sent[o][i]
      <4>1. Agree(e) /\ m = sent[o][k]
        BY <1>1 DEF m
      <4>2. ASSUME NEW i \in 1..Len(t) PROVE t[i] = sent[o][i]
        <5>1. CASE i = k
          BY <3>3, <3>6, <4>1, <5>1
        <5>2. CASE i \in 1..Len(received[e])
          BY <3>6, <4>1, <5>2 DEF Agree
        <5> QED BY <1>1, <3>3, <3>6, <5>1, <5>2
      <4> QED BY <1>1, <2>1, <3>2, <3>3, <3>6, <4>2
    <3>9. ASSUME NEW x \in Ends PROVE Agree(x)'
      <4>1. Other(x)' = Other(x)
        BY DEF Other
      <4>2. received'[x] = IF x = e THEN t ELSE received[x]
        BY <1>1, <3>1
      <4> QED BY <1>1, <2>2, <3>8, <4>1, <4>2 DEF Agree
    <3> QED BY <3>7, <3>9 DEF Decrypted
  <2> QED BY <2>3, <2>4
<1>5. UNCHANGED <<received, sent>> \/ \E e \in Ends : TakeMessage(e) \/ ReadBody(e)
  BY ZenonT(40) DEF Next, LoopStep, Insert, Announce, WriteLength, WriteBody, Write, WriteFails,
         ReadLength, ReadGarbage, ReadFails, SendSignal, HandlerLock, HandlerSend, Leave,
         AskLock, AskSend, StartRoute, Attempt, RouteSend, ReceiveSignal, WantLookup, Lookup,
         Lose, FallSilent, streamVars
<1> QED BY <1>2, <1>3, <1>4, <1>5

\* A signal is passed to the manager when there is room; what it receives is kept.
LEMMA ChannelsStep == ASSUME IInv, Next PROVE Channels'
<1> DEFINE Item == Nodes \X (Signals \cup {Established})
<1>1. /\ signals \in [Nodes -> Seq(Item)] /\ delivered \in [Nodes -> Seq(Nodes \X Signals)]
      /\ \A n \in Nodes : Len(signals[n]) <= SignalCap
      /\ SignalCap \in Nat
  BY TrafficAssumption DEF IInv, Channels
<1>2. CASE UNCHANGED <<signals, delivered>>
  BY <1>2 DEF IInv, Channels
<1>3. ASSUME NEW n \in Nodes, NEW x \in Item, Len(signals[n]) < SignalCap,
             signals' = [signals EXCEPT ![n] = Append(@, x)], delivered' = delivered
      PROVE  Channels'
  <2>1. signals[n] \in Seq(Item) /\ Len(signals[n]) \in Nat
    BY <1>1, Family
  <2> HIDE DEF Item
  <2>2. /\ Append(signals[n], x) \in Seq(Item)
        /\ Len(Append(signals[n], x)) = Len(signals[n]) + 1
    BY <1>3, <2>1, Appended
  <2>3. Len(Append(signals[n], x)) <= SignalCap
    BY <1>1, <1>3, <2>1, <2>2
  <2>4. \A m \in Nodes : signals'[m] = IF m = n THEN Append(signals[n], x) ELSE signals[m]
    BY <1>1, <1>3
  <2>5. signals' \in [Nodes -> Seq(Item)]
    BY <1>1, <1>3, <2>2
  <2> QED BY <1>1, <1>3, <2>3, <2>4, <2>5 DEF Channels, Item
<1>4. ASSUME NEW e \in Ends, Announce(e) PROVE Channels'
  <2>1. Owner(e) \in Nodes /\ <<Peer(e), Established>> \in Item
    BY EndFacts
  <2> QED BY <1>3, <1>4, <2>1 DEF Announce, managerVars
<1>5. ASSUME NEW e \in Ends, SendSignal(e) PROVE Channels'
  <2>1. Owner(e) \in Nodes /\ <<Peer(e), msg[e]>> \in Item
    BY <1>5, EndFacts DEF SendSignal, IInv, InHand
  <2> QED BY <1>3, <1>5, <2>1 DEF SendSignal, managerVars
<1>6. ASSUME NEW n \in Nodes, ReceiveSignal(n) PROVE Channels'
  <2>1. signals[n] \in Seq(Item) /\ Len(signals[n]) \in Nat /\ signals[n] # <<>>
    BY <1>1, <1>6, Family DEF ReceiveSignal
  <2>2. /\ Head(signals[n]) \in Item /\ Tail(signals[n]) \in Seq(Item)
        /\ Len(Tail(signals[n])) = Len(signals[n]) - 1
    BY <2>1, HeadTail
  <2>3. Head(signals[n])[2] # Established => Head(signals[n]) \in Nodes \X Signals
    BY <2>2
  <2> HIDE DEF Item
  <2>4. signals' = [signals EXCEPT ![n] = Tail(signals[n])]
    BY <1>6 DEF ReceiveSignal
  <2>5. /\ signals' \in [Nodes -> Seq(Item)]
        /\ \A m \in Nodes : signals'[m] = IF m = n THEN Tail(signals[n]) ELSE signals[m]
    BY <1>1, <2>2, <2>4
  <2>6. Len(Tail(signals[n])) <= SignalCap
    BY <1>1, <2>1, <2>2
  <2>7. delivered' \in [Nodes -> Seq(Nodes \X Signals)]
    <3>1. CASE Head(signals[n])[2] = Established
      BY <1>1, <1>6, <3>1 DEF ReceiveSignal
    <3>2. CASE Head(signals[n])[2] # Established
      <4>1. delivered[n] \in Seq(Nodes \X Signals)
        BY <1>1
      <4>2. Append(delivered[n], Head(signals[n])) \in Seq(Nodes \X Signals)
        BY <2>3, <3>2, <4>1, Appended
      <4>3. delivered' = [delivered EXCEPT ![n] = Append(delivered[n], Head(signals[n]))]
        BY <1>6, <3>2 DEF ReceiveSignal
      <4> QED BY <1>1, <4>2, <4>3
    <3> QED BY <3>1, <3>2
  <2> QED BY <1>1, <2>5, <2>6, <2>7 DEF Channels, Item
<1>7. \/ UNCHANGED <<signals, delivered>>
      \/ \E e \in Ends : Announce(e) \/ SendSignal(e)
      \/ \E n \in Nodes : ReceiveSignal(n)
  BY ZenonT(40) DEF Next, LoopStep, Insert, TakeMessage, WriteLength, WriteBody, Write, WriteFails,
         ReadLength, ReadBody, ReadGarbage, ReadFails, HandlerLock, HandlerSend, Leave,
         AskLock, AskSend, StartRoute, Attempt, RouteSend, WantLookup, Lookup, Lose,
         FallSilent, managerVars
<1> QED BY <1>2, <1>4, <1>5, <1>6, <1>7

\* The attempts of a route and the lookups are counted up to their bounds.
LEMMA CountsStep == ASSUME IInv, Next PROVE Counts'
<1>1. /\ tries \in [Signals -> 0..Attempts] /\ Attempts \in Nat /\ MaxEvents \in Nat
      /\ \A s \in Signals : route[s] \in {"off", "offline", "online"} => tries[s] < Attempts
      /\ lookups \in 0..MaxEvents /\ Labels
  BY TrafficAssumption DEF IInv, Counts
<1>2. CASE UNCHANGED <<tries, lookups, route>>
  BY <1>2 DEF IInv, Counts
<1>3. ASSUME NEW s \in Signals, StartRoute(s) \/ RouteSend(s) PROVE Counts'
  BY <1>1, <1>3 DEF StartRoute, RouteSend, Counts, Labels, managerVars
<1>4. ASSUME NEW s \in Signals, Attempt(s) PROVE Counts'
  <2>1. tries[s] \in Nat /\ tries[s] < Attempts
    BY <1>1, <1>4 DEF Attempt
  <2>2. tries' = [tries EXCEPT ![s] = tries[s] + 1] /\ lookups' = lookups
    BY <1>4 DEF Attempt, managerVars
  <2>3. tries' \in [Signals -> 0..Attempts]
    BY <1>1, <2>1, <2>2
  <2>4. route'[s] \in {"off", "offline", "online"} => tries[s] + 1 # Attempts
    BY <1>1, <1>4 DEF Attempt, Labels
  <2>5. \A r \in Signals : r # s => route'[r] = route[r] /\ tries'[r] = tries[r]
    BY <1>1, <1>4, <2>2 DEF Attempt, Labels
  <2>6. ASSUME NEW r \in Signals, route'[r] \in {"off", "offline", "online"}
        PROVE  tries'[r] < Attempts
    <3>1. CASE r = s
      BY <1>1, <2>1, <2>2, <2>4, <2>6, <3>1
    <3>2. CASE r # s
      BY <1>1, <2>5, <2>6, <3>2
    <3> QED BY <3>1, <3>2
  <2> QED BY <1>1, <2>2, <2>3, <2>6 DEF Counts
<1>5. ASSUME NEW n \in Nodes, WantLookup(n) PROVE Counts'
  <2>1. IsFiniteSet(Faulty)
    <3>1. Faulty \subseteq Links
      BY <1>1 DEF Labels, Faulty
    <3> QED BY <3>1, FS_Subset, TrafficAssumption
  <2>2. Cardinality(Faulty) \in Nat
    BY <2>1, FS_CardinalityType
  <2>3. lookups + Cardinality(Faulty) < MaxEvents /\ lookups' = lookups + 1
        /\ UNCHANGED <<tries, route>>
    BY <1>5 DEF WantLookup, Event, routeVars
  <2>4. lookups' \in 0..MaxEvents
    BY <1>1, <2>2, <2>3
  <2> QED BY <1>1, <2>3, <2>4 DEF Counts
<1>6. \/ UNCHANGED <<tries, lookups, route>>
      \/ \E s \in Signals : StartRoute(s) \/ Attempt(s) \/ RouteSend(s)
      \/ \E n \in Nodes : WantLookup(n)
  BY ZenonT(40) DEF Next, LoopStep, Insert, Announce, TakeMessage, WriteLength, WriteBody, Write,
         WriteFails, ReadLength, ReadBody, ReadGarbage, ReadFails, SendSignal, HandlerLock,
         HandlerSend, Leave, AskLock, AskSend, ReceiveSignal, Lookup, Lose, FallSilent,
         managerVars, routeVars
<1> QED BY <1>2, <1>3, <1>4, <1>5, <1>6

\* The steps of a loop other than the start of a handler leave no handler with
\* another message.
LEMMA InHandStep == ASSUME IInv, Next PROVE InHand'
<1>1. /\ msg \in [Ends -> Messages \cup {None}] /\ Labels
      /\ \A e \in Ends : pc[e] \in {"want_lock", "holding"} => msg[e] \in Messages
      /\ \A e \in Ends : pc[e] = "signal" => msg[e] \in Signals
  BY DEF IInv, InHand
<1>2. CASE UNCHANGED <<pc, msg>>
  BY <1>2 DEF IInv, InHand
<1>3. ASSUME NEW e \in Ends,
             \/ Insert(e) \/ Announce(e) \/ WriteLength(e) \/ WriteBody(e) \/ WriteFails(e)
             \/ ReadLength(e) \/ ReadGarbage(e) \/ ReadFails(e) \/ SendSignal(e)
             \/ HandlerSend(e) \/ Leave(e)
      PROVE  InHand'
  <2>1. \E label \in {"announcing", "writing_length", "writing_body", "select", "exiting",
                      "partial", "garbage", "ended"} :
           pc' = [pc EXCEPT ![e] = label]
    BY <1>3 DEF Insert, Announce, WriteLength, WriteBody, WriteFails, Write, ReadLength,
                ReadGarbage, ReadFails, SendSignal, HandlerSend, Leave, Goto
  <2>2. msg' = msg
    BY <1>3 DEF Insert, Announce, WriteLength, WriteBody, WriteFails, Write, ReadLength,
                ReadGarbage, ReadFails, SendSignal, HandlerSend, Leave
  <2> QED BY <1>1, <2>1, <2>2 DEF InHand, Labels
<1>4. ASSUME NEW e \in Ends, HandlerLock(e) PROVE InHand'
  BY <1>1, <1>4 DEF HandlerLock, Goto, InHand, Labels
<1>5. ASSUME NEW e \in Ends, TakeMessage(e) PROVE InHand'
  <2>1. queue[e] \in Seq(Messages) /\ queue[e] # <<>>
    BY <1>5 DEF TakeMessage, IInv, Queues
  <2>2. Head(queue[e]) \in Messages
    BY <2>1, HeadTail
  <2>3. msg' = [msg EXCEPT ![e] = Head(queue[e])] /\ pc' = [pc EXCEPT ![e] = "writing_length"]
    BY <1>5 DEF TakeMessage, Goto
  <2> QED BY <1>1, <2>2, <2>3 DEF InHand, Labels
<1>6. ASSUME NEW e \in Ends, ReadBody(e) PROVE InHand'
  <2> DEFINE o == Other(e)
             k == NextBytes(e)[2]
             m == sent[o][k]
  <2>1. CASE ~Decrypts(e, k)
    <3>1. msg' = msg /\ pc' = [pc EXCEPT ![e] = "select"]
      BY <1>6, <2>1 DEF ReadBody, Goto
    <3> QED BY <1>1, <3>1 DEF InHand, Labels
  <2>2. CASE Decrypts(e, k)
    <3>1. o \in Ends /\ sent \in [Ends -> Seq(Messages)]
      BY EndFacts DEF IInv, Wires
    <3>2. k \in 1..Len(sent[o])
      <4>1. wire[o] \in Seq({"length", "body"} \X Nat) /\ wire[o] # <<>>
        BY <1>6, <3>1 DEF ReadBody, Readable, IInv, Wires
      <4>2. Head(wire[o]) = wire[o][1] /\ 1 \in 1..Len(wire[o])
        BY <4>1, HeadTail
      <4>3. wire[o][1][2] \in 1..Len(sent[o])
        BY <3>1, <4>2 DEF IInv, Wires
      <4> QED BY <4>2, <4>3 DEF NextBytes
    <3>3. m \in Messages
      BY <3>1, <3>2
    <3>4. msg' = [msg EXCEPT ![e] = m] /\ pc' = [pc EXCEPT ![e] = HandlerOf(e, m)]
      BY <1>6, <2>2 DEF ReadBody, Goto
    <3> HIDE DEF m
    <3>5. HandlerOf(e, m) = "signal" => m \in Signals
      BY <3>3 DEF HandlerOf, Messages
    <3> QED BY <1>1, <3>3, <3>4, <3>5 DEF InHand, Labels
  <2> QED BY <2>1, <2>2
<1>7. UNCHANGED <<pc, msg>> \/ \E e \in Ends : LoopStep(e)
  BY DEF Next, AskLock, AskSend, StartRoute, Attempt, RouteSend, ReceiveSignal, WantLookup,
         Lookup, Lose, FallSilent
<1> QED BY <1>2, <1>3, <1>4, <1>5, <1>6, <1>7 DEF LoopStep

\* A step that concerns the map of n leaves the locks of the other nodes alone.
LEMMA OneNode ==
    ASSUME IInv, NEW n \in Nodes,
           lock' \in [Nodes -> Tasks \cup {None}],
           \A m \in Nodes : m # n => lock'[m] = lock[m],
           \A e \in Ends : Owner(e) # n => pc'[e] = pc[e] /\ msg'[e] = msg[e] /\ ask'[e] = ask[e],
           \A s \in Signals : From(s) # n => route'[s] = route[s],
           lock'[n] # None => \E o \in Ends : Owner(o) = n /\ HoldsFor(n, o)',
           \A e \in Ends : Owner(e) = n =>
              /\ pc'[e] = "holding" => lock'[n] = <<"loop", e>>
              /\ ask'[e] = "holding" => lock'[n] = <<"ask", e>>,
           \A s \in Signals : From(s) = n /\ route'[s] = "holding" => lock'[n] = <<"route", s>>
    PROVE  Locks'
<1>1. ASSUME NEW m \in Nodes, m # n, lock'[m] # None
      PROVE  \E o \in Ends : Owner(o) = m /\ HoldsFor(m, o)'
  <2>1. PICK o \in Ends : Owner(o) = m /\ HoldsFor(m, o)
    BY <1>1 DEF IInv, Locks
  <2>2. CASE \E e \in Ends : /\ lock[m] = <<"loop", e>> /\ Owner(e) = m
                             /\ pc[e] = "holding" /\ o = Outlet(e)
    <3>1. PICK e \in Ends : /\ lock[m] = <<"loop", e>> /\ Owner(e) = m
                            /\ pc[e] = "holding" /\ o = Outlet(e)
      BY <2>2
    <3>2. lock'[m] = <<"loop", e>> /\ pc'[e] = "holding" /\ msg'[e] = msg[e]
      BY <1>1, <3>1
    <3>3. Outlet(e)' = Outlet(e)
      BY <3>2 DEF Outlet, Owner, To, Request
    <3> QED BY <2>1, <3>1, <3>2, <3>3 DEF HoldsFor, Owner
  <2>3. CASE lock[m] = <<"ask", o>> /\ ask[o] = "holding"
    BY <1>1, <2>1, <2>3 DEF HoldsFor
  <2>4. CASE \E s \in Signals : /\ lock[m] = <<"route", s>> /\ From(s) = m
                                /\ route[s] = "holding" /\ o = ExitOf(s)
    BY <1>1, <2>1, <2>4 DEF HoldsFor, ExitOf, From, To
  <2> QED BY <2>1, <2>2, <2>3, <2>4 DEF HoldsFor
<1>2. \A e \in Ends : /\ pc'[e] = "holding" => lock'[Owner(e)] = <<"loop", e>>
                      /\ ask'[e] = "holding" => lock'[Owner(e)] = <<"ask", e>>
  BY EndFacts DEF IInv, Locks
<1>3. \A s \in Signals : route'[s] = "holding" => lock'[From(s)] = <<"route", s>>
  BY SignalFacts DEF IInv, Locks
<1>4. \A m \in Nodes : lock'[m] # None => \E o \in Ends : Owner(o) = m /\ HoldsFor(m, o)'
  BY <1>1
<1> QED BY <1>2, <1>3, <1>4 DEF Locks, Owner, From

\* While the map is free none of the node's tasks is about to send under it.
LEMMA NoHolder ==
    ASSUME IInv, NEW n \in Nodes, Free(n)
    PROVE  /\ \A e \in Ends : Owner(e) = n => pc[e] # "holding" /\ ask[e] # "holding"
           /\ \A s \in Signals : From(s) = n => route[s] # "holding"
BY ZenonT(40), TaskFacts DEF IInv, Locks, Free

\* A task takes the lock of the map, or gives it back.
LEMMA LocksStep == ASSUME IInv, Next PROVE Locks'
<1>1. /\ lock \in [Nodes -> Tasks \cup {None}] /\ Labels
      /\ \A e \in Ends : pc[e] = "holding" => lock[Owner(e)] = <<"loop", e>>
      /\ \A e \in Ends : ask[e] = "holding" => lock[Owner(e)] = <<"ask", e>>
      /\ \A s \in Signals : route[s] = "holding" => lock[From(s)] = <<"route", s>>
  BY DEF IInv, Locks
<1>2. ASSUME lock' = lock,
             \A e \in Ends : /\ pc'[e] = "holding" <=> pc[e] = "holding"
                             /\ pc[e] = "holding" => msg'[e] = msg[e],
             \A e \in Ends : ask'[e] = "holding" <=> ask[e] = "holding",
             \A s \in Signals : route'[s] = "holding" <=> route[s] = "holding"
      PROVE  Locks'
  <2>1. ASSUME NEW n \in Nodes, NEW o \in Ends, HoldsFor(n, o)
        PROVE  HoldsFor(n, o)'
    <3>1. \A e \in Ends : pc[e] = "holding" => Outlet(e)' = Outlet(e)
      BY <1>2 DEF Outlet, Owner, To, Request
    <3> QED BY <1>2, <2>1, <3>1 DEF HoldsFor, Owner, From, To, ExitOf
  <2>2. \A n \in Nodes : lock'[n] # None => \E o \in Ends : Owner(o) = n /\ HoldsFor(n, o)'
    BY <1>2, <2>1 DEF IInv, Locks
  <2> QED BY <1>1, <1>2, <2>2 DEF Locks, Owner, From
<1>3. ASSUME NEW e \in Ends,
             \/ Insert(e) \/ Announce(e) \/ WriteLength(e) \/ WriteBody(e) \/ WriteFails(e)
             \/ ReadLength(e) \/ ReadGarbage(e) \/ ReadFails(e) \/ SendSignal(e) \/ Leave(e)
             \/ TakeMessage(e) \/ ReadBody(e)
      PROVE  Locks'
  <2>1. /\ pc[e] # "holding"
        /\ \E label \in {"announcing", "writing_length", "writing_body", "select", "exiting",
                         "partial", "garbage", "ended", "want_lock", "signal"} :
              pc' = [pc EXCEPT ![e] = label]
    BY <1>3 DEF Insert, Announce, WriteLength, WriteBody, WriteFails, Write, ReadLength,
                ReadGarbage, ReadFails, SendSignal, Leave, TakeMessage, Selecting, ReadBody,
                HandlerOf, Goto
  <2>2. /\ lock' = lock /\ route' = route
        /\ \A x \in Ends : x # e => msg'[x] = msg[x]
    BY <1>3 DEF Insert, Announce, WriteLength, WriteBody, WriteFails, Write, ReadLength,
                ReadGarbage, ReadFails, SendSignal, Leave, TakeMessage, ReadBody, routeVars,
                IInv, InHand
  <2>3. \A x \in Ends : ask'[x] = "holding" <=> ask[x] = "holding"
    <3>1. CASE Announce(e) /\ e \in Links
      <4>1. ask' = [ask EXCEPT ![e] = "asking"] /\ ask[e] # "holding"
        BY <1>1, <3>1 DEF Announce, Labels
      <4> QED BY <1>1, <4>1 DEF Labels
    <3>2. CASE ask' = ask
      BY <3>2
    <3> QED BY <1>3, <3>1, <3>2
            DEF Insert, Announce, WriteLength, WriteBody, WriteFails, Write, ReadLength,
                ReadGarbage, ReadFails, SendSignal, Leave, TakeMessage, ReadBody
  <2>4. \A x \in Ends : /\ pc'[x] = "holding" <=> pc[x] = "holding"
                        /\ pc[x] = "holding" => msg'[x] = msg[x]
    BY <1>1, <2>1, <2>2 DEF Labels
  <2> QED BY <1>2, <2>2, <2>3, <2>4
<1>4. ASSUME NEW e \in Ends, HandlerLock(e) PROVE Locks'
  <2> DEFINE n == Owner(e)
  <2>1. n \in Nodes /\ Free(n) /\ pc[e] = "want_lock"
        /\ UNCHANGED <<msg, ask, route>>
    BY <1>4, EndFacts DEF HandlerLock, routeVars
  <2>2. CASE Outlet(e) \notin up
    <3>1. lock' = lock /\ pc' = [pc EXCEPT ![e] = "select"]
      BY <1>4, <2>2 DEF HandlerLock, Goto
    <3> QED BY <1>1, <1>2, <2>1, <3>1 DEF Labels
  <2>3. CASE Outlet(e) \in up
    <3>1. lock' = [lock EXCEPT ![n] = <<"loop", e>>] /\ pc' = [pc EXCEPT ![e] = "holding"]
      BY <1>4, <2>3 DEF HandlerLock, Goto, Grant
    <3>2. lock' \in [Nodes -> Tasks \cup {None}] /\ lock'[n] = <<"loop", e>>
      BY <1>1, <2>1, <3>1, TaskFacts
    <3>3. Outlet(e) \in Ends /\ Owner(Outlet(e)) = n /\ Outlet(e)' = Outlet(e)
      BY <1>1, <2>1, <2>3, OutletOwner DEF Labels, Outlet, Owner, To, Request
    <3>4. pc'[e] = "holding" /\ \A x \in Ends : x # e => pc'[x] = pc[x]
      BY <1>1, <3>1 DEF Labels
    <3>5. HoldsFor(n, Outlet(e))'
      <4>1. n' = n
        BY DEF Owner
      <4> QED BY <3>2, <3>3, <3>4, <4>1 DEF HoldsFor, Owner
    <3>6. /\ \A x \in Ends : n = Owner(x) => pc[x] # "holding" /\ ask[x] # "holding"
          /\ \A s \in Signals : n = From(s) => route[s] # "holding"
      BY <2>1, NoHolder
    <3>7. \A m \in Nodes : m # n => lock'[m] = lock[m]
      BY <1>1, <3>1
    <3> HIDE DEF n
    <3>8. \A x \in Ends : Owner(x) # n => pc'[x] = pc[x] /\ msg'[x] = msg[x] /\ ask'[x] = ask[x]
      BY <2>1, <3>4 DEF n
    <3>9. \E o \in Ends : Owner(o) = n /\ HoldsFor(n, o)'
      BY <3>3, <3>5
    <3> QED BY <2>1, <3>2, <3>4, <3>6, <3>7, <3>8, <3>9, OneNode
  <2> QED BY <2>2, <2>3
<1>5. ASSUME NEW e \in Ends, AskLock(e) PROVE Locks'
  <2> DEFINE n == Owner(e)
  <2>1. /\ n \in Nodes /\ Free(n) /\ ask[e] = "asking" /\ UNCHANGED <<msg, pc, route>>
        /\ up \subseteq Ends
    BY <1>1, <1>5, EndFacts DEF AskLock, routeVars, Labels
  <2>2. CASE e \notin up
    <3>1. lock' = lock /\ ask' = [ask EXCEPT ![e] = "done"]
      BY <1>5, <2>2 DEF AskLock
    <3> QED BY <1>1, <1>2, <2>1, <3>1 DEF Labels
  <2>3. CASE e \in up
    <3>1. lock' = [lock EXCEPT ![n] = <<"ask", e>>] /\ ask' = [ask EXCEPT ![e] = "holding"]
      BY <1>5, <2>3 DEF AskLock, Grant
    <3>2. lock' \in [Nodes -> Tasks \cup {None}] /\ lock'[n] = <<"ask", e>>
      BY <1>1, <2>1, <3>1, TaskFacts
    <3>3. ask'[e] = "holding" /\ \A x \in Ends : x # e => ask'[x] = ask[x]
      BY <1>1, <3>1 DEF Labels
    <3>4. HoldsFor(n, e)'
      BY <3>2, <3>3 DEF HoldsFor, Owner
    <3>5. /\ \A x \in Ends : n = Owner(x) => pc[x] # "holding" /\ ask[x] # "holding"
          /\ \A s \in Signals : n = From(s) => route[s] # "holding"
      BY <2>1, NoHolder
    <3>6. \A m \in Nodes : m # n => lock'[m] = lock[m]
      BY <1>1, <3>1
    <3>7. \E o \in Ends : Owner(o) = n /\ HoldsFor(n, o)'
      BY <3>4
    <3> HIDE DEF n
    <3>8. \A x \in Ends : Owner(x) # n => pc'[x] = pc[x] /\ msg'[x] = msg[x] /\ ask'[x] = ask[x]
      BY <2>1, <3>3 DEF n
    <3> QED BY <2>1, <3>2, <3>3, <3>5, <3>6, <3>7, <3>8, OneNode
  <2> QED BY <2>2, <2>3
<1>6. ASSUME NEW s \in Signals, Attempt(s) PROVE Locks'
  <2> DEFINE n == From(s)
  <2>1. /\ n \in Nodes /\ Free(n) /\ route[s] \in {"offline", "online"}
        /\ UNCHANGED <<msg, pc, ask>> /\ up \subseteq Ends
    BY <1>1, <1>6, SignalFacts DEF Attempt, Labels
  <2>2. CASE ExitOf(s) \notin up
    <3>1. /\ lock' = lock
          /\ \E label \in {"cloud", "given_up", "offline", "online"} :
                route' = [route EXCEPT ![s] = label]
      BY <1>6, <2>1, <2>2 DEF Attempt
    <3> QED BY <1>1, <1>2, <2>1, <3>1 DEF Labels
  <2>3. CASE ExitOf(s) \in up
    <3>1. lock' = [lock EXCEPT ![n] = <<"route", s>>] /\ route' = [route EXCEPT ![s] = "holding"]
      BY <1>6, <2>3 DEF Attempt, Grant
    <3>2. lock' \in [Nodes -> Tasks \cup {None}] /\ lock'[n] = <<"route", s>>
      BY <1>1, <2>1, <3>1, TaskFacts
    <3>3. route'[s] = "holding" /\ \A r \in Signals : r # s => route'[r] = route[r]
      BY <1>1, <3>1 DEF Labels
    <3>4. HoldsFor(n, ExitOf(s))'
      BY <3>2, <3>3 DEF HoldsFor, From, ExitOf, To
    <3>5. /\ \A x \in Ends : n = Owner(x) => pc[x] # "holding" /\ ask[x] # "holding"
          /\ \A r \in Signals : n = From(r) => route[r] # "holding"
      BY <2>1, NoHolder
    <3>6. \A m \in Nodes : m # n => lock'[m] = lock[m]
      BY <1>1, <3>1
    <3>7. \E o \in Ends : Owner(o) = n /\ HoldsFor(n, o)'
      BY <2>1, <2>3, <3>4, SignalFacts DEF ExitOf, From, To
    <3> HIDE DEF n
    <3>8. \A r \in Signals : From(r) # n => route'[r] = route[r]
      BY <3>3 DEF n
    <3> QED BY <2>1, <3>2, <3>3, <3>5, <3>6, <3>7, <3>8, OneNode
  <2> QED BY <2>2, <2>3
<1>7. ASSUME NEW e \in Ends, AskSend(e) \/ HandlerSend(e) PROVE Locks'
  <2> DEFINE n == Owner(e)
  <2>1. /\ n \in Nodes /\ lock' = [lock EXCEPT ![n] = None] /\ msg' = msg /\ route' = route
        /\ \A x \in Ends : /\ pc'[x] = pc[x] \/ (x = e /\ pc'[x] = "select")
                           /\ ask'[x] = ask[x] \/ (x = e /\ ask'[x] = "done")
    BY <1>1, <1>7, EndFacts DEF AskSend, HandlerSend, Grant, Goto, routeVars, Labels
  <2>2. \/ lock[n] = <<"ask", e>> /\ pc' = pc /\ ask'[e] = "done"
        \/ lock[n] = <<"loop", e>> /\ ask' = ask /\ pc'[e] = "select"
    BY <1>1, <1>7 DEF AskSend, HandlerSend, Goto, Labels
  <2>3. lock' \in [Nodes -> Tasks \cup {None}] /\ lock'[n] = None
    BY <1>1, <2>1
  <2>4. \A m \in Nodes : m # n => lock'[m] = lock[m]
    BY <1>1, <2>1
  <2>5. /\ \A x \in Ends : n = Owner(x) => pc'[x] # "holding" /\ ask'[x] # "holding"
        /\ \A s \in Signals : n = From(s) => route'[s] # "holding"
    BY <1>1, <2>1, <2>2, TaskFacts
  <2> HIDE DEF n
  <2>6. \A x \in Ends : Owner(x) # n => pc'[x] = pc[x] /\ msg'[x] = msg[x] /\ ask'[x] = ask[x]
    BY <2>1 DEF n
  <2> QED BY <2>1, <2>3, <2>4, <2>5, <2>6, OneNode
<1>8. ASSUME NEW s \in Signals, RouteSend(s) PROVE Locks'
  <2> DEFINE n == From(s)
  <2>1. /\ n \in Nodes /\ lock' = [lock EXCEPT ![n] = None] /\ UNCHANGED <<msg, pc, ask>>
        /\ route' = [route EXCEPT ![s] = "tunnel"] /\ lock[n] = <<"route", s>>
    BY <1>1, <1>8, SignalFacts DEF RouteSend, Grant
  <2>2. lock' \in [Nodes -> Tasks \cup {None}] /\ lock'[n] = None
    BY <1>1, <2>1
  <2>3. \A m \in Nodes : m # n => lock'[m] = lock[m]
    BY <1>1, <2>1
  <2>4. \A r \in Signals : route'[r] = IF r = s THEN "tunnel" ELSE route[r]
    BY <1>1, <2>1 DEF Labels
  <2>5. /\ \A x \in Ends : n = Owner(x) => pc'[x] # "holding" /\ ask'[x] # "holding"
        /\ \A r \in Signals : n = From(r) => route'[r] # "holding"
    BY <1>1, <2>1, <2>4, TaskFacts
  <2> HIDE DEF n
  <2>6. \A r \in Signals : From(r) # n => route'[r] = route[r]
    BY <2>4 DEF n
  <2> QED BY <2>1, <2>2, <2>3, <2>5, <2>6, OneNode
<1>9. ASSUME NEW s \in Signals, StartRoute(s) PROVE Locks'
  <2>1. UNCHANGED <<lock, pc, msg, ask>>
    BY <1>9 DEF StartRoute
  <2>2. \A r \in Signals : route'[r] = "holding" <=> route[r] = "holding"
    BY <1>1, <1>9 DEF StartRoute, Labels
  <2> QED BY <1>2, <2>1, <2>2
<1>10. CASE UNCHANGED <<lock, pc, msg, ask, route>>
  BY <1>2, <1>10
<1>11. \/ UNCHANGED <<lock, pc, msg, ask, route>>
       \/ \E e \in Ends : LoopStep(e) \/ AskLock(e) \/ AskSend(e)
       \/ \E s \in Signals : StartRoute(s) \/ Attempt(s) \/ RouteSend(s)
  BY DEF Next, ReceiveSignal, WantLookup, Lookup, Lose, FallSilent, routeVars
<1> QED BY <1>3, <1>4, <1>5, <1>6, <1>7, <1>8, <1>9, <1>10, <1>11 DEF LoopStep

\* Every step keeps the invariant.
LEMMA StepIInv == IInv /\ [Next]_vars => IInv'
<1> SUFFICES ASSUME IInv, [Next]_vars PROVE IInv'
  OBVIOUS
<1>1. CASE UNCHANGED vars
  <2>1. UNCHANGED <<pc, msg, queue, wire, sent, received, torn, up, ask, route, tries, lock,
                    signals, mgr, lookups, delivered, lost, silent>>
    BY <1>1 DEF vars, streamVars, routeVars, managerVars, faultVars
  <2>2. Labels' /\ Queues' /\ Channels' /\ Counts' /\ InHand'
    BY <2>1 DEF IInv, Labels, Queues, Channels, Counts, InHand
  <2>3. Wires' /\ Decrypted'
    BY <2>1 DEF IInv, Wires, Decrypted, Agree
  <2>4. Locks'
    BY <2>1 DEF IInv, Locks, HoldsFor, Outlet
  <2> QED BY <2>2, <2>3, <2>4 DEF IInv
<1>2. CASE Next
  BY <1>2, LabelsStep, QueuesStep, WiresStep, DecryptedStep, ChannelsStep, CountsStep,
     InHandStep, LocksStep DEF IInv
<1> QED BY <1>1, <1>2

-----------------------------------------------------------------------------
\* The strengthened invariant holds throughout.
THEOREM Inductive == Spec => []IInv
BY InitIInv, StepIInv, PTL DEF Spec

\* The state keeps its types: queues, sockets and channels within their
\* capacities, attempts within their number.
THEOREM TypeCorrect == Spec => []TypeOK
BY Inductive, Typed, PTL

\* Whatever select! tears out of a stream, what is decrypted is a prefix of what
\* the other end encrypted.
THEOREM InOrder == Spec => []DecryptedInOrder
<1>1. ASSUME IInv, NEW e \in Ends
      PROVE  IsPrefix(received[e], sent[Other(e)])
  <2> DEFINE r == received[e]
             t == sent[Other(e)]
  <2>1. Other(e) \in Ends
    BY EndFacts
  <2>2. r \in Seq(Messages) /\ t \in Seq(Messages)
    BY <1>1, <2>1 DEF IInv, Decrypted, Wires
  <2>3. Len(r) <= Len(t) /\ \A i \in 1..Len(r) : r[i] = t[i]
    BY <1>1 DEF IInv, Decrypted, Agree
  <2> HIDE DEF r, t
  <2>4. SubSeq(r, 1, Len(r)) = SubSeq(t, 1, Len(r))
    BY <2>2, <2>3
  <2> QED BY <2>3, <2>4 DEF IsPrefix, r, t
<1>2. IInv => DecryptedInOrder
  BY <1>1 DEF DecryptedInOrder
<1> QED BY <1>2, Inductive, PTL


-----------------------------------------------------------------------------
(* Who waits for whom.                                                     *)

\* What the loop of a session waits for, by its label.
LEMMA LoopWaits ==
    ASSUME NEW e \in Ends, Labels
    PROVE  /\ pc[e] \in {"want_lock", "exiting", "connected"}
                => WaitsFor(<<"loop", e>>) = lock[Owner(e)]
           /\ pc[e] = "holding"
                => WaitsFor(<<"loop", e>>)
                      = IF HasRoom(Outlet(e)) THEN None ELSE <<"loop", Outlet(e)>>
           /\ pc[e] \in {"signal", "announcing"}
                => WaitsFor(<<"loop", e>>)
                      = IF Len(signals[Owner(e)]) = SignalCap
                        THEN <<"manager", Owner(e)>> ELSE None
           /\ pc[e] \in {"writing_length", "writing_body"}
                => WaitsFor(<<"loop", e>>) \in {None, <<"loop", Other(e)>>}
           /\ pc[e] \in {"select", "partial", "garbage", "ended"}
                => WaitsFor(<<"loop", e>>) = None
<1>1. WaitsFor(<<"loop", e>>) =
         CASE pc[e] \in {"want_lock", "exiting", "connected"} -> lock[Owner(e)]
           [] pc[e] = "holding" /\ ~HasRoom(Outlet(e)) -> <<"loop", Outlet(e)>>
           [] /\ pc[e] \in {"signal", "announcing"}
              /\ Len(signals[Owner(e)]) = SignalCap -> <<"manager", Owner(e)>>
           [] /\ pc[e] \in {"writing_length", "writing_body"}
              /\ ~Down(e) /\ Len(wire[e]) = WireCap
              /\ LinkOf(e) \notin silent -> <<"loop", Other(e)>>
           [] OTHER -> None
  BY DEF WaitsFor
<1>2. pc[e] \in {"want_lock", "exiting", "connected"}
         => WaitsFor(<<"loop", e>>) = lock[Owner(e)]
  BY <1>1
<1>3. pc[e] = "holding"
         => WaitsFor(<<"loop", e>>)
               = IF HasRoom(Outlet(e)) THEN None ELSE <<"loop", Outlet(e)>>
  BY <1>1
<1>4. pc[e] \in {"signal", "announcing"}
         => WaitsFor(<<"loop", e>>)
               = IF Len(signals[Owner(e)]) = SignalCap
                 THEN <<"manager", Owner(e)>> ELSE None
  BY <1>1
<1>5. pc[e] \in {"writing_length", "writing_body"}
         => WaitsFor(<<"loop", e>>) \in {None, <<"loop", Other(e)>>}
  BY <1>1
<1>6. pc[e] \in {"select", "partial", "garbage", "ended"}
         => WaitsFor(<<"loop", e>>) = None
  BY <1>1
<1> QED BY <1>2, <1>3, <1>4, <1>5, <1>6

\* What the dialer's request waits for.
LEMMA AskWaits ==
    ASSUME NEW e
    PROVE  /\ ask[e] = "asking" => WaitsFor(<<"ask", e>>) = lock[Owner(e)]
           /\ ask[e] = "holding" => WaitsFor(<<"ask", e>>)
                                       = IF HasRoom(e) THEN None ELSE <<"loop", e>>
           /\ ask[e] \notin {"asking", "holding"} => WaitsFor(<<"ask", e>>) = None
<1>1. WaitsFor(<<"ask", e>>) =
         CASE ask[e] = "asking" -> lock[Owner(e)]
           [] ask[e] = "holding" /\ ~HasRoom(e) -> <<"loop", e>>
           [] OTHER -> None
  BY DEF WaitsFor
<1> QED BY <1>1

\* What the route of a signal waits for.
LEMMA RouteWaits ==
    ASSUME NEW s \in Signals
    PROVE  /\ route[s] \in {"offline", "online"} => WaitsFor(<<"route", s>>) = lock[From(s)]
           /\ route[s] = "holding"
                => WaitsFor(<<"route", s>>)
                      = IF HasRoom(ExitOf(s)) THEN None ELSE <<"loop", ExitOf(s)>>
           /\ route[s] \notin {"offline", "online", "holding"}
                => WaitsFor(<<"route", s>>) = None
<1>1. WaitsFor(<<"route", s>>) =
         CASE route[s] \in {"offline", "online"} -> lock[From(s)]
           [] route[s] = "holding" /\ ~HasRoom(ExitOf(s)) -> <<"loop", ExitOf(s)>>
           [] OTHER -> None
  BY DEF WaitsFor
<1> QED BY <1>1

\* What the manager waits for.
LEMMA ManagerWaits ==
    ASSUME NEW n \in Nodes
    PROVE  WaitsFor(<<"manager", n>>) = IF mgr[n] = "lookup" THEN lock[n] ELSE None
BY DEF WaitsFor

\* Who holds a map waits for the session it sends to, and only when its queue
\* is full.
LEMMA HolderWaits ==
    ASSUME IInv, NEW n \in Nodes, NEW o \in Ends, HoldsFor(n, o)
    PROVE  WaitsFor(lock[n]) = IF HasRoom(o) THEN None ELSE <<"loop", o>>
<1>1. Labels
  BY DEF IInv
<1>2. CASE \E e \in Ends : /\ lock[n] = <<"loop", e>> /\ Owner(e) = n
                           /\ pc[e] = "holding" /\ o = Outlet(e)
  BY <1>1, <1>2, LoopWaits
<1>3. CASE lock[n] = <<"ask", o>> /\ ask[o] = "holding"
  BY <1>3, AskWaits
<1>4. CASE \E s \in Signals : /\ lock[n] = <<"route", s>> /\ From(s) = n
                              /\ route[s] = "holding" /\ o = ExitOf(s)
  BY <1>4, RouteWaits
<1> QED BY <1>2, <1>3, <1>4 DEF HoldsFor

\* A queue without room is full.
LEMMA FullQueue ==
    ASSUME IInv, NEW o \in Ends
    PROVE  ~HasRoom(o) <=> Len(queue[o]) = QueueCap
<1>1. Len(queue[o]) \in Nat
  BY Family DEF IInv, Queues
<1>2. Len(queue[o]) <= QueueCap
  BY DEF IInv, Queues
<1> QED BY <1>1, <1>2, TrafficAssumption DEF HasRoom

\* A set of tasks that wait for one another.
Closed(S) == S \subseteq Waiting /\ \A t \in S : WaitsFor(t) \in S

\* The map of n is locked by a stuck task that waits for room in the queue of a
\* session of n.
LockJam(n) ==
    \E e \in Ends : /\ lock[n] \in Stuck
                    /\ WaitsFor(lock[n]) = <<"loop", e>> /\ Owner(e) = n
                    /\ Len(queue[e]) = QueueCap

\* When the holder of a map waits in a circle, it waits for room in a queue.
LEMMA HolderJam ==
    ASSUME IInv, NEW S, Closed(S), NEW n \in Nodes, lock[n] \in S
    PROVE  LockJam(n)
<1>1. lock[n] \in Waiting /\ lock[n] \in Stuck
  BY DEF Closed, Stuck
<1>2. lock[n] # None /\ WaitsFor(lock[n]) # None
  BY <1>1, NoneAssumption DEF Waiting
<1>3. PICK o \in Ends : Owner(o) = n /\ HoldsFor(n, o)
  BY <1>2 DEF IInv, Locks
<1>4. ~HasRoom(o) /\ WaitsFor(lock[n]) = <<"loop", o>>
  BY <1>2, <1>3, HolderWaits
<1>5. Len(queue[o]) = QueueCap
  BY <1>4, FullQueue
<1> QED BY <1>1, <1>3, <1>4, <1>5 DEF LockJam

\* A loop in a circle waits, at once or through the manager, for the holder of
\* its node's map, or it writes and waits for the other end to read.
LEMMA LoopCircle ==
    ASSUME IInv, NEW S, Closed(S), NEW e \in Ends, <<"loop", e>> \in S
    PROVE  \/ lock[Owner(e)] \in S
           \/ WaitsFor(<<"loop", e>>) = <<"loop", Other(e)>> /\ <<"loop", Other(e)>> \in S
<1>1. Labels /\ Owner(e) \in Nodes
  BY EndFacts DEF IInv
<1>2. WaitsFor(<<"loop", e>>) # None /\ WaitsFor(<<"loop", e>>) \in S
  BY DEF Closed, Waiting
<1>3. pc[e] \in {"want_lock", "exiting", "connected"} => lock[Owner(e)] \in S
  BY <1>1, <1>2, LoopWaits
<1>4. pc[e] = "holding" => lock[Owner(e)] \in S
  BY DEF IInv, Locks
<1>5. pc[e] \in {"signal", "announcing"} => lock[Owner(e)] \in S
  <2> SUFFICES ASSUME pc[e] \in {"signal", "announcing"} PROVE lock[Owner(e)] \in S
    OBVIOUS
  <2>1. <<"manager", Owner(e)>> \in S
    BY <1>1, <1>2, LoopWaits
  <2>2. WaitsFor(<<"manager", Owner(e)>>) # None /\ WaitsFor(<<"manager", Owner(e)>>) \in S
    BY <2>1 DEF Closed, Waiting
  <2> QED BY <1>1, <2>2, ManagerWaits
<1>6. pc[e] \in {"writing_length", "writing_body"}
         => WaitsFor(<<"loop", e>>) = <<"loop", Other(e)>> /\ <<"loop", Other(e)>> \in S
  BY <1>1, <1>2, LoopWaits
<1>7. pc[e] \notin {"select", "partial", "garbage", "ended"}
  BY <1>1, <1>2, LoopWaits
<1>8. pc[e] \in {"connected", "announcing", "select", "partial", "garbage",
                 "writing_length", "writing_body", "signal", "want_lock",
                 "holding", "exiting", "ended"}
  BY <1>1 DEF Labels
<1> QED BY <1>3, <1>4, <1>5, <1>6, <1>7, <1>8

\* Tasks get stuck in two ways only: the holder of a map waits for room in the
\* queue of a session of the same node, or both ends of a link write.
THEOREM TwoCircles == Spec => []CircularWaits
<1>1. IInv => CircularWaits
  <2>1. SUFFICES ASSUME IInv, Stuck # {}
                 PROVE  \/ \E n \in Nodes : LockJam(n)
                        \/ \E e \in Ends : /\ WaitsFor(<<"loop", e>>) = <<"loop", Other(e)>>
                                           /\ WaitsFor(<<"loop", Other(e)>>) = <<"loop", e>>
    BY DEF CircularWaits, LockJam
  <2>2. PICK S \in SUBSET Waiting : S # {} /\ \A t \in S : WaitsFor(t) \in S
    BY <2>1 DEF Stuck
  <2>3. Closed(S)
    BY <2>2 DEF Closed
  <2>4. PICK t \in S : t \in Tasks /\ WaitsFor(t) # None /\ WaitsFor(t) \in S
    BY <2>2 DEF Waiting
  <2>5. ASSUME NEW n \in Nodes, lock[n] \in S PROVE \E m \in Nodes : LockJam(m)
    BY <2>1, <2>3, <2>5, HolderJam
  <2>6. ASSUME NEW e \in Ends, <<"loop", e>> \in S
        PROVE  \/ \E m \in Nodes : LockJam(m)
               \/ /\ WaitsFor(<<"loop", e>>) = <<"loop", Other(e)>>
                  /\ WaitsFor(<<"loop", Other(e)>>) = <<"loop", e>>
    <3>1. /\ Owner(e) \in Nodes /\ Other(e) \in Ends /\ Other(Other(e)) = e
          /\ Owner(Other(e)) \in Nodes
      BY EndFacts
    <3>2. CASE lock[Owner(e)] \in S
      BY <3>1, <3>2, <2>5
    <3>3. CASE lock[Owner(e)] \notin S
      <4>1. WaitsFor(<<"loop", e>>) = <<"loop", Other(e)>> /\ <<"loop", Other(e)>> \in S
        BY <2>1, <2>3, <2>6, <3>3, LoopCircle
      <4>2. \/ lock[Owner(Other(e))] \in S
            \/ WaitsFor(<<"loop", Other(e)>>) = <<"loop", Other(Other(e))>>
        BY <2>1, <2>3, <3>1, <4>1, LoopCircle
      <4> QED BY <2>5, <3>1, <4>1, <4>2
    <3> QED BY <3>2, <3>3
  <2>7. ASSUME NEW e \in Ends, t = <<"ask", e>>
        PROVE  lock[Owner(e)] \in S
    <3>1. ask[e] = "holding" => lock[Owner(e)] = <<"ask", e>>
      BY <2>1 DEF IInv, Locks
    <3> QED BY <2>4, <2>7, <3>1, AskWaits
  <2>8. ASSUME NEW s \in Signals, t = <<"route", s>>
        PROVE  lock[From(s)] \in S
    <3>1. route[s] = "holding" => lock[From(s)] = <<"route", s>>
      BY <2>1 DEF IInv, Locks
    <3> QED BY <2>4, <2>8, <3>1, RouteWaits
  <2>9. ASSUME NEW n \in Nodes, t = <<"manager", n>>
        PROVE  lock[n] \in S
    BY <2>4, <2>9, ManagerWaits
  <2>10. \/ \E e \in Ends : t = <<"loop", e>> \/ t = <<"ask", e>>
         \/ \E s \in Signals : t = <<"route", s>>
         \/ \E n \in Nodes : t = <<"manager", n>>
    BY <2>4 DEF Tasks
  <2>11. CASE \E e \in Ends : t = <<"loop", e>>
    <3>1. PICK e \in Ends : t = <<"loop", e>>
      BY <2>11
    <3> QED BY <2>6, <3>1, EndFacts
  <2>12. CASE \E e \in Ends : t = <<"ask", e>>
    BY <2>5, <2>7, <2>12, EndFacts
  <2>13. CASE \E s \in Signals : t = <<"route", s>>
    BY <2>5, <2>8, <2>13, SignalFacts
  <2>14. CASE \E n \in Nodes : t = <<"manager", n>>
    BY <2>5, <2>9, <2>14
  <2> QED BY <2>10, <2>11, <2>12, <2>13, <2>14
<1> QED BY <1>1, Inductive, PTL


-----------------------------------------------------------------------------
(* A jammed map.                                                           *)

\* The holder of the map of n waits for room in the queue of o, whose loop waits
\* for the lock (A), holds it itself (B), or waits for a manager that does (C).
JamAt(n, o) ==
    /\ HoldsFor(n, o) /\ Owner(o) = n
    /\ Len(queue[o]) = QueueCap
    /\ \/ pc[o] \in {"want_lock", "exiting", "connected"}
       \/ pc[o] = "holding"
       \/ /\ pc[o] \in {"signal", "announcing"}
          /\ Len(signals[n]) = SignalCap /\ mgr[n] = "lookup"

\* A loop that waits in a circle for who waits for it, or for its manager, is in
\* one of the three places; the other end of its link belongs to another node.
LEMMA JammedHas ==
    ASSUME IInv, NEW n \in Nodes, Jammed(n)
    PROVE  \E o \in Ends : JamAt(n, o)
<1>1. PICK S \in SUBSET Waiting : lock[n] \in S /\ \A t \in S : WaitsFor(t) \in S
  BY DEF Jammed, Stuck
<1>2. \A t \in S : WaitsFor(t) # None
  BY DEF Waiting
<1>3. lock[n] \in Tasks /\ lock[n] # None
  BY <1>1, NoneAssumption DEF Waiting
<1>4. PICK o \in Ends : Owner(o) = n /\ HoldsFor(n, o)
  BY <1>3 DEF IInv, Locks
<1>5. WaitsFor(lock[n]) = <<"loop", o>> /\ ~HasRoom(o) /\ <<"loop", o>> \in S
  BY <1>1, <1>2, <1>4, HolderWaits
<1>6. /\ WaitsFor(<<"loop", o>>) \in {lock[n], <<"manager", n>>}
      /\ WaitsFor(<<"loop", o>>) # None /\ WaitsFor(<<"loop", o>>) \in S
  BY <1>1, <1>2, <1>5 DEF Jammed
<1>7. Labels /\ Len(queue[o]) = QueueCap
  BY <1>5, FullQueue DEF IInv
<1>8. pc[o] \notin {"select", "partial", "garbage", "ended"}
  BY <1>6, <1>7, LoopWaits
<1>9. pc[o] \notin {"writing_length", "writing_body"}
  <2> SUFFICES ASSUME pc[o] \in {"writing_length", "writing_body"} PROVE FALSE
    OBVIOUS
  <2>1. WaitsFor(<<"loop", o>>) = <<"loop", Other(o)>>
    BY <1>6, <1>7, LoopWaits
  <2>2. lock[n] = <<"loop", Other(o)>>
    BY <1>6, <2>1, TaskFacts
  <2>3. \E e \in Ends : lock[n] = <<"loop", e>> /\ Owner(e) = n
    BY <1>4, <2>2, TaskFacts DEF HoldsFor
  <2>4. Owner(Other(o)) = n
    BY <2>2, <2>3, TaskFacts
  <2> QED BY <1>4, <2>4, EndFacts
<1>10. pc[o] \in {"signal", "announcing"} => Len(signals[n]) = SignalCap /\ mgr[n] = "lookup"
  <2> SUFFICES ASSUME pc[o] \in {"signal", "announcing"}
               PROVE  Len(signals[n]) = SignalCap /\ mgr[n] = "lookup"
    OBVIOUS
  <2>1. Len(signals[n]) = SignalCap /\ WaitsFor(<<"loop", o>>) = <<"manager", n>>
    BY <1>4, <1>6, <1>7, LoopWaits
  <2>2. WaitsFor(<<"manager", n>>) # None
    BY <1>2, <1>6, <2>1
  <2> QED BY <2>1, <2>2, ManagerWaits
<1>11. pc[o] \in {"connected", "announcing", "select", "partial", "garbage",
                  "writing_length", "writing_body", "signal", "want_lock",
                  "holding", "exiting", "ended"}
  BY <1>7 DEF Labels
<1>12. JamAt(n, o)
  BY <1>4, <1>7, <1>8, <1>9, <1>10, <1>11 DEF JamAt
<1> QED BY <1>12

\* The tasks of such a jam wait for one another.
LEMMA JamIsJammed ==
    ASSUME IInv, NEW n \in Nodes, NEW o \in Ends, JamAt(n, o)
    PROVE  Jammed(n)
<1>1. /\ HoldsFor(n, o) /\ Owner(o) = n /\ ~HasRoom(o) /\ Labels
      /\ lock[n] \in Tasks \cup {None}
  BY FullQueue DEF JamAt, IInv, Locks
<1>2. WaitsFor(lock[n]) = <<"loop", o>>
  BY <1>1, HolderWaits
<1>3. /\ <<"loop", o>> \in Tasks /\ <<"loop", o>> # None
      /\ <<"manager", n>> \in Tasks /\ <<"manager", n>> # None
  BY TaskFacts
<1>4. lock[n] # None
  BY <1>1, TaskFacts DEF HoldsFor
<1>5. lock[n] \in Waiting
  BY <1>1, <1>2, <1>3, <1>4 DEF Waiting
<1>6. CASE pc[o] \in {"want_lock", "exiting", "connected", "holding"}
  <2>1. WaitsFor(<<"loop", o>>) = lock[n]
    <3>1. CASE pc[o] = "holding"
      BY <1>1, <1>2, <3>1 DEF IInv, Locks
    <3> QED BY <1>1, <1>6, <3>1, LoopWaits
  <2>2. <<"loop", o>> \in Waiting
    BY <1>3, <1>4, <2>1 DEF Waiting
  <2>3. {lock[n], <<"loop", o>>} \in SUBSET Waiting
    BY <1>5, <2>2
  <2>4. \A t \in {lock[n], <<"loop", o>>} : WaitsFor(t) \in {lock[n], <<"loop", o>>}
    BY <1>2, <2>1
  <2>5. lock[n] \in Stuck
    BY <2>3, <2>4 DEF Stuck
  <2> QED BY <1>2, <2>1, <2>5 DEF Jammed
<1>7. CASE /\ pc[o] \in {"signal", "announcing"}
           /\ Len(signals[n]) = SignalCap /\ mgr[n] = "lookup"
  <2> DEFINE T == {lock[n], <<"loop", o>>, <<"manager", n>>}
  <2>1. WaitsFor(<<"loop", o>>) = <<"manager", n>>
    BY <1>1, <1>7, LoopWaits
  <2>2. WaitsFor(<<"manager", n>>) = lock[n]
    BY <1>7, ManagerWaits
  <2>3. <<"loop", o>> \in Waiting /\ <<"manager", n>> \in Waiting
    BY <1>3, <1>4, <2>1, <2>2 DEF Waiting
  <2>4. T \in SUBSET Waiting
    BY <1>5, <2>3
  <2>5. \A t \in T : WaitsFor(t) \in T
    BY <1>2, <2>1, <2>2
  <2>6. lock[n] \in Stuck
    BY <2>4, <2>5 DEF Stuck
  <2> QED BY <1>2, <2>1, <2>6 DEF Jammed
<1> QED BY <1>6, <1>7 DEF JamAt

\* Who holds the map of n, or sends under it, in such a jam.
LEMMA JamFacts ==
    ASSUME IInv, NEW n \in Nodes, NEW o \in Ends, JamAt(n, o)
    PROVE  /\ lock[n] # None /\ ~HasRoom(o) /\ Owner(o) = n
           /\ \A e \in Ends : Owner(e) = n /\ pc[e] = "holding" => Outlet(e) = o
           /\ \A e \in Ends : Owner(e) = n /\ ask[e] = "holding" => e = o
           /\ \A s \in Signals : From(s) = n /\ route[s] = "holding" => ExitOf(s) = o
<1>1. HoldsFor(n, o) /\ ~HasRoom(o) /\ Owner(o) = n
  BY FullQueue DEF JamAt
<1>2. lock[n] # None
  BY <1>1, TaskFacts DEF HoldsFor
<1>3. ASSUME NEW e \in Ends, Owner(e) = n, pc[e] = "holding" PROVE Outlet(e) = o
  <2>1. lock[n] = <<"loop", e>>
    BY <1>3 DEF IInv, Locks
  <2> QED BY <1>1, <2>1, TaskFacts DEF HoldsFor
<1>4. ASSUME NEW e \in Ends, Owner(e) = n, ask[e] = "holding" PROVE e = o
  <2>1. lock[n] = <<"ask", e>>
    BY <1>4 DEF IInv, Locks
  <2> QED BY <1>1, <2>1, TaskFacts DEF HoldsFor
<1>5. ASSUME NEW s \in Signals, From(s) = n, route[s] = "holding" PROVE ExitOf(s) = o
  <2>1. lock[n] = <<"route", s>>
    BY <1>5 DEF IInv, Locks
  <2> QED BY <1>1, <2>1, TaskFacts DEF HoldsFor
<1> QED BY <1>1, <1>2, <1>3, <1>4, <1>5


\* What a step leaves alone in a jam at n: the lock, the full queue and the loop
\* that should empty it, who sends under the lock, and the manager in the circle.
Kept(n, o) ==
    /\ lock'[n] = lock[n] /\ queue'[o] = queue[o] /\ pc'[o] = pc[o]
    /\ \A e \in Ends : Owner(e) = n /\ pc[e] = "holding"
                         => pc'[e] = pc[e] /\ msg'[e] = msg[e]
    /\ \A e \in Ends : Owner(e) = n /\ ask[e] = "holding" => ask'[e] = ask[e]
    /\ \A s \in Signals : From(s) = n /\ route[s] = "holding" => route'[s] = route[s]
    /\ Len(signals[n]) = SignalCap /\ mgr[n] = "lookup"
         => signals'[n] = signals[n] /\ mgr'[n] = mgr[n]

\* No step disturbs a jam: whatever would change it needs the lock, room in the
\* full queue, room in the full channel, or the manager.
LEMMA JamKept ==
    ASSUME IInv, Next, NEW n \in Nodes, NEW o \in Ends, JamAt(n, o)
    PROVE  Kept(n, o)
<1>1. /\ lock[n] # None /\ ~HasRoom(o) /\ Owner(o) = n
      /\ \A e \in Ends : Owner(e) = n /\ pc[e] = "holding" => Outlet(e) = o
      /\ \A e \in Ends : Owner(e) = n /\ ask[e] = "holding" => e = o
      /\ \A s \in Signals : From(s) = n /\ route[s] = "holding" => ExitOf(s) = o
  BY JamFacts
<1>2. /\ pc[o] \notin {"select", "partial", "garbage", "writing_length", "writing_body",
                       "ended"}
      /\ pc[o] \in {"signal", "announcing"}
           => Len(signals[n]) = SignalCap /\ mgr[n] = "lookup"
  BY DEF JamAt
<1>3. /\ Labels /\ lock \in [Nodes -> Tasks \cup {None}]
      /\ queue \in [Ends -> Seq(Messages)] /\ msg \in [Ends -> Messages \cup {None}]
      /\ signals \in [Nodes -> Seq(Nodes \X (Signals \cup {Established}))]
  BY DEF IInv, Queues, InHand, Locks, Channels
<1>4. SignalCap \in Nat
  BY TrafficAssumption
<1>5. ASSUME NEW e \in Ends, Insert(e) \/ Leave(e) PROVE Kept(n, o)
  <2>1. /\ pc[e] \in {"connected", "exiting"} /\ lock[Owner(e)] = None
        /\ \E x : pc' = [pc EXCEPT ![e] = x]
        /\ UNCHANGED <<lock, queue, msg, ask, route, signals, mgr>>
    BY <1>5 DEF Insert, Leave, Goto, Free, routeVars, managerVars
  <2> QED BY <1>1, <1>3, <2>1 DEF Kept, Labels
<1>6. ASSUME NEW e \in Ends, Announce(e) \/ SendSignal(e) PROVE Kept(n, o)
  <2>1. /\ pc[e] \in {"announcing", "signal"} /\ Len(signals[Owner(e)]) < SignalCap
        /\ \E x : signals' = [signals EXCEPT ![Owner(e)] = x]
        /\ pc' = [pc EXCEPT ![e] = "select"]
        /\ UNCHANGED <<lock, queue, msg, route, mgr>>
    BY <1>6 DEF Announce, SendSignal, Goto, routeVars, managerVars
  <2>2. ask' = ask \/ (pc[e] = "announcing" /\ ask' = [ask EXCEPT ![e] = "asking"])
    BY <1>6 DEF Announce, SendSignal
  <2>3. Owner(e) = n => ~(Len(signals[n]) = SignalCap)
    BY <1>4, <2>1
  <2>4. o # e
    BY <1>1, <1>2, <2>1, <2>3
  <2>5. pc'[o] = pc[o] /\ \A x \in Ends : pc[x] = "holding" => pc'[x] = pc[x]
    BY <1>3, <2>1, <2>4 DEF Labels
  <2>6. \A x \in Ends : ask[x] = "holding" => ask'[x] = ask[x]
    BY <1>3, <2>2 DEF Labels
  <2>7. Len(signals[n]) = SignalCap => signals'[n] = signals[n]
    BY <1>3, <2>1, <2>3, EndFacts DEF Labels
  <2> QED BY <2>1, <2>5, <2>6, <2>7 DEF Kept
<1>7. ASSUME NEW e \in Ends,
             \/ TakeMessage(e) \/ WriteLength(e) \/ WriteBody(e) \/ WriteFails(e)
             \/ ReadLength(e) \/ ReadBody(e) \/ ReadGarbage(e) \/ ReadFails(e)
      PROVE  Kept(n, o)
  <2>1. pc[e] \in {"select", "partial", "garbage", "writing_length", "writing_body"}
    BY <1>7 DEF TakeMessage, WriteLength, WriteBody, WriteFails, ReadLength, ReadBody,
                ReadGarbage, ReadFails, Selecting
  <2>2. /\ \E x : pc' = [pc EXCEPT ![e] = x]
        /\ msg' = msg \/ \E x : msg' = [msg EXCEPT ![e] = x]
        /\ queue' = queue \/ \E x : queue' = [queue EXCEPT ![e] = x]
        /\ UNCHANGED <<lock, ask, route, signals, mgr>>
    BY <1>7 DEF TakeMessage, WriteLength, WriteBody, WriteFails, ReadLength, ReadBody,
                ReadGarbage, ReadFails, Write, Goto, routeVars, managerVars, streamVars
  <2>3. o # e
    BY <1>2, <2>1
  <2>4. \A x \in Ends : x # e => pc'[x] = pc[x] /\ msg'[x] = msg[x] /\ queue'[x] = queue[x]
    BY <1>3, <2>2 DEF Labels
  <2> QED BY <2>1, <2>2, <2>3, <2>4 DEF Kept
<1>8. ASSUME NEW e \in Ends, HandlerLock(e) PROVE Kept(n, o)
  <2>1. /\ pc[e] = "want_lock" /\ lock[Owner(e)] = None
        /\ \E x : pc' = [pc EXCEPT ![e] = x]
        /\ lock' = lock \/ \E x : lock' = [lock EXCEPT ![Owner(e)] = x]
        /\ UNCHANGED <<queue, msg, ask, route, signals, mgr>>
    BY <1>8 DEF HandlerLock, Goto, Free, Grant, routeVars, managerVars
  <2>2. Owner(e) # n /\ o # e
    BY <1>1, <2>1
  <2>3. lock'[n] = lock[n] /\ \A x \in Ends : x # e => pc'[x] = pc[x]
    BY <1>3, <2>1, <2>2, EndFacts DEF Labels
  <2> QED BY <2>1, <2>2, <2>3 DEF Kept
<1>9. ASSUME NEW e \in Ends, HandlerSend(e) PROVE Kept(n, o)
  <2>1. /\ pc[e] = "holding" /\ HasRoom(Outlet(e))
        /\ pc' = [pc EXCEPT ![e] = "select"]
        /\ lock' = [lock EXCEPT ![Owner(e)] = None]
        /\ \E x : queue' = [queue EXCEPT ![Outlet(e)] = x]
        /\ UNCHANGED <<msg, ask, route, signals, mgr>>
    BY <1>9 DEF HandlerSend, Goto, Grant, Enqueue, routeVars, managerVars
  <2>2. Owner(e) # n /\ o # e /\ Outlet(e) # o
    BY <1>1, <2>1
  <2>3. /\ lock'[n] = lock[n] /\ queue'[o] = queue[o]
        /\ \A x \in Ends : x # e => pc'[x] = pc[x]
    BY <1>3, <2>1, <2>2 DEF Labels
  <2> QED BY <2>1, <2>2, <2>3 DEF Kept
<1>10. ASSUME NEW e \in Ends, AskLock(e) PROVE Kept(n, o)
  <2>1. /\ ask[e] = "asking" /\ lock[Owner(e)] = None
        /\ \E x : ask' = [ask EXCEPT ![e] = x]
        /\ lock' = lock \/ \E x : lock' = [lock EXCEPT ![Owner(e)] = x]
        /\ UNCHANGED <<pc, queue, msg, route, signals, mgr>>
    BY <1>10 DEF AskLock, Free, Grant, routeVars, managerVars
  <2>2. Owner(e) # n
    BY <1>1, <2>1
  <2>3. lock'[n] = lock[n] /\ \A x \in Ends : x # e => ask'[x] = ask[x]
    BY <1>3, <2>1, <2>2 DEF Labels
  <2> QED BY <2>1, <2>2, <2>3 DEF Kept
<1>11. ASSUME NEW e \in Ends, AskSend(e) PROVE Kept(n, o)
  <2>1. /\ ask[e] = "holding" /\ HasRoom(e)
        /\ ask' = [ask EXCEPT ![e] = "done"]
        /\ lock' = [lock EXCEPT ![Owner(e)] = None]
        /\ \E x : queue' = [queue EXCEPT ![e] = x]
        /\ UNCHANGED <<pc, msg, route, signals, mgr>>
    BY <1>11 DEF AskSend, Grant, Enqueue, routeVars, managerVars
  <2>2. Owner(e) # n /\ e # o
    BY <1>1, <2>1
  <2>3. /\ lock'[n] = lock[n] /\ queue'[o] = queue[o]
        /\ \A x \in Ends : x # e => ask'[x] = ask[x]
    BY <1>3, <2>1, <2>2 DEF Labels
  <2> QED BY <2>1, <2>2, <2>3 DEF Kept
<1>12. ASSUME NEW s \in Signals, StartRoute(s) \/ Attempt(s) PROVE Kept(n, o)
  <2>1. /\ route[s] \in {"off", "offline", "online"}
        /\ \E x : route' = [route EXCEPT ![s] = x]
        /\ lock' = lock \/ (lock[From(s)] = None /\ \E x : lock' = [lock EXCEPT ![From(s)] = x])
        /\ UNCHANGED <<pc, ask, queue, msg, signals, mgr>>
    BY <1>12 DEF StartRoute, Attempt, Free, Grant, managerVars
  <2>2. lock'[n] = lock[n]
    BY <1>1, <1>3, <2>1 DEF Labels
  <2>3. \A r \in Signals : r # s => route'[r] = route[r]
    BY <1>3, <2>1 DEF Labels
  <2> QED BY <2>1, <2>2, <2>3 DEF Kept
<1>13. ASSUME NEW s \in Signals, RouteSend(s) PROVE Kept(n, o)
  <2>1. /\ route[s] = "holding" /\ HasRoom(ExitOf(s))
        /\ route' = [route EXCEPT ![s] = "tunnel"]
        /\ lock' = [lock EXCEPT ![From(s)] = None]
        /\ \E x : queue' = [queue EXCEPT ![ExitOf(s)] = x]
        /\ UNCHANGED <<pc, ask, msg, signals, mgr>>
    BY <1>13 DEF RouteSend, Grant, Enqueue, managerVars
  <2>2. From(s) # n /\ ExitOf(s) # o
    BY <1>1, <2>1
  <2>3. /\ lock'[n] = lock[n] /\ queue'[o] = queue[o]
        /\ \A r \in Signals : r # s => route'[r] = route[r]
    BY <1>3, <2>1, <2>2 DEF Labels
  <2> QED BY <2>1, <2>2, <2>3 DEF Kept
<1>14. ASSUME NEW m \in Nodes, ReceiveSignal(m) \/ WantLookup(m) \/ Lookup(m)
       PROVE  Kept(n, o)
  <2>1. /\ mgr[m] = "free" \/ lock[m] = None
        /\ mgr' = mgr \/ \E x : mgr' = [mgr EXCEPT ![m] = x]
        /\ signals' = signals \/ \E x : signals' = [signals EXCEPT ![m] = x]
        /\ UNCHANGED <<pc, ask, route, lock, queue, msg>>
    BY <1>14 DEF ReceiveSignal, WantLookup, Lookup, Free, routeVars
  <2>2. mgr[n] = "lookup" => mgr'[n] = mgr[n] /\ signals'[n] = signals[n]
    BY <1>1, <1>3, <2>1 DEF Labels
  <2> QED BY <2>1, <2>2 DEF Kept
<1>15. ASSUME NEW l \in Links, Lose(l) \/ FallSilent(l) PROVE Kept(n, o)
  BY <1>15 DEF Lose, FallSilent, Kept, routeVars, managerVars
<1> QED BY <1>5, <1>6, <1>7, <1>8, <1>9, <1>10, <1>11, <1>12, <1>13, <1>14, <1>15
        DEF Next, LoopStep

\* So the jam is still there after the step.
LEMMA JamStays ==
    ASSUME IInv, [Next]_vars, NEW n \in Nodes, NEW o \in Ends, JamAt(n, o)
    PROVE  JamAt(n, o)' /\ lock'[n] = lock[n]
<1>1. CASE Next
  <2>1. Kept(n, o)
    BY <1>1, JamKept
  <2>2. HoldsFor(n, o)'
    <3>1. ASSUME NEW e \in Ends, lock[n] = <<"loop", e>>, Owner(e) = n,
                 pc[e] = "holding", o = Outlet(e)
          PROVE  HoldsFor(n, o)'
      <4>1. lock'[n] = <<"loop", e>> /\ pc'[e] = "holding" /\ msg'[e] = msg[e]
        BY <2>1, <3>1 DEF Kept
      <4>2. o = Outlet(e)'
        BY <3>1, <4>1 DEF Outlet
      <4> QED BY <3>1, <4>1, <4>2 DEF HoldsFor
    <3>2. ASSUME lock[n] = <<"ask", o>>, ask[o] = "holding" PROVE HoldsFor(n, o)'
      BY <2>1, <3>2 DEF Kept, HoldsFor, JamAt
    <3>3. ASSUME NEW s \in Signals, lock[n] = <<"route", s>>, From(s) = n,
                 route[s] = "holding", o = ExitOf(s)
          PROVE  HoldsFor(n, o)'
      BY <2>1, <3>3 DEF Kept, HoldsFor
    <3>4. HoldsFor(n, o)
      BY DEF JamAt
    <3> QED BY <3>1, <3>2, <3>3, <3>4 DEF HoldsFor
  <2>3. lock'[n] = lock[n] /\ queue'[o] = queue[o] /\ pc'[o] = pc[o]
    BY <2>1 DEF Kept
  <2>4. Len(signals[n]) = SignalCap /\ mgr[n] = "lookup"
           => signals'[n] = signals[n] /\ mgr'[n] = mgr[n]
    BY <2>1 DEF Kept
  <2> QED BY <2>2, <2>3, <2>4 DEF JamAt
<1>2. CASE UNCHANGED vars
  BY <1>2 DEF vars, routeVars, managerVars, JamAt, HoldsFor, Outlet
<1> QED BY <1>1, <1>2

\* A jammed map stays locked by the same task for ever: not even the loss of the
\* connection resolves the circle.
THEOREM JamLasts == Spec => JammedForever
<1>1. IInv => \A m \in Nodes, p \in Ends : JamAt(m, p) => Jammed(m)
  BY JamIsJammed
<1>2. ASSUME IInv, IInv', [Next]_vars, NEW n \in Nodes, Jammed(n)
      PROVE  lock'[n] = lock[n] /\ Jammed(n)'
  <2>1. PICK o \in Ends : JamAt(n, o)
    BY <1>2, JammedHas
  <2>2. JamAt(n, o)' /\ lock'[n] = lock[n]
    BY <1>2, <2>1, JamStays
  <2>3. (\A m \in Nodes, p \in Ends : JamAt(m, p) => Jammed(m))'
    BY <1>1, <1>2, PTL
  <2>4. Jammed(n)'
    BY <2>2, <2>3
  <2> QED BY <2>2, <2>4
<1>3. IInv /\ IInv' /\ [Next]_vars
        => [\A n \in Nodes : Jammed(n) => lock'[n] = lock[n] /\ Jammed(n)']_vars
  BY <1>2
<1> QED BY <1>3, Inductive, PTL DEF Spec, JammedForever
=============================================================================

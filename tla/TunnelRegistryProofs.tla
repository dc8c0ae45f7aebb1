------------------------ MODULE TunnelRegistryProofs ------------------------
(***************************************************************************)
(* Theorems about TunnelRegistry for any set of nodes, any number of       *)
(* connections, any signal capacity and any number of crashes: its safety, *)
(* and that it implements TunnelMap.                                       *)
(***************************************************************************)
EXTENDS TunnelRegistry, TLAPS

\* Phases of an end whose Handshake, as acceptor, is on the wire.
Answered == {"responded", "announcing", "loop", "exiting", "done"}

\* Phases of an end that has been registered, and of one whose task still runs.
Entered == {"announcing", "loop", "exiting", "done"}
Serving == {"announcing", "loop", "exiting"}

\* What the phases of the two ends of a connection say about it.
ConnShape ==
    \A c \in Conns :
        /\ pc[<<c, "out">>] # "responded"
        /\ pc[<<c, "out">>] # "idle" => dialer[c] \in Nodes /\ target[c] \in Nodes
        /\ pc[<<c, "in">>] # "idle" => /\ responder[c] \in Nodes
                                       /\ pc[<<c, "out">>] \notin {"idle", "spawned"}
        /\ pc[<<c, "in">>] \in Answered => target[c] = responder[c]
        /\ pc[<<c, "out">>] \in Entered => pc[<<c, "in">>] \in Answered

\* An entry is keyed by its owner and peer and served by a live task.
RegShape ==
    \A n, m \in Nodes : \A e \in Ends : tunnels[n][m] = e =>
        Owner(e) = n /\ Peer(e) = m /\ pc[e] \in Serving

\* A live session that is not in the map was overwritten there, and a session
\* that left its loop has an excuse.
Reasons ==
    \A e \in Ends :
        /\ pc[e] \in Serving /\ ~Registered(e) => e \in superseded
        /\ pc[e] \in {"exiting", "done"} => Excused(e)

\* The inductive invariant.
IInv == TypeOK /\ ConnShape /\ RegShape /\ Reasons

-----------------------------------------------------------------------------
(* Ends and their phases.                                                  *)

\* An end is a connection with a side; Other swaps the sides.
LEMMA EndFacts ==
    /\ \A c \in Conns : <<c, "out">> \in Ends /\ <<c, "in">> \in Ends
    /\ \A e \in Ends : /\ e[1] \in Conns
                       /\ \/ e = <<e[1], "out">> /\ e[2] = "out"
                          \/ e = <<e[1], "in">> /\ e[2] = "in"
                       /\ Other(e) \in Ends
                       /\ Other(e)[1] = e[1]
                       /\ Other(Other(e)) = e
                       /\ None # e
    /\ \A c \in Conns : /\ Other(<<c, "out">>) = <<c, "in">>
                        /\ Other(<<c, "in">>) = <<c, "out">>
                        /\ <<c, "out">> # <<c, "in">>
BY RegistryAssumption DEF Ends, Other

\* An end whose task has been started belongs to a node and names a node.
LEMMA OwnerFacts ==
    ASSUME TypeOK, ConnShape, NEW e \in Ends, pc[e] # "idle"
    PROVE  Owner(e) \in Nodes /\ Peer(e) \in Nodes
<1>1. CASE e = <<e[1], "out">> /\ e[2] = "out"
  BY <1>1, EndFacts DEF TypeOK, ConnShape, Owner, Peer
<1>2. CASE e = <<e[1], "in">> /\ e[2] = "in"
  BY <1>2, EndFacts DEF TypeOK, ConnShape, Owner, Peer
<1> QED BY <1>1, <1>2, EndFacts

\* Killing a task keeps it idle, failed or done and ends it otherwise.
LEMMA KilledFacts ==
    ASSUME NEW p \in Phases
    PROVE  /\ Killed(p) \in Phases
           /\ p = "idle" <=> Killed(p) = "idle"
           /\ Killed(p) \in {"idle", "failed", "done"}
           /\ p \in Answered => Killed(p) = "done"
           /\ Killed(p) \in Answered => p \in Answered
BY DEF Killed, Phases, Answered

-----------------------------------------------------------------------------
(* Types.                                                                  *)

\* The initial states satisfy the invariant.
LEMMA InitIInv == Init => IInv
<1> SUFFICES ASSUME Init PROVE IInv
  OBVIOUS
<1>1. TypeOK
  BY RegistryAssumption DEF Init, TypeOK, Phases, Ends
<1>2. ConnShape
  BY EndFacts DEF Init, ConnShape, Answered, Entered
<1>3. RegShape
  BY EndFacts DEF Init, RegShape
<1>4. Reasons
  BY DEF Init, Reasons, Serving
<1> QED BY <1>1, <1>2, <1>3, <1>4 DEF IInv

\* Every step keeps the types.
LEMMA TypeStep ==
    ASSUME TypeOK, ConnShape, [Next]_vars
    PROVE  TypeOK'
<1> USE EndFacts, RegistryAssumption
<1>1. ASSUME NEW n \in Nodes, StartServer(n) PROVE TypeOK'
  BY <1>1 DEF TypeOK, StartServer, conn
<1>2. ASSUME NEW n \in Nodes, ReceiveSignal(n) PROVE TypeOK'
  BY <1>2 DEF TypeOK, ReceiveSignal, conn
<1>3. ASSUME NEW n \in Nodes, Crash(n) PROVE TypeOK'
  <2>1. pc' \in [Ends -> Phases]
    BY <1>3, KilledFacts DEF TypeOK, Crash
  <2>2. tunnels' \in [Nodes -> [Nodes -> Ends \cup {None}]]
    BY <1>3 DEF TypeOK, Crash
  <2> QED BY <1>3, <2>1, <2>2 DEF TypeOK, Crash, conn
<1>4. ASSUME NEW n \in Nodes, NEW m \in Nodes, Learn(n, m) PROVE TypeOK'
  BY <1>4 DEF TypeOK, Learn, conn
<1>5. ASSUME NEW c \in Conns, NEW n \in Nodes, NEW m \in Nodes, Dial(c, n, m)
      PROVE  TypeOK'
  BY <1>5 DEF TypeOK, Dial, Phases
<1>6. ASSUME NEW c \in Conns, NEW r \in Nodes, Connect(c, r) PROVE TypeOK'
  BY <1>6 DEF TypeOK, Connect, Phases
<1>7. ASSUME NEW c \in Conns,
             ConnectFails(c) \/ Respond(c) \/ AcceptFails(c) \/ DialFails(c)
      PROVE  TypeOK'
  <2>1. CASE ConnectFails(c)
    BY <2>1 DEF TypeOK, ConnectFails, Phases, conn
  <2>2. CASE Respond(c)
    BY <2>2 DEF TypeOK, Respond, Phases, conn
  <2>3. CASE AcceptFails(c)
    BY <2>3 DEF TypeOK, AcceptFails, Phases, conn
  <2>4. CASE DialFails(c)
    BY <2>4 DEF TypeOK, DialFails, Phases, conn
  <2> QED BY <1>7, <2>1, <2>2, <2>3, <2>4
<1>8. ASSUME NEW e \in Ends, pc[e] # "idle", Insert(e) PROVE TypeOK'
  BY <1>8, OwnerFacts DEF TypeOK, Insert, Phases, conn
<1>9. ASSUME NEW c \in Conns, InsertAccepted(c) \/ InsertDialed(c) PROVE TypeOK'
  BY <1>9, <1>8 DEF InsertAccepted, InsertDialed
<1>10. ASSUME NEW c \in Conns, Lose(c) PROVE TypeOK'
  BY <1>10 DEF TypeOK, Lose, conn
<1>11. ASSUME NEW e \in Ends, Announce(e) PROVE TypeOK'
  <2>1. Owner(e) \in Nodes /\ Peer(e) \in Nodes
    BY <1>11, OwnerFacts DEF Announce
  <2>2. /\ signals' \in [Nodes -> Seq(Nodes)]
        /\ \A n \in Nodes : Len(signals'[n]) <= SignalCap
    BY <1>11, <2>1 DEF TypeOK, Announce
  <2> QED BY <1>11, <2>2 DEF TypeOK, Announce, Phases, conn
<1>12. ASSUME NEW e \in Ends, BreakLoop(e) PROVE TypeOK'
  BY <1>12 DEF TypeOK, BreakLoop, Phases, conn
<1>13. ASSUME NEW e \in Ends, Leave(e) PROVE TypeOK'
  BY <1>13, OwnerFacts DEF TypeOK, Leave, Phases, conn
<1>14. CASE UNCHANGED vars
  BY <1>14 DEF TypeOK, vars
<1> QED
  BY <1>1, <1>2, <1>3, <1>4, <1>5, <1>6, <1>7, <1>9, <1>10, <1>11, <1>12,
     <1>13, <1>14 DEF Next

-----------------------------------------------------------------------------
(* The phases of a connection.                                             *)

\* Every step keeps what the phases say about a connection.
LEMMA ConnStep ==
    ASSUME TypeOK, ConnShape, [Next]_vars
    PROVE  ConnShape'
<1> USE EndFacts DEF ConnShape, Answered, Entered
<1>1. ASSUME UNCHANGED <<conn, pc>> PROVE ConnShape'
  BY <1>1 DEF conn
<1>2. ASSUME NEW n \in Nodes, StartServer(n) \/ ReceiveSignal(n) PROVE ConnShape'
  BY <1>1, <1>2 DEF StartServer, ReceiveSignal
<1>3. ASSUME NEW n \in Nodes, Crash(n) PROVE ConnShape'
  <2> DEFINE P(e) == pc[e]
  <2>1. \A e \in Ends : pc'[e] = P(e) \/ pc'[e] = Killed(P(e))
    BY <1>3 DEF Crash
  <2>2. \A e \in Ends : /\ pc'[e] = "idle" <=> pc[e] = "idle"
                        /\ pc'[e] = "spawned" => pc[e] = "spawned"
                        /\ pc'[e] = "responded" => pc[e] = "responded"
                        /\ pc'[e] \in Answered <=> pc[e] \in Answered
                        /\ pc'[e] \in Entered => pc[e] \in Answered
    BY <2>1, KilledFacts DEF TypeOK, Killed, Phases
  <2>3. \A c \in Conns : pc'[<<c, "out">>] \in Entered => pc[<<c, "out">>] \in Entered
    BY <2>2
  <2>4. UNCHANGED conn
    BY <1>3 DEF Crash
  <2> QED BY <2>2, <2>3, <2>4 DEF conn
<1>4. ASSUME NEW n \in Nodes, NEW m \in Nodes, Learn(n, m) PROVE ConnShape'
  BY <1>1, <1>4 DEF Learn
<1>5. ASSUME NEW c \in Conns, NEW n \in Nodes, NEW m \in Nodes, Dial(c, n, m)
      PROVE  ConnShape'
  BY ZenonT(40), <1>5 DEF TypeOK, Dial
<1>6. ASSUME NEW c \in Conns, NEW r \in Nodes, Connect(c, r) PROVE ConnShape'
  BY <1>6 DEF TypeOK, Connect
<1>7. ASSUME NEW c \in Conns, ConnectFails(c) PROVE ConnShape'
  BY <1>7 DEF TypeOK, ConnectFails, conn
<1>8. ASSUME NEW c \in Conns, Respond(c) PROVE ConnShape'
  BY <1>8 DEF TypeOK, Respond, AcceptorVerifies, conn
<1>9. ASSUME NEW c \in Conns, AcceptFails(c) PROVE ConnShape'
  BY <1>9 DEF TypeOK, AcceptFails, conn
<1>10. ASSUME NEW c \in Conns, DialFails(c) PROVE ConnShape'
  BY <1>10 DEF TypeOK, DialFails, conn
<1>11. ASSUME NEW c \in Conns, InsertAccepted(c) PROVE ConnShape'
  BY <1>11 DEF TypeOK, InsertAccepted, Insert, conn
<1>12. ASSUME NEW c \in Conns, InsertDialed(c) PROVE ConnShape'
  BY <1>12 DEF TypeOK, InsertDialed, ResponseReadable, Insert, conn
<1>13. ASSUME NEW c \in Conns, Lose(c) PROVE ConnShape'
  BY <1>1, <1>13 DEF Lose
<1>14. ASSUME NEW e \in Ends, NEW p \in Entered, pc[e] \in Entered,
              pc' = [pc EXCEPT ![e] = p], UNCHANGED conn
       PROVE  ConnShape'
  BY ZenonT(40), <1>14 DEF TypeOK, conn
<1>15. ASSUME NEW e \in Ends, Announce(e) \/ BreakLoop(e) \/ Leave(e)
       PROVE  ConnShape'
  BY <1>14, <1>15 DEF Announce, BreakLoop, Leave
<1>16. CASE UNCHANGED vars
  BY <1>1, <1>16 DEF vars, conn
<1> QED
  BY <1>2, <1>3, <1>4, <1>5, <1>6, <1>7, <1>8, <1>9, <1>10, <1>11, <1>12,
     <1>13, <1>15, <1>16 DEF Next

\* Once its task has been started an end keeps its owner, its peer and its
\* connection, and a failed dial stays failed.
LEMMA StableEnds ==
    ASSUME TypeOK, ConnShape, [Next]_vars, NEW e \in Ends, pc[e] # "idle"
    PROVE  /\ Owner(e)' = Owner(e)
           /\ Peer(e)' = Peer(e)
<1> USE EndFacts
<1> DEFINE c == e[1]
<1>1. ASSUME UNCHANGED conn
      PROVE  Owner(e)' = Owner(e) /\ Peer(e)' = Peer(e)
  BY <1>1 DEF conn, Owner, Peer
<1>2. pc[<<c, "out">>] # "idle"
  BY DEF ConnShape
<1>3. ASSUME NEW d \in Conns, NEW n \in Nodes, NEW m \in Nodes, Dial(d, n, m)
      PROVE  Owner(e)' = Owner(e) /\ Peer(e)' = Peer(e)
  BY <1>2, <1>3 DEF TypeOK, Dial, Owner, Peer
<1>4. ASSUME NEW d \in Conns, NEW r \in Nodes, Connect(d, r)
      PROVE  Owner(e)' = Owner(e) /\ Peer(e)' = Peer(e)
  BY <1>4 DEF TypeOK, ConnShape, Connect, Owner, Peer
<1>5. UNCHANGED conn \/ (\E d \in Conns, n, m \in Nodes : Dial(d, n, m))
                     \/ (\E d \in Conns, r \in Nodes : Connect(d, r))
  BY DEF Next, StartServer, ReceiveSignal, Crash, Learn, ConnectFails, Respond,
         AcceptFails, InsertAccepted, InsertDialed, Insert, DialFails, Lose,
         Announce, BreakLoop, Leave, vars, conn
<1> QED BY <1>1, <1>3, <1>4, <1>5

-----------------------------------------------------------------------------
(* The map.                                                                *)

\* Every step keeps the entries of the map in order.
LEMMA RegStep ==
    ASSUME TypeOK, ConnShape, RegShape, [Next]_vars
    PROVE  RegShape'
<1> USE EndFacts
<1> SUFFICES ASSUME NEW n \in Nodes, NEW m \in Nodes, NEW e \in Ends,
                    tunnels'[n][m] = e
             PROVE  Owner(e)' = n /\ Peer(e)' = m /\ pc'[e] \in Serving
  BY DEF RegShape
<1>1. ASSUME tunnels[n][m] = e, pc'[e] \in Serving
      PROVE  Owner(e)' = n /\ Peer(e)' = m /\ pc'[e] \in Serving
  BY <1>1, StableEnds DEF RegShape, Serving
<1>2. tunnels[n][m] = e => pc[e] \in Serving
  BY DEF RegShape
<1>3. ASSUME UNCHANGED tunnels,
             \A x \in Ends : pc[x] \in Serving => pc'[x] \in Serving
      PROVE  Owner(e)' = n /\ Peer(e)' = m /\ pc'[e] \in Serving
  BY <1>1, <1>2, <1>3
<1>4. ASSUME NEW k \in Nodes, StartServer(k) \/ ReceiveSignal(k)
      PROVE  Owner(e)' = n /\ Peer(e)' = m /\ pc'[e] \in Serving
  BY <1>3, <1>4 DEF StartServer, ReceiveSignal
<1>5. ASSUME NEW k \in Nodes, Crash(k)
      PROVE  Owner(e)' = n /\ Peer(e)' = m /\ pc'[e] \in Serving
  <2>1. n # k /\ tunnels[n][m] = e
    BY <1>5 DEF Crash, TypeOK
  <2>2. Owner(e) # k
    BY <2>1 DEF RegShape
  <2>3. pc'[e] = pc[e]
    BY <1>5, <2>2 DEF Crash
  <2> QED BY <1>1, <1>2, <2>1, <2>3
<1>6. ASSUME NEW k \in Nodes, NEW l \in Nodes, Learn(k, l)
      PROVE  Owner(e)' = n /\ Peer(e)' = m /\ pc'[e] \in Serving
  BY <1>3, <1>6 DEF Learn
<1>7. ASSUME NEW c \in Conns, NEW k \in Nodes, NEW l \in Nodes, Dial(c, k, l)
      PROVE  Owner(e)' = n /\ Peer(e)' = m /\ pc'[e] \in Serving
  BY <1>3, <1>7 DEF Dial, TypeOK, Serving
<1>8. ASSUME NEW c \in Conns, NEW r \in Nodes, Connect(c, r)
      PROVE  Owner(e)' = n /\ Peer(e)' = m /\ pc'[e] \in Serving
  <2>1. pc[<<c, "out">>] = "spawned" /\ pc[<<c, "in">>] = "idle"
    BY <1>8 DEF Connect, ConnShape
  <2> QED BY <1>3, <1>8, <2>1 DEF Connect, TypeOK, Serving
<1>9. ASSUME NEW c \in Conns,
             ConnectFails(c) \/ Respond(c) \/ AcceptFails(c) \/ DialFails(c) \/ Lose(c)
      PROVE  Owner(e)' = n /\ Peer(e)' = m /\ pc'[e] \in Serving
  BY ZenonT(40), <1>3, <1>9 DEF ConnectFails, Respond, AcceptFails, DialFails, Lose, TypeOK,
                    Serving
<1>10. ASSUME NEW x \in Ends, pc[x] # "idle", Insert(x)
       PROVE  Owner(e)' = n /\ Peer(e)' = m /\ pc'[e] \in Serving
  <2>1. Owner(x) \in Nodes /\ Peer(x) \in Nodes
    BY <1>10, OwnerFacts
  <2>2. CASE tunnels[n][m] = e
    BY <1>1, <1>2, <1>10, <2>2 DEF Insert, TypeOK, Serving
  <2>3. CASE tunnels[n][m] # e
    <3>1. n = Owner(x) /\ m = Peer(x) /\ e = x
      BY <1>10, <2>1, <2>3 DEF Insert, TypeOK
    <3> QED BY <1>10, <3>1, StableEnds DEF Insert, TypeOK, Serving
  <2> QED BY <2>2, <2>3
<1>11. ASSUME NEW c \in Conns, InsertAccepted(c) \/ InsertDialed(c)
       PROVE  Owner(e)' = n /\ Peer(e)' = m /\ pc'[e] \in Serving
  BY <1>10, <1>11 DEF InsertAccepted, InsertDialed
<1>12. ASSUME NEW x \in Ends, Announce(x) \/ BreakLoop(x)
       PROVE  Owner(e)' = n /\ Peer(e)' = m /\ pc'[e] \in Serving
  BY <1>3, <1>12 DEF Announce, BreakLoop, TypeOK, Serving
<1>13. ASSUME NEW x \in Ends, Leave(x)
       PROVE  Owner(e)' = n /\ Peer(e)' = m /\ pc'[e] \in Serving
  <2>1. Owner(x) \in Nodes /\ Peer(x) \in Nodes
    BY <1>13, OwnerFacts DEF Leave
  <2>2. tunnels[n][m] = e
    BY <1>13, <2>1 DEF Leave, TypeOK
  <2>3. ASSUME e = x PROVE FALSE
    <3>1. Owner(x) = n /\ Peer(x) = m
      BY <2>2, <2>3 DEF RegShape
    <3>2. Registered(x)
      BY <2>2, <2>3, <3>1 DEF Registered
    <3> QED BY <1>13, <3>1, <3>2 DEF Leave, TypeOK
  <2> QED BY <1>1, <1>2, <1>13, <2>2, <2>3 DEF Leave, TypeOK
<1>14. CASE UNCHANGED vars
  BY <1>3, <1>14 DEF vars
<1> QED
  BY <1>4, <1>5, <1>6, <1>7, <1>8, <1>9, <1>11, <1>12, <1>13, <1>14 DEF Next

-----------------------------------------------------------------------------
(* Why sessions end.                                                       *)

\* An excuse, once given, stays.
LEMMA ExcusedStable ==
    ASSUME TypeOK, ConnShape, [Next]_vars, NEW e \in Ends, Excused(e)
    PROVE  Excused(e)'
<1> USE EndFacts
<1>1. lost \subseteq lost' /\ superseded \subseteq superseded'
  BY DEF Next, StartServer, ReceiveSignal, Crash, Learn, Dial, Connect,
         ConnectFails, Respond, AcceptFails, InsertAccepted, InsertDialed, Insert,
         DialFails, Lose, Announce, BreakLoop, Leave, vars, conn
<1>2. ASSUME NEW x \in Ends, pc[x] = "failed" PROVE pc'[x] = "failed"
  <2>1. ASSUME NEW y \in Ends, NEW p, pc[y] # "failed", pc' = [pc EXCEPT ![y] = p]
        PROVE  pc'[x] = "failed"
    BY <1>2, <2>1 DEF TypeOK
  <2>2. ASSUME NEW n \in Nodes, Crash(n) PROVE pc'[x] = "failed"
    BY <1>2, <2>2 DEF Crash, Killed
  <2>3. ASSUME NEW c \in Conns, NEW r \in Nodes, Connect(c, r)
        PROVE  pc'[x] = "failed"
    BY <1>2, <2>3 DEF Connect, ConnShape, TypeOK
  <2>4. ASSUME NEW n \in Nodes, StartServer(n) \/ ReceiveSignal(n)
        PROVE  pc'[x] = "failed"
    BY <1>2, <2>4 DEF StartServer, ReceiveSignal
  <2>5. ASSUME NEW n \in Nodes, NEW m \in Nodes, Learn(n, m)
        PROVE  pc'[x] = "failed"
    BY <1>2, <2>5 DEF Learn
  <2>6. ASSUME NEW c \in Conns, NEW n \in Nodes, NEW m \in Nodes, Dial(c, n, m)
        PROVE  pc'[x] = "failed"
    BY <2>1, <2>6 DEF Dial
  <2>7. ASSUME NEW c \in Conns,
               ConnectFails(c) \/ Respond(c) \/ AcceptFails(c) \/ DialFails(c)
        PROVE  pc'[x] = "failed"
    BY <2>1, <2>7 DEF ConnectFails, Respond, AcceptFails, DialFails
  <2>8. ASSUME NEW c \in Conns, InsertAccepted(c) \/ InsertDialed(c)
        PROVE  pc'[x] = "failed"
    BY <2>1, <2>8 DEF InsertAccepted, InsertDialed, Insert
  <2>9. ASSUME NEW c \in Conns, Lose(c) PROVE pc'[x] = "failed"
    BY <1>2, <2>9 DEF Lose
  <2>10. ASSUME NEW y \in Ends, Announce(y) \/ BreakLoop(y) \/ Leave(y)
         PROVE  pc'[x] = "failed"
    BY <2>1, <2>10 DEF Announce, BreakLoop, Leave
  <2>11. CASE UNCHANGED vars
    BY <1>2, <2>11 DEF vars
  <2> QED
    BY <2>2, <2>3, <2>4, <2>5, <2>6, <2>7, <2>8, <2>9, <2>10, <2>11 DEF Next
<1> QED BY <1>1, <1>2 DEF Excused

\* Every step keeps the reasons.
LEMMA ReasonsStep ==
    ASSUME TypeOK, ConnShape, RegShape, Reasons, [Next]_vars
    PROVE  Reasons'
<1> USE EndFacts
<1> SUFFICES ASSUME NEW e \in Ends
             PROVE  /\ pc'[e] \in Serving /\ ~Registered(e)' => e \in superseded'
                    /\ pc'[e] \in {"exiting", "done"} => Excused(e)'
  BY DEF Reasons
<1> DEFINE Why == /\ pc'[e] \in Serving /\ ~Registered(e)' => e \in superseded'
                  /\ pc'[e] \in {"exiting", "done"} => Excused(e)'
<1>1. ASSUME pc[e] \in {"exiting", "done"} PROVE Excused(e)'
  BY <1>1, ExcusedStable DEF Reasons
<1>2. ASSUME pc[e] \in Serving, Registered(e),
             tunnels'[Owner(e)][Peer(e)] = tunnels[Owner(e)][Peer(e)]
      PROVE  Registered(e)'
  BY <1>2, StableEnds DEF Registered, Serving
<1>3. superseded \subseteq superseded'
  BY DEF Next, StartServer, ReceiveSignal, Crash, Learn, Dial, Connect,
         ConnectFails, Respond, AcceptFails, InsertAccepted, InsertDialed, Insert,
         DialFails, Lose, Announce, BreakLoop, Leave, vars, conn
<1>4. ASSUME UNCHANGED tunnels, pc'[e] \in Serving => pc[e] \in Serving,
             pc'[e] \in {"exiting", "done"} => pc[e] \in {"exiting", "done"}
      PROVE  Why
  BY <1>1, <1>2, <1>3, <1>4 DEF Reasons
<1>5. ASSUME NEW n \in Nodes, StartServer(n) \/ ReceiveSignal(n) PROVE Why
  BY <1>4, <1>5 DEF StartServer, ReceiveSignal
<1>6. ASSUME NEW n \in Nodes, Crash(n) PROVE Why
  <2>1. CASE Owner(e) = n /\ pc[e] # "idle"
    <3>1. pc'[e] \in {"idle", "failed", "done"}
      BY <1>6, <2>1, KilledFacts DEF Crash, TypeOK
    <3>2. e[1] \in lost'
      BY <1>6, <2>1 DEF Crash, Owner
    <3> QED BY <3>1, <3>2 DEF Excused, Serving
  <2>2. CASE Owner(e) # n /\ pc[e] # "idle"
    <3>1. pc'[e] = pc[e]
      BY <1>6, <2>2 DEF Crash
    <3>2. Owner(e) \in Nodes
      BY <2>2, OwnerFacts
    <3>3. tunnels'[Owner(e)] = tunnels[Owner(e)]
      BY <1>6, <2>2, <3>2 DEF Crash, TypeOK
    <3> QED BY <1>1, <1>2, <1>3, <3>1, <3>3 DEF Reasons
  <2>3. CASE pc[e] = "idle"
    <3>1. pc'[e] = "idle"
      BY <1>6, <2>3 DEF Crash, Killed
    <3> QED BY <3>1 DEF Serving
  <2> QED BY <2>1, <2>2, <2>3
<1>7. ASSUME NEW n \in Nodes, NEW m \in Nodes, Learn(n, m) PROVE Why
  BY <1>4, <1>7 DEF Learn
<1>8. ASSUME NEW c \in Conns, NEW n \in Nodes, NEW m \in Nodes, Dial(c, n, m)
      PROVE  Why
  BY <1>4, <1>8 DEF Dial, TypeOK, Serving
<1>9. ASSUME NEW c \in Conns, NEW r \in Nodes, Connect(c, r) PROVE Why
  BY <1>4, <1>9 DEF Connect, TypeOK, Serving
<1>10. ASSUME NEW c \in Conns, ConnectFails(c) \/ Respond(c) \/ Lose(c) PROVE Why
  BY <1>4, <1>10 DEF ConnectFails, Respond, Lose, TypeOK, Serving
<1>11. ASSUME NEW c \in Conns, AcceptFails(c) \/ DialFails(c) PROVE Why
  BY <1>4, <1>11 DEF AcceptFails, DialFails, TypeOK, Serving
<1>12. ASSUME NEW x \in Ends, pc[x] # "idle", Insert(x) PROVE Why
  <2>1. Owner(x) \in Nodes /\ Peer(x) \in Nodes
    BY <1>12, OwnerFacts
  <2>2. CASE e = x
    <3>1. Registered(x)'
      BY <1>12, <2>1, StableEnds DEF Insert, TypeOK, Registered
    <3> QED BY <1>12, <2>2, <3>1 DEF Insert, TypeOK
  <2>3. CASE e # x
    <3>1. pc'[e] = pc[e]
      BY <1>12, <2>3 DEF Insert, TypeOK
    <3>2. ASSUME pc[e] \in Serving, Registered(e), ~Registered(e)'
          PROVE  e \in superseded'
      <4>1. Owner(e) \in Nodes /\ Peer(e) \in Nodes
        BY <3>2, OwnerFacts DEF Serving
      <4>2. Owner(e) = Owner(x) /\ Peer(e) = Peer(x)
        BY <1>2, <1>12, <2>1, <3>2, <4>1 DEF Insert, TypeOK
      <4> QED BY <1>12, <3>2, <4>2 DEF Insert, Registered
    <3> QED BY <1>1, <1>3, <3>1, <3>2 DEF Reasons
  <2> QED BY <2>2, <2>3
<1>13. ASSUME NEW c \in Conns, InsertAccepted(c) \/ InsertDialed(c) PROVE Why
  BY <1>12, <1>13 DEF InsertAccepted, InsertDialed
<1>14. ASSUME NEW x \in Ends, Announce(x) PROVE Why
  BY <1>4, <1>14 DEF Announce, TypeOK, Serving
<1>15. ASSUME NEW x \in Ends, BreakLoop(x) PROVE Why
  <2>1. CASE e # x
    BY <1>4, <1>15, <2>1 DEF BreakLoop, TypeOK
  <2>2. CASE e = x
    <3>1. Excused(e)
      <4>1. CASE ~Registered(e)
        BY <1>15, <2>2, <4>1 DEF BreakLoop, Reasons, Serving, Excused
      <4>2. CASE e[1] \in lost
        BY <4>2 DEF Excused
      <4>3. CASE pc[Other(e)] = "done"
        <5>1. Excused(Other(e))
          BY <4>3 DEF Reasons
        <5> QED BY <5>1 DEF Excused
      <4>4. CASE pc[Other(e)] = "failed"
        <5>1. CASE e = <<e[1], "in">>
          BY <4>4, <5>1 DEF Excused
        <5>2. CASE e = <<e[1], "out">>
          BY <1>15, <2>2, <4>4, <5>2 DEF BreakLoop, ConnShape, Entered, Answered
        <5> QED BY <5>1, <5>2
      <4> QED
        BY <1>15, <2>2, <4>1, <4>2, <4>3, <4>4 DEF BreakLoop, StreamDown, Closed
    <3>2. Excused(e)'
      BY <3>1, ExcusedStable
    <3>3. pc[e] \in Serving /\ UNCHANGED tunnels
      BY <1>15, <2>2 DEF BreakLoop, Serving
    <3> QED BY <1>2, <1>3, <3>2, <3>3 DEF Reasons
  <2> QED BY <2>1, <2>2
<1>16. ASSUME NEW x \in Ends, Leave(x) PROVE Why
  <2>1. Owner(x) \in Nodes /\ Peer(x) \in Nodes
    BY <1>16, OwnerFacts DEF Leave
  <2>2. CASE e = x
    <3>1. pc[e] = "exiting" /\ pc'[e] = "done"
      BY <1>16, <2>2 DEF Leave, TypeOK
    <3> QED BY <1>1, <3>1 DEF Serving
  <2>3. CASE e # x
    <3>1. pc'[e] = pc[e]
      BY <1>16, <2>3 DEF Leave, TypeOK
    <3>2. ASSUME pc[e] \in Serving, Registered(e) PROVE Registered(e)'
      <4>1. Owner(e) \in Nodes /\ Peer(e) \in Nodes
        BY <3>2, OwnerFacts DEF Serving
      <4>2. tunnels'[Owner(e)][Peer(e)] = tunnels[Owner(e)][Peer(e)]
        BY <1>16, <2>1, <2>3, <3>2, <4>1 DEF Leave, TypeOK, Registered
      <4> QED BY <1>2, <3>2, <4>2
    <3> QED BY <1>1, <1>3, <3>1, <3>2 DEF Reasons
  <2> QED BY <2>2, <2>3
<1>17. CASE UNCHANGED vars
  BY <1>4, <1>17 DEF vars
<1> QED
  BY <1>5, <1>6, <1>7, <1>8, <1>9, <1>10, <1>11, <1>13, <1>14, <1>15, <1>16,
     <1>17 DEF Next

-----------------------------------------------------------------------------
(* The theorems.                                                           *)

\* IInv is an inductive invariant.
THEOREM Inductive == Spec => []IInv
<1>1. IInv /\ [Next]_vars => IInv'
  BY TypeStep, ConnStep, RegStep, ReasonsStep DEF IInv
<1> QED BY InitIInv, <1>1, PTL DEF Spec

\* The types of the registry's state hold in every reachable state.
THEOREM TypeCorrect == Spec => []TypeOK
BY Inductive, PTL DEF IInv

\* An entry of ACTIVE_TCP_TUNNELS always belongs to a task that still serves it.
THEOREM NoDangling == Spec => []NoDanglingEntry
<1>1. IInv => NoDanglingEntry
  <2>1. TypeOK => \A n, m \in Nodes : tunnels[n][m] # None => tunnels[n][m] \in Ends
    BY DEF TypeOK
  <2> QED BY <2>1 DEF IInv, RegShape, Serving, NoDanglingEntry
<1> QED BY Inductive, <1>1, PTL

\* An entry for m at n always ends at m, and its handshake was made for its
\* acceptor, whichever node the dialled address led to.
THEOREM Binding == Spec => []AuthenticBinding
<1>1. IInv => AuthenticBinding
  <2> SUFFICES ASSUME IInv, NEW n \in Nodes, NEW m \in Nodes, tunnels[n][m] # None
               PROVE  LET e == tunnels[n][m]
                      IN  /\ Owner(e) = n
                          /\ Peer(e) = m
                          /\ Owner(Other(e)) = m
                          /\ target[e[1]] = responder[e[1]]
    BY DEF AuthenticBinding
  <2> DEFINE e == tunnels[n][m]
  <2>1. e \in Ends /\ Owner(e) = n /\ Peer(e) = m /\ pc[e] \in Serving
    BY DEF IInv, TypeOK, RegShape
  <2> HIDE DEF e
  <2>2. pc[<<e[1], "in">>] \in Answered
    BY <2>1, EndFacts DEF IInv, ConnShape, Serving, Answered, Entered
  <2>3. target[e[1]] = responder[e[1]]
    BY <2>1, <2>2, EndFacts DEF IInv, ConnShape
  <2>4. Owner(Other(e)) = m
    BY <2>1, <2>3, EndFacts DEF Owner, Peer, Other
  <2> QED BY <2>1, <2>3, <2>4 DEF e
<1> QED BY Inductive, <1>1, PTL

\* A session leaves its loop only when its connection broke, it or its other end
\* was overwritten, or the dialer gave up: never because of another session's exit.
THEOREM NoSpurious == Spec => []NoSpuriousTeardown
<1>1. IInv => NoSpuriousTeardown
  BY DEF IInv, Reasons, NoSpuriousTeardown
<1> QED BY Inductive, <1>1, PTL

\* Once the tasks are quiet, a session is registered at one side exactly when
\* its other end is registered at the other side.
THEOREM Agreement == Spec => []QuietAgreement
<1> USE EndFacts
<1>1. ASSUME IInv, Quiet, NEW n \in Nodes, NEW m \in Nodes, NEW e \in Ends,
             tunnels[n][m] = e
      PROVE  tunnels[m][n] = Other(e)
  <2>1. Owner(e) = n /\ Peer(e) = m /\ pc[e] = "loop"
    BY <1>1 DEF IInv, RegShape, Serving, Quiet
  <2>2. pc[Other(e)] \in {"idle", "loop"}
    BY <1>1, <2>1 DEF Quiet, StreamDown, Closed
  <2>3. pc[Other(e)] = "loop" /\ target[e[1]] = responder[e[1]]
    <3>1. PICK c \in Conns : e[1] = c /\ e \in {<<c, "out">>, <<c, "in">>}
      OBVIOUS
    <3>2. /\ pc[<<c, "in">>] # "idle" => pc[<<c, "out">>] # "idle"
          /\ pc[<<c, "in">>] = "loop" => target[c] = responder[c]
          /\ pc[<<c, "out">>] = "loop" => pc[<<c, "in">>] # "idle"
      BY <1>1 DEF IInv, ConnShape, Answered, Entered
    <3>3. CASE e = <<c, "out">>
      BY <2>1, <2>2, <3>1, <3>2, <3>3
    <3>4. CASE e = <<c, "in">>
      BY <2>1, <2>2, <3>1, <3>2, <3>4
    <3> QED BY <3>1, <3>3, <3>4
  <2>4. Registered(Other(e))
    BY <1>1, <2>3 DEF Quiet
  <2>5. CASE e[2] = "out"
    BY <2>1, <2>3, <2>4, <2>5 DEF Registered, Owner, Peer, Other
  <2>6. CASE e[2] = "in"
    BY <2>1, <2>3, <2>4, <2>6 DEF Registered, Owner, Peer, Other
  <2> QED BY <2>5, <2>6
<1>2. IInv => QuietAgreement
  BY <1>1 DEF QuietAgreement
<1> QED BY Inductive, <1>2, PTL

\* An entry disappears from the map only together with the session it names.
THEOREM RemovalByOwner == Spec => OwnRemovalOnly
<1> USE EndFacts
<1>1. ASSUME IInv, [Next]_vars, NEW n \in Nodes, NEW m \in Nodes,
             tunnels[n][m] # None, tunnels'[n][m] = None
      PROVE  pc'[tunnels[n][m]] = "done"
  <2> DEFINE e == tunnels[n][m]
  <2>1. e \in Ends
    BY <1>1 DEF IInv, TypeOK
  <2>2. Owner(e) = n /\ Peer(e) = m /\ pc[e] \in Serving
    BY <2>1, <1>1 DEF IInv, RegShape
  <2>3. ASSUME NEW k \in Nodes, Crash(k) PROVE pc'[e] = "done"
    <3>1. k = n
      BY <1>1, <2>3 DEF Crash, IInv, TypeOK
    <3>2. pc'[e] = Killed(pc[e])
      BY <2>1, <2>2, <2>3, <3>1 DEF Crash
    <3> QED BY <2>2, <3>2 DEF Killed, Serving
  <2>4. ASSUME NEW x \in Ends, Leave(x) PROVE pc'[e] = "done"
    <3>1. Registered(x) /\ n = Owner(x) /\ m = Peer(x)
      BY <1>1, <2>4 DEF Leave, IInv, TypeOK
    <3>2. x = e
      BY <3>1 DEF Registered
    <3>3. pc'[x] = "done"
      BY <1>1, <2>4 DEF Leave, IInv, TypeOK
    <3> QED BY <3>2, <3>3
  <2>5. ASSUME NEW x \in Ends, pc[x] # "idle", Insert(x) PROVE FALSE
    <3>1. Owner(x) \in Nodes /\ Peer(x) \in Nodes
      BY <1>1, <2>5, OwnerFacts DEF IInv
    <3> QED BY <1>1, <2>5, <3>1 DEF Insert, IInv, TypeOK
  <2>6. \/ UNCHANGED tunnels
        \/ \E k \in Nodes : Crash(k)
        \/ \E x \in Ends : Leave(x)
        \/ \E x \in Ends : pc[x] # "idle" /\ Insert(x)
    BY <1>1 DEF Next, StartServer, ReceiveSignal, Learn, Dial, Connect, ConnectFails,
           Respond, AcceptFails, InsertAccepted, InsertDialed, DialFails, Lose,
           Announce, BreakLoop, vars
  <2> QED BY <1>1, <2>3, <2>4, <2>5, <2>6
<1>2. IInv /\ [Next]_vars =>
         [\A n, m \in Nodes : (tunnels[n][m] # None /\ tunnels'[n][m] = None)
                                  => pc'[tunnels[n][m]] = "done"]_vars
  BY <1>1
<1> QED BY Inductive, <1>2, PTL DEF Spec, OwnRemovalOnly

-----------------------------------------------------------------------------
(* TunnelRegistry implements TunnelMap.  A session is entered by Insert,   *)
(* ended by Leave, abandoned by the failures of dialling and accepting,    *)
(* and lost with the others of its process by Crash; every other step      *)
(* leaves the map and the lives of the sessions as they are.               *)

\* What Life says of a phase.
LEMMA LifeFacts ==
    ASSUME TypeOK, NEW e \in Ends
    PROVE  /\ Life[e] = "live" <=> pc[e] \in Serving
           /\ Life[e] = "over" <=> pc[e] \in {"failed", "done"}
           /\ Life[e] = "new" <=> pc[e] \in {"idle", "spawned", "shaking", "responded"}
BY DEF TypeOK, Phases, Life, Serving, Closed

\* A step that moves one end to another phase changes the life of no other.
LEMMA OneLife ==
    ASSUME TypeOK, TypeOK', NEW e \in Ends, NEW p \in Phases, NEW l,
           pc' = [pc EXCEPT ![e] = p], Life'[e] = l
    PROVE  Life' = [Life EXCEPT ![e] = l]
<1>1. \A x \in Ends : x # e => pc'[x] = pc[x]
  BY DEF TypeOK
<1>2. \A x \in Ends : x # e => Life'[x] = Life[x]
  BY <1>1 DEF Life, Closed
<1>3. /\ Life = [x \in Ends |-> Life[x]]
      /\ Life' = [x \in Ends |-> Life'[x]]
  BY DEF Life
<1> QED BY <1>2, <1>3

\* A step whose moves stay within one kind of phase leaves every life alone.
LEMMA SameLife ==
    ASSUME TypeOK, TypeOK',
           \A e \in Ends :
              \/ pc'[e] = pc[e]
              \/ pc[e] \in Serving /\ pc'[e] \in Serving
              \/ /\ pc[e] \in {"idle", "spawned", "shaking"}
                 /\ pc'[e] \in {"spawned", "shaking", "responded"}
    PROVE  UNCHANGED Life
<1>1. \A e \in Ends : Life'[e] = Life[e]
  BY DEF Life, Serving, Closed
<1>2. /\ Life = [x \in Ends |-> Life[x]]
      /\ Life' = [x \in Ends |-> Life'[x]]
  BY DEF Life
<1> QED BY <1>1, <1>2

\* Insert enters a new session.
LEMMA InsertRegisters ==
    ASSUME IInv, IInv', NEW e \in Ends, pc[e] \in {"shaking", "responded"}, Insert(e)
    PROVE  Map!Next
<1>1. Owner(e) \in Nodes /\ Peer(e) \in Nodes
  BY OwnerFacts DEF IInv
<1>2. Life[e] = "new"
  BY LifeFacts DEF IInv
<1>3. pc' = [pc EXCEPT ![e] = "announcing"]
  BY DEF Insert
<1>4. pc'[e] = "announcing"
  BY <1>3 DEF IInv, TypeOK
<1>5. Life'[e] = "live"
  BY <1>4 DEF Life
<1>6. Life' = [Life EXCEPT ![e] = "live"]
  BY <1>3, <1>5, OneLife DEF IInv, Phases
<1>7. Map!Register(Owner(e), Peer(e), e)
  BY <1>2, <1>6 DEF Map!Register, Insert
<1> QED BY <1>1, <1>7 DEF Map!Next

\* A failure before the session was entered abandons it.
LEMMA FailureAbandons ==
    ASSUME IInv, IInv', NEW e \in Ends, pc[e] \in {"spawned", "shaking"},
           pc' = [pc EXCEPT ![e] = "failed"], UNCHANGED tunnels
    PROVE  Map!Next
<1>1. Life[e] = "new"
  BY LifeFacts DEF IInv
<1>2. pc'[e] = "failed"
  BY DEF IInv, TypeOK
<1>3. Life'[e] = "over"
  BY <1>2 DEF Life, Closed
<1>4. Life' = [Life EXCEPT ![e] = "over"]
  BY <1>3, OneLife DEF IInv, Phases
<1>5. Map!Abandon(e)
  BY <1>1, <1>4 DEF Map!Abandon
<1> QED BY <1>5 DEF Map!Next

\* Leave takes out the session's own entry and no other.
LEMMA LeaveEnds ==
    ASSUME IInv, IInv', NEW e \in Ends, Leave(e)
    PROVE  Map!Next
<1>1. pc[e] = "exiting" /\ pc' = [pc EXCEPT ![e] = "done"]
  BY DEF Leave
<1>2. Life[e] = "live"
  BY <1>1, LifeFacts DEF IInv, Serving
<1>3. pc'[e] = "done"
  BY <1>1 DEF IInv, TypeOK
<1>4. Life'[e] = "over"
  BY <1>3 DEF Life, Closed
<1>5. Life' = [Life EXCEPT ![e] = "over"]
  BY <1>1, <1>4, OneLife DEF IInv, Phases
<1>6. Owner(e) \in Nodes /\ Peer(e) \in Nodes
  BY <1>1, OwnerFacts DEF IInv
<1>7. \A n, m \in Nodes : tunnels[n][m] = e => n = Owner(e) /\ m = Peer(e)
  BY DEF IInv, RegShape
<1>8. \A n, m \in Nodes :
         tunnels'[n][m] = IF tunnels[n][m] = e THEN None ELSE tunnels[n][m]
  <2>1. CASE Registered(e)
    BY <1>6, <1>7, <2>1 DEF Leave, Registered, IInv, TypeOK
  <2>2. CASE ~Registered(e)
    BY <1>7, <2>2 DEF Leave, Registered
  <2> QED BY <2>1, <2>2
<1>9. tunnels' = [n \in Nodes |-> [m \in Nodes |->
                     IF tunnels[n][m] = e THEN None ELSE tunnels[n][m]]]
  BY <1>8 DEF IInv, TypeOK
<1>10. Map!End(e)
  BY <1>2, <1>5, <1>9 DEF Map!End
<1> QED BY <1>10 DEF Map!Next

\* A crash ends the sessions of its process and empties its map.
LEMMA CrashResets ==
    ASSUME IInv, IInv', NEW n \in Nodes, Crash(n)
    PROVE  Map!Next
<1> DEFINE S == {e \in Ends : Owner(e) = n /\ pc[e] # "idle"}
<1>1. \A m \in Nodes : tunnels[n][m] \in S \cup {None}
  <2>1. \A m \in Nodes : tunnels[n][m] \in Ends \cup {None}
    BY DEF IInv, TypeOK
  <2>2. \A m \in Nodes : \A e \in Ends :
           tunnels[n][m] = e => Owner(e) = n /\ pc[e] # "idle"
    BY DEF IInv, RegShape, Serving
  <2> QED BY <2>1, <2>2
<1>2. \A k \in Nodes \ {n}, m \in Nodes : tunnels[k][m] \notin S
  BY DEF IInv, RegShape
<1>3. \A e \in Ends : Life'[e] = IF e \in S THEN "over" ELSE Life[e]
  <2> SUFFICES ASSUME NEW e \in Ends
               PROVE  Life'[e] = IF e \in S THEN "over" ELSE Life[e]
    OBVIOUS
  <2>1. CASE e \in S
    <3>1. pc[e] \in Phases /\ pc'[e] = Killed(pc[e])
      BY <2>1 DEF Crash, IInv, TypeOK
    <3>2. pc'[e] \in {"failed", "done"}
      BY <2>1, <3>1 DEF Killed
    <3> QED BY <2>1, <3>2 DEF Life, Closed
  <2>2. CASE e \notin S
    <3>1. pc'[e] = pc[e]
      BY <2>2 DEF Crash, Killed
    <3> QED BY <2>2, <3>1 DEF Life, Closed
  <2> QED BY <2>1, <2>2
<1>4. Life' = [e \in Ends |-> IF e \in S THEN "over" ELSE Life[e]]
  <2>1. Life' = [e \in Ends |-> Life'[e]]
    BY DEF Life
  <2> HIDE DEF S
  <2> QED BY <1>3, <2>1
<1>5. tunnels' = [tunnels EXCEPT ![n] = [m \in Nodes |-> None]]
  BY DEF Crash
<1>6. S \in SUBSET Ends
  OBVIOUS
<1> HIDE DEF S
<1>7. Map!Reset(n, S)
  BY <1>1, <1>2, <1>4, <1>5 DEF Map!Reset
<1> QED BY <1>6, <1>7 DEF Map!Next

-----------------------------------------------------------------------------
\* The tunnels of local_mesh.rs implement the map of TunnelMap: a session is
\* entered once, its entry goes only with it, an ended session is never found
\* there, and a crash costs a node its own entries only.
THEOREM Refinement == Spec => ImplementsTunnelMap
<1>1. Init => Map!Init
  BY DEF Init, Map!Init, Life, Closed
<1>2. IInv /\ IInv' /\ [Next]_vars => [Map!Next]_(Map!vars)
  <2> SUFFICES ASSUME IInv, IInv', [Next]_vars
               PROVE  Map!Next \/ UNCHANGED <<tunnels, Life>>
    BY DEF Map!vars
  <2> USE EndFacts
  <2>0. pc \in [Ends -> Phases]
    BY DEF IInv, TypeOK
  <2>1. ASSUME NEW n \in Nodes, StartServer(n) \/ ReceiveSignal(n)
        PROVE  UNCHANGED <<tunnels, Life>>
    BY <2>1, SameLife DEF StartServer, ReceiveSignal, IInv
  <2>2. ASSUME NEW n \in Nodes, Crash(n) PROVE Map!Next
    BY <2>2, CrashResets
  <2>3. ASSUME NEW n \in Nodes, NEW m \in Nodes, Learn(n, m)
        PROVE  UNCHANGED <<tunnels, Life>>
    BY <2>3, SameLife DEF Learn, IInv
  <2>4. ASSUME NEW c \in Conns, NEW n \in Nodes, NEW m \in Nodes, Dial(c, n, m)
        PROVE  UNCHANGED <<tunnels, Life>>
    <3>1. \A e \in Ends : \/ pc'[e] = pc[e]
                          \/ pc[e] = "idle" /\ pc'[e] = "spawned"
      BY <2>0, <2>4 DEF Dial
    <3> QED BY <2>4, <3>1, SameLife DEF Dial, IInv
  <2>5. ASSUME NEW c \in Conns, NEW r \in Nodes, Connect(c, r)
        PROVE  UNCHANGED <<tunnels, Life>>
    <3>1. pc[<<c, "out">>] = "spawned" /\ pc[<<c, "in">>] = "idle"
      BY <2>5 DEF Connect, IInv, ConnShape
    <3>2. \A e \in Ends : \/ pc'[e] = pc[e]
                          \/ pc[e] \in {"idle", "spawned"} /\ pc'[e] = "shaking"
      BY <2>0, <2>5, <3>1 DEF Connect
    <3> QED BY <2>5, <3>2, SameLife DEF Connect, IInv
  <2>6. ASSUME NEW c \in Conns, ConnectFails(c) \/ AcceptFails(c) \/ DialFails(c)
        PROVE  Map!Next
    BY <2>6, FailureAbandons DEF ConnectFails, AcceptFails, DialFails
  <2>7. ASSUME NEW c \in Conns, Respond(c) PROVE UNCHANGED <<tunnels, Life>>
    <3>1. \A e \in Ends : \/ pc'[e] = pc[e]
                          \/ pc[e] = "shaking" /\ pc'[e] = "responded"
      BY <2>0, <2>7 DEF Respond
    <3> QED BY <2>7, <3>1, SameLife DEF Respond, IInv
  <2>8. ASSUME NEW c \in Conns, InsertAccepted(c) \/ InsertDialed(c)
        PROVE  Map!Next
    BY <2>8, InsertRegisters DEF InsertAccepted, InsertDialed
  <2>9. ASSUME NEW c \in Conns, Lose(c) PROVE UNCHANGED <<tunnels, Life>>
    BY <2>9, SameLife DEF Lose, IInv
  <2>10. ASSUME NEW e \in Ends, Announce(e) \/ BreakLoop(e)
         PROVE  UNCHANGED <<tunnels, Life>>
    <3>1. \A x \in Ends : \/ pc'[x] = pc[x]
                          \/ pc[x] \in Serving /\ pc'[x] \in Serving
      BY <2>0, <2>10 DEF Announce, BreakLoop, Serving
    <3> QED BY <2>10, <3>1, SameLife DEF Announce, BreakLoop, IInv
  <2>11. ASSUME NEW e \in Ends, Leave(e) PROVE Map!Next
    BY <2>11, LeaveEnds
  <2>12. CASE UNCHANGED vars
    BY <2>12, SameLife DEF vars, IInv
  <2> QED
    BY <2>1, <2>2, <2>3, <2>4, <2>5, <2>6, <2>7, <2>8, <2>9, <2>10, <2>11,
       <2>12 DEF Next
<1> QED BY Inductive, <1>1, <1>2, PTL DEF Spec, ImplementsTunnelMap, Map!Spec
=============================================================================

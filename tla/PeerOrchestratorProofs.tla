----------------------- MODULE PeerOrchestratorProofs -----------------------
(***************************************************************************)
(* Theorems about PeerOrchestrator for any pool of session ids, any redial *)
(* ladder and any number and kinds of disturbances.                        *)
(***************************************************************************)
EXTENDS PeerOrchestrator, TLAPS

Ops == {"DisconnectPeer", "DisconnectPeerSession", "PeerConnected", "AutoConnect",
        "Call", "offer", "reoffer", "restart", "answer"}

Commands == [op : Ops, s : Sessions \cup {None}]

Backoffs == [attempts : 0..Top, waiting : BOOLEAN, connected : BOOLEAN]

\* What is queued for the managers are commands.
Queues == queue \in [Nodes -> Seq(Commands)]

\* Signals describe sessions.
Signals == signals \subseteq [to : Nodes, op : {"offer", "reoffer", "restart", "answer"},
                              s : Sessions]

\* A manager's map names its own sessions, and none that was taken out before.
Owned == \A n \in Nodes : active[n] # None => active[n][1] = n /\ active[n] \notin closing

\* The inductive invariant.
IInv == TypeOK /\ Queues /\ Signals /\ Owned /\ NoOrphan /\ DeadSessionWatched

-----------------------------------------------------------------------------
(* Queues and helpers of the handlers.                                     *)

\* Taking the first element of a queue and appending one keep the others.
LEMMA HeadTail ==
    ASSUME NEW S, NEW q \in Seq(S), q # <<>>
    PROVE  /\ Head(q) \in S /\ Tail(q) \in Seq(S)
           /\ \A i \in DOMAIN q : q[i] # Head(q) =>
                 \E j \in DOMAIN Tail(q) : Tail(q)[j] = q[i]
<1>1. Len(q) \in Nat /\ Len(q) > 0 /\ DOMAIN q = 1..Len(q)
  OBVIOUS
<1>2. Tail(q) \in Seq(S) /\ Len(Tail(q)) = Len(q) - 1 /\ Head(q) = q[1] /\ Head(q) \in S
  BY <1>1
<1>3. DOMAIN Tail(q) = 1..(Len(q) - 1)
  BY <1>1, <1>2
<1>4. ASSUME NEW i \in DOMAIN q, q[i] # Head(q)
      PROVE  \E j \in DOMAIN Tail(q) : Tail(q)[j] = q[i]
  <2>1. i \in 1..Len(q) /\ i # 1
    BY <1>1, <1>2, <1>4
  <2>2. i - 1 \in 1..(Len(q) - 1)
    BY <1>1, <2>1
  <2>3. Tail(q)[i - 1] = q[i]
    BY <1>1, <2>1, <2>2
  <2> QED BY <1>3, <2>2, <2>3
<1> QED BY <1>2, <1>4

LEMMA Appended ==
    ASSUME NEW S, NEW q \in Seq(S), NEW x \in S
    PROVE  /\ Append(q, x) \in Seq(S)
           /\ \A i \in DOMAIN q : i \in DOMAIN Append(q, x) /\ Append(q, x)[i] = q[i]
           /\ \E i \in DOMAIN Append(q, x) : Append(q, x)[i] = x
<1>1. Len(q) \in Nat /\ DOMAIN q = 1..Len(q)
  OBVIOUS
<1>2. /\ Append(q, x) \in Seq(S) /\ Len(Append(q, x)) = Len(q) + 1
      /\ Append(q, x)[Len(q) + 1] = x
      /\ \A i \in 1..Len(q) : Append(q, x)[i] = q[i]
  OBVIOUS
<1>3. DOMAIN Append(q, x) = 1..(Len(q) + 1)
  BY <1>1, <1>2
<1> QED BY <1>1, <1>2, <1>3

\* The node a session belongs to.
LEMMA SessionNode ==
    ASSUME NEW s \in Sessions
    PROVE  s[1] \in Nodes /\ s # None
BY OrchestratorAssumption DEF Sessions, Nodes

\* A backoff with some of its fields replaced is a backoff.
LEMMA Fields ==
    ASSUME NEW b \in Backoffs
    PROVE  /\ b.attempts \in 0..Top
           /\ \A w \in BOOLEAN : [b EXCEPT !.waiting = w] \in Backoffs
           /\ \A a \in 0..Top : /\ [b EXCEPT !.attempts = a, !.waiting = TRUE] \in Backoffs
                               /\ [b EXCEPT !.attempts = a, !.connected = FALSE] \in Backoffs
BY Zenon DEF Backoffs

\* What the handlers make of a backoff is a backoff.
LEMMA BackoffTypes ==
    /\ NoBackoff \in Backoffs
    /\ [NoBackoff EXCEPT !.connected = TRUE] \in Backoffs
    /\ [attempts |-> 1, waiting |-> TRUE, connected |-> FALSE] \in Backoffs
    /\ \A b \in Backoffs :
          /\ Touch(b) \in Backoffs
          /\ Penalty(b) \in Backoffs
          /\ Noticed(b) \in Backoffs
          /\ NextRung(b) \in Backoffs
          /\ [b EXCEPT !.attempts = IF @ = 0 THEN 1 ELSE @, !.waiting = TRUE] \in Backoffs
          /\ [b EXCEPT !.waiting = FALSE] \in Backoffs
<1>1. Top \in Nat /\ Top >= 1
  BY OrchestratorAssumption
<1>2. /\ NoBackoff \in Backoffs
      /\ [NoBackoff EXCEPT !.connected = TRUE] \in Backoffs
      /\ [attempts |-> 1, waiting |-> TRUE, connected |-> FALSE] \in Backoffs
  <2>1. 0 \in 0..Top /\ 1 \in 0..Top
    BY <1>1
  <2>2. NoBackoff \in Backoffs
    BY <2>1 DEF NoBackoff, Backoffs
  <2>3. [attempts |-> 1, waiting |-> TRUE, connected |-> FALSE] \in Backoffs
    BY <2>1 DEF Backoffs
  <2>4. [NoBackoff EXCEPT !.connected = TRUE] \in Backoffs
    BY <2>2, Zenon DEF Backoffs
  <2> QED BY <2>2, <2>3, <2>4
<1>3. ASSUME NEW b \in Backoffs PROVE Touch(b) \in Backoffs
  <2>1. (b.attempts > 0) \in BOOLEAN
    OBVIOUS
  <2> QED BY <2>1, Fields, Zenon DEF Touch
<1>4. ASSUME NEW b \in Backoffs PROVE Penalty(b) \in Backoffs /\ Noticed(b) \in Backoffs
  BY <1>2, <1>3, Zenon DEF Penalty, Noticed
<1>5. ASSUME NEW b \in Backoffs PROVE NextRung(b) \in Backoffs
  <2> DEFINE a == IF b.attempts = Top THEN Top ELSE b.attempts + 1
  <2> DEFINE c == [b EXCEPT !.attempts = a, !.connected = FALSE]
  <2>1. b.attempts \in 0..Top
    BY Fields, Zenon
  <2>2. a \in 0..Top
    BY <1>1, <2>1
  <2>3. c \in Backoffs
    <3> HIDE DEF a
    <3> QED BY <2>2, Fields, Zenon
  <2>4. NextRung(b) = Touch(c)
    BY Zenon DEF NextRung
  <2> QED BY <1>3, <2>3, <2>4, Zenon
<1>6. ASSUME NEW b \in Backoffs
      PROVE  /\ [b EXCEPT !.attempts = IF @ = 0 THEN 1 ELSE @, !.waiting = TRUE]
                   \in Backoffs
             /\ [b EXCEPT !.waiting = FALSE] \in Backoffs
  <2> DEFINE a == IF b.attempts = 0 THEN 1 ELSE b.attempts
  <2>1. b.attempts \in 0..Top
    BY Fields, Zenon
  <2>2. a \in 0..Top
    BY <1>1, <2>1
  <2>3. [b EXCEPT !.attempts = a, !.waiting = TRUE] \in Backoffs
    <3> HIDE DEF a
    <3> QED BY <2>2, Fields, Zenon
  <2> QED BY <2>3, Fields, Zenon
<1> QED BY <1>2, <1>3, <1>4, <1>5, <1>6

\* TypeOK in two parts: the sessions, and the rest of a manager's world.
SessionTypes ==
    /\ active \in [Nodes -> Sessions \cup {None}]
    /\ st \in [Sessions -> States]
    /\ remote \in [Sessions -> Sessions \cup {None}]
    /\ closing \subseteq Sessions /\ grace \subseteq Sessions
    /\ watch \subseteq Sessions /\ greetings \subseteq Sessions
    /\ abandoned \subseteq Sessions

WorldTypes ==
    /\ spawned \in [Nodes -> SUBSET {"AutoConnect", "Call"}]
    /\ backoff \in [Nodes -> Backoffs]
    /\ focused \in [Nodes -> BOOLEAN]
    /\ ws \in [Nodes -> BOOLEAN]
    /\ info \in [Nodes -> {"unknown", "offline", "online"}]
    /\ tunnel \in BOOLEAN /\ dropped \in BOOLEAN
    /\ events \in 0..MaxEvents

LEMMA Parts == (TypeOK => SessionTypes /\ WorldTypes) /\ (SessionTypes /\ WorldTypes => TypeOK)
BY Zenon DEF TypeOK, SessionTypes, WorldTypes, Backoffs

\* A function with one value replaced.
LEMMA Updated ==
    ASSUME NEW S, NEW T, NEW f \in [S -> T], NEW x \in S, NEW v \in T
    PROVE  /\ [f EXCEPT ![x] = v] \in [S -> T]
           /\ [f EXCEPT ![x] = v][x] = v
           /\ \A y \in S : y # x => [f EXCEPT ![x] = v][y] = f[y]
OBVIOUS

\* An event keeps the count within its bound, and so does what may be one.
LEMMA Counted ==
    ASSUME WorldTypes
    PROVE  /\ \A kind : Event(kind) => events' \in 0..MaxEvents
           /\ UNCHANGED events => events' \in 0..MaxEvents
           /\ Slow => events' \in 0..MaxEvents
           /\ \A n : InTime(n) => events' \in 0..MaxEvents
<1>1. MaxEvents \in Nat /\ events \in 0..MaxEvents
  BY OrchestratorAssumption DEF WorldTypes
<1>2. ASSUME NEW kind, Event(kind) PROVE events' \in 0..MaxEvents
  BY <1>1, <1>2 DEF Event
<1>3. UNCHANGED events => events' \in 0..MaxEvents
  BY <1>1
<1>4. Slow => events' \in 0..MaxEvents
  BY <1>2, <1>3 DEF Slow
<1>5. ASSUME NEW n, InTime(n) PROVE events' \in 0..MaxEvents
  BY <1>2, <1>3, <1>5 DEF InTime
<1> QED BY <1>2, <1>3, <1>4, <1>5

-----------------------------------------------------------------------------
(* What the steps make of the queues.                                      *)

Report(s) == Cmd("DisconnectPeerSession", s)

\* The sessions whose end is reported to a manager.
Reports == [n \in Nodes |-> {s \in Sessions : Queued(n, Report(s))}]

\* No report is taken out of a queue.
Kept == \A n \in Nodes : Reports[n] \subseteq Reports'[n]

\* Commands made by the handlers.
LEMMA CommandFacts ==
    /\ \A op \in Ops, s \in Sessions \cup {None} : Cmd(op, s) \in Commands
    /\ \A s \in Sessions : Report(s) \in Commands
    /\ \A c \in Commands : c.op \in Ops /\ c.s \in Sessions \cup {None} /\ c = Cmd(c.op, c.s)
BY DEF Commands, Cmd, Report, Ops

\* The command being handled.
LEMMA Handled ==
    ASSUME Queues, NEW n \in Nodes, NEW op, Handling(n, op)
    PROVE  /\ queue[n] \in Seq(Commands) /\ queue[n] # <<>>
           /\ Head(queue[n]) \in Commands /\ Head(queue[n]).op = op
           /\ Tail(queue[n]) \in Seq(Commands)
<1>1. queue[n] \in Seq(Commands) /\ queue[n] # <<>> /\ Head(queue[n]).op = op
  BY DEF Queues, Handling
<1> QED BY <1>1, HeadTail

\* A handled command leaves its queue; every report but that one stays.
LEMMA Popped ==
    ASSUME Queues, NEW n \in Nodes, NEW op, Handling(n, op), Pop(n)
    PROVE  /\ Queues'
           /\ \A m \in Nodes, s \in Sessions :
                 s \in Reports[m] /\ Head(queue[n]) # Report(s) => s \in Reports'[m]
           /\ op # "DisconnectPeerSession" => Kept
<1> DEFINE q == queue[n]
<1>1. q \in Seq(Commands) /\ q # <<>> /\ Head(q).op = op /\ Tail(q) \in Seq(Commands)
  BY Handled
<1>2. queue \in [Nodes -> Seq(Commands)] /\ queue' = [queue EXCEPT ![n] = Tail(q)]
  BY DEF Queues, Pop
<1>3. /\ queue' \in [Nodes -> Seq(Commands)] /\ queue'[n] = Tail(q)
      /\ \A m \in Nodes : m # n => queue'[m] = queue[m]
  BY <1>1, <1>2, Updated
<1>4. ASSUME NEW m \in Nodes, NEW s \in Sessions, Queued(m, Report(s)),
             Head(q) # Report(s)
      PROVE  Queued(m, Report(s))'
  <2>1. CASE m # n
    BY <1>3, <1>4, <2>1 DEF Queued
  <2>2. CASE m = n
    <3>1. PICK i \in DOMAIN q : q[i] = Report(s)
      BY <1>4, <2>2 DEF Queued
    <3>2. \E j \in DOMAIN Tail(q) : Tail(q)[j] = q[i]
      BY <1>1, <1>4, <3>1, HeadTail
    <3> QED BY <1>3, <2>2, <3>1, <3>2 DEF Queued
  <2> QED BY <2>1, <2>2
<1>5. ASSUME op # "DisconnectPeerSession" PROVE Kept
  <2>1. \A s \in Sessions : Head(q) # Report(s)
    BY <1>1, <1>5 DEF Report, Cmd
  <2>2. \A m \in Nodes, s \in Sessions : Queued(m, Report(s)) => Queued(m, Report(s))'
    BY <1>4, <2>1
  <2> QED BY <2>2 DEF Kept, Reports
<1>6. \A m \in Nodes, s \in Sessions :
         s \in Reports[m] /\ Head(q) # Report(s) => s \in Reports'[m]
  BY <1>4 DEF Reports
<1> QED BY <1>3, <1>5, <1>6 DEF Queues

\* A command is sent to a manager.
LEMMA Sent ==
    ASSUME Queues, NEW n \in Nodes, NEW c \in Commands,
           queue' = [queue EXCEPT ![n] = Append(@, c)]
    PROVE  Queues' /\ Kept /\ \A s \in Sessions : c = Report(s) => s \in Reports'[n]
<1> DEFINE q == queue[n]
<1>1. q \in Seq(Commands) /\ queue \in [Nodes -> Seq(Commands)]
  BY DEF Queues
<1>2. /\ Append(q, c) \in Seq(Commands)
      /\ \A i \in DOMAIN q : i \in DOMAIN Append(q, c) /\ Append(q, c)[i] = q[i]
      /\ \E i \in DOMAIN Append(q, c) : Append(q, c)[i] = c
  BY <1>1, Appended
<1>3. /\ queue' \in [Nodes -> Seq(Commands)] /\ queue'[n] = Append(q, c)
      /\ \A m \in Nodes : m # n => queue'[m] = queue[m]
  BY <1>1, <1>2, Updated
<1>4. Queued(n, c)'
  BY <1>2, <1>3 DEF Queued
<1>5. ASSUME NEW m \in Nodes, NEW s \in Sessions, Queued(m, Report(s))
      PROVE  Queued(m, Report(s))'
  <2>1. CASE m # n
    BY <1>3, <1>5, <2>1 DEF Queued
  <2>2. CASE m = n
    BY <1>2, <1>3, <1>5, <2>2 DEF Queued
  <2> QED BY <2>1, <2>2
<1> QED BY <1>3, <1>4, <1>5 DEF Kept, Reports, Queues

\* A command is handled by sending another one to the manager itself.
LEMMA Replaced ==
    ASSUME Queues, NEW n \in Nodes, NEW op, Handling(n, op), op # "DisconnectPeerSession",
           NEW c \in Commands, queue' = [queue EXCEPT ![n] = Append(Tail(@), c)]
    PROVE  Queues' /\ Kept
<1> DEFINE q == queue[n]
<1> DEFINE r == Tail(queue[n])
<1>1. q \in Seq(Commands) /\ q # <<>> /\ Head(q).op = op /\ r \in Seq(Commands)
  BY Handled
<1>2. /\ Append(r, c) \in Seq(Commands)
      /\ \A i \in DOMAIN r : i \in DOMAIN Append(r, c) /\ Append(r, c)[i] = r[i]
  BY <1>1, Appended
<1>3. queue \in [Nodes -> Seq(Commands)]
  BY DEF Queues
<1>4. /\ queue' \in [Nodes -> Seq(Commands)] /\ queue'[n] = Append(r, c)
      /\ \A m \in Nodes : m # n => queue'[m] = queue[m]
  BY <1>2, <1>3, Updated
<1>5. ASSUME NEW m \in Nodes, NEW s \in Sessions, Queued(m, Report(s))
      PROVE  Queued(m, Report(s))'
  <2>1. CASE m # n
    BY <1>4, <1>5, <2>1 DEF Queued
  <2>2. CASE m = n
    <3>1. PICK i \in DOMAIN q : q[i] = Report(s)
      BY <1>5, <2>2 DEF Queued
    <3>2. q[i] # Head(q)
      BY <1>1, <3>1 DEF Report, Cmd
    <3>3. PICK j \in DOMAIN r : r[j] = q[i]
      BY <1>1, <3>2, HeadTail
    <3> QED BY <1>2, <1>4, <2>2, <3>1, <3>3 DEF Queued
  <2> QED BY <2>1, <2>2
<1> QED BY <1>4, <1>5 DEF Kept, Reports, Queues

\* A queue nobody touches.
LEMMA Untouched ==
    ASSUME Queues, UNCHANGED queue
    PROVE  Queues' /\ Kept
BY DEF Queues, Kept, Reports, Queued

\* A signal is handed to the network, if there is a way.
LEMMA Routed ==
    ASSUME Signals, NEW n \in Nodes, NEW op \in {"offer", "restart", "answer"},
           NEW s \in Sessions, Route(n, op, s)
    PROVE  Signals'
<1> DEFINE kind == IF op = "restart" /\ tunnel THEN "reoffer" ELSE op
<1>1. Other(n) \in Nodes
  BY DEF Other, Nodes
<1>2. kind \in {"offer", "reoffer", "restart", "answer"}
  OBVIOUS
<1>3. signals' \subseteq signals \cup {Signal(Other(n), kind, s)}
  BY DEF Route
<1> QED BY <1>1, <1>2, <1>3 DEF Signals, Signal

-----------------------------------------------------------------------------
(* What the steps make of the sessions.                                    *)

\* DeadSessionWatched, in terms of the reports.
Watched ==
    \A n \in Nodes : active[n] # None =>
        /\ st[active[n]] = "Failed" => active[n] \in Reports[n]
        /\ st[active[n]] = "Disconnected" =>
              active[n] \in Reports[n] \/ active[n] \in grace \cup watch
        /\ st[active[n]] # "Closed"

Shape == SessionTypes /\ Owned /\ NoOrphan /\ Watched

LEMMA SameWatch == SessionTypes => (DeadSessionWatched <=> Watched)
BY DEF SessionTypes, DeadSessionWatched, Watched, Reports, Report

\* The inductive invariant in the parts the lemmas speak of.
LEMMA ShapeOf == IInv <=> Shape /\ WorldTypes /\ Queues /\ Signals
BY Parts, SameWatch, Zenon DEF IInv, Shape

\* A session that nobody refers to is closed and in no one's way.
LEMMA FreshFacts ==
    ASSUME Shape, NEW n \in Nodes, NEW s \in Sessions, Fresh(n, s)
    PROVE  /\ s[1] = n /\ s # None /\ st[s] = "Closed" /\ s \notin closing \cup abandoned
           /\ \A m \in Nodes : active[m] # s
<1>1. s[1] = n /\ st[s] = "Closed" /\ s \notin closing \cup abandoned
  BY DEF Fresh, Unused, Shape, NoOrphan
<1>2. s # None
  BY SessionNode
<1>3. ASSUME NEW m \in Nodes, active[m] = s PROVE FALSE
  BY <1>1, <1>2, <1>3 DEF Shape, Watched
<1> QED BY <1>1, <1>2, <1>3

\* A step that leaves the sessions alone and takes no report out of a queue.
LEMMA Undisturbed ==
    ASSUME Shape, Kept,
           UNCHANGED <<active, st, remote, closing, grace, watch, greetings, abandoned>>
    PROVE  Shape'
<1>1. SessionTypes'
  BY DEF Shape, SessionTypes
<1>2. Owned' /\ NoOrphan'
  BY DEF Shape, Owned, NoOrphan
<1>3. ASSUME NEW n \in Nodes, active'[n] # None
      PROVE  /\ st'[active'[n]] = "Failed" => active'[n] \in Reports'[n]
             /\ st'[active'[n]] = "Disconnected" =>
                   active'[n] \in Reports'[n] \/ active'[n] \in grace' \cup watch'
             /\ st'[active'[n]] # "Closed"
  BY <1>3 DEF Shape, SessionTypes, Watched, Kept
<1>4. Watched'
  BY <1>3 DEF Watched
<1> QED BY <1>1, <1>2, <1>4 DEF Shape

\* An entry is taken out of a map and its session is going to be closed; the
\* reports about the sessions that stay in the maps stay too.
LEMMA Removing ==
    ASSUME Shape, NEW n \in Nodes, Uninstall(n),
           UNCHANGED <<st, remote, grace, watch, greetings, abandoned>>,
           \A m \in Nodes : m # n => Reports[m] \subseteq Reports'[m]
    PROVE  Shape'
<1>1. /\ active' \in [Nodes -> Sessions \cup {None}] /\ active'[n] = None
      /\ \A m \in Nodes : m # n => active'[m] = active[m]
      /\ closing' = closing \cup ({active[n]} \ {None})
  BY Updated DEF Shape, SessionTypes, Uninstall, Removed
<1>2. SessionTypes'
  BY <1>1 DEF Shape, SessionTypes
<1>3. Owned'
  <2> SUFFICES ASSUME NEW m \in Nodes, active'[m] # None
               PROVE  active'[m][1] = m /\ active'[m] \notin closing'
    BY DEF Owned
  <2>1. m # n /\ active'[m] = active[m]
    BY <1>1
  <2>2. active[m][1] = m /\ active[m] \notin closing
    BY <2>1 DEF Shape, Owned
  <2>3. active[m] # active[n]
    BY <2>1, <2>2 DEF Shape, Owned
  <2> QED BY <1>1, <2>1, <2>2, <2>3
<1>4. NoOrphan'
  <2> SUFFICES ASSUME NEW s \in Sessions
               PROVE  IF s \in abandoned
                      THEN st[s] # "Closed" /\ active'[s[1]] # s /\ s \notin closing'
                      ELSE st[s] # "Closed" => active'[s[1]] = s \/ s \in closing'
    BY DEF NoOrphan
  <2>1. s[1] \in Nodes /\ s # None
    BY SessionNode
  <2>2. IF s \in abandoned
        THEN st[s] # "Closed" /\ active[s[1]] # s /\ s \notin closing
        ELSE st[s] # "Closed" => active[s[1]] = s \/ s \in closing
    BY DEF Shape, NoOrphan
  <2>3. active[n] = s => s[1] = n
    BY <2>1 DEF Shape, Owned
  <2> QED BY <1>1, <2>1, <2>2, <2>3
<1>5. ASSUME NEW m \in Nodes, active'[m] # None
      PROVE  /\ st'[active'[m]] = "Failed" => active'[m] \in Reports'[m]
             /\ st'[active'[m]] = "Disconnected" =>
                   active'[m] \in Reports'[m] \/ active'[m] \in grace' \cup watch'
             /\ st'[active'[m]] # "Closed"
  <2>1. m # n /\ active'[m] = active[m]
    BY <1>1, <1>5
  <2> QED BY <1>5, <2>1 DEF Shape, Watched
<1>6. Watched'
  BY <1>5 DEF Watched
<1> QED BY <1>2, <1>3, <1>4, <1>6 DEF Shape

\* A new session takes the place of the entry.
LEMMA Replacing ==
    ASSUME Shape, Kept, NEW n \in Nodes, NEW s \in Sessions, Fresh(n, s),
           NEW given \in Sessions \cup {None}, Install(n, s, given),
           UNCHANGED <<grace, watch, greetings, abandoned>>
    PROVE  Shape'
<1>1. /\ active' \in [Nodes -> Sessions \cup {None}] /\ active'[n] = s
      /\ \A m \in Nodes : m # n => active'[m] = active[m]
      /\ closing' = closing \cup ({active[n]} \ {None})
  BY Updated DEF Shape, SessionTypes, Install, Removed
<1>2. /\ st' \in [Sessions -> States] /\ st'[s] = "Connecting"
      /\ \A t \in Sessions : t # s => st'[t] = st[t]
  BY Updated DEF Shape, SessionTypes, Install, States
<1>3. remote' \in [Sessions -> Sessions \cup {None}]
  BY Updated DEF Shape, SessionTypes, Install
<1>4. /\ s[1] = n /\ s # None /\ st[s] = "Closed" /\ s \notin closing \cup abandoned
      /\ \A m \in Nodes : active[m] # s
  BY FreshFacts
<1>5. SessionTypes'
  BY <1>1, <1>2, <1>3 DEF Shape, SessionTypes
<1>6. Owned'
  <2> SUFFICES ASSUME NEW m \in Nodes, active'[m] # None
               PROVE  active'[m][1] = m /\ active'[m] \notin closing'
    BY DEF Owned
  <2>1. CASE m = n
    BY <1>1, <1>4, <2>1
  <2>2. CASE m # n
    <3>1. active'[m] = active[m] /\ active[m] # None
      BY <1>1, <2>2
    <3>2. active[m][1] = m /\ active[m] \notin closing
      BY <3>1 DEF Shape, Owned
    <3>3. active[m] # active[n]
      BY <2>2, <3>1, <3>2 DEF Shape, Owned
    <3> QED BY <1>1, <3>1, <3>2, <3>3
  <2> QED BY <2>1, <2>2
<1>7. NoOrphan'
  <2> SUFFICES ASSUME NEW t \in Sessions
               PROVE  IF t \in abandoned
                      THEN st'[t] # "Closed" /\ active'[t[1]] # t /\ t \notin closing'
                      ELSE st'[t] # "Closed" => active'[t[1]] = t \/ t \in closing'
    BY DEF NoOrphan
  <2>1. CASE t = s
    BY <1>1, <1>4, <2>1
  <2>2. CASE t # s
    <3>1. IF t \in abandoned
          THEN st'[t] # "Closed" /\ active[t[1]] # t /\ t \notin closing
          ELSE st'[t] # "Closed" => active[t[1]] = t \/ t \in closing
      BY <1>2, <2>2 DEF Shape, NoOrphan
    <3>2. t[1] \in Nodes /\ t # None
      BY SessionNode
    <3>3. active[n] = t => t[1] = n
      BY <3>2 DEF Shape, Owned
    <3> QED BY <1>1, <2>2, <3>1, <3>2, <3>3
  <2> QED BY <2>1, <2>2
<1>8. ASSUME NEW m \in Nodes, active'[m] # None
      PROVE  /\ st'[active'[m]] = "Failed" => active'[m] \in Reports'[m]
             /\ st'[active'[m]] = "Disconnected" =>
                   active'[m] \in Reports'[m] \/ active'[m] \in grace' \cup watch'
             /\ st'[active'[m]] # "Closed"
  <2>1. CASE m = n
    BY <1>1, <1>2, <2>1
  <2>2. CASE m # n
    <3>1. active'[m] = active[m] /\ active[m] \in Sessions /\ active[m] # s
      BY <1>1, <1>4, <1>8, <2>2 DEF Shape, SessionTypes
    <3>2. st'[active[m]] = st[active[m]]
      BY <1>2, <3>1
    <3> QED BY <1>8, <3>1, <3>2 DEF Shape, Watched, Kept
  <2> QED BY <2>1, <2>2
<1>9. Watched'
  BY <1>8 DEF Watched
<1> QED BY <1>5, <1>6, <1>7, <1>9 DEF Shape

\* A new session is given up before it is in a map; the entry goes, or there is none.
LEMMA Abandoning ==
    ASSUME Shape, Kept, NEW n \in Nodes, NEW s \in Sessions, Fresh(n, s),
           NEW given \in Sessions \cup {None}, abandoned' = abandoned \cup {s},
           st' = [st EXCEPT ![s] = "Connecting"], remote' = [remote EXCEPT ![s] = given],
           Uninstall(n) \/ UNCHANGED <<active, closing>>, UNCHANGED <<grace, watch, greetings>>
    PROVE  Shape'
<1>1. /\ active' \in [Nodes -> Sessions \cup {None}]
      /\ \A m \in Nodes : active'[m] \in {active[m], None}
      /\ \A m \in Nodes : active'[m] # active[m] => active[m] \in closing'
      /\ \A t \in Sessions : t \in closing' =>
            t \in closing \/ (active[n] = t /\ active'[n] = None)
      /\ closing \subseteq closing' /\ closing' \subseteq Sessions
  <2>1. CASE Uninstall(n)
    <3>1. /\ active' \in [Nodes -> Sessions \cup {None}] /\ active'[n] = None
          /\ \A m \in Nodes : m # n => active'[m] = active[m]
          /\ closing' = closing \cup ({active[n]} \ {None})
      BY <2>1, Updated DEF Shape, SessionTypes, Uninstall, Removed
    <3> QED BY <3>1 DEF Shape, SessionTypes
  <2>2. CASE UNCHANGED <<active, closing>>
    BY <2>2 DEF Shape, SessionTypes
  <2> QED BY <2>1, <2>2
<1>2. /\ st' \in [Sessions -> States] /\ st'[s] = "Connecting"
      /\ \A t \in Sessions : t # s => st'[t] = st[t]
  BY Updated DEF Shape, SessionTypes, States
<1>3. remote' \in [Sessions -> Sessions \cup {None}]
  BY Updated DEF Shape, SessionTypes
<1>4. /\ s[1] = n /\ s # None /\ s \notin closing \cup abandoned
      /\ \A m \in Nodes : active[m] # s
  BY FreshFacts
<1>5. SessionTypes'
  BY <1>1, <1>2, <1>3 DEF Shape, SessionTypes
<1>6. Owned'
  <2> SUFFICES ASSUME NEW m \in Nodes, active'[m] # None
               PROVE  active'[m][1] = m /\ active'[m] \notin closing'
    BY DEF Owned
  <2>1. active'[m] = active[m] /\ active[m] \in Sessions
    BY <1>1 DEF Shape, SessionTypes
  <2>2. active[m][1] = m /\ active[m] \notin closing
    BY <2>1 DEF Shape, Owned
  <2>3. active[n] = active[m] => n = m
    BY <2>1, <2>2 DEF Shape, Owned
  <2> QED BY <1>1, <2>1, <2>2, <2>3
<1>7. NoOrphan'
  <2> SUFFICES ASSUME NEW t \in Sessions
               PROVE  IF t \in abandoned'
                      THEN st'[t] # "Closed" /\ active'[t[1]] # t /\ t \notin closing'
                      ELSE st'[t] # "Closed" => active'[t[1]] = t \/ t \in closing'
    BY DEF NoOrphan
  <2>1. t[1] \in Nodes /\ t # None
    BY SessionNode
  <2>2. CASE t = s
    BY <1>1, <1>2, <1>4, <2>1, <2>2
  <2>3. CASE t # s
    <3>1. IF t \in abandoned
          THEN st'[t] # "Closed" /\ active[t[1]] # t /\ t \notin closing
          ELSE st'[t] # "Closed" => active[t[1]] = t \/ t \in closing
      BY <1>2, <2>3 DEF Shape, NoOrphan
    <3>2. active[n] = t => t[1] = n
      BY <2>1 DEF Shape, Owned
    <3> QED BY <1>1, <2>1, <2>3, <3>1, <3>2
  <2> QED BY <2>2, <2>3
<1>8. ASSUME NEW m \in Nodes, active'[m] # None
      PROVE  /\ st'[active'[m]] = "Failed" => active'[m] \in Reports'[m]
             /\ st'[active'[m]] = "Disconnected" =>
                   active'[m] \in Reports'[m] \/ active'[m] \in grace' \cup watch'
             /\ st'[active'[m]] # "Closed"
  <2>1. active'[m] = active[m] /\ active[m] \in Sessions /\ active[m] # s
    BY <1>1, <1>4, <1>8 DEF Shape, SessionTypes
  <2>2. st'[active[m]] = st[active[m]]
    BY <1>2, <2>1
  <2> QED BY <1>8, <2>1, <2>2 DEF Shape, Watched, Kept
<1>9. Watched'
  BY <1>8 DEF Watched
<1> QED BY <1>5, <1>6, <1>7, <1>9 DEF Shape

\* A session that is not closed moves on and, in the map, is watched or told of.
LEMMA Moving ==
    ASSUME Shape, Kept, NEW s \in Sessions, st[s] # "Closed", NEW new \in States,
           new # "Closed", st' = [st EXCEPT ![s] = new],
           new = "Failed" => s \in Reports'[s[1]],
           new = "Disconnected" => s \in grace',
           grace' \subseteq Sessions, grace \subseteq grace',
           greetings' \subseteq Sessions, UNCHANGED <<active, remote, closing, watch, abandoned>>
    PROVE  Shape'
<1>1. /\ st' \in [Sessions -> States] /\ st'[s] = new
      /\ \A t \in Sessions : t # s => st'[t] = st[t]
  BY Updated DEF Shape, SessionTypes
<1>2. SessionTypes'
  BY <1>1 DEF Shape, SessionTypes
<1>3. Owned'
  BY DEF Shape, Owned
<1>4. NoOrphan'
  BY <1>1 DEF Shape, NoOrphan
<1>5. ASSUME NEW m \in Nodes, active'[m] # None
      PROVE  /\ st'[active'[m]] = "Failed" => active'[m] \in Reports'[m]
             /\ st'[active'[m]] = "Disconnected" =>
                   active'[m] \in Reports'[m] \/ active'[m] \in grace' \cup watch'
             /\ st'[active'[m]] # "Closed"
  <2>1. active'[m] = active[m] /\ active[m] \in Sessions /\ active[m][1] = m
    BY <1>5 DEF Shape, SessionTypes, Owned
  <2>2. CASE active[m] = s
    BY <1>1, <2>1, <2>2
  <2>3. CASE active[m] # s
    <3>1. st'[active[m]] = st[active[m]]
      BY <1>1, <2>1, <2>3
    <3> QED BY <1>5, <2>1, <3>1 DEF Shape, Watched, Kept
  <2> QED BY <2>2, <2>3
<1>6. Watched'
  BY <1>5 DEF Watched
<1> QED BY <1>2, <1>3, <1>4, <1>6 DEF Shape

\* A step after which every session in a map is still watched or told of.
LEMMA StillWatched ==
    ASSUME Shape, UNCHANGED <<active, st, remote, closing, abandoned>>,
           greetings' \subseteq Sessions,
           Kept, grace' \subseteq Sessions, watch' \subseteq Sessions,
           \A s \in Sessions : (st[s] = "Disconnected" /\ s \in grace \cup watch) =>
              s \in grace' \cup watch' \/ s \in Reports'[s[1]]
    PROVE  Shape'
<1>1. SessionTypes'
  BY DEF Shape, SessionTypes
<1>2. Owned' /\ NoOrphan'
  BY DEF Shape, Owned, NoOrphan
<1>3. ASSUME NEW m \in Nodes, active'[m] # None
      PROVE  /\ st'[active'[m]] = "Failed" => active'[m] \in Reports'[m]
             /\ st'[active'[m]] = "Disconnected" =>
                   active'[m] \in Reports'[m] \/ active'[m] \in grace' \cup watch'
             /\ st'[active'[m]] # "Closed"
  <2>1. active'[m] = active[m] /\ active[m] \in Sessions /\ active[m][1] = m
    BY <1>3 DEF Shape, SessionTypes, Owned
  <2>2. active[m] \in Reports[m] => active[m] \in Reports'[m]
    BY <2>1 DEF Kept
  <2> QED BY <1>3, <2>1, <2>2 DEF Shape, Watched
<1>4. Watched'
  BY <1>3 DEF Watched
<1> QED BY <1>1, <1>2, <1>4 DEF Shape

-----------------------------------------------------------------------------
(* Every step keeps the types of the managers' worlds.                     *)

\* The fields of WorldTypes under the updates the handlers make.
LEMMA WorldUpdates ==
    ASSUME WorldTypes, NEW n \in Nodes
    PROVE  /\ \A b \in Backoffs : [backoff EXCEPT ![n] = b] \in [Nodes -> Backoffs]
           /\ \A v \in BOOLEAN : /\ [focused EXCEPT ![n] = v] \in [Nodes -> BOOLEAN]
                                 /\ [ws EXCEPT ![n] = v] \in [Nodes -> BOOLEAN]
           /\ \A v \in {"unknown", "offline", "online"} :
                 [info EXCEPT ![n] = v] \in [Nodes -> {"unknown", "offline", "online"}]
           /\ \A ops \in SUBSET {"AutoConnect", "Call"} :
                 /\ [spawned EXCEPT ![n] = @ \cup ops]
                       \in [Nodes -> SUBSET {"AutoConnect", "Call"}]
                 /\ [spawned EXCEPT ![n] = @ \ ops]
                       \in [Nodes -> SUBSET {"AutoConnect", "Call"}]
           /\ backoff[n] \in Backoffs
<1>1. /\ backoff \in [Nodes -> Backoffs]
      /\ focused \in [Nodes -> BOOLEAN] /\ ws \in [Nodes -> BOOLEAN]
      /\ info \in [Nodes -> {"unknown", "offline", "online"}]
      /\ spawned \in [Nodes -> SUBSET {"AutoConnect", "Call"}]
  BY DEF WorldTypes
<1>2. ASSUME NEW ops \in SUBSET {"AutoConnect", "Call"}
      PROVE  /\ spawned[n] \cup ops \in SUBSET {"AutoConnect", "Call"}
             /\ spawned[n] \ ops \in SUBSET {"AutoConnect", "Call"}
  BY <1>1
<1> QED BY <1>1, <1>2, Updated, Zenon

\* What Drop does to the focus and the backoff.
LEMMA DropWorld ==
    ASSUME WorldTypes, NEW n \in Nodes, Drop(n)
    PROVE  focused' \in [Nodes -> BOOLEAN] /\ backoff' \in [Nodes -> Backoffs]
BY WorldUpdates, BackoffTypes, Zenon DEF Drop

LEMMA ManageWorld ==
    ASSUME WorldTypes, NEW n \in Nodes, Manage(n)
    PROVE  WorldTypes'
<1> DEFINE b == backoff[n]
<1> USE DEF world
<1>1. CASE DisconnectPeer(n)
  BY <1>1, DropWorld, Zenon DEF DisconnectPeer, WorldTypes
<1>2. CASE DisconnectPeerSession(n)
  BY <1>2, DropWorld, Zenon DEF DisconnectPeerSession, WorldTypes
<1>3. CASE PeerConnected(n)
  <2>1. backoff' \in [Nodes -> Backoffs]
    BY <1>3, WorldUpdates, BackoffTypes, Zenon DEF PeerConnected
  <2>2. info' \in [Nodes -> {"unknown", "offline", "online"}]
    BY <1>3, WorldUpdates, Zenon DEF PeerConnected
  <2> QED BY <1>3, <2>1, <2>2, Zenon DEF PeerConnected, WorldTypes
<1>4. CASE AnswerRestart(n)
  BY <1>4, Counted, Zenon DEF AnswerRestart, WorldTypes
<1>5. CASE IgnoreDuplicate(n)
  BY <1>5, Zenon DEF IgnoreDuplicate, WorldTypes
<1>6. CASE RefuseOffer(n)
  BY <1>6, Counted, Zenon DEF RefuseOffer, WorldTypes
<1>7. ASSUME NEW s \in Sessions, AnswerFails(n, s) PROVE WorldTypes'
  BY <1>7, Counted, Zenon DEF AnswerFails, NotMade, WorldTypes
<1>8. CASE ApplyAnswer(n)
  BY <1>8, Zenon DEF ApplyAnswer, WorldTypes
<1>9. CASE AutoConnectActive(n)
  BY <1>9, Counted, Zenon DEF AutoConnectActive, WorldTypes
<1>10. CASE AutoConnectRefused(n)
  <2>1. backoff' = [backoff EXCEPT
                       ![n] = [b EXCEPT !.attempts = IF @ = 0 THEN 1 ELSE @, !.waiting = TRUE]]
    BY <1>10 DEF AutoConnectRefused, WorldTypes
  <2>2. backoff' \in [Nodes -> Backoffs]
    BY <2>1, WorldUpdates, BackoffTypes, Zenon
  <2> QED BY <1>10, <2>2, Counted, Zenon DEF AutoConnectRefused, WorldTypes
<1>11. CASE AutoConnectPostponed(n)
  <2>1. backoff' \in [Nodes -> Backoffs]
    BY <1>11, WorldUpdates, BackoffTypes, Zenon DEF AutoConnectPostponed
  <2> QED BY <1>11, <2>1, Zenon DEF AutoConnectPostponed, WorldTypes
<1>12. CASE CallSkips(n)
  BY <1>12, Zenon DEF CallSkips, WorldTypes
<1>13. CASE CallRefused(n)
  BY <1>13, Counted, Zenon DEF CallRefused, WorldTypes
<1>14. ASSUME NEW s \in Sessions, AnswerOffer(n, s) PROVE WorldTypes'
  <2>1. dropped' \in BOOLEAN
    BY <1>14, Zenon DEF AnswerOffer
  <2> QED BY <1>14, <2>1, Zenon DEF AnswerOffer, WorldTypes
<1>15. ASSUME NEW s \in Sessions, AutoConnectDials(n, s) PROVE WorldTypes'
  <2>1. backoff' \in [Nodes -> Backoffs]
    BY <1>15, WorldUpdates, BackoffTypes, Zenon DEF AutoConnectDials
  <2> QED BY <1>15, <2>1, Counted, Zenon DEF AutoConnectDials, NotMade, WorldTypes
<1>16. ASSUME NEW s \in Sessions, CallDials(n, s) PROVE WorldTypes'
  <2>1. backoff' \in [Nodes -> Backoffs]
    BY <1>16, WorldUpdates, BackoffTypes, Zenon DEF CallDials
  <2>2. focused' \in [Nodes -> BOOLEAN]
    BY <1>16, WorldUpdates, Zenon DEF CallDials
  <2>3. events' \in 0..MaxEvents
    BY <1>16, Counted, Zenon DEF CallDials, NotMade
  <2> QED BY <1>16, <2>1, <2>2, <2>3, Zenon DEF CallDials, WorldTypes
<1> QED BY <1>1, <1>2, <1>3, <1>4, <1>5, <1>6, <1>7, <1>8, <1>9, <1>10, <1>11, <1>12,
           <1>13, <1>14, <1>15, <1>16 DEF Manage

\* The lists, the local mesh and the server.
LEMMA ListWorld ==
    ASSUME WorldTypes, NEW n \in Nodes,
           \/ Tick(n) \/ UserCalls(n) \/ CooldownEnds(n) \/ WsConnect(n) \/ WsDisconnect(n)
           \/ TunnelEstablished(n) \/ NodesListWithout(n) \/ PeerDiscovered(n)
           \/ ReloadResources(n) \/ ApplyTurnCredentials(n)
           \/ \E isOnline \in BOOLEAN : MergeNodesList(n, isOnline)
           \/ \E op \in spawned[n] : SendSpawned(n, op)
           \/ \E isOnline, changed \in BOOLEAN : NodesList(n, isOnline, changed)
    PROVE  WorldTypes'
<1> DEFINE b == backoff[n]
<1> DEFINE Infos == {"unknown", "offline", "online"}
<1> USE DEF world
<1>0. \A isOnline : Listed(isOnline) \in Infos
  BY DEF Listed
<1>1. CASE Tick(n)
  BY <1>1, Counted, Zenon DEF Tick, WorldTypes
<1>2. CASE UserCalls(n)
  <2>1. {"Call"} \in SUBSET {"AutoConnect", "Call"}
    OBVIOUS
  <2>2. spawned' \in [Nodes -> SUBSET {"AutoConnect", "Call"}]
    BY <1>2, <2>1, WorldUpdates, Zenon DEF UserCalls, Spawn
  <2> QED BY <1>2, <2>2, Counted, Zenon DEF UserCalls, WorldTypes
<1>3. CASE CooldownEnds(n)
  <2>1. backoff' = [backoff EXCEPT ![n] = [b EXCEPT !.waiting = FALSE]]
    BY <1>3 DEF CooldownEnds
  <2>2. backoff' \in [Nodes -> Backoffs]
    BY <2>1, WorldUpdates, BackoffTypes, Zenon
  <2> QED BY <1>3, <2>2, Counted, Zenon DEF CooldownEnds, WorldTypes
<1>4. CASE WsConnect(n)
  <2>1. ws' \in [Nodes -> BOOLEAN] /\ focused' \in [Nodes -> BOOLEAN]
    BY <1>4, WorldUpdates, Zenon DEF WsConnect, Fallback, WorldTypes
  <2>2. dropped' \in BOOLEAN
    BY <1>4, Zenon DEF WsConnect, CutServer, WorldTypes
  <2> QED BY <1>4, <2>1, <2>2, Counted, Zenon DEF WsConnect, WorldTypes
<1>5. CASE WsDisconnect(n)
  <2>1. ws' \in [Nodes -> BOOLEAN] /\ focused' \in [Nodes -> BOOLEAN]
    BY <1>5, WorldUpdates, Zenon DEF WsDisconnect, Fallback
  <2>2. dropped' \in BOOLEAN
    BY <1>5, Zenon DEF WsDisconnect, CutServer, WorldTypes
  <2> QED BY <1>5, <2>1, <2>2, Counted, Zenon DEF WsDisconnect, WorldTypes
<1>6. CASE TunnelEstablished(n)
  <2>1. (IF n = Lo \/ focused[n] THEN {"AutoConnect"} ELSE {}) \in SUBSET {"AutoConnect", "Call"}
    OBVIOUS
  <2>2. spawned' \in [Nodes -> SUBSET {"AutoConnect", "Call"}]
    BY <1>6, <2>1, WorldUpdates, Zenon DEF TunnelEstablished, Spawn
  <2>3. info' \in [Nodes -> Infos]
    BY <1>6, WorldUpdates, Zenon DEF TunnelEstablished
  <2> QED BY <1>6, <2>2, <2>3, Counted, Zenon DEF TunnelEstablished, WorldTypes
<1>7. CASE NodesListWithout(n)
  <2>1. backoff' \in [Nodes -> Backoffs] /\ focused' \in [Nodes -> BOOLEAN]
    BY <1>7, DropWorld, Zenon DEF NodesListWithout, WorldTypes
  <2>2. \/ info' = [info EXCEPT ![n] = "unknown"]
        \/ info' = [info EXCEPT ![n] = "online"]
    BY <1>7, Zenon DEF NodesListWithout
  <2>3. info' \in [Nodes -> Infos]
    BY <2>2, WorldUpdates
  <2> QED BY <1>7, <2>1, <2>3, Counted, Zenon DEF NodesListWithout, WorldTypes
<1>8. CASE PeerDiscovered(n)
  <2>1. (IF n = Lo /\ info[n] # "online" THEN {"AutoConnect"} ELSE {})
           \in SUBSET {"AutoConnect", "Call"}
    OBVIOUS
  <2>2. spawned' \in [Nodes -> SUBSET {"AutoConnect", "Call"}]
    BY <1>8, <2>1, WorldUpdates, Zenon DEF PeerDiscovered, Spawn
  <2>3. info' \in [Nodes -> Infos]
    BY <1>8, WorldUpdates, Zenon DEF PeerDiscovered
  <2> QED BY <1>8, <2>2, <2>3, Counted, Zenon DEF PeerDiscovered, WorldTypes
<1>9. CASE ReloadResources(n)
  <2>1. focused' \in [Nodes -> BOOLEAN]
    BY <1>9, WorldUpdates, Zenon DEF ReloadResources
  <2> QED BY <1>9, <2>1, Counted, Zenon DEF ReloadResources, WorldTypes
<1>10. CASE ApplyTurnCredentials(n)
  BY <1>10, Counted, Zenon DEF ApplyTurnCredentials, WorldTypes
<1>11. ASSUME NEW isOnline \in BOOLEAN, MergeNodesList(n, isOnline) PROVE WorldTypes'
  <2>1. backoff' = [backoff EXCEPT ![n] = IF isOnline /\ info[n] # "online"
                                          THEN NoBackoff ELSE b]
    BY <1>11 DEF MergeNodesList
  <2>2. backoff' \in [Nodes -> Backoffs]
    BY <2>1, WorldUpdates, BackoffTypes, Zenon
  <2>3. info' = [info EXCEPT ![n] = IF isOnline \/ info[n] = "unknown" THEN Listed(isOnline)
                                    ELSE info[n]]
    BY <1>11 DEF MergeNodesList
  <2>4. info[n] \in Infos
    BY DEF WorldTypes
  <2>5. info' \in [Nodes -> Infos]
    BY <1>0, <2>3, <2>4, WorldUpdates, Zenon
  <2> QED BY <1>11, <2>2, <2>5, Counted, Zenon DEF MergeNodesList, WorldTypes
<1>12. ASSUME NEW op \in spawned[n], SendSpawned(n, op) PROVE WorldTypes'
  <2>1. {op} \in SUBSET {"AutoConnect", "Call"}
    BY DEF WorldTypes
  <2>2. spawned' \in [Nodes -> SUBSET {"AutoConnect", "Call"}]
    BY <1>12, <2>1, WorldUpdates, Zenon DEF SendSpawned
  <2> QED BY <1>12, <2>2, Zenon DEF SendSpawned, WorldTypes
<1>13. ASSUME NEW isOnline \in BOOLEAN, NEW changed \in BOOLEAN,
              NodesList(n, isOnline, changed)
       PROVE  WorldTypes'
  <2> DEFINE anew == changed /\ info[n] # "unknown" /\ active[n] # None
  <2> DEFINE ops == {op \in {"AutoConnect", "Call"} :
                        IF op = "Call" THEN anew ELSE n = Lo /\ isOnline}
  <2>1. ops \in SUBSET {"AutoConnect", "Call"}
    OBVIOUS
  <2>2. spawned' \in [Nodes -> SUBSET {"AutoConnect", "Call"}]
    <3>1. Spawn(n, ops)
      BY <1>13 DEF NodesList
    <3> HIDE DEF ops
    <3> QED BY <2>1, <3>1, WorldUpdates, Zenon DEF Spawn
  <2>3. info' \in [Nodes -> Infos]
    BY <1>0, <1>13, WorldUpdates, Zenon DEF NodesList
  <2>4. Reset(n, isOnline) \in Backoffs
    BY WorldUpdates, BackoffTypes, Zenon DEF Reset
  <2>5. backoff' \in [Nodes -> Backoffs]
    BY <1>13, <2>4, WorldUpdates, Zenon DEF NodesList
  <2>6. focused' \in [Nodes -> BOOLEAN]
    <3>1. focused' = [focused EXCEPT ![n] = FALSE] \/ focused' = focused
      BY <1>13 DEF NodesList
    <3> QED BY <3>1, WorldUpdates, Zenon DEF WorldTypes
  <2> QED BY <1>13, <2>2, <2>3, <2>5, <2>6, Counted, Zenon DEF NodesList, WorldTypes
<1> QED BY <1>1, <1>2, <1>3, <1>4, <1>5, <1>6, <1>7, <1>8, <1>9, <1>10, <1>11, <1>12, <1>13

\* Every other step, and stuttering.
LEMMA WorldKept ==
    ASSUME WorldTypes, [Next]_vars
    PROVE  WorldTypes'
<1> USE DEF world
<1>1. ASSUME NEW n \in Nodes, Manage(n) PROVE WorldTypes'
  BY <1>1, ManageWorld
<1>2. CASE TunnelLost
  BY <1>2, Counted, Zenon DEF TunnelLost, WorldTypes
<1>3. ASSUME NEW m \in signals, Deliver(m) \/ LoseSignal(m) PROVE WorldTypes'
  BY <1>3, Counted, Zenon DEF Deliver, LoseSignal, WorldTypes
<1>4. ASSUME NEW s \in Sessions, Senders(s) PROVE WorldTypes'
  BY <1>4, Counted, Zenon DEF Senders, Greeted, Close, GraceEnds, WatchEnds, WorldTypes
<1>5. ASSUME NEW s \in Sessions, Transport(s) \/ Trouble(s) \/ Recover(s) PROVE WorldTypes'
  BY <1>5, Counted, Zenon DEF Transport, Establish, IceFails, PeerGone, Trouble, Recover,
         WorldTypes
<1>6. CASE UNCHANGED vars
  BY <1>6, Zenon DEF vars, WorldTypes
<1> QED BY <1>1, <1>2, <1>3, <1>4, <1>5, <1>6, ListWorld DEF Next

-----------------------------------------------------------------------------
(* Every step keeps the signals, the queues and the shape of the sessions. *)

\* Only handlers that make an offer or an answer, and the end of a grace period,
\* add signals.
LEMMA SignalsKept ==
    ASSUME Shape, Signals, [Next]_vars
    PROVE  Signals'
<1> USE DEF world, session
<1>1. ASSUME NEW n \in Nodes, Manage(n) PROVE Signals'
  <2>1. CASE AnswerRestart(n)
    <3>1. active[n] \in Sessions
      BY <2>1 DEF AnswerRestart, Shape, SessionTypes
    <3> QED BY <2>1, <3>1, Routed DEF AnswerRestart, Signals
  <2>2. ASSUME NEW s \in Sessions, AnswerOffer(n, s) PROVE Signals'
    BY <2>2, Routed DEF AnswerOffer
  <2>3. ASSUME NEW s \in Sessions, AutoConnectDials(n, s) \/ CallDials(n, s) PROVE Signals'
    <3>1. Route(n, "offer", s) \/ signals' = signals
      BY <2>3 DEF AutoConnectDials, CallDials
    <3> QED BY <3>1, Routed DEF Signals
  <2>4. CASE UNCHANGED signals
    BY <2>4 DEF Signals
  <2> QED BY <1>1, <2>1, <2>2, <2>3, <2>4
          DEF Manage, DisconnectPeer, DisconnectPeerSession, PeerConnected, IgnoreDuplicate,
              RefuseOffer, AnswerFails, ApplyAnswer, AutoConnectActive, AutoConnectRefused,
              AutoConnectPostponed, CallSkips, CallRefused
<1>2. ASSUME NEW m \in signals, Deliver(m) \/ LoseSignal(m) PROVE Signals'
  BY <1>2 DEF Deliver, LoseSignal, Signals
<1>3. CASE TunnelLost
  BY <1>3 DEF TunnelLost, Signals
<1>4. ASSUME NEW n \in Nodes, WsConnect(n) \/ WsDisconnect(n) PROVE Signals'
  BY <1>4 DEF WsConnect, WsDisconnect, CutServer, Signals
<1>5. ASSUME NEW s \in Sessions, GraceEnds(s) PROVE Signals'
  <2>1. Lo \in Nodes
    BY DEF Nodes
  <2>2. Route(Lo, "restart", s) \/ signals' = signals
    BY <1>5 DEF GraceEnds
  <2> QED BY <2>1, <2>2, Routed DEF Signals
<1>6. CASE UNCHANGED signals
  BY <1>6 DEF Signals
<1>7. ASSUME NEW n \in Nodes,
             \/ Tick(n) \/ UserCalls(n) \/ CooldownEnds(n)
             \/ TunnelEstablished(n) \/ NodesListWithout(n) \/ PeerDiscovered(n)
             \/ ReloadResources(n) \/ ApplyTurnCredentials(n)
             \/ \E isOnline \in BOOLEAN : MergeNodesList(n, isOnline)
             \/ \E op \in spawned[n] : SendSpawned(n, op)
             \/ \E isOnline, changed \in BOOLEAN : NodesList(n, isOnline, changed)
      PROVE  UNCHANGED signals
  BY <1>7 DEF Tick, UserCalls, CooldownEnds, TunnelEstablished, NodesListWithout,
         PeerDiscovered, ReloadResources, ApplyTurnCredentials, MergeNodesList, SendSpawned,
         NodesList
<1>8. ASSUME NEW s \in Sessions,
             \/ Greeted(s) \/ Close(s) \/ WatchEnds(s) \/ Transport(s) \/ Trouble(s)
             \/ Recover(s)
      PROVE  UNCHANGED signals
  BY <1>8 DEF Greeted, Close, WatchEnds, Transport, Establish, IceFails, PeerGone, Trouble,
         Recover
<1> QED BY <1>1, <1>2, <1>3, <1>4, <1>5, <1>6, <1>7, <1>8 DEF Next, Senders, vars

\* The manager's handlers.
LEMMA ManageShape ==
    ASSUME Shape, Queues, NEW n \in Nodes, Manage(n)
    PROVE  Queues' /\ Shape'
<1> USE DEF session
<1> DEFINE h == Head(queue[n])
<1>0. Cmd("DisconnectPeer", None) \in Commands
  BY CommandFacts DEF Ops
<1>1. CASE DisconnectPeer(n)
  <2>1. Queues' /\ Kept
    BY <1>1, Popped DEF DisconnectPeer
  <2> QED BY <1>1, <2>1, Removing DEF DisconnectPeer, Drop, Kept
<1>2. CASE DisconnectPeerSession(n)
  <2>1. /\ Queues'
        /\ \A m \in Nodes, s \in Sessions : s \in Reports[m] /\ h # Report(s) => s \in Reports'[m]
    BY <1>2, Popped DEF DisconnectPeerSession
  <2>2. h \in Commands /\ h.op = "DisconnectPeerSession"
    BY <1>2, Handled DEF DisconnectPeerSession
  <2>3. h.s \in Sessions \cup {None} /\ h = Report(h.s)
    BY <2>2, CommandFacts DEF Report
  <2>4. \A m \in Nodes : m # n => Reports[m] \subseteq Reports'[m]
    <3>1. ASSUME NEW m \in Nodes, m # n PROVE Reports'[m] = Reports[m]
      BY <1>2, <3>1 DEF DisconnectPeerSession, Pop, Queues, Reports, Queued
    <3> QED BY <3>1
  <2>5. CASE active[n] = h.s
    <3>1. Uninstall(n)
      BY <1>2, <2>5 DEF DisconnectPeerSession, Drop
    <3> QED BY <1>2, <2>1, <2>4, <3>1, Removing DEF DisconnectPeerSession
  <2>6. CASE active[n] # h.s
    <3>1. UNCHANGED <<active, st, remote, closing, grace, watch, greetings, abandoned>>
      BY <1>2, <2>6 DEF DisconnectPeerSession
    <3>2. \A m \in Nodes : active[m] # None /\ active[m] \in Reports[m] =>
             active[m] \in Reports'[m]
      <4> SUFFICES ASSUME NEW m \in Nodes, active[m] # None, active[m] \in Reports[m]
                   PROVE  active[m] \in Reports'[m]
        OBVIOUS
      <4>1. CASE m # n
        BY <2>4, <4>1
      <4>2. CASE m = n
        <5>1. active[n] \in Sessions
          BY <4>2 DEF Shape, SessionTypes
        <5>2. h # Report(active[n])
          BY <2>6 DEF Report, Cmd
        <5> QED BY <2>1, <4>2, <5>1, <5>2
      <4> QED BY <4>1, <4>2
    <3>3. SessionTypes' /\ Owned' /\ NoOrphan'
      BY <3>1 DEF Shape, SessionTypes, Owned, NoOrphan
    <3>4. Watched'
      BY <3>1, <3>2 DEF Shape, Watched
    <3> QED BY <2>1, <3>3, <3>4 DEF Shape
  <2> QED BY <2>5, <2>6
<1>3. CASE PeerConnected(n)
  BY <1>3, Popped, Undisturbed DEF PeerConnected
<1>4. CASE AnswerRestart(n)
  BY <1>4, Popped, Undisturbed DEF AnswerRestart
<1>5. CASE IgnoreDuplicate(n)
  BY <1>5, Popped, Undisturbed DEF IgnoreDuplicate, Duplicate
<1>6. CASE RefuseOffer(n)
  BY <1>6, Popped, Undisturbed DEF RefuseOffer, NewOffer
<1>7. ASSUME NEW s \in Sessions, AnswerFails(n, s) PROVE Queues' /\ Shape'
  <2>1. Queues' /\ Kept
    BY <1>7, Popped DEF AnswerFails, NewOffer
  <2>2. h.s \in Sessions \cup {None}
    BY <1>7, Handled, CommandFacts DEF AnswerFails, NewOffer
  <2>3. /\ NotMade(n, s, {None, h.s}) /\ Uninstall(n)
        /\ UNCHANGED <<grace, watch, greetings>>
    BY <1>7 DEF AnswerFails
  <2>4. CASE UNCHANGED <<st, remote, abandoned>>
    BY <2>1, <2>3, <2>4, Removing DEF Kept
  <2>5. CASE Fresh(n, s)
    <3>1. CASE ~UNCHANGED <<st, remote, abandoned>>
      <4>1. PICK given \in {None, h.s} : remote' = [remote EXCEPT ![s] = given]
        BY <2>3, <3>1 DEF NotMade
      <4>2. abandoned' = abandoned \cup {s} /\ st' = [st EXCEPT ![s] = "Connecting"]
        BY <2>3, <3>1 DEF NotMade
      <4> QED BY <2>1, <2>2, <2>3, <2>5, <4>1, <4>2, Abandoning
    <3> QED BY <2>4, <3>1
  <2> QED BY <2>3, <2>4, <2>5 DEF NotMade
<1>8. CASE ApplyAnswer(n)
  <2>1. Queues' /\ Kept
    BY <1>8, Popped DEF ApplyAnswer
  <2>2. h.s \in Sessions \cup {None}
    BY <1>8, Handled, CommandFacts DEF ApplyAnswer
  <2>3. active[n] # None => active[n] \in Sessions
    BY DEF Shape, SessionTypes
  <2>4. remote' \in [Sessions -> Sessions \cup {None}]
    BY <1>8, <2>2, <2>3, Updated DEF ApplyAnswer, Shape, SessionTypes
  <2>5. SessionTypes'
    BY <1>8, <2>4 DEF ApplyAnswer, Shape, SessionTypes
  <2>6. Owned' /\ NoOrphan'
    BY <1>8 DEF ApplyAnswer, Shape, Owned, NoOrphan
  <2>7. \A m \in Nodes : Reports[m] \subseteq Reports'[m]
    BY <2>1 DEF Kept
  <2>8. Watched'
    BY <1>8, <2>7 DEF ApplyAnswer, Shape, Watched
  <2> QED BY <2>1, <2>5, <2>6, <2>8 DEF Shape
<1>9. CASE AutoConnectActive(n)
  <2>1. Queues' /\ Kept
    BY <1>0, <1>9, Popped, Replaced DEF AutoConnectActive
  <2> QED BY <1>9, <2>1, Undisturbed DEF AutoConnectActive
<1>10. CASE AutoConnectRefused(n)
  BY <1>10, Popped, Undisturbed DEF AutoConnectRefused
<1>11. CASE AutoConnectPostponed(n)
  BY <1>11, Popped, Undisturbed DEF AutoConnectPostponed
<1>12. CASE CallSkips(n)
  BY <1>12, Popped, Undisturbed DEF CallSkips
<1>13. CASE CallRefused(n)
  <2>1. Queues' /\ Kept
    BY <1>13, Popped DEF CallRefused
  <2> QED BY <1>13, <2>1, Removing DEF CallRefused, Kept
<1>14. ASSUME NEW s \in Sessions, AnswerOffer(n, s) PROVE Queues' /\ Shape'
  <2>1. Queues' /\ Kept
    BY <1>14, Popped DEF AnswerOffer, NewOffer
  <2>2. h.s \in Sessions \cup {None}
    BY <1>14, Handled, CommandFacts DEF AnswerOffer, NewOffer
  <2> QED BY <1>14, <2>1, <2>2, Replacing DEF AnswerOffer
<1>15. ASSUME NEW s \in Sessions, AutoConnectDials(n, s) PROVE Queues' /\ Shape'
  <2>1. Queues' /\ Kept
    BY <1>15, Popped DEF AutoConnectDials
  <2>2. CASE Fresh(n, s) /\ Install(n, s, None) /\ UNCHANGED abandoned
    BY <1>15, <2>1, <2>2, Replacing DEF AutoConnectDials
  <2>3. CASE UNCHANGED <<active, st, remote, closing, abandoned>>
    BY <1>15, <2>1, <2>3, Undisturbed DEF AutoConnectDials
  <2>4. CASE NotMade(n, s, {None}) /\ UNCHANGED <<active, closing>>
    <3>1. UNCHANGED <<grace, watch, greetings>>
      BY <1>15 DEF AutoConnectDials
    <3> QED BY <2>1, <2>3, <2>4, <3>1, Abandoning DEF NotMade
  <2> QED BY <1>15, <2>2, <2>4 DEF AutoConnectDials
<1>16. ASSUME NEW s \in Sessions, CallDials(n, s) PROVE Queues' /\ Shape'
  <2>1. Queues' /\ Kept
    BY <1>16, Popped DEF CallDials
  <2>2. CASE Fresh(n, s) /\ Install(n, s, None) /\ UNCHANGED abandoned
    BY <1>16, <2>1, <2>2, Replacing DEF CallDials
  <2>3. CASE Uninstall(n) /\ UNCHANGED <<st, remote, abandoned>>
    BY <1>16, <2>1, <2>3, Removing DEF CallDials, Kept
  <2>4. CASE NotMade(n, s, {None}) /\ Uninstall(n)
    <3>1. UNCHANGED <<grace, watch, greetings>>
      BY <1>16 DEF CallDials
    <3> QED BY <2>1, <2>3, <2>4, <3>1, Abandoning DEF NotMade
  <2> QED BY <1>16, <2>2, <2>3, <2>4 DEF CallDials
<1> QED BY <1>1, <1>2, <1>3, <1>4, <1>5, <1>6, <1>7, <1>8, <1>9, <1>10, <1>11, <1>12,
           <1>13, <1>14, <1>15, <1>16 DEF Manage

\* Lists, timers, senders and the ways to signal.
LEMMA ListShape ==
    ASSUME Shape, WorldTypes, Queues, NEW n \in Nodes,
           \/ Tick(n) \/ UserCalls(n) \/ CooldownEnds(n) \/ WsConnect(n) \/ WsDisconnect(n)
           \/ TunnelEstablished(n) \/ NodesListWithout(n) \/ PeerDiscovered(n)
           \/ ReloadResources(n) \/ ApplyTurnCredentials(n)
           \/ \E isOnline \in BOOLEAN : MergeNodesList(n, isOnline)
           \/ \E op \in spawned[n] : SendSpawned(n, op)
           \/ \E isOnline, changed \in BOOLEAN : NodesList(n, isOnline, changed)
    PROVE  Queues' /\ Shape'
<1> USE DEF session
<1>1. CASE Tick(n)
  <2>1. Cmd("AutoConnect", None) \in Commands
    BY CommandFacts DEF Ops
  <2> QED BY <1>1, <2>1, Sent, Undisturbed DEF Tick
<1>2. CASE ApplyTurnCredentials(n)
  <2>1. Cmd("DisconnectPeer", None) \in Commands
    BY CommandFacts DEF Ops
  <2> QED BY <1>2, <2>1, Sent, Undisturbed DEF ApplyTurnCredentials
<1>3. ASSUME NEW op \in spawned[n], SendSpawned(n, op) PROVE Queues' /\ Shape'
  <2>1. op \in Ops
    BY DEF WorldTypes, Ops
  <2>2. Cmd(op, None) \in Commands
    BY <2>1, CommandFacts
  <2> QED BY <1>3, <2>2, Sent, Undisturbed DEF SendSpawned
<1>4. CASE \/ UserCalls(n) \/ CooldownEnds(n) \/ WsConnect(n) \/ WsDisconnect(n)
           \/ PeerDiscovered(n) \/ \E isOnline \in BOOLEAN : MergeNodesList(n, isOnline)
  <2>1. UNCHANGED <<active, st, remote, closing, grace, watch, greetings, abandoned, queue>>
    BY <1>4 DEF UserCalls, CooldownEnds, WsConnect, WsDisconnect, PeerDiscovered,
           MergeNodesList
  <2> QED BY <2>1, Untouched, Undisturbed
<1>5. CASE TunnelEstablished(n) \/ NodesListWithout(n) \/ ReloadResources(n)
  <2>1. /\ UNCHANGED <<st, remote, grace, watch, greetings, abandoned, queue>>
        /\ Uninstall(n) \/ UNCHANGED <<active, closing>>
    BY <1>5 DEF TunnelEstablished, NodesListWithout, ReloadResources, Drop
  <2>2. Queues' /\ Kept
    BY <2>1, Untouched
  <2> QED BY <2>1, <2>2, Removing, Undisturbed DEF Kept
<1>6. ASSUME NEW isOnline \in BOOLEAN, NEW changed \in BOOLEAN,
             NodesList(n, isOnline, changed)
      PROVE  Queues' /\ Shape'
  <2>1. /\ UNCHANGED <<st, remote, grace, watch, greetings, abandoned, queue>>
        /\ Uninstall(n) \/ UNCHANGED <<active, closing>>
    BY <1>6 DEF NodesList
  <2>2. Queues' /\ Kept
    BY <2>1, Untouched
  <2> QED BY <2>1, <2>2, Removing, Undisturbed DEF Kept
<1> QED BY <1>1, <1>2, <1>3, <1>4, <1>5, <1>6

\* A report to the session's manager.
LEMMA Told ==
    ASSUME Queues, NEW s \in Sessions, Tell(s)
    PROVE  Queues' /\ Kept /\ s \in Reports'[s[1]]
BY SessionNode, CommandFacts, Sent DEF Tell, Report

\* Connection states, their callbacks and the tasks that close sessions.
LEMMA SessionShape ==
    ASSUME Shape, Queues, NEW s \in Sessions,
           Senders(s) \/ Transport(s) \/ Trouble(s) \/ Recover(s)
    PROVE  Queues' /\ Shape'
<1> USE DEF world
<1>0. /\ SessionTypes
      /\ {"Connecting", "Connected", "Disconnected", "Failed", "Closed"} = States
  BY DEF Shape, States
<1>1. CASE Establish(s) \/ Recover(s)
  <2>1. /\ st[s] # "Closed" /\ Enter(s, "Connected")
        /\ greetings' \subseteq Sessions /\ UNCHANGED <<active, remote, closing, watch, abandoned>>
    BY <1>0, <1>1 DEF Establish, Recover, SessionTypes
  <2>2. UNCHANGED <<queue, grace>> /\ st' = [st EXCEPT ![s] = "Connected"]
    BY <2>1 DEF Enter
  <2> QED BY <1>0, <2>1, <2>2, Untouched, Moving DEF SessionTypes
<1>2. CASE IceFails(s)
  <2>1. /\ st[s] # "Closed" /\ Enter(s, "Failed")
        /\ UNCHANGED <<active, remote, closing, watch, greetings, abandoned>>
    BY <1>2 DEF IceFails
  <2>2. Tell(s) /\ UNCHANGED grace /\ st' = [st EXCEPT ![s] = "Failed"]
    BY <2>1 DEF Enter
  <2> QED BY <1>0, <2>1, <2>2, Told, Moving DEF SessionTypes
<1>3. CASE Trouble(s)
  <2>1. /\ st[s] # "Closed" /\ Enter(s, "Disconnected")
        /\ UNCHANGED <<active, remote, closing, watch, greetings, abandoned>>
    BY <1>3 DEF Trouble
  <2>2. /\ UNCHANGED queue /\ grace' = grace \cup {s}
        /\ st' = [st EXCEPT ![s] = "Disconnected"]
    BY <2>1 DEF Enter
  <2> QED BY <1>0, <2>1, <2>2, Untouched, Moving DEF SessionTypes
<1>4. CASE PeerGone(s)
  BY <1>4, Told, Undisturbed DEF PeerGone
<1>5. CASE GraceEnds(s)
  <2>1. /\ UNCHANGED <<active, st, remote, closing, greetings, abandoned, queue>>
        /\ grace' = grace \ {s}
        /\ watch' = IF st[s] = "Disconnected" THEN watch \cup {s} ELSE watch
    BY <1>5 DEF GraceEnds
  <2> QED BY <1>0, <2>1, Untouched, StillWatched DEF SessionTypes
<1>6. CASE WatchEnds(s)
  <2>1. /\ UNCHANGED <<active, st, remote, closing, greetings, abandoned, grace>>
        /\ watch' = watch \ {s}
        /\ IF st[s] \in {"Disconnected", "Failed"} THEN Tell(s) ELSE UNCHANGED queue
    BY <1>6 DEF WatchEnds
  <2>2. /\ Queues' /\ Kept
        /\ st[s] = "Disconnected" => s \in Reports'[s[1]]
    BY <2>1, Told, Untouched
  <2> QED BY <1>0, <2>1, <2>2, StillWatched DEF SessionTypes
<1>7. CASE Greeted(s)
  <2>1. /\ UNCHANGED <<active, st, remote, closing, grace, watch, abandoned>>
        /\ greetings' \subseteq Sessions
        /\ queue' = [queue EXCEPT ![s[1]] = Append(@, Cmd("PeerConnected", None))]
    BY <1>0, <1>7 DEF Greeted, SessionTypes
  <2>2. Cmd("PeerConnected", None) \in Commands /\ s[1] \in Nodes
    BY CommandFacts, SessionNode DEF Ops
  <2>3. Queues' /\ Kept
    BY <2>1, <2>2, Sent
  <2> QED BY <1>0, <2>1, <2>3, StillWatched DEF SessionTypes
<1>8. CASE Close(s)
  <2>1. /\ UNCHANGED <<active, grace, watch, greetings, abandoned>>
        /\ s \in closing /\ closing' = closing \ {s} /\ Tell(s)
        /\ st' = [st EXCEPT ![s] = "Closed"] /\ remote' = [remote EXCEPT ![s] = None]
    BY <1>8 DEF Close, Enter
  <2>2. Queues' /\ Kept
    BY <2>1, Told
  <2>3. /\ st' \in [Sessions -> States] /\ st'[s] = "Closed"
        /\ \A t \in Sessions : t # s => st'[t] = st[t]
        /\ remote' \in [Sessions -> Sessions \cup {None}]
    BY <1>0, <2>1, Updated DEF SessionTypes
  <2>4. SessionTypes'
    BY <1>0, <2>1, <2>3 DEF SessionTypes
  <2>5. Owned' /\ NoOrphan'
    BY <2>1, <2>3 DEF Shape, Owned, NoOrphan
  <2>6. ASSUME NEW m \in Nodes, active'[m] # None
        PROVE  /\ st'[active'[m]] = "Failed" => active'[m] \in Reports'[m]
               /\ st'[active'[m]] = "Disconnected" =>
                     active'[m] \in Reports'[m] \/ active'[m] \in grace' \cup watch'
               /\ st'[active'[m]] # "Closed"
    <3>1. active'[m] = active[m] /\ active[m] \in Sessions /\ active[m] # s
      BY <1>0, <2>1, <2>6 DEF SessionTypes, Shape, Owned
    <3>2. st'[active[m]] = st[active[m]]
      BY <2>3, <3>1
    <3> QED BY <2>1, <2>2, <2>6, <3>1, <3>2 DEF Shape, Watched, Kept
  <2>7. Watched'
    BY <2>6 DEF Watched
  <2> QED BY <2>2, <2>4, <2>5, <2>7 DEF Shape
<1> QED BY <1>1, <1>2, <1>3, <1>4, <1>5, <1>6, <1>7, <1>8 DEF Senders, Transport

\* Every step keeps the queues and the shape.
LEMMA ShapeKept ==
    ASSUME Shape, WorldTypes, Queues, Signals, [Next]_vars
    PROVE  Queues' /\ Shape'
<1> USE DEF world, session
<1>1. ASSUME NEW n \in Nodes, Manage(n) PROVE Queues' /\ Shape'
  BY <1>1, ManageShape
<1>2. ASSUME NEW s \in Sessions, Senders(s) \/ Transport(s) \/ Trouble(s) \/ Recover(s)
      PROVE  Queues' /\ Shape'
  BY <1>2, SessionShape
<1>3. ASSUME NEW m \in signals, Deliver(m) PROVE Queues' /\ Shape'
  <2>1. m.to \in Nodes /\ m.op \in Ops /\ m.s \in Sessions
    BY DEF Signals, Ops
  <2>2. Cmd(m.op, m.s) \in Commands
    BY <2>1, CommandFacts
  <2> QED BY <1>3, <2>1, <2>2, Sent, Undisturbed DEF Deliver
<1>4. ASSUME UNCHANGED <<active, st, remote, closing, grace, watch, greetings, abandoned, queue>>
      PROVE  Queues' /\ Shape'
  BY <1>4, Untouched, Undisturbed
<1>5. CASE TunnelLost
  BY <1>4, <1>5 DEF TunnelLost
<1>6. ASSUME NEW m \in signals, LoseSignal(m) PROVE Queues' /\ Shape'
  BY <1>4, <1>6 DEF LoseSignal
<1>7. CASE UNCHANGED vars
  BY <1>4, <1>7 DEF vars
<1> QED BY <1>1, <1>2, <1>3, <1>5, <1>6, <1>7, ListShape DEF Next

-----------------------------------------------------------------------------
(* The theorems.                                                           *)

LEMMA InitIInv == Init => IInv
<1> SUFFICES ASSUME Init PROVE IInv
  OBVIOUS
<1>1. SessionTypes
  BY DEF Init, SessionTypes, States
<1>2. Owned /\ NoOrphan /\ Watched
  BY DEF Init, Owned, NoOrphan, Watched
<1>3. Queues /\ Signals
  BY DEF Init, Queues, Signals
<1>4. WorldTypes
  <2>1. /\ [n \in Nodes |-> NoBackoff] \in [Nodes -> Backoffs]
        /\ [n \in Nodes |-> FALSE] \in [Nodes -> BOOLEAN]
        /\ \A v \in BOOLEAN : [n \in Nodes |-> v] \in [Nodes -> BOOLEAN]
        /\ \A v \in BOOLEAN : [n \in Nodes |-> Listed(v)]
                                 \in [Nodes -> {"unknown", "offline", "online"}]
    BY BackoffTypes, Zenon DEF Listed
  <2>2. [n \in Nodes |-> {}] \in [Nodes -> SUBSET {"AutoConnect", "Call"}]
    OBVIOUS
  <2>3. 0 \in 0..MaxEvents
    BY OrchestratorAssumption
  <2>4. PICK way \in Ways : /\ ws = [n \in Nodes |-> way \in {"server", "both"}]
                            /\ tunnel = (way \in {"tunnel", "both"})
                            /\ info = [n \in Nodes |-> Listed(way # "none")]
    BY Zenon DEF Init
  <2>5. ws \in [Nodes -> BOOLEAN] /\ tunnel \in BOOLEAN
    <3>1. \A T : (way \in T) \in BOOLEAN
      OBVIOUS
    <3> QED BY <2>1, <2>4, <3>1, Zenon
  <2>6. info \in [Nodes -> {"unknown", "offline", "online"}]
    BY <2>1, <2>4, Zenon
  <2> QED BY <2>1, <2>2, <2>3, <2>5, <2>6, Zenon DEF Init, WorldTypes
<1> QED BY <1>1, <1>2, <1>3, <1>4, ShapeOf DEF Shape

\* Every step keeps the invariant.
LEMMA StepIInv == IInv /\ [Next]_vars => IInv'
<1>1. (Shape /\ WorldTypes /\ Queues /\ Signals) /\ [Next]_vars
         => (Shape /\ WorldTypes /\ Queues /\ Signals)'
  BY ShapeKept, WorldKept, SignalsKept
<1> QED BY <1>1, ShapeOf, PTL

\* The types, that maps name their own sessions only, that nothing is left running
\* unowned and that the dead are watched hold together in every reachable state.
THEOREM Inductive == Spec => []IInv
BY InitIInv, StepIInv, PTL DEF Spec

\* The state keeps its types, and a peer's backoff stays on the redial ladder
\* (redial_backoff takes the last rung for any attempt above it).
THEOREM TypeCorrect == Spec => []TypeOK
<1>1. IInv => TypeOK
  BY DEF IInv
<1> QED BY <1>1, Inductive, PTL

\* A session that is not in its manager's map is closed or about to be, whatever
\* handler of the manager replaced or dropped it; only one whose own offer or answer
\* failed (accept_offer_and_answer, create_offer) is left open, and in no map.
THEOREM NothingOrphaned == Spec => []NoOrphan
<1>1. IInv => NoOrphan
  BY DEF IInv
<1> QED BY <1>1, Inductive, PTL

\* A session in a map that failed is reported to its manager, and one that is
\* disconnected is reported or watched by a task, so that the map never keeps a
\* dead session unnoticed (on_peer_connection_state_change).
THEOREM DeadAreWatched == Spec => []DeadSessionWatched
<1>1. IInv => DeadSessionWatched
  BY DEF IInv
<1> QED BY <1>1, Inductive, PTL


\* Between two nodes with a working connection, only the handlers that are told to
\* drop the session, and a new offer of the peer, change a map.
LEMMA KeepsWorking ==
    ASSUME Shape, Queues, Paired, ~ListStep, [Next]_vars,
           NEW n \in Nodes, active'[n] # active[n]
    PROVE  /\ queue[n] # <<>>
           /\ \/ Head(queue[n]).op \in {"DisconnectPeer", "offer", "reoffer"}
              \/ Head(queue[n]) = Cmd("DisconnectPeerSession", active[n])
<1> USE DEF session
<1>1. /\ active \in [Nodes -> Sessions \cup {None}]
      /\ active[n] # None /\ st[active[n]] = "Connected"
  BY DEF Shape, SessionTypes, Paired
<1>2. \A m \in Nodes : /\ active[m] # None /\ ~Reapable(m)
                       /\ st[active[m]] = "Connected"
  BY DEF Paired, Reapable
<1>3. ASSUME NEW m \in Nodes,
             Uninstall(m) \/ \E s, given : Install(m, s, given)
      PROVE  m = n
  BY <1>1, <1>3 DEF Uninstall, Install
<1>4. ASSUME NEW m \in Nodes, Manage(m)
      PROVE  /\ m = n /\ queue[n] # <<>>
             /\ \/ Head(queue[n]).op \in {"DisconnectPeer", "offer", "reoffer"}
                \/ Head(queue[n]) = Cmd("DisconnectPeerSession", active[n])
  <2>1. CASE DisconnectPeer(m)
    BY <1>3, <2>1 DEF DisconnectPeer, Drop, Handling
  <2>2. CASE DisconnectPeerSession(m)
    <3>1. active[m] = Head(queue[m]).s /\ Drop(m)
      BY <2>2 DEF DisconnectPeerSession
    <3>2. m = n
      BY <1>3, <3>1 DEF Drop
    <3>3. Head(queue[n]) \in Commands /\ Head(queue[n]).op = "DisconnectPeerSession"
      BY <2>2, <3>2, Handled DEF DisconnectPeerSession
    <3>4. Head(queue[n]) = Cmd("DisconnectPeerSession", active[n])
      BY <3>1, <3>2, <3>3, CommandFacts
    <3> QED BY <2>2, <3>2, <3>4 DEF DisconnectPeerSession, Handling
  <2>3. ASSUME NEW s \in Sessions, AnswerOffer(m, s) PROVE m = n /\ NewOffer(m)
    BY <1>3, <2>3 DEF AnswerOffer
  <2>4. ASSUME NEW s \in Sessions, AnswerFails(m, s) PROVE m = n /\ NewOffer(m)
    BY <1>3, <2>4 DEF AnswerFails
  <2>5. CASE CallRefused(m)
    BY <1>2, <2>5 DEF CallRefused
  <2>6. ASSUME NEW s \in Sessions, AutoConnectDials(m, s) \/ CallDials(m, s) PROVE FALSE
    BY <1>2, <2>6 DEF AutoConnectDials, CallDials
  <2>7. CASE UNCHANGED active
    BY <2>7
  <2> QED BY <1>2, <1>4, <2>1, <2>2, <2>3, <2>4, <2>5, <2>6, <2>7
          DEF Manage, NewOffer, Handling, PeerConnected, AnswerRestart, IgnoreDuplicate,
              RefuseOffer, ApplyAnswer, AutoConnectActive, AutoConnectRefused,
              AutoConnectPostponed, CallSkips
<1>5. ASSUME NEW m \in Nodes, TunnelEstablished(m) PROVE UNCHANGED active
  BY <1>2, <1>5 DEF TunnelEstablished
<1>6. ASSUME NEW m \in Nodes,
             \/ NodesListWithout(m) \/ ReloadResources(m)
             \/ \E isOnline, changed \in BOOLEAN : NodesList(m, isOnline, changed)
      PROVE  FALSE
  BY <1>6 DEF ListStep
<1>7. ASSUME NEW m \in Nodes,
             \/ Tick(m) \/ UserCalls(m) \/ CooldownEnds(m) \/ WsConnect(m) \/ WsDisconnect(m)
             \/ PeerDiscovered(m) \/ ApplyTurnCredentials(m)
             \/ \E isOnline \in BOOLEAN : MergeNodesList(m, isOnline)
             \/ \E op \in spawned[m] : SendSpawned(m, op)
      PROVE  UNCHANGED active
  BY <1>7 DEF Tick, UserCalls, CooldownEnds, WsConnect, WsDisconnect, PeerDiscovered,
         ApplyTurnCredentials, MergeNodesList, SendSpawned
<1>8. ASSUME \/ TunnelLost \/ \E m \in signals : Deliver(m) \/ LoseSignal(m)
             \/ UNCHANGED vars
      PROVE  UNCHANGED active
  BY <1>8 DEF TunnelLost, Deliver, LoseSignal, vars
<1>9. ASSUME NEW s \in Sessions, Senders(s) \/ Transport(s) \/ Trouble(s) \/ Recover(s)
      PROVE  UNCHANGED active
  BY <1>9 DEF Senders, Greeted, Close, GraceEnds, WatchEnds, Transport, Establish, IceFails,
         PeerGone, Trouble, Recover
<1> QED BY <1>4, <1>5, <1>6, <1>7, <1>8, <1>9 DEF Next

\* A working connection is given up only for a list, an offer, DisconnectPeer or a
\* report that names that very session (the comparison of connection ids in the
\* manager's DisconnectPeerSession): late reports about earlier sessions, AutoConnect,
\* Call, late answers, restarts and new tunnels leave it alone.
THEOREM WorkingKept == Spec => WorkingSessionKept
<1>1. IInv /\ [Next]_vars =>
         [(Paired /\ ~ListStep) =>
            \A n \in Nodes : active'[n] # active[n] =>
                /\ queue[n] # <<>>
                /\ \/ Head(queue[n]).op \in {"DisconnectPeer", "offer", "reoffer"}
                   \/ Head(queue[n]) = Cmd("DisconnectPeerSession", active[n])]_vars
  BY ShapeOf, KeepsWorking
<1> QED BY Inductive, <1>1, PTL DEF Spec, WorkingSessionKept
=============================================================================

-------------------------- MODULE CommandFlowProofs --------------------------
(***************************************************************************)
(* The waits of a node's tasks for room in each other's queues, for any    *)
(* number of peers and any capacities: no queue is overfilled, and there   *)
(* are only three circles of waits.                                        *)
(***************************************************************************)
EXTENDS CommandFlow, FiniteSetTheorems, TLAPS

\* The keys are locked only while a Handshake is answered, never while the
\* receive task waits to report to the manager.
KeysHeld == \A p \in Peers : keys[p] => rx[p] \in {"issue", "reissue"}

\* Who holds dc_write_lock is a task that still has its message to finish.
HolderWrites == \A p \in Peers : writer[p] # "none" => Asks(p, writer[p])

\* The inductive invariant.
IInv == TypeOK /\ KeysHeld /\ HolderWrites

-----------------------------------------------------------------------------
(* Sequences and the items in them.                                        *)

\* The queue operations keep a sequence's type.
LEMMA Queues ==
    ASSUME NEW S, NEW s \in Seq(S)
    PROVE  /\ Len(s) \in Nat
           /\ s # <<>> => /\ Head(s) \in S /\ Tail(s) \in Seq(S)
                          /\ Len(Tail(s)) = Len(s) - 1 /\ Len(s) > 0
           /\ \A x \in S : Append(s, x) \in Seq(S) /\ Len(Append(s, x)) = Len(s) + 1
<1>1. Len(s) \in Nat
  OBVIOUS
<1>2. ASSUME s # <<>>
      PROVE  /\ Head(s) \in S /\ Tail(s) \in Seq(S)
             /\ Len(Tail(s)) = Len(s) - 1 /\ Len(s) > 0
  <2>1. Len(s) > 0
    BY <1>2
  <2>2. Head(s) \in S
    BY <1>2, <2>1
  <2>3. Tail(s) \in Seq(S) /\ Len(Tail(s)) = Len(s) - 1
    BY <1>2, <2>1
  <2> QED BY <2>1, <2>2, <2>3
<1>3. \A x \in S : Append(s, x) \in Seq(S) /\ Len(Append(s, x)) = Len(s) + 1
  OBVIOUS
<1> QED BY <1>1, <1>2, <1>3

\* A command that is about a peer names one.
LEMMA CommandPeer ==
    ASSUME NEW c \in Commands, c[1] \in {"send", "call", "drop"}
    PROVE  c[2] \in Peers
BY DEF Commands

\* An item with a command holds one, an item for a pipe names a peer.
LEMMA ItemParts ==
    ASSUME NEW i \in Items
    PROVE  /\ i[1] = "command" => i[2] \in Commands
           /\ i[1] = "pipe" => i[2] \in Peers
BY DEF Items

\* What is sent to each of some peers is a sequence of items.
LEMMA EachItems ==
    ASSUME NEW T, T \subseteq Peers, NEW f \in [T -> Items]
    PROVE  Each({f[p] : p \in T}) \subseteq Seq(Items)
<1> DEFINE R == {f[p] : p \in T}
<1>1. IsFiniteSet(T)
  BY FS_Subset, FlowAssumption
<1>2. f \in Surjection(T, R)
  BY DEF Surjection
<1>3. IsFiniteSet(R)
  BY <1>1, <1>2, FS_Surjection
<1>4. Cardinality(R) \in Nat /\ R \subseteq Items
  BY <1>3, FS_CardinalityType
<1> HIDE DEF R
<1>5. \A g \in [1..Cardinality(R) -> R] : g \in Seq(R)
  BY <1>4
<1>6. Seq(R) \subseteq Seq(Items)
  BY <1>4
<1>7. Each(R) \subseteq [1..Cardinality(R) -> R]
  BY DEF Each, SetToSeqs
<1> QED BY <1>5, <1>6, <1>7 DEF R

\* The sends of a command are sequences of items.
LEMMA SendsItems ==
    ASSUME TypeOK, NEW c \in Commands
    PROVE  Sends(c) \subseteq Seq(Items)
<1>1. <<>> \in Seq(Items)
  OBVIOUS
<1>2. CASE c[1] = "send"
  <2>1. <<"pipe", c[2]>> \in Items
    BY <1>2, CommandPeer DEF Items
  <2>2. <<<<"pipe", c[2]>>>> \in Seq(Items)
    BY <2>1
  <2>3. Sends(c) = IF c[2] \in active THEN {<<<<"pipe", c[2]>>>>} ELSE {<<>>}
    BY <1>2 DEF Sends
  <2> QED BY <1>1, <2>2, <2>3
<1>3. CASE c[1] = "broadcast"
  <2> DEFINE T == {q \in active : shared[q]}
             f == [p \in T |-> <<"pipe", p>>]
  <2>1. T \subseteq Peers
    BY DEF TypeOK
  <2>2. f \in [T -> Items]
    BY <2>1 DEF Items
  <2>3. {<<"pipe", p>> : p \in T} = {f[p] : p \in T}
    OBVIOUS
  <2>4. Each({f[p] : p \in T}) \subseteq Seq(Items)
    BY <2>1, <2>2, EachItems
  <2>5. Sends(c) = Each({<<"pipe", p>> : p \in T})
    BY <1>3 DEF Sends
  <2> QED BY <2>3, <2>4, <2>5
<1>4. CASE c[1] = "turn"
  <2> DEFINE f == [p \in active |-> <<"command", <<"drop", p>>>>]
  <2>1. active \subseteq Peers
    BY DEF TypeOK
  <2>2. f \in [active -> Items]
    BY <2>1 DEF Items, Commands
  <2>3. {<<"command", <<"drop", p>>>> : p \in active} = {f[p] : p \in active}
    OBVIOUS
  <2>4. Each({f[p] : p \in active}) \subseteq Seq(Items)
    BY <2>1, <2>2, EachItems
  <2>5. Sends(c) = Each({<<"command", <<"drop", p>>>> : p \in active})
    BY <1>4 DEF Sends
  <2> QED BY <2>3, <2>4, <2>5
<1>5. CASE c[1] = "call" /\ c[2] \in active \cap dead
  <2>1. <<"command", <<"drop", c[2]>>>> \in Items
    BY <1>5, CommandPeer DEF Items, Commands
  <2> QED BY <1>5, <2>1 DEF Sends
<1>6. CASE c[1] = "cloud"
  <2>1. <<"ws">> \in Items
    BY DEF Items
  <2> QED BY <1>6, <2>1 DEF Sends
<1> QED BY <1>1, <1>2, <1>3, <1>4, <1>5, <1>6 DEF Sends

-----------------------------------------------------------------------------
\* No session, empty queues.
LEMMA InitIInv == Init => IInv
<1> SUFFICES ASSUME Init PROVE IInv
  OBVIOUS
<1>1. \A p \in Peers : pipe[p] = <<>> /\ Len(pipe[p]) = 0
  BY DEF Init
<1>2. TypeOK
  BY <1>1, FlowAssumption DEF Init, TypeOK
<1>3. KeysHeld /\ HolderWrites
  BY DEF Init, KeysHeld, HolderWrites
<1> QED BY <1>2, <1>3 DEF IInv

\* A command is accepted when there is room.
LEMMA PushKeeps ==
    ASSUME TypeOK, NEW c \in Commands, Push(c)
    PROVE  cmds' \in Seq(Commands) /\ Len(cmds') <= CmdCap
<1>1. cmds \in Seq(Commands) /\ Len(cmds) < CmdCap /\ CmdCap \in Nat
  BY FlowAssumption DEF TypeOK, Push
<1>2. Len(cmds) \in Nat /\ cmds' \in Seq(Commands) /\ Len(cmds') = Len(cmds) + 1
  BY <1>1, Queues DEF Push
<1> QED BY <1>1, <1>2

\* A message is queued for a peer when there is room.
LEMMA PipeKeeps ==
    ASSUME TypeOK, NEW p \in Peers, PipeRoom(p), NEW kind \in {"unsigned", "plain"},
           PushPipe(p, kind)
    PROVE  /\ pipe' \in [Peers -> Seq({"unsigned", "plain"})]
           /\ \A q \in Peers : Len(pipe'[q]) <= PipeCap
<1>1. /\ pipe \in [Peers -> Seq({"unsigned", "plain"})] /\ PipeCap \in Nat
      /\ \A q \in Peers : Len(pipe[q]) <= PipeCap
  BY FlowAssumption DEF TypeOK
<1>2. pipe[p] \in Seq({"unsigned", "plain"}) /\ Len(pipe[p]) < PipeCap
  BY <1>1 DEF PipeRoom
<1>3. /\ Len(pipe[p]) \in Nat
      /\ Append(pipe[p], kind) \in Seq({"unsigned", "plain"})
      /\ Len(Append(pipe[p], kind)) = Len(pipe[p]) + 1
  BY <1>2, Queues
<1>4. Len(Append(pipe[p], kind)) <= PipeCap
  BY <1>1, <1>2, <1>3
<1>5. \A q \in Peers : pipe'[q] = IF q = p THEN Append(pipe[p], kind) ELSE pipe[q]
  BY <1>1 DEF PushPipe
<1>6. pipe' \in [Peers -> Seq({"unsigned", "plain"})]
  BY <1>1, <1>3 DEF PushPipe
<1> QED BY <1>1, <1>4, <1>5, <1>6

\* A command reaches the manager's queue.
LEMMA InputStep ==
    ASSUME IInv, NEW c \in Commands, Input(c)
    PROVE  IInv'
<1>1. cmds' \in Seq(Commands) /\ Len(cmds') <= CmdCap
  BY PushKeeps DEF IInv, Input
<1>2. inputs' \in 0..MaxInputs
  BY FlowAssumption DEF IInv, TypeOK, Input
<1> QED BY <1>1, <1>2 DEF IInv, TypeOK, KeysHeld, HolderWrites, Asks, Input, sessionVars

\* The manager takes a command; a session is opened or dropped with its tasks.
LEMMA TakeStep == ASSUME IInv, Take PROVE IInv'
<1> DEFINE c == Head(cmds)
<1>1. c \in Commands /\ cmds' \in Seq(Commands) /\ Len(cmds') <= CmdCap
  <2>1. cmds \in Seq(Commands) /\ cmds # <<>> /\ Len(cmds) <= CmdCap /\ CmdCap \in Nat
    BY FlowAssumption DEF IInv, TypeOK, Take
  <2>2. /\ c \in Commands /\ Tail(cmds) \in Seq(Commands) /\ Len(cmds) \in Nat
        /\ Len(Tail(cmds)) = Len(cmds) - 1
    BY <2>1, Queues
  <2> QED BY <2>1, <2>2 DEF Take
<1>2. todo' \in Seq(Items)
  BY <1>1, SendsItems DEF IInv, Take
<1>3. taken' \in Nat /\ UNCHANGED <<ws, inputs, ticks, news>>
  BY DEF IInv, TypeOK, Take, counters
<1> HIDE DEF c
<1>4. CASE c[1] \in {"call", "drop"} /\ (c[2] \in active <=> c[1] = "drop")
  <2>1. c[2] \in Peers
    BY <1>1, <1>4, CommandPeer
  <2>2. /\ active' = IF c[1] = "call" THEN active \cup {c[2]} ELSE active \ {c[2]}
        /\ dead' = dead \ {c[2]}
        /\ pipe' = [pipe EXCEPT ![c[2]] = <<>>]
        /\ out' = [out EXCEPT ![c[2]] = "idle"]
        /\ rx' = [rx EXCEPT ![c[2]] = "idle"]
        /\ auth' = [auth EXCEPT ![c[2]] = FALSE]
        /\ shared' = [shared EXCEPT ![c[2]] = FALSE]
        /\ keys' = [keys EXCEPT ![c[2]] = FALSE]
        /\ link' = [link EXCEPT ![c[2]] = "down"]
        /\ writer' = [writer EXCEPT ![c[2]] = "none"]
    BY <1>4 DEF Take, Redial, c
  <2>3. active' \subseteq Peers /\ dead' \subseteq active'
    BY <2>1, <2>2 DEF IInv, TypeOK
  <2>4. /\ pipe' \in [Peers -> Seq({"unsigned", "plain"})]
        /\ \A p \in Peers : Len(pipe'[p]) <= PipeCap
    <3>1. <<>> \in Seq({"unsigned", "plain"}) /\ Len(<<>>) <= PipeCap
      BY FlowAssumption
    <3>2. /\ pipe \in [Peers -> Seq({"unsigned", "plain"})]
          /\ \A p \in Peers : Len(pipe[p]) <= PipeCap
      BY DEF IInv, TypeOK
    <3>3. \A p \in Peers : pipe'[p] = IF p = c[2] THEN <<>> ELSE pipe[p]
      BY <2>2, <3>2
    <3> QED BY <2>2, <3>1, <3>2, <3>3
  <2>5. /\ out' \in [Peers -> {"idle", "sign", "send"}]
        /\ rx' \in [Peers -> {"idle", "issue", "verify", "reissue", "report", "tell", "reply"}]
        /\ link' \in [Peers -> {"down", "send", "watch"}]
        /\ writer' \in [Peers -> {"none"} \cup Writers]
    BY <2>2 DEF IInv, TypeOK
  <2>6. /\ auth' \in [Peers -> BOOLEAN] /\ shared' \in [Peers -> BOOLEAN]
        /\ keys' \in [Peers -> BOOLEAN]
    BY <2>2, Zenon DEF IInv, TypeOK
  <2>7. KeysHeld' /\ HolderWrites'
    BY <2>1, <2>2 DEF IInv, TypeOK, KeysHeld, HolderWrites, Asks
  <2> QED BY <1>1, <1>2, <1>3, <2>3, <2>4, <2>5, <2>6, <2>7 DEF IInv, TypeOK
<1>5. CASE ~(c[1] \in {"call", "drop"} /\ (c[2] \in active <=> c[1] = "drop"))
  <2>1. UNCHANGED <<active, dead, sessionVars>>
    BY <1>5 DEF Take, Redial, c
  <2> QED BY <1>1, <1>2, <1>3, <2>1 DEF IInv, TypeOK, KeysHeld, HolderWrites, Asks, sessionVars
<1> QED BY <1>4, <1>5

\* The manager's own events: a tick calls peers, a signal is passed on.
LEMMA EventStep == ASSUME IInv, Tick \/ MeshSignal PROVE IInv'
<1>1. todo' \in Seq(Items)
  <2>1. CASE Tick
    <3>1. PICK S \in SUBSET (Peers \ active) :
             todo' \in Each({<<"command", <<"call", p>>>> : p \in S})
      BY <2>1 DEF Tick
    <3> DEFINE f == [p \in S |-> <<"command", <<"call", p>>>>]
    <3>2. f \in [S -> Items] /\ S \subseteq Peers
      BY DEF Items, Commands
    <3>3. {<<"command", <<"call", p>>>> : p \in S} = {f[p] : p \in S}
      OBVIOUS
    <3>4. Each({f[p] : p \in S}) \subseteq Seq(Items)
      BY <3>2, EachItems
    <3> QED BY <3>1, <3>3, <3>4
  <2>2. CASE MeshSignal
    <3>1. <<"command", <<"news">>>> \in Items
      BY DEF Items, Commands
    <3> QED BY <2>2, <3>1 DEF MeshSignal
  <2> QED BY <2>1, <2>2
<1>2. ticks' \in 0..MaxTicks
  BY SMTT(30), FlowAssumption DEF IInv, TypeOK, Tick, MeshSignal
<1> QED BY <1>1, <1>2 DEF IInv, TypeOK, KeysHeld, HolderWrites, Asks, Tick, MeshSignal,
                        sessionVars

\* A send of the manager goes into a queue with room.
LEMMA SendStep == ASSUME IInv, ManagerSend PROVE IInv'
<1> DEFINE i == Head(todo)
<1>1. i \in Items /\ todo' \in Seq(Items)
  <2>1. todo \in Seq(Items) /\ todo # <<>>
    BY DEF IInv, TypeOK, ManagerSend
  <2> QED BY <2>1, Queues DEF ManagerSend
<1>2. cmds' \in Seq(Commands) /\ Len(cmds') <= CmdCap
  <2>1. CASE cmds' = cmds
    BY <2>1 DEF IInv, TypeOK
  <2>2. CASE i[1] = "command" /\ Push(i[2])
    BY <1>1, <2>2, ItemParts, PushKeeps DEF IInv
  <2> QED BY <2>1, <2>2 DEF ManagerSend
<1>3. /\ pipe' \in [Peers -> Seq({"unsigned", "plain"})]
      /\ \A p \in Peers : Len(pipe'[p]) <= PipeCap
  <2>1. CASE pipe' = pipe
    BY <2>1 DEF IInv, TypeOK
  <2>2. CASE i[1] = "pipe" /\ PipeRoom(i[2]) /\ PushPipe(i[2], "unsigned")
    BY <1>1, <2>2, ItemParts, PipeKeeps DEF IInv
  <2> QED BY <2>1, <2>2 DEF ManagerSend
<1>4. ws' \in 0..WsCap
  BY SMTT(30), FlowAssumption DEF IInv, TypeOK, ManagerSend
<1> QED BY <1>1, <1>2, <1>3, <1>4 
        DEF IInv, TypeOK, KeysHeld, HolderWrites, Asks, ManagerSend, counters

\* The WebSocket's task.
LEMMA WsStep == ASSUME IInv, WsWrite PROVE IInv'
<1>1. ws' \in 0..WsCap
  BY FlowAssumption DEF IInv, TypeOK, WsWrite
<1> QED BY <1>1 DEF IInv, TypeOK, KeysHeld, HolderWrites, Asks, WsWrite, sessionVars, counters

\* The pipe task never touches the lock's owner.
LEMMA PipeStep == ASSUME IInv, NEW p \in Peers, PipeTask(p) PROVE IInv'
<1>1. /\ pipe' \in [Peers -> Seq({"unsigned", "plain"})]
      /\ \A q \in Peers : Len(pipe'[q]) <= PipeCap
  <2>1. CASE pipe' = pipe
    BY <2>1 DEF IInv, TypeOK
  <2>2. CASE PipeTake(p)
    <3>1. /\ pipe \in [Peers -> Seq({"unsigned", "plain"})] /\ PipeCap \in Nat
          /\ \A q \in Peers : Len(pipe[q]) <= PipeCap
      BY FlowAssumption DEF IInv, TypeOK
    <3>2. pipe[p] \in Seq({"unsigned", "plain"}) /\ pipe[p] # <<>>
      BY <2>2, <3>1 DEF PipeTake
    <3>3. /\ Len(pipe[p]) \in Nat /\ Tail(pipe[p]) \in Seq({"unsigned", "plain"})
          /\ Len(Tail(pipe[p])) = Len(pipe[p]) - 1
      BY <3>2, Queues
    <3>4. Len(Tail(pipe[p])) <= PipeCap
      BY <3>1, <3>3
    <3>5. \A q \in Peers : pipe'[q] = IF q = p THEN Tail(pipe[p]) ELSE pipe[q]
      BY <2>2, <3>1 DEF PipeTake
    <3>6. pipe' \in [Peers -> Seq({"unsigned", "plain"})]
      BY <2>2, <3>1, <3>3 DEF PipeTake
    <3> QED BY <3>1, <3>4, <3>5, <3>6
  <2> QED BY <2>1, <2>2 DEF PipeTask, PipeSign, PipeGivesUp, PipePends
<1>2. out' \in [Peers -> {"idle", "sign", "send"}]
  BY DEF IInv, TypeOK, PipeTask, PipeTake, PipeSign, PipeGivesUp, PipePends
<1>3. HolderWrites'
  BY SMTT(30) DEF IInv, TypeOK, HolderWrites, Asks, PipeTask, PipeTake, PipeSign,
                  PipeGivesUp, PipePends
<1> QED BY SMTT(30), <1>1, <1>2, <1>3
        DEF IInv, TypeOK, KeysHeld, PipeTask, PipeTake, PipeSign, PipeGivesUp, PipePends,
            counters

\* A writer that is done leaves the lock and waits for its next task.
LEMMA GoesKeeps ==
    ASSUME IInv, NEW p \in Peers, NEW w \in Writers, Asks(p, w), Goes(p, w)
    PROVE  /\ out' \in [Peers -> {"idle", "sign", "send"}]
           /\ rx' \in [Peers -> {"idle", "issue", "verify", "reissue", "report", "tell", "reply"}]
           /\ link' \in [Peers -> {"down", "send", "watch"}]
           /\ \A q \in Peers \ {p} : out'[q] = out[q] /\ rx'[q] = rx[q] /\ link'[q] = link[q]
           /\ keys[p] => rx'[p] \in {"issue", "reissue"}
BY DEF IInv, TypeOK, KeysHeld, Asks, Goes, Writers

\* The channel opens, is written to, and drains.
LEMMA ChannelStep == ASSUME IInv, NEW p \in Peers, Channel(p) PROVE IInv'
<1>1. CASE OpenChannel(p) \/ PingTick(p)
  <2>1. link' \in [Peers -> {"down", "send", "watch"}]
    BY <1>1 DEF IInv, TypeOK, OpenChannel, PingTick
  <2>2. HolderWrites'
    BY <1>1 DEF IInv, TypeOK, HolderWrites, Asks, OpenChannel, PingTick
  <2> QED BY <1>1, <2>1, <2>2 DEF IInv, TypeOK, KeysHeld, OpenChannel, PingTick, counters
<1>2. ASSUME NEW w \in Writers, Write(p, w) PROVE IInv'
  <2>1. CASE Goes(p, w) /\ UNCHANGED writer
    <3>1. Asks(p, w) /\ writer[p] = "none"
      BY <1>2 DEF Write
    <3>2. KeysHeld' /\ HolderWrites'
      BY <1>2, <2>1, <3>1, GoesKeeps DEF IInv, KeysHeld, HolderWrites, Asks, Write
    <3> QED BY <1>2, <2>1, <3>1, <3>2, GoesKeeps DEF IInv, TypeOK, Write, counters
  <2>2. CASE writer' = [writer EXCEPT ![p] = w] /\ UNCHANGED <<out, rx, link>>
    <3>1. writer' \in [Peers -> {"none"} \cup Writers]
      BY <2>2 DEF IInv, TypeOK
    <3>2. HolderWrites'
      BY <1>2, <2>2 DEF IInv, TypeOK, HolderWrites, Asks, Write
    <3> QED BY <1>2, <2>2, <3>1, <3>2 DEF IInv, TypeOK, KeysHeld, Write, counters
  <2> QED BY <1>2, <2>1, <2>2 DEF Write
<1>3. CASE Drain(p)
  <2>1. writer[p] \in Writers /\ Asks(p, writer[p]) /\ Goes(p, writer[p])
    BY <1>3 DEF IInv, TypeOK, HolderWrites, Drain
  <2>2. PICK w \in Writers : w = writer[p] /\ Asks(p, w) /\ Goes(p, w)
    BY <2>1
  <2>3. writer' \in [Peers -> {"none"} \cup Writers]
    BY <1>3 DEF IInv, TypeOK, Drain
  <2>4. \A q \in Peers : writer'[q] = IF q = p THEN "none" ELSE writer[q]
    BY <1>3 DEF IInv, TypeOK, Drain
  <2>5. KeysHeld'
    BY <1>3, <2>2, GoesKeeps DEF IInv, KeysHeld, Drain
  <2>6. HolderWrites'
    BY <2>2, <2>4, GoesKeeps DEF IInv, HolderWrites, Asks
  <2> QED BY <1>3, <2>2, <2>3, <2>5, <2>6, GoesKeeps DEF IInv, TypeOK, Drain, counters
<1> QED BY <1>1, <1>2, <1>3 DEF Channel

\* The receive task goes on: it holds the keys only while it answers.
LEMMA RxStep ==
    ASSUME IInv, NEW p \in Peers, RxTask(p) \/ Arrival(p) \/ Fail(p)
    PROVE  IInv'
<1>1. CASE Answer(p)
  <2>1. /\ pipe' \in [Peers -> Seq({"unsigned", "plain"})]
        /\ \A q \in Peers : Len(pipe'[q]) <= PipeCap
    BY <1>1, PipeKeeps DEF IInv, Answer
  <2>2. rx' \in [Peers -> {"idle", "issue", "verify", "reissue", "report", "tell", "reply"}]
    BY <1>1 DEF IInv, TypeOK, Answer, Goto
  <2>3. keys' \in [Peers -> BOOLEAN]
    BY <1>1, Zenon DEF IInv, TypeOK, Answer
  <2>4. KeysHeld' /\ HolderWrites'
    BY <1>1 DEF IInv, TypeOK, KeysHeld, HolderWrites, Asks, Answer, Goto
  <2> QED BY <1>1, <2>1, <2>2, <2>3, <2>4 DEF IInv, TypeOK, Answer, counters
<1>2. CASE Report(p)
  <2>1. <<"news">> \in Commands
    BY DEF Commands
  <2>2. cmds' \in Seq(Commands) /\ Len(cmds') <= CmdCap
    BY <1>2, <2>1, PushKeeps DEF IInv, Report
  <2>3. rx' \in [Peers -> {"idle", "issue", "verify", "reissue", "report", "tell", "reply"}]
    BY <1>2 DEF IInv, TypeOK, Report, Goto
  <2>4. KeysHeld' /\ HolderWrites'
    BY <1>2 DEF IInv, TypeOK, KeysHeld, HolderWrites, Asks, Report, Goto
  <2> QED BY <1>2, <2>2, <2>3, <2>4 DEF IInv, TypeOK, Report, counters
<1>3. CASE LockKeys(p)
  <2>1. keys' \in [Peers -> BOOLEAN]
    BY <1>3, Zenon DEF IInv, TypeOK, LockKeys
  <2>2. KeysHeld' /\ HolderWrites'
    BY <1>3 DEF IInv, TypeOK, KeysHeld, HolderWrites, Asks, LockKeys
  <2> QED BY <1>3, <2>1, <2>2 DEF IInv, TypeOK, LockKeys, counters
<1>4. CASE Verified(p)
  <2>1. auth' \in [Peers -> BOOLEAN]
    BY <1>4, Zenon DEF IInv, TypeOK, Verified
  <2>2. rx' \in [Peers -> {"idle", "issue", "verify", "reissue", "report", "tell", "reply"}]
    BY <1>4 DEF IInv, TypeOK, Verified, Goto
  <2>3. KeysHeld' /\ HolderWrites'
    BY <1>4 DEF IInv, TypeOK, KeysHeld, HolderWrites, Asks, Verified, Goto
  <2> QED BY <1>4, <2>1, <2>2, <2>3 DEF IInv, TypeOK, Verified, counters
<1>5. CASE Response(p)
  <2>1. auth' \in [Peers -> BOOLEAN] /\ shared' \in [Peers -> BOOLEAN]
    BY <1>5, Zenon DEF IInv, TypeOK, Response
  <2>2. rx' \in [Peers -> {"idle", "issue", "verify", "reissue", "report", "tell", "reply"}]
    BY <1>5 DEF IInv, TypeOK, Response, Goto
  <2>3. KeysHeld' /\ HolderWrites'
    BY <1>5 DEF IInv, TypeOK, KeysHeld, HolderWrites, Asks, Response, Goto
  <2> QED BY <1>5, <2>1, <2>2, <2>3 DEF IInv, TypeOK, Response, counters
<1>6. CASE Handshake(p) \/ PeersSync(p) \/ PingArrives(p)
  <2>1. rx' \in [Peers -> {"idle", "issue", "verify", "reissue", "report", "tell", "reply"}]
    BY <1>6 DEF IInv, TypeOK, Handshake, PeersSync, PingArrives, Goto
  <2>2. KeysHeld' /\ HolderWrites'
    BY <1>6 DEF IInv, TypeOK, KeysHeld, HolderWrites, Asks, Handshake, PeersSync, PingArrives, Goto
  <2>3. news' \in 0..MaxNews
    BY SMTT(30), <1>6, FlowAssumption DEF IInv, TypeOK, Handshake, PeersSync, PingArrives, counters
  <2> QED BY <1>6, <2>1, <2>2, <2>3 DEF IInv, TypeOK, Handshake, PeersSync, PingArrives, counters
<1>7. CASE Fail(p)
  BY <1>7 DEF IInv, TypeOK, KeysHeld, HolderWrites, Asks, Fail, sessionVars, counters
<1> QED BY <1>1, <1>2, <1>3, <1>4, <1>5, <1>6, <1>7 DEF RxTask, Arrival

\* Every step keeps the invariant.
LEMMA StepIInv == IInv /\ [Next]_vars => IInv'
<1> SUFFICES ASSUME IInv, [Next]_vars PROVE IInv'
  OBVIOUS
<1>1. CASE UNCHANGED vars
  BY <1>1 DEF vars, sessionVars, counters, IInv, TypeOK, KeysHeld, HolderWrites, Asks
<1> QED BY <1>1, InputStep, TakeStep, EventStep, SendStep, WsStep, PipeStep, RxStep,
           ChannelStep DEF Next

-----------------------------------------------------------------------------
\* Whom the tasks of a session wait for: a writer for the lock's holder, or for
\* the manager when it holds the lock for a peer that is gone; the others for
\* the keys, the pipe or the command queue.
LEMMA Waits ==
    ASSUME NEW p \in Peers
    PROVE  /\ \A w \in Writers : Asks(p, w) => WaitsFor(<<w, p>>) = WriteWaits(p, w)
           /\ ~Asks(p, "pipe") /\ WaitsFor(<<"pipe", p>>) # NoTask =>
                 WaitsFor(<<"pipe", p>>) = <<"rx", p>> /\ auth[p] /\ keys[p]
           /\ ~Asks(p, "rx") /\ WaitsFor(<<"rx", p>>) # NoTask =>
                 \/ WaitsFor(<<"rx", p>>) = <<"pipe", p>>
                 \/ WaitsFor(<<"rx", p>>) = Manager /\ ~(rx[p] \in {"issue", "reissue"})
           /\ ~Asks(p, "link") => WaitsFor(<<"link", p>>) = NoTask
<1>1. \A w \in Writers : <<w, p>> # Manager /\ <<w, p>>[1] = w /\ <<w, p>>[2] = p
  BY DEF Manager
<1>2. \A w \in Writers : Asks(p, w) => WaitsFor(<<w, p>>) = WriteWaits(p, w)
  BY <1>1 DEF WaitsFor
<1>3. ~Asks(p, "pipe") =>
         WaitsFor(<<"pipe", p>>) = IF out[p] = "sign" /\ auth[p] /\ keys[p]
                                   THEN <<"rx", p>> ELSE NoTask
  BY <1>1 DEF WaitsFor, Writers
<1>4. ~Asks(p, "rx") =>
         WaitsFor(<<"rx", p>>) =
            IF rx[p] \in {"issue", "reissue"} /\ keys[p] /\ ~PipeRoom(p)
            THEN <<"pipe", p>>
            ELSE IF rx[p] \in {"report", "tell"} /\ Len(cmds) = CmdCap
            THEN Manager ELSE NoTask
  BY <1>1 DEF WaitsFor, Writers
<1>5. ~Asks(p, "link") => WaitsFor(<<"link", p>>) = NoTask
  BY <1>1 DEF WaitsFor, Writers
<1> QED BY <1>2, <1>3, <1>4, <1>5

\* A writer that waits in a circle waits for the channel of a peer that is gone,
\* and so for the manager, by itself or behind the lock's holder.
LEMMA WriteCircle ==
    ASSUME IInv, NEW S \in SUBSET Waiting, \A t \in S : WaitsFor(t) \in S,
           NEW p \in Peers, NEW w \in Writers, Asks(p, w), <<w, p>> \in S
    PROVE  Manager \in S /\ p \in dead /\ writer[p] # "none"
<1>1. WaitsFor(<<w, p>>) = WriteWaits(p, w) /\ WriteWaits(p, w) # NoTask
  BY Waits DEF Waiting
<1>2. writer[p] \in Writers /\ Asks(p, writer[p]) /\ writer[p] # "none"
  BY <1>1 DEF IInv, TypeOK, HolderWrites, WriteWaits
<1>3. PICK h \in Writers : h = writer[p]
  BY <1>2
<1>4. <<h, p>> \in S
  BY <1>1, <1>2, <1>3 DEF WriteWaits
<1>5. WaitsFor(<<h, p>>) = WriteWaits(p, h) /\ WriteWaits(p, h) # NoTask
  BY <1>2, <1>3, <1>4, Waits DEF Waiting
<1>6. p \in dead /\ WriteWaits(p, h) = Manager
  BY <1>2, <1>3, <1>5 DEF WriteWaits
<1> QED BY <1>2, <1>4, <1>5, <1>6

\* A pipe task that waits in a circle waits with its receive task, since who
\* holds the keys neither writes nor reports, or for a channel that is stuck.
LEMMA PipeCircle ==
    ASSUME IInv, NEW S \in SUBSET Waiting, \A t \in S : WaitsFor(t) \in S,
           NEW p \in Peers, <<"pipe", p>> \in S
    PROVE  \/ auth[p] /\ KeyJam(p)
           \/ Manager \in S /\ p \in dead /\ Asks(p, "pipe") /\ writer[p] # "none"
<1>1. CASE Asks(p, "pipe")
  <2>1. "pipe" \in Writers
    BY DEF Writers
  <2> QED BY <1>1, <2>1, WriteCircle
<1>2. CASE ~Asks(p, "pipe")
  <2>1. WaitsFor(<<"pipe", p>>) = <<"rx", p>> /\ auth[p] /\ keys[p]
    BY <1>2, Waits DEF Waiting
  <2>2. <<"rx", p>> \in S /\ rx[p] \in {"issue", "reissue"}
    BY <2>1 DEF IInv, KeysHeld
  <2>3. ~Asks(p, "rx")
    BY <2>2 DEF Asks
  <2>4. WaitsFor(<<"rx", p>>) = <<"pipe", p>>
    BY <2>2, <2>3, Waits DEF Waiting
  <2> QED BY <2>1, <2>4 DEF KeyJam
<1> QED BY <1>1, <1>2

\* The manager in a circle waits for itself or for such a pipe.
LEMMA ManagerCircle ==
    ASSUME IInv, NEW S \in SUBSET Waiting, \A t \in S : WaitsFor(t) \in S, Manager \in S
    PROVE  ManagerJam \/ \E p \in Peers : (auth[p] /\ KeyJam(p)) \/ DrainJam(p)
<1>1. WaitsFor(Manager) # NoTask
  BY DEF Waiting
<1>2. CASE WaitsFor(Manager) = Manager
  BY <1>2 DEF ManagerJam
<1>3. CASE WaitsFor(Manager) # Manager
  <2> DEFINE q == Head(todo)[2]
  <2>1. todo # <<>> /\ Head(todo)[1] = "pipe" /\ WaitsFor(Manager) = <<"pipe", q>>
    <3>1. Manager[1] \notin Writers \cup {"pipe", "rx"}
      BY DEF Manager, Writers
    <3>2. WaitsFor(Manager) =
             IF todo = <<>> THEN NoTask
             ELSE IF Head(todo)[1] = "command" /\ Len(cmds) = CmdCap THEN Manager
             ELSE IF Head(todo)[1] = "pipe" /\ ~PipeRoom(Head(todo)[2])
                  THEN <<"pipe", Head(todo)[2]>> ELSE NoTask
      BY <3>1 DEF WaitsFor
    <3> QED BY <1>1, <1>3, <3>2
  <2>2. q \in Peers
    <3>1. Head(todo) \in Items
      BY <2>1, Queues DEF IInv, TypeOK
    <3> QED BY <2>1, <3>1, ItemParts
  <2>3. <<"pipe", q>> \in S
    BY <2>1
  <2> HIDE DEF q
  <2>4. \/ auth[q] /\ KeyJam(q)
        \/ q \in dead /\ Asks(q, "pipe") /\ writer[q] # "none"
    BY <2>2, <2>3, PipeCircle
  <2> QED BY <2>1, <2>2, <2>4 DEF DrainJam
<1> QED BY <1>2, <1>3

\* The strengthened invariant holds throughout: every queue stays within its
\* capacity, and the keys are locked only while a Handshake is answered.
THEOREM Inductive == Spec => []IInv
BY InitIInv, StepIInv, PTL DEF Spec

\* The only circles of waits are the manager waiting for its own queue, a
\* session's receive and pipe task waiting for each other, and the manager
\* waiting for the pipe of a peer that is gone.
THEOREM ThreeJams == Spec => []CircularWaits
<1>1. IInv => CircularWaits
  <2> DEFINE Jam == ManagerJam \/ \E p \in Peers : (auth[p] /\ KeyJam(p)) \/ DrainJam(p)
  <2>1. SUFFICES ASSUME IInv, Stuck # {} PROVE Jam
    BY DEF CircularWaits
  <2>2. PICK S \in SUBSET Waiting : S # {} /\ \A t \in S : WaitsFor(t) \in S
    BY <2>1 DEF Stuck
  <2>3. ASSUME Manager \in S PROVE Jam
    BY <2>1, <2>2, <2>3, ManagerCircle
  <2>4. ASSUME NEW p \in Peers, <<"pipe", p>> \in S PROVE Jam
    <3>1. (auth[p] /\ KeyJam(p)) \/ Manager \in S
      BY <2>1, <2>2, <2>4, PipeCircle
    <3> QED BY <2>3, <3>1
  <2>5. ASSUME NEW p \in Peers, NEW w \in Writers, Asks(p, w), <<w, p>> \in S PROVE Jam
    BY <2>1, <2>2, <2>3, <2>5, WriteCircle
  <2>6. ASSUME NEW p \in Peers, <<"rx", p>> \in S, ~Asks(p, "rx") PROVE Jam
    <3>1. WaitsFor(<<"rx", p>>) \in S /\ WaitsFor(<<"rx", p>>) # NoTask
      BY <2>2, <2>6 DEF Waiting
    <3>2. WaitsFor(<<"rx", p>>) = <<"pipe", p>> \/ WaitsFor(<<"rx", p>>) = Manager
      BY <2>6, <3>1, Waits
    <3> QED BY <2>3, <2>4, <3>1, <3>2
  <2>7. ASSUME NEW p \in Peers, <<"link", p>> \in S PROVE Asks(p, "link")
    BY <2>2, <2>7, Waits DEF Waiting
  <2>8. PICK t \in S : TRUE
    BY <2>2
  <2>9. t = Manager \/ \E p \in Peers : t \in {<<"pipe", p>>, <<"rx", p>>, <<"link", p>>}
    BY <2>2, <2>8 DEF Waiting, Tasks, Writers
  <2>10. {"rx", "link"} \subseteq Writers
    BY DEF Writers
  <2> HIDE DEF Jam
  <2> QED BY <2>3, <2>4, <2>5, <2>6, <2>7, <2>8, <2>9, <2>10
<1> QED BY <1>1, Inductive, PTL
=============================================================================

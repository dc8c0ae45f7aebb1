--------------------------- MODULE KeepaliveProofs ---------------------------
(***************************************************************************)
(* The safety of the keepalive, for any intervals, timeouts, round-trip    *)
(* time, delays and number of changes: a healthy peer whose pings are not  *)
(* held up is not timed out, the loop's next look at a vanished one is due *)
(* in time, and an open channel is watched unless the wall clock was set.  *)
(***************************************************************************)
EXTENDS Keepalive, TLAPS

\* The loop is at work, at a tick or between two.
Looping == loop \in {"running", "sending"}

\* Where the loop is, and what is left of a peer that vanished.  Unless it was
\* held up the loop is no more than Delay behind its schedule.
Phases ==
    /\ channel = "connecting" <=> loop = "off"
    /\ loop \in {"off", "opening"} => flight = <<>> /\ lastPong = 0
    /\ loop = "sending" => due <= now
    /\ ~held /\ Looping => now <= due + Delay
    /\ ~alive => flight = <<>>
    /\ spawned <= now /\ died <= now

\* As long as nobody set the wall clock it is the monotonic one, timestamps come
\* back in the order they were taken, and none is taken before its tick is due.
Stamps ==
    steps = 0 =>
        /\ skew = 0
        /\ 0 <= lastPong /\ lastPong <= now
        /\ ~alive => lastPong <= died
        /\ \A i \in 1..Len(flight) :
              /\ lastPong <= flight[i].ts /\ flight[i].due <= flight[i].ts
              /\ flight[i].ts <= now
        /\ \A i, j \in 1..Len(flight) : i < j => flight[i].ts <= flight[j].ts
        /\ loop = "sending" =>
              /\ due <= stamp /\ stamp <= now
              /\ lastPong <= stamp
              /\ \A i \in 1..Len(flight) : flight[i].ts <= stamp

\* The pings in flight were due one interval apart, the last of them one interval
\* before the next, they left in that order and, unless the loop was held up, no
\* more than Delay late, and the first is not overdue for its Pong.
Spaced ==
    /\ \A i \in 1..Len(flight) : flight[i].sent <= now
    /\ \A i, j \in 1..Len(flight) : i < j => flight[i].sent <= flight[j].sent
    /\ \A i \in 1..Len(flight) : i + 1 \in 1..Len(flight) =>
          flight[i + 1].due = flight[i].due + interval
    /\ Looping /\ channel = "open" /\ flight # <<>> =>
          flight[Len(flight)].due + interval = due
    /\ ~held => \A i \in 1..Len(flight) : flight[i].sent <= flight[i].due + Delay
    /\ channel = "open" /\ flight # <<>> => now <= flight[1].sent + Rtt

\* When the next ping to be answered was due, or that to be sent if all are
\* answered.
NextAnswer == IF flight = <<>> THEN due ELSE flight[1].due

\* Either no ping was answered yet and the next to be is the first, or the last
\* one answered was made no earlier than one interval before the next was due.
Answers ==
    (steps = 0 /\ alive /\ Looping /\ channel = "open") =>
        \/ lastPong = 0 /\ NextAnswer = spawned
        \/ NextAnswer <= lastPong + interval

\* The last tick did not find the peer overdue.
Watched ==
    (steps = 0 /\ changes = 0) =>
        /\ loop = "running" =>
              due = spawned \/ due <= lastPong + settings.pong + interval
        /\ loop = "sending" => due <= lastPong + settings.pong

\* The inductive invariant.
IInv ==
    TypeOK /\ Phases /\ Stamps /\ Spaced /\ Answers /\ Watched /\ LoopWatches

-----------------------------------------------------------------------------
\* The elements of a sequence.
LEMMA Elements ==
    ASSUME NEW S, NEW s \in Seq(S)
    PROVE  /\ Len(s) \in Nat /\ (s # <<>> <=> Len(s) >= 1)
           /\ \A i \in 1..Len(s) : s[i] \in S
OBVIOUS

\* The types of the state, as the arithmetic of the steps needs them.
LEMMA Typed ==
    ASSUME TypeOK
    PROVE  /\ now \in Nat /\ due \in Nat /\ spawned \in Nat /\ died \in Nat
           /\ skew \in Int /\ lastPong \in Int /\ stamp \in Int /\ Wall \in Int
           /\ interval \in Nat /\ interval > 0 /\ Rtt \in Nat /\ Delay \in Nat
           /\ settings.pong \in Nat /\ settings.ping \in Nat /\ settings.ping > 0
           /\ steps \in Nat /\ changes \in Nat
           /\ flight \in Seq(Pings) /\ Len(flight) \in Nat
           /\ flight # <<>> <=> Len(flight) >= 1
           /\ \A i \in 1..Len(flight) :
                 flight[i].ts \in Int /\ flight[i].due \in Nat /\ flight[i].sent \in Nat
<1>1. flight \in Seq(Pings)
  BY DEF TypeOK
<1>2. /\ Len(flight) \in Nat /\ (flight # <<>> <=> Len(flight) >= 1)
      /\ \A i \in 1..Len(flight) : flight[i] \in Pings
  BY <1>1, Elements
<1>3. \A i \in 1..Len(flight) :
         flight[i].ts \in Int /\ flight[i].due \in Nat /\ flight[i].sent \in Nat
  BY <1>2 DEF Pings
<1>4. /\ MaxTime \in Nat /\ Rtt \in Nat /\ Delay \in Nat /\ MaxInterval \in Nat
      /\ MaxTimeout \in Nat /\ MaxChanges \in Nat /\ MaxSteps \in Nat
  BY KeepaliveAssumption
<1>5. now \in Nat /\ due \in Nat /\ spawned \in Nat /\ died \in Nat
  BY <1>4 DEF TypeOK
<1>6. skew \in Int /\ lastPong \in Int /\ stamp \in Int
  BY DEF TypeOK
<1>7. Wall \in Int
  BY <1>5, <1>6 DEF Wall
<1>8. interval \in Nat /\ interval > 0 /\ steps \in Nat /\ changes \in Nat
  BY <1>4 DEF TypeOK
<1>9. settings.pong \in Nat /\ settings.ping \in Nat /\ settings.ping > 0
  BY <1>4 DEF TypeOK
<1> QED BY <1>1, <1>2, <1>3, <1>4, <1>5, <1>6, <1>7, <1>8, <1>9

\* The first element of a sequence and the rest.
LEMMA HeadTail ==
    ASSUME NEW S, NEW s \in Seq(S), s # <<>>
    PROVE  /\ Len(s) \in Nat /\ Len(s) >= 1
           /\ Head(s) = s[1] /\ s[1] \in S
           /\ Tail(s) \in Seq(S) /\ Len(Tail(s)) = Len(s) - 1
           /\ \A i \in 1..Len(Tail(s)) : Tail(s)[i] = s[i + 1]
           /\ Tail(s) # <<>> <=> Len(s) > 1
<1>1. Len(s) \in Nat /\ Len(s) >= 1
  OBVIOUS
<1>2. Head(s) = s[1] /\ s[1] \in S
  BY <1>1
<1>3. Tail(s) \in Seq(S) /\ Len(Tail(s)) = Len(s) - 1
  BY <1>1
<1>4. \A i \in 1..Len(Tail(s)) : Tail(s)[i] = s[i + 1]
  BY <1>1, <1>3
<1>5. Tail(s) # <<>> <=> Len(s) > 1
  BY <1>1, <1>3
<1> QED BY <1>1, <1>2, <1>3, <1>4, <1>5

\* A sequence with one more element.
LEMMA Appended ==
    ASSUME NEW S, NEW s \in Seq(S), NEW x \in S
    PROVE  /\ Append(s, x) \in Seq(S) /\ Append(s, x) # <<>>
           /\ Len(Append(s, x)) = Len(s) + 1 /\ Len(s) \in Nat
           /\ \A i \in 1..Len(s) : Append(s, x)[i] = s[i]
           /\ Append(s, x)[Len(s) + 1] = x
OBVIOUS

\* Timeouts::sanitised keeps within the limits and leaves room for three pings.
LEMMA SanitisedFacts ==
    ASSUME NEW ping \in PingRequests, NEW pong \in PongRequests
    PROVE  /\ Sanitised(ping, pong) \in [ping : 1..MaxInterval, pong : 0..MaxTimeout]
           /\ Sanitised(ping, pong).pong >= 3 * Sanitised(ping, pong).ping
<1> DEFINE p == Clamp(ping, 1, MaxInterval)
           q == Clamp(pong, 3 * p, MaxTimeout)
<1>1. p \in 1..MaxInterval
  BY KeepaliveAssumption DEF Clamp
<1>2. q \in 0..MaxTimeout /\ q >= 3 * p
  BY <1>1, KeepaliveAssumption DEF Clamp
<1>3. Sanitised(ping, pong) = [ping |-> p, pong |-> q]
  BY DEF Sanitised
<1> QED BY <1>1, <1>2, <1>3

\* A session starts without pings and with the time as its last pong.
LEMMA InitIInv == Init => IInv
<1> SUFFICES ASSUME Init PROVE IInv
  OBVIOUS
<1>1. /\ settings \in [ping : 1..MaxInterval, pong : 0..MaxTimeout]
      /\ settings.pong >= 3 * settings.ping
  BY SanitisedFacts DEF Init
<1>2. flight = <<>> /\ Len(flight) = 0 /\ flight \in Seq(Pings)
  BY DEF Init
<1>3. TypeOK
  <2>1. /\ now \in 0..MaxTime /\ spawned \in 0..MaxTime /\ died \in 0..MaxTime
        /\ changes \in 0..MaxChanges /\ steps \in 0..MaxSteps
        /\ interval \in 1..MaxInterval
    BY KeepaliveAssumption DEF Init
  <2>2. skew \in Int /\ due \in Nat /\ stamp \in Int /\ lastPong \in Int
    BY DEF Init
  <2>3. held \in BOOLEAN /\ alive \in BOOLEAN
    BY Zenon DEF Init
  <2>4. /\ channel \in {"connecting", "open", "closed"}
        /\ loop \in {"off", "opening", "running", "sending", "ended", "panicked"}
        /\ why \in {"nobody", "timeout", "peer"}
    BY DEF Init
  <2> QED BY <1>1, <1>2, <2>1, <2>2, <2>3, <2>4, Zenon DEF TypeOK
<1>4. Phases /\ Answers /\ Watched /\ LoopWatches
  BY <1>2, KeepaliveAssumption DEF Init, Phases, Looping, Answers, Watched, LoopWatches
<1>5. Stamps /\ Spaced
  BY <1>2 DEF Init, Stamps, Spaced
<1> QED BY <1>3, <1>4, <1>5 DEF IInv

-----------------------------------------------------------------------------
\* Opening, and the start of the loop: there are no pings yet.
LEMMA OpenStep == ASSUME IInv, Open \/ Spawn PROVE IInv'
<1>1. now \in Nat /\ now \in 0..MaxTime /\ Delay \in Nat
  BY Typed DEF IInv, TypeOK
<1>2. TypeOK'
  BY <1>1, KeepaliveAssumption DEF IInv, TypeOK, Open, Spawn
<1>3. flight = <<>> /\ flight' = <<>> /\ Len(flight') = 0 /\ lastPong = 0 /\ lastPong' = 0
  BY DEF IInv, Phases, Open, Spawn
<1>4. CASE Open
  <2>1. /\ UNCHANGED <<now, skew, due, spawned, stamp, held, lastPong, flight, alive,
                       died, settings, steps>>
        /\ channel' = "open" /\ loop' = "opening"
    BY <1>4 DEF Open
  <2>2. Phases'
    BY <1>3, <2>1 DEF IInv, Phases, Looping
  <2>3. Stamps' /\ Spaced'
    BY <1>3, <2>1 DEF IInv, Stamps, Spaced
  <2>4. Answers' /\ Watched' /\ LoopWatches'
    BY <2>1 DEF Answers, Looping, Watched, LoopWatches
  <2> QED BY <1>2, <2>2, <2>3, <2>4 DEF IInv
<1>5. CASE Spawn
  <2>1. /\ UNCHANGED <<now, skew, channel, stamp, held, lastPong, flight, alive, died,
                       settings, steps>>
        /\ loop = "opening" /\ loop' = "running" /\ due' = now /\ spawned' = now
    BY <1>5 DEF Spawn
  <2>2. Phases'
    BY <1>1, <1>3, <2>1 DEF IInv, Phases, Looping
  <2>3. Stamps' /\ Spaced'
    BY <1>3, <2>1 DEF IInv, Stamps, Spaced
  <2>4. NextAnswer' = spawned'
    BY <1>3, <2>1 DEF NextAnswer
  <2>5. Answers' /\ Watched' /\ LoopWatches'
    BY <1>3, <2>1, <2>4 DEF Answers, Watched, LoopWatches
  <2> QED BY <1>2, <2>2, <2>3, <2>5 DEF IInv
<1> QED BY <1>4, <1>5

\* Steps that end the loop or close the channel.
LEMMA EndStep ==
    ASSUME IInv, TickEnds \/ TickTimeout \/ TickPanics \/ Close
    PROVE  IInv'
<1>1. TypeOK'
  BY DEF IInv, TypeOK, TickEnds, TickTimeout, TickPanics, Close, task
<1>2. /\ UNCHANGED <<now, skew, interval, due, spawned, stamp, held, lastPong, flight,
                     alive, died, settings, changes, steps>>
      /\ channel' = channel \/ channel' = "closed"
      /\ loop' = loop \/ loop' \in {"ended", "panicked"}
      /\ channel # "connecting" /\ loop # "off"
  BY DEF IInv, Phases, TickEnds, TickTimeout, TickPanics, Close, AtTick, task
<1>3. Phases'
  BY <1>2 DEF IInv, Phases, Looping
<1>4. Stamps'
  BY <1>2 DEF IInv, Stamps
<1>5. Spaced'
  BY <1>2 DEF IInv, Spaced, Looping
<1>6. Answers' /\ Watched'
  BY <1>2 DEF IInv, Answers, Looping, NextAnswer, Watched
<1>7. LoopWatches'
  <2>1. CASE TickPanics
    BY <2>1 DEF IInv, TypeOK, TickPanics, Underflow, Wall, Stamps, LoopWatches
  <2> QED BY <2>1 DEF IInv, TickEnds, TickTimeout, Close, AtTick, LoopWatches
<1> QED BY <1>1, <1>3, <1>4, <1>5, <1>6, <1>7 DEF IInv

\* A tick finds the peer not overdue; the ping it makes waits to be sent.
LEMMA TickStep == ASSUME IInv, TickPing PROVE IInv'
<1>1. /\ now \in Nat /\ due \in Nat /\ lastPong \in Int /\ settings.pong \in Nat
      /\ skew \in Int /\ Wall \in Int
      /\ \A i \in 1..Len(flight) : flight[i].ts \in Int
  BY Typed DEF IInv
<1>2. /\ UNCHANGED <<now, skew, settings, channel, interval, due, spawned, held, lastPong,
                     flight, alive, died, why, changes, steps>>
      /\ loop = "running" /\ loop' = "sending" /\ due <= now /\ channel = "open"
      /\ stamp' = Wall /\ ~Overdue /\ ~Underflow
  BY DEF TickPing, AtTick
<1>3. TypeOK'
  BY <1>1, <1>2 DEF IInv, TypeOK
<1>4. Phases' /\ LoopWatches'
  BY <1>2 DEF IInv, Phases, Looping, LoopWatches
<1>5. steps = 0 => Wall = now
  BY <1>1 DEF IInv, Stamps, Wall
<1>6. Stamps'
  BY <1>1, <1>2, <1>5 DEF IInv, Stamps
<1>7. Spaced' /\ Answers'
  BY <1>2 DEF IInv, Spaced, Answers, NextAnswer, Looping
<1>8. Watched'
  BY <1>1, <1>2, <1>5 DEF Watched, Overdue, Underflow
<1> QED BY <1>3, <1>4, <1>6, <1>7, <1>8 DEF IInv

\* A ping is sent, due one interval after the one before it.
LEMMA SentStep == ASSUME IInv, PingSent PROVE IInv'
<1>1. /\ now \in Nat /\ due \in Nat /\ interval \in Nat /\ interval > 0 /\ Rtt \in Nat
      /\ Delay \in Nat /\ lastPong \in Int /\ stamp \in Int /\ settings.pong \in Nat
      /\ spawned \in Nat
      /\ flight \in Seq(Pings) /\ Len(flight) \in Nat
      /\ flight # <<>> <=> Len(flight) >= 1
      /\ \A i \in 1..Len(flight) :
            flight[i].ts \in Int /\ flight[i].due \in Nat /\ flight[i].sent \in Nat
  BY Typed DEF IInv
<1>2. /\ UNCHANGED <<now, skew, settings, channel, interval, spawned, stamp, held,
                     lastPong, alive, died, why, changes, steps>>
      /\ loop = "sending" /\ loop' = "running" /\ due' = due + interval
  BY DEF PingSent
<1>3. due' \in Nat /\ due' >= due
  BY <1>1, <1>2
<1>4. Watched'
  BY <1>1, <1>2 DEF IInv, Watched
<1>5. LoopWatches'
  BY <1>2 DEF LoopWatches
<1>6. CASE ~(alive /\ channel = "open")
  <2>1. flight' = flight
    BY <1>6 DEF PingSent
  <2>2. TypeOK'
    BY <1>2, <1>3, <2>1 DEF IInv, TypeOK
  <2>3. Phases'
    BY <1>1, <1>2, <1>3, <2>1 DEF IInv, Phases, Looping
  <2>4. Stamps' /\ Answers'
    BY <1>2, <1>6, <2>1 DEF IInv, Stamps, Answers
  <2>5. channel = "open" => flight = <<>>
    BY <1>6 DEF IInv, Phases
  <2>6. Spaced'
    BY <1>2, <2>1, <2>5 DEF IInv, Spaced
  <2> QED BY <1>4, <1>5, <2>2, <2>3, <2>4, <2>6 DEF IInv
<1>7. CASE alive /\ channel = "open"
  <2> DEFINE x == [ts |-> stamp, due |-> due, sent |-> now]
             n == Len(flight)
  <2>1. x \in Pings /\ flight' = Append(flight, x)
    BY <1>1, <1>7 DEF Pings, PingSent
  <2>2. /\ flight' \in Seq(Pings) /\ flight' # <<>> /\ Len(flight') = n + 1
        /\ \A i \in 1..n : flight'[i] = flight[i]
        /\ flight'[n + 1] = x
    BY <1>1, <2>1, Appended
  <2>3. flight'[n + 1].ts = stamp /\ flight'[n + 1].due = due /\ flight'[n + 1].sent = now
    BY <2>2
  <2>4. n \in Nat /\ \A i \in 1..Len(flight') : i \in 1..n \/ i = n + 1
    BY <1>1, <2>2
  <2>5. TypeOK'
    BY <1>2, <1>3, <2>2 DEF IInv, TypeOK
  <2>6. Phases'
    BY <1>1, <1>2, <1>3, <1>7 DEF IInv, Phases, Looping
  <2> HIDE DEF x, n
  <2>7. Stamps'
    <3>1. SUFFICES ASSUME steps = 0
                   PROVE  /\ \A i \in 1..Len(flight') :
                                /\ lastPong <= flight'[i].ts
                                /\ flight'[i].due <= flight'[i].ts
                                /\ flight'[i].ts <= now
                          /\ \A i, j \in 1..Len(flight') :
                                i < j => flight'[i].ts <= flight'[j].ts
      BY <1>2, <1>7 DEF IInv, Stamps
    <3>2. /\ lastPong <= stamp /\ due <= stamp /\ stamp <= now
          /\ \A i \in 1..n : /\ lastPong <= flight[i].ts /\ flight[i].due <= flight[i].ts
                             /\ flight[i].ts <= now /\ flight[i].ts <= stamp
          /\ \A i, j \in 1..n : i < j => flight[i].ts <= flight[j].ts
      BY <1>2, <1>7, <3>1 DEF IInv, Stamps, n
    <3>3. ASSUME NEW i \in 1..Len(flight')
          PROVE  /\ lastPong <= flight'[i].ts /\ flight'[i].due <= flight'[i].ts
                 /\ flight'[i].ts <= now
      BY <2>2, <2>3, <2>4, <3>2
    <3>4. ASSUME NEW i \in 1..Len(flight'), NEW j \in 1..Len(flight'), i < j
          PROVE  flight'[i].ts <= flight'[j].ts
      <4>1. i \in 1..n
        BY <2>2, <2>4, <3>4
      <4> QED BY <2>2, <2>3, <2>4, <3>2, <3>4, <4>1
    <3> QED BY <3>3, <3>4
  <2>8. Spaced'
    <3>0. /\ \A i \in 1..n : flight[i].sent <= now
          /\ \A i, j \in 1..n : i < j => flight[i].sent <= flight[j].sent
          /\ \A i \in 1..n : i + 1 \in 1..n => flight[i + 1].due = flight[i].due + interval
          /\ flight # <<>> => flight[n].due + interval = due
          /\ ~held => \A i \in 1..n : flight[i].sent <= flight[i].due + Delay
          /\ flight # <<>> => now <= flight[1].sent + Rtt
      BY <1>2, <1>7 DEF IInv, Spaced, Looping, n
    <3>1. \A i \in 1..Len(flight') : flight'[i].sent <= now
      BY <1>1, <2>2, <2>3, <2>4, <3>0
    <3>2. ASSUME NEW i \in 1..Len(flight'), NEW j \in 1..Len(flight'), i < j
          PROVE  flight'[i].sent <= flight'[j].sent
      <4>1. i \in 1..n
        BY <2>2, <2>4, <3>2
      <4> QED BY <2>2, <2>3, <2>4, <3>0, <3>2, <4>1
    <3>3. ASSUME NEW i \in 1..Len(flight'), i + 1 \in 1..Len(flight')
          PROVE  flight'[i + 1].due = flight'[i].due + interval
      <4>1. i \in 1..n /\ flight'[i] = flight[i]
        <5>1. i \in 1..n
          BY <2>2, <2>4, <3>3
        <5> QED BY <2>2, <5>1
      <4>2. CASE i + 1 \in 1..n
        BY <2>2, <3>0, <4>1, <4>2
      <4>3. CASE i + 1 = n + 1
        <5>1. i = n /\ flight # <<>>
          BY <1>1, <2>4, <4>1, <4>3 DEF n
        <5> QED BY <2>3, <3>0, <4>1, <4>3, <5>1
      <4> QED BY <2>4, <3>3, <4>2, <4>3
    <3>4. flight'[Len(flight')].due + interval = due'
      BY <1>2, <2>2, <2>3
    <3>5. ASSUME ~held, NEW i \in 1..Len(flight')
          PROVE  flight'[i].sent <= flight'[i].due + Delay
      <4>1. now <= due + Delay
        BY <1>2, <3>5 DEF IInv, Phases, Looping
      <4> QED BY <2>2, <2>3, <2>4, <3>0, <3>5, <4>1
    <3>6. now <= flight'[1].sent + Rtt
      <4>1. CASE flight = <<>>
        <5>1. flight'[1].sent = now
          BY <1>1, <2>3, <4>1 DEF n
        <5> QED BY <1>1, <5>1
      <4>2. CASE flight # <<>>
        <5>1. 1 \in 1..n
          BY <1>1, <4>2 DEF n
        <5> QED BY <2>2, <3>0, <4>2, <5>1
      <4> QED BY <4>1, <4>2
    <3> QED BY <1>2, <3>1, <3>2, <3>3, <3>4, <3>5, <3>6 DEF Spaced
  <2>9. Answers'
    <3>1. CASE flight = <<>>
      <4>1. NextAnswer' = due /\ NextAnswer = due
        BY <1>1, <2>2, <2>3, <3>1 DEF NextAnswer, n
      <4> QED BY <1>2, <1>7, <4>1 DEF IInv, Answers, Looping
    <3>2. CASE flight # <<>>
      <4>1. 1 \in 1..n /\ flight'[1] = flight[1]
        BY <1>1, <2>2, <3>2 DEF n
      <4>2. NextAnswer' = NextAnswer
        BY <2>2, <3>2, <4>1 DEF NextAnswer
      <4> QED BY <1>2, <1>7, <4>2 DEF IInv, Answers, Looping
    <3> QED BY <3>1, <3>2
  <2> QED BY <1>4, <1>5, <2>5, <2>6, <2>7, <2>8, <2>9 DEF IInv
<1> QED BY <1>6, <1>7

\* A Pong arrives: the ping after it is now the next to be answered.
LEMMA PongStep == ASSUME IInv, Pong PROVE IInv'
<1>1. /\ flight \in Seq(Pings) /\ flight # <<>>
      /\ flight' = Tail(flight) /\ lastPong' = Head(flight).ts
      /\ UNCHANGED <<now, skew, settings, channel, loop, interval, due, spawned, stamp,
                     held, alive, died, why, changes, steps>>
      /\ channel = "open"
  BY DEF IInv, TypeOK, Pong, task
<1>2. /\ Len(flight) \in Nat /\ Len(flight) >= 1
      /\ lastPong' = flight[1].ts /\ flight[1] \in Pings
      /\ flight' \in Seq(Pings) /\ Len(flight') = Len(flight) - 1
      /\ \A i \in 1..Len(flight') : flight'[i] = flight[i + 1]
      /\ flight' # <<>> <=> Len(flight) > 1
  BY <1>1, HeadTail
<1>3. /\ now \in Nat /\ interval \in Nat /\ interval > 0 /\ Rtt \in Nat /\ due \in Nat
      /\ lastPong \in Int /\ settings.pong \in Nat /\ stamp \in Int /\ Delay \in Nat
      /\ \A i \in 1..Len(flight) :
            flight[i].ts \in Int /\ flight[i].due \in Nat /\ flight[i].sent \in Nat
  BY Typed DEF IInv
<1>4. 1 \in 1..Len(flight)
  BY <1>2
<1>5. TypeOK'
  BY <1>1, <1>2, <1>3, <1>4 DEF IInv, TypeOK
<1>6. Phases' /\ LoopWatches' /\ alive
  BY <1>1 DEF IInv, Phases, Looping, LoopWatches
<1>7. \A i \in 1..Len(flight') :
         i + 1 \in 1..Len(flight) /\ flight'[i] = flight[i + 1] /\ 1 < i + 1
  BY <1>2
<1>8. Stamps'
  <2>1. SUFFICES ASSUME steps = 0
                 PROVE  /\ 0 <= flight[1].ts /\ flight[1].ts <= now
                        /\ \A i \in 1..Len(flight') :
                              /\ flight[1].ts <= flight'[i].ts
                              /\ flight'[i].due <= flight'[i].ts
                              /\ flight'[i].ts <= now
                        /\ \A i, j \in 1..Len(flight') :
                              i < j => flight'[i].ts <= flight'[j].ts
                        /\ loop = "sending" =>
                              /\ flight[1].ts <= stamp
                              /\ \A i \in 1..Len(flight') : flight'[i].ts <= stamp
    BY <1>1, <1>2, <1>6 DEF IInv, Stamps
  <2>2. /\ 0 <= lastPong
        /\ \A i \in 1..Len(flight) :
              /\ lastPong <= flight[i].ts /\ flight[i].due <= flight[i].ts
              /\ flight[i].ts <= now
        /\ \A i, j \in 1..Len(flight) : i < j => flight[i].ts <= flight[j].ts
        /\ loop = "sending" => \A i \in 1..Len(flight) : flight[i].ts <= stamp
    BY <2>1 DEF IInv, Stamps
  <2>3. 0 <= flight[1].ts /\ flight[1].ts <= now
    BY <1>3, <1>4, <2>2
  <2>4. ASSUME NEW i \in 1..Len(flight'), NEW j \in 1..Len(flight'), i < j
        PROVE  flight'[i].ts <= flight'[j].ts
    <3>1. i + 1 < j + 1
      BY <1>2, <2>4
    <3> QED BY <1>7, <2>2, <2>4, <3>1
  <2> QED BY <1>4, <1>7, <2>2, <2>3, <2>4
<1>9. Spaced'
  <2>0. /\ \A i \in 1..Len(flight) : flight[i].sent <= now
        /\ \A i, j \in 1..Len(flight) : i < j => flight[i].sent <= flight[j].sent
        /\ \A i \in 1..Len(flight) : i + 1 \in 1..Len(flight) =>
              flight[i + 1].due = flight[i].due + interval
        /\ Looping => flight[Len(flight)].due + interval = due
        /\ ~held => \A i \in 1..Len(flight) : flight[i].sent <= flight[i].due + Delay
        /\ now <= flight[1].sent + Rtt
    BY <1>1 DEF IInv, Spaced
  <2>1. \A i \in 1..Len(flight') : flight'[i].sent <= now
    BY <1>7, <2>0
  <2>2. ASSUME NEW i \in 1..Len(flight'), NEW j \in 1..Len(flight'), i < j
        PROVE  flight'[i].sent <= flight'[j].sent
    <3>1. i + 1 < j + 1
      BY <1>2, <2>2
    <3> QED BY <1>7, <2>0, <2>2, <3>1
  <2>3. \A i \in 1..Len(flight') : i + 1 \in 1..Len(flight') =>
           flight'[i + 1].due = flight'[i].due + interval
    BY <1>7, <2>0
  <2>4. Looping /\ flight' # <<>> => flight'[Len(flight')].due + interval = due
    <3>1. flight' # <<>> => flight'[Len(flight')] = flight[Len(flight)]
      BY <1>2
    <3> QED BY <2>0, <3>1
  <2>5. ~held => \A i \in 1..Len(flight') : flight'[i].sent <= flight'[i].due + Delay
    BY <1>7, <2>0
  <2>6. flight' # <<>> => now <= flight'[1].sent + Rtt
    <3>1. SUFFICES ASSUME flight' # <<>> PROVE now <= flight'[1].sent + Rtt
      OBVIOUS
    <3>2. 1 \in 1..Len(flight') /\ 2 \in 1..Len(flight) /\ flight'[1] = flight[2]
      BY <1>2, <3>1
    <3>3. flight[1].sent <= flight[2].sent
      BY <1>4, <2>0, <3>2
    <3> QED BY <1>3, <1>4, <2>0, <3>2, <3>3
  <2> QED BY <1>1, <2>1, <2>2, <2>3, <2>4, <2>5, <2>6 DEF Spaced, Looping
<1>10. Answers'
  <2>1. SUFFICES ASSUME steps = 0, Looping
                 PROVE  NextAnswer' <= flight[1].ts + interval
    BY <1>1, <1>2 DEF Answers, Looping
  <2>2. flight[1].due <= flight[1].ts
    BY <1>4, <2>1 DEF IInv, Stamps
  <2>3. CASE flight' = <<>>
    <3>1. Len(flight) = 1
      BY <1>2, <2>3
    <3>2. flight[1].due + interval = due
      BY <1>1, <2>1, <3>1 DEF IInv, Spaced
    <3>3. NextAnswer' = due
      BY <1>1, <2>3 DEF NextAnswer
    <3> QED BY <1>3, <1>4, <2>2, <3>2, <3>3
  <2>4. CASE flight' # <<>>
    <3>1. 1 + 1 \in 1..Len(flight) /\ flight'[1] = flight[1 + 1]
      BY <1>2, <2>4
    <3>2. flight[1 + 1].due = flight[1].due + interval
      BY <1>4, <3>1 DEF IInv, Spaced
    <3>3. NextAnswer' = flight[1].due + interval
      BY <2>4, <3>1, <3>2 DEF NextAnswer
    <3> QED BY <1>3, <1>4, <2>2, <3>3
  <2> QED BY <2>3, <2>4
<1>11. Watched'
  <2>1. steps = 0 => lastPong <= flight[1].ts
    BY <1>4 DEF IInv, Stamps
  <2> QED BY <1>1, <1>2, <1>3, <1>4, <2>1 DEF IInv, Watched
<1> QED BY <1>5, <1>6, <1>8, <1>9, <1>10, <1>11 DEF IInv

\* The peer vanishes with what it had to say.
LEMMA DieStep == ASSUME IInv, PeerDies PROVE IInv'
<1>1. flight' = <<>> /\ Len(flight') = 0 /\ flight' \in Seq(Pings)
  BY DEF PeerDies
<1>2. TypeOK'
  BY <1>1 DEF IInv, TypeOK, PeerDies, task
<1>3. Phases' /\ Stamps'
  BY <1>1, Typed DEF IInv, PeerDies, task, Phases, Looping, Stamps
<1>4. Spaced' /\ Answers' /\ Watched' /\ LoopWatches'
  BY <1>1 DEF IInv, PeerDies, task, Spaced, Answers, Watched, LoopWatches
<1> QED BY <1>2, <1>3, <1>4 DEF IInv

\* The timeouts are changed, or the wall clock is set.
LEMMA SettingStep ==
    ASSUME IInv,
           \/ SetClock
           \/ \E ping \in PingRequests, pong \in PongRequests : SetTimeouts(ping, pong)
    PROVE  IInv'
<1>1. CASE SetClock
  <2>1. steps \in Nat /\ steps' = steps + 1 /\ steps' \in 0..MaxSteps
    <3>1. steps < MaxSteps /\ steps' = steps + 1
      BY <1>1 DEF SetClock
    <3>2. steps \in Nat /\ MaxSteps \in Nat
      BY Typed, KeepaliveAssumption DEF IInv
    <3> QED BY <3>1, <3>2
  <2>2. TypeOK'
    <3>1. skew \in Int /\ Step \in Int
      BY KeepaliveAssumption DEF IInv, TypeOK
    <3>2. skew' = skew - Step \/ skew' = skew + Step
      BY <1>1 DEF SetClock
    <3>3. skew' \in Int
      BY <3>1, <3>2
    <3> QED BY <1>1, <2>1, <3>3 DEF IInv, TypeOK, SetClock, task
  <2>3. steps' # 0 /\ steps' > 0
    BY <2>1
  <2> QED BY <1>1, <2>2, <2>3
          DEF IInv, SetClock, task, Phases, Looping, Stamps, Spaced, Answers, NextAnswer,
              Watched, LoopWatches
<1>2. ASSUME NEW ping \in PingRequests, NEW pong \in PongRequests,
             SetTimeouts(ping, pong)
      PROVE  IInv'
  <2>1. changes \in Nat /\ changes' = changes + 1 /\ changes' \in 0..MaxChanges
    <3>1. changes < MaxChanges /\ changes' = changes + 1
      BY <1>2 DEF SetTimeouts
    <3>2. changes \in Nat /\ MaxChanges \in Nat
      BY Typed, KeepaliveAssumption DEF IInv
    <3> QED BY <3>1, <3>2
  <2>2. TypeOK'
    BY <1>2, <2>1, SanitisedFacts DEF IInv, TypeOK, SetTimeouts, task
  <2>3. changes' # 0
    BY <2>1
  <2> QED BY <1>2, <2>2, <2>3
          DEF IInv, SetTimeouts, task, Phases, Looping, Stamps, Spaced, Answers, NextAnswer,
              Watched, LoopWatches
<1> QED BY <1>1, <1>2

\* Time passes, up to what the next Pong may take.
LEMMA AdvanceStep == ASSUME IInv, Advance PROVE IInv'
<1>1. /\ now \in Nat /\ now' = now + 1 /\ now < MaxTime /\ MaxTime \in Nat
      /\ Rtt \in Nat /\ Delay \in Nat /\ due \in Nat /\ held \in BOOLEAN
      /\ UNCHANGED <<skew, settings, channel, loop, interval, due, spawned, stamp,
                     lastPong, flight, alive, died, why, changes, steps>>
      /\ held' = (held \/ (loop \in {"running", "sending"} /\ now + 1 > due + Delay))
      /\ flight # <<>> => now < Head(flight).sent + Rtt
  BY Typed, KeepaliveAssumption DEF IInv, TypeOK, Advance, task
<1>2. /\ Len(flight) \in Nat
      /\ \A i \in 1..Len(flight) :
            flight[i].ts \in Int /\ flight[i].due \in Nat /\ flight[i].sent \in Nat
      /\ flight # <<>> => Head(flight) = flight[1] /\ Len(flight) >= 1
  BY Typed, HeadTail DEF IInv
<1>3. TypeOK'
  <2>1. now' \in 0..MaxTime
    BY <1>1
  <2>2. held' \in BOOLEAN
    BY <1>1, Zenon
  <2> QED BY <1>1, <2>1, <2>2 DEF IInv, TypeOK
<1>4. ~held' => ~held
  BY <1>1
<1>5. Phases'
  <2>1. ~held' /\ Looping => ~(now + 1 > due + Delay)
    BY <1>1, Zenon DEF Looping
  <2>2. ~held' /\ Looping => now + 1 <= due + Delay
    BY <1>1, <2>1
  <2>3. spawned <= now + 1 /\ died <= now + 1 /\ (loop = "sending" => due <= now + 1)
    BY <1>1, Typed DEF IInv, Phases
  <2> QED BY <1>1, <2>2, <2>3 DEF IInv, Phases, Looping
<1>6. LoopWatches' /\ Answers' /\ Watched'
  <2>1. NextAnswer' = NextAnswer
    BY <1>1 DEF NextAnswer
  <2>2. LoopWatches'
    BY <1>1 DEF IInv, LoopWatches
  <2>3. Watched'
    BY <1>1 DEF IInv, Watched
  <2>4. Answers'
    BY <1>1, <2>1 DEF IInv, Answers, Looping
  <2> QED BY <2>2, <2>3, <2>4
<1>7. Stamps'
  <2>1. \A x \in Int : x <= now => x <= now + 1
    BY <1>1
  <2>2. lastPong \in Int /\ stamp \in Int
    BY Typed DEF IInv
  <2>3. Stamps
    BY DEF IInv
  <2>4. steps = 0 =>
          /\ skew = 0
          /\ 0 <= lastPong /\ lastPong <= now + 1
          /\ ~alive => lastPong <= died
    BY <2>1, <2>2, <2>3, Zenon DEF Stamps
  <2>5. steps = 0 => \A i \in 1..Len(flight) :
          /\ lastPong <= flight[i].ts /\ flight[i].due <= flight[i].ts
          /\ flight[i].ts <= now + 1
    BY <1>2, <2>1, <2>3, Zenon DEF Stamps
  <2>6. steps = 0 =>
          /\ \A i, j \in 1..Len(flight) : i < j => flight[i].ts <= flight[j].ts
          /\ loop = "sending" =>
                /\ due <= stamp /\ stamp <= now + 1
                /\ lastPong <= stamp
                /\ \A i \in 1..Len(flight) : flight[i].ts <= stamp
    BY <2>1, <2>2, <2>3, Zenon DEF Stamps
  <2>7. now' = now + 1 /\ UNCHANGED <<skew, loop, due, stamp, lastPong, flight, alive, died, steps>>
    BY <1>1
  <2> QED BY <2>4, <2>5, <2>6, <2>7 DEF Stamps
<1>8. Spaced'
  <2>1. flight # <<>> => now + 1 <= flight[1].sent + Rtt
    BY <1>1, <1>2
  <2>2. \A i \in 1..Len(flight) : flight[i].sent <= now + 1
    BY <1>1, <1>2 DEF IInv, Spaced
  <2> QED BY <1>1, <1>4, <2>1, <2>2 DEF IInv, Spaced, Looping
<1> QED BY <1>3, <1>5, <1>6, <1>7, <1>8 DEF IInv

\* Every step keeps the invariant.
LEMMA StepIInv == IInv /\ [Next]_vars => IInv'
<1> SUFFICES ASSUME IInv, [Next]_vars PROVE IInv'
  OBVIOUS
<1>1. CASE UNCHANGED vars
  BY <1>1 DEF vars, task, IInv, TypeOK, Phases, Looping, Stamps, Spaced, Answers,
              NextAnswer, Watched, LoopWatches
<1> QED BY <1>1, OpenStep, EndStep, TickStep, SentStep, PongStep, DieStep, SettingStep,
           AdvanceStep DEF Next

-----------------------------------------------------------------------------
\* The strengthened invariant holds throughout: it relates the pings in flight,
\* the last pong and the next tick.
THEOREM Inductive == Spec => []IInv
BY InitIInv, StepIInv, PTL DEF Spec

\* A channel is open with nobody to watch it only after the wall clock was set.
THEOREM Watching == Spec => []LoopWatches
<1>1. IInv => LoopWatches
  BY DEF IInv
<1> QED BY <1>1, Inductive, PTL

\* Unless a send holds it up, the loop's next look at a vanished peer is due
\* within the pong timeout and one interval of the peer's end.
THEOREM NoticedInTime == Spec => []DeadPeerNoticed
<1>1. ASSUME IInv, ~alive, channel = "open", loop = "running", steps = 0, changes = 0
      PROVE  due = spawned \/ due <= died + settings.pong + interval
  <2>1. /\ due \in Nat /\ spawned \in Nat /\ died \in Nat /\ lastPong \in Int
        /\ settings.pong \in Nat /\ interval \in Nat
    BY <1>1, Typed DEF IInv
  <2>2. lastPong <= died
    BY <1>1 DEF IInv, Stamps
  <2>3. due = spawned \/ due <= lastPong + settings.pong + interval
    BY <1>1 DEF IInv, Watched
  <2> QED BY <2>1, <2>2, <2>3
<1>2. IInv => DeadPeerNoticed
  BY <1>1 DEF DeadPeerNoticed
<1> QED BY <1>2, Inductive, PTL

\* At a tick of a healthy session the next ping to be answered is no older than
\* its delay and answer allow, and the last answer one interval older than that.
LEMMA HealthyTick ==
    ASSUME IInv, AtTick, channel = "open", Healthy, FittingTimeout
    PROVE  ~Overdue /\ ~Underflow
<1>1. /\ Len(flight) \in Nat /\ flight # <<>> <=> Len(flight) >= 1
      /\ \A i \in 1..Len(flight) :
            flight[i].due \in Nat /\ flight[i].sent \in Nat
      /\ now \in Nat /\ interval \in Nat /\ settings.pong \in Nat /\ lastPong \in Int
      /\ due \in Nat /\ spawned \in Nat /\ Rtt \in Nat /\ Delay \in Nat
  BY Typed DEF IInv
<1>2. Wall = now /\ lastPong <= now /\ Looping /\ ~held /\ alive /\ steps = 0
  BY <1>1 DEF IInv, AtTick, Healthy, Looping, Stamps, Wall
<1>3. now <= NextAnswer + Delay + Rtt /\ NextAnswer \in Nat
  <2>1. CASE flight = <<>>
    <3>1. now <= due + Delay
      BY <1>2 DEF IInv, Phases
    <3> QED BY <1>1, <2>1, <3>1 DEF NextAnswer
  <2>2. CASE flight # <<>>
    <3>1. 1 \in 1..Len(flight)
      BY <1>1, <2>2
    <3>2. flight[1].sent <= flight[1].due + Delay /\ now <= flight[1].sent + Rtt
      BY <1>2, <2>2, <3>1 DEF IInv, Spaced
    <3> QED BY <1>1, <2>2, <3>1, <3>2 DEF NextAnswer
  <2> QED BY <2>1, <2>2
<1>4. \/ lastPong = 0 /\ NextAnswer = spawned
      \/ NextAnswer <= lastPong + interval
  BY <1>2 DEF IInv, Answers
<1>5. now - lastPong <= settings.pong
  BY <1>1, <1>3, <1>4 DEF FittingTimeout
<1> QED BY <1>1, <1>2, <1>5 DEF Overdue, Underflow

\* The keepalive closes no session of a healthy peer when the timeout allows for
\* the interval the loop was started with, its delays and the answer.
THEOREM HealthyKept == Spec => NoFalseTimeout
<1>1. ASSUME IInv, [Next]_vars, why' = "timeout", why # "timeout"
      PROVE  ~(Healthy /\ FittingTimeout)
  <2>1. TickTimeout
    BY <1>1 DEF Next, vars, Open, Spawn, TickEnds, TickPanics, TickPing, PingSent, Pong,
                PeerDies, Close, SetTimeouts, SetClock, Advance
  <2> QED BY <1>1, <2>1, HealthyTick DEF TickTimeout
<1>2. IInv /\ [Next]_vars =>
        [why' = "timeout" /\ why # "timeout" => ~(Healthy /\ FittingTimeout)]_vars
  BY <1>1
<1> QED BY <1>2, Inductive, PTL DEF Spec, NoFalseTimeout
=============================================================================

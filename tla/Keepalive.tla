------------------------------ MODULE Keepalive ------------------------------
(***************************************************************************)
(* The ping loop of a WebRTC session (client-core/src/rtc/mod.rs) and the  *)
(* timeouts it uses (client-core/src/limits.rs).                           *)
(*                                                                         *)
(* When the data channel opens on_open first sends the Handshake and the   *)
(* pending messages, and then spawns a task that, at once and then every   *)
(* ping_interval_secs, compares the wall clock with last_pong, the time of *)
(* the last ping that was answered, closes the channel if the difference   *)
(* is more than pong_timeout_ms, and otherwise sends a Ping with the time; *)
(* the peer's receive task answers with a Pong that carries it back.       *)
(* last_pong starts as the time the session was created.                   *)
(*                                                                         *)
(* What is sent waits for dc_write_lock and for the channel's buffer (see  *)
(* CommandFlow): sending may take any time here, or never end, both in     *)
(* on_open and in a tick.  Ticks that were missed meanwhile come in a      *)
(* burst, since the interval keeps to its schedule.  Nor is any tick on    *)
(* time.                                                                   *)
(*                                                                         *)
(* The interval is read once, when the loop starts; the timeout is read at *)
(* every tick.  set_timeouts may be called at any time and sanitises what  *)
(* it is given.  The interval runs on a monotonic clock, the timestamps on *)
(* the wall clock, which may be set.                                       *)
(***************************************************************************)
EXTENDS Integers, Sequences, FiniteSets

CONSTANTS MaxTime,      \* bound on the time that is looked at
          Rtt,          \* a responsive peer's Pong arrives within this time
          Delay,        \* a ping that leaves later than this was held up
          PingRequests, \* ping intervals the application asks for
          PongRequests, \* pong timeouts the application asks for
          MaxInterval,  \* largest ping interval (3600 s in the code)
          MaxTimeout,   \* largest pong timeout (24 h in the code)
          MaxChanges,   \* bound on calls of set_timeouts
          MaxSteps,     \* bound on steps of the wall clock
          Step          \* size of such a step

ASSUME KeepaliveAssumption ==
    /\ {MaxTime, Rtt, Delay, MaxChanges, MaxSteps, Step} \subseteq Nat
    /\ PingRequests \subseteq Nat /\ PongRequests \subseteq Nat
    /\ MaxInterval \in Nat \ {0} /\ MaxTimeout \in Nat
    /\ 3 * MaxInterval <= MaxTimeout
    /\ PingRequests # {} /\ PongRequests # {}

VARIABLES
    now,       \* the monotonic clock
    skew,      \* wall clock minus monotonic clock
    settings,  \* the Timeouts in force
    channel,   \* the data channel: "connecting", "open" or "closed"
    loop,      \* the ping loop: "off", "opening" (on_open sends), "running" (until
               \* the next tick), "sending" (a ping), "ended" or "panicked"
    interval,  \* the interval the loop was started with
    due,       \* scheduled time of its next tick, or of the one it is at
    spawned,   \* time the loop started
    stamp,     \* the timestamp of the ping that is being sent
    held,      \* history: a tick, or the ping sent in it, was more than Delay late
    lastPong,  \* last_pong, a wall-clock time
    flight,    \* pings not yet answered: the timestamp, when due and when sent
    alive,     \* the peer answers
    died,      \* time it stopped
    why,       \* who closed the channel: "nobody", "timeout" or "peer"
    changes, steps   \* counted for the bounds

task == <<loop, interval, due, spawned, stamp>>
vars == <<now, skew, settings, channel, task, held, lastPong, flight, alive, died,
          why, changes, steps>>

Clamp(x, low, high) == IF x < low THEN low ELSE IF x > high THEN high ELSE x

\* Timeouts::sanitised: at least a second between pings, at least three of
\* them within the timeout.
Sanitised(ping, pong) ==
    LET p == Clamp(ping, 1, MaxInterval)
    IN  [ping |-> p, pong |-> Clamp(pong, 3 * p, MaxTimeout)]

Wall == now + skew

\* WebRtcClient::new or create_offer: the session exists, the channel is not
\* open yet, and the time counts as that of the last pong.
Init ==
    /\ now = 0 /\ skew = 0
    /\ \E ping \in PingRequests, pong \in PongRequests :
          settings = Sanitised(ping, pong)
    /\ channel = "connecting" /\ loop = "off"
    /\ interval = 1 /\ due = 0 /\ spawned = 0 /\ stamp = 0
    /\ held = FALSE
    /\ lastPong = 0
    /\ flight = <<>>
    /\ alive = TRUE /\ died = 0
    /\ why = "nobody"
    /\ changes = 0 /\ steps = 0

\* The channel opens: on_open sends the Handshake and the pending messages.
Open ==
    /\ channel = "connecting"
    /\ channel' = "open"
    /\ loop' = "opening"
    /\ UNCHANGED <<now, skew, settings, interval, due, spawned, stamp, held, lastPong,
                   flight, alive, died, why, changes, steps>>

\* All is sent and the loop is spawned; its first tick is due at once.
Spawn ==
    /\ loop = "opening"
    /\ loop' = "running"
    /\ interval' = settings.ping
    /\ due' = now
    /\ spawned' = now
    /\ UNCHANGED <<now, skew, settings, channel, stamp, held, lastPong, flight, alive,
                   died, why, changes, steps>>

\* interval.tick() returns, at its time or later.
AtTick == loop = "running" /\ due <= now

\* A tick finds the channel no longer open.
TickEnds ==
    /\ AtTick
    /\ channel # "open"
    /\ loop' = "ended"
    /\ UNCHANGED <<now, skew, settings, channel, interval, due, spawned, stamp, held,
                   lastPong, flight, alive, died, why, changes, steps>>

\* Variant: the timeout is compared with the interval instead.
OverdueInterval == Wall >= lastPong /\ Wall - lastPong > interval

\* Variant: a factor between the units of the two.
OverdueScaled == Wall >= lastPong /\ Wall - lastPong > settings.pong * interval

\* ts - last_pong > pong_timeout_ms()
Overdue == Wall >= lastPong /\ Wall - lastPong > settings.pong

\* ts - last_pong is below zero: it panics in a build with overflow checks and
\* is a huge number in one without.
Underflow == Wall < lastPong

\* Variant: the loop gives up and leaves the channel open.
TickTimeoutLeaves ==
    /\ AtTick
    /\ channel = "open"
    /\ Overdue \/ Underflow
    /\ why' = "timeout"
    /\ loop' = "ended"
    /\ UNCHANGED <<now, skew, settings, channel, interval, due, spawned, stamp, held,
                   lastPong, flight, alive, died, changes, steps>>

\* The peer is overdue: the channel is closed and the loop ends.
TickTimeout ==
    /\ AtTick
    /\ channel = "open"
    /\ Overdue \/ Underflow
    /\ channel' = "closed"
    /\ why' = "timeout"
    /\ loop' = "ended"
    /\ UNCHANGED <<now, skew, settings, interval, due, spawned, stamp, held, lastPong,
                   flight, alive, died, changes, steps>>

\* The subtraction panics: the task is gone, the channel stays.
TickPanics ==
    /\ AtTick
    /\ channel = "open"
    /\ Underflow
    /\ loop' = "panicked"
    /\ UNCHANGED <<now, skew, settings, channel, interval, due, spawned, stamp, held,
                   lastPong, flight, alive, died, why, changes, steps>>

\* A Ping with the time is made, and waits to be sent.
TickPing ==
    /\ AtTick
    /\ channel = "open"
    /\ ~Overdue /\ ~Underflow
    /\ loop' = "sending"
    /\ stamp' = Wall
    /\ UNCHANGED <<now, skew, settings, channel, interval, due, spawned, held, lastPong,
                   flight, alive, died, why, changes, steps>>

\* send_chunked_binary returns, soon, late or never; one to a peer that vanished
\* goes nowhere, and with the channel closed it fails.
PingSent ==
    /\ loop = "sending"
    /\ loop' = "running"
    /\ flight' = IF alive /\ channel = "open"
                 THEN Append(flight, [ts |-> stamp, due |-> due, sent |-> now]) ELSE flight
    /\ due' = due + interval
    /\ UNCHANGED <<now, skew, settings, channel, interval, spawned, stamp, held, lastPong,
                   alive, died, why, changes, steps>>

\* The Pong for the oldest ping arrives: last_pong.store(timestamp_ms).
Pong ==
    /\ flight # <<>>
    /\ channel = "open"
    /\ lastPong' = Head(flight).ts
    /\ flight' = Tail(flight)
    /\ UNCHANGED <<now, skew, settings, channel, task, held, alive, died, why, changes,
                   steps>>

\* The peer vanishes without closing; what it had to say is lost.
PeerDies ==
    /\ alive
    /\ alive' = FALSE
    /\ died' = now
    /\ flight' = <<>>
    /\ UNCHANGED <<now, skew, settings, channel, task, held, lastPong, why, changes,
                   steps>>

\* The channel is closed by the peer, or by another task of this node.
Close ==
    /\ channel = "open"
    /\ channel' = "closed"
    /\ why' = "peer"
    /\ UNCHANGED <<now, skew, settings, task, held, lastPong, flight, alive, died, changes,
                   steps>>

\* limits::set_timeouts
SetTimeouts(ping, pong) ==
    /\ changes < MaxChanges
    /\ changes' = changes + 1
    /\ settings' = Sanitised(ping, pong)
    /\ UNCHANGED <<now, skew, channel, task, held, lastPong, flight, alive, died, why,
                   steps>>

\* The wall clock is set forward or back.
SetClock ==
    /\ steps < MaxSteps
    /\ steps' = steps + 1
    /\ skew' \in {skew - Step, skew + Step}
    /\ UNCHANGED <<now, settings, channel, task, held, lastPong, flight, alive, died, why,
                   changes>>

\* Time passes, but not beyond what a responsive peer needs for its answer.  It is
\* followed, up to MaxTime, as long as the channel is not closed.
Advance ==
    /\ now < MaxTime
    /\ channel # "closed"
    /\ flight # <<>> => now < Head(flight).sent + Rtt
    /\ now' = now + 1
    /\ held' = (held \/ (loop \in {"running", "sending"} /\ now + 1 > due + Delay))
    /\ UNCHANGED <<skew, settings, channel, task, lastPong, flight, alive, died, why,
                   changes, steps>>

Next ==
    \/ Open \/ Spawn \/ Close
    \/ TickEnds \/ TickTimeout \/ TickPanics \/ TickPing \/ PingSent
    \/ Pong \/ PeerDies
    \/ \E ping \in PingRequests, pong \in PongRequests : SetTimeouts(ping, pong)
    \/ SetClock
    \/ Advance

Spec == Init /\ [][Next]_vars

-----------------------------------------------------------------------------
\* A ping in flight.
Pings == [ts : Int, due : Nat, sent : Nat]

\* The types of the state; the timeout in force always leaves room for three of
\* the pings of a session that starts now.
TypeOK ==
    /\ now \in 0..MaxTime
    /\ skew \in Int
    /\ settings \in [ping : 1..MaxInterval, pong : 0..MaxTimeout]
    /\ settings.pong >= 3 * settings.ping
    /\ channel \in {"connecting", "open", "closed"}
    /\ loop \in {"off", "opening", "running", "sending", "ended", "panicked"}
    /\ interval \in 1..MaxInterval
    /\ due \in Nat /\ spawned \in 0..MaxTime /\ stamp \in Int
    /\ held \in BOOLEAN
    /\ lastPong \in Int
    /\ flight \in Seq(Pings)
    /\ alive \in BOOLEAN /\ died \in 0..MaxTime
    /\ why \in {"nobody", "timeout", "peer"}
    /\ changes \in 0..MaxChanges /\ steps \in 0..MaxSteps

\* A session whose peer answers, whose clock was not set, and whose ticks and
\* pings were never more than Delay behind.
Healthy == alive /\ steps = 0 /\ ~held

\* The timeout in force allows for one interval of the loop, the delay of a ping
\* and its answer, and for the time it took from the session's creation until
\* the first Pong can come.  The code's three intervals leave two of them for
\* delay and answer, unless set_timeouts is called when the loop has started, or
\* the channel took that long to open.
FittingTimeout ==
    /\ interval + Delay + Rtt <= settings.pong
    /\ spawned + Delay + Rtt <= settings.pong

\* The keepalive closes no session of a healthy peer, wherever pings, pongs and
\* ticks fall, however the ticks bunch, and whatever timeouts the application
\* asks for, as long as the timeout in force fits.  A ping held up behind other
\* messages for longer than that may well cost a healthy peer its session.
NoFalseTimeout ==
    [][why' = "timeout" /\ why # "timeout" => ~(Healthy /\ FittingTimeout)]_vars

\* A peer that vanished is noticed: unless a send holds up the loop, its next
\* look at the time is due within the pong timeout and one interval of the
\* peer's end (or is the loop's first), so that the first one after that closes
\* the channel.  Setting the clock back defeats it (the difference shrinks, or
\* the loop panics), and so does raising the timeout.
DeadPeerNoticed ==
    (~alive /\ channel = "open" /\ loop = "running" /\ steps = 0 /\ changes = 0)
        => due = spawned \/ due <= died + settings.pong + interval

\* A channel is never left open with nobody to watch it: on_open is still at work
\* and will start the loop, or the loop waits for a tick or for its ping to be
\* sent, unless the wall clock was set back and the build checks for overflow.
LoopWatches == (channel = "open" /\ loop \in {"off", "ended", "panicked"}) => steps > 0
=============================================================================

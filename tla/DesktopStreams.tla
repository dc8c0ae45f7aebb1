---------------------------- MODULE DesktopStreams ----------------------------
(***************************************************************************)
(* The streams of a node that shares its desktop (client-core/src/rtc/     *)
(* mod.rs).                                                                *)
(*                                                                         *)
(* Each session has one task that handles the peer's messages in order,    *)
(* from a queue without a bound.  A request to start a stream enters it in *)
(* ACTIVE_HOST_STREAMS under the key (connection, resource) and starts a   *)
(* capture loop, or updates the parameters of the entry that is there; a   *)
(* request to stop it removes the entry and stops the loop.  When the      *)
(* session's client is dropped, a task is spawned that stops all streams   *)
(* of the connection; the peer connection is closed by whoever dropped the *)
(* client, before or after.  All this happens under the lock of the map,   *)
(* so a request and the clean-up are one step each.                        *)
(*                                                                         *)
(* The capture loop runs beside: it takes a frame, makes or adjusts the    *)
(* encoder, and writes the result to the track.                            *)
(***************************************************************************)
EXTENDS Integers, Sequences, FiniteSets

CONSTANTS Connections,  \* connection ids
          Shareable,    \* the node's resources
          Shared,       \* those that are active remote desktops
          Params,       \* size and bitrate a viewer may ask for, abstracted
          NoEncoder,    \* not one of them
          MaxRequests   \* bound on the requests of a viewer

ASSUME DesktopStreamsAssumption ==
    /\ IsFiniteSet(Connections) /\ IsFiniteSet(Shareable)
    /\ Shared \subseteq Shareable
    /\ Params # {} /\ NoEncoder \notin Params
    /\ MaxRequests \in Nat

VARIABLES
    queue,    \* requests received on a connection and not handled yet
    asked,    \* how many there were
    held,     \* connections whose client the manager holds
    cleaned,  \* connections whose clean-up task has run
    closed,   \* connections whose peer connection is closed
    streams,  \* keys of ACTIVE_HOST_STREAMS
    wanted,   \* per key: ACTIVE_HOST_ORIGINAL_SIZE and ACTIVE_HOST_BITRATES
    capture,  \* keys for which the platform captures the screen
    loops,    \* keys whose capture loop is running
    encoder,  \* per key: what its encoder is set to
    late      \* keys entered between the clean-up and the close of their connection

streamsVars == <<queue, asked, held, cleaned, closed, streams, wanted, capture, loops,
                encoder, late>>
entryVars == <<streams, wanted, capture, loops, encoder>>

Keys == Connections \X Shareable
KeysOf(c) == {k \in Keys : k[1] = c}
Requests == [start : BOOLEAN, resource : Shareable, params : Params]

\* Sessions that have just been authenticated.
StreamsInit ==
    /\ queue = [c \in Connections |-> <<>>]
    /\ asked = [c \in Connections |-> 0]
    /\ held = Connections
    /\ cleaned = {} /\ closed = {}
    /\ streams = {} /\ capture = {} /\ loops = {} /\ late = {}
    /\ wanted = [k \in Keys |-> NoEncoder]
    /\ encoder = [k \in Keys |-> NoEncoder]

\* A RemoteDesktopRequest arrives, as long as the connection is there.
Receive(c, q) ==
    /\ c \notin closed
    /\ asked[c] < MaxRequests
    /\ asked' = [asked EXCEPT ![c] = @ + 1]
    /\ queue' = [queue EXCEPT ![c] = Append(@, q)]
    /\ UNCHANGED <<held, cleaned, closed, entryVars, late>>

\* The request the message task of c handles next, taken from the queue.
Handling(c, start) ==
    /\ queue[c] # <<>>
    /\ Head(queue[c]).start = start
    /\ queue' = [queue EXCEPT ![c] = Tail(@)]

Key(c) == <<c, Head(queue[c]).resource>>
Approved(c) == Head(queue[c]).resource \in Shared

\* The resource is not shared: the viewer is told, nothing else happens.
Deny(c) ==
    /\ \E start \in BOOLEAN : Handling(c, start)
    /\ ~Approved(c)
    /\ UNCHANGED <<asked, held, cleaned, closed, entryVars, late>>

\* A start for a key that is there: only the parameters change.
Update(c) ==
    /\ Handling(c, TRUE)
    /\ Approved(c)
    /\ Key(c) \in streams
    /\ wanted' = [wanted EXCEPT ![Key(c)] = Head(queue[c]).params]
    /\ UNCHANGED <<asked, held, cleaned, closed, streams, capture, loops, encoder,
                   late>>

\* Variant: add_track is not asked whether it worked.
AddTrackAlways(c) == TRUE

\* add_track works unless the peer connection is closed.
AddTrack(c) == c \notin closed

\* A start for a new key: the loop is spawned, then the entry is made.
Start(c) ==
    /\ Handling(c, TRUE)
    /\ Approved(c)
    /\ Key(c) \notin streams
    /\ AddTrack(c)
    /\ streams' = streams \cup {Key(c)}
    /\ wanted' = [wanted EXCEPT ![Key(c)] = Head(queue[c]).params]
    /\ capture' = capture \cup {Key(c)}
    /\ loops' = loops \cup {Key(c)}
    /\ late' = IF c \in cleaned \ closed THEN late \cup {Key(c)} ELSE late
    /\ UNCHANGED <<asked, held, cleaned, closed, encoder>>

\* add_track fails.
StartFails(c) ==
    /\ Handling(c, TRUE)
    /\ Approved(c)
    /\ Key(c) \notin streams
    /\ ~AddTrack(c)
    /\ UNCHANGED <<asked, held, cleaned, closed, entryVars, late>>

\* The entries are removed, the stop flags set and the loops aborted.
StopAll(ks) ==
    /\ streams' = streams \ ks
    /\ wanted' = [k \in Keys |-> IF k \in ks THEN NoEncoder ELSE wanted[k]]
    /\ capture' = capture \ ks
    /\ loops' = loops \ ks
    /\ encoder' = [k \in Keys |-> IF k \in ks THEN NoEncoder ELSE encoder[k]]

\* A request to stop, whether there is an entry or not.
Stop(c) ==
    /\ Handling(c, FALSE)
    /\ Approved(c)
    /\ StopAll({Key(c)} \cap streams)
    /\ late' = late \ {Key(c)}
    /\ UNCHANGED <<asked, held, cleaned, closed>>

\* The manager drops the client; Drop spawns the clean-up.
DropClient(c) ==
    /\ c \in held
    /\ held' = held \ {c}
    /\ UNCHANGED <<queue, asked, cleaned, closed, entryVars, late>>

\* Variant: the clean-up stops one stream.
CleanUpOne(c) ==
    /\ c \notin held /\ c \notin cleaned
    /\ cleaned' = cleaned \cup {c}
    /\ IF streams \cap KeysOf(c) = {} THEN UNCHANGED entryVars
       ELSE \E k \in streams \cap KeysOf(c) : StopAll({k})
    /\ UNCHANGED <<queue, asked, held, closed, late>>

\* The clean-up stops every stream of the connection.
CleanUp(c) ==
    /\ c \notin held /\ c \notin cleaned
    /\ cleaned' = cleaned \cup {c}
    /\ StopAll(streams \cap KeysOf(c))
    /\ UNCHANGED <<queue, asked, held, closed, late>>

\* pc.close() by the task that dropped the client.
ClosePc(c) ==
    /\ c \notin held /\ c \notin closed
    /\ closed' = closed \cup {c}
    /\ UNCHANGED <<queue, asked, held, cleaned, entryVars, late>>

\* A frame: the encoder is made if there is none, or set to what is wanted now.
\* If that fails nothing changes and the next frame tries again.
Encode(k) ==
    /\ k \in loops
    /\ encoder' = [encoder EXCEPT ![k] = wanted[k]]
    /\ UNCHANGED <<queue, asked, held, cleaned, closed, streams, wanted, capture,
                   loops, late>>

\* write_sample fails: the loop ends by itself, entry and stop flag stay.
LoopEnds(k) ==
    /\ k \in loops
    /\ encoder[k] # NoEncoder
    /\ loops' = loops \ {k}
    /\ UNCHANGED <<queue, asked, held, cleaned, closed, streams, wanted, capture,
                   encoder, late>>

HandleRequest(c) == Deny(c) \/ Update(c) \/ Start(c) \/ StartFails(c) \/ Stop(c)

StreamsNext ==
    \/ \E c \in Connections, q \in Requests : Receive(c, q)
    \/ \E c \in Connections : HandleRequest(c)
    \/ \E c \in Connections : DropClient(c)
    \/ \E c \in Connections : CleanUp(c)
    \/ \E c \in Connections : ClosePc(c)
    \/ \E k \in Keys : Encode(k)
    \/ \E k \in Keys : LoopEnds(k)

StreamsSpec == StreamsInit /\ [][StreamsNext]_streamsVars

\* Spawned tasks run, frames come, and an encoder can be made in the end.
StreamsFairness ==
    /\ \A c \in Connections :
          /\ WF_streamsVars(HandleRequest(c))
          /\ WF_streamsVars(CleanUp(c)) /\ WF_streamsVars(ClosePc(c))
    /\ \A k \in Keys : WF_streamsVars(Encode(k))

FairStreamsSpec == StreamsSpec /\ StreamsFairness

-----------------------------------------------------------------------------
\* The types of the state; parameters are kept for the entries and no others.
StreamsTypeOK ==
    /\ queue \in [Connections -> Seq(Requests)]
    /\ asked \in [Connections -> 0..MaxRequests]
    /\ held \subseteq Connections
    /\ cleaned \subseteq Connections \ held /\ closed \subseteq Connections \ held
    /\ streams \subseteq Keys /\ late \subseteq streams
    /\ wanted \in [Keys -> Params \cup {NoEncoder}]
    /\ streams = {k \in Keys : wanted[k] # NoEncoder}
    /\ encoder \in [Keys -> Params \cup {NoEncoder}]

\* The session is over: its client is dropped and cleaned up after, its peer
\* connection closed, and every request handled.
Over(c) == c \in cleaned /\ c \in closed /\ queue[c] = <<>>

\* What is shared in a session: its entries, its capture loops, and what the
\* platform captures of the screen for it.
Running(c) == (streams \cup loops \cup capture) \cap KeysOf(c)

\* Nothing is shared with a session that is over, except by a start that was
\* still in the queue when the clean-up ran and was handled before the close.
NothingLeftRunning == \A c \in Connections : Over(c) => Running(c) \subseteq late

\* A dropped session's streams are stopped, whatever its peer asked for before,
\* unless one was started late.
StoppedAfterDrop ==
    \A c \in Connections :
        c \notin held ~> (Over(c) /\ Running(c) \subseteq late)
=============================================================================

--------------------------- MODULE ChunkedChannel ---------------------------
(***************************************************************************)
(* One direction of a data channel: several tasks of a node (the outbound  *)
(* pipe, the on_open callback, the ping loop, the receive task answering   *)
(* directly) send messages with send_chunked_binary, which holds           *)
(* dc_write_lock for a whole message; the peer's receive task feeds every  *)
(* frame to its ChunkAssembler.  The channel is ordered and reliable until *)
(* it closes, and then every dc.send fails.                                *)
(*                                                                         *)
(* Both nodes declare the same max_chunk_size, which is also the size used *)
(* before the handshake, so one value serves both ends.                    *)
(***************************************************************************)
EXTENDS Chunking, FiniteSets

CONSTANTS Writers,    \* the sending tasks
          Sizes,      \* values of peer_max_chunk_size to be checked
          Lengths,    \* lengths of the messages to be checked
          MaxMsgs,    \* bound on the number of messages
          Free        \* nobody holds the lock

ASSUME ChannelAssumption ==
    /\ Sizes \subseteq 1..(Word - 1)
    /\ Lengths \subseteq Nat
    /\ MaxMsgs \in Nat
    /\ Free \notin Writers

VARIABLES max,        \* peer_max_chunk_size, the same at both ends
          open,       \* the channel is open
          lock,       \* holder of dc_write_lock
          todo,       \* per writer: frames of its message still to be sent
          wire,       \* frames sent and not yet received
          buf,        \* the receiver's ChunkAssembler
          delivered,  \* messages handed to handle_incoming_p2p_message
          started,    \* messages whose sender got the lock: how many
          expected    \* history: those that are not empty, in that order

vars == <<max, open, lock, todo, wire, buf, delivered, started, expected>>

\* The n-th message: its bytes are told apart by message and position.
Message(n, length) == [i \in 1..length |-> <<n, i>>]

Init ==
    /\ max \in Sizes
    /\ open = TRUE
    /\ lock = Free
    /\ todo = [w \in Writers |-> <<>>]
    /\ wire = <<>>
    /\ buf = <<>>
    /\ delivered = <<>>
    /\ started = 0
    /\ expected = <<>>

\* Variant: the message is cut and sent without waiting for the lock.
AcquireUnlocked(w, length) ==
    /\ started < MaxMsgs
    /\ todo[w] = <<>>
    /\ lock' = w
    /\ started' = started + 1
    /\ LET data == Message(started + 1, length)
       IN  /\ todo' = [todo EXCEPT ![w] = FrameChunks(data, max)]
           /\ expected' = IF length = 0 THEN expected ELSE Append(expected, data)
    /\ UNCHANGED <<max, open, wire, buf, delivered>>

\* send_chunked_binary: take the write lock and cut the message.
Acquire(w, length) ==
    /\ started < MaxMsgs
    /\ lock = Free
    /\ todo[w] = <<>>
    /\ lock' = w
    /\ started' = started + 1
    /\ LET data == Message(started + 1, length)
       IN  /\ todo' = [todo EXCEPT ![w] = FrameChunks(data, max)]
           /\ expected' = IF length = 0 THEN expected ELSE Append(expected, data)
    /\ UNCHANGED <<max, open, wire, buf, delivered>>

\* dc.send succeeds; after the last frame the guard is dropped.
SendFrame(w) ==
    /\ todo[w] # <<>>
    /\ open
    /\ wire' = Append(wire, Head(todo[w]))
    /\ todo' = [todo EXCEPT ![w] = Tail(@)]
    /\ lock' = IF Len(todo[w]) = 1 THEN Free ELSE lock
    /\ UNCHANGED <<max, open, buf, delivered, started, expected>>

\* dc.send fails: the rest of the message is given up.
SendFails(w) ==
    /\ todo[w] # <<>>
    /\ ~open
    /\ todo' = [todo EXCEPT ![w] = <<>>]
    /\ lock' = Free
    /\ UNCHANGED <<max, open, wire, buf, delivered, started, expected>>

\* The receive task takes a frame and pushes it to the assembler.
ReceiveFrame ==
    /\ wire # <<>>
    /\ wire' = Tail(wire)
    /\ LET r == Push(buf, Head(wire), max)
       IN  /\ buf' = r.buf
           /\ delivered' = IF r.done THEN Append(delivered, r.msg) ELSE delivered
    /\ UNCHANGED <<max, open, lock, todo, started, expected>>

Close ==
    /\ open
    /\ open' = FALSE
    /\ UNCHANGED <<max, lock, todo, wire, buf, delivered, started, expected>>

Next ==
    \/ \E w \in Writers, length \in Lengths : Acquire(w, length)
    \/ \E w \in Writers : SendFrame(w) \/ SendFails(w)
    \/ ReceiveFrame
    \/ Close

\* Tasks that can go on do so, and received frames are processed.
Spec == Init /\ [][Next]_vars
FairSpec == /\ Spec
            /\ \A w \in Writers : WF_vars(SendFrame(w) \/ SendFails(w))
            /\ WF_vars(ReceiveFrame)

-----------------------------------------------------------------------------
\* The types of the state; a task has frames to send exactly while it holds
\* dc_write_lock, and every frame's length fits the two-byte header.
TypeOK ==
    /\ max \in Sizes
    /\ open \in BOOLEAN
    /\ lock \in Writers \cup {Free}
    /\ \A w \in Writers : todo[w] # <<>> <=> lock = w
    /\ \A w \in Writers : \A i \in DOMAIN todo[w] : todo[w][i].len < Word
    /\ \A i \in DOMAIN wire : wire[i].len < Word
    /\ started <= MaxMsgs

\* What the receive task hands on is a prefix of the messages in lock order (but
\* for empty ones, which are one terminator that the assembler ignores),
\* byte for byte: concurrent senders never splice their frames, whatever the
\* message lengths (below, at and above multiples of the chunk size).
DeliveredInOrder == IsPrefix(delivered, expected)

\* When nothing is being sent on an open channel every message has arrived and
\* the assembler is empty, so the next message starts on a clean buffer.
NothingLeftOver ==
    (open /\ wire = <<>> /\ \A w \in Writers : todo[w] = <<>>)
        => delivered = expected /\ buf = <<>>

\* Every message that got the lock is delivered, unless the channel closes.
EventuallyDelivered ==
    \A n \in 1..MaxMsgs :
        Len(expected) >= n ~> (Len(delivered) >= n \/ ~open)
=============================================================================

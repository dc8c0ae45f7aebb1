------------------------------ MODULE Chunking ------------------------------
(***************************************************************************)
(* The framing of client-core/src/rtc/chunking.rs: a message is cut into   *)
(* frames of at most max payload bytes, each with a 16-bit length, and the *)
(* receiver decides from the length alone where the message ends.          *)
(* A frame is [len |-> the two length bytes, payload |-> the rest].        *)
(***************************************************************************)
EXTENDS Naturals, Sequences, SequencesExt

CONSTANTS Word,      \* 2^16: the length field wraps at this value
          Default    \* DEFAULT_MAX_CHUNK_PAYLOAD

ASSUME ChunkingAssumption == Word \in Nat \ {0} /\ Default \in 1..(Word - 1)

AtLeastOne(n) == IF n = 0 THEN 1 ELSE n

\* The i-th chunk of data, and its frame: the length is cast to u16.
ChunkAt(data, max, i) ==
    LET last == IF i * max < Len(data) THEN i * max ELSE Len(data)
    IN  SubSeq(data, (i - 1) * max + 1, last)

Frame(chunk) == [len |-> Len(chunk) % Word, payload |-> chunk]

Terminator == [len |-> 0, payload |-> <<>>]

\* Variant: no terminator after a message of full chunks.
FrameChunksOpen(data, maxPayload) ==
    LET max    == AtLeastOne(maxPayload)
        count  == (Len(data) + max - 1) \div max
    IN  [i \in 1..count |-> Frame(ChunkAt(data, max, i))]

\* frame_chunks: full chunks, a short last one if there is a remainder, and a
\* terminator if there is none (so also for empty data).
FrameChunks(data, maxPayload) ==
    LET max    == AtLeastOne(maxPayload)
        count  == (Len(data) + max - 1) \div max
        chunks == [i \in 1..count |-> Frame(ChunkAt(data, max, i))]
    IN  IF Len(data) % max = 0 THEN Append(chunks, Terminator) ELSE chunks

\* ChunkAssembler::push: the new buffer, and the completed message if any.
\* Frames shorter than the length field do not occur on this channel.
Push(buf, frame, maxPayload) ==
    LET max  == IF maxPayload = 0 THEN Default ELSE maxPayload
        data == buf \o SubSeq(frame.payload, 1, frame.len)
    IN  IF frame.len = 0 THEN [buf |-> <<>>, done |-> buf # <<>>, msg |-> buf]
        ELSE IF frame.len > Len(frame.payload)
             THEN [buf |-> <<>>, done |-> FALSE, msg |-> <<>>]
        ELSE IF frame.len < max
             THEN [buf |-> <<>>, done |-> TRUE, msg |-> data]
        ELSE [buf |-> data, done |-> FALSE, msg |-> <<>>]
=============================================================================

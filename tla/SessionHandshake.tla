-------------------------- MODULE SessionHandshake --------------------------
(***************************************************************************)
(* The start of a WebRTC session between two nodes: the on_open callbacks, *)
(* the outbound pipe and the receive task of client-core/src/rtc, and the  *)
(* Handshake branch of NodeContext::process_message (p2p-node).            *)
(*                                                                         *)
(* Each node sends a signed Handshake when its data channel opens.  A node *)
(* that receives one creates a session token for each resource it shares   *)
(* and returns the tokens in a HandshakeResponse; commands to a resource   *)
(* carry a MAC under its token.  HandshakeResponses travel two ways: most  *)
(* through the outbound pipe (a queue with a task), the first answer to a  *)
(* HandshakeResponse straight to the channel.                              *)
(*                                                                         *)
(* Each node shares one resource, named by the node itself, and numbers    *)
(* its tokens in the order it generates them.  A closed session is given   *)
(* up and never reopened: of what its tasks still do only the clearing of  *)
(* the keys is modelled.  Chunking is the subject of ChunkedChannel.       *)
(***************************************************************************)
EXTENDS Naturals, Sequences, SequencesExt

CONSTANTS Peers,      \* the two nodes of the session
          None,       \* no message
          AppKinds,   \* kinds of messages the applications send
          MaxSends    \* bound on application messages per node

ASSUME SessionAssumption ==
    /\ \E a, b \in Peers : a # b /\ Peers = {a, b}
    /\ AppKinds \subseteq {"unsigned", "text", "goodbye"}
    /\ MaxSends \in Nat

VARIABLES
    ready,     \* per node: the channel is Open for sending and receiving
    opening,   \* per node: progress of the on_open callback
    drained,   \* per node: pending messages taken by on_open, being sent
    auth,      \* per node: is_authenticated
    key,       \* per node: session_keys, resource -> token (0: none)
    pipe,      \* per node: outgoing_tx
    parking,   \* per node: message the pipe task is about to add to pending
    pending,   \* per node: pending_messages
    wire,      \* per node: messages on the way to it
    rx,        \* per node: where its receive task is
    tokens,    \* per node: number of tokens it has generated
    sends,     \* per node: application messages queued so far
    closed     \* the channel was closed

vars == <<ready, opening, drained, auth, key, pipe, parking, pending, wire, rx,
          tokens, sends, closed>>

Other(n) == CHOOSE m \in Peers : m # n

\* Messages: Handshake, HandshakeResponse with a token, a command to the
\* receiver's resource (unsigned in the pipe, MACed on the wire), and messages
\* without a resource: a text and Goodbye.
Msg(kind, tok) == [kind |-> kind, tok |-> tok]
Msgs == [kind : {"handshake", "response", "command", "unsigned", "text", "goodbye"},
         tok : Nat]

Init ==
    /\ ready = [n \in Peers |-> FALSE]
    /\ opening = [n \in Peers |-> "waiting"]
    /\ drained = [n \in Peers |-> <<>>]
    /\ auth = [n \in Peers |-> FALSE]
    /\ key = [n \in Peers |-> [r \in Peers |-> 0]]
    /\ pipe = [n \in Peers |-> <<>>]
    /\ parking = [n \in Peers |-> None]
    /\ pending = [n \in Peers |-> <<>>]
    /\ wire = [n \in Peers |-> <<>>]
    /\ rx = [n \in Peers |-> "idle"]
    /\ tokens = [n \in Peers |-> 0]
    /\ sends = [n \in Peers |-> 0]
    /\ closed = FALSE

\* dc.send to the peer.
Transmit(n, m) == wire' = [wire EXCEPT ![Other(n)] = Append(@, m)]

-----------------------------------------------------------------------------
(* Opening the channel.                                                    *)

\* The ready state becomes Open; on_open runs some time later.
OpenChannel(n) ==
    /\ ~ready[n] /\ opening[n] = "waiting" /\ ~closed
    /\ ready' = [ready EXCEPT ![n] = TRUE]
    /\ opening' = [opening EXCEPT ![n] = "open"]
    /\ UNCHANGED <<drained, auth, key, pipe, parking, pending, wire, rx, tokens,
                   sends, closed>>

\* on_open sends the signed Handshake straight to the channel.
Greet(n) ==
    /\ opening[n] = "open"
    /\ Transmit(n, Msg("handshake", 0))
    /\ opening' = [opening EXCEPT ![n] = "greeted"]
    /\ UNCHANGED <<ready, drained, auth, key, pipe, parking, pending, rx, tokens,
                   sends, closed>>

\* on_open takes everything that is pending at this moment.
Drain(n) ==
    /\ opening[n] = "greeted"
    /\ drained' = [drained EXCEPT ![n] = pending[n]]
    /\ pending' = [pending EXCEPT ![n] = <<>>]
    /\ opening' = [opening EXCEPT ![n] = "drained"]
    /\ UNCHANGED <<ready, auth, key, pipe, parking, wire, rx, tokens, sends, closed>>

SendDrained(n) ==
    /\ drained[n] # <<>>
    /\ drained' = [drained EXCEPT ![n] = Tail(@)]
    /\ Transmit(n, Head(drained[n]))
    /\ UNCHANGED <<ready, opening, auth, key, pipe, parking, pending, rx, tokens,
                   sends, closed>>

-----------------------------------------------------------------------------
(* The outbound pipe.                                                      *)

\* send_p2p_message: the application queues a message.
AppSend(n, kind) ==
    /\ sends[n] < MaxSends /\ ~closed
    /\ sends' = [sends EXCEPT ![n] = @ + 1]
    /\ pipe' = [pipe EXCEPT ![n] = Append(@, Msg(kind, 0))]
    /\ UNCHANGED <<ready, opening, drained, auth, key, parking, pending, wire, rx,
                   tokens, closed>>

\* The pipe task can sign an unsigned command once the node is authenticated
\* and has a token for the peer's resource; other messages need no MAC.
Signable(n) ==
    /\ pipe[n] # <<>>
    /\ parking[n] = None
    /\ Head(pipe[n]).kind = "unsigned" => auth[n] /\ key[n][Other(n)] # 0

Signed(n) ==
    IF Head(pipe[n]).kind = "unsigned"
    THEN Msg("command", key[n][Other(n)])
    ELSE Head(pipe[n])

\* The channel is Open: the message is sent.
PipeSend(n) ==
    /\ Signable(n)
    /\ ready[n]
    /\ Transmit(n, Signed(n))
    /\ pipe' = [pipe EXCEPT ![n] = Tail(@)]
    /\ UNCHANGED <<ready, opening, drained, auth, key, parking, pending, rx, tokens,
                   sends, closed>>

\* The channel was found not Open: the message will be added to pending.
PipeStage(n) ==
    /\ Signable(n)
    /\ ~ready[n]
    /\ parking' = [parking EXCEPT ![n] = Signed(n)]
    /\ pipe' = [pipe EXCEPT ![n] = Tail(@)]
    /\ UNCHANGED <<ready, opening, drained, auth, key, pending, wire, rx, tokens,
                   sends, closed>>

PipePark(n) ==
    /\ parking[n] # None
    /\ pending' = [pending EXCEPT ![n] = Append(@, parking[n])]
    /\ parking' = [parking EXCEPT ![n] = None]
    /\ UNCHANGED <<ready, opening, drained, auth, key, pipe, wire, rx, tokens,
                   sends, closed>>

\* Variant: the pipe polls for the token for ever.
PipeWaits(n) == FALSE /\ UNCHANGED vars

\* No token after 100 polls of 50 ms: the command is dropped.
PipeTimeout(n) ==
    /\ pipe[n] # <<>>
    /\ parking[n] = None
    /\ ~Signable(n)
    /\ pipe' = [pipe EXCEPT ![n] = Tail(@)]
    /\ UNCHANGED <<ready, opening, drained, auth, key, parking, pending, wire, rx,
                   tokens, sends, closed>>

-----------------------------------------------------------------------------
(* The receive task.  It handles one message at a time, in several steps.  *)

Incoming(n, kind) ==
    /\ rx[n] = "idle"
    /\ wire[n] # <<>>
    /\ opening[n] # "waiting"
    /\ Head(wire[n]).kind = kind

Consume(n) == wire' = [wire EXCEPT ![n] = Tail(@)]

Goto(n, step) == rx' = [rx EXCEPT ![n] = step]

\* The node generates a new token for its own resource.
NewToken(n) ==
    /\ tokens' = [tokens EXCEPT ![n] = @ + 1]
    /\ key' = [key EXCEPT ![n][n] = tokens[n] + 1]

\* Variant: the token is stored but the one before it is returned.
IssueOldToken(n) ==
    /\ NewToken(n)
    /\ pipe' = [pipe EXCEPT ![n] = Append(@, Msg("response", tokens[n]))]

\* Variant: the response jumps the queue.
IssueTokenFirst(n) ==
    /\ NewToken(n)
    /\ pipe' = [pipe EXCEPT ![n] = <<Msg("response", tokens[n] + 1)>> \o @]

\* process_message(Handshake): a new token, returned through the pipe.
IssueToken(n) ==
    /\ NewToken(n)
    /\ pipe' = [pipe EXCEPT ![n] = Append(@, Msg("response", tokens[n] + 1))]

\* A Handshake is first given to process_message, then to handle_core_message.
RxHandshake(n) ==
    /\ Incoming(n, "handshake")
    /\ Consume(n)
    /\ IssueToken(n)
    /\ Goto(n, "verify")
    /\ UNCHANGED <<ready, opening, drained, auth, parking, pending, sends, closed>>

\* Timestamp, public key and signature are good.
RxVerified(n) ==
    /\ rx[n] = "verify"
    /\ auth' = [auth EXCEPT ![n] = TRUE]
    /\ Goto(n, "reissue")
    /\ UNCHANGED <<ready, opening, drained, key, pipe, parking, pending, wire,
                   tokens, sends, closed>>

\* handle_core_message gives the verified Handshake to process_message again.
RxReissue(n) ==
    /\ rx[n] = "reissue"
    /\ IssueToken(n)
    /\ Goto(n, "idle")
    /\ UNCHANGED <<ready, opening, drained, auth, parking, pending, wire, sends,
                   closed>>

\* The timestamp is old, the key unknown after ten polls, or the signature bad.
RxRefused(n) ==
    /\ rx[n] = "verify"
    /\ Goto(n, "idle")
    /\ closed' = TRUE
    /\ ready' = [m \in Peers |-> FALSE]
    /\ UNCHANGED <<opening, drained, auth, key, pipe, parking, pending, wire,
                   tokens, sends>>

\* Variant: every HandshakeResponse is replied to.
RxResponseReplies(n) ==
    /\ Incoming(n, "response")
    /\ Consume(n)
    /\ key' = [key EXCEPT ![n][Other(n)] = Head(wire[n]).tok]
    /\ auth' = [auth EXCEPT ![n] = TRUE]
    /\ Goto(n, "reply")
    /\ UNCHANGED <<ready, opening, drained, pipe, parking, pending, tokens, sends,
                   closed>>

\* A HandshakeResponse: store the peer's token and become authenticated.
RxResponse(n) ==
    /\ Incoming(n, "response")
    /\ Consume(n)
    /\ key' = [key EXCEPT ![n][Other(n)] = Head(wire[n]).tok]
    /\ auth' = [auth EXCEPT ![n] = TRUE]
    /\ Goto(n, IF auth[n] THEN "idle" ELSE "reply")
    /\ UNCHANGED <<ready, opening, drained, pipe, parking, pending, tokens, sends,
                   closed>>

\* It was the first sign of the peer: new tokens go straight to the channel.
RxReply(n) ==
    /\ rx[n] = "reply"
    /\ NewToken(n)
    /\ Transmit(n, Msg("response", tokens[n] + 1))
    /\ Goto(n, "idle")
    /\ UNCHANGED <<ready, opening, drained, auth, pipe, parking, pending, sends,
                   closed>>

\* A command is carried out if its MAC is under the current token of this
\* node's resource and the node is authenticated, and refused otherwise; a text
\* is passed on if the node is authenticated.  Neither touches the session.
RxMessage(n) ==
    /\ Incoming(n, "command") \/ Incoming(n, "text")
    /\ Consume(n)
    /\ UNCHANGED <<ready, opening, drained, auth, key, pipe, parking, pending, rx,
                   tokens, sends, closed>>

\* Goodbye from an authenticated peer: shutdown clears the keys, then the
\* channel is closed.  Before authentication it is dropped after a wait.
RxGoodbye(n) ==
    /\ Incoming(n, "goodbye")
    /\ Consume(n)
    /\ IF auth[n]
       THEN /\ key' = [key EXCEPT ![n] = [r \in Peers |-> 0]]
            /\ closed' = TRUE
            /\ ready' = [m \in Peers |-> FALSE]
       ELSE UNCHANGED <<key, closed, ready>>
    /\ UNCHANGED <<opening, drained, auth, pipe, parking, pending, rx, tokens, sends>>

\* on_close: NodeContext::shutdown.
OnClose(n) ==
    /\ closed
    /\ key[n] # [r \in Peers |-> 0]
    /\ key' = [key EXCEPT ![n] = [r \in Peers |-> 0]]
    /\ UNCHANGED <<ready, opening, drained, auth, pipe, parking, pending, wire, rx,
                   tokens, sends, closed>>

OnOpenTask(n) == ~closed /\ (Greet(n) \/ Drain(n) \/ SendDrained(n))
PipeTask(n) ==
    ~closed /\ (PipeSend(n) \/ PipeStage(n) \/ PipePark(n) \/ PipeTimeout(n))
RxTask(n) ==
    /\ ~closed
    /\ \/ RxHandshake(n) \/ RxVerified(n) \/ RxReissue(n) \/ RxRefused(n)
       \/ RxResponse(n) \/ RxReply(n) \/ RxMessage(n) \/ RxGoodbye(n)

Next ==
    \E n \in Peers :
        \/ OpenChannel(n)
        \/ \E kind \in AppKinds : AppSend(n, kind)
        \/ OnOpenTask(n)
        \/ PipeTask(n)
        \/ RxTask(n)
        \/ OnClose(n)

\* The channel opens at both ends and every task keeps running.
Fairness ==
    \A n \in Peers : /\ WF_vars(OpenChannel(n))
                     /\ WF_vars(OnOpenTask(n))
                     /\ WF_vars(PipeTask(n))
                     /\ WF_vars(RxTask(n))

Spec == Init /\ [][Next]_vars
FairSpec == Spec /\ Fairness

-----------------------------------------------------------------------------
\* The types of the state; nobody holds a token its resource's owner has not
\* generated.
TypeOK ==
    /\ ready \in [Peers -> BOOLEAN]
    /\ opening \in [Peers -> {"waiting", "open", "greeted", "drained"}]
    /\ auth \in [Peers -> BOOLEAN]
    /\ key \in [Peers -> [Peers -> Nat]]
    /\ \A n, r \in Peers : key[n][r] <= tokens[r]
    /\ parking \in [Peers -> Msgs \cup {None}]
    /\ rx \in [Peers -> {"idle", "verify", "reissue", "reply"}]
    /\ tokens \in [Peers -> Nat]
    /\ sends \in [Peers -> 0..MaxSends]
    /\ closed \in BOOLEAN
    /\ \A q \in {drained, pipe, pending, wire} :
          \A n \in Peers : \A i \in DOMAIN q[n] : q[n][i] \in Msgs

\* Both Handshakes have been sent and nothing that carries or will carry a
\* token is under way at either node.
Settled ==
    /\ ~closed
    /\ \A n \in Peers :
          /\ opening[n] \in {"greeted", "drained"}
          /\ rx[n] = "idle"
          /\ \A i \in DOMAIN pipe[n] : pipe[n][i].kind # "response"
          /\ \A i \in DOMAIN wire[n] : wire[n][i].kind \notin {"handshake", "response"}

\* Once the handshake has settled both nodes are authenticated and hold the
\* same token for each resource, although every Handshake makes two tokens and
\* a third may be made for the first HandshakeResponse: commands signed from
\* then on are accepted.  It also says that no HandshakeResponse was parked and
\* left behind in pending_messages.
KeyAgreement ==
    Settled => \A n, r \in Peers : auth[n] /\ key[n][r] # 0 /\ key[n][r] = key[r][r]

\* A node makes at most three tokens in a session, two for the peer's Handshake
\* and one for its first HandshakeResponse: the replies to replies come to an end.
TokensBounded == \A n \in Peers : tokens[n] <= 3

\* A node never replaces the token it holds for a resource by an older one,
\* whichever of the two ways the HandshakeResponses took.
TokensMoveForward ==
    [][\A n, r \in Peers : key'[n][r] # 0 => key'[n][r] >= key[n][r]]_vars

\* Both nodes end up authenticated unless the channel is closed.  Commands
\* queued before the handshake hold up the pipe at both nodes, each waiting for
\* the HandshakeResponse that is queued behind the other's command; only the
\* polling limit of the pipe breaks that circle.
HandshakeCompletes == <>(closed \/ \A n \in Peers : auth[n] /\ key[n][Other(n)] # 0)
=============================================================================

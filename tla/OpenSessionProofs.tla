--------------------------- MODULE OpenSessionProofs ---------------------------
(***************************************************************************)
(* What goes on in a session that is open, in four parts that share no     *)
(* state: the checks on the peer's messages (MessageAccess), the desktops  *)
(* that are shared (DesktopStreams), the negotiation of the streams        *)
(* (Renegotiation), and the data channel that carries the messages         *)
(* (ChunkedChannel).  Each is proved for all values of its constants.      *)
(***************************************************************************)
EXTENDS MessageAccess, DesktopStreams, Renegotiation, ChunkedChannel,
        FiniteSetTheorems, SequenceTheorems, TLAPS

-----------------------------------------------------------------------------
\* The checks on a peer's messages, for any resources of any types and any
\* number of keys and shutdowns: what is given on was verified under a key of its
\* resource, and a shutdown lets at most one more message through, whatever keys
\* the peer brings.

\* The message in hand is past the check of its MAC.
Past == stage \in {"waiting", "handling", "given"}

\* What was verified stays verified, although keys are replaced and cleared
\* meanwhile; who is past the wait found the session authenticated.
VerifiedOnce ==
    /\ Past /\ msg.kind \in NamingKinds =>
          msg.for = msg.resource /\ msg.mac \in 1..made[msg.resource]
    /\ stage \in {"handling", "given"} /\ msg.kind \in NamingKinds => auth

\* A resource whose key was cleared has none, and once a message on such a
\* resource was given on no other is past its check.
Cleared ==
    /\ strays <= 1
    /\ \A r \in revoked : keys[r] = 0
    /\ stage \in {"waiting", "handling"} /\ msg.resource \in revoked => strays = 0

\* The inductive invariant.
AccessInv == AccessTypeOK /\ VerifiedOnce /\ Cleared

-----------------------------------------------------------------------------
\* The tables: a handshake, a goodbye and the idle message name no resource, and
\* every kind that is for some type of resource names one.
LEMMA KindTables ==
    /\ {"Handshake", "Goodbye", "Pong"} \cap NamingKinds = {}
    /\ \A k \in MessageKinds : AllowedTypes(k) # {} => k \in NamingKinds
    /\ NamingKinds \subseteq MessageKinds
<1>1. {"Handshake", "Goodbye", "Pong"} \cap NamingKinds = {}
  BY DEF NamingKinds
<1>2. /\ FileKinds \subseteq NamingKinds /\ SystemKinds \subseteq NamingKinds
      /\ TerminalKinds \subseteq NamingKinds /\ RegistryKinds \subseteq NamingKinds
      /\ NetworkKinds \subseteq NamingKinds /\ SyncKinds \subseteq NamingKinds
      /\ DesktopKinds \subseteq NamingKinds
  BY DEF NamingKinds, FileKinds, SystemKinds, TerminalKinds, RegistryKinds,
         NetworkKinds, SyncKinds, DesktopKinds
<1>3. ASSUME NEW k \in MessageKinds, AllowedTypes(k) # {} PROVE k \in NamingKinds
  BY <1>2, <1>3 DEF AllowedTypes
<1>4. NamingKinds \subseteq MessageKinds
  BY DEF MessageKinds, NamingKinds, FileKinds, SystemKinds, TerminalKinds, RegistryKinds,
         NetworkKinds, SyncKinds, DesktopKinds
<1> QED BY <1>1, <1>3, <1>4

\* The idle message is a message that names nothing.
LEMMA IdleMessage == Idle \in Messages /\ Idle.kind \notin NamingKinds
<1>1. "Pong" \in MessageKinds
  BY DEF MessageKinds, OtherKinds
<1> QED BY <1>1, KindTables DEF Idle, Messages

\* A message that names a resource names one of the two nodes', another none.
LEMMA NamedResource ==
    ASSUME NEW m \in Messages
    PROVE  /\ m.kind \in MessageKinds
           /\ m.kind \in NamingKinds =>
                m.resource \in Resources /\ m.for \in Resources /\ m.mac \in 0..MaxKeys
           /\ m.kind \notin NamingKinds => m.resource \notin Resources
BY KindTables, MessageAccessAssumption DEF Messages, Resources

\* New keys keep the types, replace keys by newer ones only, and their resources
\* are no longer without a key.
LEMMA NewKeysFacts ==
    ASSUME AccessTypeOK, Cleared, NEW rs \in SUBSET Resources, NewKeys(rs)
    PROVE  /\ made' \in [Resources -> 0..MaxKeys]
           /\ \A r \in Resources : keys'[r] \in 0..made'[r] /\ made[r] <= made'[r]
           /\ revoked' \subseteq revoked
           /\ \A r \in revoked' : keys'[r] = 0
<1>1. /\ made \in [Resources -> 0..MaxKeys] /\ MaxKeys \in Nat
      /\ \A r \in Resources : keys[r] \in 0..made[r] /\ made[r] \in Nat
  BY MessageAccessAssumption DEF AccessTypeOK
<1>3. \A r \in Resources : made'[r] = IF r \in rs THEN made[r] + 1 ELSE made[r]
  BY DEF NewKeys
<1>4. \A r \in Resources : keys'[r] = IF r \in rs THEN made'[r] ELSE keys[r]
  BY DEF NewKeys
<1>5. made' \in [Resources -> 0..MaxKeys]
  BY <1>1, <1>3 DEF NewKeys
<1>6. \A r \in Resources : keys'[r] \in 0..made'[r] /\ made[r] <= made'[r]
  BY <1>1, <1>3, <1>4
<1>7. revoked' = revoked \ rs /\ revoked \subseteq Resources
  BY DEF NewKeys, AccessTypeOK
<1>8. \A r \in revoked' : keys'[r] = 0
  BY <1>4, <1>7 DEF Cleared
<1> QED BY <1>5, <1>6, <1>7, <1>8

-----------------------------------------------------------------------------
\* Nothing is received yet.
LEMMA AccessFirst == AccessInit => AccessInv
<1> SUFFICES ASSUME AccessInit PROVE AccessInv
  OBVIOUS
<1>1. \A r \in Resources : keys[r] = 0 /\ made[r] = 0
  BY DEF AccessInit
<1>2. made \in [Resources -> 0..MaxKeys] /\ shutdowns \in 0..MaxShutdowns
  BY MessageAccessAssumption DEF AccessInit
<1>3. \A r \in Resources : keys[r] \in 0..made[r]
  BY <1>1
<1>4. AccessTypeOK
  BY <1>2, <1>3, IdleMessage DEF AccessInit, AccessTypeOK, Stages
<1> QED BY <1>4 DEF AccessInit, AccessInv, VerifiedOnce, Cleared, Past

\* A message is taken.
LEMMA TakeStep == ASSUME AccessInv, NEW m \in Messages, Take(m) PROVE AccessInv'
<1>1. AccessTypeOK'
  BY DEF AccessInv, AccessTypeOK, Take, Stages
<1>2. stage' \in {"checking", "waiting"} /\ (stage' = "waiting" => msg'.kind \notin NamingKinds)
  BY DEF Take
<1>3. msg' \in Messages /\ UNCHANGED <<keys, made, auth, requested, revoked, strays>>
  BY DEF Take
<1>4. stage' = "waiting" => msg'.resource \notin revoked
  BY <1>2, <1>3, NamedResource DEF AccessInv, AccessTypeOK
<1> QED BY <1>1, <1>2, <1>3, <1>4 DEF AccessInv, VerifiedOnce, Cleared, Past

\* The MAC is checked: it fails on a resource whose key is gone.
LEMMA CheckStep == ASSUME AccessInv, Check PROVE AccessInv'
<1>1. AccessTypeOK'
  BY IdleMessage DEF AccessInv, AccessTypeOK, Check, Done, Stages
<1>2. CASE Verified(msg)
  <2>1. stage' = "waiting" /\ UNCHANGED <<msg, keys, made, auth, revoked, strays>>
    BY <1>2 DEF Check
  <2>2. msg.resource \notin revoked
    BY <1>2 DEF Verified, AccessInv, Cleared
  <2>3. msg.kind \in NamingKinds => msg.for = msg.resource /\ msg.mac \in 1..made[msg.resource]
    <3> SUFFICES ASSUME msg.kind \in NamingKinds
                 PROVE  msg.for = msg.resource /\ msg.mac \in 1..made[msg.resource]
      OBVIOUS
    <3>1. /\ msg.resource \in Resources
          /\ keys[msg.resource] \in 0..made[msg.resource] /\ made[msg.resource] \in Nat
      BY NamedResource, MessageAccessAssumption DEF AccessInv, AccessTypeOK
    <3> QED BY <1>2, <3>1 DEF Verified
  <2> QED BY <1>1, <2>1, <2>2, <2>3 DEF AccessInv, VerifiedOnce, Cleared, Past
<1>3. CASE ~Verified(msg)
  <2>1. stage' = "idle" /\ UNCHANGED <<keys, made, auth, revoked, strays>>
    BY <1>3 DEF Check, Done
  <2> QED BY <1>1, <2>1 DEF AccessInv, VerifiedOnce, Cleared, Past
<1> QED BY <1>2, <1>3

\* The task waits for the session to be authenticated.
LEMMA WaitStep == ASSUME AccessInv, Wait PROVE AccessInv'
<1>1. AccessTypeOK'
  BY IdleMessage DEF AccessInv, AccessTypeOK, Wait, Done, Stages
<1>2. \/ stage' = "handling" /\ msg' = msg /\ (auth \/ msg.kind = "Handshake")
      \/ stage' = "idle"
  BY DEF Wait, Done
<1>3. stage = "waiting" /\ UNCHANGED <<keys, made, auth, revoked, strays>>
  BY DEF Wait
<1> QED BY <1>1, <1>2, <1>3, KindTables DEF AccessInv, VerifiedOnce, Cleared, Past

\* A message is given on: if its resource has lost its key it is the first one.
LEMMA GiveStep ==
    ASSUME AccessInv, GiveToApplication \/ HandleDesktop
    PROVE  AccessInv'
<1>1. /\ stage = "handling" /\ UNCHANGED <<keys, made, auth, revoked, shutdowns>>
      /\ \/ stage' = "given" /\ UNCHANGED <<msg, requested>>
         \/ stage' = "idle" /\ msg' = Idle /\ requested' = {}
      /\ CountLate \/ strays' = strays
  BY DEF GiveToApplication, HandleDesktop, Done
<1>2. strays' \in Nat /\ strays' <= 1
  BY <1>1 DEF AccessInv, AccessTypeOK, Cleared, CountLate
<1>3. AccessTypeOK'
  BY <1>1, <1>2, IdleMessage DEF AccessInv, AccessTypeOK, Stages
<1> QED BY <1>1, <1>2, <1>3 DEF AccessInv, VerifiedOnce, Cleared, Past

\* It is carried out or refused, or a handshake turns out to be bad.
LEMMA EndStep ==
    ASSUME AccessInv, HandleMessage \/ Refuse \/ RejectHandshake
    PROVE  AccessInv'
<1>1. /\ UNCHANGED <<keys, made, auth, revoked, strays, shutdowns>>
      /\ stage' = "idle" /\ msg' = Idle /\ requested' = {}
  BY DEF HandleMessage, Refuse, Processed, RejectHandshake, Done
<1>2. AccessTypeOK'
  BY <1>1, IdleMessage DEF AccessInv, AccessTypeOK, Stages
<1> QED BY <1>1, <1>2 DEF AccessInv, VerifiedOnce, Cleared, Past

\* Keys are made for a handshake or brought by the peer's response.
LEMMA KeysStep ==
    ASSUME AccessInv, TakeResponse \/ Greet \/ HandleHandshake \/ AcceptHandshake
    PROVE  AccessInv'
<1>1. PICK rs \in SUBSET Resources : NewKeys(rs) /\ (requested' = rs \/ requested' \in {requested, {}})
  <2>1. CASE TakeResponse
    BY <2>1 DEF TakeResponse
  <2>2. CASE Greet
    BY <2>2 DEF Greet, Done, Resources
  <2>3. CASE HandleHandshake
    <3>1. requested' \in SUBSET Resources /\ NewKeys(requested')
      BY <2>3 DEF HandleHandshake, Resources
    <3> QED BY <3>1
  <2>4. CASE AcceptHandshake
    BY <2>4 DEF AcceptHandshake, Done, AccessInv, AccessTypeOK, Resources
  <2> QED BY <2>1, <2>2, <2>3, <2>4
<1>2. /\ made' \in [Resources -> 0..MaxKeys]
      /\ \A r \in Resources : keys'[r] \in 0..made'[r] /\ made[r] <= made'[r]
      /\ revoked' \subseteq revoked
      /\ \A r \in revoked' : keys'[r] = 0
  BY <1>1, NewKeysFacts DEF AccessInv
<1>3. /\ stage' \in {"idle", "greeting", "verifying"}
      /\ msg' \in {msg, Idle} /\ auth' \in {auth, TRUE} /\ requested' \subseteq Own
      /\ strays' = strays /\ shutdowns' = shutdowns
  BY DEF TakeResponse, Greet, HandleHandshake, AcceptHandshake, Done, AccessInv, AccessTypeOK
<1>4. AccessTypeOK'
  BY <1>2, <1>3, IdleMessage DEF AccessInv, AccessTypeOK, Stages
<1> QED BY <1>2, <1>3, <1>4 DEF AccessInv, VerifiedOnce, Cleared, Past

\* The session is shut down, by its own task or by another.
LEMMA ClearStep == ASSUME AccessInv, HandleGoodbye \/ Shutdown PROVE AccessInv'
<1>1. /\ \A r \in Resources : keys'[r] = 0
      /\ revoked' = Resources /\ strays' = 0 /\ made' = made /\ auth' = auth
  BY DEF HandleGoodbye, Shutdown, ClearKeys, Revoke
<1>2. shutdowns' \in 0..MaxShutdowns
  BY MessageAccessAssumption DEF HandleGoodbye, Shutdown, AccessInv, AccessTypeOK
<1>3. \/ stage' = "idle" /\ msg' = Idle /\ requested' = {}
      \/ UNCHANGED <<stage, msg, requested>>
  BY DEF HandleGoodbye, Shutdown, Done
<1>4. \A r \in Resources : keys'[r] \in 0..made'[r]
  BY <1>1, MessageAccessAssumption DEF AccessInv, AccessTypeOK
<1>5. AccessTypeOK'
  BY <1>1, <1>2, <1>3, <1>4, IdleMessage DEF AccessInv, AccessTypeOK, Stages
<1> QED BY <1>1, <1>3, <1>5 DEF AccessInv, VerifiedOnce, Cleared, Past

\* Every step keeps the invariant.
LEMMA AccessStep == AccessInv /\ [AccessNext]_accessVars => AccessInv'
<1> SUFFICES ASSUME AccessInv, [AccessNext]_accessVars PROVE AccessInv'
  OBVIOUS
<1>1. CASE UNCHANGED accessVars
  BY <1>1 DEF accessVars, AccessInv, AccessTypeOK, VerifiedOnce, Cleared, Past
<1> QED BY <1>1, TakeStep, CheckStep, WaitStep, GiveStep, EndStep, KeysStep, ClearStep
        DEF AccessNext

-----------------------------------------------------------------------------
\* The strengthened invariant holds throughout.
THEOREM AccessInductive == AccessSpec => []AccessInv
BY AccessFirst, AccessStep, PTL DEF AccessSpec

\* What handle_incoming_p2p_message gives on was verified under a key of the
\* resource it names, in an authenticated session; no kind that is for a type of
\* resource gets past the check.
THEOREM VerifiedFirst == AccessSpec => []HandledIsVerified
<1>1. AccessInv => HandledIsVerified
  BY KindTables, NamedResource
     DEF AccessInv, AccessTypeOK, VerifiedOnce, Past, HandledIsVerified
<1> QED BY <1>1, AccessInductive, PTL

\* After NodeContext::shutdown at most one message is still given on for a
\* resource until that has a key again, whoever brings it.
THEOREM ShutdownStops == AccessSpec => []OneAfterShutdown
<1>1. AccessInv => OneAfterShutdown
  BY DEF AccessInv, Cleared, OneAfterShutdown
<1> QED BY <1>1, AccessInductive, PTL

-----------------------------------------------------------------------------
\* The desktops a node shares, for any number of connections, resources,
\* parameters and requests: nothing is left of a session that is over, but by a
\* late start.

\* What is captured has its entry, and a loop runs only while it is captured.
Captured == loops \subseteq capture /\ capture = streams

\* The entries of a connection that was cleaned up came late, and no others did.
\* A start after the close has no track, and so no entry.
LateShape ==
    \A k \in streams : k[1] \in cleaned <=> k \in late

\* The inductive invariant.
StreamsInv == StreamsTypeOK /\ Captured /\ LateShape

-----------------------------------------------------------------------------
\* Initially there are no streams.
LEMMA StreamsFirst == StreamsInit => StreamsInv
BY DesktopStreamsAssumption, SMTT(30) DEF StreamsInit, StreamsInv, StreamsTypeOK, Captured,
                LateShape, Keys, Requests

\* A request taken from a queue: it has the type of a request, and what is left
\* is a sequence of requests.
LEMMA HandlingFacts ==
    ASSUME StreamsTypeOK, NEW c \in Connections, NEW start, Handling(c, start)
    PROVE  /\ Head(queue[c]) \in Requests
           /\ Key(c) \in Keys /\ Key(c)[1] = c
           /\ queue' \in [Connections -> Seq(Requests)]
<1>1. queue[c] \in Seq(Requests) /\ queue[c] # <<>>
  BY DEF StreamsTypeOK, Handling
<1>2. Head(queue[c]) \in Requests /\ Tail(queue[c]) \in Seq(Requests)
  BY <1>1
<1>3. Head(queue[c]).resource \in Shareable
  BY <1>2 DEF Requests
<1> QED BY <1>2, <1>3 DEF StreamsTypeOK, Handling, Key, Keys

\* Removing a set of entries keeps types and capture in order.
LEMMA StopAllFacts ==
    ASSUME StreamsTypeOK, Captured, NEW ks \in SUBSET streams, StopAll(ks)
    PROVE  /\ streams' = streams \ ks
           /\ streams' \subseteq Keys
           /\ wanted' \in [Keys -> Params \cup {NoEncoder}]
           /\ streams' = {k \in Keys : wanted'[k] # NoEncoder}
           /\ encoder' \in [Keys -> Params \cup {NoEncoder}]
           /\ Captured'
BY DEF StreamsTypeOK, Captured, StopAll

\* Every step keeps the invariant.
LEMMA StreamsStep == StreamsInv /\ [StreamsNext]_streamsVars => StreamsInv'
<1> SUFFICES ASSUME StreamsInv, [StreamsNext]_streamsVars
             PROVE  StreamsInv'
  OBVIOUS
<1> USE DesktopStreamsAssumption
<1>1. ASSUME NEW c \in Connections, NEW q \in Requests, Receive(c, q)
      PROVE  StreamsInv'
  <2>1. queue' \in [Connections -> Seq(Requests)] /\ asked' \in [Connections -> 0..MaxRequests]
    BY <1>1 DEF Receive, StreamsInv, StreamsTypeOK
  <2> QED BY <1>1, <2>1 DEF Receive, StreamsInv, StreamsTypeOK, Captured,
                            LateShape, entryVars
<1>2. ASSUME NEW c \in Connections, Deny(c) \/ StartFails(c)
      PROVE  StreamsInv'
  <2>1. queue' \in [Connections -> Seq(Requests)]
    BY <1>2, HandlingFacts DEF Deny, StartFails, StreamsInv
  <2> QED BY <1>2, <2>1 DEF Deny, StartFails, StreamsInv,
                            StreamsTypeOK, Captured, LateShape, entryVars
<1>3. ASSUME NEW c \in Connections, Update(c)
      PROVE  StreamsInv'
  <2>1. /\ Head(queue[c]).params \in Params /\ Key(c) \in Keys
        /\ queue' \in [Connections -> Seq(Requests)]
    BY <1>3, HandlingFacts DEF Update, StreamsInv, Requests
  <2>2. /\ wanted' \in [Keys -> Params \cup {NoEncoder}]
        /\ streams = {k \in Keys : wanted'[k] # NoEncoder}
    BY <1>3, <2>1 DEF Update, StreamsInv, StreamsTypeOK
  <2> QED BY <1>3, <2>1, <2>2 DEF Update, StreamsInv, StreamsTypeOK, Captured, LateShape
<1>4. ASSUME NEW c \in Connections, Start(c)
      PROVE  StreamsInv'
  <2>1. /\ Head(queue[c]).params \in Params /\ Key(c) \in Keys /\ Key(c)[1] = c
        /\ queue' \in [Connections -> Seq(Requests)]
    BY <1>4, HandlingFacts DEF Start, StreamsInv, Requests
  <2>2. /\ wanted' \in [Keys -> Params \cup {NoEncoder}]
        /\ streams' = {k \in Keys : wanted'[k] # NoEncoder}
    BY <1>4, <2>1 DEF Start, StreamsInv, StreamsTypeOK
  <2>3. LateShape' /\ late' \subseteq streams'
    BY <1>4, <2>1 DEF Start, AddTrack, StreamsInv, StreamsTypeOK, LateShape
  <2> QED BY <1>4, <2>1, <2>2, <2>3 DEF Start, StreamsInv, StreamsTypeOK, Captured
<1>5. ASSUME NEW c \in Connections, Stop(c)
      PROVE  StreamsInv'
  <2>1. queue' \in [Connections -> Seq(Requests)]
    BY <1>5, HandlingFacts DEF Stop, StreamsInv
  <2>2. {Key(c)} \cap streams \in SUBSET streams
    OBVIOUS
  <2> QED BY SMTT(30), <1>5, <2>1, <2>2, StopAllFacts
            DEF Stop, StreamsInv, StreamsTypeOK, LateShape
<1>6. ASSUME NEW c \in Connections, DropClient(c)
      PROVE  StreamsInv'
  BY <1>6 DEF DropClient, StreamsInv, StreamsTypeOK, Captured, LateShape,
              entryVars
<1>7. ASSUME NEW c \in Connections, CleanUp(c)
      PROVE  StreamsInv'
  <2>1. streams \cap KeysOf(c) \in SUBSET streams
    OBVIOUS
  <2>2. streams' = {k \in streams : k[1] # c}
    <3>1. streams' = streams \ (streams \cap KeysOf(c)) /\ streams \subseteq Keys
      BY <1>7 DEF CleanUp, StopAll, StreamsInv, StreamsTypeOK
    <3> QED BY <3>1 DEF KeysOf
  <2>3. late' \subseteq streams' /\ LateShape'
    BY <1>7, <2>2 DEF CleanUp, StreamsInv, StreamsTypeOK, LateShape
  <2> QED BY <1>7, <2>1, <2>3, StopAllFacts
            DEF CleanUp, StreamsInv, StreamsTypeOK
<1>8. ASSUME NEW c \in Connections, ClosePc(c)
      PROVE  StreamsInv'
  BY <1>8 DEF ClosePc, StreamsInv, StreamsTypeOK, Captured, LateShape,
              entryVars
<1>9. ASSUME NEW k \in Keys, Encode(k) \/ LoopEnds(k)
      PROVE  StreamsInv'
  BY <1>9 DEF Encode, LoopEnds, StreamsInv, StreamsTypeOK, Captured, LateShape
<1>10. CASE UNCHANGED streamsVars
  BY <1>10 DEF streamsVars, StreamsInv, StreamsTypeOK, Captured, LateShape
<1> QED BY <1>1, <1>2, <1>3, <1>4, <1>5, <1>6, <1>7, <1>8, <1>9, <1>10
        DEF StreamsNext, HandleRequest

\* The strengthened invariant holds throughout: it relates the entries, what is
\* captured and what came late to how far each session has been taken down.
THEOREM StreamsInductive == StreamsSpec => []StreamsInv
BY StreamsFirst, StreamsStep, PTL DEF StreamsSpec

\* Nothing is shared with a session that is over, except by a start that was
\* handled between its clean-up and its close (the task Drop of the session spawns).
THEOREM NothingLeft == StreamsSpec => []NothingLeftRunning
<1>1. StreamsInv => NothingLeftRunning
  BY DEF StreamsInv, StreamsTypeOK, Captured, LateShape, NothingLeftRunning,
         Over, Running, KeysOf
<1> QED BY <1>1, StreamsInductive, PTL

-----------------------------------------------------------------------------
\* The negotiation of the streams, for any number of changes, restarts, timeouts
\* and losses.

\* What is sent between the ends, however often.
Sent == [what : {"offer", "answering", "answer"}, of : Nat, nr : Nat, kind : Kinds]

\* The state is made of functions on the ends; how large the versions get follows
\* from Versions.
Functions ==
    /\ tracks \in [Ends -> 0..MaxChanges] /\ jobs \in [Ends -> [Kinds -> Nat]]
    /\ holder \in [Ends -> {"none", "before", "created", "after"}]
    /\ kind \in [Ends -> Kinds] /\ offered \in [Ends -> Nat]
    /\ sig \in [Ends -> {"stable", "local", "remote"}]
    /\ local \in [Ends -> Nat] /\ remote \in [Ends -> Nat] /\ agreed \in [Ends -> Nat]
    /\ inbox \in [Ends -> SUBSET Sent]
    /\ offers \in [Ends -> Nat]
    /\ restarts \in 0..MaxRestarts /\ failures \in 0..MaxFailures
    /\ hurried \in BOOLEAN /\ lost \in BOOLEAN

\* No offer, nor any answer to it, is ahead of the tracks of the end that made it.
Version(e) ==
    /\ offered[e] <= tracks[e] /\ local[e] <= tracks[e] /\ agreed[e] <= tracks[e]
    /\ remote[e] <= tracks[Other(e)]
    /\ \A m \in inbox[e] :
          m.of <= IF m.what = "answer" THEN tracks[e] ELSE tracks[Other(e)]

\* So it is at both ends.
Versions == \A e \in Ends : Version(e)

\* An end that never had a reason to make an offer.
Passive(e) == tracks[e] = 0 /\ (e \in Restarters => restarts = 0)

\* It only answers, and the other end's offer, unless something of it was lost or a
\* call of the library failed, is on its way, set, or answered.
Answering(e) ==
    /\ holder[e] = "none" /\ \A k \in Kinds : jobs[e][k] = 0
    /\ sig[e] # "local" /\ sig[Other(e)] # "remote"
    /\ \A m \in inbox[e] : m.what # "answer"
    /\ \A m \in inbox[Other(e)] : m.what = "answer"
    /\ sig[e] = "remote" /\ failures = 0 => \E m \in inbox[e] : m.what = "answering"
    /\ sig[Other(e)] = "local" /\ ~lost /\ failures = 0 =>
          \/ sig[e] = "remote"
          \/ \E m \in inbox[e] : m.what = "offer"
          \/ inbox[Other(e)] # {}

\* The invariant that settles the session.
Sided == \A e \in Ends : Passive(e) => Answering(e)

\* The inductive invariant.
SdpInv == Functions /\ Versions /\ Sided

-----------------------------------------------------------------------------
\* A session has two ends, each the other of the other.
LEMMA TwoEnds ==
    \A e \in Ends : /\ Other(e) \in Ends /\ Other(e) # e /\ Other(Other(e)) = e
                    /\ \A f \in Ends : f = e \/ f = Other(e)
<1> SUFFICES ASSUME NEW e \in Ends
             PROVE  /\ Other(e) \in Ends /\ Other(e) # e /\ Other(Other(e)) = e
                    /\ \A f \in Ends : f = e \/ f = Other(e)
  OBVIOUS
<1>1. IsFiniteSet(Ends \ {e}) /\ Cardinality(Ends \ {e}) = 1
  BY FS_RemoveElement, RenegotiationAssumption
<1>2. PICK f : Ends \ {e} = {f}
  BY <1>1, FS_Singleton
<1>3. Other(e) = f /\ Other(f) = e /\ f \in Ends /\ f # e
  BY <1>2 DEF Other
<1> QED BY <1>2, <1>3

\* No end has offered anything yet.
LEMMA SdpFirst == SdpInit => SdpInv
<1> SUFFICES ASSUME SdpInit PROVE SdpInv
  OBVIOUS
<1>1. MaxChanges \in Nat /\ MaxRestarts \in Nat /\ MaxFailures \in Nat
  BY RenegotiationAssumption
<1>2. Functions
  <2>1. 0 \in 0..MaxChanges /\ 0 \in 0..MaxRestarts /\ 0 \in 0..MaxFailures
    BY <1>1
  <2>2. /\ tracks \in [Ends -> 0..MaxChanges] /\ jobs \in [Ends -> [Kinds -> Nat]]
        /\ restarts \in 0..MaxRestarts /\ failures \in 0..MaxFailures
    BY <2>1 DEF SdpInit
  <2>3. /\ kind \in [Ends -> Kinds] /\ inbox \in [Ends -> SUBSET Sent]
    BY DEF SdpInit, Kinds
  <2> QED BY <2>2, <2>3 DEF SdpInit, Functions
<1>3. Versions
  BY TwoEnds DEF SdpInit, Versions, Version
<1>4. Sided
  BY TwoEnds DEF SdpInit, Sided, Answering
<1> QED BY <1>2, <1>3, <1>4 DEF SdpInv

\* A call of the library that fails is counted.
LEMMA FailsCounted ==
    ASSUME SdpInv, Fails
    PROVE  failures' \in 0..MaxFailures /\ failures' # 0
BY RenegotiationAssumption DEF SdpInv, Functions, Fails

\* Every step keeps the invariant.
LEMMA SdpStep == SdpInv /\ [SdpNext]_sdpVars => SdpInv'
<1> SUFFICES ASSUME SdpInv, [SdpNext]_sdpVars PROVE SdpInv'
  OBVIOUS
<1> USE TwoEnds DEF SdpInv
<1>1. ASSUME NEW e \in Ends, Change(e) PROVE SdpInv'
  <2>1. Functions'
    <3>1. tracks[e] \in Nat /\ tracks[Other(e)] \in Nat /\ MaxChanges \in Nat
      BY RenegotiationAssumption DEF Functions
    <3>2. tracks[e] + 1 \in 0..MaxChanges
      BY <1>1, <3>1 DEF Change
    <3> QED BY <1>1, <3>2 DEF Functions, Change, pcVars, boundVars, Kinds
  <2>2. \A f \in Ends : tracks'[f] \in Nat /\ tracks[f] \in Nat /\ tracks[f] <= tracks'[f]
    BY <1>1 DEF Functions, Change
  <2>3. Versions'
    <3> SUFFICES ASSUME NEW f \in Ends PROVE Version(f)'
      BY DEF Versions
    <3>1. /\ tracks'[f] \in Nat /\ tracks[f] \in Nat /\ tracks[f] <= tracks'[f]
          /\ tracks'[Other(f)] \in Nat /\ tracks[Other(f)] \in Nat
          /\ tracks[Other(f)] <= tracks'[Other(f)]
      BY <2>2
    <3>2. /\ offered[f] \in Nat /\ local[f] \in Nat /\ agreed[f] \in Nat /\ remote[f] \in Nat
          /\ \A m \in inbox[f] : m.of \in Nat
      BY DEF Functions, Sent
    <3>3. Version(f)
      BY DEF Versions
    <3>4. offered' = offered /\ local' = local /\ agreed' = agreed /\ remote' = remote /\ inbox' = inbox
      BY <1>1 DEF Change, pcVars
    <3> QED BY <3>1, <3>2, <3>3, <3>4 DEF Version
  <2>4. Sided'
    <3>1. /\ tracks'[e] # 0
          /\ UNCHANGED <<holder, sig, inbox, lost, failures, restarts>>
          /\ \A f \in Ends : f # e => jobs'[f] = jobs[f] /\ tracks'[f] = tracks[f]
      BY <1>1 DEF Functions, Change, pcVars, boundVars
    <3>2. ASSUME NEW f \in Ends, Passive(f)' PROVE Answering(f)'
      <4>1. f # e
        BY <3>1, <3>2 DEF Passive
      <4>2. Answering(f)
        BY <3>1, <3>2, <4>1 DEF Sided, Passive
      <4> QED BY <3>1, <4>1, <4>2 DEF Answering
    <3> QED BY <3>2 DEF Sided
  <2> QED BY <2>1, <2>3, <2>4
<1>2. ASSUME NEW e \in Ends, Interrupt(e) PROVE SdpInv'
  <2>1. Functions'
    <3>1. restarts' \in 0..MaxRestarts /\ restarts' # 0
      BY <1>2, RenegotiationAssumption DEF Functions, Interrupt
    <3>2. jobs' \in [Ends -> [Kinds -> Nat]]
      BY <1>2 DEF Functions, Interrupt, Kinds
    <3>3. UNCHANGED <<tracks, holder, kind, offered, sig, local, remote, agreed, inbox, offers,
                      hurried, lost, failures>>
      BY <1>2 DEF Interrupt, pcVars
    <3> QED BY <3>1, <3>2, <3>3 DEF Functions
  <2>2. Versions'
    BY <1>2 DEF Functions, Versions, Version, Interrupt, pcVars
  <2>3. Sided'
    <3>1. restarts' # 0
      BY <1>2 DEF Functions, Interrupt
    <3>2. ASSUME NEW f \in Ends, Passive(f)' PROVE Answering(f)'
      <4>1. f # e /\ f \notin Restarters /\ Passive(f)
        BY <1>2, <3>1, <3>2 DEF Passive, Interrupt
      <4>2. Answering(f) /\ jobs'[f] = jobs[f]
        BY <1>2, <4>1 DEF Functions, Sided, Interrupt
      <4> QED BY <1>2, <4>2 DEF Answering, Interrupt, pcVars
    <3> QED BY <3>2 DEF Sided
  <2> QED BY <2>1, <2>2, <2>3
<1>3. ASSUME NEW e \in Ends, NEW k \in Kinds, TakeLock(e, k) PROVE SdpInv'
  <2>1. Functions'
    BY <1>3 DEF Functions, TakeLock, pcVars, boundVars, Kinds
  <2>2. Versions'
    BY <1>3 DEF Functions, Versions, Version, TakeLock, pcVars, boundVars
  <2>3. Sided'
    <3>1. jobs[e][k] # 0 /\ tracks' = tracks /\ restarts' = restarts
      BY <1>3 DEF Functions, TakeLock, boundVars
    <3>2. ASSUME NEW f \in Ends, Passive(f)' PROVE Answering(f)'
      <4>1. Answering(f) /\ f # e
        BY <3>1, <3>2 DEF Sided, Passive, Answering
      <4>2. holder'[f] = holder[f] /\ jobs'[f] = jobs[f]
        BY <1>3, <4>1 DEF Functions, TakeLock
      <4>3. sig' = sig /\ inbox' = inbox /\ lost' = lost /\ failures' = failures
        BY <1>3 DEF TakeLock, pcVars, boundVars
      <4> QED BY <4>1, <4>2, <4>3 DEF Answering
    <3> QED BY <3>2 DEF Sided
  <2> QED BY <2>1, <2>2, <2>3
<1>4. ASSUME NEW e \in Ends, CreateOffer(e) \/ OfferNotMade(e) PROVE SdpInv'
  <2>1. Functions'
    <3>1. /\ offered' \in [Ends -> Nat]
          /\ holder' \in [Ends -> {"none", "before", "created", "after"}]
      <4>1. /\ tracks[e] \in Nat /\ offered \in [Ends -> Nat]
            /\ holder \in [Ends -> {"none", "before", "created", "after"}]
        BY DEF Functions
      <4>2. CASE CreateOffer(e)
        BY <4>1, <4>2 DEF CreateOffer
      <4>3. CASE OfferNotMade(e)
        BY <4>1, <4>3 DEF OfferNotMade
      <4> QED BY <1>4, <4>2, <4>3
    <3>2. hurried' \in BOOLEAN /\ failures' \in 0..MaxFailures
      <4>1. hurried \in BOOLEAN /\ failures \in 0..MaxFailures
        BY DEF Functions
      <4>2. CASE CreateOffer(e)
        BY <4>1, <4>2 DEF CreateOffer, Waited
      <4>3. CASE OfferNotMade(e)
        BY <4>1, <4>3, FailsCounted DEF OfferNotMade, Waited
      <4> QED BY <1>4, <4>2, <4>3
    <3>3. UNCHANGED <<tracks, jobs, kind, sig, local, remote, agreed, inbox, offers, lost,
                      restarts>>
      BY <1>4 DEF CreateOffer, OfferNotMade, pcVars
    <3> QED BY <3>1, <3>2, <3>3 DEF Functions
  <2>2. Versions'
    BY <1>4 DEF Functions, Versions, Version, CreateOffer, OfferNotMade, pcVars
  <2>3. Sided'
    <3>1. failures' = failures \/ failures' # 0
      BY <1>4, FailsCounted DEF CreateOffer, OfferNotMade
    <3>2. /\ UNCHANGED <<tracks, jobs, sig, inbox, lost, restarts>>
          /\ holder[e] # "none"
          /\ \A f \in Ends : f # e => holder'[f] = holder[f]
      BY <1>4 DEF Functions, CreateOffer, OfferNotMade, pcVars
    <3>3. ASSUME NEW f \in Ends, Passive(f)' PROVE Answering(f)'
      <4>1. Answering(f)
        BY <3>2, <3>3 DEF Sided, Passive
      <4>2. f # e
        BY <3>2, <4>1 DEF Answering
      <4> QED BY <3>1, <3>2, <4>1, <4>2 DEF Answering
    <3> QED BY <3>3 DEF Sided
  <2> QED BY <2>1, <2>2, <2>3
<1>5. ASSUME NEW e \in Ends, SendOffer(e) PROVE SdpInv'
  <2> DEFINE x == [what |-> "offer", of |-> offered[e], nr |-> offers[e], kind |-> kind[e]]
  <2>1. /\ x.what = "offer" /\ x.of = offered[e]
        /\ x \in Sent
    BY DEF Functions, Sent
  <2>2. inbox' = [inbox EXCEPT ![Other(e)] = @ \cup {x}]
    BY <1>5 DEF SendOffer
  <2> HIDE DEF x
  <2>3. inbox'[Other(e)] = inbox[Other(e)] \cup {x} /\ inbox'[e] = inbox[e]
    BY <2>2 DEF Functions
  <2>4. Functions'
    BY <1>5, <2>1, <2>2 DEF Functions, SendOffer, SetLocalOffer
  <2>5. Versions'
    BY <1>5, <2>1, <2>3 DEF Functions, Versions, Version, SendOffer, SetLocalOffer
  <2>6. Sided'
    BY <1>5, <2>1, <2>3 DEF Functions, Sided, Passive, Answering, SendOffer, SetLocalOffer
  <2> QED BY <2>4, <2>5, <2>6
<1>6. ASSUME NEW e \in Ends, OfferRefused(e) PROVE SdpInv'
  <2>1. /\ \/ UNCHANGED <<sig, local>>
           \/ /\ sig' = [sig EXCEPT ![e] = "local"] /\ sig[e] \in {"stable", "local"}
              /\ local' = [local EXCEPT ![e] = offered[e]] /\ failures' # 0
        /\ failures' \in 0..MaxFailures /\ (failures' = failures \/ failures' # 0)
        /\ UNCHANGED <<tracks, jobs, kind, offered, remote, agreed, inbox, offers, hurried,
                       lost, restarts>>
    <3>1. failures \in 0..MaxFailures
      BY DEF Functions
    <3> QED BY <1>6, <3>1, FailsCounted DEF OfferRefused, SetLocalOffer
  <2>2. holder' = [holder EXCEPT ![e] = IF kind[e] = "desktop" THEN "none" ELSE "after"]
    BY <1>6 DEF OfferRefused
  <2>3. Functions'
    BY <2>1, <2>2 DEF Functions
  <2>4. Versions'
    BY <2>1 DEF Functions, Versions, Version
  <2>5. Sided'
    <3>1. holder[e] = "created"
      BY <1>6 DEF OfferRefused
    <3>2. ASSUME NEW f \in Ends, Passive(f)' PROVE Answering(f)'
      <4>1. Passive(f) /\ Answering(f) /\ f # e /\ Other(f) = e
        BY <2>1, <3>1, <3>2 DEF Sided, Passive, Answering
      <4>2. holder'[f] = holder[f] /\ sig'[f] = sig[f] /\ sig'[e] \in {sig[e], "local"}
        BY <2>1, <2>2, <4>1 DEF Functions
      <4>3. failures' = 0 => sig' = sig /\ failures = 0
        BY <2>1
      <4> QED BY <2>1, <4>1, <4>2, <4>3 DEF Answering
    <3> QED BY <3>2 DEF Sided
  <2> QED BY <2>3, <2>4, <2>5
<1>7. ASSUME NEW e \in Ends, GiveBack(e) PROVE SdpInv'
  <2>1. Functions'
    BY <1>7 DEF Functions, GiveBack, Waited, pcVars
  <2>2. Versions'
    BY <1>7 DEF Functions, Versions, Version, GiveBack, pcVars
  <2>3. Sided'
    BY <1>7 DEF Functions, Sided, Passive, Answering, GiveBack, pcVars
  <2> QED BY <2>1, <2>2, <2>3
<1>8. ASSUME NEW e \in Ends, NEW m \in inbox[e], SetRemoteOffer(e, m) PROVE SdpInv'
  <2> DEFINE x == [m EXCEPT !.what = "answering"]
  <2>1. /\ x.what = "answering" /\ x.of = m.of /\ m.what = "offer" /\ m.of \in Nat
        /\ x \in Sent
    <3>1. m \in Sent /\ m.what = "offer"
      BY <1>8 DEF Functions, SetRemoteOffer
    <3> QED BY <3>1 DEF Sent
  <2>2. inbox' = [inbox EXCEPT ![e] = (@ \ {m}) \cup {x}]
    BY <1>8 DEF SetRemoteOffer
  <2> HIDE DEF x
  <2>3. inbox'[Other(e)] = inbox[Other(e)] /\ inbox'[e] = (inbox[e] \ {m}) \cup {x}
    BY <2>2 DEF Functions
  <2>4. Functions'
    BY <1>8, <2>1, <2>2 DEF Functions, SetRemoteOffer, SetRemote, lockVars, boundVars
  <2>5. Versions'
    <3>1. m.of <= tracks[Other(e)] /\ Version(e) /\ Version(Other(e))
      BY <2>1 DEF Versions, Version
    <3>2. /\ tracks' = tracks /\ offered' = offered /\ local' = local /\ agreed' = agreed
          /\ remote'[e] = m.of /\ remote'[Other(e)] = remote[Other(e)]
      BY <1>8 DEF Functions, SetRemoteOffer, SetRemote, lockVars
    <3>3. Version(e)'
      BY <2>1, <2>3, <3>1, <3>2 DEF Version
    <3>4. Version(Other(e))'
      BY <2>3, <3>1, <3>2 DEF Version
    <3> QED BY <3>3, <3>4 DEF Versions
  <2>6. Sided'
    <3>1. /\ holder' = holder /\ jobs' = jobs /\ tracks' = tracks
          /\ restarts' = restarts /\ lost' = lost /\ failures' = failures
          /\ sig[e] # "local" /\ sig'[e] = "remote" /\ sig'[Other(e)] = sig[Other(e)]
      BY <1>8 DEF Functions, SetRemoteOffer, SetRemote, TakesOffer, lockVars,
                  boundVars
    <3>2. Passive(e)' => Answering(e)'
      BY <2>1, <2>3, <3>1 DEF Sided, Passive, Answering
    <3>3. ~Passive(Other(e))'
      BY <2>1, <3>1 DEF Sided, Passive, Answering
    <3> QED BY <3>2, <3>3 DEF Sided
  <2> QED BY <2>4, <2>5, <2>6
<1>9. ASSUME NEW e \in Ends, NEW m \in inbox[e],
             \/ OfferFails(e, m) \/ AnswerFails(e, m)
             \/ AnswerNotApplied(e, m) \/ LoseSignal(e, m)
      PROVE  SdpInv'
  <2>1. /\ inbox' = [inbox EXCEPT ![e] = @ \ {m}]
        /\ inbox'[Other(e)] = inbox[Other(e)] /\ inbox'[e] = inbox[e] \ {m}
    BY <1>9 DEF Functions, OfferFails, AnswerFails, AnswerNotApplied, LoseSignal
  <2>2. m \in Sent /\ m.of \in Nat
    BY DEF Functions, Sent
  <2>3. UNCHANGED <<tracks, lockVars, local, agreed, offers, hurried, restarts>>
    BY <1>9 DEF OfferFails, SetRemote, AnswerFails, AnswerNotApplied, LoseSignal, pcVars
  <2>4. /\ failures' \in 0..MaxFailures /\ (failures' = failures \/ failures' # 0)
        /\ lost' \in BOOLEAN /\ (lost => lost')
    <3>1. failures \in 0..MaxFailures /\ lost \in BOOLEAN
      BY DEF Functions
    <3> QED BY <1>9, <3>1, FailsCounted
            DEF OfferFails, AnswerFails, AnswerNotApplied, LoseSignal
  <2>5. \/ /\ UNCHANGED <<sig, remote>>
           /\ \/ lost'
              \/ failures' # 0
              \/ m.what = "offer" /\ sig[e] # "stable"
              \/ m.what = "answering" /\ sig[e] # "remote"
        \/ /\ failures' # 0 /\ m.what = "offer" /\ sig[e] # "local"
           /\ sig' = [sig EXCEPT ![e] = "remote"] /\ remote' = [remote EXCEPT ![e] = m.of]
        \/ /\ failures' # 0 /\ remote' = remote
           /\ m.what # "offer" /\ sig' = [sig EXCEPT ![e] = "stable"]
    <3>1. CASE OfferFails(e, m)
      BY <3>1, FailsCounted DEF OfferFails, SetRemote, TakesOffer
    <3>2. CASE AnswerFails(e, m)
      <4>1. sig[e] = "remote" => [sig EXCEPT ![e] = "remote"] = sig
        BY DEF Functions
      <4> QED BY <3>2, <4>1, FailsCounted DEF AnswerFails
    <3>3. CASE AnswerNotApplied(e, m)
      <4>1. sig[e] = "local" => [sig EXCEPT ![e] = "local"] = sig
        BY DEF Functions
      <4> QED BY <3>3, <4>1, FailsCounted DEF AnswerNotApplied
    <3>4. CASE LoseSignal(e, m)
      BY <3>4 DEF LoseSignal, pcVars
    <3> QED BY <1>9, <3>1, <3>2, <3>3, <3>4
  <2>6. Functions'
    <3>1. inbox' \in [Ends -> SUBSET Sent]
      BY <2>1 DEF Functions
    <3>2. /\ sig' \in [Ends -> {"stable", "local", "remote"}]
          /\ remote' \in [Ends -> Nat]
      BY <2>2, <2>5 DEF Functions
    <3> QED BY <2>3, <2>4, <3>1, <3>2 DEF Functions, lockVars
  <2>7. Versions'
    <3>1. /\ Version(e) /\ Version(Other(e))
          /\ remote'[Other(e)] = remote[Other(e)] /\ remote'[e] <= tracks[Other(e)]
      BY <2>2, <2>5 DEF Functions, Versions, Version
    <3>2. UNCHANGED <<tracks, offered, local, agreed>>
      BY <2>3 DEF lockVars
    <3>3. Version(e)' /\ Version(Other(e))'
      BY <2>1, <3>1, <3>2 DEF Version
    <3> QED BY <3>3 DEF Versions
  <2>8. Sided'
    <3>1. UNCHANGED <<tracks, restarts, holder, jobs>>
      BY <2>3 DEF lockVars
    <3>2. ASSUME NEW f \in Ends, Passive(f)' PROVE Answering(f)'
      <4>1. Answering(f)
        BY <3>1, <3>2 DEF Sided, Passive
      <4>2. inbox'[f] \subseteq inbox[f] /\ inbox'[Other(f)] \subseteq inbox[Other(f)]
        BY <2>1
      <4>3. sig'[f] # "local" /\ sig'[Other(f)] # "remote"
        <5>1. CASE f = e
          BY <2>5, <4>1, <5>1 DEF Functions, Answering
        <5>2. CASE Other(f) = e
          BY <2>5, <4>1, <5>2 DEF Functions, Answering
        <5> QED BY <5>1, <5>2
      <4>4. CASE failures' # 0
        BY <3>1, <4>1, <4>2, <4>3, <4>4 DEF Answering
      <4>5. CASE failures' = 0
        <5>1. failures = 0 /\ sig' = sig
          BY <2>4, <2>5, <4>5
        <5>2. \/ lost'
              \/ m.what = "offer" /\ sig[e] # "stable"
              \/ m.what = "answering" /\ sig[e] # "remote"
          BY <2>5, <4>5
        <5>3. sig[f] = "remote" => \E x \in inbox'[f] : x.what = "answering"
          <6> SUFFICES ASSUME sig[f] = "remote" PROVE \E x \in inbox'[f] : x.what = "answering"
            OBVIOUS
          <6>1. PICK x \in inbox[f] : x.what = "answering"
            BY <4>1, <5>1 DEF Answering
          <6>2. f = e => x # m
            BY <1>9, <4>5, <5>1, <6>1, FailsCounted
               DEF OfferFails, AnswerFails, AnswerNotApplied, LoseSignal
          <6> QED BY <2>1, <6>1, <6>2
        <5>4. sig[Other(f)] = "local" /\ ~lost' =>
                \/ sig[f] = "remote"
                \/ \E x \in inbox'[f] : x.what = "offer"
                \/ inbox'[Other(f)] # {}
          <6> SUFFICES ASSUME sig[Other(f)] = "local", ~lost', sig[f] # "remote"
                       PROVE  (\E x \in inbox'[f] : x.what = "offer") \/ inbox'[Other(f)] # {}
            OBVIOUS
          <6>1. sig[f] = "stable"
            BY <4>1 DEF Answering, Functions
          <6>2. (\E x \in inbox[f] : x.what = "offer") \/ inbox[Other(f)] # {}
            BY <2>4, <4>1, <5>1 DEF Answering
          <6>3. e = f /\ m.what = "answering"
            BY <4>1, <5>2, <6>1 DEF Answering
          <6> QED BY <2>1, <6>2, <6>3
        <5> QED BY <3>1, <4>1, <4>2, <4>3, <5>1, <5>3, <5>4 DEF Answering
      <4> QED BY <4>4, <4>5
    <3> QED BY <3>2 DEF Sided
  <2> QED BY <2>6, <2>7, <2>8
<1>10. ASSUME NEW e \in Ends, NEW m \in inbox[e], SendAnswer(e, m) PROVE SdpInv'
  <2> DEFINE x == [m EXCEPT !.what = "answer", !.of = remote[e]]
  <2>1. /\ x.what = "answer" /\ x.of = remote[e]
        /\ x \in Sent
    <3>1. m \in Sent /\ remote[e] \in Nat
      BY <1>10 DEF Functions, SendAnswer
    <3> QED BY <3>1 DEF Sent
  <2>2. inbox' = [inbox EXCEPT ![e] = @ \ {m}, ![Other(e)] = @ \cup {x}]
    BY <1>10 DEF SendAnswer
  <2> HIDE DEF x
  <2>3. inbox'[Other(e)] = inbox[Other(e)] \cup {x} /\ inbox'[e] = inbox[e] \ {m}
    BY <2>2 DEF Functions
  <2>4. Functions'
    BY <1>10, <2>1, <2>2 DEF Functions, SendAnswer, lockVars, boundVars
  <2>5. Versions'
    BY <1>10, <2>1, <2>3 DEF Functions, Versions, Version, SendAnswer,
                             lockVars, boundVars
  <2>6. Sided'
    <3>1. /\ holder' = holder /\ jobs' = jobs /\ tracks' = tracks
          /\ restarts' = restarts /\ lost' = lost /\ failures' = failures
          /\ sig[e] = "remote" /\ sig'[e] = "stable" /\ sig'[Other(e)] = sig[Other(e)]
      BY <1>10 DEF Functions, SendAnswer, lockVars, boundVars
    <3>2. Passive(e)' => Answering(e)'
      BY <2>1, <2>3, <3>1 DEF Sided, Passive, Answering
    <3>3. ~Passive(Other(e))'
      BY <3>1 DEF Sided, Passive, Answering
    <3> QED BY <3>2, <3>3 DEF Sided
  <2> QED BY <2>4, <2>5, <2>6
<1>11. ASSUME NEW e \in Ends, NEW m \in inbox[e], Answered(e, m) PROVE SdpInv'
  <2>1. /\ inbox' = [inbox EXCEPT ![e] = @ \ {m}] /\ m.what = "answer" /\ m.of \in Nat
        /\ inbox'[Other(e)] = inbox[Other(e)] /\ inbox'[e] = inbox[e] \ {m}
    <3>1. m \in Sent
      BY DEF Functions
    <3> QED BY <1>11, <3>1 DEF Functions, Answered, Sent
  <2>2. Functions'
    <3>1. /\ sig' \in [Ends -> {"stable", "local", "remote"}]
          /\ agreed' \in [Ends -> Nat]
      <4>1. CASE sig[e] = "local"
        BY <1>11, <2>1, <4>1 DEF Functions, Answered
      <4>2. CASE sig[e] # "local"
        BY <1>11, <4>2 DEF Functions, Answered
      <4> QED BY <4>1, <4>2
    <3>2. inbox' \in [Ends -> SUBSET Sent]
      BY <2>1 DEF Functions
    <3> QED BY <1>11, <3>1, <3>2 DEF Functions, Answered, lockVars,
                                     boundVars
  <2>3. Versions'
    BY <1>11, <2>1 DEF Functions, Versions, Version, Answered, lockVars,
                       boundVars
  <2>4. Sided'
    BY <1>11, <2>1 DEF Functions, Sided, Passive, Answering, Answered,
                       lockVars, boundVars
  <2> QED BY <2>2, <2>3, <2>4
<1>12. CASE UNCHANGED sdpVars
  <2>1. Functions' /\ Versions'
    BY <1>12 DEF Functions, Versions, Version, sdpVars
  <2>2. Sided'
    BY <1>12 DEF Sided, Passive, Answering, sdpVars
  <2> QED BY <2>1, <2>2
<1> QED BY <1>1, <1>2, <1>3, <1>4, <1>5, <1>6, <1>7, <1>8, <1>9, <1>10, <1>11, <1>12
        DEF SdpNext, HandleSdp

-----------------------------------------------------------------------------
\* The strengthened invariant holds throughout: it says of an end without streams
\* and restarts of its own what it and the other end may be waiting for.
THEOREM SdpInductive == SdpSpec => []SdpInv
BY SdpFirst, SdpStep, PTL DEF SdpSpec

\* The state keeps its types; in particular no offer, outstanding, applied or on
\* its way (spawn_rdesk_renegotiation and the handlers), is ahead of the tracks of its end.
THEOREM SdpTypeCorrect == SdpSpec => []SdpTypeOK
<1>1. SdpInv => SdpTypeOK
  <2> SUFFICES ASSUME SdpInv PROVE SdpTypeOK
    OBVIOUS
  <2>1. \A e \in Ends : tracks[e] \in Nat /\ tracks[e] <= MaxChanges
    BY RenegotiationAssumption DEF SdpInv, Functions
  <2>2. \A e \in Ends : /\ offered[e] \in 0..MaxChanges /\ local[e] \in 0..MaxChanges
                         /\ remote[e] \in 0..MaxChanges /\ agreed[e] \in 0..tracks[e]
    BY <2>1, TwoEnds, RenegotiationAssumption DEF SdpInv, Functions, Versions, Version
  <2>3. ASSUME NEW e \in Ends, NEW m \in inbox[e] PROVE m \in SdpMessages
    <3>1. m \in Sent /\ (m.of <= tracks[e] \/ m.of <= tracks[Other(e)])
      BY DEF SdpInv, Functions, Versions, Version
    <3>2. m.of \in 0..MaxChanges
      BY <2>1, <3>1, TwoEnds, RenegotiationAssumption DEF Sent
    <3> QED BY <3>1, <3>2 DEF Sent, SdpMessages
  <2> QED BY <2>2, <2>3 DEF SdpInv, Functions, SdpTypeOK
<1> QED BY <1>1, SdpInductive, PTL

\* If one end only made offers, no message was lost and no call of the library failed
\* by itself, both ends are stable once all is quiet: no order in which the offers and
\* answers of spawn_rdesk_renegotiation are handled, no offer that is refused in the
\* wrong state, and no wait that times out, leaves an offer outstanding.
THEOREM Settled == SdpSpec => []SettlesStable
<1>1. SdpInv => SettlesStable
  <2> SUFFICES ASSUME SdpInv, Quiet, OneOfferer, ~lost, failures = 0
               PROVE  \A e \in Ends : sig[e] = "stable"
    BY DEF SettlesStable
  <2>1. PICK e \in Ends : Passive(e)
    BY DEF OneOfferer, Passive
  <2>2. Answering(e) /\ inbox[e] = {} /\ inbox[Other(e)] = {}
    BY <2>1, TwoEnds DEF SdpInv, Sided, Quiet
  <2>3. sig[e] = "stable" /\ sig[Other(e)] = "stable"
    BY <2>2, TwoEnds DEF SdpInv, Functions, Answering
  <2> QED BY <2>1, <2>3, TwoEnds
<1> QED BY <1>1, SdpInductive, PTL

\* Two ends that wait for answers nobody will send wait for ever: the handler of an
\* offer does not roll back, whatever is offered later.
THEOREM StaysWedged == SdpSpec => WedgedForever
<1>1. SdpInv /\ [SdpNext]_sdpVars => (Wedged => Wedged')
  <2> SUFFICES ASSUME SdpInv, [SdpNext]_sdpVars, Wedged PROVE Wedged'
    OBVIOUS
  <2>1. ASSUME NEW e \in Ends, SendOffer(e) PROVE Wedged'
    <3> DEFINE x == [what |-> "offer", of |-> offered[e], nr |-> offers[e], kind |-> kind[e]]
    <3>1. x.what = "offer"
      OBVIOUS
    <3>2. /\ inbox' = [inbox EXCEPT ![Other(e)] = @ \cup {x}]
          /\ sig' = [sig EXCEPT ![e] = "local"]
      BY <2>1 DEF SendOffer, SetLocalOffer
    <3> HIDE DEF x
    <3> QED BY <3>1, <3>2, TwoEnds DEF Wedged, SdpInv, Functions
  <2>2. CASE UNCHANGED <<sig, inbox>>
    BY <2>2 DEF Wedged
  <2>3. ASSUME NEW e \in Ends, NEW m \in inbox[e], HandleSdp(e, m) \/ LoseSignal(e, m)
        PROVE  Wedged'
    <3>1. sig[e] = "local" /\ m.what = "offer"
      BY <2>3 DEF Wedged
    <3>2. inbox' = [inbox EXCEPT ![e] = @ \ {m}] /\ sig' = sig
      BY <2>3, <3>1 DEF HandleSdp, SetRemoteOffer, SetRemote, TakesOffer, OfferFails,
                        SendAnswer, AnswerFails, Answered, AnswerNotApplied, LoseSignal,
                        pcVars
    <3> QED BY <3>2 DEF Wedged, SdpInv, Functions
  <2>4. ASSUME NEW e \in Ends, OfferRefused(e) PROVE Wedged'
    <3>1. inbox' = inbox /\ (sig' = sig \/ sig' = [sig EXCEPT ![e] = "local"])
      BY <2>4 DEF OfferRefused, SetLocalOffer
    <3> QED BY <3>1 DEF Wedged, SdpInv, Functions
  <2> QED BY <2>1, <2>2, <2>3, <2>4 DEF SdpNext, sdpVars, Change, Interrupt, TakeLock,
                                        CreateOffer, OfferNotMade, GiveBack, pcVars
<1> QED BY <1>1, SdpInductive, PTL DEF SdpSpec, WedgedForever

-----------------------------------------------------------------------------
\* The data channel, for any number of sending tasks and messages, of any lengths,
\* and any chunk size that fits the two-byte header: the peer gets the messages
\* whole, in the order in which their senders took the lock, until the channel closes.

\* The messages, whatever they contain, and their frames.
Data == Seq(Nat \X Nat)
Frames == [len : 0..(Word - 1), payload : Data]

\* The types of the channel's state, with those of its sequences.
ChannelTypes ==
    /\ max \in Sizes /\ open \in BOOLEAN /\ lock \in Writers \cup {Free}
    /\ todo \in [Writers -> Seq(Frames)]
    /\ \A w \in Writers : todo[w] # <<>> <=> lock = w
    /\ wire \in Seq(Frames) /\ buf \in Data
    /\ delivered \in Seq(Data) /\ expected \in Seq(Data)
    /\ started \in 0..MaxMsgs

\* What was delivered are the first messages that were expected.
Matching ==
    /\ Len(delivered) <= Len(expected)
    /\ \A k \in 1..Len(delivered) : delivered[k] = expected[k]

\* A frame that is pushed turns the buffer b into b2, and the number of delivered
\* messages d into d2; a message it completes is the next one expected.
Turns(f, b, d, b2, d2) ==
    LET r == Push(b, f, max)
    IN  /\ b2 = r.buf
        /\ IF r.done THEN d2 = d + 1 /\ d2 <= Len(expected) /\ r.msg = expected[d2]
                     ELSE d2 = d

\* The sender is at the i-th frame of message m, when the buffer is going to be b
\* and the number of delivered messages d.
Sending(m, i, b, d) ==
    /\ i <= Len(FrameChunks(m, max))
    /\ todo[lock] = SubSeq(FrameChunks(m, max), i, Len(FrameChunks(m, max)))
    /\ b = SubSeq(m, 1, (i - 1) * max)
    /\ IF m = <<>> THEN d = Len(expected)
                   ELSE d + 1 = Len(expected) /\ expected[d + 1] = m

\* What the receiver is going to have in its buffer, and how many messages it will
\* have delivered, after each frame that is on the wire.  It is then where the sender
\* is: between two messages, or in the middle of one.
Foreseen(B, D) ==
    LET n == Len(wire)
    IN  /\ B[0] = buf /\ D[0] = Len(delivered)
        /\ \A p \in 1..n : Turns(wire[p], B[p - 1], D[p - 1], B[p], D[p])
        /\ open /\ lock = Free => B[n] = <<>> /\ D[n] = Len(expected)
        /\ open /\ lock # Free =>
              \E m \in Data, i \in Nat \ {0} : Sending(m, i, B[n], D[n])

Foresight ==
    \E B \in [0..Len(wire) -> Data], D \in [0..Len(wire) -> Nat] : Foreseen(B, D)

\* The inductive invariant.
ChannelInv == ChannelTypes /\ Matching /\ Foresight

-----------------------------------------------------------------------------
\* A multiple of m, and a greater one.
LEMMA Times ==
    ASSUME NEW m \in Nat \ {0}, NEW a \in Int, NEW b \in Int, a < b
    PROVE  a * m + m <= b * m
<1>1. PICK k \in Nat : b = a + 1 + k
  <2>1. b - a - 1 \in Nat /\ b = a + 1 + (b - a - 1)
    OBVIOUS
  <2> QED BY <2>1
<1>2. b * m = a * m + m + k * m /\ k * m >= 0
  BY <1>1
<1>3. a * m \in Int /\ k * m \in Int /\ b * m \in Int
  BY <1>1
<1> QED BY <1>2, <1>3

\* The number q of chunks of at most m bytes: they hold all l bytes, the last but
\* one does not, and all are full if m divides l.
LEMMA Division ==
    ASSUME NEW l \in Nat, NEW m \in Nat \ {0}, NEW q, q = (l + m - 1) \div m
    PROVE  /\ q \in Nat /\ l <= q * m /\ q * m <= l + m - 1
           /\ l % m = 0 <=> q * m = l
<1> DEFINE d == l \div m
           r == l % m
<1>1. q \in Nat /\ q * m <= l + m - 1 /\ l + m - 1 < q * m + m
  <2>1. q \in Nat /\ q * m <= l + m - 1 /\ l + m - 1 < (q + 1) * m
    BY SMTT(30)
  <2> QED BY <2>1
<1>2. d \in Nat /\ r \in 0..m-1 /\ l = d * m + r
  BY SMTT(30)
<1> HIDE DEF d, r
<1>3. q * m \in Int /\ d * m \in Int
  BY <1>1, <1>2
<1>4. l <= q * m
  BY <1>1, <1>3
<1>5. ASSUME q * m = l PROVE r = 0
  <2>1. ~(d < q)
    BY <1>1, <1>2, <1>3, <1>5, Times
  <2>2. ~(q < d)
    BY <1>1, <1>2, <1>3, <1>5, Times
  <2>3. d = q
    BY <1>1, <1>2, <2>1, <2>2
  <2> QED BY <1>2, <1>3, <1>5, <2>3
<1>6. ASSUME r = 0 PROVE q * m = l
  <2>1. ~(d < q)
    BY <1>1, <1>2, <1>3, <1>6, Times
  <2>2. ~(q < d)
    BY <1>1, <1>2, <1>3, <1>6, Times
  <2>3. d = q
    BY <1>1, <1>2, <2>1, <2>2
  <2> QED BY <1>2, <1>3, <1>6, <2>3
<1> QED BY <1>1, <1>4, <1>5, <1>6 DEF r

\* A chunk of no more than m bytes, which continues what comes before it.
LEMMA ChunkFacts ==
    ASSUME NEW data \in Data, NEW m \in 1..(Word - 1), NEW i \in Nat \ {0},
           (i - 1) * m <= Len(data)
    PROVE  /\ Frame(ChunkAt(data, m, i)) \in Frames
           /\ Frame(ChunkAt(data, m, i)).len = Len(ChunkAt(data, m, i))
           /\ Frame(ChunkAt(data, m, i)).payload = ChunkAt(data, m, i)
           /\ i * m <= Len(data) =>
                 /\ Len(ChunkAt(data, m, i)) = m
                 /\ SubSeq(data, 1, (i - 1) * m) \o ChunkAt(data, m, i) = SubSeq(data, 1, i * m)
           /\ i * m > Len(data) =>
                 /\ Len(ChunkAt(data, m, i)) = Len(data) - (i - 1) * m
                 /\ Len(ChunkAt(data, m, i)) < m
                 /\ SubSeq(data, 1, (i - 1) * m) \o ChunkAt(data, m, i) = data
<1> DEFINE k == (i - 1) * m
           n == IF i * m < Len(data) THEN i * m ELSE Len(data)
           c == ChunkAt(data, m, i)
<1>1. m \in Nat \ {0} /\ m < Word /\ Word \in Nat
  BY ChunkingAssumption
<1>2. /\ k \in Nat /\ i * m \in Nat /\ i * m = k + m /\ k <= Len(data)
      /\ Len(data) \in Nat
  <2>1. Len(data) \in Nat
    BY DEF Data
  <2>2. i - 1 \in Nat /\ i = (i - 1) + 1
    OBVIOUS
  <2>3. k \in Nat /\ i * m = (i - 1) * m + m
    BY <1>1, <2>2
  <2> QED BY <1>1, <2>1, <2>3
<1>3. n \in k..Len(data) /\ n - k <= m
  BY <1>1, <1>2
<1>4. c = SubSeq(data, k + 1, n)
  BY DEF ChunkAt
<1>5. i * m <= Len(data) => n = i * m
  BY <1>2
<1>6. i * m > Len(data) => n = Len(data)
  BY <1>2
<1> HIDE DEF k, n, c
<1>7. data \in Seq(Nat \X Nat)
  BY DEF Data
<1>8. c \in Data /\ Len(c) = n - k
  <2>1. \A j \in (k + 1)..n : data[j] \in Nat \X Nat
    BY <1>2, <1>3, <1>7, ElementOfSeq
  <2>2. k + 1 \in Int /\ n \in Int
    BY <1>2, <1>3
  <2>3. SubSeq(data, k + 1, n) \in Seq(Nat \X Nat)
    BY <2>1, <2>2, SubSeqProperties
  <2>4. Len(SubSeq(data, k + 1, n)) = IF k + 1 <= n THEN n - (k + 1) + 1 ELSE 0
    BY <2>1, <2>2, SubSeqProperties
  <2> QED BY <1>2, <1>3, <1>4, <2>3, <2>4 DEF Data
<1>9. SubSeq(data, 1, k) \o c = SubSeq(data, 1, n)
  <2>1. 1 \in 1..(Len(data) + 1) /\ k \in (1 - 1)..Len(data) /\ n \in k..Len(data)
    BY <1>2, <1>3
  <2> QED BY <1>4, <1>7, <2>1, ConcatAdjacentSubSeq
<1>10. Frame(c) = [len |-> Len(c), payload |-> c] /\ Len(c) \in 0..(Word - 1)
  <2>1. Len(c) \in 0..(Word - 1)
    BY <1>1, <1>2, <1>3, <1>8
  <2>2. Len(c) % Word = Len(c)
    BY <1>1, <2>1
  <2> QED BY <2>1, <2>2 DEF Frame
<1>11. SubSeq(data, 1, Len(data)) = data
  BY <1>7, SubSeqFull
<1>12. Frame(c) \in Frames /\ Frame(c).len = Len(c) /\ Frame(c).payload = c
  BY <1>8, <1>10 DEF Frames
<1>13. ASSUME i * m <= Len(data)
       PROVE  Len(c) = m /\ SubSeq(data, 1, k) \o c = SubSeq(data, 1, i * m)
  BY <1>1, <1>2, <1>5, <1>8, <1>9, <1>13
<1>14. ASSUME i * m > Len(data)
       PROVE  Len(c) = Len(data) - k /\ Len(c) < m /\ SubSeq(data, 1, k) \o c = data
  BY <1>1, <1>2, <1>6, <1>8, <1>9, <1>11, <1>14
<1> QED BY <1>12, <1>13, <1>14 DEF c, k

\* The frames of a message: q chunks, all of them full but perhaps the last, and a
\* terminator if that is full too.
LEMMA FramesOf ==
    ASSUME NEW data \in Data, NEW m \in 1..(Word - 1)
    PROVE  \E q \in Nat :
              /\ FrameChunks(data, m) \in Seq(Frames)
              /\ \A i \in 1..q : /\ FrameChunks(data, m)[i] = Frame(ChunkAt(data, m, i))
                                 /\ (i - 1) * m < Len(data)
                                 /\ i < q => i * m <= Len(data)
              /\ \/ q * m = Len(data) /\ Len(FrameChunks(data, m)) = q + 1
                    /\ FrameChunks(data, m)[q + 1] = Terminator
                 \/ q * m > Len(data) /\ Len(FrameChunks(data, m)) = q /\ q # 0
<1> DEFINE q == (Len(data) + m - 1) \div m
           chunks == [i \in 1..q |-> Frame(ChunkAt(data, m, i))]
<1>1. m \in Nat \ {0} /\ Len(data) \in Nat /\ Word \in Nat
  BY ChunkingAssumption DEF Data
<1>2. FrameChunks(data, m) = IF Len(data) % m = 0 THEN Append(chunks, Terminator) ELSE chunks
  BY <1>1 DEF FrameChunks, AtLeastOne
<1>3. /\ q \in Nat /\ Len(data) <= q * m /\ q * m <= Len(data) + m - 1
      /\ Len(data) % m = 0 <=> q * m = Len(data)
  BY <1>1, Division
<1> HIDE DEF q
<1>4. q * m \in Int
  BY <1>1, <1>3
<1>5. ASSUME NEW i \in 1..q
      PROVE  (i - 1) * m < Len(data) /\ (i < q => i * m <= Len(data))
  <2>1. i - 1 \in Int /\ i - 1 < q /\ q \in Int /\ i \in Int /\ (i - 1) * m \in Int /\ i * m \in Int
    BY <1>1, <1>3
  <2>2. (i - 1) * m + m <= q * m
    BY <1>1, <2>1, Times
  <2>3. i < q => i * m + m <= q * m
    BY <1>1, <2>1, Times
  <2> QED BY <1>1, <1>3, <1>4, <2>1, <2>2, <2>3
<1>6. ASSUME NEW i \in 1..q PROVE Frame(ChunkAt(data, m, i)) \in Frames
  <2>1. (i - 1) * m <= Len(data) /\ i \in Nat \ {0}
    <3>1. (i - 1) * m \in Int
      BY <1>1, <1>3
    <3> QED BY <1>1, <1>3, <1>5, <3>1
  <2> QED BY <2>1, ChunkFacts
<1>7. /\ chunks \in Seq(Frames) /\ Len(chunks) = q
      /\ \A i \in 1..q : chunks[i] = Frame(ChunkAt(data, m, i))
  BY <1>3, <1>6
<1> HIDE DEF chunks
<1>8. Terminator \in Frames
  BY ChunkingAssumption, EmptySeq DEF Terminator, Frames, Data
<1>9. /\ Append(chunks, Terminator) \in Seq(Frames)
      /\ Len(Append(chunks, Terminator)) = q + 1
      /\ Append(chunks, Terminator)[q + 1] = Terminator
      /\ \A i \in 1..q : Append(chunks, Terminator)[i] = chunks[i]
  BY <1>7, <1>8, AppendProperties
<1>10. CASE q * m = Len(data)
  BY <1>2, <1>3, <1>5, <1>7, <1>9, <1>10
<1>11. CASE q * m # Len(data)
  <2>1. q * m > Len(data) /\ q # 0
    <3>1. q * m > Len(data)
      BY <1>1, <1>3, <1>4, <1>11
    <3> QED BY <1>1, <3>1
  <2> QED BY <1>2, <1>3, <1>5, <1>7, <1>11, <2>1
<1> QED BY <1>10, <1>11

\* What the assembler makes of a frame whose length is right.
LEMMA Pushed ==
    ASSUME NEW b, NEW f \in Frames, NEW m \in Nat \ {0}, NEW r, r = Push(b, f, m),
           f.len = Len(f.payload)
    PROVE  /\ f.len = 0 =>
                 r = [buf |-> <<>>, done |-> IF b = <<>> THEN FALSE ELSE TRUE, msg |-> b]
           /\ f.len # 0 /\ f.len < m =>
                 r = [buf |-> <<>>, done |-> TRUE, msg |-> b \o f.payload]
           /\ f.len = m => r = [buf |-> b \o f.payload, done |-> FALSE, msg |-> <<>>]
<1> DEFINE l == f.len
           p == f.payload
<1>1. l \in Nat /\ p \in Seq(Nat \X Nat) /\ m \in Nat /\ m # 0 /\ l = Len(p)
  BY ChunkingAssumption DEF Frames, Data
<1>2. SubSeq(p, 1, l) = p
  BY <1>1, SubSeqFull
<1>3. r = IF l = 0 THEN [buf |-> <<>>, done |-> b # <<>>, msg |-> b]
          ELSE IF l > Len(p) THEN [buf |-> <<>>, done |-> FALSE, msg |-> <<>>]
          ELSE IF l < (IF m = 0 THEN Default ELSE m)
               THEN [buf |-> <<>>, done |-> TRUE, msg |-> b \o SubSeq(p, 1, l)]
          ELSE [buf |-> b \o SubSeq(p, 1, l), done |-> FALSE, msg |-> <<>>]
  BY Zenon DEF Push
<1> HIDE DEF l, p
<1>4. ~(l > Len(p)) /\ (IF m = 0 THEN Default ELSE m) = m
  BY <1>1
<1>5. CASE l = 0
  <2>1. l # m
    BY <1>1, <1>5
  <2>2. r = [buf |-> <<>>, done |-> b # <<>>, msg |-> b]
    BY <1>3, <1>5, Zenon
  <2>3. (b # <<>>) = IF b = <<>> THEN FALSE ELSE TRUE
    OBVIOUS
  <2>4. r = [buf |-> <<>>, done |-> IF b = <<>> THEN FALSE ELSE TRUE, msg |-> b]
    BY <2>2, <2>3
  <2> QED BY <1>5, <2>1, <2>4, Zenon DEF l, p
<1>6. CASE l # 0 /\ l < m
  <2>1. l # m
    BY <1>1, <1>6
  <2> QED BY <1>2, <1>3, <1>4, <1>6, <2>1, Zenon DEF l, p
<1>7. CASE l = m
  <2>1. ~(l < m) /\ l # 0
    BY <1>1, <1>7
  <2> QED BY <1>2, <1>3, <1>4, <1>7, <2>1, Zenon DEF l, p
<1>8. CASE l > m
  <2>1. l # 0 /\ ~(l < m) /\ l # m
    BY <1>1, <1>8
  <2> QED BY <2>1, Zenon DEF l
<1>9. l = 0 \/ (l # 0 /\ l < m) \/ l = m \/ l > m
  BY <1>1
<1> QED BY <1>5, <1>6, <1>7, <1>8, <1>9, Zenon

\* What the assembler makes of the i-th frame of a message, when it has the bytes
\* before: the bytes with those of the frame, or the message if the frame is the last.
LEMMA FrameTaken ==
    ASSUME NEW data \in Data, NEW m \in 1..(Word - 1), NEW i \in 1..Len(FrameChunks(data, m)),
           NEW r, r = Push(SubSeq(data, 1, (i - 1) * m), FrameChunks(data, m)[i], m)
    PROVE  /\ i < Len(FrameChunks(data, m)) =>
                 ~r.done /\ r.buf = SubSeq(data, 1, i * m) /\ i * m <= Len(data)
           /\ i = Len(FrameChunks(data, m)) =>
                 /\ r.buf = <<>> /\ (r.done <=> data # <<>>)
                 /\ r.done => r.msg = data
<1> DEFINE n == Len(FrameChunks(data, m))
           f == FrameChunks(data, m)[i]
           b == SubSeq(data, 1, (i - 1) * m)
<1>1. PICK q \in Nat :
              /\ FrameChunks(data, m) \in Seq(Frames)
              /\ \A j \in 1..q : /\ FrameChunks(data, m)[j] = Frame(ChunkAt(data, m, j))
                                 /\ (j - 1) * m < Len(data)
                                 /\ j < q => j * m <= Len(data)
              /\ \/ q * m = Len(data) /\ n = q + 1
                    /\ FrameChunks(data, m)[q + 1] = Terminator
                 \/ q * m > Len(data) /\ n = q /\ q # 0
  BY FramesOf
<1>2. /\ m \in Nat \ {0} /\ Len(data) \in Nat /\ data \in Seq(Nat \X Nat)
      /\ SubSeq(data, 1, Len(data)) = data
  <2>1. data \in Seq(Nat \X Nat)
    BY DEF Data
  <2> QED BY <2>1, SubSeqFull, ChunkingAssumption
<1>3. /\ n \in Nat /\ i \in Nat \ {0} /\ i <= n
      /\ (i - 1) * m \in Int /\ i * m \in Int /\ q * m \in Int
  <2>1. n \in Nat
    BY <1>1
  <2>2. i \in Nat \ {0} /\ i <= n
    BY <2>1
  <2> QED BY <1>2, <2>1, <2>2
<1>4. f \in Frames
  BY <1>1, <1>3, ElementOfSeq
<1>5. r = Push(b, f, m)
  OBVIOUS
<1>6. ASSUME i <= q
      PROVE  /\ f = Frame(ChunkAt(data, m, i)) /\ (i - 1) * m < Len(data)
             /\ i < q => i * m <= Len(data)
  <2>1. i \in 1..q
    BY <1>3, <1>6
  <2>2. \A j \in 1..q : /\ FrameChunks(data, m)[j] = Frame(ChunkAt(data, m, j))
                        /\ (j - 1) * m < Len(data)
                        /\ j < q => j * m <= Len(data)
    BY <1>1, Zenon
  <2> QED BY <2>1, <2>2, Zenon DEF f
<1>7. ASSUME i <= q
      PROVE  /\ f.len = Len(f.payload)
             /\ i * m <= Len(data) => f.len = m /\ b \o f.payload = SubSeq(data, 1, i * m)
             /\ i * m > Len(data) =>
                   /\ f.len = Len(data) - (i - 1) * m /\ f.len < m
                   /\ b \o f.payload = data
  <2>1. (i - 1) * m <= Len(data)
    BY <1>2, <1>3, <1>6, <1>7
  <2>2. /\ Frame(ChunkAt(data, m, i)).len = Len(ChunkAt(data, m, i))
        /\ Frame(ChunkAt(data, m, i)).payload = ChunkAt(data, m, i)
        /\ i * m <= Len(data) =>
              /\ Len(ChunkAt(data, m, i)) = m
              /\ SubSeq(data, 1, (i - 1) * m) \o ChunkAt(data, m, i) = SubSeq(data, 1, i * m)
        /\ i * m > Len(data) =>
              /\ Len(ChunkAt(data, m, i)) = Len(data) - (i - 1) * m
              /\ Len(ChunkAt(data, m, i)) < m
              /\ SubSeq(data, 1, (i - 1) * m) \o ChunkAt(data, m, i) = data
    BY <1>3, <2>1, ChunkFacts
  <2> HIDE DEF f
  <2>3. f.len = Len(ChunkAt(data, m, i)) /\ f.payload = ChunkAt(data, m, i)
    BY <1>6, <1>7, <2>2
  <2> QED BY <2>2, <2>3
<1> HIDE DEF n, f, b
<1>8. ASSUME i <= q, i * m <= Len(data)
      PROVE  ~r.done /\ r.buf = SubSeq(data, 1, i * m)
  <2>1. f.len = Len(f.payload) /\ f.len = m /\ b \o f.payload = SubSeq(data, 1, i * m)
    BY <1>7, <1>8
  <2>2. r = [buf |-> b \o f.payload, done |-> FALSE, msg |-> <<>>]
    BY <1>2, <1>4, <1>5, <2>1, Pushed, Zenon
  <2> QED BY <2>1, <2>2
<1>9. ASSUME i <= q, i * m > Len(data)
      PROVE  r.buf = <<>> /\ r.done /\ r.msg = data /\ data # <<>>
  <2>1. /\ f.len = Len(data) - (i - 1) * m /\ f.len < m /\ f.len = Len(f.payload)
        /\ b \o f.payload = data
    BY <1>7, <1>9
  <2>2. f.len # 0
    <3>1. (i - 1) * m < Len(data)
      BY <1>6, <1>9
    <3>2. Len(data) - (i - 1) * m # 0
      <4> DEFINE k == (i - 1) * m
      <4>1. k \in Int /\ Len(data) \in Int /\ k < Len(data)
        BY <1>2, <1>3, <3>1
      <4> HIDE DEF k
      <4>2. Len(data) - k # 0
        BY <4>1
      <4> QED BY <4>2 DEF k
    <3> QED BY <2>1, <3>2, Zenon
  <2>3. r = [buf |-> <<>>, done |-> TRUE, msg |-> b \o f.payload]
    BY <1>2, <1>4, <1>5, <2>1, <2>2, Pushed, Zenon
  <2>4. Len(data) # 0
    <3>1. i - 1 \in Nat /\ (i - 1) * m >= 0
      BY <1>2, <1>3
    <3> QED BY <1>2, <1>3, <1>6, <1>9, <3>1
  <2>5. data # <<>>
    BY <2>4, EmptySeq
  <2> QED BY <2>1, <2>3, <2>5
<1>10. ASSUME i = q + 1, q * m = Len(data), f = Terminator
       PROVE  r.buf = <<>> /\ (r.done <=> data # <<>>) /\ (r.done => r.msg = data)
  <2>1. (i - 1) * m = Len(data)
    <3>1. i - 1 = q
      BY <1>3, <1>10
    <3> QED BY <1>10, <3>1
  <2>2. b = data
    BY <1>2, <2>1 DEF b
  <2>3. f.len = 0 /\ Len(f.payload) = 0
    BY <1>10, EmptySeq DEF Terminator
  <2>4. r = [buf |-> <<>>, done |-> IF b = <<>> THEN FALSE ELSE TRUE, msg |-> b]
    BY <1>2, <1>4, <1>5, <2>3, Pushed, Zenon
  <2> QED BY <2>2, <2>4
<1>11. CASE n = q + 1
  <2>1. q * m = Len(data) /\ FrameChunks(data, m)[q + 1] = Terminator
    BY <1>1, <1>11
  <2>2. CASE i = q + 1
    <3>1. f = Terminator
      BY <2>1, <2>2 DEF f
    <3>2. ~(i < n) /\ i = n
      BY <1>3, <1>11, <2>2
    <3> QED BY <1>10, <2>1, <2>2, <3>1, <3>2 DEF n
  <2>3. CASE i # q + 1
    <3>1. i <= q /\ i < n
      BY <1>3, <1>11, <2>3
    <3>2. i * m <= Len(data)
      <4>1. CASE i = q
        BY <2>1, <4>1, <1>2
      <4>2. CASE i < q
        BY <1>6, <3>1, <4>2
      <4> QED BY <1>3, <3>1, <4>1, <4>2
    <3>3. i # n
      BY <1>3, <3>1
    <3> QED BY <1>8, <3>1, <3>2, <3>3 DEF n
  <2> QED BY <2>2, <2>3
<1>12. CASE n = q
  <2>1. q * m > Len(data) /\ i <= q
    BY <1>1, <1>3, <1>12
  <2>2. CASE i = q
    <3>1. ~(i < n) /\ i = n /\ i * m > Len(data)
      BY <1>3, <1>12, <2>1, <2>2
    <3>2. r.buf = <<>> /\ r.done /\ r.msg = data /\ data # <<>>
      BY <1>9, <2>1, <3>1
    <3> QED BY <3>1, <3>2 DEF n
  <2>3. CASE i # q
    <3>1. i < q /\ i # n
      BY <1>3, <1>12, <2>1, <2>3
    <3>2. i * m <= Len(data)
      BY <1>6, <2>1, <3>1
    <3> QED BY <1>8, <2>1, <3>1, <3>2 DEF n
  <2> QED BY <2>2, <2>3
<1> QED BY <1>1, <1>11, <1>12

-----------------------------------------------------------------------------
\* Nothing is on the wire and nothing is expected.
LEMMA ChannelFirst == Init => ChannelInv
<1> SUFFICES ASSUME Init PROVE ChannelInv
  OBVIOUS
<1>1. <<>> \in Data /\ <<>> \in Seq(Data) /\ <<>> \in Seq(Frames) /\ Len(<<>>) = 0
  BY EmptySeq DEF Data
<1>2. ChannelTypes
  BY <1>1, ChannelAssumption DEF Init, ChannelTypes
<1>3. Matching
  BY <1>1 DEF Init, Matching
<1>4. Foresight
  <2> DEFINE B == [p \in 0..0 |-> <<>>]
             D == [p \in 0..0 |-> 0]
  <2>1. Len(wire) = 0 /\ Len(delivered) = 0 /\ Len(expected) = 0 /\ lock = Free /\ buf = <<>>
    BY <1>1 DEF Init
  <2>2. B \in [0..Len(wire) -> Data] /\ D \in [0..Len(wire) -> Nat]
    BY <1>1, <2>1
  <2>3. B[0] = <<>> /\ D[0] = 0
    OBVIOUS
  <2> HIDE DEF B, D
  <2>4. Foreseen(B, D)
    BY <2>1, <2>3 DEF Foreseen
  <2> QED BY <2>2, <2>4 DEF Foresight
<1> QED BY <1>2, <1>3, <1>4 DEF ChannelInv

\* A message that is cut has frames, so the lock is not taken for nothing.
LEMMA Cut ==
    ASSUME NEW data \in Data, NEW m \in 1..(Word - 1)
    PROVE  /\ FrameChunks(data, m) \in Seq(Frames)
           /\ Len(FrameChunks(data, m)) \in Nat \ {0}
           /\ FrameChunks(data, m) # <<>>
<1>1. PICK q \in Nat :
          /\ FrameChunks(data, m) \in Seq(Frames)
          /\ \/ q * m = Len(data) /\ Len(FrameChunks(data, m)) = q + 1
             \/ q * m > Len(data) /\ Len(FrameChunks(data, m)) = q /\ q # 0
  BY FramesOf, Zenon
<1>2. Len(FrameChunks(data, m)) \in Nat \ {0}
  BY <1>1
<1> QED BY <1>1, <1>2, EmptySeq

\* A task takes the lock: it is at the first frame of its message.
LEMMA AcquireStep ==
    ASSUME ChannelInv, NEW w \in Writers, NEW length \in Lengths, Acquire(w, length)
    PROVE  ChannelInv'
<1> PICK n, data : n = Len(wire) /\ data = Message(started + 1, length)
  OBVIOUS
<1>1. ChannelTypes /\ max \in 1..(Word - 1)
  BY ChannelAssumption DEF ChannelInv, ChannelTypes
<1>2. data \in Data /\ Len(data) = length /\ length \in Nat
  <2>1. length \in Nat /\ started + 1 \in Nat
    BY <1>1, ChannelAssumption DEF ChannelTypes
  <2>2. \A i \in 1..length : <<started + 1, i>> \in Nat \X Nat
    BY <2>1
  <2> QED BY <2>1, <2>2 DEF Message, Data
<1>3. data = <<>> <=> length = 0
  BY <1>2, EmptySeq DEF Data
<1>4. PICK fc \in Seq(Frames) :
         fc = FrameChunks(data, max) /\ Len(fc) \in Nat \ {0} /\ fc # <<>>
  BY <1>1, <1>2, Cut
<1>5. /\ lock = Free /\ lock' = w /\ w # Free /\ todo' = [todo EXCEPT ![w] = fc]
      /\ started' = started + 1 /\ started < MaxMsgs
      /\ expected' = IF length = 0 THEN expected ELSE Append(expected, data)
      /\ UNCHANGED <<max, open, wire, buf, delivered>>
  BY <1>4, ChannelAssumption DEF Acquire
<1>6. /\ expected' \in Seq(Data) /\ Len(expected) \in Nat /\ Len(expected') \in Nat
      /\ Len(expected) <= Len(expected')
      /\ \A k \in 1..Len(expected) : expected'[k] = expected[k]
  BY <1>1, <1>2, <1>5 DEF ChannelTypes
<1>7. /\ todo \in [Writers -> Seq(Frames)] /\ todo' \in [Writers -> Seq(Frames)]
      /\ todo'[w] = fc /\ \A v \in Writers : v # w => todo'[v] = <<>>
  <2>1. todo \in [Writers -> Seq(Frames)] /\ \A v \in Writers : todo[v] # <<>> => lock = v
    BY <1>1 DEF ChannelTypes
  <2>2. \A v \in Writers : todo[v] = <<>>
    BY <1>5, <2>1, ChannelAssumption
  <2> QED BY <1>4, <1>5, <2>1, <2>2
<1>8. ChannelTypes'
  <2>1. started' \in 0..MaxMsgs
    BY <1>1, <1>5, ChannelAssumption DEF ChannelTypes
  <2> QED BY <1>1, <1>4, <1>5, <1>6, <1>7, <2>1 DEF ChannelTypes
<1>9. Matching'
  <2>1. Len(delivered) \in Nat /\ Matching
    BY <1>1 DEF ChannelTypes, ChannelInv
  <2> QED BY <1>5, <1>6, <2>1 DEF Matching
<1>10. PICK B \in [0..n -> Data], D \in [0..n -> Nat] : Foreseen(B, D)
  BY DEF ChannelInv, Foresight
<1>11. n \in Nat /\ n = Len(wire')
  BY <1>1, <1>5 DEF ChannelTypes
<1>12. \A p \in 1..n : Turns(wire[p], B[p - 1], D[p - 1], B[p], D[p])
  BY <1>10 DEF Foreseen
<1>13. ASSUME NEW p \in 1..n
       PROVE  Turns(wire[p], B[p - 1], D[p - 1], B[p], D[p])'
  <2>1. Turns(wire[p], B[p - 1], D[p - 1], B[p], D[p])
    BY <1>12
  <2>2. wire'[p] = wire[p] /\ max' = max
    BY <1>5
  <2>3. D[p - 1] \in Nat
    <3>1. p - 1 \in 0..n
      BY <1>11
    <3> QED BY <3>1
  <2> QED BY <1>6, <2>1, <2>2, <2>3 DEF Turns
<1>14. ASSUME open
       PROVE  Sending(data, 1, B[n], D[n])'
  <2>1. B[n] = <<>> /\ D[n] = Len(expected)
    BY <1>5, <1>10, <1>14 DEF Foreseen
  <2>2. SubSeq(fc, 1, Len(fc)) = fc
    BY <1>4, SubSeqFull
  <2>3. SubSeq(data, 1, (1 - 1) * max) = <<>>
    BY <1>1, SubSeqEmpty
  <2>4. IF data = <<>> THEN D[n] = Len(expected')
                       ELSE D[n] + 1 = Len(expected') /\ expected'[D[n] + 1] = data
    BY <1>1, <1>2, <1>3, <1>5, <2>1 DEF ChannelTypes
  <2>5. /\ FrameChunks(data, max') = fc /\ SubSeq(data, 1, (1 - 1) * max') = <<>>
        /\ todo'[lock'] = fc /\ 1 <= Len(fc)
    BY <1>4, <1>5, <1>7, <2>3
  <2> QED BY <2>1, <2>2, <2>4, <2>5, Zenon DEF Sending
<1>15. Foreseen(B, D)'
  <2>1. B[0] = buf /\ D[0] = Len(delivered)
    BY <1>10 DEF Foreseen
  <2> QED BY <1>2, <1>5, <1>11, <1>13, <1>14, <2>1 DEF Foreseen
<1>16. Foresight'
  BY <1>5, <1>10, <1>15 DEF Foresight
<1> QED BY <1>8, <1>9, <1>16 DEF ChannelInv

\* A task sends a frame, the i-th of its message: the assembler is going to have one
\* frame more.
LEMMA SendStep ==
    ASSUME ChannelInv, NEW w \in Writers, SendFrame(w)
    PROVE  ChannelInv'
<1> PICK n : n = Len(wire)
  OBVIOUS
<1>1. ChannelTypes /\ max \in 1..(Word - 1) /\ n \in Nat /\ Len(expected) \in Nat
  BY ChannelAssumption DEF ChannelInv, ChannelTypes
<1>2. PICK B \in [0..n -> Data], D \in [0..n -> Nat] : Foreseen(B, D)
  BY DEF ChannelInv, Foresight
<1>3. lock = w /\ lock # Free /\ open
  BY <1>1, ChannelAssumption DEF SendFrame, ChannelTypes
<1>4. PICK data \in Data, i \in Nat \ {0} : Sending(data, i, B[n], D[n])
  BY <1>2, <1>3 DEF Foreseen
<1>5. PICK fc : fc = FrameChunks(data, max)
  OBVIOUS
<1>6. /\ fc \in Seq(Frames) /\ i \in 1..Len(fc) /\ fc[i] \in Frames /\ Len(fc) \in Nat
      /\ todo[w] = SubSeq(fc, i, Len(fc))
      /\ B[n] = SubSeq(data, 1, (i - 1) * max)
      /\ IF data = <<>> THEN D[n] = Len(expected)
                        ELSE D[n] + 1 = Len(expected) /\ expected[D[n] + 1] = data
  <2>1. fc \in Seq(Frames) /\ Len(fc) \in Nat
    BY <1>1, <1>5, Cut
  <2>2. i \in 1..Len(fc)
    BY <1>4, <1>5, <2>1 DEF Sending
  <2>3. fc[i] \in Frames
    BY <2>1, <2>2, ElementOfSeq
  <2> QED BY <1>3, <1>4, <1>5, <2>1, <2>2, <2>3, Zenon DEF Sending
<1>7. PICK r : r = Push(B[n], fc[i], max)
  OBVIOUS
<1>8. /\ i < Len(fc) =>
            ~r.done /\ r.buf = SubSeq(data, 1, i * max) /\ i * max <= Len(data)
      /\ i = Len(fc) => /\ r.buf = <<>> /\ (r.done <=> data # <<>>)
                        /\ r.done => r.msg = data
  <2>1. r = Push(SubSeq(data, 1, (i - 1) * max), FrameChunks(data, max)[i], max)
    BY <1>5, <1>6, <1>7, Zenon
  <2>2. i \in 1..Len(FrameChunks(data, max))
    BY <1>5, <1>6
  <2>3. /\ i < Len(FrameChunks(data, max)) =>
              ~r.done /\ r.buf = SubSeq(data, 1, i * max) /\ i * max <= Len(data)
        /\ i = Len(FrameChunks(data, max)) =>
              /\ r.buf = <<>> /\ (r.done <=> data # <<>>)
              /\ r.done => r.msg = data
    BY <1>1, <2>1, <2>2, FrameTaken
  <2> QED BY <1>5, <2>3
<1>9. /\ Head(todo[w]) = fc[i] /\ Tail(todo[w]) = SubSeq(fc, i + 1, Len(fc))
      /\ Len(todo[w]) = Len(fc) - i + 1
  <2>1. Len(fc) \in i..Len(fc)
    BY <1>6
  <2>2. /\ Head(SubSeq(fc, i, Len(fc))) = fc[i]
        /\ Tail(SubSeq(fc, i, Len(fc))) = SubSeq(fc, i + 1, Len(fc))
    BY <1>6, <2>1, HeadTailOfSubSeq
  <2>3. Len(SubSeq(fc, i, Len(fc))) = Len(fc) - i + 1
    <3>1. \A j \in i..Len(fc) : fc[j] \in Frames
      BY <1>6, ElementOfSeq
    <3>2. i \in Int /\ Len(fc) \in Int /\ i <= Len(fc)
      BY <1>6
    <3>3. Len(SubSeq(fc, i, Len(fc))) = IF i <= Len(fc) THEN Len(fc) - i + 1 ELSE 0
      BY <3>1, <3>2, SubSeqProperties
    <3> QED BY <3>2, <3>3
  <2> QED BY <1>6, <2>2, <2>3
<1>10. /\ wire' = Append(wire, fc[i])
       /\ todo' = [todo EXCEPT ![w] = SubSeq(fc, i + 1, Len(fc))]
       /\ lock' = IF i = Len(fc) THEN Free ELSE w
       /\ UNCHANGED <<max, open, buf, delivered, started, expected>>
  <2>1. Len(todo[w]) = 1 <=> i = Len(fc)
    BY <1>6, <1>9
  <2> QED BY <1>3, <1>9, <2>1 DEF SendFrame
<1>11. /\ wire \in Seq(Frames) /\ wire' \in Seq(Frames) /\ Len(wire') = n + 1
       /\ wire'[n + 1] = fc[i] /\ \A p \in 1..n : wire'[p] = wire[p]
  BY <1>1, <1>6, <1>10 DEF ChannelTypes
<1>12. /\ SubSeq(fc, i + 1, Len(fc)) \in Seq(Frames)
       /\ SubSeq(fc, i + 1, Len(fc)) = <<>> <=> i = Len(fc)
  <2>1. \A j \in (i + 1)..Len(fc) : fc[j] \in Frames
    BY <1>6, ElementOfSeq
  <2>2. i + 1 \in Int /\ Len(fc) \in Int
    BY <1>6
  <2>3. SubSeq(fc, i + 1, Len(fc)) \in Seq(Frames)
    BY <2>1, <2>2, SubSeqProperties
  <2>4. Len(SubSeq(fc, i + 1, Len(fc))) = IF i + 1 <= Len(fc) THEN Len(fc) - (i + 1) + 1 ELSE 0
    BY <2>1, <2>2, SubSeqProperties
  <2>5. Len(SubSeq(fc, i + 1, Len(fc))) = 0 <=> i = Len(fc)
    BY <1>6, <2>4
  <2> QED BY <2>3, <2>5, EmptySeq
<1>13. ChannelTypes'
  <2>1. /\ todo \in [Writers -> Seq(Frames)]
        /\ \A v \in Writers : todo[v] # <<>> <=> lock = v
    BY <1>1 DEF ChannelTypes
  <2>2. todo' \in [Writers -> Seq(Frames)]
    BY <1>10, <1>12, <2>1
  <2>3. \A v \in Writers : todo'[v] # <<>> <=> lock' = v
    BY <1>3, <1>10, <1>12, <2>1, ChannelAssumption
  <2> QED BY <1>1, <1>10, <1>11, <2>2, <2>3 DEF ChannelTypes
<1>14. Matching'
  BY <1>10 DEF ChannelInv, Matching
<1> DEFINE e == IF r.done THEN D[n] + 1 ELSE D[n]
<1>15. PICK C \in [0..(n + 1) -> Data], E \in [0..(n + 1) -> Nat] :
          /\ \A p \in 0..n : C[p] = B[p] /\ E[p] = D[p]
          /\ C[n + 1] = r.buf /\ E[n + 1] = e
  <2>1. r.buf \in Data
    <3>1. CASE i = Len(fc)
      BY <1>8, <3>1, EmptySeq DEF Data
    <3>2. CASE i < Len(fc)
      <4>1. PICK k \in Int : k = i * max
        BY <1>1, ChunkingAssumption
      <4>2. k <= Len(data) /\ data \in Seq(Nat \X Nat) /\ Len(data) \in Nat
        BY <1>8, <3>2, <4>1 DEF Data
      <4>3. \A j \in 1..k : data[j] \in Nat \X Nat
        <5>1. \A j \in 1..k : j \in 1..Len(data)
          BY <4>2
        <5> QED BY <4>2, <5>1, ElementOfSeq
      <4>4. SubSeq(data, 1, k) \in Seq(Nat \X Nat)
        BY <4>3, SubSeqProperties
      <4> QED BY <1>8, <3>2, <4>1, <4>4 DEF Data
    <3> QED BY <1>6, <3>1, <3>2
  <2>2. e \in Nat /\ n \in 0..n
    BY <1>1
  <2> HIDE DEF e
  <2> DEFINE C == [p \in 0..(n + 1) |-> IF p = n + 1 THEN r.buf ELSE B[p]]
             E == [p \in 0..(n + 1) |-> IF p = n + 1 THEN e ELSE D[p]]
  <2>3. \A p \in 0..n : p # n + 1 /\ p \in 0..(n + 1)
    BY <1>1
  <2>4. n + 1 \in 0..(n + 1) /\ \A p \in 0..(n + 1) : p # n + 1 => p \in 0..n
    BY <1>1
  <2>5. C \in [0..(n + 1) -> Data] /\ E \in [0..(n + 1) -> Nat]
    BY <2>1, <2>2, <2>4
  <2>6. \A p \in 0..n : C[p] = B[p] /\ E[p] = D[p]
    BY <2>3
  <2>7. C[n + 1] = r.buf /\ E[n + 1] = e
    BY <2>4
  <2> HIDE DEF C, E
  <2> QED BY <2>5, <2>6, <2>7
<1>16. Turns(fc[i], B[n], D[n], r.buf, e)
  <2>1. CASE r.done
    <3>1. i = Len(fc) /\ r.msg = data /\ data # <<>>
      BY <1>6, <1>8, <2>1
    <3>2. D[n] + 1 = Len(expected) /\ expected[D[n] + 1] = data
      BY <1>6, <3>1
    <3> QED BY <1>1, <1>7, <2>1, <3>1, <3>2 DEF Turns
  <2>2. CASE ~r.done
    BY <1>7, <2>2 DEF Turns
  <2> QED BY <2>1, <2>2
<1> HIDE DEF e
<1>17. ASSUME NEW p \in 1..(n + 1)
       PROVE  Turns(wire[p], C[p - 1], E[p - 1], C[p], E[p])'
  <2>1. CASE p = n + 1
    <3>1. /\ C[p - 1] = B[n] /\ E[p - 1] = D[n] /\ C[p] = r.buf /\ E[p] = e
          /\ wire'[p] = fc[i]
      <4>1. p - 1 = n /\ n \in 0..n
        BY <1>1, <2>1
      <4> QED BY <1>11, <1>15, <2>1, <4>1
    <3> QED BY <1>10, <1>16, <3>1 DEF Turns
  <2>2. CASE p # n + 1
    <3>1. p \in 1..n /\ p - 1 \in 0..n /\ p \in 0..n
      BY <1>1, <2>2
    <3>2. Turns(wire[p], B[p - 1], D[p - 1], B[p], D[p])
      BY <1>2, <3>1 DEF Foreseen
    <3>3. /\ C[p - 1] = B[p - 1] /\ E[p - 1] = D[p - 1] /\ C[p] = B[p] /\ E[p] = D[p]
          /\ wire'[p] = wire[p]
      BY <1>11, <1>15, <3>1
    <3> QED BY <1>10, <3>2, <3>3 DEF Turns
  <2> QED BY <2>1, <2>2
<1>18. ASSUME i < Len(fc)
       PROVE  lock' = w /\ Sending(data, i + 1, r.buf, e)'
  <2>1. lock' = w /\ todo'[w] = SubSeq(fc, i + 1, Len(fc))
    <3>1. i # Len(fc) /\ todo \in [Writers -> Seq(Frames)]
      BY <1>1, <1>6, <1>18 DEF ChannelTypes
    <3> QED BY <1>10, <3>1
  <2>2. e = D[n] /\ r.buf = SubSeq(data, 1, i * max)
    BY <1>8, <1>18 DEF e
  <2>3. (i + 1) - 1 = i /\ i + 1 <= Len(fc)
    BY <1>6, <1>18
  <2> QED BY <1>5, <1>6, <1>10, <2>1, <2>2, <2>3, Zenon DEF Sending
<1>19. ASSUME i = Len(fc)
       PROVE  lock' = Free /\ r.buf = <<>> /\ e = Len(expected)
  BY <1>1, <1>6, <1>8, <1>10, <1>19 DEF e
<1>20. Foreseen(C, E)'
  <2>1. C[0] = B[0] /\ E[0] = D[0] /\ B[0] = buf /\ D[0] = Len(delivered)
    <3>1. 0 \in 0..n
      BY <1>1
    <3> QED BY <1>2, <1>15, <3>1 DEF Foreseen
  <2>2. lock' = Free => C[n + 1] = <<>> /\ E[n + 1] = Len(expected)
    <3>1. lock' = Free => i = Len(fc)
      BY <1>3, <1>10
    <3> QED BY <1>15, <1>19, <3>1
  <2>3. lock' # Free => \E m \in Data, j \in Nat \ {0} : Sending(m, j, C[n + 1], E[n + 1])'
    <3>1. lock' # Free => i < Len(fc)
      BY <1>6, <1>10
    <3>2. i + 1 \in Nat \ {0}
      OBVIOUS
    <3>3. ASSUME lock' # Free PROVE Sending(data, i + 1, C[n + 1], E[n + 1])'
      <4>1. Sending(data, i + 1, r.buf, e)'
        BY <1>18, <3>1, <3>3
      <4>2. C[n + 1] = r.buf /\ E[n + 1] = e
        BY <1>15
      <4> QED BY <4>1, <4>2, Zenon DEF Sending
    <3> QED BY <3>2, <3>3, Zenon
  <2> QED BY <1>10, <1>11, <1>17, <2>1, <2>2, <2>3 DEF Foreseen
<1>21. Foresight'
  BY <1>11, <1>15, <1>20 DEF Foresight
<1> QED BY <1>13, <1>14, <1>21 DEF ChannelInv

\* A frame is received: what was foreseen of it has happened.
LEMMA ReceiveStep ==
    ASSUME ChannelInv, ReceiveFrame
    PROVE  ChannelInv'
<1> PICK n : n = Len(wire)
  OBVIOUS
<1>1. ChannelTypes /\ Matching /\ wire \in Seq(Frames) /\ wire # <<>> /\ n \in Nat \ {0}
  BY EmptySeq DEF ChannelInv, ChannelTypes, ReceiveFrame
<1>2. PICK B \in [0..n -> Data], D \in [0..n -> Nat] : Foreseen(B, D)
  BY DEF ChannelInv, Foresight
<1>3. PICK r : r = Push(buf, wire[1], max)
  OBVIOUS
<1>4. /\ wire' = Tail(wire) /\ buf' = r.buf
      /\ delivered' = IF r.done THEN Append(delivered, r.msg) ELSE delivered
      /\ UNCHANGED <<max, open, lock, todo, started, expected>>
  <2>1. Head(wire) = wire[1]
    BY <1>1
  <2> QED BY <1>3, <2>1 DEF ReceiveFrame
<1>5. wire' \in Seq(Frames) /\ Len(wire') = n - 1 /\ \A p \in 1..(n - 1) : wire'[p] = wire[p + 1]
  BY <1>1, <1>4, HeadTailProperties
<1>6. Turns(wire[1], buf, Len(delivered), B[1], D[1])
  <2>1. 1 \in 1..n /\ 1 - 1 = 0
    BY <1>1
  <2>2. Turns(wire[1], B[1 - 1], D[1 - 1], B[1], D[1])
    BY <1>2, <2>1 DEF Foreseen
  <2> QED BY <1>2, <2>1, <2>2 DEF Foreseen
<1>7. B[1] \in Data /\ D[1] \in Nat
  <2>1. 1 \in 0..n
    BY <1>1
  <2> QED BY <2>1
<1>8. buf' = B[1] /\ buf' \in Data
  BY <1>3, <1>4, <1>6, <1>7 DEF Turns
<1>9. /\ delivered' \in Seq(Data) /\ Len(delivered') = D[1]
      /\ Matching'
  <2>1. delivered \in Seq(Data) /\ expected \in Seq(Data) /\ Len(delivered) \in Nat
    BY <1>1 DEF ChannelTypes
  <2>2. CASE r.done
    <3>1. /\ D[1] = Len(delivered) + 1 /\ D[1] <= Len(expected) /\ r.msg = expected[D[1]]
          /\ delivered' = Append(delivered, r.msg)
      BY <1>3, <1>4, <1>6, <2>2 DEF Turns
    <3>2. r.msg \in Data
      <4>1. D[1] \in 1..Len(expected)
        BY <1>7, <2>1, <3>1
      <4> QED BY <2>1, <3>1, <4>1, ElementOfSeq
    <3>3. /\ delivered' \in Seq(Data) /\ Len(delivered') = D[1]
          /\ delivered'[D[1]] = expected[D[1]]
          /\ \A k \in 1..Len(delivered) : delivered'[k] = delivered[k]
      BY <2>1, <3>1, <3>2
    <3> QED BY <1>1, <1>4, <2>1, <3>1, <3>3 DEF Matching
  <2>3. CASE ~r.done
    <3>1. D[1] = Len(delivered) /\ delivered' = delivered
      BY <1>3, <1>4, <1>6, <2>3 DEF Turns
    <3> QED BY <1>1, <1>4, <2>1, <3>1 DEF Matching
  <2> QED BY <2>2, <2>3
<1>10. ChannelTypes'
  BY <1>1, <1>4, <1>5, <1>8, <1>9 DEF ChannelTypes
<1> DEFINE C == [p \in 0..(n - 1) |-> B[p + 1]]
           E == [p \in 0..(n - 1) |-> D[p + 1]]
<1>11. \A p \in 0..(n - 1) : p + 1 \in 0..n /\ p + 1 \in 1..n
  BY <1>1
<1>12. C \in [0..(n - 1) -> Data] /\ E \in [0..(n - 1) -> Nat]
  BY <1>11
<1>13. \A p \in 0..(n - 1) : C[p] = B[p + 1] /\ E[p] = D[p + 1]
  OBVIOUS
<1> HIDE DEF C, E
<1>14. ASSUME NEW p \in 1..(n - 1)
       PROVE  Turns(wire[p], C[p - 1], E[p - 1], C[p], E[p])'
  <2>1. /\ p \in 0..(n - 1) /\ p - 1 \in 0..(n - 1) /\ p + 1 \in 1..n
        /\ (p + 1) - 1 = p /\ (p - 1) + 1 = p
    BY <1>1
  <2>2. Turns(wire[p + 1], B[(p + 1) - 1], D[(p + 1) - 1], B[p + 1], D[p + 1])
    BY <1>2, <2>1 DEF Foreseen
  <2>3. /\ C[p - 1] = B[p] /\ E[p - 1] = D[p] /\ C[p] = B[p + 1] /\ E[p] = D[p + 1]
        /\ wire'[p] = wire[p + 1]
    BY <1>5, <1>13, <2>1
  <2>4. Turns(wire[p + 1], B[p], D[p], B[p + 1], D[p + 1])
    BY <2>1, <2>2
  <2> QED BY <1>4, <2>3, <2>4 DEF Turns
<1>15. C[0] = B[1] /\ E[0] = D[1] /\ C[n - 1] = B[n] /\ E[n - 1] = D[n]
  <2>1. 0 \in 0..(n - 1) /\ n - 1 \in 0..(n - 1) /\ 0 + 1 = 1 /\ (n - 1) + 1 = n
    BY <1>1
  <2> QED BY <1>13, <2>1
<1>16. open /\ lock' # Free =>
          \E m \in Data, i \in Nat \ {0} : Sending(m, i, C[n - 1], E[n - 1])'
  <2> SUFFICES ASSUME open, lock' # Free
               PROVE  \E m \in Data, i \in Nat \ {0} : Sending(m, i, C[n - 1], E[n - 1])'
    OBVIOUS
  <2>1. PICK m \in Data, i \in Nat \ {0} : Sending(m, i, B[n], D[n])
    BY <1>2, <1>4 DEF Foreseen
  <2>2. Sending(m, i, C[n - 1], E[n - 1])'
    BY <1>4, <1>15, <2>1 DEF Sending
  <2> QED BY <2>2
<1>17. open /\ lock' = Free => C[n - 1] = <<>> /\ E[n - 1] = Len(expected')
  BY <1>2, <1>4, <1>15 DEF Foreseen
<1>18. Foreseen(C, E)'
  BY <1>4, <1>5, <1>8, <1>9, <1>14, <1>15, <1>16, <1>17 DEF Foreseen
<1>19. Foresight'
  BY <1>5, <1>12, <1>18 DEF Foresight
<1> QED BY <1>9, <1>10, <1>19 DEF ChannelInv

\* On a channel that is closed, or is closing, the sender has no part in what is
\* foreseen.
LEMMA ClosedStep ==
    ASSUME ChannelInv, ~open', ChannelTypes',
           UNCHANGED <<max, wire, buf, delivered, expected>>
    PROVE  ChannelInv'
<1>1. PICK n : n = Len(wire) /\ n = Len(wire')
  OBVIOUS
<1>2. PICK B \in [0..n -> Data], D \in [0..n -> Nat] : Foreseen(B, D)
  BY <1>1 DEF ChannelInv, Foresight
<1>3. ASSUME NEW p \in 1..n
      PROVE  Turns(wire[p], B[p - 1], D[p - 1], B[p], D[p])'
  <2>1. Turns(wire[p], B[p - 1], D[p - 1], B[p], D[p])
    BY <1>1, <1>2 DEF Foreseen
  <2> QED BY <2>1 DEF Turns
<1>4. Foreseen(B, D)'
  BY <1>1, <1>2, <1>3 DEF Foreseen
<1>5. Foresight'
  BY <1>1, <1>4 DEF Foresight
<1>6. Matching'
  BY DEF ChannelInv, Matching
<1> QED BY <1>5, <1>6 DEF ChannelInv

LEMMA ChannelStep == ChannelInv /\ [Next]_vars => ChannelInv'
<1> SUFFICES ASSUME ChannelInv, [Next]_vars PROVE ChannelInv'
  OBVIOUS
<1>1. ChannelTypes /\ \A w \in Writers : todo[w] # <<>> => lock = w
  BY DEF ChannelInv, ChannelTypes
<1>2. ASSUME NEW w \in Writers, NEW length \in Lengths, Acquire(w, length) PROVE ChannelInv'
  BY <1>2, AcquireStep
<1>3. ASSUME NEW w \in Writers, SendFrame(w) PROVE ChannelInv'
  BY <1>3, SendStep
<1>4. ASSUME NEW w \in Writers, SendFails(w) PROVE ChannelInv'
  <2>1. /\ ~open' /\ lock = w /\ lock' = Free /\ todo' = [todo EXCEPT ![w] = <<>>]
        /\ UNCHANGED <<max, wire, buf, delivered, expected, open, started>>
    BY <1>1, <1>4 DEF SendFails
  <2>2. todo' \in [Writers -> Seq(Frames)] /\ \A v \in Writers : todo'[v] = <<>>
    BY <1>1, <2>1, EmptySeq DEF ChannelTypes
  <2>3. ChannelTypes'
    BY <1>1, <2>1, <2>2, ChannelAssumption DEF ChannelTypes
  <2> QED BY <2>1, <2>3, ClosedStep
<1>5. CASE ReceiveFrame
  BY <1>5, ReceiveStep
<1>6. CASE Close
  <2>1. ChannelTypes'
    BY <1>1, <1>6 DEF Close, ChannelTypes
  <2> QED BY <1>6, <2>1, ClosedStep DEF Close
<1>7. CASE UNCHANGED vars
  <2>1. ChannelTypes' /\ Matching'
    BY <1>1, <1>7 DEF vars, ChannelInv, ChannelTypes, Matching
  <2>2. PICK n : n = Len(wire) /\ n = Len(wire')
    BY <1>7 DEF vars
  <2>3. PICK B \in [0..n -> Data], D \in [0..n -> Nat] : Foreseen(B, D)
    BY <2>2 DEF ChannelInv, Foresight
  <2>4. ASSUME NEW m, NEW i, NEW b, NEW d
        PROVE  Sending(m, i, b, d)' <=> Sending(m, i, b, d)
    BY <1>7 DEF vars, Sending
  <2>5. Foreseen(B, D)'
    <3>1. ASSUME NEW p \in 1..n
          PROVE  Turns(wire[p], B[p - 1], D[p - 1], B[p], D[p])'
      <4>1. Turns(wire[p], B[p - 1], D[p - 1], B[p], D[p])
        BY <2>2, <2>3 DEF Foreseen
      <4> QED BY <1>7, <4>1 DEF vars, Turns
    <3>2. open /\ lock # Free =>
             \E m \in Data, i \in Nat \ {0} : Sending(m, i, B[n], D[n])'
      BY <2>2, <2>3, <2>4 DEF Foreseen
    <3> QED BY <1>7, <2>2, <2>3, <3>1, <3>2 DEF vars, Foreseen
  <2> QED BY <2>1, <2>2, <2>3, <2>5 DEF ChannelInv, Foresight
<1> QED BY <1>2, <1>3, <1>4, <1>5, <1>6, <1>7 DEF Next

\* The invariant is inductive.
THEOREM ChannelInductive == Spec => []ChannelInv
<1> QED BY ChannelFirst, ChannelStep, PTL DEF Spec

\* The channel's type invariant.
THEOREM ChannelTypeCorrect == Spec => []TypeOK
<1>1. ChannelInv => TypeOK
  <2> SUFFICES ASSUME ChannelInv PROVE TypeOK
    OBVIOUS
  <2>1. ChannelTypes /\ Word \in Nat \ {0}
    BY ChunkingAssumption DEF ChannelInv
  <2>2. ASSUME NEW s \in Seq(Frames), NEW i \in DOMAIN s PROVE s[i].len < Word
    <3>1. s[i] \in Frames
      BY <2>2
    <3> QED BY <2>1, <3>1 DEF Frames
  <2>3. \A i \in DOMAIN wire : wire[i].len < Word
    BY <2>1, <2>2 DEF ChannelTypes
  <2>4. \A w \in Writers : \A i \in DOMAIN todo[w] : todo[w][i].len < Word
    BY <2>1, <2>2 DEF ChannelTypes
  <2> QED BY <2>1, <2>3, <2>4, ChannelAssumption DEF ChannelTypes, TypeOK
<1> QED BY <1>1, ChannelInductive, PTL

\* Whatever the number of tasks, the lengths of the messages and the chunk size, the
\* receive task hands on the messages in the order in which their senders got the lock.
THEOREM InOrder == Spec => []DeliveredInOrder
<1>1. ChannelInv => DeliveredInOrder
  <2> SUFFICES ASSUME ChannelInv PROVE DeliveredInOrder
    OBVIOUS
  <2>1. /\ delivered \in Seq(Data) /\ expected \in Seq(Data)
        /\ Len(delivered) \in Nat /\ Len(expected) \in Nat
    BY DEF ChannelInv, ChannelTypes
  <2>2. /\ Len(delivered) <= Len(expected)
        /\ \A k \in 1..Len(delivered) : delivered[k] = expected[k]
    BY DEF ChannelInv, Matching
  <2> DEFINE n == Len(delivered)
             t == SubSeq(expected, 1, n)
  <2>3. t \in Seq(Data) /\ Len(t) = n /\ \A k \in 1..n : t[k] = expected[k]
    <3>1. \A k \in 1..n : expected[k] \in Data
      BY <2>1, <2>2, ElementOfSeq
    <3>2. t \in Seq(Data) /\ Len(t) = (IF 1 <= n THEN n - 1 + 1 ELSE 0)
          /\ \A k \in 1..(n - 1 + 1) : t[k] = expected[1 + k - 1]
      BY <2>1, <3>1, SubSeqProperties
    <3> QED BY <2>1, <3>2
  <2>4. delivered = t
    <3> HIDE DEF t
    <3> QED BY <2>1, <2>2, <2>3, SeqEqual
  <2>5. SubSeq(delivered, 1, n) = delivered
    BY <2>1, SubSeqFull
  <2> QED BY <2>2, <2>4, <2>5 DEF DeliveredInOrder, IsPrefix
<1> QED BY <1>1, ChannelInductive, PTL

\* When nobody is sending on an open channel and every frame was received, every message
\* was delivered and the assembler is empty.
THEOREM ChannelEmptied == Spec => []NothingLeftOver
<1>1. ChannelInv => NothingLeftOver
  <2> SUFFICES ASSUME ChannelInv, open, wire = <<>>, \A w \in Writers : todo[w] = <<>>
               PROVE  delivered = expected /\ buf = <<>>
    BY DEF NothingLeftOver
  <2>1. /\ delivered \in Seq(Data) /\ expected \in Seq(Data)
        /\ \A k \in 1..Len(delivered) : delivered[k] = expected[k]
    BY DEF ChannelInv, ChannelTypes, Matching
  <2>2. lock = Free /\ Len(wire) = 0
    BY EmptySeq DEF ChannelInv, ChannelTypes
  <2>3. PICK B \in [0..0 -> Data], D \in [0..0 -> Nat] : Foreseen(B, D)
    BY <2>2 DEF ChannelInv, Foresight
  <2>4. buf = <<>> /\ Len(delivered) = Len(expected)
    BY <2>2, <2>3 DEF Foreseen
  <2> QED BY <2>1, <2>4, SeqEqual
<1> QED BY <1>1, ChannelInductive, PTL
=============================================================================

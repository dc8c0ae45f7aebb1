---------------------------- MODULE MessageAccess ----------------------------
(***************************************************************************)
(* What a node does with the messages of a peer's session: the checks of   *)
(* handle_incoming_p2p_message (client-core/src/rtc/mod.rs) and of         *)
(* NodeContext::process_message (p2p-node/src/lib.rs), over the message    *)
(* kinds and the access table of nodeinnet-p2p/src/p2p.rs.                 *)
(*                                                                         *)
(* One task per session handles the messages one after the other.  A       *)
(* message that names a resource must carry a MAC under the session key of *)
(* that resource; the lock of the keys is given back after that check.     *)
(* Then the task waits until the session is authenticated, or drops the    *)
(* message.  The application's event handler is given every message that   *)
(* gets here, and only then comes the access check: a request is carried   *)
(* out by the installed message handler if the resource is the node's own  *)
(* and of a type the request is for.  Meanwhile another task (the channel's*)
(* on_close, or the one that gives up on an interrupted connection) may    *)
(* shut the session down, which clears the keys.                           *)
(*                                                                         *)
(* Keys come from two places.  A handshake makes new ones for the own      *)
(* resources of the types it asks for, before it is verified and again     *)
(* after.  The peer's response brings keys for whatever ids it lists, own  *)
(* resources of this node among them.  How the two nodes agree on them is  *)
(* in SessionHandshake.                                                    *)
(***************************************************************************)
EXTENDS Integers, FiniteSets

CONSTANTS Own,        \* ids of the node's resources
          Theirs,     \* ids of the peer's resources
          TypeOf,     \* the type of each of the node's resources
          Active,     \* those that are switched on
          MaxKeys,    \* bound on the keys made for a resource
          MaxShutdowns

Types == {"Filesystem", "SyncFolder", "SystemInfo", "Terminal", "Registry",
          "SharedNetwork", "RemoteDesktop"}

None == "none"

ASSUME MessageAccessAssumption ==
    /\ None \notin Own \cup Theirs
    /\ TypeOf \in [Own -> Types] /\ Active \subseteq Own
    /\ MaxKeys \in Nat /\ MaxShutdowns \in Nat

-----------------------------------------------------------------------------
FileKinds ==
    {"RequestEntries", "EntriesResponse", "RequestMetadata", "MetadataResponse",
     "CreateDirectoryRequest", "CreateDirectoryResponse", "DeleteEntryRequest",
     "DeleteEntryResponse", "RenameEntryRequest", "RenameEntryResponse",
     "SetPermissionsRequest", "SetPermissionsResponse", "FileDownloadRequest",
     "FileUploadRequest"}
SystemKinds == {"RequestSystemInfo", "SystemInfoResponse"}
TerminalKinds ==
    {"StartTerminal", "StopTerminal", "TerminalInput", "TerminalOutput",
     "TerminalResize"}
RegistryKinds ==
    {"RequestRegistryKeys", "RegistryKeysResponse", "CreateRegistryKeyRequest",
     "CreateRegistryKeyResponse", "DeleteRegistryEntryRequest",
     "DeleteRegistryEntryResponse", "SetRegistryValueRequest",
     "SetRegistryValueResponse"}
NetworkKinds ==
    {"SocksConnectRequest", "SocksConnectResponse", "SocksData", "SocksClose",
     "HttpRequest", "HttpResponseStart", "HttpResponseChunk", "HttpResponseComplete",
     "AppListRequest", "AppListResponse", "AppLaunchRequest", "AppStopRequest",
     "AppActionResponse"}
SyncKinds == {"SyncStateRequest", "SyncStateResponse"}
DesktopKinds ==
    {"RemoteDesktopRequest", "RemoteDesktopResponse", "RemoteDesktopSdpOffer",
     "RemoteDesktopSdpAnswer", "RemoteDesktopInput"}

OtherKinds ==
    {"Ping", "Pong", "Goodbye", "TextMessage", "Handshake", "HandshakeResponse",
     "PeersSync", "FileTransferResponse", "FileChunk", "FileTransferComplete",
     "RtcSignal", "RequestTopology", "ResponseTopology"}

MessageKinds ==
    FileKinds \cup SystemKinds \cup TerminalKinds \cup RegistryKinds
        \cup NetworkKinds \cup SyncKinds \cup DesktopKinds \cup OtherKinds

\* P2pMessage::allowed_resource_types
AllowedTypes(kind) ==
    CASE kind \in FileKinds -> {"Filesystem", "SyncFolder"}
      [] kind \in SystemKinds -> {"SystemInfo"}
      [] kind \in TerminalKinds -> {"Terminal"}
      [] kind \in RegistryKinds -> {"Registry"}
      [] kind \in NetworkKinds -> {"SharedNetwork"}
      [] kind \in SyncKinds -> {"SyncFolder"}
      [] kind \in DesktopKinds -> {"RemoteDesktop"}
      [] OTHER -> {}

\* P2pMessage::resource_id: the kinds that name a resource, a table of its own.
NamingKinds ==
    {"RequestEntries", "EntriesResponse", "RequestMetadata", "MetadataResponse",
     "CreateDirectoryRequest", "CreateDirectoryResponse", "DeleteEntryRequest",
     "DeleteEntryResponse", "RenameEntryRequest", "RenameEntryResponse",
     "SetPermissionsRequest", "SetPermissionsResponse", "SystemInfoResponse",
     "StartTerminal", "StopTerminal", "TerminalInput", "TerminalOutput",
     "TerminalResize", "HttpRequest", "HttpResponseStart", "HttpResponseChunk",
     "HttpResponseComplete", "SocksConnectRequest", "SocksConnectResponse",
     "SocksData", "SocksClose", "AppListRequest", "AppListResponse",
     "AppLaunchRequest", "AppStopRequest", "AppActionResponse", "RequestSystemInfo",
     "FileDownloadRequest", "FileUploadRequest", "RegistryKeysResponse",
     "RequestRegistryKeys", "CreateRegistryKeyRequest", "CreateRegistryKeyResponse",
     "DeleteRegistryEntryRequest", "DeleteRegistryEntryResponse",
     "SetRegistryValueRequest", "SetRegistryValueResponse", "SyncStateRequest",
     "SyncStateResponse", "RemoteDesktopRequest", "RemoteDesktopResponse",
     "RemoteDesktopSdpOffer", "RemoteDesktopSdpAnswer", "RemoteDesktopInput"}

\* is_response of process_message: kinds the access check lets pass.  SocksData
\* and SocksClose go both ways.
ResponseKinds ==
    {"EntriesResponse", "MetadataResponse", "CreateDirectoryResponse",
     "DeleteEntryResponse", "RenameEntryResponse", "SetPermissionsResponse",
     "SystemInfoResponse", "RegistryKeysResponse", "CreateRegistryKeyResponse",
     "DeleteRegistryEntryResponse", "SetRegistryValueResponse", "HttpResponseStart",
     "HttpResponseChunk", "HttpResponseComplete", "SocksConnectResponse", "SocksData",
     "SocksClose", "FileTransferResponse", "FileChunk", "FileTransferComplete",
     "TerminalOutput", "SyncStateResponse", "RemoteDesktopResponse",
     "HandshakeResponse", "AppListResponse", "AppActionResponse"}

\* Handled by the session itself before the access check.
SessionKinds == DesktopKinds \ {"RemoteDesktopResponse"}

-----------------------------------------------------------------------------
VARIABLES
    keys,      \* session_keys: per resource the number of its key, 0 for none
    made,      \* keys made or received so far, per resource
    auth,      \* is_authenticated
    stage,     \* what the task is doing
    msg,       \* the message it has in hand
    requested, \* the own resources the handshake in hand asks for
    revoked,   \* resources whose keys were cleared, with none stored since
    strays,    \* messages on such resources given on since the keys were cleared
    shutdowns  \* counted for the bound

accessVars == <<keys, made, auth, stage, msg, requested, revoked, strays, shutdowns>>

Resources == Own \cup Theirs
Messages ==
    [kind : NamingKinds, resource : Resources, mac : 0..MaxKeys, for : Resources]
        \cup [kind : MessageKinds \ NamingKinds, resource : {None}, mac : {0}, for : {None}]
Idle == [kind |-> "Pong", resource |-> None, mac |-> 0, for |-> None]
Stages ==
    {"idle", "greeting", "checking", "waiting", "handling", "given", "verifying"}

\* The data channel is open, nothing has been received.
AccessInit ==
    /\ keys = [r \in Resources |-> 0]
    /\ made = [r \in Resources |-> 0]
    /\ auth = FALSE
    /\ stage = "idle" /\ msg = Idle /\ requested = {}
    /\ revoked = {} /\ strays = 0 /\ shutdowns = 0

\* New keys for the resources in rs, unless the bound is reached.
NewKeys(rs) ==
    /\ \A r \in rs : made[r] < MaxKeys
    /\ made' = [r \in Resources |-> IF r \in rs THEN made[r] + 1 ELSE made[r]]
    /\ keys' = [r \in Resources |-> IF r \in rs THEN made'[r] ELSE keys[r]]
    /\ revoked' = revoked \ rs

Done == stage' = "idle" /\ msg' = Idle /\ requested' = {}

\* The task takes a message: its mac was made with the for-th resource's key
\* number mac, or is missing if that is 0.
Take(m) ==
    /\ stage = "idle"
    /\ m.kind \notin {"Pong", "PeersSync", "HandshakeResponse"}
    /\ m.kind \in NamingKinds => m.mac <= made[m.for]
    /\ msg' = m
    /\ stage' = IF m.kind \in NamingKinds THEN "checking" ELSE "waiting"
    /\ UNCHANGED <<keys, made, auth, requested, revoked, strays, shutdowns>>

\* HandshakeResponse is handled at once, verified by nothing: every id it lists
\* with a token gets that token as its key, and the session is authenticated.
TakeResponse ==
    /\ stage = "idle"
    /\ \E rs \in SUBSET Resources : NewKeys(rs)
    /\ auth' = TRUE
    /\ stage' = IF auth THEN "idle" ELSE "greeting"
    /\ UNCHANGED <<msg, requested, strays, shutdowns>>

\* It was the first sign of the peer: new keys for all own resources.
Greet ==
    /\ stage = "greeting"
    /\ NewKeys(Own)
    /\ Done
    /\ UNCHANGED <<auth, strays, shutdowns>>

\* Variant: a MAC under any of the session's keys will do.
VerifiedByAny(m) ==
    \E r \in Resources : keys[r] # 0 /\ m.for = r /\ m.mac = keys[r]

\* There is a key for the resource and the MAC was made with it.
Verified(m) ==
    keys[m.resource] # 0 /\ m.for = m.resource /\ m.mac = keys[m.resource]

\* The MAC is checked under the lock of the keys; a failure is reported and the
\* message dropped.
Check ==
    /\ stage = "checking"
    /\ IF Verified(msg) THEN stage' = "waiting" /\ UNCHANGED <<msg, requested>> ELSE Done
    /\ UNCHANGED <<keys, made, auth, revoked, strays, shutdowns>>

\* The session is authenticated, or the message is what authenticates it; else
\* the message is dropped after 25 polls of 200 ms.
Wait ==
    /\ stage = "waiting"
    /\ IF auth \/ msg.kind = "Handshake"
       THEN stage' = "handling" /\ UNCHANGED <<msg, requested>> ELSE Done
    /\ UNCHANGED <<keys, made, auth, revoked, strays, shutdowns>>

\* A message on a resource whose key is gone is given on all the same.
CountLate == strays' = IF msg.resource \in revoked THEN strays + 1 ELSE strays

\* Remote desktop: a request needs an active desktop resource, SDP and input go
\* to the peer connection and the desktop; nobody else is given these.
HandleDesktop ==
    /\ stage = "handling"
    /\ msg.kind \in SessionKinds
    /\ IF msg.kind = "RemoteDesktopRequest"
            /\ ~(msg.resource \in Active /\ TypeOf[msg.resource] = "RemoteDesktop")
       THEN UNCHANGED strays
       ELSE CountLate
    /\ Done
    /\ UNCHANGED <<keys, made, auth, revoked, shutdowns>>

\* on_p2p_message: the application's event handler is given every other message,
\* whatever resource it names.
GiveToApplication ==
    /\ stage = "handling"
    /\ msg.kind \notin SessionKinds
    /\ stage' = "given"
    /\ CountLate
    /\ UNCHANGED <<keys, made, auth, msg, requested, revoked, shutdowns>>

\* The access check of process_message: a request is for an own resource of a
\* type it may be for.  A kind without types is allowed everywhere.
Granted(m) ==
    m.kind \in NamingKinds \ ResponseKinds =>
        /\ m.resource \in Own
        /\ AllowedTypes(m.kind) # {} => TypeOf[m.resource] \in AllowedTypes(m.kind)

\* The message is granted and the installed handler carries it out; or the check
\* refuses it, and handle_core_message, which runs in either case, ignores it.
Processed(granted) ==
    /\ stage = "given"
    /\ msg.kind \notin {"Handshake", "Goodbye"}
    /\ granted <=> Granted(msg)
    /\ Done
    /\ UNCHANGED <<keys, made, auth, revoked, strays, shutdowns>>
HandleMessage == Processed(TRUE)
Refuse == Processed(FALSE)

\* Handshake: keys for the own resources of the requested types, although the
\* signature is verified only after that.
HandleHandshake ==
    /\ stage = "given" /\ msg.kind = "Handshake"
    /\ \E types \in SUBSET {TypeOf[r] : r \in Own} :
          requested' = {r \in Own : TypeOf[r] \in types}
    /\ NewKeys(requested')
    /\ stage' = "verifying"
    /\ UNCHANGED <<auth, msg, strays, shutdowns>>

\* It is too old, from an unknown node or signed by another: the channel is
\* closed; what it has received is handled.
RejectHandshake ==
    /\ stage = "verifying"
    /\ Done
    /\ UNCHANGED <<keys, made, auth, revoked, strays, shutdowns>>

\* It is verified: the session is authenticated and the same resources get new
\* keys once more.
AcceptHandshake ==
    /\ stage = "verifying"
    /\ auth' = TRUE
    /\ NewKeys(requested)
    /\ Done
    /\ UNCHANGED <<strays, shutdowns>>

Revoke == revoked' = Resources /\ strays' = 0

\* Variant: the keys survive.
ClearKeysNot == UNCHANGED keys /\ Revoke

\* NodeContext::shutdown
ClearKeys == keys' = [r \in Resources |-> 0] /\ Revoke

\* Goodbye: the session is shut down and the channel closed; what it has
\* received is handled.
HandleGoodbye ==
    /\ stage = "given"
    /\ msg.kind = "Goodbye"
    /\ ClearKeys
    /\ Done
    /\ UNCHANGED <<made, auth, shutdowns>>

\* Another task shuts the session down.
Shutdown ==
    /\ shutdowns < MaxShutdowns
    /\ shutdowns' = shutdowns + 1
    /\ ClearKeys
    /\ UNCHANGED <<made, auth, stage, msg, requested>>

AccessNext ==
    \/ \E m \in Messages : Take(m)
    \/ TakeResponse
    \/ Greet
    \/ Check
    \/ Wait
    \/ HandleDesktop
    \/ GiveToApplication
    \/ HandleMessage
    \/ Refuse
    \/ HandleHandshake
    \/ RejectHandshake
    \/ AcceptHandshake
    \/ HandleGoodbye
    \/ Shutdown

AccessSpec == AccessInit /\ [][AccessNext]_accessVars

-----------------------------------------------------------------------------
\* The types of the state; a key in force is one that was made.
AccessTypeOK ==
    /\ made \in [Resources -> 0..MaxKeys]
    /\ \A r \in Resources : keys[r] \in 0..made[r]
    /\ auth \in BOOLEAN
    /\ stage \in Stages /\ msg \in Messages
    /\ requested \subseteq Own /\ revoked \subseteq Resources
    /\ strays \in Nat /\ shutdowns \in 0..MaxShutdowns

\* A message that is past the checks, which the application's event handler, the
\* installed handler or the desktop is given, was verified with a key of the very
\* resource it names, and the session is authenticated: a key of another
\* resource of the session does not do.  A kind that works on some type of
\* resource does not get past the check of the MAC because the table of the
\* kinds that name a resource leaves it out.
HandledIsVerified ==
    stage \in {"handling", "given"} /\ AllowedTypes(msg.kind) # {} =>
        auth /\ msg.for = msg.resource /\ msg.mac \in 1..made[msg.resource]

\* Shutting a session down stops it: of the messages on resources whose keys it
\* cleared, at most the one that was past its check is still given on, until the
\* resource has a key again, made for another handshake or brought by a response
\* of the peer.
OneAfterShutdown == strays <= 1
=============================================================================

------------------------------ MODULE TunnelMap ------------------------------
(***************************************************************************)
(* What the map of tunnels (ACTIVE_TCP_TUNNELS) promises to those who      *)
(* route messages through it, whatever dialling, handshakes, errors and    *)
(* crashes go on behind it: per node and peer there is at most one session;*)
(* a session is entered once, in one place, and a newer one may take its   *)
(* place; only its own end takes an entry out, and a session that is over  *)
(* is never in the map; a process that dies loses its own entries and no   *)
(* others.                                                                 *)
(***************************************************************************)
CONSTANTS Nodes, Sessions, None

VARIABLES
    map,   \* per node and peer: the session that is entered, or None
    life   \* per session: "new", "live" (has been entered) or "over"

vars == <<map, life>>

Init ==
    /\ map = [n \in Nodes |-> [m \in Nodes |-> None]]
    /\ life = [s \in Sessions |-> "new"]

\* A new session is entered, in place of the one that was there.
Register(n, m, s) ==
    /\ life[s] = "new"
    /\ life' = [life EXCEPT ![s] = "live"]
    /\ map' = [map EXCEPT ![n][m] = s]

\* An attempt comes to nothing.
Abandon(s) ==
    /\ life[s] = "new"
    /\ life' = [life EXCEPT ![s] = "over"]
    /\ UNCHANGED map

\* A session ends; if it is still entered its entry goes with it.
End(s) ==
    /\ life[s] = "live"
    /\ life' = [life EXCEPT ![s] = "over"]
    /\ map' = [n \in Nodes |-> [m \in Nodes |->
                  IF map[n][m] = s THEN None ELSE map[n][m]]]

\* The process of node n dies with its sessions S, the entered ones among them.
Reset(n, S) ==
    /\ \A m \in Nodes : map[n][m] \in S \cup {None}
    /\ \A k \in Nodes \ {n}, m \in Nodes : map[k][m] \notin S
    /\ life' = [s \in Sessions |-> IF s \in S THEN "over" ELSE life[s]]
    /\ map' = [map EXCEPT ![n] = [m \in Nodes |-> None]]

Next ==
    \/ \E n, m \in Nodes, s \in Sessions : Register(n, m, s)
    \/ \E s \in Sessions : Abandon(s) \/ End(s)
    \/ \E n \in Nodes, S \in SUBSET Sessions : Reset(n, S)

Spec == Init /\ [][Next]_vars
=============================================================================

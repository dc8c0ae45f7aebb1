-------------------------- MODULE MCTunnelRegistry --------------------------
(* TunnelRegistry instantiated for TLC. *)
EXTENDS TunnelRegistry, TLC

\* Every key, also the node's own, and only those of others.
MCAllKeys == Nodes \X Nodes
MCOtherKeys == {k \in Nodes \X Nodes : k[1] # k[2]}

\* Nodes and connections are interchangeable (safety runs only).
Symmetry == Permutations(Nodes) \cup Permutations(Conns)
=============================================================================

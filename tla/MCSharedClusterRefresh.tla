------------------------ MODULE MCSharedClusterRefresh ------------------------
(* Finite instances of SharedClusterRefresh for TLC.                        *)
EXTENDS SharedClusterRefresh

\* All nodes, one that its name does not find, and no cluster.
SomeInventories == {Nodes, Nodes \ {"store"}, Nodes \ {"cluster"}}
=============================================================================

---------------------------- MODULE MCTopologyUpdater ----------------------------
(***************************************************************************)
(* A small instance of TopologyUpdater for TLC.                            *)
(***************************************************************************)
EXTENDS TopologyUpdater, TLC
MCUp == [p \in Ports \ {0} |-> 0]
KindSymmetry == Permutations(Kinds)
================================================================================

----------------------------- MODULE MCNetwork -----------------------------
(***************************************************************************)
(* A small instance of the network: three nodes that all can meet.         *)
(***************************************************************************)
EXTENDS Network

CONSTANTS n1, n2, n3

MCStrangers == {}
MCStartTime == [n \in Nodes |-> 1]
MCLinks == {l \in Nodes \X Nodes : l[1] # l[2]}
=============================================================================

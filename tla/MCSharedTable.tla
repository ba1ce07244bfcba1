--------------------------- MODULE MCSharedTable ----------------------------
(***************************************************************************)
(* An instance of SharedTable for TLC.  Node 1 of four has one possible    *)
(* neighbour on the left and two on the right, and node 3 is not in its    *)
(* upper list.                                                             *)
(***************************************************************************)
EXTENDS SharedTable

Nodes == 0..3
Bits == [n \in Nodes |-> [i \in 1..2 |-> IF n = 3 THEN 1 ELSE 0]]
=============================================================================

------------------------------- MODULE MCJoin -------------------------------
(***************************************************************************)
(* Instances of Join for TLC.                                              *)
(***************************************************************************)
EXTENDS JoinRefinement, SequentialJoin

MCMemVec == [n \in Node |-> <<0, n % 2>>]

(***************************************************************************)
(* The tables of a wired network: for every slot of a member, the nearest  *)
(* member on that side that shares the slot's prefix.                      *)
(***************************************************************************)
WiredTable(S) ==
    [n \in Node |-> [d \in Direction |-> [l \in Level |->
        IF n \in S THEN Nearest(S, n, d, l) ELSE None]]]

MCInitTable == WiredTable(Member)
=============================================================================

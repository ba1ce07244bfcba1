--------------------------- MODULE MCClientSearch ---------------------------
(***************************************************************************)
(* Instances of ClientSearch for TLC.  The tables are all those whose      *)
(* bottom list is complete and whose upper level is ordered.               *)
(***************************************************************************)
EXTENDS ClientSearch

CONSTANT Last

Nodes == 0..Last
Bits == [n \in Nodes |-> [i \in 1..2 |-> 0]]

Nearest(n, d) ==
    LET side == {m \in Nodes : Precedes(d, n, m)}
    IN  IF side = {} THEN None ELSE CHOOSE m \in side : \A k \in side : ~Precedes(d, k, m)

Side(d) == {f \in [Nodes -> Nodes \cup {None}] : \A n \in Nodes : f[n] # None => Precedes(d, n, f[n])}

AllTables ==
    {[n \in Nodes |-> [d \in Direction |-> [l \in 0..1 |->
         IF l = 0 THEN Nearest(n, d) ELSE IF d = "Left" THEN left[n] ELSE right[n]]]] :
     left \in Side("Left"), right \in Side("Right")}

(***************************************************************************)
(* Those whose shortcuts to the left mirror the ones to the right.         *)
(***************************************************************************)
MirroredTables ==
    {t \in AllTables : \A n \in Nodes : t[n]["Left"][1] = None <=> t[Last - n]["Right"][1] = None}
=============================================================================

--------------------------- MODULE MCLinkProtocol ---------------------------
(***************************************************************************)
(* Instance of LinkProtocol for TLC: three nodes and two levels, of which  *)
(* only nodes 1 and 2 share the upper list; nothing is linked at the       *)
(* start, and the nodes make every request they can of each other.         *)
(***************************************************************************)
EXTENDS LinkProtocol, TLC

MCNode == 1..3
MCMemVec == 1 :> <<0, 1>> @@ 2 :> <<0, 0>> @@ 3 :> <<1, 0>>
MCInitTable == [n \in MCNode |-> EmptyTable]

CONSTANT MaxInFlight    \* bound on the events in flight at once

InFlightBound == Cardinality(msgs) <= MaxInFlight
=============================================================================

--------------------------- MODULE SequentialJoin ---------------------------
(***************************************************************************)
(* Joins that do not overlap, as in the tests of base_node.rs that join    *)
(* one node after the other and then look at the lists.                    *)
(***************************************************************************)
EXTENDS Join, FiniteSets

(***************************************************************************)
(* The nearest node of S to n on side d that shares the prefix of level l. *)
(***************************************************************************)
Nearest(S, n, d, l) ==
    LET c == {x \in S : BelongsInOwnSlot(n, l, d, x)}
    IN  IF c = {} THEN None
        ELSE CHOOSE x \in c : \A y \in c : ~Precedes(d, y, x)

(***************************************************************************)
(* y is the nearest node of S to n on side d, None if there is none.       *)
(***************************************************************************)
IsNearest(S, n, d, y) ==
    IF y = None THEN \A x \in S : ~Precedes(d, n, x)
    ELSE /\ y \in S /\ Precedes(d, n, y)
         /\ \A x \in S : Precedes(d, n, x) => ~Precedes(d, x, y)

(***************************************************************************)
(* The network at the start is a skip graph of its members: their level-0  *)
(* slots are the sorted list, no slot names a stranger, and the tables of  *)
(* all others are empty.                                                   *)
(***************************************************************************)
ASSUME NodesAssumption == IsFiniteSet(Node)
ASSUME ListAssumption ==
    /\ \A n \in Member, d \in Direction : IsNearest(Member, n, d, InitTable[n][d][0])
    /\ \A n \in Node, d \in Direction, l \in Level :
          InitTable[n][d][l] # None => n \in Member /\ InitTable[n][d][l] \in Member

-----------------------------------------------------------------------------
(***************************************************************************)
(* Joins one after the other over a network that delivers everything: a    *)
(* call starts only when no call is in progress and nothing is in flight.  *)
(***************************************************************************)
Quiescent == msgs = {} /\ \A u \in Node : call[u].pc \notin Awaiting

SequentialNext ==
    \/ Quiescent /\ \E u \in Node \ Member : StartCall(u)
    \/ \E u \in Node \ Member : Resume(u)
    \/ \E m \in msgs : ProcessIncomingEvent(m)

SequentialSpec ==
    /\ Init /\ [][SequentialNext]_vars
    /\ \A u \in Node \ Member : WF_vars(Resume(u))
    /\ WF_vars(\E m \in msgs : ProcessIncomingEvent(m))

(***************************************************************************)
(* The elements of S as a list in ascending order.                         *)
(***************************************************************************)
Ascending(S) ==
    {ids \in [1..Cardinality(S) -> S] :
        /\ \A x \in S : \E i \in DOMAIN ids : ids[i] = x
        /\ \A i, j \in DOMAIN ids : i < j => ids[i] < ids[j]}

(***************************************************************************)
(* After joins that do not overlap, the level-0 list is the sorted, doubly *)
(* linked list of all joined nodes: what the tests of base_node.rs assert  *)
(* of a few joins with assert_doubly_linked_at_level.                      *)
(***************************************************************************)
SequentialJoinsSort ==
    Quiescent => \E ids \in Ascending(Joined) : DoublyLinkedAtLevel(ids, table, 0)

(***************************************************************************)
(* The stage-1 search resolves the joined node nearest to the joining one  *)
(* on the introducer's side, from whatever level it starts.                *)
(***************************************************************************)
SearchFindsNearest ==
    \A u \in Node : call[u].pc = "neighbor" =>
        call[u].anchor = Nearest(Joined, u, Opposite(SearchDirection(u)), 0)

(***************************************************************************)
(* A stage-1 call that overlaps with no other and loses no message returns *)
(* Ok: the search ends, every forwarding chain ends, nothing is dropped.   *)
(***************************************************************************)
LoneJoinSucceeds ==
    \A u \in Node \ Member : call[u].pc = "search" ~> call[u].pc = "ok"
=============================================================================

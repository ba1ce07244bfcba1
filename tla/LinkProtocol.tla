---------------------------- MODULE LinkProtocol ----------------------------
(***************************************************************************)
(* The link service every node offers: any node may ask any other to adopt *)
(* it in any slot (send_link_request), and the handlers of GetLinkOp and   *)
(* SetLinkOp accept, forward, drop and apply.  Messages are reordered and  *)
(* delayed at will, may be delivered more than once, and one that is never *)
(* delivered is a lost one.                                                *)
(*                                                                         *)
(* This is the abstract specification of linking.  It says nothing of why  *)
(* a node asks, so it covers every caller, of every level: stage 1 of the  *)
(* join (module Join implements this one) and requests with any arguments. *)
(* The nonce only correlates a reply with a caller: here it is erased.     *)
(***************************************************************************)
EXTENDS NodeCore

CONSTANT InitTable   \* the lookup tables of an already wired network

VARIABLES
    table,      \* table[n]: the lookup table of node n
    msgs        \* GetLinkOp and SetLinkOp events in flight

vars == <<table, msgs>>

WireLevel == 0..LookupTableLevels   \* the last one is out of range

LinkReq == [type : {"GetLinkOp"}, dest : Node, nonce : {None},
            candidate : Node, dir : Direction, level : WireLevel]

LinkRes == [type : {"SetLinkOp"}, dest : Node, nonce : {None},
            dir : Direction, level : WireLevel, linked : Entry]

-----------------------------------------------------------------------------
ASSUME InitTableAssumption == Wired(InitTable)

-----------------------------------------------------------------------------
Init ==
    /\ table = InitTable
    /\ msgs = {}

(***************************************************************************)
(* send_link_request called at u, for one of to's slots or for one on each *)
(* side: to[d] is asked to adopt u in its slot d, unless it is None.       *)
(***************************************************************************)
SendLinkRequests(u, to, level) ==
    /\ msgs' = msgs \cup {GetLinkOp(to[d], None, u, d, level) :
                             d \in {e \in Direction : to[e] # None}}
    /\ UNCHANGED table

(***************************************************************************)
(* m is consumed, or delivered now and once more later; ms is sent.        *)
(***************************************************************************)
Replace(m, ms) == \E rest \in {msgs \ {m}, msgs} : msgs' = rest \cup ms

HandleGetLinkRequest(m) ==
    /\ m.type = "GetLinkOp"
    /\ table' = [table EXCEPT ![m.dest] = GetLinkTable(@, m)]
    /\ Replace(m, GetLinkSends(table[m.dest], m))

HandleSetLinkResponse(m) ==
    /\ m.type = "SetLinkOp"
    /\ table' = [table EXCEPT ![m.dest] = SetLinkTable(@, m)]
    /\ Replace(m, {})

Next ==
    \/ \E u \in Node, to \in [Direction -> Entry], level \in WireLevel :
          SendLinkRequests(u, to, level)
    \/ \E m \in msgs : HandleGetLinkRequest(m)
    \/ \E m \in msgs : HandleSetLinkResponse(m)

Spec == Init /\ [][Next]_vars

-----------------------------------------------------------------------------
(***************************************************************************)
(* Tables and messages have their types.                                   *)
(***************************************************************************)
TypeOK ==
    /\ table \in [Node -> Table]
    /\ msgs \subseteq LinkReq \cup LinkRes

(***************************************************************************)
(* "A node's pointers always point to something on the correct direction   *)
(* of it" (concurrent-insert.md, 5.1), and in the list of the slot's       *)
(* level: whatever is asked of the link handlers, and in whatever order.   *)
(***************************************************************************)
TablesOrdered == Ordered(table)

(***************************************************************************)
(* Every SetLinkOp in flight is true when it arrives, however late: the    *)
(* node it names did adopt the receiver, and still holds it or a closer    *)
(* node; and the receiver may put that node in the slot the reply names.   *)
(***************************************************************************)
ConfirmationsBacked ==
    \A m \in msgs : m.type = "SetLinkOp" =>
        /\ m.linked # None
        /\ BelongsInOwnSlot(m.dest, m.level, m.dir, m.linked)
        /\ AsCloseAs(table, m.linked, Opposite(m.dir), m.level, m.dest)

(***************************************************************************)
(* A link is known at one end only while the confirmation for the other    *)
(* end is still in flight: if n's slot holds x then x's mirror slot holds  *)
(* n or a node between them, or x has yet to receive the SetLinkOp that    *)
(* names n.  It holds because the SetLinkOp handler writes the table even  *)
(* when the request it answers is long over.                               *)
(***************************************************************************)
HalfLinksAreInFlight ==
    \A n \in Node, d \in Direction, l \in Level :
        LET x == table[n][d][l]
        IN  x # None =>
              \/ AsCloseAs(table, x, Opposite(d), l, n)
              \/ \E m \in msgs :
                    /\ m.type = "SetLinkOp"
                    /\ m.dest = x /\ m.dir = Opposite(d) /\ m.level = l
                    /\ m.linked = n

(***************************************************************************)
(* No handler empties a slot or replaces a neighbour by a farther one: a   *)
(* slot only ever moves closer to its owner (try_link decides and writes   *)
(* in one critical section).                                               *)
(***************************************************************************)
SlotsOnlyTighten ==
    [][\A n \in Node, d \in Direction, l \in Level :
          table[n][d][l] # None => AsCloseAs(table', n, d, l, table[n][d][l])]_vars

(***************************************************************************)
(* A forwarded GetLinkOp moves to a node strictly between the forwarding   *)
(* node and the candidate, where the request still passes the handler's    *)
(* check: "no legitimate request fails this check at any hop" holds of     *)
(* every hop after the first, and no request is forwarded for ever.        *)
(***************************************************************************)
ForwardsApproach ==
    [][\A m \in msgs \ msgs' : \A f \in msgs' \ msgs :
          (m.type = "GetLinkOp" /\ f.type = "GetLinkOp") =>
              /\ Precedes(m.dir, m.dest, f.dest)
              /\ f = [m EXCEPT !.dest = f.dest]
              /\ GetLinkBelongs(f)]_vars
=============================================================================

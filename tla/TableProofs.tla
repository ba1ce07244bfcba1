---------------------------- MODULE TableProofs -----------------------------
(***************************************************************************)
(* Proofs about the users of lookup tables, for any table size: the link   *)
(* handlers of LinkProtocol, which write the tables of all nodes, and the  *)
(* tasks of SharedTable, which search and write the table of one node, one *)
(* lock acquisition at a time.                                             *)
(***************************************************************************)
EXTENDS LinkProtocol, SharedTable, TableFixtures, NodeCoreProofs

(***************************************************************************)
(* The inductive invariant.  The order is inductive on its own.  That half *)
(* links are in flight is not: applying a confirmation creates a link, and *)
(* it is known at both ends only because confirmations are backed.         *)
(***************************************************************************)
LinkInv == TypeOK /\ TablesOrdered /\ ConfirmationsBacked /\ HalfLinksAreInFlight

-----------------------------------------------------------------------------
(***************************************************************************)
(* What handle_get_link_request does: drop, link and confirm, or forward.  *)
(***************************************************************************)
GetLinkDrops(m) ==
    /\ ~GetLinkBelongs(m)
    /\ table' = table
    /\ Replace(m, {})

GetLinkConfirms(m) ==
    /\ Relinks(table, table', m.dest, m.level, m.dir, m.candidate)
    /\ table'[m.dest][m.dir][m.level] = m.candidate
    /\ Replace(m, {SetLinkOp(m.candidate, None, Opposite(m.dir), m.level, m.dest)})

GetLinkForwards(m) ==
    LET e == table[m.dest][m.dir][m.level]
    IN  /\ GetLinkBelongs(m)
        /\ m.level \in Level
        /\ e \in Node
        /\ Precedes(m.dir, e, m.candidate)
        /\ table' = table
        /\ Replace(m, {[m EXCEPT !.dest = e]})

(***************************************************************************)
(* handle_get_link_request drops the request, confirms it or forwards it.  *)
(***************************************************************************)
LEMMA GetLinkCases ==
    ASSUME TypeOK, NEW m \in msgs, HandleGetLinkRequest(m)
    PROVE  /\ m \in LinkReq
           /\ GetLinkDrops(m) \/ GetLinkConfirms(m) \/ GetLinkForwards(m)
<1>1. m \in LinkReq
  BY DEF TypeOK, HandleGetLinkRequest, LinkReq, LinkRes
<1>2. table[m.dest] \in Table /\ m.level \in Nat /\ m.nonce = None
  BY <1>1, LevelsAssumption DEF TypeOK, LinkReq, WireLevel
<1>3. CASE ~GetLinkBelongs(m)
  BY <1>1, <1>2, <1>3
     DEF GetLinkDrops, HandleGetLinkRequest, GetLinkTable, GetLinkSends, TypeOK,
         LinkReq
<1>4. CASE GetLinkBelongs(m)
  <2> DEFINE old == table[m.dest]
             new == TryRelink(old, m.level, m.dir, m.candidate)
  <2>1. m.level \in Level
    BY <1>2, <1>4, LevelsAssumption DEF GetLinkBelongs, BelongsInOwnSlot, Level
  <2>2. /\ table' = [table EXCEPT ![m.dest] = new]
        /\ table'[m.dest] = new
    BY <1>1, <1>4 DEF HandleGetLinkRequest, GetLinkTable, TypeOK, LinkReq
  <2>3. Relinks(table, table', m.dest, m.level, m.dir, m.candidate)
    BY <1>4, <2>2 DEF Relinks, GetLinkBelongs
  <2>4. CASE LinkOutcome(old, m.level, m.dir, m.candidate) = "LinkedDirectly"
    <3>1. new[m.dir][m.level] = m.candidate
      BY <1>1, <1>2, <2>1, <2>4, TryRelinkFacts DEF LinkReq
    <3>2. Replace(m, {SetLinkOp(m.candidate, None, Opposite(m.dir), m.level, m.dest)})
      BY <1>2, <1>4, <2>4 DEF HandleGetLinkRequest, GetLinkSends
    <3>3. QED
      BY <1>1, <2>2, <2>3, <3>1, <3>2 DEF GetLinkConfirms
  <2>5. CASE LinkOutcome(old, m.level, m.dir, m.candidate) # "LinkedDirectly"
    <3>1. /\ new = old
          /\ old[m.dir][m.level] \in Node
          /\ Precedes(m.dir, old[m.dir][m.level], m.candidate)
      BY <1>1, <1>2, <2>1, <2>5, TryRelinkFacts DEF LinkReq
    <3>2. table' = table
      BY <1>1, <2>2, <3>1 DEF TypeOK, LinkReq
    <3>3. Replace(m, {[m EXCEPT !.dest = old[m.dir][m.level]]})
      BY <1>4, <2>5 DEF HandleGetLinkRequest, GetLinkSends, GetEntry
    <3>4. QED
      BY <1>1, <1>4, <2>1, <3>1, <3>2, <3>3 DEF GetLinkForwards
  <2>6. QED
    BY <2>4, <2>5
<1>5. QED
  BY <1>1, <1>3, <1>4

(***************************************************************************)
(* What handle_set_link_response does: skip, or relink the slot it names.  *)
(***************************************************************************)
SetLinkSkips(m) ==
    /\ ~(m.linked # None /\ BelongsInOwnSlot(m.dest, m.level, m.dir, m.linked))
    /\ table' = table

SetLinkApplies(m) ==
    /\ m.linked \in Node
    /\ Relinks(table, table', m.dest, m.level, m.dir, m.linked)

(***************************************************************************)
(* handle_set_link_response applies the confirmation or skips it, and      *)
(* sends nothing.                                                          *)
(***************************************************************************)
LEMMA SetLinkCases ==
    ASSUME TypeOK, NEW m \in msgs, HandleSetLinkResponse(m)
    PROVE  /\ m \in LinkRes
           /\ m.level \in Nat
           /\ SetLinkSkips(m) \/ SetLinkApplies(m)
           /\ Replace(m, {})
<1>1. m \in LinkRes
  BY DEF TypeOK, HandleSetLinkResponse, LinkReq, LinkRes
<1>2. m.level \in Nat
  BY <1>1, LevelsAssumption DEF LinkRes, WireLevel
<1>3. CASE m.linked # None /\ BelongsInOwnSlot(m.dest, m.level, m.dir, m.linked)
  BY <1>1, <1>2, <1>3
     DEF SetLinkApplies, Relinks, HandleSetLinkResponse, SetLinkTable, TypeOK,
         LinkRes, Entry
<1>4. CASE ~(m.linked # None /\ BelongsInOwnSlot(m.dest, m.level, m.dir, m.linked))
  BY <1>1, <1>2, <1>4
     DEF SetLinkSkips, HandleSetLinkResponse, SetLinkTable, TypeOK, LinkRes
<1>5. QED
  BY <1>1, <1>2, <1>3, <1>4 DEF HandleSetLinkResponse

-----------------------------------------------------------------------------
(***************************************************************************)
(* Every step leaves the tables alone or relinks one slot.                 *)
(***************************************************************************)
TableSteps ==
    \/ table' = table
    \/ \E n, c \in Node, d \in Direction, l \in Nat : Relinks(table, table', n, l, d, c)

(***************************************************************************)
(* Every change of a table is one try_relink of one slot by a node that    *)
(* belongs there.                                                          *)
(***************************************************************************)
LEMMA StepsRelink ==
    ASSUME TypeOK, [Next]_vars
    PROVE  TableSteps
<1>1. ASSUME NEW u \in Node, NEW to \in [Direction -> Entry], NEW level \in WireLevel,
             SendLinkRequests(u, to, level)
      PROVE  TableSteps
  BY <1>1 DEF SendLinkRequests, TableSteps
<1>2. ASSUME NEW m \in msgs, HandleGetLinkRequest(m)
      PROVE  TableSteps
  <2>1. m \in LinkReq /\ m.level \in Nat
    BY <1>2, GetLinkCases, LevelsAssumption DEF LinkReq, WireLevel
  <2>2. CASE GetLinkDrops(m) \/ GetLinkForwards(m)
    BY <2>2 DEF GetLinkDrops, GetLinkForwards, TableSteps
  <2>3. CASE GetLinkConfirms(m)
    BY <2>1, <2>3 DEF GetLinkConfirms, TableSteps, LinkReq
  <2>4. QED
    BY <1>2, <2>2, <2>3, GetLinkCases
<1>3. ASSUME NEW m \in msgs, HandleSetLinkResponse(m)
      PROVE  TableSteps
  <2>1. m \in LinkRes /\ m.level \in Nat
    BY <1>3, SetLinkCases
  <2>2. CASE SetLinkSkips(m)
    BY <2>2 DEF SetLinkSkips, TableSteps
  <2>3. CASE SetLinkApplies(m)
    BY <2>1, <2>3 DEF SetLinkApplies, TableSteps, LinkRes
  <2>4. QED
    BY <1>3, <2>2, <2>3, SetLinkCases
<1>4. CASE UNCHANGED vars
  BY <1>4 DEF vars, TableSteps
<1>5. QED
  BY <1>1, <1>2, <1>3, <1>4 DEF Next

(***************************************************************************)
(* So every step keeps the type and the order of the tables, only tightens *)
(* slots, and keeps every slot as close as it was.                         *)
(***************************************************************************)
LEMMA StepsTighten ==
    ASSUME TypeOK, [Next]_vars
    PROVE  /\ table' \in [Node -> Table]
           /\ TablesOrdered => TablesOrdered'
           /\ \A n \in Node, d \in Direction, l \in Level :
                 table[n][d][l] # None => AsCloseAs(table', n, d, l, table[n][d][l])
           /\ \A n, c \in Node, d \in Direction, l \in Level :
                 AsCloseAs(table, n, d, l, c) => AsCloseAs(table', n, d, l, c)
<1>1. TableSteps /\ table \in [Node -> Table]
  BY StepsRelink DEF TypeOK
<1>2. /\ table' \in [Node -> Table]
      /\ TablesOrdered => TablesOrdered'
      /\ \A n \in Node, d \in Direction, l \in Level :
            table[n][d][l] # None => AsCloseAs(table', n, d, l, table[n][d][l])
  <2>1. CASE table' = table
    <3>1. \A n \in Node, d \in Direction, l \in Level : table[n][d][l] \in Entry
      BY <1>1 DEF Table
    <3>2. QED
      BY <1>1, <2>1, <3>1, PrecedesOrder DEF AsCloseAs, TablesOrdered, Ordered, Entry
  <2>2. ASSUME NEW n \in Node, NEW c \in Node, NEW d \in Direction, NEW l \in Nat,
               Relinks(table, table', n, l, d, c)
        PROVE  /\ table' \in [Node -> Table]
               /\ TablesOrdered => TablesOrdered'
               /\ \A k \in Node, e \in Direction, j \in Level :
                     table[k][e][j] # None => AsCloseAs(table', k, e, j, table[k][e][j])
    BY Zenon, <1>1, <2>2, RelinksFacts DEF TablesOrdered
  <2>3. QED
    BY <1>1, <2>1, <2>2 DEF TableSteps
<1>3. QED
  BY <1>1, <1>2, AsCloseAsStable

-----------------------------------------------------------------------------
(***************************************************************************)
(* The link handlers keep tables and messages well typed.                  *)
(***************************************************************************)
LEMMA TypeStep ==
    ASSUME TypeOK, [Next]_vars
    PROVE  TypeOK'
<1>1. table' \in [Node -> Table]
  BY StepsTighten
<1>2. ASSUME NEW u \in Node, NEW to \in [Direction -> Entry], NEW level \in WireLevel,
             SendLinkRequests(u, to, level)
      PROVE  msgs' \subseteq LinkReq \cup LinkRes
  BY <1>2 DEF SendLinkRequests, GetLinkOp, TypeOK, LinkReq, Entry
<1>3. ASSUME NEW m \in msgs, HandleGetLinkRequest(m)
      PROVE  msgs' \subseteq LinkReq \cup LinkRes
  <2>1. m \in LinkReq
    BY <1>3, GetLinkCases
  <2>2. CASE GetLinkDrops(m)
    BY <2>2 DEF GetLinkDrops, Replace, TypeOK
  <2>3. CASE GetLinkConfirms(m)
    <3>1. SetLinkOp(m.candidate, None, Opposite(m.dir), m.level, m.dest) \in LinkRes
      BY <2>1, OppositeFacts DEF LinkReq, LinkRes, SetLinkOp, Entry
    <3>2. QED
      BY <2>3, <3>1 DEF GetLinkConfirms, Replace, TypeOK
  <2>4. CASE GetLinkForwards(m)
    <3>1. [m EXCEPT !.dest = table[m.dest][m.dir][m.level]] \in LinkReq
      BY <2>1, <2>4 DEF GetLinkForwards, LinkReq
    <3>2. QED
      BY <2>4, <3>1 DEF GetLinkForwards, Replace, TypeOK
  <2>5. QED
    BY <1>3, <2>2, <2>3, <2>4, GetLinkCases
<1>4. ASSUME NEW m \in msgs, HandleSetLinkResponse(m)
      PROVE  msgs' \subseteq LinkReq \cup LinkRes
  BY <1>4, SetLinkCases DEF Replace, TypeOK
<1>5. CASE UNCHANGED vars
  BY <1>5 DEF vars, TypeOK
<1>6. QED
  BY <1>1, <1>2, <1>3, <1>4, <1>5 DEF Next, TypeOK

(***************************************************************************)
(* Every confirmation in flight stays backed, and a new one is backed when *)
(* handle_get_link_request sends it.                                       *)
(***************************************************************************)
Backed(m) ==
    /\ m.linked # None
    /\ BelongsInOwnSlot(m.dest, m.level, m.dir, m.linked)
    /\ AsCloseAs(table, m.linked, Opposite(m.dir), m.level, m.dest)

(***************************************************************************)
(* Every step keeps the confirmations in flight true.                      *)
(***************************************************************************)
LEMMA BackedStep ==
    ASSUME TypeOK, ConfirmationsBacked, [Next]_vars
    PROVE  ConfirmationsBacked'
<1>1. ASSUME NEW m \in msgs, m.type = "SetLinkOp"
      PROVE  Backed(m)'
  <2>1. m \in LinkRes /\ Backed(m)
    BY <1>1 DEF TypeOK, ConfirmationsBacked, Backed, LinkReq, LinkRes
  <2>2. /\ m.linked \in Node /\ m.dest \in Node /\ m.level \in Level
        /\ Opposite(m.dir) \in Direction
    BY <2>1, OppositeFacts, LevelsAssumption
       DEF LinkRes, Entry, Backed, BelongsInOwnSlot, Level, WireLevel
  <2>3. QED
    BY <2>1, <2>2, StepsTighten DEF Backed
<1>2. ASSUME NEW m \in msgs' \ msgs, m.type = "SetLinkOp"
      PROVE  Backed(m)'
  <2>1. ASSUME NEW u \in Node, NEW to \in [Direction -> Entry], NEW level \in WireLevel,
               SendLinkRequests(u, to, level)
        PROVE  FALSE
    BY <1>2, <2>1 DEF SendLinkRequests, GetLinkOp
  <2>2. ASSUME NEW r \in msgs, HandleGetLinkRequest(r)
        PROVE  Backed(m)'
    <3>0. r \in LinkReq
      BY <2>2, GetLinkCases
    <3>1. r \in LinkReq /\ r.type = "GetLinkOp" /\ r.level \in Nat
      BY <3>0, LevelsAssumption DEF LinkReq, WireLevel
    <3>2. ~GetLinkDrops(r)
      BY <1>2 DEF GetLinkDrops, Replace
    <3>3. ~GetLinkForwards(r)
      BY <1>2, <3>1 DEF GetLinkForwards, Replace, LinkReq
    <3>4. GetLinkConfirms(r)
      BY <2>2, <3>2, <3>3, GetLinkCases
    <3>5. m = SetLinkOp(r.candidate, None, Opposite(r.dir), r.level, r.dest)
      BY <1>2, <3>4 DEF GetLinkConfirms, Replace
    <3>6. /\ m.linked = r.dest /\ m.dest = r.candidate /\ m.level = r.level
          /\ m.dir = Opposite(r.dir)
      BY <3>5 DEF SetLinkOp
    <3>7. BelongsInOwnSlot(r.candidate, r.level, Opposite(r.dir), r.dest)
      BY <3>1, <3>4, BelongsMirror DEF GetLinkConfirms, Relinks, LinkReq
    <3>8. AsCloseAs(table', r.dest, r.dir, r.level, r.candidate)
      BY <3>1, <3>4, RelinksFacts DEF GetLinkConfirms, LinkReq, TypeOK
    <3>9. QED
      BY <3>1, <3>6, <3>7, <3>8, OppositeFacts, NoneAssumption DEF Backed, LinkReq
  <2>3. ASSUME NEW r \in msgs, HandleSetLinkResponse(r)
        PROVE  FALSE
    BY <1>2, <2>3 DEF HandleSetLinkResponse, Replace
  <2>4. QED
    BY <1>2, <2>1, <2>2, <2>3 DEF Next, vars
<1>3. QED
  BY <1>1, <1>2 DEF ConfirmationsBacked, Backed

(***************************************************************************)
(* Half links stay accounted for: an untouched link keeps its confirmation *)
(* in flight until it is applied, a link made by handle_get_link_request   *)
(* has its confirmation sent, and one made by handle_set_link_response is  *)
(* backed by the sender.                                                   *)
(***************************************************************************)
Accounted(n, d, l, x) ==
    \/ AsCloseAs(table, x, Opposite(d), l, n)
    \/ \E m \in msgs : /\ m.type = "SetLinkOp"
                       /\ m.dest = x /\ m.dir = Opposite(d) /\ m.level = l
                       /\ m.linked = n

(***************************************************************************)
(* Every step keeps a link that one end alone knows accounted for by a     *)
(* confirmation in flight.                                                 *)
(***************************************************************************)
LEMMA HalfLinksStep ==
    ASSUME LinkInv, [Next]_vars
    PROVE  HalfLinksAreInFlight'
<1>0. TypeOK /\ TablesOrdered /\ ConfirmationsBacked /\ HalfLinksAreInFlight
  BY DEF LinkInv
<1> SUFFICES ASSUME NEW n \in Node, NEW d \in Direction, NEW l \in Level,
                    NEW x, x = table'[n][d][l], x # None
             PROVE  Accounted(n, d, l, x)'
  BY DEF HalfLinksAreInFlight, Accounted
<1>1. x \in Node /\ Opposite(d) \in Direction
  BY <1>0, StepsTighten, OppositeFacts DEF Table, Entry
<1>2. AsCloseAs(table, x, Opposite(d), l, n) => Accounted(n, d, l, x)'
  BY <1>0, <1>1, StepsTighten DEF Accounted
<1>3. ASSUME NEW m \in msgs, m \notin msgs', m.type = "SetLinkOp",
             m.dest = x, m.dir = Opposite(d), m.level = l, m.linked = n
      PROVE  Accounted(n, d, l, x)'
  <2>1. AsCloseAs(table, n, Opposite(m.dir), l, x) /\ BelongsInOwnSlot(x, l, m.dir, n)
    BY <1>0, <1>3 DEF ConfirmationsBacked
  <2>2. HandleSetLinkResponse(m)
    <3>1. ASSUME NEW r \in msgs, HandleGetLinkRequest(r)
          PROVE  FALSE
      <4>1. r.type = "GetLinkOp" /\ msgs \ {r} \subseteq msgs'
        BY <3>1 DEF HandleGetLinkRequest, Replace
      <4>2. QED
        BY <1>3, <4>1
    <3>2. ASSUME NEW r \in msgs, HandleSetLinkResponse(r)
          PROVE  r = m
      BY <1>3, <3>2 DEF HandleSetLinkResponse, Replace
    <3>3. QED
      BY <1>3, <3>1, <3>2 DEF Next, vars, SendLinkRequests
  <2>3. SetLinkApplies(m)
    BY <1>0, <1>3, <2>1, <2>2, SetLinkCases, NoneAssumption DEF SetLinkSkips
  <2>4. AsCloseAs(table', x, Opposite(d), l, n)
    <3>1. Relinks(table, table', x, l, Opposite(d), n) /\ l \in Nat
      BY <1>3, <2>3, LevelsAssumption DEF SetLinkApplies, Level
    <3>2. QED
      BY Zenon, <1>0, <1>1, <3>1, RelinksFacts DEF TypeOK
  <2>5. QED
    BY <2>4 DEF Accounted
<1>4. CASE table[n][d][l] = x
  <2>1. Accounted(n, d, l, x)
    BY <1>0, <1>4 DEF HalfLinksAreInFlight, Accounted
  <2>2. QED
    BY <1>2, <1>3, <2>1 DEF Accounted
<1>5. CASE table[n][d][l] # x
  <2>1. ASSUME NEW r \in msgs, HandleGetLinkRequest(r)
        PROVE  Accounted(n, d, l, x)'
    <3>1. r \in LinkReq
      BY <1>0, <2>1, GetLinkCases
    <3>2. r.level \in Nat
      BY <3>1, LevelsAssumption DEF LinkReq, WireLevel
    <3>3. GetLinkConfirms(r)
      BY Zenon, <1>0, <1>5, <2>1, GetLinkCases DEF GetLinkDrops, GetLinkForwards
    <3>4. n = r.dest /\ d = r.dir /\ l = r.level /\ x = r.candidate
      <4> DEFINE k == r.dest
                 e == r.dir
                 j == r.level
                 y == r.candidate
      <4>1. table \in [Node -> Table] /\ Relinks(table, table', k, j, e, y)
        BY Zenon, SMT, <1>0, <3>3 DEF GetLinkConfirms, TypeOK
      <4>2. k \in Node /\ j \in Nat /\ e \in Direction /\ y \in Node
        BY Zenon, SMT, <3>1, <3>2 DEF LinkReq
      <4> HIDE DEF k, e, j, y
      <4>3. \A i \in Node, f \in Direction, h \in Level :
               table'[i][f][h] # table[i][f][h] => i = k /\ f = e /\ h = j /\ table'[i][f][h] = y
        BY <4>1, <4>2, RelinksFacts
      <4>4. n = k /\ d = e /\ l = j /\ x = y
        BY Zenon, SMT, <1>5, <4>3
      <4>5. QED
        BY <4>4 DEF k, e, j, y
    <3>5. SetLinkOp(x, None, Opposite(d), l, n) \in msgs'
      BY <3>3, <3>4 DEF GetLinkConfirms, Replace
    <3>6. QED
      BY <3>5 DEF Accounted, SetLinkOp
  <2>2. ASSUME NEW r \in msgs, HandleSetLinkResponse(r)
        PROVE  Accounted(n, d, l, x)'
    <3>1. r \in LinkRes /\ r.level \in Nat /\ r.type = "SetLinkOp"
      BY <1>0, <2>2, SetLinkCases DEF LinkRes
    <3>2. SetLinkApplies(r)
      BY <1>0, <1>5, <2>2, SetLinkCases DEF SetLinkSkips
    <3>3. n = r.dest /\ d = r.dir /\ l = r.level /\ x = r.linked
      BY <1>0, <1>5, <3>1, <3>2, RelinksFacts DEF SetLinkApplies, LinkRes, TypeOK
    <3>4. AsCloseAs(table, x, Opposite(d), l, n)
      BY <1>0, <3>1, <3>3 DEF ConfirmationsBacked
    <3>5. QED
      BY <1>2, <3>4
  <2>3. QED
    BY <1>5, <2>1, <2>2 DEF Next, vars, SendLinkRequests
<1>6. QED
  BY <1>4, <1>5

-----------------------------------------------------------------------------
(***************************************************************************)
(* Whatever is asked of handle_get_link_request and                        *)
(* handle_set_link_response, in whatever order: tables stay typed and      *)
(* ordered, confirmations true, and half links accounted for.              *)
(***************************************************************************)
THEOREM LinkInvariant == Spec => []LinkInv
<1>1. Init => LinkInv
  <2> SUFFICES ASSUME Init PROVE LinkInv
    OBVIOUS
  <2>1. Wired(table) /\ msgs = {}
    BY InitTableAssumption DEF Init
  <2>2. QED
    BY <2>1
       DEF LinkInv, Wired, TypeOK, TablesOrdered, ConfirmationsBacked,
           HalfLinksAreInFlight
<1>2. LinkInv /\ [Next]_vars => LinkInv'
  <2> SUFFICES ASSUME LinkInv, [Next]_vars PROVE LinkInv'
    OBVIOUS
  <2>1. TypeOK /\ TablesOrdered /\ ConfirmationsBacked
    BY DEF LinkInv
  <2>2. TypeOK' /\ TablesOrdered'
    BY <2>1, TypeStep, StepsTighten
  <2>3. ConfirmationsBacked' /\ HalfLinksAreInFlight'
    BY <2>1, BackedStep, HalfLinksStep
  <2>4. QED
    BY <2>2, <2>3 DEF LinkInv
<1>3. QED
  BY <1>1, <1>2, PTL DEF Spec

(***************************************************************************)
(* Tables and messages keep their types.                                   *)
(***************************************************************************)
THEOREM TypeCorrect == Spec => []TypeOK
<1>1. LinkInv => TypeOK
  BY DEF LinkInv
<1>2. QED
  BY <1>1, LinkInvariant, PTL

(***************************************************************************)
(* A node's pointers always point to the correct side of it, in the list   *)
(* of their level (invariant of concurrent-insert.md, 5.1).                *)
(***************************************************************************)
THEOREM AlwaysOrdered == Spec => []TablesOrdered
<1>1. LinkInv => TablesOrdered
  BY DEF LinkInv
<1>2. QED
  BY <1>1, LinkInvariant, PTL

(***************************************************************************)
(* Every SetLinkOp is true whenever it arrives.                            *)
(***************************************************************************)
THEOREM AlwaysBacked == Spec => []ConfirmationsBacked
<1>1. LinkInv => ConfirmationsBacked
  BY DEF LinkInv
<1>2. QED
  BY <1>1, LinkInvariant, PTL

(***************************************************************************)
(* A link known at one end only has its SetLinkOp in flight.               *)
(***************************************************************************)
THEOREM HalfLinksAccounted == Spec => []HalfLinksAreInFlight
<1>1. LinkInv => HalfLinksAreInFlight
  BY DEF LinkInv
<1>2. QED
  BY <1>1, LinkInvariant, PTL

(***************************************************************************)
(* No link handler empties a slot or moves it away from its owner.         *)
(***************************************************************************)
THEOREM SlotsTighten == Spec => SlotsOnlyTighten
<1>1. LinkInv /\ [Next]_vars =>
        [\A n \in Node, d \in Direction, l \in Level :
            table[n][d][l] # None => AsCloseAs(table', n, d, l, table[n][d][l])]_vars
  BY StepsTighten DEF LinkInv
<1>2. QED
  BY <1>1, LinkInvariant, PTL DEF Spec, SlotsOnlyTighten

(***************************************************************************)
(* handle_get_link_request forwards towards the candidate, and the next    *)
(* hop accepts the request: it is not dropped half way.                    *)
(***************************************************************************)
THEOREM ForwardsArrive == Spec => ForwardsApproach
<1> DEFINE Approaches(m, f) ==
             (m.type = "GetLinkOp" /\ f.type = "GetLinkOp") =>
                 /\ Precedes(m.dir, m.dest, f.dest)
                 /\ f = [m EXCEPT !.dest = f.dest]
                 /\ GetLinkBelongs(f)
<1>1. ASSUME LinkInv, Next, NEW m \in msgs \ msgs', NEW f \in msgs' \ msgs
      PROVE  Approaches(m, f)
  <2>0. TypeOK /\ TablesOrdered
    BY <1>1 DEF LinkInv
  <2>1. ASSUME NEW r \in msgs, HandleGetLinkRequest(r)
        PROVE  Approaches(m, f)
    <3>1. r \in LinkReq
      BY <2>0, <2>1, GetLinkCases
    <3>2. CASE GetLinkDrops(r)
      BY <1>1, <3>2 DEF GetLinkDrops, Replace
    <3>3. CASE GetLinkConfirms(r)
      BY SMTT(30), Zenon, <1>1, <3>3 DEF GetLinkConfirms, Replace, SetLinkOp
    <3>4. CASE GetLinkForwards(r)
      <4> DEFINE e == table[r.dest][r.dir][r.level]
      <4>1. m = r /\ f = [m EXCEPT !.dest = e]
        BY <1>1, <3>4 DEF GetLinkForwards, Replace
      <4>2. /\ f.dest = e /\ f.dir = r.dir /\ f.level = r.level
            /\ f.candidate = r.candidate
        BY <3>1, <4>1 DEF LinkReq
      <4>3. BelongsInOwnSlot(r.dest, r.level, r.dir, e)
        BY <2>0, <3>1, <3>4, NoneAssumption
           DEF GetLinkForwards, GetLinkBelongs, BelongsInOwnSlot, TablesOrdered, Ordered, LinkReq
      <4>4. BelongsInOwnSlot(e, r.level, r.dir, r.candidate)
        <5>1. r.level \in Nat
          BY <3>1, LevelsAssumption DEF LinkReq, WireLevel
        <5>2. QED
          BY <3>1, <3>4, <4>3, <5>1, BelongsForward
             DEF GetLinkForwards, GetLinkBelongs, LinkReq
      <4>5. QED
        BY <4>1, <4>2, <4>3, <4>4 DEF BelongsInOwnSlot, GetLinkBelongs
    <3>5. QED
      BY <2>0, <2>1, <3>2, <3>3, <3>4, GetLinkCases
  <2>2. ASSUME NEW r \in msgs, HandleSetLinkResponse(r)
        PROVE  FALSE
    BY <1>1, <2>2 DEF HandleSetLinkResponse, Replace
  <2>3. QED
    BY <1>1, <2>1, <2>2 DEF Next, SendLinkRequests
<1>2. LinkInv /\ [Next]_vars =>
        [\A m \in msgs \ msgs' : \A f \in msgs' \ msgs : Approaches(m, f)]_vars
  BY <1>1
<1>3. QED
  BY <1>2, LinkInvariant, PTL DEF Spec, ForwardsApproach

-----------------------------------------------------------------------------
(***************************************************************************)
(* The loop of search_by_id never gets past the table.                     *)
(***************************************************************************)
InRange == \A s \in Searcher : search[s].next =< LookupTableLevels

(***************************************************************************)
(* What holds whatever is written: types, the loop bound, the target.      *)
(***************************************************************************)
Base == SharedTypeOK /\ InRange /\ NeverPastTarget

(***************************************************************************)
(* What s read: a table whose d side is what the search has seen.          *)
(***************************************************************************)
View(s) == [lt EXCEPT ![search[s].dir] = search[s].seen]

(***************************************************************************)
(* The view of a search is a table, whose d side is what was read.         *)
(***************************************************************************)
LEMMA ViewFacts ==
    ASSUME SharedTypeOK, NEW s \in Searcher
    PROVE  /\ View(s) \in Table
           /\ View(s)[search[s].dir] = search[s].seen
BY DEF SharedTypeOK, Search, Table, View

(***************************************************************************)
(* A new table starts empty, with no search under way.                     *)
(***************************************************************************)
LEMMA InitBase == SharedInit => Base
<1> SUFFICES ASSUME SharedInit PROVE Base
  OBVIOUS
<1>1. EmptyTable \in Table /\ Unread \in [Level -> Entry]
  BY DEF EmptyTable, Table, Entry, Unread
<1>2. NoRes \in [result : Node, termination_level : Nat]
  BY OwnerAssumption DEF NoRes
<1>3. SharedTypeOK
  BY <1>1, <1>2, OwnerAssumption DEF SharedInit, SharedTypeOK, Search, Direction
<1>4. InRange /\ NeverPastTarget
  BY LevelsAssumption DEF SharedInit, InRange, NeverPastTarget
<1>5. QED
  BY <1>3, <1>4 DEF Base

(***************************************************************************)
(* Every step of a searcher or a writer keeps the base invariant.          *)
(***************************************************************************)
LEMMA NextBase == Base /\ [SharedNext]_sharedVars => Base'
<1> SUFFICES ASSUME Base, [SharedNext]_sharedVars PROVE Base'
  OBVIOUS
<1> USE DEF Base
<1>1. ASSUME NEW l \in AskedLevel, NEW d \in Direction, NEW c \in Node, TryLink(l, d, c)
      PROVE  Base'
  <2>1. l \in Level
    BY <1>1, OwnerAssumption, LevelsAssumption DEF TryLink, BelongsInOwnSlot, Level
  <2>2. lt' \in Table
    BY <1>1, <2>1, TryRelinkFacts DEF TryLink, SharedTypeOK
  <2>3. QED
    BY <1>1, <2>2 DEF TryLink, SharedTypeOK, InRange, NeverPastTarget
<1>2. ASSUME NEW l \in AskedLevel, NEW d \in Direction, Maintain(l, d)
      PROVE  Base'
  <2>1. lt' \in Table
    BY <1>2 DEF Maintain, UpdateEntry, RemoveEntry, SharedTypeOK, Table, Entry
  <2>2. QED
    BY <1>2, <2>1 DEF Maintain, SharedTypeOK, InRange, NeverPastTarget
<1>3. ASSUME NEW s \in Searcher, NEW t \in Node, NEW d \in Direction, NEW l \in AskedLevel,
             CallSearch(s, t, d, l)
      PROVE  Base'
  <2>1. Unread \in [Level -> Entry] /\ NoRes \in [result : Node, termination_level : Nat]
    BY OwnerAssumption DEF Unread, NoRes, Entry
  <2>2. SharedTypeOK'
    BY <1>3, <2>1 DEF CallSearch, SharedTypeOK, Search
  <2>3. InRange' /\ NeverPastTarget'
    BY <1>3, LevelsAssumption DEF CallSearch, SharedTypeOK, InRange, NeverPastTarget
  <2>4. QED
    BY <2>2, <2>3
<1>4. ASSUME NEW s \in Searcher, ReadLevel(s)
      PROVE  Base'
  <2> DEFINE c == search[s]
  <2>1. c \in Search /\ c.next \in Nat /\ c.level \in Nat /\ c.next =< c.level /\ c.pc = "reading"
    BY <1>4, OwnerAssumption DEF ReadLevel, SharedTypeOK, Search
  <2>2. CASE c.next \in Level
    <3> DEFINE now == [c.seen EXCEPT ![c.next] = GetEntry(lt, c.next, c.dir)]
    <3>1. search' = [search EXCEPT ![s] = [c EXCEPT !.seen = now, !.next = c.next + 1]]
          /\ lt' = lt /\ offered' = offered /\ writers' = writers
      BY <1>4, <2>2 DEF ReadLevel
    <3>2. GetEntry(lt, c.next, c.dir) \in Entry
      BY <2>1, <2>2 DEF GetEntry, SharedTypeOK, Table, Search
    <3>3. now \in [Level -> Entry]
      BY Zenon, <2>1, <3>2 DEF Search
    <3> HIDE DEF now
    <3>4. SharedTypeOK'
      <4> DEFINE e == [c EXCEPT !.seen = now]
                 n == c.next + 1
      <4>1. search' = [search EXCEPT ![s] = [e EXCEPT !.next = n]]
        BY <3>1
      <4>2. e \in Search /\ n \in Nat
        BY <2>1, <3>3 DEF Search
      <4> HIDE DEF e, n
      <4>3. [e EXCEPT !.next = n] \in Search
        BY <4>2 DEF Search
      <4>4. QED
        BY Zenon, <3>1, <4>1, <4>3 DEF SharedTypeOK
    <3>5. /\ search'[s].pc = "reading" /\ search'[s].next = c.next + 1
          /\ \A r \in Searcher : r # s => search'[r] = search[r]
      <4>1. search'[s] = [c EXCEPT !.seen = now, !.next = c.next + 1]
            /\ \A r \in Searcher : r # s => search'[r] = search[r]
        BY <3>1 DEF SharedTypeOK
      <4>2. QED
        BY <2>1, <4>1 DEF Search
    <3>6. c.next + 1 =< LookupTableLevels
      BY <2>2, LevelsAssumption DEF Level
    <3>7. InRange' /\ NeverPastTarget'
      BY <3>5, <3>6 DEF InRange, NeverPastTarget
    <3>8. QED
      BY <3>4, <3>7
  <2>3. CASE c.next \notin Level
    <3>1. search' = [search EXCEPT ![s] = [c EXCEPT !.pc = "error"]]
          /\ lt' = lt /\ offered' = offered /\ writers' = writers
      BY <1>4, <2>3 DEF ReadLevel
    <3>2. c.level >= LookupTableLevels
      BY <2>1, <2>3, LevelsAssumption DEF Level
    <3>3. SharedTypeOK'
      BY SMTT(30), Zenon, <2>1, <3>1 DEF SharedTypeOK, Search
    <3>4. InRange' /\ NeverPastTarget'
      BY <2>1, <3>1, <3>2 DEF SharedTypeOK, InRange, NeverPastTarget
    <3>5. QED
      BY <3>3, <3>4
  <2>4. QED
    BY <2>2, <2>3
<1>5. ASSUME NEW s \in Searcher, Decide(s)
      PROVE  Base'
  <2> DEFINE c == search[s]
             r == SearchById(Owner, View(s), c.target, c.level, c.dir)
  <2>1. c \in Search /\ c.level \in Nat /\ c.level < LookupTableLevels
    BY <1>5, OwnerAssumption, LevelsAssumption DEF Decide, SharedTypeOK, Search, InRange
  <2>2. c.level \in Level
    BY <2>1, LevelsAssumption DEF Level
  <2>3. /\ r.result \in Node /\ r.termination_level \in 0..c.level
        /\ r.result = Owner \/ ~Precedes(c.dir, c.target, r.result)
    BY <2>1, <2>2, ViewFacts, SearchByIdFacts, OwnerAssumption DEF Search
  <2>4. r \in [result : Node, termination_level : Nat]
    <3>1. r = [result |-> r.result, termination_level |-> r.termination_level]
      BY Zenon DEF SearchById
    <3>2. QED
      BY <2>3, <3>1
  <2>5. search' = [search EXCEPT ![s] = [c EXCEPT !.pc = "done", !.res = r]]
        /\ lt' = lt /\ offered' = offered /\ writers' = writers
    BY <1>5 DEF Decide, View
  <2> HIDE DEF r
  <2>6. SharedTypeOK'
    BY Zenon, <2>1, <2>4, <2>5 DEF SharedTypeOK, Search
  <2>7. InRange' /\ NeverPastTarget'
    BY <2>1, <2>3, <2>5, LevelsAssumption
       DEF SharedTypeOK, Search, InRange, NeverPastTarget
  <2>8. QED
    BY <2>6, <2>7
<1>6. CASE UNCHANGED sharedVars
  BY <1>6 DEF sharedVars, SharedTypeOK, InRange, NeverPastTarget
<1>7. QED
  BY <1>1, <1>2, <1>3, <1>4, <1>5, <1>6 DEF SharedNext

(***************************************************************************)
(* The base invariant holds throughout.                                    *)
(***************************************************************************)
THEOREM BaseInvariant == SharedSpec => []Base
BY InitBase, NextBase, PTL DEF SharedSpec

(***************************************************************************)
(* Tables and searches keep their types, whatever writes get in between    *)
(* the reads of search_by_id.                                              *)
(***************************************************************************)
THEOREM SharedTypeCorrect == SharedSpec => []SharedTypeOK
BY BaseInvariant, PTL DEF Base

(***************************************************************************)
(* Whatever update_entry and remove_entry do between its reads, a search   *)
(* names no node past its target and fails exactly out of range.           *)
(***************************************************************************)
THEOREM SearchStaysBefore == SharedSpec => []NeverPastTarget
BY BaseInvariant, PTL DEF Base

(***************************************************************************)
(* In every reachable table, a settled claim is settled for good.          *)
(***************************************************************************)
THEOREM RelinksSettle == SharedSpec => []RelinkSettles
<1>1. SharedTypeOK => RelinkSettles
  <2> SUFFICES ASSUME SharedTypeOK, NEW l \in Level, NEW d \in Direction, NEW c \in Node
               PROVE  LET new == TryRelink(lt, l, d, c)
                      IN  /\ TryRelink(new, l, d, c) = new
                          /\ LinkOutcome(lt, l, d, c) = "LinkedDirectly"
                                => RelinkOutcome(new, l, d, c) = "AlreadyConsistent"
                          /\ LinkOutcome(lt, l, d, c) = "Forward"
                                => GetEntry(new, l, d) = GetEntry(lt, l, d)
    BY DEF RelinkSettles
  <2> DEFINE new == TryRelink(lt, l, d, c)
  <2>1. CASE LinkOutcome(lt, l, d, c) = "LinkedDirectly"
    <3>1. new[d][l] = c
      BY <2>1, TryRelinkFacts DEF SharedTypeOK
    <3>2. RelinkOutcome(new, l, d, c) = "AlreadyConsistent"
      BY <3>1 DEF RelinkOutcome
    <3>3. QED
      BY <2>1, <3>2 DEF TryRelink
  <2>2. CASE LinkOutcome(lt, l, d, c) # "LinkedDirectly"
    <3>1. new = lt
      BY <2>2, TryRelinkFacts DEF SharedTypeOK
    <3>2. QED
      BY <2>2, <3>1
  <2>3. QED
    BY <2>1, <2>2
<1>2. QED
  BY <1>1, SharedTypeCorrect, PTL

-----------------------------------------------------------------------------
(***************************************************************************)
(* The table of the link protocol, where only the link handlers write: its *)
(* slots are ordered, and every slot a search has read is still as close.  *)
(***************************************************************************)
SlotsOrdered == \A d \in Direction, l \in Level : lt[d][l] # None => Precedes(d, Owner, lt[d][l])

Tightened(old, d, l) == old # None => lt[d][l] # None /\ ~Precedes(d, old, lt[d][l])

SeenTight ==
    \A s \in Searcher, l \in Level :
        LET c == search[s]
        IN  /\ c.seen[l] # None => Precedes(c.dir, Owner, c.seen[l])
            /\ Tightened(c.seen[l], c.dir, l)

(***************************************************************************)
(* What a search can still find at level l: what it read there, or what it *)
(* is going to read.                                                       *)
(***************************************************************************)
Ahead(s, l) == IF l < search[s].next THEN search[s].seen[l] ELSE lt[search[s].dir][l]

OnTheWay(s, l) == Ahead(s, l) # None /\ ~Precedes(search[s].dir, search[s].target, Ahead(s, l))

OfferStands ==
    \A s \in Searcher :
        search[s].pc = "reading" /\ offered[s] => \E l \in Level : l =< search[s].level /\ OnTheWay(s, l)

Landed == \A s \in Searcher : search[s].res.termination_level \in Level

FallsBackRightly ==
    \A s \in Searcher :
        search[s].pc = "done" /\ search[s].res.result = Owner => ~offered[s]

ChoosesRightly ==
    \A s \in Searcher :
        LET c == search[s]
            x == lt[c.dir][c.res.termination_level]
        IN  c.pc = "done" /\ c.res.result # Owner
                => /\ ~Precedes(c.dir, c.target, c.res.result)
                   /\ x # None /\ ~Precedes(c.dir, c.res.result, x)

Tight == SlotsOrdered /\ SeenTight /\ OfferStands /\ Landed /\ FallsBackRightly /\ ChoosesRightly

(***************************************************************************)
(* The invariant holds until something else writes.                        *)
(***************************************************************************)
TightInv == writers = "links" => Tight

(***************************************************************************)
(* An empty table without searches is tight.                               *)
(***************************************************************************)
LEMMA InitTight == SharedInit => Tight
<1> SUFFICES ASSUME SharedInit PROVE Tight
  OBVIOUS
<1>1. SlotsOrdered
  BY DEF SharedInit, SlotsOrdered, EmptyTable
<1>2. \A s \in Searcher : /\ search[s].pc = "idle" /\ search[s].seen = Unread
                         /\ search[s].res.termination_level = 0
  BY DEF SharedInit, NoRes
<1>3. SeenTight
  BY <1>2 DEF SeenTight, Tightened, Unread
<1>4. OfferStands /\ FallsBackRightly /\ ChoosesRightly
  BY Zenon, SMT, <1>2 DEF OfferStands, FallsBackRightly, ChoosesRightly
<1>5. Landed
  BY Zenon, SMT, <1>2, LevelFacts DEF Landed
<1>6. QED
  BY Zenon, SMT, <1>1, <1>3, <1>4, <1>5 DEF Tight

(***************************************************************************)
(* try_link keeps the slots ordered and only tightens them.                *)
(***************************************************************************)
LEMMA TryLinkTightens ==
    ASSUME SharedTypeOK, SlotsOrdered,
           NEW level \in AskedLevel, NEW d \in Direction, NEW c \in Node,
           TryLink(level, d, c)
    PROVE  /\ lt' \in Table
           /\ SlotsOrdered'
           /\ \A e \in Direction, k \in Level :
                 lt[e][k] # None => lt'[e][k] # None /\ ~Precedes(e, lt[e][k], lt'[e][k])
<1>1. level \in Level /\ Precedes(d, Owner, c) /\ lt' = TryRelink(lt, level, d, c)
  BY OwnerAssumption, LevelsAssumption DEF TryLink, BelongsInOwnSlot, Level
<1>2. /\ lt' \in Table
      /\ \A e \in Direction, k \in Level : (e # d \/ k # level) => lt'[e][k] = lt[e][k]
      /\ lt'[d][level] \in {c, lt[d][level]} \ {None}
      /\ lt[d][level] # None => ~Precedes(d, lt[d][level], lt'[d][level])
  BY <1>1, TryRelinkFacts DEF SharedTypeOK
<1>3. SlotsOrdered'
  BY <1>1, <1>2 DEF SlotsOrdered
<1>4. ASSUME NEW e \in Direction, NEW k \in Level, lt[e][k] # None
      PROVE  lt'[e][k] # None /\ ~Precedes(e, lt[e][k], lt'[e][k])
  <2>1. lt[e][k] \in Node
    BY <1>4 DEF SharedTypeOK, Table, Entry
  <2>2. CASE e = d /\ k = level
    BY <1>2, <1>4, <2>2
  <2>3. CASE e # d \/ k # level
    BY <1>2, <1>4, <2>1, <2>3, PrecedesOrder
  <2>4. QED
    BY <2>2, <2>3
<1>5. QED
  BY <1>2, <1>3, <1>4

(***************************************************************************)
(* A write of the link handlers keeps what searches rely on.               *)
(***************************************************************************)
LEMMA TryLinkTight ==
    ASSUME Base, Tight, NEW level \in AskedLevel, NEW d \in Direction, NEW c \in Node,
           TryLink(level, d, c)
    PROVE  Tight'
<1>1. /\ lt' \in Table
      /\ SlotsOrdered'
      /\ \A e \in Direction, k \in Level :
            lt[e][k] # None => lt'[e][k] # None /\ ~Precedes(e, lt[e][k], lt'[e][k])
  BY TryLinkTightens DEF Base, Tight
<1>2. search' = search /\ offered' = offered /\ SharedTypeOK
  BY DEF TryLink, Base
<1>3. ASSUME NEW e \in Direction, NEW k \in Level, NEW x \in Node,
             lt[e][k] # None, ~Precedes(e, x, lt[e][k])
      PROVE  lt'[e][k] # None /\ ~Precedes(e, x, lt'[e][k])
  <2>1. lt[e][k] \in Node /\ lt'[e][k] \in Node /\ ~Precedes(e, lt[e][k], lt'[e][k])
    BY <1>1, <1>2, <1>3 DEF SharedTypeOK, Table, Entry
  <2>2. QED
    BY <1>1, <1>3, <2>1, PrecedesOrder
<1>4. SeenTight'
  <2> SUFFICES ASSUME NEW s \in Searcher, NEW l \in Level, search[s].seen[l] # None
               PROVE  /\ Precedes(search[s].dir, Owner, search[s].seen[l])
                      /\ lt'[search[s].dir][l] # None
                      /\ ~Precedes(search[s].dir, search[s].seen[l], lt'[search[s].dir][l])
    BY <1>2 DEF SeenTight, Tightened
  <2>1. search[s].dir \in Direction /\ search[s].seen[l] \in Node
    BY SMTT(30), Zenon, <1>2 DEF SharedTypeOK, Search, Entry
  <2>2. /\ Precedes(search[s].dir, Owner, search[s].seen[l])
        /\ lt[search[s].dir][l] # None
        /\ ~Precedes(search[s].dir, search[s].seen[l], lt[search[s].dir][l])
    BY DEF Tight, SeenTight, Tightened
  <2>3. QED
    BY <1>3, <2>1, <2>2
<1>5. OfferStands'
  <2> SUFFICES ASSUME NEW s \in Searcher, search[s].pc = "reading", offered[s]
               PROVE  \E l \in Level : l =< search[s].level /\ OnTheWay(s, l)'
    BY <1>2 DEF OfferStands
  <2>1. PICK l \in Level : l =< search[s].level /\ OnTheWay(s, l)
    BY DEF Tight, OfferStands
  <2>2. search[s].dir \in Direction /\ search[s].target \in Node
    BY <1>2 DEF SharedTypeOK, Search
  <2>3. OnTheWay(s, l)'
    <3>1. CASE l < search[s].next
      BY <1>2, <2>1, <3>1 DEF OnTheWay, Ahead
    <3>2. CASE ~(l < search[s].next)
      <4>1. lt[search[s].dir][l] # None
            /\ ~Precedes(search[s].dir, search[s].target, lt[search[s].dir][l])
        BY <2>1, <3>2 DEF OnTheWay, Ahead
      <4>2. lt'[search[s].dir][l] # None
            /\ ~Precedes(search[s].dir, search[s].target, lt'[search[s].dir][l])
        BY SMTT(30), Zenon, <1>3, <2>2, <4>1
      <4>3. QED
        BY <1>2, <3>2, <4>2 DEF OnTheWay, Ahead
    <3>3. QED
      BY <3>1, <3>2
  <2>4. QED
    BY <2>1, <2>3
<1>6. ChoosesRightly'
  <2> SUFFICES ASSUME NEW s \in Searcher, search[s].pc = "done", search[s].res.result # Owner
               PROVE  LET r == search[s]
                          x == lt'[r.dir][r.res.termination_level]
                      IN  /\ ~Precedes(r.dir, r.target, r.res.result)
                          /\ x # None /\ ~Precedes(r.dir, r.res.result, x)
    BY SMTT(30), Zenon, <1>2 DEF ChoosesRightly
  <2> DEFINE r == search[s]
  <2>1. /\ ~Precedes(r.dir, r.target, r.res.result)
        /\ lt[r.dir][r.res.termination_level] # None
        /\ ~Precedes(r.dir, r.res.result, lt[r.dir][r.res.termination_level])
    BY DEF Tight, ChoosesRightly
  <2>2. r.dir \in Direction /\ r.res.result \in Node /\ r.res.termination_level \in Level
    BY <1>2 DEF SharedTypeOK, Search, Tight, Landed
  <2>3. QED
    BY SMTT(30), Zenon, <1>3, <2>1, <2>2
<1>7. Landed' /\ FallsBackRightly'
  BY <1>2 DEF Tight, Landed, FallsBackRightly
<1>8. QED
  BY <1>1, <1>4, <1>5, <1>6, <1>7 DEF Tight

(***************************************************************************)
(* A search that begins has read nothing, and what it was offered is there *)
(* to be read.                                                             *)
(***************************************************************************)
LEMMA CallTight ==
    ASSUME Base, Tight, NEW s \in Searcher, NEW t \in Node, NEW d \in Direction,
           NEW level \in AskedLevel, CallSearch(s, t, d, level)
    PROVE  Tight'
<1> DEFINE new == [pc |-> "reading", target |-> t, dir |-> d, level |-> level, next |-> 0,
                   seen |-> Unread, res |-> NoRes]
<1>1. /\ new.pc = "reading" /\ new.target = t /\ new.dir = d /\ new.level = level
      /\ new.next = 0 /\ new.seen = Unread /\ new.res = NoRes
  OBVIOUS
<1>2. /\ lt' = lt /\ SharedTypeOK
      /\ search'[s] = new
      /\ offered'[s] = (level \in Level /\ Reachable(lt, t, level, d) # {})
      /\ \A r \in Searcher : r # s => search'[r] = search[r] /\ offered'[r] = offered[r]
  BY SMTT(30), Zenon DEF CallSearch, Base, SharedTypeOK
<1> HIDE DEF new
<1>3. (\A l \in Level : Unread[l] = None) /\ NoRes.termination_level = 0
  BY DEF Unread, NoRes
<1>4. SlotsOrdered'
  BY Zenon, <1>2 DEF Tight, SlotsOrdered
<1>5. SeenTight'
  <2> SUFFICES ASSUME NEW r \in Searcher, NEW l \in Level, search'[r].seen[l] # None
               PROVE  /\ Precedes(search'[r].dir, Owner, search'[r].seen[l])
                      /\ lt[search'[r].dir][l] # None
                      /\ ~Precedes(search'[r].dir, search'[r].seen[l], lt[search'[r].dir][l])
    BY Zenon, <1>2 DEF SeenTight, Tightened
  <2>1. r # s
    BY Zenon, <1>1, <1>2, <1>3
  <2>2. search'[r] = search[r] /\ SeenTight
    BY Zenon, <1>2, <2>1 DEF Tight
  <2>3. QED
    BY Zenon, <2>2 DEF SeenTight, Tightened
<1>6. OfferStands'
  <2> SUFFICES ASSUME NEW r \in Searcher, search'[r].pc = "reading", offered'[r]
               PROVE  \E l \in Level : l =< search'[r].level /\ OnTheWay(r, l)'
    BY Zenon DEF OfferStands
  <2>1. CASE r # s
    <3>1. PICK l \in Level : l =< search[r].level /\ OnTheWay(r, l)
      BY Zenon, <1>2, <2>1 DEF Tight, OfferStands
    <3>2. QED
      BY Zenon, <1>2, <2>1, <3>1 DEF OnTheWay, Ahead
  <2>2. CASE r = s
    <3>1. PICK l \in Reachable(lt, t, level, d) : TRUE
      BY Zenon, <1>2, <2>2
    <3>2. level \in Level
      BY Zenon, <1>2, <2>2
    <3>3. l \in Level /\ l =< level /\ ~(l < 0)
      BY <3>1, <3>2, LevelsAssumption DEF Reachable, Level
    <3>4. lt[d][l] # None /\ ~Precedes(d, t, lt[d][l])
      BY Zenon, <3>1 DEF Reachable
    <3>5. OnTheWay(s, l)'
      BY Zenon, <1>1, <1>2, <3>3, <3>4 DEF OnTheWay, Ahead
    <3>6. QED
      BY Zenon, <1>1, <1>2, <2>2, <3>3, <3>5
  <2>3. QED
    BY Zenon, <2>1, <2>2
<1>7. Landed'
  BY Zenon, <1>1, <1>2, <1>3, LevelFacts DEF Tight, Landed
<1>8. search'[s].pc # "done"
  BY <1>1, <1>2
<1>9. FallsBackRightly' /\ ChoosesRightly'
  BY Zenon, <1>2, <1>8 DEF Tight, FallsBackRightly, ChoosesRightly
<1>10. QED
  BY Zenon, <1>4, <1>5, <1>6, <1>7, <1>9 DEF Tight

(***************************************************************************)
(* Reading a level moves a slot from what is ahead to what was seen.       *)
(***************************************************************************)
LEMMA ReadTight ==
    ASSUME Base, Tight, NEW s \in Searcher, ReadLevel(s)
    PROVE  Tight'
<1> DEFINE c == search[s]
<1>1. /\ lt' = lt /\ offered' = offered /\ SharedTypeOK
      /\ \A r \in Searcher : r # s => search'[r] = search[r]
      /\ c \in Search /\ c.next \in Nat /\ c.pc = "reading"
  BY DEF ReadLevel, Base, SharedTypeOK, Search
<1>2. SlotsOrdered'
  BY <1>1 DEF Tight, SlotsOrdered
<1>3. CASE c.next \in Level
  <2> DEFINE now == [c.seen EXCEPT ![c.next] = lt[c.dir][c.next]]
  <2>1. search'[s] = [c EXCEPT !.seen = now, !.next = c.next + 1]
    BY <1>3 DEF ReadLevel, GetEntry, Base, SharedTypeOK
  <2>2. /\ now[c.next] = lt[c.dir][c.next]
        /\ \A l \in Level : l # c.next => now[l] = c.seen[l]
    BY <1>1, <1>3 DEF Search
  <2> HIDE DEF now
  <2>3. /\ search'[s].seen = now /\ search'[s].next = c.next + 1 /\ search'[s].dir = c.dir
        /\ search'[s].target = c.target /\ search'[s].level = c.level /\ search'[s].pc = c.pc
        /\ search'[s].res = c.res
    BY <1>1, <2>1 DEF Search
  <2>4. SeenTight'
    <3> SUFFICES ASSUME NEW r \in Searcher, NEW l \in Level, search'[r].seen[l] # None
                 PROVE  /\ Precedes(search'[r].dir, Owner, search'[r].seen[l])
                        /\ lt[search'[r].dir][l] # None
                        /\ ~Precedes(search'[r].dir, search'[r].seen[l], lt[search'[r].dir][l])
      BY <1>1 DEF SeenTight, Tightened
    <3>1. CASE r = s /\ l = c.next
      <4>1. c.dir \in Direction /\ lt[c.dir][l] \in Node
        <5>1. c.dir \in Direction /\ lt \in Table /\ lt[c.dir][l] # None
          BY Zenon, SMT, <1>1, <2>2, <2>3, <3>1 DEF Search, SharedTypeOK
        <5>2. QED
          BY Zenon, SMT, <5>1 DEF Table, Entry
      <4>2. lt[c.dir][l] # None /\ Precedes(c.dir, Owner, lt[c.dir][l])
        BY SMTT(30), Zenon, <2>2, <2>3, <3>1, <4>1 DEF Tight, SlotsOrdered
      <4>3. search'[r].dir = c.dir /\ search'[r].seen[l] = lt[c.dir][l]
        BY SMTT(30), Zenon, <2>2, <2>3, <3>1
      <4>4. ~Precedes(c.dir, lt[c.dir][l], lt[c.dir][l])
        BY SMTT(30), Zenon, <4>1, PrecedesOrder
      <4>5. QED
        BY Zenon, <3>1, <4>2, <4>3, <4>4
    <3>2. CASE ~(r = s /\ l = c.next)
      <4>1. search'[r].dir = search[r].dir /\ search'[r].seen[l] = search[r].seen[l]
        BY Zenon, SMT, <1>1, <2>2, <2>3, <3>2
      <4>2. QED
        BY Zenon, SMT, <4>1 DEF Tight, SeenTight, Tightened
    <3>3. QED
      BY <3>1, <3>2
  <2>5. OfferStands'
    <3> SUFFICES ASSUME NEW r \in Searcher, search'[r].pc = "reading", offered[r]
                 PROVE  \E l \in Level : l =< search'[r].level /\ OnTheWay(r, l)'
      BY <1>1 DEF OfferStands
    <3>1. PICK l \in Level : l =< search[r].level /\ OnTheWay(r, l)
      BY <1>1, <2>3 DEF Tight, OfferStands
    <3>2. Ahead(r, l)' = Ahead(r, l)
      <4>1. CASE r = s
        <5>1. l \in Nat /\ (l < c.next + 1 <=> l < c.next \/ l = c.next) /\ ~(c.next < c.next)
          BY <1>1 DEF Level
        <5>2. QED
          BY SMTT(30), Zenon, <1>1, <2>2, <2>3, <4>1, <5>1 DEF Ahead
      <4>2. CASE r # s
        BY <1>1, <4>2 DEF Ahead
      <4>3. QED
        BY SMTT(30), Zenon, <4>1, <4>2
    <3>3. search'[r].level = search[r].level /\ search'[r].dir = search[r].dir
          /\ search'[r].target = search[r].target
      BY SMTT(30), Zenon, <1>1, <2>3
    <3>4. QED
      BY <3>1, <3>2, <3>3 DEF OnTheWay
  <2>6. Landed' /\ FallsBackRightly' /\ ChoosesRightly'
    BY <1>1, <2>3 DEF Tight, Landed, FallsBackRightly, ChoosesRightly
  <2>7. QED
    BY <1>2, <2>4, <2>5, <2>6 DEF Tight
<1>4. CASE c.next \notin Level
  <2>1. search'[s] = [c EXCEPT !.pc = "error"]
    BY <1>4 DEF ReadLevel, Base, SharedTypeOK
  <2>2. /\ search'[s].pc = "error" /\ search'[s].seen = c.seen /\ search'[s].dir = c.dir
        /\ search'[s].res = c.res
    BY SMTT(30), Zenon, <1>1, <2>1 DEF Search
  <2>3. SeenTight'
    BY SMTT(30), Zenon, <1>1, <2>2 DEF Tight, SeenTight, Tightened
  <2>4. OfferStands'
    BY SMTT(30), Zenon, <1>1, <2>2 DEF Tight, OfferStands, OnTheWay, Ahead
  <2>5. Landed' /\ FallsBackRightly' /\ ChoosesRightly'
    BY <1>1, <2>2 DEF Tight, Landed, FallsBackRightly, ChoosesRightly
  <2>6. QED
    BY <1>2, <2>3, <2>4, <2>5 DEF Tight
<1>5. QED
  BY <1>3, <1>4

(***************************************************************************)
(* The choice is made from what was seen: an offer is among it, and the    *)
(* chosen slot is still as close.                                          *)
(***************************************************************************)
LEMMA DecideTight ==
    ASSUME WellOrdered, Base, Tight, NEW s \in Searcher, Decide(s)
    PROVE  Tight'
<1> DEFINE c == search[s]
           answer == SearchById(Owner, View(s), c.target, c.level, c.dir)
<1>1. /\ lt' = lt /\ offered' = offered /\ SharedTypeOK
      /\ \A r \in Searcher : r # s => search'[r] = search[r]
      /\ c \in Search /\ c.next \in Nat /\ c.level \in Nat /\ c.pc = "reading"
      /\ c.level < c.next /\ c.next =< LookupTableLevels
  BY SMTT(30), Zenon, OwnerAssumption DEF Decide, Base, SharedTypeOK, Search, InRange
<1>2. c.level \in Level /\ c.target \in Node /\ c.dir \in Direction
  <2>1. c.level \in Level
    BY SMT, <1>1, LevelsAssumption DEF Level
  <2>2. QED
    BY Zenon, SMT, <1>1, <2>1 DEF Search
<1>3. search'[s] = [c EXCEPT !.pc = "done", !.res = answer]
  BY DEF Decide, View, Base, SharedTypeOK
<1>4. View(s) \in Table /\ View(s)[c.dir] = c.seen
  BY <1>1, ViewFacts
<1>5. /\ answer.termination_level \in 0..c.level
      /\ \/ answer.result = Owner
         \/ /\ ~Precedes(c.dir, c.target, answer.result)
            /\ answer.result = c.seen[answer.termination_level]
      /\ answer.result \in Node
  <2>1. Owner \in Node
    BY OwnerAssumption, Zenon
  <2>2. View(s) \in Table
    BY <1>4, Zenon
  <2>3. /\ answer.termination_level \in 0..c.level
        /\ \/ answer.result = Owner
           \/ /\ ~Precedes(c.dir, c.target, answer.result)
              /\ answer.result = View(s)[c.dir][answer.termination_level]
        /\ answer.result \in Node
    BY <1>2, <2>1, <2>2, SearchByIdFacts, Zenon
  <2> HIDE DEF answer
  <2>4. QED
    BY <1>4, <2>3, Zenon
<1>6. answer.termination_level \in Level
  BY Zenon, <1>2, <1>5, LevelsBelow
<1>7. offered[s] => answer.result # Owner
  <2> SUFFICES ASSUME offered[s] PROVE answer.result # Owner
    OBVIOUS
  <2>1. PICK l \in Level : l =< c.level /\ OnTheWay(s, l)
    BY <1>1 DEF Tight, OfferStands
  <2>2. l < c.next /\ l \in 0..c.level
    BY <1>1, <2>1 DEF Level
  <2>3. c.seen[l] # None /\ ~Precedes(c.dir, c.target, c.seen[l])
    BY <2>1, <2>2 DEF OnTheWay, Ahead
  <2>4. Reachable(View(s), c.target, c.level, c.dir) # {}
    BY <1>4, <2>2, <2>3 DEF Reachable
  <2>5. \A k \in Level : View(s)[c.dir][k] # None => Precedes(c.dir, Owner, View(s)[c.dir][k])
    BY <1>4 DEF Tight, SeenTight
  <2>6. QED
    BY Zenon, <1>2, <1>4, <2>4, <2>5, NoFallback, OwnerAssumption
<1> HIDE DEF answer
<1>8. /\ search'[s].pc = "done" /\ search'[s].seen = c.seen /\ search'[s].dir = c.dir
      /\ search'[s].target = c.target /\ search'[s].res = answer
  BY <1>1, <1>3 DEF Search
<1>9. SlotsOrdered' /\ SeenTight'
  BY ZenonT(30), <1>1, <1>8 DEF Tight, SlotsOrdered, SeenTight, Tightened
<1>10. OfferStands'
  BY <1>1, <1>8 DEF Tight, OfferStands, OnTheWay, Ahead
<1>11. Landed' /\ FallsBackRightly'
  BY <1>1, <1>6, <1>7, <1>8 DEF Tight, Landed, FallsBackRightly
<1>12. ChoosesRightly'
  <2>1. answer.result # Owner =>
            /\ ~Precedes(c.dir, c.target, answer.result)
            /\ lt[c.dir][answer.termination_level] # None
            /\ ~Precedes(c.dir, answer.result, lt[c.dir][answer.termination_level])
    <3>1. answer.result # None
      BY <1>5, NoneAssumption
    <3>2. QED
      BY <1>5, <1>6, <3>1 DEF Tight, SeenTight, Tightened
  <2>2. QED
    BY ZenonT(30), <1>1, <1>8, <2>1 DEF Tight, ChoosesRightly
<1>13. QED
  BY <1>9, <1>10, <1>11, <1>12 DEF Tight

(***************************************************************************)
(* While only the link handlers write, what searches rely on is kept.      *)
(***************************************************************************)
LEMMA NextTight == WellOrdered /\ Base /\ TightInv /\ [SharedNext]_sharedVars => TightInv'
<1> SUFFICES ASSUME WellOrdered, Base, writers = "links" => Tight, [SharedNext]_sharedVars, writers' = "links"
             PROVE  Tight'
  BY DEF TightInv
<1>1. \A l \in AskedLevel, d \in Direction : ~Maintain(l, d)
  BY DEF Maintain
<1>2. writers = "links"
  BY Zenon, <1>1 DEF SharedNext, sharedVars, TryLink, CallSearch, ReadLevel, Decide
<1>3. CASE SharedNext
  BY <1>1, <1>2, <1>3, TryLinkTight, CallTight, ReadTight, DecideTight DEF SharedNext
<1>4. CASE UNCHANGED sharedVars
  BY Zenon, <1>2, <1>4
  DEF sharedVars, Tight, SlotsOrdered, SeenTight, Tightened, OfferStands, OnTheWay, Ahead,
     Landed, FallsBackRightly, ChoosesRightly
<1>5. QED
  BY <1>3, <1>4

-----------------------------------------------------------------------------
(***************************************************************************)
(* The loop of left_neighbors and right_neighbors: what the vector holds   *)
(* after n levels follows from what it held before the last of them.       *)
(***************************************************************************)
Pushes(t, d, f) ==
    /\ Neighbors(t, d) = f[LookupTableLevels]
    /\ f[0] = <<>>
    /\ \A n \in 1..LookupTableLevels :
          f[n] = IF t[d][n - 1] = None THEN f[n - 1]
                 ELSE Append(f[n - 1], <<n - 1, t[d][n - 1]>>)

(***************************************************************************)
(* The loop has such a run: one of n levels extends to one of n + 1.       *)
(***************************************************************************)
LEMMA ListingLoop ==
    ASSUME WellOrdered, NEW t, NEW d
    PROVE  \E f : Pushes(t, d, f)
<1> DEFINE Step(g, n) == IF n = 0 THEN <<>>
                         ELSE IF t[d][n - 1] = None THEN g[n - 1]
                         ELSE Append(g[n - 1], <<n - 1, t[d][n - 1]>>)
           Runs(g, m) == g = [n \in 0..m |-> Step(g, n)]
           T == {m \in Nat : ~\E g : Runs(g, m)}
           f == CHOOSE g : Runs(g, LookupTableLevels)
<1>1. \A m \in Nat : \E g : Runs(g, m)
  <2> HIDE DEF Runs
  <2> SUFFICES ASSUME T # {} PROVE FALSE
    BY Zenon
  <2>1. PICK m \in T : \A k \in T : m =< k
    <3>1. T \subseteq Nat
      BY Zenon
    <3> HIDE DEF T
    <3>2. QED
      BY <3>1, LeastNatural, Zenon
  <2>2. m \in Nat /\ ~\E g : Runs(g, m)
    BY <2>1, Zenon
  <2>3. \A k \in Nat : ~(m =< k) => \E g : Runs(g, k)
    BY <2>1, Zenon
  <2> HIDE DEF T
  <2>4. m # 0
    <3>1. Runs([n \in 0..0 |-> <<>>], 0)
      <4>1. \A n \in 0..0 : n = 0
        OBVIOUS
      <4>2. QED
        BY <4>1, Zenon DEF Runs
    <3>2. QED
      BY <2>2, <3>1, Zenon
  <2>5. m - 1 \in Nat /\ ~(m =< m - 1)
    BY <2>2, <2>4
  <2>6. PICK g : Runs(g, m - 1)
    BY <2>3, <2>5, Zenon
  <2> HIDE DEF Step
  <2> DEFINE h == [n \in 0..m |-> IF n = m THEN Step(g, m) ELSE g[n]]
  <2>7. \A n \in 0..(m - 1) : g[n] = Step(g, n)
    BY <2>6, Zenon DEF Runs
  <2>8. \A n \in 0..m : h[n] = Step(h, n)
    <3> SUFFICES ASSUME NEW n \in 0..m PROVE h[n] = Step(h, n)
      OBVIOUS
    <3>1. n # 0 => n - 1 \in 0..m /\ n - 1 # m /\ h[n - 1] = g[n - 1]
      BY <2>2
    <3>2. Step(h, n) = Step(g, n)
      <4> HIDE DEF h
      <4>1. QED
        BY <3>1, Zenon DEF Step
    <3>3. n # m => n \in 0..(m - 1)
      BY <2>2
    <3>4. QED
      BY <2>7, <3>2, <3>3
  <2>9. Runs(h, m)
    <3>1. h = [n \in 0..m |-> h[n]]
      BY Zenon
    <3> HIDE DEF h
    <3>2. QED
      BY <2>8, <3>1, Zenon DEF Runs
  <2>10. QED
    BY <2>2, <2>9, Zenon
<1>2. Runs(f, LookupTableLevels)
  <2>1. \E g : Runs(g, LookupTableLevels)
    BY <1>1, LevelsAssumption, Zenon
  <2> HIDE DEF Runs
  <2>2. QED
    BY <2>1, Zenon
<1>3. Neighbors(t, d) = f[LookupTableLevels]
  BY DEF Neighbors
<1> HIDE DEF f
<1>4. \A n \in 0..LookupTableLevels : f[n] = Step(f, n)
  <2> HIDE DEF Step
  <2>1. QED
    BY <1>2, Zenon
<1> HIDE DEF Runs
<1>5. f[0] = <<>>
  <2>1. 0 \in 0..LookupTableLevels
    BY LevelsAssumption
  <2>2. QED
    BY <1>4, <2>1, Zenon
<1>6. \A n \in 1..LookupTableLevels :
         f[n] = IF t[d][n - 1] = None THEN f[n - 1]
                ELSE Append(f[n - 1], <<n - 1, t[d][n - 1]>>)
  <2>1. \A n \in 1..LookupTableLevels : n \in 0..LookupTableLevels /\ n # 0
    BY LevelsAssumption
  <2>2. QED
    BY <1>4, <2>1, Zenon
<1>7. Pushes(t, d, f)
  BY <1>3, <1>5, <1>6, Zenon DEF Pushes
<1>8. QED
  BY <1>7, Zenon

(***************************************************************************)
(* What the listing holds: populated levels with their neighbours, lower   *)
(* levels first, and every populated level.                                *)
(***************************************************************************)
Lists(t, d, ns, n) ==
    /\ ns \in Seq(Level \X Node)
    /\ \A i \in 1..Len(ns) : /\ ns[i][1] \in 0..(n - 1)
                             /\ t[d][ns[i][1]] # None
                             /\ ns[i] = <<ns[i][1], t[d][ns[i][1]]>>
    /\ \A i, j \in 1..Len(ns) : i < j => ns[i][1] < ns[j][1]
    /\ \A l \in 0..(n - 1) : t[d][l] # None => \E i \in 1..Len(ns) : ns[i] = <<l, t[d][l]>>

(***************************************************************************)
(* One iteration keeps that.                                               *)
(***************************************************************************)
LEMMA ListsStep ==
    ASSUME NEW t \in Table, NEW d \in Direction, NEW ns, NEW n \in 1..LookupTableLevels,
           Lists(t, d, ns, n - 1)
    PROVE  Lists(t, d, IF t[d][n - 1] = None THEN ns
                       ELSE Append(ns, <<n - 1, t[d][n - 1]>>), n)
<1> USE LevelsAssumption
<1>1. /\ n \in Nat /\ n - 1 \in Level /\ (n - 1) - 1 \in Int
      /\ \A l \in 0..(n - 1) : l = n - 1 \/ l \in 0..((n - 1) - 1)
      /\ \A l \in 0..((n - 1) - 1) : l \in 0..(n - 1) /\ l < n - 1
  BY DEF Level
<1>2. CASE t[d][n - 1] = None
  BY <1>1, <1>2, Zenon DEF Lists
<1>3. CASE t[d][n - 1] # None
  <2> DEFINE x == <<n - 1, t[d][n - 1]>>
             new == Append(ns, x)
  <2>1. /\ x \in Level \X Node
        /\ x[1] = n - 1 /\ x[2] = t[d][n - 1]
    BY <1>1, <1>3 DEF Table, Entry
  <2>2. ns \in Seq(Level \X Node) /\ Len(ns) \in Nat
    BY DEF Lists
  <2> HIDE DEF x
  <2>3. /\ new \in Seq(Level \X Node)
        /\ Len(new) = Len(ns) + 1
        /\ \A i \in 1..Len(ns) : new[i] = ns[i]
        /\ new[Len(ns) + 1] = x
    BY <2>1, <2>2
  <2>4. \A i \in 1..Len(new) : i \in 1..Len(ns) \/ i = Len(ns) + 1
    BY SMTT(30), Zenon, <2>2, <2>3
  <2> HIDE DEF new
  <2>5. \A i \in 1..Len(new) : /\ new[i][1] \in 0..(n - 1)
                               /\ t[d][new[i][1]] # None
                               /\ new[i] = <<new[i][1], t[d][new[i][1]]>>
    <3> SUFFICES ASSUME NEW i \in 1..Len(new)
                 PROVE  /\ new[i][1] \in 0..(n - 1)
                        /\ t[d][new[i][1]] # None
                        /\ new[i] = <<new[i][1], t[d][new[i][1]]>>
      OBVIOUS
    <3>1. CASE i \in 1..Len(ns)
      BY <1>1, <2>3, <3>1, Zenon DEF Lists
    <3>2. CASE i = Len(ns) + 1
      <4>1. n - 1 \in 0..(n - 1)
        BY <1>1
      <4>2. QED
        BY <1>3, <2>1, <2>3, <3>2, <4>1, Zenon DEF x
    <3>3. QED
      BY SMTT(30), Zenon, <2>4, <3>1, <3>2
  <2>6. \A i, j \in 1..Len(new) : i < j => new[i][1] < new[j][1]
    <3> SUFFICES ASSUME NEW i \in 1..Len(new), NEW j \in 1..Len(new), i < j
                 PROVE  new[i][1] < new[j][1]
      OBVIOUS
    <3>1. i \in 1..Len(ns) /\ new[i][1] = ns[i][1]
      BY <2>2, <2>3
    <3>2. CASE j \in 1..Len(ns)
      BY <2>3, <3>1, <3>2, Zenon DEF Lists
    <3>3. CASE j = Len(ns) + 1
      <4>1. ns[i][1] \in 0..((n - 1) - 1)
        BY <3>1, Zenon DEF Lists
      <4>2. QED
        BY <1>1, <2>1, <2>3, <3>1, <3>3, <4>1, Zenon
    <3>4. QED
      BY <2>4, <3>2, <3>3
  <2>7. ASSUME NEW l \in 0..(n - 1), t[d][l] # None
        PROVE  \E i \in 1..Len(new) : new[i] = <<l, t[d][l]>>
    <3>1. CASE l = n - 1
      <4>1. Len(ns) + 1 \in 1..Len(new)
        BY <2>2, <2>3
      <4>2. QED
        BY <2>3, <3>1, <4>1, Zenon DEF x
    <3>2. CASE l \in 0..((n - 1) - 1)
      <4>1. PICK i \in 1..Len(ns) : ns[i] = <<l, t[d][l]>>
        BY <2>7, <3>2, Zenon DEF Lists
      <4>2. i \in 1..Len(new)
        BY <2>2, <2>3
      <4>3. QED
        BY <2>3, <4>1, <4>2, Zenon
    <3>3. QED
      BY <1>1, <3>1, <3>2
  <2>8. Lists(t, d, new, n)
    BY <2>3, <2>5, <2>6, <2>7, Zenon DEF Lists
  <2>9. QED
    BY <1>3, <2>8 DEF new, x
<1>4. QED
  BY <1>2, <1>3

(***************************************************************************)
(* So the finished listing holds exactly the populated levels, in order.   *)
(***************************************************************************)
LEMMA ListingFacts ==
    ASSUME WellOrdered, NEW t \in Table, NEW d \in Direction
    PROVE  Lists(t, d, Neighbors(t, d), LookupTableLevels)
<1>1. PICK f : Pushes(t, d, f)
  BY ListingLoop, Zenon
<1> DEFINE T == {n \in 0..LookupTableLevels : ~Lists(t, d, f[n], n)}
<1>2. Lists(t, d, f[0], 0)
  <2>1. <<>> \in Seq(Level \X Node) /\ 1..Len(<<>>) = {} /\ 0..(0 - 1) = {}
    OBVIOUS
  <2>2. QED
    BY <1>1, <2>1, Zenon DEF Lists, Pushes
<1>3. T = {}
  <2> SUFFICES ASSUME T # {} PROVE FALSE
    OBVIOUS
  <2>1. PICK n \in T : \A k \in T : n =< k
    <3>1. T \subseteq Nat
      OBVIOUS
    <3> HIDE DEF T
    <3>2. QED
      BY <3>1, LeastNatural, Zenon
  <2>2. n \in 0..LookupTableLevels /\ ~Lists(t, d, f[n], n) /\ n # 0
    BY <1>2, <2>1, Zenon
  <2>3. n \in 1..LookupTableLevels /\ n - 1 \in 0..LookupTableLevels /\ ~(n =< n - 1)
    BY <2>2, LevelsAssumption
  <2>4. Lists(t, d, f[n - 1], n - 1)
    BY <2>1, <2>3, Zenon
  <2>5. QED
    BY <1>1, <2>2, <2>3, <2>4, ListsStep, Zenon DEF Pushes
<1>4. LookupTableLevels \in 0..LookupTableLevels
  BY LevelsAssumption
<1>5. QED
  BY <1>1, <1>3, <1>4, Zenon DEF Pushes

(***************************************************************************)
(* The last listed level is the highest populated one of its side.         *)
(***************************************************************************)
Top(t, d) ==
    LET ns == Neighbors(t, d) IN IF ns = <<>> THEN {} ELSE {ns[Len(ns)][1]}

LEMMA TopFacts ==
    ASSUME WellOrdered, NEW t \in Table, NEW d \in Direction
    PROVE  /\ \A l \in Top(t, d) : l \in Level /\ t[d][l] # None
           /\ \A l \in Level : t[d][l] # None => \E top \in Top(t, d) : l =< top
<1> DEFINE ns == Neighbors(t, d)
           n == Len(ns)
<1>1. Lists(t, d, ns, LookupTableLevels)
  BY ListingFacts
<1>2. Top(t, d) = IF ns = <<>> THEN {} ELSE {ns[n][1]}
  BY Zenon DEF Top
<1> HIDE DEF ns
<1>3. ns \in Seq(Level \X Node) /\ n \in Nat /\ (ns # <<>> => n \in 1..n)
  BY <1>1 DEF Lists
<1>4. ASSUME NEW l \in Top(t, d) PROVE l \in Level /\ t[d][l] # None
  BY <1>1, <1>2, <1>3, <1>4, Zenon DEF Lists, Level
<1>5. ASSUME NEW l \in Level, t[d][l] # None PROVE \E top \in Top(t, d) : l =< top
  <2>1. PICK i \in 1..n : ns[i] = <<l, t[d][l]>>
    BY <1>1, <1>5, Zenon DEF Lists, Level
  <2>2. ns[i][1] = l /\ ns # <<>>
    <3>1. 1..Len(<<>>) = {}
      OBVIOUS
    <3>2. ns # <<>>
      BY <2>1, <3>1, Zenon
    <3>3. ns[i][1] = l
      BY <2>1
    <3>4. QED
      BY <3>2, <3>3
  <2>3. i = n \/ i < n
    BY <1>3
  <2>4. ns[n][1] \in Level /\ (i < n => ns[i][1] < ns[n][1])
    BY <1>1, <1>3, <2>2, Zenon DEF Lists, Level
  <2>5. l =< ns[n][1]
    <3>1. l \in Nat /\ ns[n][1] \in Nat
      BY <2>4, LevelFacts, Zenon
    <3>2. l = ns[n][1] \/ l < ns[n][1]
      BY <2>2, <2>3, <2>4, Zenon
    <3>3. QED
      BY <3>1, <3>2
  <2>6. QED
    BY <1>2, <2>2, <2>5, Zenon
<1>6. QED
  BY <1>4, <1>5

(***************************************************************************)
(* The three views of one table: the listing of a side names exactly its   *)
(* entries, in order, and the highest level listed is max_populated_level. *)
(***************************************************************************)
LEMMA ViewsFollow ==
    ASSUME WellOrdered, SharedTypeOK
    PROVE  ViewsAgree
<1> DEFINE tops == Top(lt, "Left") \cup Top(lt, "Right")
           populated == {l \in Level : \E d \in Direction : lt[d][l] # None}
           highest == {l \in populated : \A k \in populated : k <= l}
<1>1. lt \in Table /\ "Left" \in Direction /\ "Right" \in Direction
  BY DEF SharedTypeOK, Direction
<1>2. \A d \in Direction : d = "Left" \/ d = "Right"
  BY DEF Direction
<1>3. tops \subseteq populated
  BY <1>1, TopFacts, Zenon
<1>4. \A l \in populated : \E top \in tops : l =< top
  BY <1>1, <1>2, TopFacts, Zenon
<1>5. populated \subseteq Level
  BY Zenon
<1>6. MaxPopulatedLevel(lt) = IF highest = {} THEN None ELSE CHOOSE l \in highest : TRUE
  BY Zenon DEF MaxPopulatedLevel
<1> HIDE DEF tops, populated
<1>7. MaxPopulatedLevel(lt) = IF tops = {} THEN None ELSE Max(tops)
  <2>1. CASE populated = {}
    BY <1>3, <1>6, <2>1, Zenon
  <2>2. CASE populated # {}
    <3>1. PICK x \in populated : \A y \in populated : y =< x
      BY <1>5, <2>2, LevelExtremes, Zenon
    <3>2. PICK top \in tops : x =< top
      BY <1>4, <3>1, Zenon
    <3>3. \A y \in populated : y \in Nat
      BY <1>5, LevelFacts, Zenon
    <3>4. x \in tops
      BY <1>3, <3>1, <3>2, <3>3
    <3>5. \A y \in populated : (\A z \in populated : z =< y) => y = x
      BY <3>1, <3>3
    <3>6. highest = {x}
      BY <3>1, <3>5, Zenon
    <3>7. \A y \in tops : (\A z \in tops : y >= z) => y = x
      BY <1>3, <3>1, <3>3, <3>4
    <3>8. \A z \in tops : x >= z
      BY <1>3, <3>1, <3>3
    <3>9. Max(tops) = x
      BY <3>4, <3>7, <3>8, Zenon DEF Max
    <3>10. (CHOOSE l \in highest : TRUE) = x
      BY <3>6
    <3>11. QED
      BY <1>6, <3>4, <3>6, <3>9, <3>10, Zenon
  <2>3. QED
    BY <2>1, <2>2, Zenon
<1>8. ASSUME NEW d \in Direction
      PROVE  LET ns == Neighbors(lt, d)
             IN  /\ \A i \in 2..Len(ns) : ns[i - 1][1] < ns[i][1]
                 /\ \A l \in Level : GetEntry(lt, l, d) # None
                         <=> \E i \in 1..Len(ns) : ns[i] = <<l, GetEntry(lt, l, d)>>
  <2> DEFINE ns == Neighbors(lt, d)
  <2>1. Lists(lt, d, ns, LookupTableLevels)
    BY <1>1, ListingFacts, Zenon
  <2> HIDE DEF ns
  <2>2. Len(ns) \in Nat
    BY <2>1 DEF Lists
  <2>3. \A i \in 2..Len(ns) : i \in 1..Len(ns) /\ i - 1 \in 1..Len(ns) /\ i - 1 < i
    BY <2>2
  <2>4. \A i \in 2..Len(ns) : ns[i - 1][1] < ns[i][1]
    BY <2>1, <2>3, Zenon DEF Lists
  <2>5. ASSUME NEW l \in Level
        PROVE  lt[d][l] # None <=> \E i \in 1..Len(ns) : ns[i] = <<l, lt[d][l]>>
    <3>1. lt[d][l] # None => \E i \in 1..Len(ns) : ns[i] = <<l, lt[d][l]>>
      BY <2>1, Zenon DEF Lists, Level
    <3>2. ASSUME NEW i \in 1..Len(ns), ns[i] = <<l, lt[d][l]>> PROVE lt[d][l] # None
      <4>1. ns[i][1] = l
        BY <3>2
      <4>2. QED
        BY <2>1, <4>1, Zenon DEF Lists
    <3>3. QED
      BY <3>1, <3>2, Zenon
  <2>6. QED
    BY <2>4, <2>5, Zenon DEF GetEntry, ns
<1>9. QED
  BY <1>7, <1>8, Zenon DEF ViewsAgree, tops, Top

-----------------------------------------------------------------------------
(***************************************************************************)
(* Of a table filled up to level m, exactly the levels below m are listed, *)
(* each at its own place.                                                  *)
(***************************************************************************)
LEMMA FullListing ==
    ASSUME WellOrdered, NEW t \in Table, NEW d \in Direction, NEW m \in 0..LookupTableLevels,
           \A l \in Level : t[d][l] # None <=> l < m
    PROVE  /\ Len(Neighbors(t, d)) = m
           /\ \A i \in 1..m : Neighbors(t, d)[i] = <<i - 1, t[d][i - 1]>>
<1> USE LevelsAssumption
<1>1. PICK f : Pushes(t, d, f)
  BY ListingLoop, Zenon
<1> DEFINE least(n) == IF n < m THEN n ELSE m
           Good(n) == f[n] = [i \in 1..least(n) |-> <<i - 1, t[d][i - 1]>>]
           T == {n \in 0..LookupTableLevels : ~Good(n)}
<1>2. Good(0)
  <2>1. f[0] = <<>> /\ least(0) = 0
    BY <1>1 DEF Pushes
  <2>2. QED
    BY <2>1
<1>3. ASSUME NEW n \in 1..LookupTableLevels, Good(n - 1) PROVE Good(n)
  <2> DEFINE entry == <<n - 1, t[d][n - 1]>>
  <2>1. f[n] = IF t[d][n - 1] = None THEN f[n - 1] ELSE Append(f[n - 1], entry)
    BY <1>1, Zenon DEF Pushes
  <2>2. n - 1 \in Level /\ (t[d][n - 1] # None <=> n - 1 < m)
    <3>1. n - 1 \in Level
      BY DEF Level
    <3>2. QED
      BY <3>1
  <2>3. CASE n - 1 < m
    <3>1. least(n - 1) = n - 1 /\ least(n) = n /\ n - 1 \in Nat
      BY <2>3
    <3> HIDE DEF least
    <3> DEFINE old == [i \in 1..(n - 1) |-> <<i - 1, t[d][i - 1]>>]
               new == [i \in 1..n |-> <<i - 1, t[d][i - 1]>>]
    <3>2. f[n - 1] = old /\ f[n] = Append(old, entry)
      BY <1>3, <2>1, <2>2, <2>3, <3>1, Zenon
    <3>3. Append(old, entry) = new
      <4>1. Len(old) = n - 1
        BY <3>1
      <4>2. Append(old, entry) = [i \in 1..((n - 1) + 1) |-> IF i \in 1..(n - 1) THEN old[i] ELSE entry]
        BY <3>1, <4>1
      <4>3. (n - 1) + 1 = n /\ \A i \in 1..n : i \in 1..(n - 1) \/ i = n
        BY <3>1
      <4>4. QED
        BY <4>2, <4>3
    <3>4. QED
      BY <3>1, <3>2, <3>3, Zenon
  <2>4. CASE ~(n - 1 < m)
    <3>1. least(n - 1) = m /\ least(n) = m
      BY <2>4
    <3> HIDE DEF least
    <3>2. QED
      BY <1>3, <2>1, <2>2, <2>4, <3>1, Zenon
  <2>5. QED
    BY <2>3, <2>4, Zenon
<1> HIDE DEF Good
<1>4. T = {}
  <2> SUFFICES ASSUME T # {} PROVE FALSE
    OBVIOUS
  <2>1. PICK n \in T : \A k \in T : n =< k
    <3>1. T \subseteq Nat
      OBVIOUS
    <3> HIDE DEF T
    <3>2. QED
      BY <3>1, LeastNatural, Zenon
  <2>2. n \in 0..LookupTableLevels /\ ~Good(n) /\ n # 0
    BY <1>2, <2>1, Zenon
  <2>3. n \in 1..LookupTableLevels /\ n - 1 \in 0..LookupTableLevels /\ ~(n =< n - 1)
    BY <2>2
  <2>4. Good(n - 1)
    BY <2>1, <2>3, Zenon
  <2>5. QED
    BY <1>3, <2>2, <2>3, <2>4, Zenon
<1>5. Good(LookupTableLevels)
  <2>1. LookupTableLevels \in 0..LookupTableLevels
    OBVIOUS
  <2>2. QED
    BY <1>4, <2>1, Zenon
<1>6. least(LookupTableLevels) = m /\ m \in Nat
  OBVIOUS
<1> HIDE DEF least
<1>7. Neighbors(t, d) = [i \in 1..m |-> <<i - 1, t[d][i - 1]>>]
  BY <1>1, <1>5, <1>6, Zenon DEF Pushes, Good
<1>8. QED
  BY <1>6, <1>7

(***************************************************************************)
(* A search for an entry that is nowhere else on its side of the table,    *)
(* from that entry's level, answers with the entry and its level.          *)
(***************************************************************************)
LEMMA ExactSearch ==
    ASSUME NEW self \in Node, NEW t \in Table, NEW l \in Level, NEW d \in Direction,
           t[d][l] # None,
           \A k \in Level : t[d][k] = t[d][l] => k = l
    PROVE  SearchById(self, t, t[d][l], l, d) = [result |-> t[d][l], termination_level |-> l]
<1> DEFINE target == t[d][l]
           reach == Reachable(t, target, l, d)
           far == Farthest(t, target, l, d)
           best == Best(t, target, l, d)
<1>1. target \in Node
  BY DEF Table, Entry
<1>2. \A k \in reach : /\ k \in Level /\ t[d][k] \in Node
                       /\ ~Precedes(d, target, t[d][k])
  BY LevelsAssumption DEF Reachable, Level, Table, Entry
<1>3. l \in reach
  <2>1. l \in 0..l
    BY LevelFacts
  <2>2. QED
    BY <1>1, <2>1, PrecedesOrder, Zenon DEF Reachable
<1>4. far = {k \in reach : \A j \in reach : ~Precedes(d, t[d][k], t[d][j])}
  BY Zenon DEF Farthest
<1>5. best = {k \in far : \A j \in far : IF d = "Left" THEN k <= j ELSE j <= k}
  BY Zenon DEF Best
<1> HIDE DEF reach, far, best
<1>6. l \in far
  BY <1>2, <1>3, <1>4, Zenon
<1>7. \A k \in far : k = l
  BY <1>1, <1>2, <1>3, <1>4, PrecedesOrder, Zenon
<1>8. l <= l
  BY LevelFacts
<1>9. best = {l}
  BY <1>5, <1>6, <1>7, <1>8, Zenon
<1>10. (CHOOSE k \in best : TRUE) = l
  BY <1>9
<1>11. QED
  BY <1>9, <1>10, Zenon DEF SearchById, best

(***************************************************************************)
(* No entry is twice on a side of the table; x is nowhere in it; and t     *)
(* became new by writing x and y at level l, left and right.               *)
(***************************************************************************)
Apart(t) ==
    \A d \in Direction, l, k \in Level : t[d][l] # None /\ t[d][k] = t[d][l] => k = l

Absent(x, t) == \A d \in Direction, l \in Level : t[d][l] # x

Written(t, l, x, y, new) ==
    /\ new["Left"][l] = x /\ new["Right"][l] = y
    /\ \A d \in Direction, k \in Level : k # l => new[d][k] = t[d][k]

(***************************************************************************)
(* The tables under construction: the levels below filled hold entries,    *)
(* no two of a side the same, and none an extreme before the extremes are  *)
(* set; an answer is the answer on the table as it still is.               *)
(***************************************************************************)
TablesInv ==
    /\ TableTypeOK
    /\ \A d \in Direction, l \in Level : fixture[d][l] # None <=> l < filled
    /\ Apart(fixture)
    /\ ~extremes => \A d \in Direction, l \in Level : fixture[d][l] \in Random \cup {None}
    /\ req # None =>
          /\ filled = LookupTableLevels
          /\ res = SearchById(req.self, fixture, req.target, req.level, req.direction)

(***************************************************************************)
(* A level written on both sides: what random_lookup_table and             *)
(* random_lookup_table_with_extremes do with update_entry.                 *)
(***************************************************************************)
LEMMA BothSides ==
    ASSUME NEW t \in Table, NEW x \in Node, NEW y \in Node, NEW l \in Level, NEW new,
           new = UpdateEntry(UpdateEntry(t, x, l, "Left"), y, l, "Right")
    PROVE  new \in Table /\ Written(t, l, x, y, new)
BY DEF UpdateEntry, Table, Entry, Direction, Written

(***************************************************************************)
(* Writing a level with entries that were not there keeps entries apart.   *)
(***************************************************************************)
LEMMA FreshLevel ==
    ASSUME NEW t, NEW x \in Node, NEW y \in Node, NEW l \in Level, NEW new,
           Apart(t), Absent(x, t), Absent(y, t), Written(t, l, x, y, new)
    PROVE  Apart(new)
<1>1. \A d \in Direction : new[d][l] = x \/ new[d][l] = y
  BY DEF Direction, Written
<1>2. /\ \A d \in Direction, k, j \in Level : t[d][k] # None /\ t[d][j] = t[d][k] => j = k
      /\ \A d \in Direction, k \in Level : t[d][k] # x /\ t[d][k] # y
      /\ \A d \in Direction, k \in Level : k # l => new[d][k] = t[d][k]
  BY Zenon DEF Apart, Absent, Written
<1>3. SUFFICES ASSUME NEW d \in Direction, NEW k \in Level, NEW j \in Level,
                      new[d][k] # None, new[d][j] = new[d][k], j # k
               PROVE  FALSE
  BY Zenon DEF Apart
<1>4. CASE k = l
  BY SMTT(30), Zenon, <1>1, <1>2, <1>3, <1>4
<1>5. CASE j = l
  BY SMTT(30), Zenon, <1>1, <1>2, <1>3, <1>5
<1>6. CASE k # l /\ j # l
  BY <1>2, <1>3, <1>6
<1>7. QED
  BY <1>4, <1>5, <1>6

(***************************************************************************)
(* The empty table of with_capacity satisfies the invariant.               *)
(***************************************************************************)
LEMMA InitTables == TableInit => TablesInv
<1> SUFFICES ASSUME TableInit PROVE TablesInv
  OBVIOUS
<1>1. /\ fixture \in Table
      /\ \A d \in Direction, l \in Level : fixture[d][l] = None /\ ~(l < 0)
  BY LevelFacts DEF TableInit, EmptyTable, Table, Entry
<1>2. 0 \in 0..LookupTableLevels
  BY LevelsAssumption
<1>3. QED
  BY <1>1, <1>2, Zenon DEF TableInit, TablesInv, TableTypeOK, Apart

(***************************************************************************)
(* Filling a level, setting the extremes and searching preserve it.        *)
(***************************************************************************)
LEMMA NextTables == TablesInv /\ [TableNext]_TableVars => TablesInv'
<1> SUFFICES ASSUME TablesInv, [TableNext]_TableVars PROVE TablesInv'
  OBVIOUS
<1>0. \A d \in Direction : d = "Left" \/ d = "Right"
  BY DEF Direction
<1>1. fixture \in Table /\ filled \in 0..LookupTableLevels /\ Random \subseteq Node
  BY DEF TablesInv, TableTypeOK, Random
<1>2. CASE FillLevel
  <2>1. PICK left \in Random \ Used, right \in Random \ Used :
            fixture' = UpdateEntry(UpdateEntry(fixture, left, filled, "Left"),
                                   right, filled, "Right")
    BY <1>2, Zenon DEF FillLevel
  <2>2. /\ filled \in Level /\ filled' = filled + 1 /\ filled' \in 0..LookupTableLevels
        /\ \A l \in Level : l < filled' <=> l = filled \/ l < filled
    BY <1>1, <1>2, LevelsAssumption DEF FillLevel, Level
  <2>3. left \in Node /\ right \in Node /\ Absent(left, fixture) /\ Absent(right, fixture)
    BY <1>1 DEF Used, Absent
  <2>4. fixture' \in Table /\ Written(fixture, filled, left, right, fixture')
    BY <1>1, <2>1, <2>2, <2>3, BothSides, Zenon
  <2>5. Apart(fixture')
    <3>1. Apart(fixture)
      BY Zenon DEF TablesInv
    <3>2. QED
      BY <2>2, <2>3, <2>4, <3>1, FreshLevel, Zenon
  <2>6. \A d \in Direction : fixture'[d][filled] \in Random /\ fixture'[d][filled] # None
    <3>1. \A d \in Direction : fixture'[d][filled] \in Random
      BY <1>0, <2>4, Zenon DEF Written
    <3>2. QED
      BY <1>1, <3>1, NoneAssumption, Zenon
  <2>7. \A d \in Direction, l \in Level : fixture'[d][l] # None <=> l < filled'
    BY <2>2, <2>4, <2>6 DEF TablesInv, Written
  <2>8. ~extremes' => \A d \in Direction, l \in Level : fixture'[d][l] \in Random \cup {None}
    BY <1>2, <2>4, <2>6, Zenon DEF TablesInv, FillLevel, Written
  <2>9. req' = None
    BY <1>1, <1>2 DEF FillLevel, TablesInv
  <2>10. QED
    BY <1>2, <2>2, <2>4, <2>5, <2>7, <2>8, <2>9, Zenon
       DEF TablesInv, TableTypeOK, FillLevel
<1>3. CASE SetExtremes
  <2>1. /\ 0 \in Level
        /\ fixture' = UpdateEntry(UpdateEntry(fixture, ZeroId, 0, "Left"), MaxId, 0, "Right")
        /\ filled' = filled /\ filled = LookupTableLevels
        /\ extremes' = TRUE /\ req' = None /\ res' = res
    BY <1>3, LevelFacts, Zenon DEF SetExtremes
  <2>2. \A l \in Level : l < filled
    BY <2>1, LevelsAssumption DEF Level
  <2>3. Absent(ZeroId, fixture) /\ Absent(MaxId, fixture) /\ ZeroId \in Node /\ MaxId \in Node
    <3>1. \A d \in Direction, l \in Level : fixture[d][l] # ZeroId /\ fixture[d][l] # MaxId
      BY <1>3, ExtremesAssumption, NoneAssumption, Zenon
         DEF TablesInv, SetExtremes, Random
    <3>2. QED
      BY <3>1, ExtremesAssumption, Zenon DEF Absent
  <2>4. fixture' \in Table /\ Written(fixture, 0, ZeroId, MaxId, fixture')
    BY <1>1, <2>1, <2>3, BothSides, Zenon
  <2>5. Apart(fixture')
    <3>1. Apart(fixture)
      BY Zenon DEF TablesInv
    <3>2. 0 \in Level
      BY <2>1, Zenon
    <3>3. QED
      BY <2>3, <2>4, <3>1, <3>2, FreshLevel, Zenon
  <2>6. \A d \in Direction : fixture'[d][0] # None
    BY <1>0, <2>4, ExtremesAssumption, NoneAssumption, Zenon DEF Written
  <2>7. \A d \in Direction, l \in Level : fixture'[d][l] # None <=> l < filled'
    BY <2>1, <2>2, <2>4, <2>6, Zenon DEF TablesInv, Written
  <2>8. QED
    BY <2>1, <2>4, <2>5, <2>7, Zenon DEF TablesInv, TableTypeOK
<1>4. ASSUME NEW r \in SearchRequest, SearchTable(r) PROVE TablesInv'
  <2>1. /\ r.self \in Node /\ r.target \in Node /\ r.level \in Level /\ r.direction \in Direction
    BY <1>1 DEF SearchRequest
  <2>2. res' \in [result : Node, termination_level : Level]
    <3> DEFINE answer == SearchById(r.self, fixture, r.target, r.level, r.direction)
    <3>1. answer.result \in Node /\ answer.termination_level \in 0..r.level
      BY <1>1, <2>1, SearchByIdFacts, Zenon
    <3>2. answer.termination_level \in Level
      BY <2>1, <3>1, LevelsBelow, Zenon
    <3>3. answer = [result |-> answer.result, termination_level |-> answer.termination_level]
      BY Zenon DEF SearchById
    <3>4. res' = answer
      BY <1>4, Zenon DEF SearchTable
    <3> HIDE DEF answer
    <3>5. QED
      BY <3>1, <3>2, <3>3, <3>4
  <2>3. QED
    BY <1>4, <2>2, Zenon DEF TablesInv, TableTypeOK, SearchTable
<1>5. CASE UNCHANGED TableVars
  BY <1>5, Zenon DEF TablesInv, TableTypeOK, TableVars
<1>6. QED
  BY <1>2, <1>3, <1>4, <1>5, Zenon DEF TableNext

(***************************************************************************)
(* What the tests rely on follows from it.                                 *)
(***************************************************************************)
LEMMA TablesServe ==
    ASSUME WellOrdered, TablesInv
    PROVE  TablesServeTests
<1>1. TableTypeOK /\ fixture \in Table /\ filled \in 0..LookupTableLevels
  BY Zenon DEF TablesInv, TableTypeOK
<1>2. EveryLevelListed
  BY <1>1, FullListing, Zenon DEF TablesInv, EveryLevelListed
<1>3. ExactSearchFinds
  <2> SUFFICES ASSUME req # None, req.target = fixture[req.direction][req.level]
               PROVE  res = [result |-> req.target, termination_level |-> req.level]
    BY Zenon DEF ExactSearchFinds
  <2>1. /\ req.self \in Node /\ req.target \in Node
        /\ req.level \in Level /\ req.direction \in Direction
    BY <1>1 DEF TableTypeOK, SearchRequest, Random
  <2>2. req.target # None
    BY <2>1, NoneAssumption, Zenon
  <2>3. \A l \in Level : fixture[req.direction][l] = req.target => l = req.level
    BY <2>1, <2>2 DEF TablesInv, Apart
  <2>4. res = SearchById(req.self, fixture, req.target, req.level, req.direction)
    BY Zenon DEF TablesInv
  <2>5. QED
    BY <1>1, <2>1, <2>2, <2>3, <2>4, ExactSearch
<1>4. QED
  BY <1>1, <1>2, <1>3 DEF TablesServeTests

-----------------------------------------------------------------------------
INSTANCE WellFoundedInduction

(***************************************************************************)
(* The naturals are well ordered, because < is well founded on them.       *)
(***************************************************************************)
LEMMA NaturalsWellOrdered == WellOrdered
<1> DEFINE R == OpToRel(<, Nat)
<1>1. \A x, y \in Nat : y < x => <<y, x>> \in R
  BY DEF OpToRel
<1>2. IsWellFoundedOn(R, Nat)
  BY Zenon, NatLessThanWellFounded
<1> HIDE DEF R
<1>3. ASSUME NEW T \in SUBSET Nat, T # {} PROVE \E x \in T : \A y \in T : x =< y
  <2>1. PICK x \in T : \A y \in T : ~(<<y, x>> \in R)
    BY Zenon, <1>2, <1>3, WFMin
  <2>2. \A y \in T : x \in Nat /\ y \in Nat /\ ~(y < x)
    BY <1>1, <2>1, Zenon
  <2>3. \A y \in T : x =< y
    BY <2>2, SMT
  <2>4. QED
    BY <2>3, Zenon
<1>4. QED
  BY <1>3, Zenon DEF WellOrdered

(***************************************************************************)
(* The inductive invariant of searches and link handlers sharing a table.  *)
(***************************************************************************)
THEOREM TightInvariant == SharedSpec => []TightInv
<1>1. SharedInit => TightInv
  BY InitTight DEF TightInv
<1>2. QED
  BY <1>1, BaseInvariant, NextTight, NaturalsWellOrdered, PTL DEF SharedSpec

(***************************************************************************)
(* search_by_id reads its levels one lock at a time, yet while only the    *)
(* link handlers write it answers with its own node only if no neighbour   *)
(* was on the way when it began: links made between the reads cannot hide  *)
(* one.                                                                    *)
(***************************************************************************)
THEOREM FallbackSound == SharedSpec => []FallbackIsTrue
<1>1. TightInv => FallbackIsTrue
  BY SMTT(30), Zenon DEF TightInv, Tight, FallsBackRightly, FallbackIsTrue
<1>2. QED
  BY <1>1, TightInvariant, PTL

(***************************************************************************)
(* Likewise, the neighbour a search names stays backed by the slot it      *)
(* names.                                                                  *)
(***************************************************************************)
THEOREM ChoiceSound == SharedSpec => []ChoiceIsBacked
<1>1. TightInv => ChoiceIsBacked
  BY DEF TightInv, Tight, ChoosesRightly, ChoiceIsBacked
<1>2. QED
  BY <1>1, TightInvariant, PTL

(***************************************************************************)
(* In every reachable table of any number of levels, whoever writes to it, *)
(* left_neighbors, right_neighbors, get_entry and max_populated_level      *)
(* describe the same neighbours.                                           *)
(***************************************************************************)
THEOREM ViewsAlwaysAgree == SharedSpec => []ViewsAgree
BY ViewsFollow, NaturalsWellOrdered, SharedTypeCorrect, PTL

(***************************************************************************)
(* For any number of levels and identifiers: the tables the tests of       *)
(* search_by_id are built on are full and listed level by level, and a     *)
(* search for an entry finds that entry at its level, extremes or not.     *)
(***************************************************************************)
THEOREM FixtureTablesServe == TableSpec => []TablesServeTests
BY InitTables, NextTables, TablesServe, NaturalsWellOrdered, PTL DEF TableSpec
=============================================================================

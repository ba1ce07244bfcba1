------------------------------ MODULE NodeCore ------------------------------
(***************************************************************************)
(* What one node computes from its own lookup table: BaseCore              *)
(* (src/node/core.rs) and the accept / forward / drop decisions of the two *)
(* link handlers of BaseNode (src/node/base_node.rs).                      *)
(***************************************************************************)
EXTENDS LookupTable

(***************************************************************************)
(* Faulty searches: the filter against the target is missing; below, the   *)
(* level of the answer is.                                                 *)
(***************************************************************************)
Reachable_PastTarget(lt, target, level, d) == {l \in 0..level : lt[d][l] # None}

(***************************************************************************)
(* BaseCore::search_by_id: among the entries of levels 0..level that are   *)
(* not past the target, the one farthest along d; the node itself, at      *)
(* level 0, if there is none.  On a tie min_by_key keeps the first (lowest *)
(* level) and max_by_key the last (highest level).  level is in range.     *)
(***************************************************************************)
Reachable(lt, target, level, d) ==
    {l \in 0..level : lt[d][l] # None /\ ~Precedes(d, target, lt[d][l])}

Farthest(lt, target, level, d) ==
    LET reach == Reachable(lt, target, level, d)
    IN  {l \in reach : \A k \in reach : ~Precedes(d, lt[d][l], lt[d][k])}

Best(lt, target, level, d) ==
    LET far == Farthest(lt, target, level, d)
    IN  {l \in far : \A k \in far : IF d = "Left" THEN l <= k ELSE k <= l}

SearchById_AtLevelZero(self, lt, target, level, d) ==
    LET best == Best(lt, target, level, d)
    IN  [result |-> IF best = {} THEN self ELSE lt[d][CHOOSE l \in best : TRUE],
         termination_level |-> 0]

SearchById(self, lt, target, level, d) ==
    LET best == Best(lt, target, level, d)
        l    == CHOOSE k \in best : TRUE
    IN  IF best = {}
        THEN [result |-> self, termination_level |-> 0]
        ELSE [result |-> lt[d][l], termination_level |-> l]

CoreMaxLevel(lt) ==
    LET top == MaxPopulatedLevel(lt) IN IF top = None THEN 0 ELSE top

(***************************************************************************)
(* Faulty check: the candidate's side is not looked at.                    *)
(***************************************************************************)
BelongsInOwnSlot_AnySide(self, level, d, candidate) ==
    level < LookupTableLevels /\ self # candidate /\ PrefixMatch(self, candidate, level)

(***************************************************************************)
(* belongs_in_own_slot: the level is real, the candidate lies on d of this *)
(* node and shares `level` prefix bits with it.                            *)
(***************************************************************************)
BelongsInOwnSlot(self, level, d, candidate) ==
    /\ level < LookupTableLevels
    /\ Precedes(d, self, candidate)
    /\ PrefixMatch(self, candidate, level)

(***************************************************************************)
(* The two link messages.  dest is the node the event is sent to; dir is   *)
(* receiver-owned, it names the slot of dest the message is about.         *)
(***************************************************************************)
GetLinkOp(dest, nonce, candidate, dir, level) ==
    [type |-> "GetLinkOp", dest |-> dest, nonce |-> nonce,
     candidate |-> candidate, dir |-> dir, level |-> level]

SetLinkOp(dest, nonce, dir, level, linked) ==
    [type |-> "SetLinkOp", dest |-> dest, nonce |-> nonce,
     dir |-> dir, level |-> level, linked |-> linked]

(***************************************************************************)
(* A request the receiver can serve: the candidate fits the slot it names. *)
(***************************************************************************)
GetLinkBelongs(m) == BelongsInOwnSlot(m.dest, m.level, m.dir, m.candidate)

(***************************************************************************)
(* Faulty handlers: the reply names the receiver's slot and not its        *)
(* mirror; a reply fills an empty slot only, or none.                      *)
(***************************************************************************)
GetLinkSends_SameSide(lt, m) ==
    IF ~GetLinkBelongs(m) THEN {}
    ELSE IF LinkOutcome(lt, m.level, m.dir, m.candidate) = "LinkedDirectly"
    THEN {SetLinkOp(m.candidate, m.nonce, m.dir, m.level, m.dest)}
    ELSE {[m EXCEPT !.dest = GetEntry(lt, m.level, m.dir)]}

SetLinkTable_EmptyOnly(lt, m) ==
    IF BelongsInOwnSlot(m.dest, m.level, m.dir, m.linked) /\ lt[m.dir][m.level] = None
    THEN TryRelink(lt, m.level, m.dir, m.linked)
    ELSE lt

SetLinkTable_Ignored(lt, m) == lt

(***************************************************************************)
(* handle_get_link_request at m.dest, whose table is lt: a request for a   *)
(* slot the candidate cannot occupy is dropped; otherwise try_link decides *)
(* and the node confirms the link to the candidate, or forwards the        *)
(* request unchanged to the neighbour that sits in between.                *)
(***************************************************************************)
GetLinkTable(lt, m) ==
    IF GetLinkBelongs(m) THEN TryRelink(lt, m.level, m.dir, m.candidate) ELSE lt

GetLinkSends(lt, m) ==
    IF ~GetLinkBelongs(m) THEN {}
    ELSE IF LinkOutcome(lt, m.level, m.dir, m.candidate) = "LinkedDirectly"
    THEN {SetLinkOp(m.candidate, m.nonce, Opposite(m.dir), m.level, m.dest)}
    ELSE {[m EXCEPT !.dest = GetEntry(lt, m.level, m.dir)]}

(***************************************************************************)
(* handle_set_link_response, its table write: try_link whatever the waiter *)
(* map says; Forward keeps the closer entry, a wrong slot is skipped.      *)
(***************************************************************************)
SetLinkTable(lt, m) ==
    IF m.linked # None /\ BelongsInOwnSlot(m.dest, m.level, m.dir, m.linked)
    THEN TryRelink(lt, m.level, m.dir, m.linked)
    ELSE lt

-----------------------------------------------------------------------------
(***************************************************************************)
(* The tables t are ordered: whatever fills a slot lies on that side of    *)
(* its owner and shares the slot's number of prefix bits with it.          *)
(***************************************************************************)
Ordered(t) ==
    \A n \in Node, d \in Direction, l \in Level :
        LET x == t[n][d][l]
        IN  x # None => Precedes(d, n, x) /\ PrefixMatch(n, x, l)

(***************************************************************************)
(* In the tables t, n's slot holds c or a node strictly between n and c.   *)
(***************************************************************************)
AsCloseAs(t, n, d, l, c) ==
    /\ t[n][d][l] # None
    /\ ~Precedes(d, c, t[n][d][l])

(***************************************************************************)
(* The tables of a network that is already up: ordered, and every link is  *)
(* known at both ends.                                                     *)
(***************************************************************************)
Wired(t) ==
    /\ t \in [Node -> Table]
    /\ Ordered(t)
    /\ \A n \in Node, d \in Direction, l \in Level :
          t[n][d][l] # None => AsCloseAs(t, t[n][d][l], Opposite(d), l, n)
=============================================================================

--------------------------- MODULE TableFixtures ----------------------------
(***************************************************************************)
(* The lookup tables the tests of search_by_id are built on                *)
(* (random_lookup_table and random_lookup_table_with_extremes in           *)
(* src/core/testutil/fixtures.rs), and one search on such a table.         *)
(* Random identifiers are distinct and are not an extreme: two 32-byte     *)
(* draws do not coincide.                                                  *)
(***************************************************************************)
EXTENDS NodeCore

VARIABLES
    fixture,    \* the table under construction
    filled,     \* how many levels random_lookup_table has filled
    extremes,   \* random_lookup_table_with_extremes has set its two entries
    req, res    \* the latest search and its answer, None before the first

TableVars == <<fixture, filled, extremes, req, res>>

ZeroId == Min(Node)
MaxId == Max(Node)

(***************************************************************************)
(* The identifiers have a least and a greatest: they are of a fixed size.  *)
(***************************************************************************)
ASSUME ExtremesAssumption == ZeroId \in Node /\ MaxId \in Node

Random == Node \ {ZeroId, MaxId}

Used == {fixture[d][l] : d \in Direction, l \in Level}

SearchRequest == [self : Random, target : Node, level : Level, direction : Direction]

TableInit ==
    /\ fixture = EmptyTable
    /\ filled = 0
    /\ extremes = FALSE
    /\ req = None /\ res = None

(***************************************************************************)
(* One iteration of random_lookup_table.                                   *)
(***************************************************************************)
FillLevel ==
    /\ filled < LookupTableLevels
    /\ \E left, right \in Random \ Used :
           /\ left # right
           /\ fixture' = UpdateEntry(UpdateEntry(fixture, left, filled, "Left"),
                                     right, filled, "Right")
    /\ filled' = filled + 1
    /\ UNCHANGED <<extremes, req, res>>

SetExtremes ==
    /\ filled = LookupTableLevels /\ ~extremes /\ req = None
    /\ fixture' = UpdateEntry(UpdateEntry(fixture, ZeroId, 0, "Left"), MaxId, 0, "Right")
    /\ extremes' = TRUE
    /\ UNCHANGED <<filled, req, res>>

(***************************************************************************)
(* A search by a node, not in its own table, that holds the finished one.  *)
(***************************************************************************)
SearchTable(r) ==
    /\ filled = LookupTableLevels /\ req = None
    /\ r.self \notin Used
    /\ req' = r
    /\ res' = SearchById(r.self, fixture, r.target, r.level, r.direction)
    /\ UNCHANGED <<fixture, filled, extremes>>

TableNext == FillLevel \/ SetExtremes \/ \E r \in SearchRequest : SearchTable(r)

TableSpec == TableInit /\ [][TableNext]_TableVars

-----------------------------------------------------------------------------
TableTypeOK ==
    /\ fixture \in Table
    /\ filled \in 0..LookupTableLevels
    /\ extremes \in BOOLEAN
    /\ req \in SearchRequest \cup {None}
    /\ res \in [result : Node, termination_level : Level] \cup {None}

(***************************************************************************)
(* random_lookup_table "inserts 2 * n entries", and left_neighbors and     *)
(* right_neighbors list them level by level: nothing is overwritten, lost  *)
(* or listed twice.                                                        *)
(***************************************************************************)
EveryLevelListed ==
    \A d \in Direction :
        /\ Len(Neighbors(fixture, d)) = filled
        /\ \A n \in 1..filled : Neighbors(fixture, d)[n] = <<n - 1, fixture[d][n - 1]>>

(***************************************************************************)
(* A search for an entry of the table, started at that entry's level,      *)
(* returns the entry and its level: no other entry hides it, extremes or   *)
(* not (test_search_by_id_exact_result).                                   *)
(***************************************************************************)
ExactSearchFinds ==
    (req # None /\ req.target = fixture[req.direction][req.level]) =>
        res = [result |-> req.target, termination_level |-> req.level]

(***************************************************************************)
(* The tables of the search tests: random_lookup_table fills every level,  *)
(* the neighbour lists name it level by level, every search is answered,   *)
(* and search_by_id for an entry finds that entry at its level.            *)
(***************************************************************************)
TablesServeTests == TableTypeOK /\ EveryLevelListed /\ ExactSearchFinds
=============================================================================

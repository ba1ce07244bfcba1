---------------------------- MODULE LookupTable -----------------------------
(***************************************************************************)
(* The lookup table of one node (src/core/lookup): for every direction and *)
(* level, the neighbour there or None.  Each operator is one critical      *)
(* section of ArrayLookupTable, as a function of the table lt.             *)
(***************************************************************************)
EXTENDS Identities, Sequences, FiniteSetsExt

Entry == Node \cup {None}

Table == [Direction -> [Level -> Entry]]

EmptyTable == [d \in Direction |-> [l \in Level |-> None]]

GetEntry(lt, level, d) == lt[d][level]

(***************************************************************************)
(* Faulty decisions: the last writer wins; the nearer node is forwarded.   *)
(***************************************************************************)
RelinkOutcome_LastWriterWins(lt, level, d, claimant) ==
    IF lt[d][level] = claimant THEN "AlreadyConsistent" ELSE "Relinked"

RelinkOutcome_WrongWay(lt, level, d, claimant) ==
    LET existing == lt[d][level]
    IN  IF existing = claimant THEN "AlreadyConsistent"
        ELSE IF existing # None /\ Precedes(d, claimant, existing) THEN "Forward"
        ELSE "Relinked"

(***************************************************************************)
(* try_relink's three-way decision against the existing entry, and the     *)
(* table it leaves behind.                                                 *)
(***************************************************************************)
RelinkOutcome(lt, level, d, claimant) ==
    LET existing == lt[d][level]
    IN  IF existing = claimant THEN "AlreadyConsistent"
        ELSE IF existing # None /\ Precedes(d, existing, claimant) THEN "Forward"
        ELSE "Relinked"

TryRelink(lt, level, d, claimant) ==
    IF RelinkOutcome(lt, level, d, claimant) = "Relinked"
    THEN [lt EXCEPT ![d][level] = claimant]
    ELSE lt

(***************************************************************************)
(* try_link delegates to try_relink and folds AlreadyConsistent and        *)
(* Relinked into LinkedDirectly.                                           *)
(***************************************************************************)
LinkOutcome(lt, level, d, candidate) ==
    IF RelinkOutcome(lt, level, d, candidate) = "Forward"
    THEN "Forward"
    ELSE "LinkedDirectly"

(***************************************************************************)
(* The populated level with none above it, the first found from the top.   *)
(***************************************************************************)
MaxPopulatedLevel(lt) ==
    LET populated == {l \in Level : \E d \in Direction : lt[d][l] # None}
        highest   == {l \in populated : \A k \in populated : k <= l}
    IN  IF highest = {} THEN None ELSE CHOOSE l \in highest : TRUE

(***************************************************************************)
(* The two unconditional writes.  A level past the table is an error that  *)
(* leaves the table alone.                                                 *)
(***************************************************************************)
UpdateEntry(lt, identity, level, d) ==
    IF level \in Level THEN [lt EXCEPT ![d][level] = identity] ELSE lt

RemoveEntry(lt, level, d) ==
    IF level \in Level THEN [lt EXCEPT ![d][level] = None] ELSE lt

(***************************************************************************)
(* left_neighbors and right_neighbors: one loop over the levels, bottom    *)
(* up, which pushes the populated ones.                                    *)
(***************************************************************************)
Neighbors_SkipsTop(lt, d) ==
    LET listed[n \in 0..LookupTableLevels] ==
            IF n = 0 THEN <<>>
            ELSE IF lt[d][n - 1] = None THEN listed[n - 1]
            ELSE Append(listed[n - 1], <<n - 1, lt[d][n - 1]>>)
    IN  listed[LookupTableLevels - 1]

Neighbors(lt, d) ==
    LET listed[n \in 0..LookupTableLevels] ==
            IF n = 0 THEN <<>>
            ELSE IF lt[d][n - 1] = None THEN listed[n - 1]
            ELSE Append(listed[n - 1], <<n - 1, lt[d][n - 1]>>)
    IN  listed[LookupTableLevels]
=============================================================================

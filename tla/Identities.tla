----------------------------- MODULE Identities -----------------------------
(***************************************************************************)
(* Identifiers, membership vectors and directions: the values every other  *)
(* module of the skip graph is built from (src/core/model).                *)
(*                                                                         *)
(* An Identifier is a 32-byte big-endian number, so a set of nodes is a    *)
(* set of naturals and `<` is the code's Ord.  An Identity (id, membership *)
(* vector, address) is represented by its id: ids are unique on a network  *)
(* (NetworkHub refuses a second registration), so the id determines the    *)
(* rest, and MemVec looks the membership vector up.                        *)
(***************************************************************************)
EXTENDS Naturals

CONSTANTS
    Node,               \* the identifiers of all nodes, joined or not
    MemVec,             \* the membership vector of every node, bit by bit
    LookupTableLevels,  \* LOOKUP_TABLE_LEVELS (256 in the code)
    None                \* Option::None

ASSUME NodeAssumption   == Node \subseteq Nat
ASSUME NoneAssumption   == None \notin Node
ASSUME LevelsAssumption == LookupTableLevels \in Nat \ {0}
ASSUME MemVecAssumption == MemVec \in [Node -> [1..LookupTableLevels -> {0, 1}]]

Direction == {"Left", "Right"}

Level == 0..(LookupTableLevels - 1)

Opposite(d) == IF d = "Left" THEN "Right" ELSE "Left"

(***************************************************************************)
(* a comes strictly before b when one walks in direction d.                *)
(***************************************************************************)
Precedes(d, a, b) == IF d = "Left" THEN a > b ELSE a < b

(***************************************************************************)
(* common_prefix_bit(a, b) >= level: the first `level` bits agree.         *)
(***************************************************************************)
PrefixMatch(a, b, level) == \A i \in 1..level : MemVec[a][i] = MemVec[b][i]
=============================================================================

------------------------------ MODULE MCValues ------------------------------
(***************************************************************************)
(* The value types and what the tests build from them, for TLC: membership *)
(* vectors, identifiers, the generators of identifiers and the tables of   *)
(* the search tests.  They share no state, so a behaviour is one of one of *)
(* them, chosen at the start, while the others stay at one initial state.  *)
(***************************************************************************)
EXTENDS MembershipVector, Identifier, IdentifierFixtures, TableFixtures, SequencesExt

VARIABLE running    \* the component of this behaviour

allVars == <<running, VecVars, IdVars, FixtureVars, TableVars>>

(***************************************************************************)
(* Vectors that differ in the first bit of a byte, the last one, one in    *)
(* between, and in several.  Texts of up to five characters, one more than *)
(* an identifier of two bytes takes: the digits 0, 1 and f, and a          *)
(* character that is no digit.  Drawn bytes at and next to the ends of     *)
(* their range.                                                            *)
(***************************************************************************)
MCVectors == [Index -> {0, 1, 2, 8, 16, 64, 127, 128, 129, 192, 254, 255}]
MCTexts == BoundedSeq({0, 1, 15}, 5) \cup {<<1, NotHex>>, <<NotHex, 0, 1>>}
MCDrawn == [Index -> {0, 1, 254, 255}]
MCNode == 0..6
MCMemVec == [n \in MCNode |-> <<0, 0>>]

-----------------------------------------------------------------------------
ValuesInit ==
    /\ running \in {"prefix", "compare", "fixtures", "tables"}
    /\ running # "prefix" => a = ZERO /\ b = ZERO
    /\ running # "compare" => text = [s \in Side |-> <<>>]
    /\ running # "fixtures" => mid = ZERO
    /\ VecInit /\ IdInit /\ FixtureInit /\ TableInit

ValuesNext ==
    /\ UNCHANGED running
    /\ \/ running = "prefix" /\ VecNext
          /\ UNCHANGED <<IdVars, FixtureVars, TableVars>>
       \/ running = "compare" /\ IdNext
          /\ UNCHANGED <<VecVars, FixtureVars, TableVars>>
       \/ running = "fixtures" /\ FixtureNext
          /\ UNCHANGED <<VecVars, IdVars, TableVars>>
       \/ running = "tables" /\ TableNext
          /\ UNCHANGED <<VecVars, IdVars, FixtureVars>>

ValuesSpec == ValuesInit /\ [][ValuesNext]_allVars
=============================================================================

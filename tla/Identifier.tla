----------------------------- MODULE Identifier -----------------------------
(***************************************************************************)
(* identifier.rs: two texts are read as identifiers and compared byte by   *)
(* byte, one iteration of the loop of compare a step.                      *)
(***************************************************************************)
EXTENDS Bytes

CONSTANT Texts     \* the texts that may be read

ASSUME TextsAssumption == Texts \subseteq Seq(0..NotHex)

VARIABLES
    text,       \* the text of each side
    read,       \* what from_string made of it: not called, ok or err
    id,         \* the identifier it gave
    i,          \* the loop index of compare, its diff_index in the end
    result      \* its ComparisonResult

IdVars == <<text, read, id, i, result>>

Side == {"left", "right"}

ComparisonResult == {"CompareGreater", "CompareEqual", "CompareLess"}

IdInit ==
    /\ text \in [Side -> Texts]
    /\ read = [s \in Side |-> "no"]
    /\ id = [s \in Side |-> ZERO]
    /\ i = 0
    /\ result = "none"

(***************************************************************************)
(* Identifier::from_string.                                                *)
(***************************************************************************)
ReadText(s) ==
    /\ read[s] = "no"
    /\ read' = [read EXCEPT ![s] = IF Parses(text[s]) THEN "ok" ELSE "err"]
    /\ id' = IF Parses(text[s]) THEN [id EXCEPT ![s] = FromString(text[s])] ELSE id
    /\ UNCHANGED <<text, i, result>>

(***************************************************************************)
(* Identifier::compare, under Ord::cmp.                                    *)
(***************************************************************************)
Comparing == (\A s \in Side : read[s] = "ok") /\ result = "none"

(***************************************************************************)
(* Faulty loop: a diff_index past the difference.                          *)
(***************************************************************************)
CompareByte_IndexPast ==
    /\ Comparing /\ i < Size
    /\ LET l == id["left"][i]
           r == id["right"][i]
       IN  \/ l < r /\ result' = "CompareLess" /\ i' = i + 1
           \/ l > r /\ result' = "CompareGreater" /\ i' = i + 1
           \/ l = r /\ i' = i + 1 /\ UNCHANGED result
    /\ UNCHANGED <<text, read, id>>

CompareByte ==
    /\ Comparing /\ i < Size
    /\ LET l == id["left"][i]
           r == id["right"][i]
       IN  \/ l < r /\ result' = "CompareLess" /\ i' = i
           \/ l > r /\ result' = "CompareGreater" /\ i' = i
           \/ l = r /\ i' = i + 1 /\ UNCHANGED result
    /\ UNCHANGED <<text, read, id>>

CompareEqual ==
    /\ Comparing /\ i = Size
    /\ result' = "CompareEqual"
    /\ UNCHANGED <<text, read, id, i>>

(***************************************************************************)
(* Faulty Display: the byte at diff_index is left out.                     *)
(***************************************************************************)
Shown_Exclusive(s) ==
    IF result = "CompareEqual" THEN HexEncode(id[s]) ELSE SubSeq(HexEncode(id[s]), 1, 2 * i)

(***************************************************************************)
(* Display of the ComparisonContext: what it prints of a side, the bytes   *)
(* up to and including diff_index, or all of them for equal identifiers.   *)
(***************************************************************************)
Shown(s) ==
    IF result = "CompareEqual" THEN HexEncode(id[s]) ELSE SubSeq(HexEncode(id[s]), 1, 2 * (i + 1))

IdNext == (\E s \in Side : ReadText(s)) \/ CompareByte \/ CompareEqual

IdSpec == IdInit /\ [][IdNext]_IdVars

-----------------------------------------------------------------------------
IdTypeOK ==
    /\ text \in [Side -> Texts]
    /\ read \in [Side -> {"no", "ok", "err"}]
    /\ id \in [Side -> Array]
    /\ i \in 0..Size
    /\ result \in ComparisonResult \cup {"none"}

(***************************************************************************)
(* The result and the diff_index of compare tell the truth: the bytes      *)
(* before diff_index agree, diff_index is Size exactly for equal           *)
(* identifiers, and the result is the lexicographic order, so Ord on       *)
(* identifiers is a total order.                                           *)
(***************************************************************************)
ComparesLexicographically ==
    LET l == id["left"]
        r == id["right"]
    IN  result # "none" =>
            /\ \A j \in 0..(i - 1) : l[j] = r[j]
            /\ i < Size => l[i] # r[i]
            /\ result = "CompareEqual" <=> l = r
            /\ result = "CompareLess" <=> LexLess(l, r)
            /\ result = "CompareGreater" <=> LexLess(r, l)

(***************************************************************************)
(* Reading and displaying are inverse: Display of what from_string made of *)
(* a text is the text with the zeros its identifier was padded with.       *)
(***************************************************************************)
ReadsBack ==
    \A s \in Side : read[s] = "ok" =>
        LET shown == HexEncode(id[s])
            pad   == 2 * Size - Len(text[s])
        IN  /\ \A k \in 1..pad : shown[k] = 0
            /\ \A k \in 1..Len(text[s]) : shown[pad + k] = text[s][k]

(***************************************************************************)
(* The number a hex text denotes.                                          *)
(***************************************************************************)
Value(s) ==
    LET val[n \in 0..Len(s)] == IF n = 0 THEN 0 ELSE 16 * val[n - 1] + s[n]
    IN  val[Len(s)]

(***************************************************************************)
(* Identifiers stand for the numbers their texts denote: Display gives the *)
(* text back, padded on the left, and identifiers compare as the numbers,  *)
(* however long the texts are.  Padding, decoding and the byte loop are    *)
(* together the order of naturals that the models of the protocol use.     *)
(***************************************************************************)
TextsDenoteNumbers ==
    LET l == Value(text["left"])
        r == Value(text["right"])
    IN  /\ ReadsBack
        /\ result = "CompareLess" => l < r
        /\ result = "CompareEqual" => l = r
        /\ result = "CompareGreater" => l > r

(***************************************************************************)
(* The text a comparison prints is true as it stands, shortened though it  *)
(* is: the slices stay within the arrays, what is printed of the two sides *)
(* are numbers in the order printed between them, and one byte less would  *)
(* not tell them apart.                                                    *)
(***************************************************************************)
ShowsTheDifference ==
    LET l == Shown("left")
        r == Shown("right")
    IN  result # "none" =>
            /\ Len(l) = Len(r) /\ Len(l) <= 2 * Size
            /\ result = "CompareLess" <=> Value(l) < Value(r)
            /\ result = "CompareGreater" <=> Value(l) > Value(r)
            /\ SubSeq(l, 1, 2 * i) = SubSeq(r, 1, 2 * i)
=============================================================================

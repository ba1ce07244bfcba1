------------------------------- MODULE Bytes -------------------------------
(***************************************************************************)
(* The fixed-size byte arrays behind Identifier and MembershipVector:      *)
(* their conversions from bytes and hex text and back.  A text is a        *)
(* sequence of characters; 0..15 are the hex digits, NotHex any other.     *)
(***************************************************************************)
EXTENDS Integers, Sequences

CONSTANT Size      \* IDENTIFIER_SIZE_BYTES

ASSUME SizeAssumption == Size \in Nat \ {0}

Byte  == 0..255
Index == 0..(Size - 1)
Array == [Index -> Byte]

ZERO == [i \in Index |-> 0]
MAX == [i \in Index |-> 255]

NotHex == 16

-----------------------------------------------------------------------------
(***************************************************************************)
(* hex::decode and hex::encode: two digits a byte, the high one first.     *)
(***************************************************************************)
HexDecodes(s) == Len(s) % 2 = 0 /\ \A k \in 1..Len(s) : s[k] # NotHex

HexDecode(s) == [k \in 1..(Len(s) \div 2) |-> 16 * s[2 * k - 1] + s[2 * k]]

HexEncode(a) ==
    [k \in 1..(2 * Size) |->
        IF k % 2 = 1 THEN a[(k - 1) \div 2] \div 16 ELSE a[(k - 1) \div 2] % 16]

(***************************************************************************)
(* Faulty conversion: the bytes are padded on the right.                   *)
(***************************************************************************)
FromBytes_PadsRight(bytes) ==
    [i \in Index |-> IF i < Len(bytes) THEN bytes[i + 1] ELSE 0]

(***************************************************************************)
(* from_bytes refuses more than Size bytes and pads fewer on the left.     *)
(***************************************************************************)
FitsBytes(bytes) == Len(bytes) <= Size

FromBytes(bytes) ==
    LET offset == Size - Len(bytes)
    IN  [i \in Index |-> IF i < offset THEN 0 ELSE bytes[i - offset + 1]]

(***************************************************************************)
(* from_string succeeds if the text decodes and its bytes fit.             *)
(***************************************************************************)
Parses(s) == HexDecodes(s) /\ FitsBytes(HexDecode(s))

FromString(s) == FromBytes(HexDecode(s))

(***************************************************************************)
(* The order of arrays as numbers, most significant byte first.            *)
(***************************************************************************)
LexLess(a, b) == \E i \in Index : a[i] < b[i] /\ \A j \in 0..(i - 1) : a[j] = b[j]
=============================================================================

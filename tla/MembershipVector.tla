-------------------------- MODULE MembershipVector --------------------------
(***************************************************************************)
(* memvec.rs: common_prefix_bit of two vectors, one iteration of its two   *)
(* loops a step, and the decomposition of both at the bit it found.        *)
(***************************************************************************)
EXTENDS Bytes

CONSTANT Vectors   \* the vectors compared

ASSUME VectorsAssumption == Vectors \subseteq Array

VARIABLES
    a, b,           \* self and other
    k,              \* the byte the outer loop is at
    bit,            \* the bit the inner loop is at; 8 outside it
    common_bits,    \* the count so far
    returned,       \* whether common_prefix_bit has returned
    parts           \* what decompose_at_bit made of a and b, if it was called

VecVars == <<a, b, k, bit, common_bits, returned, parts>>

-----------------------------------------------------------------------------
(***************************************************************************)
(* Bit n of a byte; bit 7 is the most significant.  Mask[n + 1] is 1 << n. *)
(***************************************************************************)
Mask == <<1, 2, 4, 8, 16, 32, 64, 128>>

Bit(byte, n) == (byte \div Mask[n + 1]) % 2

ByteString(byte) == [p \in 1..8 |-> Bit(byte, 8 - p)]

(***************************************************************************)
(* The bit string of a vector, its first bit at position 1.                *)
(***************************************************************************)
ToBitString(v) == [p \in 1..(8 * Size) |-> Bit(v[(p - 1) \div 8], 7 - ((p - 1) % 8))]

(***************************************************************************)
(* decompose_at_bit panics for an index past the last bit.                 *)
(***************************************************************************)
Panicked == [panic |-> TRUE, left |-> <<>>, pivot |-> <<>>, right |-> <<>>]

(***************************************************************************)
(* Faulty decomposition: the pivot byte stays in the left part.            *)
(***************************************************************************)
DecomposeAtBit_Inclusive(v, bit_index) ==
    LET p == bit_index \div 8
    IN  IF p >= Size THEN Panicked
        ELSE [panic |-> FALSE,
              left  |-> [n \in 1..(p + 1) |-> v[n - 1]],
              pivot |-> ByteString(v[p]),
              right |-> [n \in 1..(Size - 1 - p) |-> v[p + n]]]

DecomposeAtBit(v, bit_index) ==
    LET p == bit_index \div 8
    IN  IF p >= Size THEN Panicked
        ELSE [panic |-> FALSE,
              left  |-> [n \in 1..p |-> v[n - 1]],
              pivot |-> ByteString(v[p]),
              right |-> [n \in 1..(Size - 1 - p) |-> v[p + n]]]

-----------------------------------------------------------------------------
VecInit ==
    /\ a \in Vectors /\ b \in Vectors
    /\ k = 0 /\ bit = 8 /\ common_bits = 0
    /\ returned = FALSE
    /\ parts = <<>>

(***************************************************************************)
(* The outer loop: equal bytes count whole.                                *)
(***************************************************************************)
PrefixByte ==
    /\ ~returned /\ bit = 8 /\ k < Size
    /\ IF a[k] = b[k]
       THEN /\ common_bits' = common_bits + 8
            /\ k' = k + 1
            /\ UNCHANGED bit
       ELSE /\ bit' = 7
            /\ UNCHANGED <<common_bits, k>>
    /\ UNCHANGED <<a, b, returned, parts>>

(***************************************************************************)
(* Faulty inner loop: the bit that differs is counted.                     *)
(***************************************************************************)
PrefixBit_CountsFirst ==
    /\ ~returned /\ bit # 8
    /\ common_bits' = common_bits + 1
    /\ IF Bit(a[k], bit) # Bit(b[k], bit)
       THEN returned' = TRUE /\ UNCHANGED bit
       ELSE bit' = bit - 1 /\ UNCHANGED returned
    /\ UNCHANGED <<a, b, k, parts>>

(***************************************************************************)
(* The inner loop over the bits of the XOR, from the most significant.     *)
(* The XOR is not zero, so it returns before it runs out of bits.          *)
(***************************************************************************)
PrefixBit ==
    /\ ~returned /\ bit # 8
    /\ IF Bit(a[k], bit) # Bit(b[k], bit)
       THEN returned' = TRUE /\ UNCHANGED <<common_bits, bit>>
       ELSE common_bits' = common_bits + 1 /\ bit' = bit - 1 /\ UNCHANGED returned
    /\ UNCHANGED <<a, b, k, parts>>

PrefixEnd ==
    /\ ~returned /\ bit = 8 /\ k = Size
    /\ returned' = TRUE
    /\ UNCHANGED <<a, b, k, bit, common_bits, parts>>

Decompose ==
    /\ returned /\ parts = <<>>
    /\ parts' = <<DecomposeAtBit(a, common_bits), DecomposeAtBit(b, common_bits)>>
    /\ UNCHANGED <<a, b, k, bit, common_bits, returned>>

VecNext == PrefixByte \/ PrefixBit \/ PrefixEnd \/ Decompose

VecSpec == VecInit /\ [][VecNext]_VecVars

-----------------------------------------------------------------------------
VecTypeOK ==
    /\ a \in Array /\ b \in Array
    /\ k \in 0..Size /\ bit \in 0..8
    /\ common_bits \in 0..(8 * Size)
    /\ returned \in BOOLEAN

(***************************************************************************)
(* common_prefix_bit is what prefix_match takes it for: it reaches a level *)
(* exactly when the first bits up to the level agree, on equal vectors, at *)
(* the first and last bit and across bytes.                                *)
(***************************************************************************)
PrefixDecidesLevel ==
    returned =>
        \A level \in 0..(8 * Size) :
            common_bits >= level <=>
                \A p \in 1..level : ToBitString(a)[p] = ToBitString(b)[p]

(***************************************************************************)
(* Decomposed at their common prefix, two vectors have the same left part  *)
(* and different pivots; only equal vectors have no such bit, and          *)
(* decomposing them there panics.  The parts make up the vector.           *)
(***************************************************************************)
SplitAtFirstDifference ==
    parts # <<>> =>
        LET l == parts[1]
            r == parts[2]
        IN  /\ l.panic <=> a = b
            /\ r.panic <=> a = b
            /\ a # b => /\ l.left = r.left
                        /\ l.pivot # r.pivot
                        /\ Len(l.left) + 1 + Len(l.right) = Size
                        /\ l.left \o <<a[Len(l.left)]>> \o l.right = [n \in 1..Size |-> a[n - 1]]
=============================================================================

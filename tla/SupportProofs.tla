--------------------------- MODULE SupportProofs ----------------------------
(***************************************************************************)
(* Proofs about the parts beneath the protocol. The byte algorithms, for   *)
(* arrays of any size: the prefix of membership vectors, the comparison of *)
(* identifiers and the numbers their texts write, and the identifiers the  *)
(* fixtures generate. The mock network, for any number of nodes and        *)
(* threads and any nesting of deliveries: registrations are final, and a   *)
(* network whose set-up and traffic are kept apart never deadlocks.        *)
(***************************************************************************)
EXTENDS MembershipVector, Identifier, IdentifierFixtures, MockNetwork, TLAPS

-----------------------------------------------------------------------------
(***************************************************************************)
(* Two lists one after the other.                                          *)
(***************************************************************************)
LEMMA Concatenated ==
    ASSUME NEW S, NEW s \in Seq(S), NEW z \in Seq(S)
    PROVE  /\ s \o z \in Seq(S)
           /\ Len(s \o z) = Len(s) + Len(z)
           /\ \A n \in 1..(Len(s) + Len(z)) :
                 (s \o z)[n] = IF n <= Len(s) THEN s[n] ELSE z[n - Len(s)]
OBVIOUS

(***************************************************************************)
(* Lists of the same length with the same elements are the same.           *)
(***************************************************************************)
LEMMA SameList ==
    ASSUME NEW S, NEW s \in Seq(S), NEW z \in Seq(S), Len(s) = Len(z),
           \A n \in 1..Len(s) : s[n] = z[n]
    PROVE  s = z
OBVIOUS

(***************************************************************************)
(* An array counted from one is a list.                                    *)
(***************************************************************************)
LEMMA ListOfArray ==
    ASSUME NEW S, NEW m \in Nat, NEW s \in [1..m -> S]
    PROVE  s \in Seq(S) /\ Len(s) = m
OBVIOUS

(***************************************************************************)
(* A list without its last element.                                        *)
(***************************************************************************)
LEMMA WithoutLast ==
    ASSUME NEW S, NEW s \in Seq(S), NEW n \in Nat, Len(s) = n + 1
    PROVE  /\ SubSeq(s, 1, n) \in Seq(S)
           /\ Len(SubSeq(s, 1, n)) = n
           /\ \A j \in 1..n : SubSeq(s, 1, n)[j] = s[j]
<1>1. SubSeq(s, 1, n) \in Seq(S)
  OBVIOUS
<1>2. Len(SubSeq(s, 1, n)) = n
  OBVIOUS
<1>3. \A j \in 1..n : SubSeq(s, 1, n)[j] = s[j]
  OBVIOUS
<1>4. QED
  BY <1>1, <1>2, <1>3

(***************************************************************************)
(* A byte behind counts less than a unit of the number before it.          *)
(***************************************************************************)
LEMMA HigherCounts ==
    ASSUME NEW x \in Nat, NEW y \in Nat, x < y, NEW u \in Byte, NEW v \in Byte
    PROVE  256 * x + u < 256 * y + v
BY DEF Byte

(***************************************************************************)
(* Of two numbers with the same higher bytes, the last byte decides.       *)
(***************************************************************************)
LEMMA LastCounts ==
    ASSUME NEW x \in Nat, NEW u \in Byte, NEW v \in Byte, u < v
    PROVE  256 * x + u < 256 * x + v
BY DEF Byte

(***************************************************************************)
(* Two hex digits count as much as the byte they make.                     *)
(***************************************************************************)
LEMMA DigitsCount ==
    ASSUME NEW x \in Nat, NEW u \in 0..15, NEW v \in 0..15
    PROVE  16 * (16 * x + u) + v = 256 * x + (16 * u + v)
OBVIOUS

(***************************************************************************)
(* A byte made of two hex digits gives them back.                          *)
(***************************************************************************)
LEMMA DigitsOfByte ==
    ASSUME NEW u \in 0..15, NEW v \in 0..15
    PROVE  (16 * u + v) \div 16 = u /\ (16 * u + v) % 16 = v
OBVIOUS

(***************************************************************************)
(* Bytes with the same bits are the same: an XOR that is not zero has a    *)
(* bit that is set, which common_prefix_bit's inner loop relies on.        *)
(***************************************************************************)
LEMMA BitsDetermineByte ==
    ASSUME NEW x \in Byte, NEW y \in Byte, \A n \in 0..7 : Bit(x, n) = Bit(y, n)
    PROVE  x = y
<1>1. /\ x % 2 = y % 2
      /\ (x \div 2) % 2 = (y \div 2) % 2
      /\ (x \div 4) % 2 = (y \div 4) % 2
      /\ (x \div 8) % 2 = (y \div 8) % 2
      /\ (x \div 16) % 2 = (y \div 16) % 2
      /\ (x \div 32) % 2 = (y \div 32) % 2
      /\ (x \div 64) % 2 = (y \div 64) % 2
      /\ (x \div 128) % 2 = (y \div 128) % 2
  BY SMTT(30), Zenon DEF Bit, Mask, Byte
<1>2. x \div 128 = y \div 128
  BY <1>1 DEF Byte
<1>3. x \div 64 = y \div 64
  <2>1. (x \div 64) % 2 = (y \div 64) % 2
    BY <1>1
  <2>2. QED
    BY <1>2, <2>1 DEF Byte
<1>4. x \div 32 = y \div 32
  <2>1. (x \div 32) % 2 = (y \div 32) % 2
    BY <1>1
  <2>2. QED
    BY <1>3, <2>1 DEF Byte
<1>5. x \div 16 = y \div 16
  <2>1. (x \div 16) % 2 = (y \div 16) % 2
    BY <1>1
  <2>2. QED
    BY <1>4, <2>1 DEF Byte
<1>6. x \div 8 = y \div 8
  <2>1. (x \div 8) % 2 = (y \div 8) % 2
    BY <1>1
  <2>2. QED
    BY <1>5, <2>1 DEF Byte
<1>7. x \div 4 = y \div 4
  <2>1. (x \div 4) % 2 = (y \div 4) % 2
    BY <1>1
  <2>2. QED
    BY <1>6, <2>1 DEF Byte
<1>8. x \div 2 = y \div 2
  <2>1. (x \div 2) % 2 = (y \div 2) % 2
    BY <1>1
  <2>2. QED
    BY <1>7, <2>1 DEF Byte
<1>9. x % 2 = y % 2
  BY <1>1
<1>10. QED
  BY <1>8, <1>9 DEF Byte

(***************************************************************************)
(* The inductive invariant of common_prefix_bit's loops: the bytes and     *)
(* bits passed agree and are counted.  What is decomposed afterwards is    *)
(* decomposed at that count.                                               *)
(***************************************************************************)
PrefixInv ==
    /\ VecTypeOK
    /\ \A q \in 0..(k - 1) : a[q] = b[q]
    /\ bit = 8 => common_bits = 8 * k /\ (returned => k = Size)
    /\ bit # 8 => /\ k < Size /\ a[k] # b[k]
                  /\ common_bits = 8 * k + 7 - bit
                  /\ \A n \in (bit + 1)..7 : Bit(a[k], n) = Bit(b[k], n)
                  /\ returned => Bit(a[k], bit) # Bit(b[k], bit)
    /\ parts # <<>> =>
           /\ returned
           /\ parts = <<DecomposeAtBit(a, common_bits), DecomposeAtBit(b, common_bits)>>

(***************************************************************************)
(* Every step of common_prefix_bit and decompose_at_bit keeps it.          *)
(***************************************************************************)
THEOREM PrefixInvariant == VecSpec => []PrefixInv
<1> USE SizeAssumption
<1>1. VecInit => PrefixInv
  <2> SUFFICES ASSUME VecInit PROVE PrefixInv
    OBVIOUS
  <2>1. /\ a \in Array /\ b \in Array /\ k = 0 /\ bit = 8 /\ common_bits = 0
        /\ returned = FALSE /\ parts = <<>>
    BY VectorsAssumption DEF VecInit
  <2>2. VecTypeOK
    <3>1. returned \in BOOLEAN
      BY <2>1, Zenon
    <3>2. k \in 0..Size /\ bit \in 0..8 /\ common_bits \in 0..(8 * Size)
      BY <2>1
    <3>3. QED
      BY <2>1, <3>1, <3>2, Zenon DEF VecTypeOK
  <2>3. \A q \in 0..(k - 1) : a[q] = b[q]
    BY <2>1
  <2>4. QED
    BY <2>1, <2>2, <2>3 DEF PrefixInv
<1>2. PrefixInv /\ [VecNext]_VecVars => PrefixInv'
  <2> SUFFICES ASSUME PrefixInv, [VecNext]_VecVars PROVE PrefixInv'
    OBVIOUS
  <2>1. CASE PrefixByte
    BY <2>1 DEF PrefixByte, PrefixInv, VecTypeOK
  <2>2. CASE PrefixBit
    <3>1. /\ bit \in 0..7 /\ k \in 0..(Size - 1) /\ a[k] # b[k] /\ a[k] \in Byte /\ b[k] \in Byte
          /\ UNCHANGED <<a, b, k, parts>> /\ ~returned /\ parts = <<>>
      BY <2>2 DEF PrefixBit, PrefixInv, VecTypeOK, Array, Index
    <3>2. CASE Bit(a[k], bit) # Bit(b[k], bit)
      BY <2>2, <3>1, <3>2 DEF PrefixBit, PrefixInv, VecTypeOK
    <3>3. CASE Bit(a[k], bit) = Bit(b[k], bit)
      <4>1. \A n \in bit..7 : Bit(a[k], n) = Bit(b[k], n)
        BY <3>1, <3>3 DEF PrefixInv
      <4>2. bit # 0
        BY <3>1, <4>1, BitsDetermineByte
      <4>3. common_bits' = common_bits + 1 /\ bit' = bit - 1 /\ returned' = returned
        BY <2>2, <3>3 DEF PrefixBit
      <4>4. QED
        BY <3>1, <4>1, <4>2, <4>3 DEF PrefixInv, VecTypeOK
    <3>4. QED
      BY <3>2, <3>3
  <2>3. CASE PrefixEnd
    BY <2>3 DEF PrefixEnd, PrefixInv, VecTypeOK
  <2>4. CASE Decompose
    BY <2>4 DEF Decompose, PrefixInv, VecTypeOK
  <2>5. CASE UNCHANGED VecVars
    BY <2>5 DEF VecVars, PrefixInv, VecTypeOK
  <2>6. QED
    BY <2>1, <2>2, <2>3, <2>4, <2>5 DEF VecNext
<1>3. QED
  BY <1>1, <1>2, PTL DEF VecSpec

(***************************************************************************)
(* The state of common_prefix_bit keeps its types: its inner loop never    *)
(* runs out of bits.                                                       *)
(***************************************************************************)
THEOREM PrefixTypeCorrect == VecSpec => []VecTypeOK
<1>1. PrefixInv => VecTypeOK
  BY DEF PrefixInv
<1>2. QED
  BY <1>1, PrefixInvariant, PTL

(***************************************************************************)
(* For vectors of any size, the value of common_prefix_bit decides which   *)
(* levels two nodes share, as prefix_match uses it.                        *)
(***************************************************************************)
THEOREM PrefixIsRight == VecSpec => []PrefixDecidesLevel
<1> USE SizeAssumption
<1>1. PrefixInv => PrefixDecidesLevel
  <2> SUFFICES ASSUME PrefixInv, returned, NEW lev \in 0..(8 * Size)
               PROVE  common_bits >= lev <=> \A p \in 1..lev : ToBitString(a)[p] = ToBitString(b)[p]
    BY DEF PrefixDecidesLevel
  <2> DEFINE Q(p) == (p - 1) \div 8
             R(p) == (p - 1) % 8
  <2>1. ASSUME NEW p \in 1..lev
        PROVE  /\ Q(p) \in Index /\ R(p) \in 0..7 /\ p - 1 = 8 * Q(p) + R(p)
               /\ ToBitString(a)[p] = Bit(a[Q(p)], 7 - R(p))
               /\ ToBitString(b)[p] = Bit(b[Q(p)], 7 - R(p))
    <3>1. p \in 1..(8 * Size) /\ p - 1 \in 0..(8 * Size - 1)
      OBVIOUS
    <3>2. p - 1 = 8 * Q(p) + R(p) /\ R(p) \in 0..7 /\ Q(p) \in Int
      BY <3>1
    <3>3. Q(p) \in 0..(Size - 1)
      <4> HIDE DEF Q, R
      <4>1. QED
        BY <3>1, <3>2
    <3>4. QED
      BY <3>1, <3>2, <3>3 DEF ToBitString, Index
  <2>2. k \in 0..Size /\ bit \in 0..8 /\ common_bits \in 0..(8 * Size)
    BY DEF PrefixInv, VecTypeOK
  <2> HIDE DEF Q, R
  <2>3. ASSUME common_bits >= lev, NEW p \in 1..lev
        PROVE  ToBitString(a)[p] = ToBitString(b)[p]
    <3>1. CASE Q(p) < k
      BY <2>1, <2>2, <3>1 DEF PrefixInv, Index
    <3>2. CASE Q(p) >= k
      <4>0. p - 1 = 8 * Q(p) + R(p) /\ R(p) \in 0..7 /\ Q(p) \in 0..(Size - 1) /\ p <= common_bits
        BY <2>1, <2>2, <2>3 DEF Index
      <4>1. bit # 8 /\ Q(p) = k /\ 7 - R(p) \in (bit + 1)..7
        <5>1. common_bits = IF bit = 8 THEN 8 * k ELSE 8 * k + 7 - bit
          BY DEF PrefixInv
        <5>2. QED
          BY <2>2, <3>2, <4>0, <5>1
      <4>2. QED
        BY <2>1, <4>1 DEF PrefixInv
    <3>3. QED
      BY <2>1, <2>2, <3>1, <3>2 DEF Index
  <2>4. ASSUME common_bits < lev
        PROVE  \E p \in 1..lev : ToBitString(a)[p] # ToBitString(b)[p]
    <3>1. /\ bit # 8 /\ common_bits + 1 \in 1..lev /\ common_bits = 8 * k + 7 - bit
          /\ Bit(a[k], bit) # Bit(b[k], bit)
      BY <2>2, <2>4 DEF PrefixInv
    <3>2. Q(common_bits + 1) = k /\ R(common_bits + 1) = 7 - bit
      <4> DEFINE p == common_bits + 1
      <4>1. p - 1 = 8 * Q(p) + R(p) /\ R(p) \in 0..7 /\ Q(p) \in 0..(Size - 1)
        BY <2>1, <3>1 DEF Index
      <4>2. p - 1 = 8 * k + 7 - bit /\ bit \in 0..7
        BY <2>2, <3>1
      <4> HIDE DEF p
      <4>3. Q(p) = k /\ R(p) = 7 - bit
        BY <2>2, <4>1, <4>2
      <4>4. QED
        BY <4>3 DEF p
    <3>3. 7 - (7 - bit) = bit
      BY <2>2
    <3>4. QED
      BY <2>1, <3>1, <3>2, <3>3
  <2>5. QED
    BY <2>2, <2>3, <2>4
<1>2. QED
  BY <1>1, PrefixInvariant, PTL

(***************************************************************************)
(* d is v split at byte p: the bytes before it, its bits, and the bytes    *)
(* after it, and the three make up the array.                              *)
(***************************************************************************)
SplitAtByte(d, v, p) ==
    /\ d.panic = FALSE
    /\ d.left \in Seq(Byte) /\ Len(d.left) = p /\ \A n \in 1..p : d.left[n] = v[n - 1]
    /\ d.pivot = ByteString(v[p])
    /\ Len(d.right) = Size - 1 - p
    /\ d.left \o <<v[p]>> \o d.right = [n \in 1..Size |-> v[n - 1]]

(***************************************************************************)
(* decompose_at_bit splits at the byte that holds the bit, if the array    *)
(* has it.                                                                 *)
(***************************************************************************)
LEMMA DecomposedParts ==
    ASSUME NEW v \in Array, NEW p \in Index, NEW bit_index, bit_index \div 8 = p,
           NEW d, d = DecomposeAtBit(v, bit_index)
    PROVE  SplitAtByte(d, v, p)
<1> USE SizeAssumption
<1> DEFINE rest == Size - 1 - p
           left == [n \in 1..p |-> v[n - 1]]
           right == [n \in 1..rest |-> v[p + n]]
           front == left \o <<v[p]>>
           whole == [n \in 1..Size |-> v[n - 1]]
<1>1. p \in Nat /\ p < Size /\ ~(p >= Size) /\ rest \in Nat /\ Size = p + 1 + rest
  BY DEF Index
<1>2. d = [panic |-> FALSE, left |-> left, pivot |-> ByteString(v[p]), right |-> right]
  BY <1>1, Zenon DEF DecomposeAtBit
<1>3. d.panic = FALSE /\ d.pivot = ByteString(v[p]) /\ d.left = left /\ d.right = right
  <2> HIDE DEF left, right
  <2>1. QED
    BY <1>2
<1>4. /\ \A n \in 1..p : v[n - 1] \in Byte
      /\ \A n \in 1..rest : v[p + n] \in Byte
      /\ \A n \in 1..Size : v[n - 1] \in Byte
      /\ v[p] \in Byte
  BY <1>1 DEF Array, Index
<1> HIDE DEF rest
<1>5. left \in Seq(Byte) /\ Len(left) = p /\ \A n \in 1..p : left[n] = v[n - 1]
  BY <1>1, <1>4
<1>6. right \in Seq(Byte) /\ Len(right) = rest /\ \A n \in 1..rest : right[n] = v[p + n]
  BY <1>1, <1>4
<1>7. whole \in Seq(Byte) /\ Len(whole) = Size /\ \A n \in 1..Size : whole[n] = v[n - 1]
  BY <1>4
<1>8. <<v[p]>> \in Seq(Byte) /\ Len(<<v[p]>>) = 1 /\ <<v[p]>>[1] = v[p]
  BY <1>4
<1> HIDE DEF left, right, whole
<1>9. /\ front \in Seq(Byte) /\ Len(front) = p + 1
      /\ \A n \in 1..(p + 1) : front[n] = v[n - 1]
  <2>0. /\ front \in Seq(Byte) /\ Len(front) = Len(left) + Len(<<v[p]>>)
        /\ \A n \in 1..(Len(left) + Len(<<v[p]>>)) :
               front[n] = IF n <= Len(left) THEN left[n] ELSE <<v[p]>>[n - Len(left)]
    BY <1>5, <1>8, Concatenated, Zenon
  <2>1. /\ front \in Seq(Byte) /\ Len(front) = p + 1
        /\ \A n \in 1..(p + 1) : front[n] = IF n <= p THEN left[n] ELSE <<v[p]>>[n - p]
    BY <1>5, <1>8, <2>0, Zenon
  <2>2. \A n \in 1..(p + 1) : ~(n <= p) => n - p = 1 /\ n - 1 = p
    BY <1>1
  <2>3. \A n \in 1..(p + 1) : n <= p => n \in 1..p
    BY <1>1
  <2>4. QED
    BY <1>5, <1>8, <2>1, <2>2, <2>3, Zenon
<1> HIDE DEF front
<1>10. /\ front \o right \in Seq(Byte) /\ Len(front \o right) = Size
       /\ \A n \in 1..Size : (front \o right)[n] = v[n - 1]
  <2>0. /\ front \o right \in Seq(Byte) /\ Len(front \o right) = Len(front) + Len(right)
        /\ \A n \in 1..(Len(front) + Len(right)) :
               (front \o right)[n] = IF n <= Len(front) THEN front[n] ELSE right[n - Len(front)]
    BY <1>6, <1>9, Concatenated, ZenonT(30)
  <2>1. Len(front) + Len(right) = Size
    BY <1>1, <1>6, <1>9
  <2>2. ASSUME NEW n \in 1..Size PROVE (front \o right)[n] = v[n - 1]
    <3>1. (front \o right)[n] = IF n <= Len(front) THEN front[n] ELSE right[n - Len(front)]
      BY <2>0, <2>1, Zenon
    <3>2. CASE n <= p + 1
      <4>1. n \in 1..(p + 1)
        BY <1>1, <3>2
      <4>2. QED
        BY <1>9, <3>1, <3>2, <4>1, Zenon
    <3>3. CASE ~(n <= p + 1)
      <4>1. n - (p + 1) \in 1..rest /\ p + (n - (p + 1)) = n - 1
        BY <1>1, <3>3
      <4>2. (front \o right)[n] = right[n - (p + 1)]
        BY <1>9, <3>1, <3>3, Zenon
      <4>3. right[n - (p + 1)] = v[p + (n - (p + 1))]
        BY <1>6, <4>1, Zenon
      <4>4. QED
        BY <4>1, <4>2, <4>3, Zenon
    <3>4. QED
      BY <3>2, <3>3, Zenon
  <2>3. QED
    BY <2>0, <2>1, <2>2, Zenon
<1>11. front \o right = whole
  BY Zenon, <1>7, <1>10, SameList
<1>12. QED
  BY <1>3, <1>5, <1>6, <1>11, Zenon DEF front, rest, whole, SplitAtByte

(***************************************************************************)
(* For vectors of any size, decomposing two vectors at their common prefix *)
(* separates what they share from where they differ, and panics exactly on *)
(* equal vectors.                                                          *)
(***************************************************************************)
THEOREM SplitIsRight == VecSpec => []SplitAtFirstDifference
<1> USE SizeAssumption
<1>1. PrefixInv => SplitAtFirstDifference
  <2> SUFFICES ASSUME PrefixInv, parts # <<>> PROVE SplitAtFirstDifference
    BY Zenon DEF SplitAtFirstDifference
  <2>1. /\ a \in Array /\ b \in Array /\ k \in 0..Size /\ bit \in 0..8 /\ returned
        /\ \A q \in 0..(k - 1) : a[q] = b[q]
        /\ parts = <<DecomposeAtBit(a, common_bits), DecomposeAtBit(b, common_bits)>>
    BY DEF PrefixInv, VecTypeOK
  <2> DEFINE l == DecomposeAtBit(a, common_bits)
             r == DecomposeAtBit(b, common_bits)
  <2>2. parts[1] = l /\ parts[2] = r
    BY <2>1
  <2>3. CASE bit = 8
    <3>1. k = Size /\ common_bits = 8 * Size
      BY <2>1, <2>3 DEF PrefixInv
    <3>2. a = b
      BY <2>1, <3>1 DEF Array, Index
    <3>3. common_bits \div 8 = Size
      BY <3>1
    <3>4. l = Panicked /\ r = Panicked
      BY <3>3 DEF DecomposeAtBit
    <3>5. l.panic = TRUE /\ r.panic = TRUE
      <4>1. Panicked.panic = TRUE
        BY DEF Panicked
      <4>2. QED
        BY <3>4, <4>1, Zenon
    <3>6. QED
      BY <2>2, <3>2, <3>5, Zenon DEF SplitAtFirstDifference
  <2>4. CASE bit # 8
    <3>1. /\ k \in Index /\ bit \in 0..7 /\ common_bits = 8 * k + 7 - bit
          /\ Bit(a[k], bit) # Bit(b[k], bit)
      BY <2>1, <2>4 DEF PrefixInv, Index
    <3>2. common_bits \div 8 = k
      <4>1. k \in Int
        BY <3>1 DEF Index
      <4>2. QED
        BY SMTT(30), Zenon, <3>1, <4>1
    <3>3. a # b
      BY <3>1
    <3> l = DecomposeAtBit(a, common_bits) /\ r = DecomposeAtBit(b, common_bits)
      OBVIOUS
    <3> HIDE DEF l, r
    <3>4. SplitAtByte(l, a, k) /\ SplitAtByte(r, b, k)
      BY <2>1, <3>1, <3>2, DecomposedParts, Zenon
    <3>5. /\ l.panic = FALSE /\ l.pivot = ByteString(a[k])
          /\ l.left \in Seq(Byte) /\ Len(l.left) = k /\ \A n \in 1..k : l.left[n] = a[n - 1]
          /\ r.panic = FALSE /\ r.pivot = ByteString(b[k])
          /\ r.left \in Seq(Byte) /\ Len(r.left) = k /\ \A n \in 1..k : r.left[n] = b[n - 1]
      BY <3>4, Zenon DEF SplitAtByte
    <3>6. l.left = r.left
      <4>1. \A n \in 1..k : a[n - 1] = b[n - 1]
        BY <2>1
      <4>2. Len(l.left) = Len(r.left) /\ \A n \in 1..Len(l.left) : l.left[n] = r.left[n]
        BY <3>5, <4>1, Zenon
      <4>3. QED
        BY <3>5, <4>2, SameList, Zenon
    <3>7. l.pivot # r.pivot
      <4>1. 8 - bit \in 1..8 /\ 8 - (8 - bit) = bit
        BY <3>1
      <4>2. ByteString(a[k])[8 - bit] = Bit(a[k], bit) /\ ByteString(b[k])[8 - bit] = Bit(b[k], bit)
        BY <4>1, Zenon DEF ByteString
      <4>3. QED
        BY <3>1, <3>5, <4>2, Zenon
    <3>8. Len(l.left) + 1 + Len(l.right) = Size
      <4>1. k + 1 + (Size - 1 - k) = Size
        BY <3>1 DEF Index
      <4>2. QED
        BY <3>4, <4>1, Zenon DEF SplitAtByte
    <3>9. l.left \o <<a[Len(l.left)]>> \o l.right = [n \in 1..Size |-> a[n - 1]]
      BY <3>4, Zenon DEF SplitAtByte
    <3>10. QED
      BY <2>2, <3>3, <3>5, <3>6, <3>7, <3>8, <3>9, Zenon DEF SplitAtFirstDifference
  <2>5. QED
    BY <2>3, <2>4
<1>2. QED
  BY <1>1, PrefixInvariant, PTL
-----------------------------------------------------------------------------
(***************************************************************************)
(* The bytes of an array are numbers, as u8 comparison needs.              *)
(***************************************************************************)
LEMMA ArrayOfInts ==
    ASSUME NEW x \in Array, NEW n \in 0..(Size - 1)
    PROVE  x[n] \in Int
<1>1. x[n] \in Byte
  BY DEF Array, Index
<1>2. QED
  BY <1>1 DEF Byte

(***************************************************************************)
(* The order of byte arrays is a strict order, so sorting identifiers by   *)
(* Ord is well defined.                                                    *)
(***************************************************************************)
LEMMA LexOrder ==
    ASSUME NEW x \in Array, NEW y \in Array, NEW z \in Array
    PROVE  /\ ~LexLess(x, x)
           /\ LexLess(x, y) => ~LexLess(y, x) /\ x # y
           /\ LexLess(x, y) /\ LexLess(y, z) => LexLess(x, z)
<1> USE SizeAssumption
<1>1. \A n \in Index : x[n] \in Int /\ y[n] \in Int /\ z[n] \in Int /\ n \in Int
  <2>1. \A n \in Index : x[n] \in Byte /\ y[n] \in Byte /\ z[n] \in Byte
    BY DEF Array
  <2>2. Byte \subseteq Int /\ Index \subseteq Int
    BY DEF Byte, Index
  <2>3. QED
    BY <2>1, <2>2, Zenon
<1>2. ~LexLess(x, x)
  BY <1>1 DEF LexLess
<1>3. LexLess(x, y) => ~LexLess(y, x) /\ x # y
  <2> SUFFICES ASSUME NEW n \in Index, x[n] < y[n], \A j \in 0..(n - 1) : x[j] = y[j]
               PROVE  ~LexLess(y, x) /\ x # y
    BY DEF LexLess
  <2>1. ASSUME NEW m \in Index, y[m] < x[m], \A j \in 0..(m - 1) : y[j] = x[j]
        PROVE  FALSE
    <3>1. CASE m < n
      BY <1>1, <2>1, <3>1 DEF Index
    <3>2. CASE n < m
      BY <1>1, <2>1, <3>2 DEF Index
    <3>3. CASE n = m
      BY <1>1, <2>1, <3>3
    <3>4. QED
      BY <1>1, <3>1, <3>2, <3>3
  <2>2. QED
    BY <1>1, <2>1 DEF LexLess
<1>4. LexLess(x, y) /\ LexLess(y, z) => LexLess(x, z)
  <2> SUFFICES ASSUME NEW n \in Index, x[n] < y[n], \A j \in 0..(n - 1) : x[j] = y[j],
                      NEW m \in Index, y[m] < z[m], \A j \in 0..(m - 1) : y[j] = z[j]
               PROVE  LexLess(x, z)
    BY DEF LexLess
  <2>1. CASE n < m
    BY <1>1, <2>1 DEF LexLess, Index
  <2>2. CASE m < n
    BY <1>1, <2>2 DEF LexLess, Index
  <2>3. CASE m = n
    BY <1>1, <2>3 DEF LexLess, Index
  <2>4. QED
    BY <1>1, <2>1, <2>2, <2>3
<1>5. QED
  BY <1>2, <1>3, <1>4

(***************************************************************************)
(* A text that from_string accepts becomes an array of bytes.              *)
(***************************************************************************)
LEMMA ParsedIsArray ==
    ASSUME NEW s \in Seq(0..NotHex), Parses(s)
    PROVE  FromString(s) \in Array
<1> USE SizeAssumption
<1> DEFINE bytes == HexDecode(s)
           half == Len(s) \div 2
<1>1. Len(s) \in Nat /\ Len(s) = 2 * half /\ half \in Nat
  BY DEF Parses, HexDecodes
<1>2. \A n \in 1..Len(s) : s[n] \in 0..15
  BY SMTT(30), Zenon DEF Parses, HexDecodes, NotHex
<1> HIDE DEF half
<1>3. \A n \in 1..half : 16 * s[2 * n - 1] + s[2 * n] \in Byte
  <2> TAKE n \in 1..half
  <2>1. 2 * n - 1 \in 1..Len(s) /\ 2 * n \in 1..Len(s)
    BY <1>1
  <2>2. s[2 * n - 1] \in 0..15 /\ s[2 * n] \in 0..15
    BY <1>2, <2>1, Zenon
  <2>3. \A u, v \in 0..15 : 16 * u + v \in Byte
    BY DEF Byte
  <2>4. QED
    BY <2>2, <2>3, Zenon
<1>4. bytes = [n \in 1..half |-> 16 * s[2 * n - 1] + s[2 * n]]
  BY DEF HexDecode, half
<1>5. Len(bytes) = half
  BY <1>1, <1>4
<1>6. half <= Size
  BY <1>5 DEF Parses, FitsBytes
<1>7. \A n \in 1..half : bytes[n] \in Byte
  BY <1>3, <1>4
<1>8. FromString(s) = [n \in Index |-> IF n < Size - half THEN 0 ELSE bytes[n - (Size - half) + 1]]
  BY Zenon, <1>5 DEF FromString, FromBytes
<1> HIDE DEF bytes
<1>9. ASSUME NEW n \in Index, ~(n < Size - half) PROVE n - (Size - half) + 1 \in 1..half
  BY <1>1, <1>6, <1>9 DEF Index
<1>10. 0 \in Byte
  BY DEF Byte
<1>11. \A n \in Index : (IF n < Size - half THEN 0 ELSE bytes[n - (Size - half) + 1]) \in Byte
  BY Zenon, <1>7, <1>9, <1>10
<1>12. QED
  BY Zenon, <1>8, <1>11 DEF Array

(***************************************************************************)
(* The inductive invariant of compare: the bytes before the index agree,   *)
(* a result is that of the byte at the index, and identifiers that are     *)
(* being compared are read no more.                                        *)
(***************************************************************************)
CompareInv ==
    /\ IdTypeOK
    /\ i > 0 \/ result # "none" => \A s \in Side : read[s] = "ok"
    /\ \A j \in 0..(i - 1) : id["left"][j] = id["right"][j]
    /\ result = "CompareLess" => i < Size /\ id["left"][i] < id["right"][i]
    /\ result = "CompareGreater" => i < Size /\ id["right"][i] < id["left"][i]
    /\ result = "CompareEqual" => i = Size

(***************************************************************************)
(* from_string and every iteration of compare keep it.                     *)
(***************************************************************************)
THEOREM CompareInvariant == IdSpec => []CompareInv
<1> USE SizeAssumption
<1>0. "left" \in Side /\ "right" \in Side
  BY DEF Side
<1>1. IdInit => CompareInv
  <2> SUFFICES ASSUME IdInit PROVE CompareInv
    OBVIOUS
  <2>1. ZERO \in Array
    BY DEF ZERO, Array, Byte
  <2>2. IdTypeOK
    BY <2>1 DEF IdInit, IdTypeOK
  <2>3. i = 0 /\ result = "none"
    BY DEF IdInit
  <2>4. QED
    BY <2>2, <2>3 DEF CompareInv
<1>2. CompareInv /\ [IdNext]_IdVars => CompareInv'
  <2> SUFFICES ASSUME CompareInv, [IdNext]_IdVars PROVE CompareInv'
    OBVIOUS
  <2>1. ASSUME NEW s \in Side, ReadText(s)
        PROVE  CompareInv'
    <3>1. read[s] = "no" /\ UNCHANGED <<text, i, result>>
      BY <2>1 DEF ReadText
    <3>2. i = 0 /\ result = "none"
      BY <3>1 DEF CompareInv, IdTypeOK
    <3>3. Parses(text[s]) => FromString(text[s]) \in Array
      BY ParsedIsArray, TextsAssumption DEF CompareInv, IdTypeOK
    <3>4. id' \in [Side -> Array]
      BY <2>1, <3>3 DEF ReadText, CompareInv, IdTypeOK
    <3>5. read' \in [Side -> {"no", "ok", "err"}]
      BY <2>1 DEF ReadText, CompareInv, IdTypeOK
    <3>6. QED
      BY <3>1, <3>2, <3>4, <3>5 DEF CompareInv, IdTypeOK
  <2>2. CASE CompareByte
    <3>1. /\ i \in 0..(Size - 1) /\ result = "none" /\ \A s \in Side : read[s] = "ok"
          /\ UNCHANGED <<text, read, id>>
      BY <2>2 DEF CompareByte, Comparing, CompareInv, IdTypeOK
    <3>2. \/ id["left"][i] < id["right"][i] /\ result' = "CompareLess" /\ i' = i
          \/ id["left"][i] > id["right"][i] /\ result' = "CompareGreater" /\ i' = i
          \/ id["left"][i] = id["right"][i] /\ i' = i + 1 /\ result' = result
      BY <2>2 DEF CompareByte
    <3>3. id["left"][i] \in Int /\ id["right"][i] \in Int
      <4>1. id["left"] \in Array /\ id["right"] \in Array
        BY <1>0 DEF CompareInv, IdTypeOK
      <4>2. QED
        BY <3>1, <4>1, ArrayOfInts
    <3>4. IdTypeOK'
      BY <3>1, <3>2 DEF CompareInv, IdTypeOK, ComparisonResult
    <3>5. QED
      BY <3>1, <3>2, <3>3, <3>4 DEF CompareInv
  <2>3. CASE CompareEqual
    BY <2>3 DEF CompareEqual, Comparing, CompareInv, IdTypeOK, ComparisonResult
  <2>4. CASE UNCHANGED IdVars
    BY <2>4 DEF IdVars, CompareInv, IdTypeOK
  <2>5. QED
    BY <2>1, <2>2, <2>3, <2>4 DEF IdNext
<1>3. QED
  BY <1>1, <1>2, PTL DEF IdSpec

(***************************************************************************)
(* For identifiers of any size, compare returns the lexicographic order of *)
(* the bytes and the first place they differ at, and Equal only for equal  *)
(* identifiers.                                                            *)
(***************************************************************************)
THEOREM CompareIsRight == IdSpec => []ComparesLexicographically
<1> USE SizeAssumption
<1>1. CompareInv => ComparesLexicographically
  <2> SUFFICES ASSUME CompareInv, result # "none" PROVE ComparesLexicographically
    BY DEF ComparesLexicographically
  <2> DEFINE l == id["left"]
             r == id["right"]
  <2>1. /\ l \in Array /\ r \in Array /\ i \in 0..Size
        /\ result \in {"CompareLess", "CompareEqual", "CompareGreater"}
    BY DEF CompareInv, IdTypeOK, Side, ComparisonResult
  <2>2. \A j \in 0..(i - 1) : l[j] = r[j]
    BY DEF CompareInv
  <2>3. result = "CompareLess" => i < Size /\ l[i] < r[i]
    BY DEF CompareInv
  <2>4. result = "CompareGreater" => i < Size /\ r[i] < l[i]
    BY DEF CompareInv
  <2>5. result = "CompareEqual" => i = Size
    BY DEF CompareInv
  <2> HIDE DEF l, r
  <2>6. \A n \in Index : l[n] \in Int /\ r[n] \in Int
    BY <2>1, ArrayOfInts DEF Index
  <2>7. i < Size => i \in Index
    BY <2>1 DEF Index
  <2>8. /\ result = "CompareLess" => LexLess(l, r)
        /\ result = "CompareGreater" => LexLess(r, l)
    BY <2>2, <2>3, <2>4, <2>7 DEF LexLess
  <2>9. result = "CompareEqual" => l = r
    BY <2>1, <2>2, <2>5 DEF Array, Index
  <2>10. /\ LexLess(l, r) => ~LexLess(r, l) /\ l # r
         /\ LexLess(r, l) => ~LexLess(l, r) /\ l # r
         /\ ~LexLess(l, l)
    BY <2>1, LexOrder
  <2>11. i < Size => l[i] # r[i]
    BY <2>1, <2>3, <2>4, <2>5, <2>6, <2>7
  <2>12. QED
    BY <2>1, <2>2, <2>8, <2>9, <2>10, <2>11 DEF ComparesLexicographically, l, r
<1>2. QED
  BY <1>1, CompareInvariant, PTL

-----------------------------------------------------------------------------
(***************************************************************************)
(* Every nonempty set of naturals has a least element.  What rests on this *)
(* says so; it is proved with the theory of well-founded relations below.  *)
(***************************************************************************)
WellOrdered ==
    \A T \in SUBSET Nat : T # {} => \E x \in T : \A y \in T : x =< y

(***************************************************************************)
(* The least element of a set of naturals, to be picked.                   *)
(***************************************************************************)
LEMMA LeastNumber ==
    ASSUME WellOrdered, NEW T, T \subseteq Nat, T # {}
    PROVE  \E x \in T : \A y \in T : x =< y
BY Zenon DEF WellOrdered

(***************************************************************************)
(* A nonempty set of positions in an array has a first and a last one, so  *)
(* the generators' loops stop at a byte when there is one to change.       *)
(***************************************************************************)
LEMMA FirstAndLast ==
    ASSUME WellOrdered, NEW S, S \subseteq Index, S # {}
    PROVE  Min(S) \in S /\ (\A n \in S : Min(S) =< n) /\ Max(S) \in S
<1> USE SizeAssumption DEF Index
<1>1. \E x \in S : \A y \in S : x =< y
  <2>1. S \subseteq Nat
    OBVIOUS
  <2>2. QED
    BY <2>1, LeastNumber, Zenon
<1>2. \E x \in S : \A y \in S : x >= y
  <2> DEFINE T == {Size - 1 - x : x \in S}
  <2>1. \A x \in S : x \in Int /\ Size - 1 - x \in Nat /\ Size - 1 - x \in T
    BY SMT
  <2>2. T \subseteq Nat /\ T # {}
    BY <2>1, Zenon
  <2>3. PICK z \in T : \A y \in T : z =< y
    BY <2>2, LeastNumber, Zenon
  <2>4. PICK x \in S : z = Size - 1 - x
    BY Zenon
  <2> HIDE DEF T
  <2>5. \A y \in S : Size - 1 - x =< Size - 1 - y
    BY <2>1, <2>3, <2>4, Zenon
  <2>6. \A y \in S : x >= y
    BY <2>1, <2>5, SMT
  <2>7. QED
    BY <2>6, Zenon
<1>3. Min(S) \in S /\ \A n \in S : Min(S) =< n
  BY <1>1, Zenon DEF Min
<1>4. Max(S) \in S
  BY <1>2, Zenon DEF Max
<1>5. QED
  BY <1>3, <1>4

(***************************************************************************)
(* What random_identifier draws is an array of bytes.                      *)
(***************************************************************************)
LEMMA RandomIsArray == RandomIdentifier \subseteq Array
<1> USE SizeAssumption
<1> SUFFICES ASSUME NEW x \in Drawn PROVE FromString(HexEncode(x)) \in Array
  BY DEF RandomIdentifier, RandomHexStr
<1> DEFINE s == HexEncode(x)
<1>1. x \in Array
  BY FixtureAssumption
<1>2. \A n \in 1..(2 * Size) : (n - 1) \div 2 \in Index
  BY DEF Index
<1>3. \A y \in Byte : y \div 16 \in 0..15 /\ y % 16 \in 0..15
  BY DEF Byte
<1>4. \A n \in 1..(2 * Size) : s[n] \in 0..15
  BY <1>1, <1>2, <1>3 DEF HexEncode, Array
<1>5. s \in [1..(2 * Size) -> 0..NotHex]
  BY <1>4 DEF HexEncode, NotHex
<1> HIDE DEF s
<1>6. s \in Seq(0..NotHex) /\ Len(s) = 2 * Size
  <2>1. 2 * Size \in Nat
    OBVIOUS
  <2>2. QED
    BY <1>5, <2>1, ListOfArray, Zenon
<1>7. HexDecodes(s)
  BY SMTT(30), Zenon, <1>4, <1>6 DEF HexDecodes, NotHex
<1>8. Len(HexDecode(s)) = Size
  BY <1>6 DEF HexDecode
<1>9. Parses(s)
  BY <1>7, <1>8 DEF Parses, FitsBytes
<1>10. QED
  BY <1>6, <1>9, ParsedIsArray DEF s

(***************************************************************************)
(* An identifier with one byte replaced by another is an identifier, on    *)
(* the side of the original on which the new byte is.                      *)
(***************************************************************************)
LEMMA WithByteFacts ==
    ASSUME NEW x \in Array, NEW n \in Index, NEW byte \in Byte
    PROVE  /\ WithByte(x, n, byte) \in Array
           /\ x[n] < byte => LexLess(x, WithByte(x, n, byte))
           /\ byte < x[n] => LexLess(WithByte(x, n, byte), x)
<1> USE SizeAssumption
<1> DEFINE bytes == [m \in 1..Size |-> IF m = n + 1 THEN byte ELSE x[m - 1]]
           y == WithByte(x, n, byte)
<1>1. Len(bytes) = Size
  OBVIOUS
<1>2. \A m \in Index : m + 1 \in 1..Size /\ (m + 1) - 1 = m /\ (m + 1 = n + 1 <=> m = n)
  BY DEF Index
<1>3. \A m \in Index : bytes[m + 1] = IF m = n THEN byte ELSE x[m]
  BY <1>2
<1>4. y = FromBytes(bytes)
  BY DEF WithByte
<1> HIDE DEF bytes, y
<1>5. y = [m \in Index |-> bytes[m + 1]]
  BY <1>1, <1>4 DEF FromBytes, Index
<1>6. \A m \in Index : y[m] = IF m = n THEN byte ELSE x[m]
  BY <1>3, <1>5
<1>7. y \in Array
  BY <1>3, <1>5 DEF Array
<1>8. \A m \in 0..(n - 1) : y[m] = x[m]
  BY <1>6 DEF Index
<1>9. x[n] < byte => LexLess(x, y)
  BY <1>6, <1>8 DEF LexLess
<1>10. byte < x[n] => LexLess(y, x)
  BY <1>6, <1>8 DEF LexLess
<1>11. QED
  BY <1>7, <1>9, <1>10 DEF y

(***************************************************************************)
(* random_identifier_greater_than: an identifier, and a greater one unless *)
(* it was called on zero.                                                  *)
(***************************************************************************)
LEMMA GreaterThanFacts ==
    ASSUME WellOrdered, NEW x \in Array, x # MAX, NEW y \in GreaterThan(x)
    PROVE  y \in Array /\ (x # ZERO => LexLess(x, y))
<1>1. CASE x = ZERO
  BY <1>1, RandomIsArray DEF GreaterThan
<1>2. CASE x # ZERO
  <2> DEFINE S == {n \in Index : x[n] < 255}
             last == Max(S)
  <2>1. S # {}
    <3> SUFFICES ASSUME S = {} PROVE x = MAX
      OBVIOUS
    <3>1. \A n \in Index : x[n] = 255
      BY DEF Array, Byte
    <3>2. QED
      BY <3>1 DEF MAX, Array
  <2>2. last \in Index /\ x[last] < 255
    BY <2>1, FirstAndLast
  <2>3. y = WithByte(x, last, x[last] + 1)
    BY <1>2, Zenon DEF GreaterThan
  <2> HIDE DEF last, S
  <2>4. x[last] + 1 \in Byte /\ x[last] < x[last] + 1
    BY <2>2 DEF Array, Byte
  <2>5. QED
    BY <2>2, <2>3, <2>4, WithByteFacts
<1>3. QED
  BY <1>1, <1>2

(***************************************************************************)
(* random_identifier_less_than: an identifier, and a smaller one unless it *)
(* was called on the greatest.                                             *)
(***************************************************************************)
LEMMA LessThanFacts ==
    ASSUME WellOrdered, NEW x \in Array, x # ZERO, NEW y \in LessThan(x)
    PROVE  y \in Array /\ (x # MAX => LexLess(y, x))
<1>1. CASE x = MAX
  BY <1>1, RandomIsArray DEF LessThan
<1>2. CASE x # MAX
  <2> DEFINE S == {n \in Index : x[n] > 0}
             first == Min(S)
  <2>1. S # {}
    <3> SUFFICES ASSUME S = {} PROVE x = ZERO
      OBVIOUS
    <3>1. \A n \in Index : x[n] = 0
      BY DEF Array, Byte
    <3>2. QED
      BY <3>1 DEF ZERO, Array
  <2>2. first \in Index /\ x[first] > 0
    BY <2>1, FirstAndLast
  <2>3. y = WithByte(x, first, x[first] - 1)
    BY <1>2, Zenon DEF LessThan
  <2> HIDE DEF first, S
  <2>4. x[first] - 1 \in Byte /\ x[first] - 1 < x[first]
    BY <2>2 DEF Array, Byte
  <2>5. QED
    BY <2>2, <2>3, <2>4, WithByteFacts
<1>3. QED
  BY <1>1, <1>2

(***************************************************************************)
(* The chains begin at the node.                                           *)
(***************************************************************************)
ChainsInv ==
    /\ NeighborsSurround
    /\ raised = 0 => high = mid
    /\ lowered = 0 => low = mid

(***************************************************************************)
(* A node between two copies of itself, with no call made.                 *)
(***************************************************************************)
LEMMA InitChains == FixtureInit => ChainsInv
<1> USE SizeAssumption, FixtureAssumption
<1> SUFFICES ASSUME FixtureInit PROVE ChainsInv
  OBVIOUS
<1>1. mid \in Array
  BY RandomIsArray, Zenon DEF FixtureInit
<1>2. 0 \in 0..MaxCalls /\ ~(0 > 0)
  OBVIOUS
<1>3. QED
  BY <1>1, <1>2, Zenon DEF FixtureInit, ChainsInv, NeighborsSurround, FixtureTypeOK

(***************************************************************************)
(* Another call at the end of either chain keeps the node between them.    *)
(***************************************************************************)
LEMMA NextChains == WellOrdered /\ ChainsInv /\ [FixtureNext]_FixtureVars => ChainsInv'
<1> USE SizeAssumption, FixtureAssumption
<1> SUFFICES ASSUME WellOrdered, ChainsInv, [FixtureNext]_FixtureVars PROVE ChainsInv'
  OBVIOUS
<1>1. ZERO \in Array /\ MAX \in Array
  BY DEF ZERO, MAX, Array, Byte
<1>2. \A x \in Array : ~LexLess(x, ZERO) /\ ~LexLess(MAX, x)
  <2> SUFFICES ASSUME NEW x \in Array, NEW n \in Index, x[n] < ZERO[n] \/ MAX[n] < x[n]
               PROVE  FALSE
    BY DEF LexLess
  <2>1. QED
    BY DEF ZERO, MAX, Array, Byte
<1>3. CASE Raise
  <2>1. /\ high \in Array /\ mid \in Array /\ high # MAX /\ high' \in GreaterThan(high)
        /\ raised \in 0..MaxCalls /\ raised < MaxCalls /\ raised' = raised + 1
        /\ UNCHANGED <<low, mid, lowered, panicked>>
    BY <1>3 DEF Raise, ChainsInv, NeighborsSurround, FixtureTypeOK
  <2>2. high' \in Array /\ (high # ZERO => LexLess(high, high'))
    BY <2>1, GreaterThanFacts
  <2>3. raised' \in 0..MaxCalls /\ raised' # 0
    BY <2>1
  <2>4. ASSUME mid # ZERO PROVE LexLess(mid, high')
    <3>1. CASE raised = 0
      BY <2>2, <2>4, <3>1 DEF ChainsInv
    <3>2. CASE raised # 0
      <4>1. LexLess(mid, high) /\ high # ZERO
        BY <1>2, <2>1, <2>4, <3>2 DEF ChainsInv, NeighborsSurround
      <4>2. QED
        BY <2>1, <2>2, <4>1, LexOrder
    <3>3. QED
      BY <3>1, <3>2
  <2>5. QED
    BY <2>1, <2>2, <2>3, <2>4 DEF ChainsInv, NeighborsSurround, FixtureTypeOK
<1>4. CASE Lower
  <2>1. /\ low \in Array /\ mid \in Array /\ low # ZERO /\ low' \in LessThan(low)
        /\ lowered \in 0..MaxCalls /\ lowered < MaxCalls /\ lowered' = lowered + 1
        /\ UNCHANGED <<mid, high, raised, panicked>>
    BY <1>4 DEF Lower, ChainsInv, NeighborsSurround, FixtureTypeOK
  <2>2. low' \in Array /\ (low # MAX => LexLess(low', low))
    BY <2>1, LessThanFacts
  <2>3. lowered' \in 0..MaxCalls /\ lowered' # 0
    BY <2>1
  <2>4. ASSUME mid # MAX PROVE LexLess(low', mid)
    <3>1. CASE lowered = 0
      BY <2>2, <2>4, <3>1 DEF ChainsInv
    <3>2. CASE lowered # 0
      <4>1. LexLess(low, mid) /\ low # MAX
        BY <1>2, <2>1, <2>4, <3>2 DEF ChainsInv, NeighborsSurround
      <4>2. QED
        BY <2>1, <2>2, <4>1, LexOrder
    <3>3. QED
      BY <3>1, <3>2
  <2>5. QED
    BY <2>1, <2>2, <2>3, <2>4 DEF ChainsInv, NeighborsSurround, FixtureTypeOK
<1>5. CASE Panic
  BY <1>5 DEF Panic, ChainsInv, NeighborsSurround, FixtureTypeOK
<1>6. CASE UNCHANGED FixtureVars
  BY <1>6 DEF FixtureVars, ChainsInv, NeighborsSurround, FixtureTypeOK
<1>7. QED
  BY <1>3, <1>4, <1>5, <1>6 DEF FixtureNext

-----------------------------------------------------------------------------
(***************************************************************************)
(* What Value has computed after n digits.                                 *)
(***************************************************************************)
Denotes(s, f) ==
    /\ Value(s) = f[Len(s)]
    /\ f[0] = 0
    /\ \A n \in 1..Len(s) : f[n] = 16 * f[n - 1] + s[n]

(***************************************************************************)
(* Value is defined for every text: what is computed for n digits extends  *)
(* to n + 1.                                                               *)
(***************************************************************************)
LEMMA ValueLoop ==
    ASSUME WellOrdered, NEW s, Len(s) \in Nat
    PROVE  \E f : Denotes(s, f)
<1> DEFINE Step(g, n) == IF n = 0 THEN 0 ELSE 16 * g[n - 1] + s[n]
           Runs(g, m) == g = [n \in 0..m |-> Step(g, n)]
           T == {m \in Nat : ~\E g : Runs(g, m)}
           f == CHOOSE g : Runs(g, Len(s))
<1>1. \A m \in Nat : \E g : Runs(g, m)
  <2> HIDE DEF Runs
  <2> SUFFICES ASSUME T # {} PROVE FALSE
    BY Zenon
  <2>1. PICK m \in T : \A j \in T : m =< j
    <3>1. T \subseteq Nat
      BY Zenon
    <3> HIDE DEF T
    <3>2. QED
      BY <3>1, LeastNumber, Zenon
  <2>2. m \in Nat /\ ~\E g : Runs(g, m)
    BY <2>1, Zenon
  <2>3. \A j \in Nat : ~(m =< j) => \E g : Runs(g, j)
    BY <2>1, Zenon
  <2> HIDE DEF T
  <2>4. m # 0
    <3>1. Runs([n \in 0..0 |-> 0], 0)
      <4>1. \A n \in 0..0 : n = 0
        OBVIOUS
      <4>2. QED
        BY <4>1, Zenon DEF Runs
    <3>2. QED
      BY <2>2, <3>1, Zenon
  <2>5. m - 1 \in Nat /\ ~(m =< m - 1)
    BY <2>2, <2>4
  <2>6. PICK g : Runs(g, m - 1)
    BY <2>3, <2>5, Zenon
  <2> HIDE DEF Step
  <2> DEFINE h == [n \in 0..m |-> IF n = m THEN Step(g, m) ELSE g[n]]
  <2>7. \A n \in 0..(m - 1) : g[n] = Step(g, n)
    BY <2>6, Zenon DEF Runs
  <2>8. \A n \in 0..m : h[n] = Step(h, n)
    <3> SUFFICES ASSUME NEW n \in 0..m PROVE h[n] = Step(h, n)
      OBVIOUS
    <3>1. n # 0 => n - 1 \in 0..m /\ n - 1 # m /\ h[n - 1] = g[n - 1]
      BY <2>2
    <3>2. Step(h, n) = Step(g, n)
      <4> HIDE DEF h
      <4>1. QED
        BY <3>1, Zenon DEF Step
    <3>3. n # m => n \in 0..(m - 1)
      BY <2>2
    <3>4. QED
      BY <2>7, <3>2, <3>3
  <2>9. Runs(h, m)
    <3>1. h = [n \in 0..m |-> h[n]]
      BY Zenon
    <3> HIDE DEF h
    <3>2. QED
      BY <2>8, <3>1, Zenon DEF Runs
  <2>10. QED
    BY <2>2, <2>9, Zenon
<1>2. Runs(f, Len(s))
  <2>1. \E g : Runs(g, Len(s))
    BY <1>1, Zenon
  <2> HIDE DEF Runs
  <2>2. QED
    BY <2>1, Zenon
<1>3. Value(s) = f[Len(s)]
  BY DEF Value
<1> HIDE DEF f
<1>4. \A n \in 0..Len(s) : f[n] = Step(f, n)
  <2> HIDE DEF Step
  <2>1. QED
    BY <1>2, Zenon
<1> HIDE DEF Runs
<1>5. f[0] = 0
  <2>1. 0 \in 0..Len(s)
    OBVIOUS
  <2>2. QED
    BY <1>4, <2>1, Zenon
<1>6. \A n \in 1..Len(s) : f[n] = 16 * f[n - 1] + s[n]
  <2>1. \A n \in 1..Len(s) : n \in 0..Len(s) /\ n # 0
    OBVIOUS
  <2>2. QED
    BY <1>4, <2>1, Zenon
<1>7. Denotes(s, f)
  BY <1>3, <1>5, <1>6, Zenon DEF Denotes
<1>8. QED
  BY <1>7, Zenon

(***************************************************************************)
(* Where the digits of a text that from_string accepts end up: zeros       *)
(* first, then two digits a byte.                                          *)
(***************************************************************************)
LEMMA ParsedBytes ==
    ASSUME NEW s \in Seq(0..NotHex), Parses(s)
    PROVE  \E half \in 0..Size :
               /\ Len(s) = 2 * half
               /\ \A n \in 1..Len(s) : s[n] \in 0..15
               /\ \A n \in 0..(Size - half - 1) : FromString(s)[n] = 0
               /\ \A n \in 1..half : FromString(s)[Size - half + n - 1]
                                          = 16 * s[2 * n - 1] + s[2 * n]
<1> USE SizeAssumption
<1> DEFINE bytes == HexDecode(s)
           half == Len(s) \div 2
<1>1. Len(s) \in Nat /\ Len(s) = 2 * half /\ half \in Nat
  BY DEF Parses, HexDecodes
<1>2. \A n \in 1..Len(s) : s[n] \in 0..15
  BY DEF Parses, HexDecodes, NotHex
<1> HIDE DEF half
<1>3. bytes = [n \in 1..half |-> 16 * s[2 * n - 1] + s[2 * n]]
  BY DEF HexDecode, half
<1>4. Len(bytes) = half
  BY <1>1, <1>3
<1>5. half \in 0..Size
  BY <1>1, <1>4 DEF Parses, FitsBytes
<1> HIDE DEF bytes
<1>6. FromString(s) = [n \in Index |-> IF n < Size - half THEN 0 ELSE bytes[n - (Size - half) + 1]]
  BY <1>4, Zenon DEF FromString, FromBytes, bytes
<1>7. \A n \in 0..(Size - half - 1) : n \in Index /\ n < Size - half
  BY <1>5 DEF Index
<1>8. \A n \in 1..half : /\ Size - half + n - 1 \in Index /\ ~(Size - half + n - 1 < Size - half)
                         /\ (Size - half + n - 1) - (Size - half) + 1 = n
  BY <1>5 DEF Index
<1>9. \A n \in 0..(Size - half - 1) : FromString(s)[n] = 0
  BY <1>6, <1>7, Zenon
<1>10. \A n \in 1..half : FromString(s)[Size - half + n - 1] = 16 * s[2 * n - 1] + s[2 * n]
  BY <1>3, <1>6, <1>8, ZenonT(30)
<1>11. QED
  BY <1>1, <1>2, <1>5, <1>9, <1>10, Zenon

(***************************************************************************)
(* The number of an array of bytes, most significant first, byte by byte.  *)
(***************************************************************************)
Counts(x, g) ==
    /\ g[0] = 0
    /\ \A n \in 1..Size : g[n] = 256 * g[n - 1] + x[n - 1]

(***************************************************************************)
(* x and y agree before position q, and x has the smaller byte there; the  *)
(* numbers c and e are then in order.                                      *)
(***************************************************************************)
DiffersAt(x, y, q) ==
    (\A n \in 0..(q - 1) : x[n] = y[n]) /\ (q < Size => x[q] < y[q])

InOrder(c, e, q) ==
    c \in Nat /\ e \in Nat /\ (q < Size => c < e) /\ (q = Size => c = e)

(***************************************************************************)
(* The order of the bytes is the order of the numbers: behind the first    *)
(* difference no later byte makes up for it.                               *)
(***************************************************************************)
LEMMA OrderOfNumbers ==
    ASSUME WellOrdered, NEW x \in Array, NEW y \in Array, NEW g, NEW h, Counts(x, g), Counts(y, h),
           NEW q \in 0..Size, DiffersAt(x, y, q)
    PROVE  InOrder(g[Size], h[Size], q)
<1> USE SizeAssumption
<1> DEFINE Good(n) == /\ g[n] \in Nat /\ h[n] \in Nat
                      /\ n > q => g[n] < h[n]
                      /\ n =< q => g[n] = h[n]
           T == {n \in 0..Size : ~Good(n)}
<1>1. Good(0)
  BY DEF Counts
<1>2. ASSUME NEW n \in 1..Size, Good(n - 1) PROVE Good(n)
  <2>1. g[n] = 256 * g[n - 1] + x[n - 1] /\ h[n] = 256 * h[n - 1] + y[n - 1]
    BY Zenon DEF Counts
  <2>2. x[n - 1] \in Byte /\ y[n - 1] \in Byte
    <3>1. n - 1 \in Index
      BY DEF Index
    <3>2. QED
      BY <3>1 DEF Array
  <2>3. n =< q => x[n - 1] = y[n - 1]
    <3>1. n =< q => n - 1 \in 0..(q - 1)
      OBVIOUS
    <3>2. QED
      BY <3>1, Zenon DEF DiffersAt
  <2>4. n - 1 = q => x[n - 1] < y[n - 1]
    <3>1. n - 1 = q => q < Size
      OBVIOUS
    <3>2. QED
      BY <3>1, Zenon DEF DiffersAt
  <2>5. g[n - 1] \in Nat /\ h[n - 1] \in Nat
    BY <1>2, Zenon
  <2>6. /\ n > q <=> n - 1 > q \/ n - 1 = q
        /\ n =< q => n - 1 =< q
        /\ n - 1 = q => n - 1 =< q
        /\ n > q \/ n =< q
        /\ ~(n > q /\ n =< q)
    OBVIOUS
  <2>7. g[n] \in Nat /\ h[n] \in Nat
    BY SMTT(30), Zenon, <2>1, <2>2, <2>5 DEF Byte
  <2>8. CASE n =< q
    BY <1>2, <2>1, <2>3, <2>6, <2>7, <2>8, ZenonT(30)
  <2>9. CASE n > q
    <3>1. CASE n - 1 > q
      <4>1. g[n - 1] < h[n - 1]
        BY <1>2, <3>1, Zenon
      <4>2. g[n] < h[n]
        <5>1. 256 * g[n - 1] + x[n - 1] < 256 * h[n - 1] + y[n - 1]
          BY <2>2, <2>5, <4>1, HigherCounts
        <5>2. QED
          BY <2>1, <5>1, Zenon
      <4>3. QED
        BY <2>6, <2>7, <2>9, <4>2, Zenon
    <3>2. CASE n - 1 = q
      <4>1. g[n - 1] = h[n - 1] /\ x[n - 1] < y[n - 1]
        BY <1>2, <2>4, <2>6, <3>2, Zenon
      <4>2. g[n] < h[n]
        <5>1. 256 * g[n - 1] + x[n - 1] < 256 * g[n - 1] + y[n - 1]
          BY <2>2, <2>5, <4>1, LastCounts
        <5>2. QED
          BY <2>1, <4>1, <5>1, Zenon
      <4>3. QED
        BY <2>6, <2>7, <2>9, <4>2, Zenon
    <3>3. QED
      BY <2>6, <2>9, <3>1, <3>2, Zenon
  <2>10. QED
    BY <2>6, <2>8, <2>9, Zenon
<1> HIDE DEF Good
<1>3. T = {}
  <2> SUFFICES ASSUME T # {} PROVE FALSE
    OBVIOUS
  <2>1. PICK n \in T : \A j \in T : n =< j
    <3>1. T \subseteq Nat
      OBVIOUS
    <3> HIDE DEF T
    <3>2. QED
      BY <3>1, LeastNumber, Zenon
  <2>2. n \in 0..Size /\ ~Good(n) /\ n # 0
    BY <1>1, <2>1, Zenon
  <2>3. n \in 1..Size /\ n - 1 \in 0..Size /\ ~(n =< n - 1)
    BY <2>2
  <2>4. Good(n - 1)
    BY <2>1, <2>3, Zenon
  <2>5. QED
    BY <1>2, <2>2, <2>3, <2>4, Zenon
<1>4. Size \in 0..Size /\ (q < Size => Size > q) /\ (q = Size => Size =< q)
  OBVIOUS
<1>5. QED
  BY <1>3, <1>4, Zenon DEF Good, InOrder

(***************************************************************************)
(* The number of the array from_string makes of a text is the number the   *)
(* text denotes: the padding counts nothing, and a byte counts its digits. *)
(***************************************************************************)
LEMMA NumberOfText ==
    ASSUME WellOrdered, NEW s \in Seq(0..NotHex), Parses(s)
    PROVE  \E g : Counts(FromString(s), g) /\ g[Size] = Value(s)
<1> USE SizeAssumption
<1> DEFINE x == FromString(s)
<1>1. PICK half \in 0..Size :
          /\ Len(s) = 2 * half
          /\ \A n \in 1..Len(s) : s[n] \in 0..15
          /\ \A n \in 0..(Size - half - 1) : x[n] = 0
          /\ \A n \in 1..half : x[Size - half + n - 1] = 16 * s[2 * n - 1] + s[2 * n]
  BY ParsedBytes, Zenon
<1> HIDE DEF x
<1>2. Len(s) \in Nat
  BY <1>1
<1>3. PICK f : Denotes(s, f)
  BY <1>2, ValueLoop, Zenon
<1>4. \A n \in 0..Len(s) : f[n] \in Nat
  <2> DEFINE T == {n \in 0..Len(s) : f[n] \notin Nat}
  <2> SUFFICES ASSUME T # {} PROVE FALSE
    BY Zenon
  <2>1. PICK n \in T : \A j \in T : n =< j
    <3>1. T \subseteq Nat
      BY <1>2
    <3> HIDE DEF T
    <3>2. QED
      BY <3>1, LeastNumber, Zenon
  <2>2. n \in 0..Len(s) /\ f[n] \notin Nat /\ n # 0
    <3>1. f[0] \in Nat
      BY <1>3 DEF Denotes
    <3>2. QED
      BY <2>1, <3>1, Zenon
  <2>3. n \in 1..Len(s) /\ n - 1 \in 0..Len(s) /\ ~(n =< n - 1)
    BY <1>2, <2>2
  <2>4. f[n - 1] \in Nat /\ s[n] \in 0..15 /\ f[n] = 16 * f[n - 1] + s[n]
    BY <1>1, <1>3, <2>1, <2>3, Zenon DEF Denotes
  <2>5. \A c \in Nat, u \in 0..15 : 16 * c + u \in Nat
    BY SMT
  <2>6. QED
    BY <2>2, <2>4, <2>5, Zenon
<1> DEFINE off == Size - half
           g == [n \in 0..Size |-> IF n =< off THEN 0 ELSE f[2 * (n - off)]]
<1>5. off \in 0..Size /\ off + half = Size
  BY <1>1
<1>6. g[0] = 0
  BY <1>5
<1>7. g[Size] = Value(s)
  <2>1. Value(s) = f[2 * half] /\ f[0] = 0
    BY <1>1, <1>3 DEF Denotes
  <2>2. CASE half = 0
    BY <1>5, <2>1, <2>2
  <2>3. CASE half # 0
    BY <1>5, <2>1, <2>3
  <2>4. QED
    BY <2>2, <2>3
<1>8. ASSUME NEW n \in 1..Size PROVE g[n] = 256 * g[n - 1] + x[n - 1]
  <2>1. CASE n =< off
    <3>1. g[n] = 0 /\ g[n - 1] = 0 /\ n - 1 \in 0..(Size - half - 1)
      BY <1>5, <2>1
    <3>2. x[n - 1] = 0
      BY <1>1, <3>1, Zenon
    <3>3. QED
      BY <3>1, <3>2
  <2>2. CASE ~(n =< off)
    <3> DEFINE m == n - off
    <3>1. /\ m \in 1..half /\ m \in Nat
          /\ 2 * m \in 1..Len(s) /\ 2 * m - 1 \in 1..Len(s) /\ 2 * m - 2 \in 0..Len(s)
          /\ (2 * m - 1) - 1 = 2 * m - 2 /\ Size - half + m - 1 = n - 1
      BY <1>1, <1>5, <2>2
    <3>2. g[n] = f[2 * m]
      BY <1>5, <2>2
    <3>3. g[n - 1] = f[2 * m - 2]
      <4>1. CASE n - 1 =< off
        <5>1. g[n - 1] = 0 /\ 2 * m - 2 = 0
          BY <1>5, <2>2, <4>1
        <5>2. QED
          BY <1>3, <5>1, Zenon DEF Denotes
      <4>2. CASE ~(n - 1 =< off)
        <5>1. n - 1 \in 0..Size /\ 2 * ((n - 1) - off) = 2 * m - 2
          BY <1>5
        <5> HIDE DEF m, off
        <5>2. QED
          BY <4>2, <5>1
      <4>3. QED
        BY <4>1, <4>2
    <3>4. x[n - 1] = 16 * s[2 * m - 1] + s[2 * m]
      <4> HIDE DEF m, off, g
      <4>1. QED
        BY <1>1, <3>1, Zenon
    <3>5. f[2 * m] = 16 * f[2 * m - 1] + s[2 * m] /\ f[2 * m - 1] = 16 * f[2 * m - 2] + s[2 * m - 1]
      BY <1>3, <3>1 DEF Denotes
    <3>6. f[2 * m - 2] \in Nat /\ s[2 * m] \in 0..15 /\ s[2 * m - 1] \in 0..15
      BY <1>1, <1>4, <3>1
    <3> HIDE DEF m, off, g
    <3>7. f[2 * m] = 256 * f[2 * m - 2] + (16 * s[2 * m - 1] + s[2 * m])
      <4> DEFINE c == f[2 * m - 2]
                 u == s[2 * m - 1]
                 v == s[2 * m]
      <4>1. f[2 * m] = 16 * (16 * c + u) + v
        BY <3>5, Zenon
      <4>2. c \in Nat /\ u \in 0..15 /\ v \in 0..15
        BY <3>6, Zenon
      <4> HIDE DEF c, u, v
      <4>3. 16 * (16 * c + u) + v = 256 * c + (16 * u + v)
        BY <4>2, DigitsCount
      <4>4. QED
        BY <4>1, <4>3, Zenon DEF c, u, v
    <3>8. QED
      BY <3>2, <3>3, <3>4, <3>7, Zenon
  <2>3. QED
    BY <2>1, <2>2
<1> HIDE DEF g
<1>9. Counts(x, g)
  BY <1>6, <1>8, Zenon DEF Counts
<1>10. QED
  BY <1>7, <1>9, Zenon DEF x

(***************************************************************************)
(* Display undoes from_string: the digits come back behind the padding.    *)
(***************************************************************************)
LEMMA ShownBack ==
    ASSUME NEW s \in Seq(0..NotHex), Parses(s)
    PROVE  LET shown == HexEncode(FromString(s))
               pad   == 2 * Size - Len(s)
           IN  /\ \A n \in 1..pad : shown[n] = 0
               /\ \A n \in 1..Len(s) : shown[pad + n] = s[n]
<1> USE SizeAssumption
<1> DEFINE x == FromString(s)
           shown == HexEncode(x)
           pad == 2 * Size - Len(s)
<1>1. PICK half \in 0..Size :
          /\ Len(s) = 2 * half
          /\ \A n \in 1..Len(s) : s[n] \in 0..15
          /\ \A n \in 0..(Size - half - 1) : x[n] = 0
          /\ \A n \in 1..half : x[Size - half + n - 1] = 16 * s[2 * n - 1] + s[2 * n]
  BY ParsedBytes, Zenon
<1> HIDE DEF x
<1>2. \A n \in 1..(2 * Size) : /\ n % 2 = 1 => shown[n] = x[(n - 1) \div 2] \div 16
                               /\ n % 2 # 1 => shown[n] = x[(n - 1) \div 2] % 16
  BY Zenon DEF HexEncode
<1> HIDE DEF shown
<1>3. ASSUME NEW n \in 1..pad PROVE shown[n] = 0
  <2>1. n \in 1..(2 * Size) /\ (n - 1) \div 2 \in 0..(Size - half - 1)
    BY <1>1
  <2>2. x[(n - 1) \div 2] = 0
    BY <1>1, <2>1, Zenon
  <2>3. 0 \div 16 = 0 /\ 0 % 16 = 0
    OBVIOUS
  <2>4. QED
    BY <1>2, <2>1, <2>2, <2>3, Zenon
<1>4. ASSUME NEW n \in 1..Len(s) PROVE shown[pad + n] = s[n]
  <2> DEFINE m == (n + 1) \div 2
  <2>1. /\ m \in 1..half /\ 2 * m - 1 \in 1..Len(s) /\ 2 * m \in 1..Len(s)
        /\ pad + n \in 1..(2 * Size)
        /\ ((pad + n) - 1) \div 2 = Size - half + m - 1
        /\ (pad + n) % 2 = 1 => n = 2 * m - 1
        /\ (pad + n) % 2 # 1 => n = 2 * m
    BY <1>1
  <2> HIDE DEF m, pad
  <2>2. x[((pad + n) - 1) \div 2] = 16 * s[2 * m - 1] + s[2 * m]
    BY <1>1, <2>1, Zenon
  <2>3. /\ (16 * s[2 * m - 1] + s[2 * m]) \div 16 = s[2 * m - 1]
        /\ (16 * s[2 * m - 1] + s[2 * m]) % 16 = s[2 * m]
    <3>1. s[2 * m - 1] \in 0..15 /\ s[2 * m] \in 0..15
      BY <1>1, <2>1, Zenon
    <3>2. QED
      BY <3>1, DigitsOfByte, Zenon
  <2>4. /\ (pad + n) % 2 = 1 => shown[pad + n] = x[((pad + n) - 1) \div 2] \div 16
        /\ (pad + n) % 2 # 1 => shown[pad + n] = x[((pad + n) - 1) \div 2] % 16
    <3>1. pad + n \in 1..(2 * Size)
      BY <2>1, Zenon
    <3>2. QED
      BY <1>2, <3>1, Zenon
  <2>5. CASE (pad + n) % 2 = 1
    BY <2>1, <2>2, <2>3, <2>4, <2>5, Zenon
  <2>6. CASE (pad + n) % 2 # 1
    BY <2>1, <2>2, <2>3, <2>4, <2>6, Zenon
  <2>7. QED
    BY <2>5, <2>6, Zenon
<1>5. QED
  BY <1>3, <1>4, Zenon DEF shown, x

(***************************************************************************)
(* An identifier that was read is the one its text stands for.             *)
(***************************************************************************)
ReadInv == \A s \in Side : read[s] = "ok" => Parses(text[s]) /\ id[s] = FromString(text[s])

(***************************************************************************)
(* from_string is called once a side, and compare changes no identifier.   *)
(***************************************************************************)
LEMMA ReadStep == IdTypeOK /\ ReadInv /\ [IdNext]_IdVars => ReadInv'
<1> SUFFICES ASSUME IdTypeOK, ReadInv, [IdNext]_IdVars PROVE ReadInv'
  OBVIOUS
<1>1. ASSUME NEW s \in Side, ReadText(s) PROVE ReadInv'
  BY <1>1 DEF ReadText, ReadInv, IdTypeOK
<1>2. CASE CompareByte
  BY <1>2 DEF CompareByte, ReadInv
<1>3. CASE CompareEqual
  BY <1>3 DEF CompareEqual, ReadInv
<1>4. CASE UNCHANGED IdVars
  BY <1>4 DEF IdVars, ReadInv
<1>5. QED
  BY <1>1, <1>2, <1>3, <1>4 DEF IdNext

(***************************************************************************)
(* The bytes of compare decide like the numbers of the two texts.          *)
(***************************************************************************)
LEMMA ComparesNumbers ==
    ASSUME WellOrdered, NEW s \in Seq(0..NotHex), NEW z \in Seq(0..NotHex),
           Parses(s), Parses(z), NEW q \in 0..Size,
           DiffersAt(FromString(s), FromString(z), q)
    PROVE  InOrder(Value(s), Value(z), q)
<1> DEFINE x == FromString(s)
           y == FromString(z)
<1>1. PICK g : Counts(x, g) /\ g[Size] = Value(s)
  BY NumberOfText, Zenon
<1>2. PICK h : Counts(y, h) /\ h[Size] = Value(z)
  BY NumberOfText, Zenon
<1>3. x \in Array /\ y \in Array
  BY ParsedIsArray, Zenon
<1>4. InOrder(g[Size], h[Size], q)
  <2>1. Counts(x, g) /\ Counts(y, h)
    BY <1>1, <1>2, Zenon
  <2>2. DiffersAt(x, y, q)
    BY Zenon
  <2> HIDE DEF x, y
  <2>3. QED
    BY <1>3, <2>1, <2>2, OrderOfNumbers, Zenon
<1>5. QED
  BY <1>1, <1>2, <1>4, Zenon

(***************************************************************************)
(* By the two invariants, identifiers stand for the numbers of the texts.  *)
(***************************************************************************)
LEMMA TextsDenote ==
    ASSUME WellOrdered, CompareInv, ReadInv
    PROVE  TextsDenoteNumbers
<1> DEFINE s == text["left"]
           z == text["right"]
<1>0. "left" \in Side /\ "right" \in Side
  BY DEF Side
<1>1. \A p \in Side : text[p] \in Seq(0..NotHex)
  BY TextsAssumption, Zenon DEF CompareInv, IdTypeOK
<1>2. i \in 0..Size /\ result \in ComparisonResult \cup {"none"}
  BY DEF CompareInv, IdTypeOK
<1>3. ReadsBack
  <2> SUFFICES ASSUME NEW p \in Side, read[p] = "ok"
               PROVE  LET shown == HexEncode(id[p])
                          pad   == 2 * Size - Len(text[p])
                      IN  /\ \A n \in 1..pad : shown[n] = 0
                          /\ \A n \in 1..Len(text[p]) : shown[pad + n] = text[p][n]
    BY Zenon DEF ReadsBack
  <2>1. Parses(text[p]) /\ id[p] = FromString(text[p]) /\ text[p] \in Seq(0..NotHex)
    BY <1>1, Zenon DEF ReadInv
  <2>2. QED
    BY <2>1, ShownBack, Zenon
<1>4. ASSUME result # "none"
      PROVE  /\ Parses(s) /\ Parses(z) /\ s \in Seq(0..NotHex) /\ z \in Seq(0..NotHex)
             /\ id["left"] = FromString(s) /\ id["right"] = FromString(z)
  BY <1>0, <1>1, <1>4, Zenon DEF CompareInv, ReadInv
<1> HIDE DEF s, z
<1>5. \A n \in 0..(i - 1) : id["left"][n] = id["right"][n] /\ id["right"][n] = id["left"][n]
  BY Zenon DEF CompareInv
<1>6. ASSUME result = "CompareLess" PROVE Value(s) < Value(z)
  <2>1. i < Size /\ id["left"][i] < id["right"][i]
    BY <1>6, Zenon DEF CompareInv
  <2>2. /\ Parses(s) /\ Parses(z) /\ s \in Seq(0..NotHex) /\ z \in Seq(0..NotHex)
        /\ id["left"] = FromString(s) /\ id["right"] = FromString(z)
    BY <1>4, <1>6
  <2>3. DiffersAt(FromString(s), FromString(z), i)
    BY <1>5, <2>1, <2>2, Zenon DEF DiffersAt
  <2>4. QED
    BY <1>2, <2>1, <2>2, <2>3, ComparesNumbers, Zenon DEF InOrder
<1>7. ASSUME result = "CompareGreater" PROVE Value(s) > Value(z)
  <2>1. i < Size /\ id["right"][i] < id["left"][i]
    BY <1>7, Zenon DEF CompareInv
  <2>2. /\ Parses(s) /\ Parses(z) /\ s \in Seq(0..NotHex) /\ z \in Seq(0..NotHex)
        /\ id["left"] = FromString(s) /\ id["right"] = FromString(z)
    BY <1>4, <1>7
  <2>3. DiffersAt(FromString(z), FromString(s), i)
    BY <1>5, <2>1, <2>2, Zenon DEF DiffersAt
  <2>4. Value(z) < Value(s) /\ Value(s) \in Nat /\ Value(z) \in Nat
    BY <1>2, <2>1, <2>2, <2>3, ComparesNumbers, Zenon DEF InOrder
  <2>5. QED
    BY <2>4
<1>8. ASSUME result = "CompareEqual" PROVE Value(s) = Value(z)
  <2>1. i = Size /\ ~(i < Size)
    BY <1>2, <1>8 DEF CompareInv
  <2>2. /\ Parses(s) /\ Parses(z) /\ s \in Seq(0..NotHex) /\ z \in Seq(0..NotHex)
        /\ id["left"] = FromString(s) /\ id["right"] = FromString(z)
    BY <1>4, <1>8
  <2>3. DiffersAt(FromString(s), FromString(z), i)
    BY <1>5, <2>1, <2>2, Zenon DEF DiffersAt
  <2>4. QED
    BY <1>2, <2>1, <2>2, <2>3, ComparesNumbers, Zenon DEF InOrder
<1>9. QED
  BY <1>3, <1>6, <1>7, <1>8, Zenon DEF TextsDenoteNumbers, s, z

(***************************************************************************)
(* The digits hex::encode writes for an array: two a byte.                 *)
(***************************************************************************)
LEMMA HexDigits ==
    ASSUME NEW x \in Array
    PROVE  /\ HexEncode(x) \in Seq(0..15) /\ Len(HexEncode(x)) = 2 * Size
           /\ \A q \in Index : /\ HexEncode(x)[2 * q + 1] = x[q] \div 16
                               /\ HexEncode(x)[2 * q + 2] = x[q] % 16
<1> USE SizeAssumption
<1> DEFINE s == HexEncode(x)
           D(n) == IF n % 2 = 1 THEN x[(n - 1) \div 2] \div 16 ELSE x[(n - 1) \div 2] % 16
<1>1. \A n \in 1..(2 * Size) : (n - 1) \div 2 \in Index
  BY DEF Index
<1>2. \A y \in Byte : y \div 16 \in 0..15 /\ y % 16 \in 0..15
  BY DEF Byte
<1>3. \A n \in Index : x[n] \in Byte
  BY Zenon DEF Array
<1>4. \A n \in 1..(2 * Size) : D(n) \in 0..15
  BY Zenon, <1>1, <1>2, <1>3
<1>5. s = [n \in 1..(2 * Size) |-> D(n)]
  BY Zenon DEF HexEncode
<1> HIDE DEF s
<1>6. ASSUME NEW q \in Index PROVE s[2 * q + 1] = x[q] \div 16 /\ s[2 * q + 2] = x[q] % 16
  <2>1. /\ 2 * q + 1 \in 1..(2 * Size) /\ 2 * q + 2 \in 1..(2 * Size)
        /\ (2 * q + 1) % 2 = 1 /\ (2 * q + 2) % 2 # 1
        /\ ((2 * q + 1) - 1) \div 2 = q /\ ((2 * q + 2) - 1) \div 2 = q
    BY DEF Index
  <2>2. QED
    BY Zenon, <1>5, <2>1
<1>7. s \in [1..(2 * Size) -> 0..15]
  <2> HIDE DEF D
  <2>1. QED
    BY Zenon, <1>4, <1>5
<1>8. 2 * Size \in Nat
  OBVIOUS
<1>9. s \in Seq(0..15) /\ Len(s) = 2 * Size
  BY ZenonT(30), <1>7, <1>8, ListOfArray
<1>10. QED
  BY Zenon, <1>6, <1>9 DEF s

(***************************************************************************)
(* The first m elements of a list.                                         *)
(***************************************************************************)
LEMMA FirstOf ==
    ASSUME NEW S, NEW s \in Seq(S), NEW m \in 0..Len(s)
    PROVE  /\ SubSeq(s, 1, m) \in Seq(S) /\ Len(SubSeq(s, 1, m)) = m
           /\ \A n \in 1..m : SubSeq(s, 1, m)[n] = s[n]
OBVIOUS

(***************************************************************************)
(* Texts that agree in their first digits denote the same number up to     *)
(* there.                                                                  *)
(***************************************************************************)
LEMMA AgreeingTexts ==
    ASSUME WellOrdered, NEW s \in Seq(0..15), NEW z \in Seq(0..15), NEW g, NEW h,
           Denotes(s, g), Denotes(z, h), NEW m \in 0..Len(s), m =< Len(z),
           \A n \in 1..m : s[n] = z[n]
    PROVE  g[m] \in Nat /\ g[m] = h[m]
<1> DEFINE Good(n) == g[n] \in Nat /\ g[n] = h[n]
           T == {n \in 0..m : ~Good(n)}
<1>1. Good(0)
  BY DEF Denotes
<1>2. ASSUME NEW n \in 1..m, Good(n - 1) PROVE Good(n)
  <2>1. n \in 1..Len(s) /\ n \in 1..Len(z)
    OBVIOUS
  <2>2. g[n] = 16 * g[n - 1] + s[n] /\ h[n] = 16 * h[n - 1] + z[n]
    BY Zenon, <2>1 DEF Denotes
  <2>3. s[n] \in 0..15
    BY <2>1
  <2>4. 16 * g[n - 1] + s[n] \in Nat
    <3>1. \A c \in Nat, w \in 0..15 : 16 * c + w \in Nat
      BY SMT
    <3>2. QED
      BY Zenon, <1>2, <2>3, <3>1
  <2>5. QED
    BY Zenon, <1>2, <2>2, <2>4
<1> HIDE DEF Good
<1>3. T = {}
  <2> SUFFICES ASSUME T # {} PROVE FALSE
    OBVIOUS
  <2>1. T \subseteq Nat
    OBVIOUS
  <2>2. PICK n \in T : \A j \in T : n =< j
    <3> HIDE DEF T
    <3>1. QED
      BY <2>1, LeastNumber, Zenon
  <2>3. n \in 0..m /\ ~Good(n)
    OBVIOUS
  <2>4. n \in 1..m
    BY <1>1, <2>3
  <2>5. n - 1 \in 0..m /\ ~(n =< n - 1)
    BY <2>4
  <2>6. Good(n - 1)
    BY Zenon, <2>2, <2>5
  <2>7. QED
    BY Zenon, <1>2, <2>3, <2>4, <2>6
<1>4. m \in 0..m
  OBVIOUS
<1>5. QED
  BY Zenon, <1>3, <1>4 DEF Good

(***************************************************************************)
(* Two arrays printed up to the first byte that differs: the texts agree   *)
(* but for that byte, and denote numbers in the order of it.               *)
(***************************************************************************)
LEMMA PrintedOrder ==
    ASSUME WellOrdered, NEW x \in Array, NEW y \in Array, NEW q \in Index,
           \A n \in 0..(q - 1) : x[n] = y[n], x[q] < y[q]
    PROVE  LET s == SubSeq(HexEncode(x), 1, 2 * (q + 1))
               z == SubSeq(HexEncode(y), 1, 2 * (q + 1))
           IN  /\ Len(s) = 2 * (q + 1) /\ Len(z) = 2 * (q + 1)
               /\ Value(s) \in Nat /\ Value(z) \in Nat /\ Value(s) < Value(z)
               /\ SubSeq(s, 1, 2 * q) = SubSeq(z, 1, 2 * q)
<1> USE SizeAssumption
<1> DEFINE len == 2 * (q + 1)
           u == HexEncode(x)
           v == HexEncode(y)
           s == SubSeq(u, 1, len)
           z == SubSeq(v, 1, len)
<1>1. /\ u \in Seq(0..15) /\ Len(u) = 2 * Size /\ v \in Seq(0..15) /\ Len(v) = 2 * Size
      /\ \A n \in Index : /\ u[2 * n + 1] = x[n] \div 16 /\ u[2 * n + 2] = x[n] % 16
                          /\ v[2 * n + 1] = y[n] \div 16 /\ v[2 * n + 2] = y[n] % 16
  BY Zenon, HexDigits
<1> HIDE DEF u, v
<1>2. /\ len \in 0..(2 * Size) /\ 2 * q \in 0..len /\ len - 1 \in 1..len /\ len \in 1..len
      /\ len = 2 * q + 2 /\ len - 1 = 2 * q + 1
      /\ (2 * q + 1) - 1 = 2 * q /\ (2 * q + 2) - 1 = 2 * q + 1
      /\ q \in Nat
  BY DEF Index
<1>3. /\ s \in Seq(0..15) /\ Len(s) = len /\ \A n \in 1..len : s[n] = u[n]
      /\ z \in Seq(0..15) /\ Len(z) = len /\ \A n \in 1..len : z[n] = v[n]
  <2>1. len \in 0..Len(u) /\ len \in 0..Len(v)
    BY Zenon, <1>1, <1>2
  <2>2. u \in Seq(0..15) /\ v \in Seq(0..15)
    BY Zenon, <1>1
  <2> HIDE DEF len
  <2>3. s \in Seq(0..15) /\ Len(s) = len /\ \A n \in 1..len : s[n] = u[n]
    BY Zenon, <2>1, <2>2, FirstOf
  <2>4. z \in Seq(0..15) /\ Len(z) = len /\ \A n \in 1..len : z[n] = v[n]
    BY Zenon, <2>1, <2>2, FirstOf
  <2>5. QED
    BY Zenon, <2>3, <2>4
<1> HIDE DEF s, z
<1>4. ASSUME NEW n \in 1..(2 * q) PROVE s[n] = z[n]
  <2>1. PICK e \in 0..(q - 1) : n = 2 * e + 1 \/ n = 2 * e + 2
    <3>1. (n - 1) \div 2 \in 0..(q - 1)
          /\ (n = 2 * ((n - 1) \div 2) + 1 \/ n = 2 * ((n - 1) \div 2) + 2)
      BY <1>2
    <3>2. QED
      BY Zenon, <3>1
  <2>2. e \in Index /\ n \in 1..len
    BY <1>2 DEF Index
  <2>3. x[e] = y[e]
    OBVIOUS
  <2>4. u[n] = v[n]
    BY Zenon, <1>1, <2>1, <2>2, <2>3
  <2>5. QED
    BY Zenon, <1>3, <2>2, <2>4
<1>0. Len(s) \in Nat /\ Len(z) \in Nat
  BY <1>2, <1>3
<1>5. PICK g : Denotes(s, g)
  BY Zenon, <1>0, ValueLoop
<1>6. PICK h : Denotes(z, h)
  BY Zenon, <1>0, ValueLoop
<1>7. g[2 * q] \in Nat /\ g[2 * q] = h[2 * q]
  <2> DEFINE m == 2 * q
  <2>1. m \in 0..Len(s) /\ m =< Len(z)
    BY <1>2, <1>3
  <2>2. \A n \in 1..m : s[n] = z[n]
    BY Zenon, <1>4
  <2>3. s \in Seq(0..15) /\ z \in Seq(0..15)
    BY Zenon, <1>3
  <2> HIDE DEF m
  <2>4. g[m] \in Nat /\ g[m] = h[m]
    BY <1>5, <1>6, <2>1, <2>2, <2>3, AgreeingTexts
  <2>5. QED
    BY Zenon, <2>4 DEF m
<1>8. x[q] \in Byte /\ y[q] \in Byte
  BY Zenon DEF Array
<1>9. s[2 * q + 1] = x[q] \div 16 /\ s[2 * q + 2] = x[q] % 16
  BY Zenon, <1>1, <1>2, <1>3
<1>10. z[2 * q + 1] = y[q] \div 16 /\ z[2 * q + 2] = y[q] % 16
  BY Zenon, <1>1, <1>2, <1>3
<1>11. /\ 2 * q + 1 \in 1..Len(s) /\ 2 * q + 2 \in 1..Len(s)
       /\ 2 * q + 1 \in 1..Len(z) /\ 2 * q + 2 \in 1..Len(z)
  BY <1>2, <1>3
<1>12. \A c \in Nat, w \in Byte : 16 * (16 * c + (w \div 16)) + (w % 16) = 256 * c + w
  <2> SUFFICES ASSUME NEW c \in Nat, NEW w \in Byte
               PROVE  16 * (16 * c + (w \div 16)) + (w % 16) = 256 * c + w
    OBVIOUS
  <2>1. w \div 16 \in 0..15 /\ w % 16 \in 0..15 /\ 16 * (w \div 16) + (w % 16) = w
    BY DEF Byte
  <2> DEFINE hi == w \div 16
             lo == w % 16
  <2>2. hi \in 0..15 /\ lo \in 0..15 /\ 16 * hi + lo = w
    BY Zenon, <2>1
  <2> HIDE DEF hi, lo
  <2>3. 16 * (16 * c + hi) + lo = 256 * c + (16 * hi + lo)
    BY <2>2, DigitsCount
  <2>4. QED
    BY ZenonT(30), <2>2, <2>3 DEF hi, lo
<1>13. \A c \in Nat, w \in Byte : 256 * c + w \in Nat
  BY DEF Byte
<1>14. /\ g[2 * q + 2] = 256 * g[2 * q] + x[q] /\ g[2 * q + 2] \in Nat
       /\ h[2 * q + 2] = 256 * g[2 * q] + y[q] /\ h[2 * q + 2] \in Nat
  <2>1. g[2 * q + 1] = 16 * g[2 * q] + s[2 * q + 1] /\ h[2 * q + 1] = 16 * h[2 * q] + z[2 * q + 1]
    <3>1. (2 * q + 1) - 1 = 2 * q
      BY Zenon, <1>2
    <3>2. QED
      BY Zenon, <1>5, <1>6, <1>11, <3>1 DEF Denotes
  <2>2. g[2 * q + 2] = 16 * g[2 * q + 1] + s[2 * q + 2] /\ h[2 * q + 2] = 16 * h[2 * q + 1] + z[2 * q + 2]
    <3>1. (2 * q + 2) - 1 = 2 * q + 1
      BY Zenon, <1>2
    <3>2. QED
      BY Zenon, <1>5, <1>6, <1>11, <3>1 DEF Denotes
  <2>3. g[2 * q + 2] = 256 * g[2 * q] + x[q]
    <3>1. 16 * (16 * g[2 * q] + (x[q] \div 16)) + (x[q] % 16) = 256 * g[2 * q] + x[q]
      BY ZenonT(30), <1>7, <1>8, <1>12
    <3>2. g[2 * q + 2] = 16 * (16 * g[2 * q] + (x[q] \div 16)) + (x[q] % 16)
      BY Zenon, <1>9, <2>1, <2>2
    <3>3. QED
      BY Zenon, <3>1, <3>2
  <2>4. h[2 * q + 2] = 256 * g[2 * q] + y[q]
    <3>1. 16 * (16 * g[2 * q] + (y[q] \div 16)) + (y[q] % 16) = 256 * g[2 * q] + y[q]
      BY ZenonT(30), <1>7, <1>8, <1>12
    <3>2. h[2 * q + 2] = 16 * (16 * g[2 * q] + (y[q] \div 16)) + (y[q] % 16)
      BY Zenon, <1>7, <1>10, <2>1, <2>2
    <3>3. QED
      BY Zenon, <3>1, <3>2
  <2>5. QED
    BY Zenon, <1>7, <1>8, <1>13, <2>3, <2>4
<1>15. 256 * g[2 * q] + x[q] < 256 * g[2 * q] + y[q]
  BY SMTT(30), <1>7, <1>8, LastCounts
<1>16. Value(s) = g[2 * q + 2] /\ Value(z) = h[2 * q + 2]
  <2>1. Len(s) = 2 * q + 2 /\ Len(z) = 2 * q + 2
    BY Zenon, <1>2, <1>3
  <2>2. QED
    BY Zenon, <1>5, <1>6, <2>1 DEF Denotes
<1>17. SubSeq(s, 1, 2 * q) = SubSeq(z, 1, 2 * q)
  <2> DEFINE m == 2 * q
  <2>1. m \in 0..Len(s) /\ m \in 0..Len(z)
    BY Zenon, <1>2, <1>3
  <2>2. \A n \in 1..m : s[n] = z[n]
    BY Zenon, <1>4
  <2> HIDE DEF m
  <2>3. /\ SubSeq(s, 1, m) \in Seq(0..15) /\ Len(SubSeq(s, 1, m)) = m
        /\ SubSeq(z, 1, m) \in Seq(0..15) /\ Len(SubSeq(z, 1, m)) = m
        /\ \A n \in 1..m : SubSeq(s, 1, m)[n] = SubSeq(z, 1, m)[n]
    BY Zenon, <1>3, <2>1, <2>2, FirstOf
  <2>4. SubSeq(s, 1, m) = SubSeq(z, 1, m)
    BY Zenon, <2>3, SameList
  <2>5. QED
    BY Zenon, <2>4 DEF m
<1>18. QED
  BY Zenon, <1>3, <1>14, <1>15, <1>16, <1>17 DEF s, z, u, v

(***************************************************************************)
(* By the invariant of compare, what a comparison prints is true.          *)
(***************************************************************************)
LEMMA ShownTrue ==
    ASSUME WellOrdered, CompareInv
    PROVE  ShowsTheDifference
<1> USE SizeAssumption
<1> DEFINE x == id["left"]
           y == id["right"]
           s == Shown("left")
           z == Shown("right")
<1> SUFFICES ASSUME result # "none"
             PROVE  /\ Len(s) = Len(z) /\ Len(s) <= 2 * Size
                    /\ result = "CompareLess" <=> Value(s) < Value(z)
                    /\ result = "CompareGreater" <=> Value(s) > Value(z)
                    /\ SubSeq(s, 1, 2 * i) = SubSeq(z, 1, 2 * i)
  BY Zenon DEF ShowsTheDifference
<1>1. x \in Array /\ y \in Array /\ i \in 0..Size
  BY Zenon DEF CompareInv, IdTypeOK, Side
<1>2. result \in {"CompareLess", "CompareGreater", "CompareEqual"}
  BY DEF CompareInv, IdTypeOK, ComparisonResult
<1>3. \A n \in 0..(i - 1) : x[n] = y[n] /\ y[n] = x[n]
  BY Zenon DEF CompareInv
<1>4. ASSUME result # "CompareEqual"
      PROVE  /\ s = SubSeq(HexEncode(x), 1, 2 * (i + 1))
             /\ z = SubSeq(HexEncode(y), 1, 2 * (i + 1))
  BY Zenon, <1>4 DEF Shown
<1>5. ASSUME result = "CompareEqual"
      PROVE  s = HexEncode(x) /\ z = HexEncode(y)
  BY Zenon, <1>5 DEF Shown
<1> HIDE DEF s, z
<1>6. CASE result = "CompareLess"
  <2>1. i < Size /\ x[i] < y[i]
    BY Zenon, <1>6 DEF CompareInv
  <2>2. i \in Index /\ 2 * (i + 1) =< 2 * Size
    BY <1>1, <2>1 DEF Index
  <2>3. s = SubSeq(HexEncode(x), 1, 2 * (i + 1)) /\ z = SubSeq(HexEncode(y), 1, 2 * (i + 1))
    BY <1>4, <1>6
  <2>4. /\ Len(s) = 2 * (i + 1) /\ Len(z) = 2 * (i + 1)
        /\ Value(s) \in Nat /\ Value(z) \in Nat /\ Value(s) < Value(z)
        /\ SubSeq(s, 1, 2 * i) = SubSeq(z, 1, 2 * i)
    <3> HIDE DEF x, y
    <3>1. QED
      BY Zenon, <1>1, <1>3, <2>1, <2>2, <2>3, PrintedOrder
  <2>5. ~(Value(s) > Value(z))
    BY <2>4
  <2>6. result # "CompareGreater"
    BY <1>6
  <2>7. QED
    BY Zenon, <1>6, <2>2, <2>4, <2>5, <2>6
<1>7. CASE result = "CompareGreater"
  <2>1. i < Size /\ y[i] < x[i]
    BY Zenon, <1>7 DEF CompareInv
  <2>2. i \in Index /\ 2 * (i + 1) =< 2 * Size
    BY <1>1, <2>1 DEF Index
  <2>3. s = SubSeq(HexEncode(x), 1, 2 * (i + 1)) /\ z = SubSeq(HexEncode(y), 1, 2 * (i + 1))
    BY <1>4, <1>7
  <2>4. /\ Len(s) = 2 * (i + 1) /\ Len(z) = 2 * (i + 1)
        /\ Value(s) \in Nat /\ Value(z) \in Nat /\ Value(z) < Value(s)
        /\ SubSeq(s, 1, 2 * i) = SubSeq(z, 1, 2 * i)
    <3> HIDE DEF x, y
    <3>1. QED
      BY Zenon, <1>1, <1>3, <2>1, <2>2, <2>3, PrintedOrder
  <2>5. ~(Value(s) < Value(z)) /\ Value(s) > Value(z)
    BY <2>4
  <2>6. result # "CompareLess"
    BY <1>7
  <2>7. QED
    BY Zenon, <1>7, <2>2, <2>4, <2>5, <2>6
<1>8. CASE result = "CompareEqual"
  <2>1. i = Size
    BY Zenon, <1>8 DEF CompareInv
  <2>2. \A n \in Index : x[n] = y[n]
    <3> HIDE DEF x, y
    <3>1. QED
      BY Zenon, <1>3, <2>1 DEF Index
  <2>3. x = y
    <3> HIDE DEF x, y
    <3>1. x = [n \in Index |-> x[n]] /\ y = [n \in Index |-> y[n]]
      BY Zenon, <1>1 DEF Array
    <3>2. QED
      BY Zenon, <2>2, <3>1
  <2>4. s = z /\ s = HexEncode(x)
    BY Zenon, <1>5, <1>8, <2>3
  <2>5. s \in Seq(0..15) /\ Len(s) = 2 * Size
    BY Zenon, <1>1, <2>4, HexDigits
  <2>6. Len(s) \in Nat /\ Len(s) \in 0..Len(s) /\ Len(s) =< Len(s) /\ 2 * Size =< 2 * Size
    BY <2>5
  <2>7. Value(s) \in Nat
    <3>1. PICK g : Denotes(s, g)
      BY Zenon, <2>6, ValueLoop
    <3>2. g[Len(s)] \in Nat
      BY Zenon, <2>5, <2>6, <3>1, AgreeingTexts
    <3>3. QED
      BY Zenon, <3>1, <3>2 DEF Denotes
  <2>8. ~(Value(s) < Value(s)) /\ ~(Value(s) > Value(s))
    BY <2>7
  <2>9. result # "CompareLess" /\ result # "CompareGreater"
    BY <1>8
  <2>10. QED
    BY Zenon, <2>4, <2>5, <2>6, <2>8, <2>9
<1>9. QED
  BY Zenon, <1>2, <1>6, <1>7, <1>8

-----------------------------------------------------------------------------
(***************************************************************************)
(* A thread outside of any delivery has an empty call stack.               *)
(***************************************************************************)
LEMMA EmptyStack == <<>> \in Seq(Frame)
OBVIOUS

(***************************************************************************)
(* A call stack with a frame on it has a top frame and a stack below.      *)
(***************************************************************************)
LEMMA StackFacts ==
    ASSUME NEW s \in Seq(Frame), s # <<>>
    PROVE  /\ TopFrame(s) \in Frame
           /\ Below(s) \in Seq(Frame)
           /\ Len(s) \in Nat \ {0}
           /\ Len(Below(s)) = Len(s) - 1
           /\ \A j \in 1..(Len(s) - 1) : Below(s)[j] = s[j]
<1>1. Len(s) \in Nat /\ Len(s) # 0
  OBVIOUS
<1>2. TopFrame(s) \in Frame
  BY <1>1 DEF TopFrame
<1>3. Below(s) = SubSeq(s, 1, Len(s) - 1)
  BY DEF Below
<1>4. Len(s) - 1 \in Nat /\ Len(s) = (Len(s) - 1) + 1
  BY <1>1
<1>5. QED
  BY <1>1, <1>2, <1>3, <1>4, WithoutLast

(***************************************************************************)
(* Moving the top frame leaves the stack below and its route alone.        *)
(***************************************************************************)
LEMMA AtTopFacts ==
    ASSUME NEW s \in Seq(Frame), s # <<>>,
           NEW place \in {"core", "hub", "target", "address", "handler", "sent", "failed"}
    PROVE  LET new == AtTop(s, place)
           IN  /\ new \in Seq(Frame)
               /\ new # <<>>
               /\ Len(new) = Len(s)
               /\ \A j \in 1..Len(s) : new[j].from = s[j].from /\ new[j].to = s[j].to
<1> DEFINE f == [TopFrame(s) EXCEPT !.at = place]
           new == AtTop(s, place)
<1>1. /\ TopFrame(s) \in Frame /\ Below(s) \in Seq(Frame) /\ Len(s) \in Nat \ {0}
      /\ Len(Below(s)) = Len(s) - 1
      /\ \A j \in 1..(Len(s) - 1) : Below(s)[j] = s[j]
  BY StackFacts
<1>2. f \in Frame /\ f.from = TopFrame(s).from /\ f.to = TopFrame(s).to
  BY <1>1 DEF Frame
<1>3. TopFrame(s) = s[Len(s)]
  BY DEF TopFrame
<1>4. new = Append(Below(s), f)
  BY DEF AtTop
<1> HIDE DEF f
<1>5. new \in Seq(Frame) /\ Len(new) = Len(s) /\ new[Len(s)] = f
      /\ \A j \in 1..(Len(s) - 1) : new[j] = s[j]
  BY <1>1, <1>2, <1>4
<1>6. QED
  BY <1>1, <1>2, <1>3, <1>5

(***************************************************************************)
(* Moving the top frame, returning to the frame below and sending on from  *)
(* the top frame's node all leave a call stack.                            *)
(***************************************************************************)
LEMMA StackSteps ==
    ASSUME NEW s \in Seq(Frame), s # <<>>, CallStack(s),
           NEW place \in {"core", "hub", "target", "address", "handler", "sent", "failed"},
           NEW to \in Node
    PROVE  /\ CallStack(AtTop(s, place))
           /\ Below(s) # <<>> => CallStack(AtTop(Below(s), place))
           /\ LET new == Append(s, [from |-> TopFrame(s).to, to |-> to, at |-> "core"])
              IN  new \in Seq(Frame) /\ new # <<>> /\ CallStack(new)
<1>1. /\ TopFrame(s) \in Frame /\ Below(s) \in Seq(Frame) /\ Len(s) \in Nat \ {0}
      /\ Len(Below(s)) = Len(s) - 1
      /\ \A j \in 1..(Len(s) - 1) : Below(s)[j] = s[j]
  BY StackFacts
<1>2. ASSUME NEW r \in Seq(Frame), r # <<>>, CallStack(r)
      PROVE  CallStack(AtTop(r, place))
  <2> DEFINE new == AtTop(r, place)
  <2>1. Len(r) \in Nat /\ Len(new) = Len(r)
        /\ \A j \in 1..Len(r) : new[j].from = r[j].from /\ new[j].to = r[j].to
    BY <1>2, AtTopFacts
  <2> HIDE DEF new
  <2>2. CallStack(new)
    BY <1>2, <2>1 DEF CallStack
  <2>3. QED
    BY <2>2 DEF new
<1>3. CallStack(Below(s))
  BY <1>1 DEF CallStack
<1>4. Below(s) # <<>> => CallStack(AtTop(Below(s), place))
  BY <1>1, <1>2, <1>3
<1>5. CallStack(AtTop(s, place))
  BY <1>2
<1>6. LET new == Append(s, [from |-> TopFrame(s).to, to |-> to, at |-> "core"])
      IN  new \in Seq(Frame) /\ new # <<>> /\ CallStack(new)
  <2> DEFINE f == [from |-> TopFrame(s).to, to |-> to, at |-> "core"]
             new == Append(s, f)
  <2>1. f \in Frame /\ f.from = s[Len(s)].to
    BY <1>1 DEF Frame, TopFrame
  <2> HIDE DEF f
  <2>2. new \in Seq(Frame) /\ Len(new) = Len(s) + 1 /\ new[Len(s) + 1] = f
        /\ \A j \in 1..Len(s) : new[j] = s[j]
    BY <1>1, <2>1
  <2>3. new # <<>>
    BY <1>1, <2>2
  <2> HIDE DEF new
  <2>4. CallStack(new)
    <3> SUFFICES ASSUME NEW j \in 2..Len(new) PROVE new[j].from = new[j - 1].to
      BY DEF CallStack
    <3>1. CASE j = Len(s) + 1
      BY <1>1, <2>1, <2>2, <3>1
    <3>2. CASE j # Len(s) + 1
      <4>1. j \in 2..Len(s) /\ j \in 1..Len(s) /\ j - 1 \in 1..Len(s)
        BY <1>1, <2>2, <3>2
      <4>2. QED
        BY <2>2, <4>1 DEF CallStack
    <3>3. QED
      BY <3>1, <3>2
  <2>5. QED
    BY <2>2, <2>3, <2>4 DEF f, new
<1>7. QED
  BY <1>4, <1>5, <1>6

-----------------------------------------------------------------------------
(***************************************************************************)
(* A thread in a send has a delivery under way, and only writers announce. *)
(***************************************************************************)
SendsHaveFrames ==
    \A t \in Thread : call[t].op = "send" /\ Busy(t) => call[t].state = "busy" /\ call[t].frames # <<>>

(***************************************************************************)
(* Kept apart: nobody writes while somebody sends.                         *)
(***************************************************************************)
Apart == Phased => \A t, r \in Thread : ~(call[t].op = "send" /\ Busy(t) /\ Writes(r))

Inv == TypeOK /\ SendsHaveFrames /\ Apart /\ OkMeansInstalled

(***************************************************************************)
(* A new hub is empty and nobody is in a call.                             *)
(***************************************************************************)
LEMMA InitInv == Init => Inv
<1> SUFFICES ASSUME Init PROVE Inv
  OBVIOUS
<1>1. \A t \in Thread : call[t].state = "err" /\ call[t].frames = <<>> /\ call[t].op = "send"
  BY DEF Init
<1>2. TypeOK
  <2>1. call \in [Thread -> Call]
    <3> DEFINE none(n) == [op |-> "send", node |-> n, state |-> "err", frames |-> <<>>]
    <3>1. \A n \in Node : none(n) \in Call
      BY EmptyStack DEF Call
    <3>2. call \in [Thread -> {none(n) : n \in Node}]
      BY DEF Init
    <3> HIDE DEF none
    <3>3. QED
      BY <3>1, <3>2
  <2>2. \A t \in Thread : CallStack(call[t].frames)
    BY SMTT(30), Zenon, <1>1 DEF CallStack
  <2>3. QED
    BY <1>1, <2>1, <2>2 DEF Init, TypeOK
<1>3. SendsHaveFrames /\ Apart /\ OkMeansInstalled
  BY <1>1 DEF SendsHaveFrames, Apart, OkMeansInstalled, Busy, Writes
<1>4. QED
  BY <1>2, <1>3 DEF Inv

(***************************************************************************)
(* A delivery that goes on leaves another call stack on its thread.        *)
(***************************************************************************)
LEMMA GoOnStep ==
    ASSUME Inv, NEW t \in Thread, call[t].frames # <<>>,
           NEW fs \in Seq(Frame), fs # <<>>, CallStack(fs),
           call' = [call EXCEPT ![t].frames = fs], UNCHANGED <<networks, processor>>
    PROVE  Inv'
<1>1. call[t] \in Call /\ call[t].op = "send" /\ call[t].state = "busy"
  BY DEF Inv, TypeOK
<1>2. /\ call' \in [Thread -> Call]
      /\ call'[t].frames = fs /\ call'[t].op = "send" /\ call'[t].state = "busy"
      /\ \A r \in Thread : call'[r].op = call[r].op /\ call'[r].state = call[r].state
                          /\ call'[r].node = call[r].node
      /\ \A r \in Thread : r # t => call'[r] = call[r]
  BY <1>1 DEF Inv, TypeOK, Call
<1>3. TypeOK'
  BY <1>2 DEF Inv, TypeOK
<1>4. SendsHaveFrames' /\ Apart' /\ OkMeansInstalled'
  BY <1>2 DEF Inv, SendsHaveFrames, Apart, OkMeansInstalled, Busy, Writes
<1>5. QED
  BY <1>3, <1>4 DEF Inv

(***************************************************************************)
(* The last delivery of a send returns.                                    *)
(***************************************************************************)
LEMMA EndStep ==
    ASSUME Inv, NEW t \in Thread, call[t].frames # <<>>, NEW res \in {"ok", "err"},
           call' = [call EXCEPT ![t].frames = <<>>, ![t].state = res],
           UNCHANGED <<networks, processor>>
    PROVE  Inv'
<1>1. call[t] \in Call /\ call[t].op = "send"
  BY DEF Inv, TypeOK
<1> DEFINE c1 == [call[t] EXCEPT !.frames = <<>>]
<1>2. c1 \in Call /\ c1.frames = <<>> /\ c1.op = "send"
  BY Zenon, <1>1, EmptyStack DEF Call
<1> HIDE DEF c1
<1>3. [c1 EXCEPT !.state = res] \in Call
  BY <1>2 DEF Call
<1>4. call' = [call EXCEPT ![t] = [c1 EXCEPT !.state = res]]
  BY Zenon DEF c1, Inv, TypeOK
<1>5. /\ call' \in [Thread -> Call]
      /\ call'[t].frames = <<>> /\ call'[t].op = "send" /\ call'[t].state = res
      /\ \A r \in Thread : r # t => call'[r] = call[r]
  BY <1>2, <1>3, <1>4 DEF Inv, TypeOK, Call
<1>6. TypeOK'
  BY <1>5 DEF Inv, TypeOK, CallStack
<1>7. SendsHaveFrames' /\ Apart' /\ OkMeansInstalled'
  BY ZenonT(30), <1>5 DEF Inv, SendsHaveFrames, Apart, OkMeansInstalled, Busy, Writes
<1>8. QED
  BY <1>6, <1>7 DEF Inv

(***************************************************************************)
(* Every step of a delivery, in any handler, keeps the invariant.          *)
(***************************************************************************)
LEMMA DeliverStep ==
    ASSUME Inv, NEW t \in Thread, Deliver(t)
    PROVE  Inv'
<1>1. \A place : At(t, place) => call[t].frames # <<>>
  BY DEF At
<1>2. call[t].frames # <<>>
  BY Zenon, <1>1 DEF Deliver, SendEvent, RouteEvent, IncomingEvent, NetAddress,
                     HandlerSends, HandlerReturns
<1>3. call[t].frames \in Seq(Frame) /\ CallStack(call[t].frames)
  BY DEF Inv, TypeOK, Call
<1> DEFINE Place == {"core", "hub", "target", "address", "handler", "sent", "failed"}
<1>4. UNCHANGED <<networks, processor>>
  BY Zenon DEF Deliver, SendEvent, RouteEvent, IncomingEvent, NetAddress,
               HandlerSends, HandlerReturns
<1>5. ASSUME NEW place \in Place, Move(t, place)
      PROVE  Inv'
  <2> DEFINE fs == AtTop(call[t].frames, place)
  <2>1. fs \in Seq(Frame) /\ fs # <<>>
    BY <1>2, <1>3, AtTopFacts
  <2>2. CallStack(fs)
    <3>1. PICK n \in Node : TRUE
      <4>1. TopFrame(call[t].frames) \in Frame
        BY <1>2, <1>3, StackFacts
      <4>2. QED
        BY <4>1 DEF Frame
    <3>2. QED
      BY Zenon, <1>2, <1>3, <3>1, StackSteps
  <2>3. call' = [call EXCEPT ![t].frames = fs]
    BY <1>5 DEF Move
  <2> HIDE DEF fs
  <2>4. QED
    BY Zenon, <1>2, <1>4, <2>1, <2>2, <2>3, GoOnStep
<1>6. ASSUME NEW res \in {"ok", "err"}, Pop(t, res)
      PROVE  Inv'
  <2> DEFINE below == Below(call[t].frames)
             place == IF res = "err" THEN "failed" ELSE "sent"
             fs == AtTop(below, place)
  <2>1. CASE below = <<>>
    <3>1. call' = [call EXCEPT ![t].frames = <<>>, ![t].state = res]
      BY <1>6, <2>1 DEF Pop
    <3>2. QED
      BY Zenon, <1>2, <1>4, <3>1, EndStep
  <2>2. CASE below # <<>>
    <3>1. call' = [call EXCEPT ![t].frames = fs]
      BY <1>6, <2>2 DEF Pop
    <3>2. below \in Seq(Frame) /\ place \in Place /\ TopFrame(below) \in Frame
      BY <1>2, <1>3, <2>2, StackFacts
    <3>3. fs \in Seq(Frame) /\ fs # <<>>
      BY <2>2, <3>2, AtTopFacts
    <3>4. PICK n \in Node : TRUE
      BY <3>2 DEF Frame
    <3>5. CallStack(fs)
      BY Zenon, <1>2, <1>3, <2>2, <3>2, <3>4, StackSteps
    <3> HIDE DEF fs
    <3>6. QED
      BY Zenon, <1>2, <1>4, <3>1, <3>3, <3>5, GoOnStep
  <2>3. QED
    BY <2>1, <2>2
<1>7. ASSUME NEW to \in Node, HandlerSends(t, to)
      PROVE  Inv'
  <2> DEFINE fs == Append(call[t].frames, [from |-> TopFrame(call[t].frames).to, to |-> to, at |-> "core"])
  <2>1. fs \in Seq(Frame) /\ fs # <<>> /\ CallStack(fs)
    BY <1>2, <1>3, StackSteps
  <2>2. call' = [call EXCEPT ![t].frames = fs]
    BY <1>7 DEF HandlerSends, Top
  <2> HIDE DEF fs
  <2>3. QED
    BY ZenonT(30), <1>2, <1>4, <2>1, <2>2, GoOnStep
<1>8. QED
  BY <1>5, <1>6, <1>7
     DEF Deliver, SendEvent, RouteEvent, IncomingEvent, NetAddress,
         HandlerReturns

(***************************************************************************)
(* A call that begins: a send where nobody writes, a registration where    *)
(* nobody sends, if the two are kept apart.                                *)
(***************************************************************************)
LEMMA CallStep ==
    ASSUME Inv, NEW t \in Thread,
           \/ \E from, to \in Node : CallSend(t, from, to)
           \/ \E op \in {"new_mock_network", "register_processor"}, n \in Node : CallWrite(t, op, n)
    PROVE  Inv'
<1>1. ASSUME NEW from \in Node, NEW to \in Node, CallSend(t, from, to)
      PROVE  Inv'
  <2> DEFINE fs == <<[from |-> from, to |-> to, at |-> "core"]>>
             c == [op |-> "send", node |-> to, state |-> "busy", frames |-> fs]
  <2>1. fs \in Seq(Frame) /\ fs # <<>> /\ Len(fs) = 1
    BY DEF Frame
  <2>2. CallStack(fs)
    BY <2>1 DEF CallStack
  <2>3. call' = [call EXCEPT ![t] = c] /\ networks' = networks /\ processor' = processor
        /\ (Phased => \A r \in Thread : ~Writes(r))
    BY Zenon, <1>1 DEF CallSend
  <2> HIDE DEF fs
  <2>4. c \in Call
    BY <2>1 DEF Call
  <2>5. /\ call' \in [Thread -> Call] /\ call'[t] = c
        /\ \A r \in Thread : r # t => call'[r] = call[r]
    BY Zenon, <2>3, <2>4 DEF Inv, TypeOK
  <2>6. TypeOK'
    BY Zenon, <2>2, <2>3, <2>5 DEF Inv, TypeOK
  <2>7. SendsHaveFrames' /\ OkMeansInstalled'
    BY Zenon, <2>1, <2>3, <2>5 DEF Inv, SendsHaveFrames, OkMeansInstalled, Busy
  <2>8. Apart'
    BY <2>3, <2>5 DEF Inv, Apart, Busy, Writes
  <2>9. QED
    BY <2>6, <2>7, <2>8 DEF Inv
<1>2. ASSUME NEW op \in {"new_mock_network", "register_processor"}, NEW n \in Node, CallWrite(t, op, n)
      PROVE  Inv'
  <2> DEFINE c == [op |-> op, node |-> n, state |-> "busy", frames |-> <<>>]
  <2>1. call' = [call EXCEPT ![t] = c] /\ networks' = networks /\ processor' = processor
        /\ (Phased => \A r \in Thread : Busy(r) => Writes(r))
    BY SMTT(30), Zenon, <1>2 DEF CallWrite
  <2>2. c \in Call /\ CallStack(<<>>)
    <3>1. c \in Call
      BY Zenon, EmptyStack DEF Call
    <3>2. CallStack(<<>>)
      BY DEF CallStack
    <3>3. QED
      BY <3>1, <3>2
  <2>3. /\ call' \in [Thread -> Call] /\ call'[t] = c
        /\ \A r \in Thread : r # t => call'[r] = call[r]
    BY ZenonT(30), <2>1, <2>2 DEF Inv, TypeOK
  <2>4. TypeOK'
    BY <2>1, <2>2, <2>3 DEF Inv, TypeOK
  <2>5. SendsHaveFrames' /\ OkMeansInstalled' /\ Apart'
    BY Zenon, <2>1, <2>3 DEF Inv, SendsHaveFrames, OkMeansInstalled, Apart, Busy, Writes
  <2>6. QED
    BY <2>4, <2>5 DEF Inv
<1>3. QED
  BY <1>1, <1>2

(***************************************************************************)
(* A writer announces itself, then changes a free slot or fails.           *)
(***************************************************************************)
LEMMA WriteStep ==
    ASSUME Inv, NEW t \in Thread, Announce(t) \/ Write(t)
    PROVE  Inv'
<1>1. call[t] \in Call /\ call[t].op # "send" /\ call[t].frames = <<>> /\ Busy(t)
  BY DEF Inv, TypeOK, Announce, Write, NewMockNetwork, RegisterProcessor, Writes, Busy
<1>2. ASSUME NEW st \in {"ok", "err", "busy", "announced"}, call' = [call EXCEPT ![t].state = st]
      PROVE  /\ call' \in [Thread -> Call]
             /\ call'[t].state = st /\ call'[t].op = call[t].op
             /\ call'[t].node = call[t].node /\ call'[t].frames = call[t].frames
             /\ \A r \in Thread : r # t => call'[r] = call[r]
  BY <1>1, <1>2 DEF Inv, TypeOK, Call
<1>3. CASE Announce(t)
  <2>1. call' = [call EXCEPT ![t].state = "announced"] /\ networks' = networks /\ processor' = processor
    BY <1>3 DEF Announce
  <2>2. TypeOK'
    BY <1>1, <1>2, <2>1 DEF Inv, TypeOK
  <2>3. SendsHaveFrames' /\ OkMeansInstalled' /\ Apart'
    BY <1>1, <1>2, <2>1 DEF Inv, SendsHaveFrames, OkMeansInstalled, Apart, Busy, Writes
  <2>4. QED
    BY <2>2, <2>3 DEF Inv
<1>4. CASE Write(t)
  <2>1. /\ call' = [call EXCEPT ![t].state = "ok"] \/ call' = [call EXCEPT ![t].state = "err"]
        /\ networks' = networks \/ (networks[call[t].node] = None
                                    /\ networks' = [networks EXCEPT ![call[t].node] = t])
        /\ processor' = processor \/ (processor[call[t].node] = None
                                      /\ processor' = [processor EXCEPT ![call[t].node] = t])
        /\ call' = [call EXCEPT ![t].state = "ok"] =>
              \/ call[t].op = "new_mock_network" /\ networks' = [networks EXCEPT ![call[t].node] = t]
              \/ call[t].op = "register_processor" /\ processor' = [processor EXCEPT ![call[t].node] = t]
    <3>1. CASE NewMockNetwork(t) /\ networks[call[t].node] # None
      <4>1. call' = [call EXCEPT ![t].state = "err"] /\ networks' = networks /\ processor' = processor
        BY <3>1 DEF NewMockNetwork
      <4>2. call'[t].state = "err"
        BY <1>2, <4>1
      <4>3. call' # [call EXCEPT ![t].state = "ok"]
        BY <1>1, <4>2 DEF Inv, TypeOK, Call
      <4>4. QED
        BY <4>1, <4>3
    <3>2. CASE NewMockNetwork(t) /\ networks[call[t].node] = None
      BY <3>2 DEF NewMockNetwork
    <3>3. CASE RegisterProcessor(t) /\ processor[call[t].node] # None
      <4>1. call' = [call EXCEPT ![t].state = "err"] /\ networks' = networks /\ processor' = processor
        BY <3>3 DEF RegisterProcessor
      <4>2. call'[t].state = "err"
        BY <1>2, <4>1
      <4>3. call' # [call EXCEPT ![t].state = "ok"]
        BY <1>1, <4>2 DEF Inv, TypeOK, Call
      <4>4. QED
        BY <4>1, <4>3
    <3>4. CASE RegisterProcessor(t) /\ processor[call[t].node] = None
      BY <3>4 DEF RegisterProcessor
    <3>5. QED
      BY <1>4, <3>1, <3>2, <3>3, <3>4 DEF Write
  <2>2. PICK st \in {"ok", "err"} : call' = [call EXCEPT ![t].state = st]
    BY <2>1
  <2>3. /\ call' \in [Thread -> Call]
        /\ call'[t].state = st /\ call'[t].op = call[t].op
        /\ call'[t].node = call[t].node /\ call'[t].frames = call[t].frames
        /\ \A r \in Thread : r # t => call'[r] = call[r]
    BY Zenon, <1>2, <2>2
  <2>4. call[t].node \in Node /\ networks \in [Node -> Thread \cup {None}]
        /\ processor \in [Node -> Thread \cup {None}] /\ None \notin Thread
    BY <1>1, MockAssumption DEF Inv, TypeOK, Call
  <2>5. /\ networks' \in [Node -> Thread \cup {None}] /\ processor' \in [Node -> Thread \cup {None}]
        /\ \A n \in Node : networks[n] # None => networks'[n] = networks[n]
        /\ \A n \in Node : processor[n] # None => processor'[n] = processor[n]
    BY ZenonT(30), <2>1, <2>4
  <2>6. TypeOK'
    BY Zenon, <1>1, <2>3, <2>5 DEF Inv, TypeOK
  <2>7. SendsHaveFrames' /\ Apart'
    BY <1>1, <2>3 DEF Inv, SendsHaveFrames, Apart, Busy, Writes
  <2>8. OkMeansInstalled'
    <3> SUFFICES ASSUME NEW r \in Thread, call'[r].state = "ok"
                 PROVE  /\ call'[r].op = "new_mock_network"   => networks'[call'[r].node] = r
                        /\ call'[r].op = "register_processor" => processor'[call'[r].node] = r
      BY Zenon DEF OkMeansInstalled
    <3>1. CASE r = t
      BY SMTT(30), Zenon, <2>1, <2>2, <2>3, <2>4, <3>1
    <3>2. CASE r # t
      <4>1. call'[r] = call[r] /\ call[r].node \in Node
        BY ZenonT(30), <2>3, <3>2 DEF Inv, TypeOK, Call
      <4>2. /\ call[r].op = "new_mock_network"   => networks[call[r].node] = r
            /\ call[r].op = "register_processor" => processor[call[r].node] = r
        BY ZenonT(30), <4>1 DEF Inv, OkMeansInstalled
      <4>3. QED
        BY <2>4, <2>5, <4>1, <4>2
    <3>3. QED
      BY ZenonT(30), <3>1, <3>2
  <2>9. QED
    BY <2>6, <2>7, <2>8 DEF Inv
<1>5. QED
  BY <1>3, <1>4

(***************************************************************************)
(* The invariant is inductive.                                             *)
(***************************************************************************)
LEMMA NextInv == Inv /\ [Next]_vars => Inv'
<1> SUFFICES ASSUME Inv, [Next]_vars PROVE Inv'
  OBVIOUS
<1>1. CASE Next
  BY <1>1, DeliverStep, CallStep, WriteStep DEF Next
<1>2. CASE UNCHANGED vars
  BY Zenon, <1>2
     DEF vars, Inv, TypeOK, SendsHaveFrames, Apart, OkMeansInstalled, Busy,
         Writes
<1>3. QED
  BY <1>1, <1>2

(***************************************************************************)
(* The inductive invariant of the mock network.                            *)
(***************************************************************************)
THEOREM MockInvariant == Spec => []Inv
BY InitInv, NextInv, PTL DEF Spec

(***************************************************************************)
(* Deliveries form call stacks, however deep handlers nest them.           *)
(***************************************************************************)
THEOREM MockTypeCorrect == Spec => []TypeOK
BY MockInvariant, PTL DEF Inv

(***************************************************************************)
(* Of any number of racing calls of new_mock_network for an id, or of      *)
(* register_processor on a network, the one that returned Ok stays.        *)
(***************************************************************************)
THEOREM RegistrationsFinal == Spec => []OkMeansInstalled
BY MockInvariant, PTL DEF Inv

(***************************************************************************)
(* When all networks and processors are set up before the first event, as  *)
(* sorted_nodes_fixture does, no nesting of read locks blocks a thread for *)
(* good.                                                                   *)
(***************************************************************************)
THEOREM PhasedNeverBlocks ==
    ASSUME Phased
    PROVE  Spec => []NoDeadlock
<1>1. Inv => NoDeadlock
  <2> SUFFICES ASSUME Inv, NEW t \in Thread, Busy(t)
               PROVE  \E r \in Thread : Busy(r) /\ CanGoOn(r)
    BY DEF NoDeadlock
  <2>1. CASE call[t].op = "send"
    <3>1. \A r \in Thread : ~Writes(r)
      BY <2>1 DEF Inv, Apart
    <3>2. \A r \in Thread : call[r].state # "announced"
      BY <3>1 DEF Inv, SendsHaveFrames, Writes, Busy
    <3>3. \A lock : CanRead(lock)
      BY <3>2 DEF CanRead
    <3>4. call[t].frames # <<>> /\ call[t].frames \in Seq(Frame)
      BY <2>1 DEF Inv, SendsHaveFrames, TypeOK, Call
    <3>5. Top(t) \in Frame
      BY <3>4, StackFacts DEF Top
    <3>6. Top(t).at \in {"core", "hub", "target", "address", "handler", "sent", "failed"}
      BY Zenon, <3>5 DEF Frame
    <3>7. CanGoOn(t)
      BY Zenon, <3>3, <3>4, <3>6 DEF CanGoOn, At
    <3>8. QED
      BY <3>7
  <2>2. CASE call[t].op # "send"
    <3>1. \A r \in Thread : call[r].frames = <<>>
      BY <2>2 DEF Inv, Apart, TypeOK, Writes, Busy
    <3>2. \A lock : NoReaders(lock)
      BY SMTT(30), Zenon, <3>1 DEF NoReaders
    <3>3. CASE call[t].state = "announced"
      BY Zenon, <3>2, <3>3 DEF CanGoOn
    <3>4. CASE call[t].state = "busy" /\ CanRead(LockOf(call[t]))
      BY Zenon, <2>2, <3>4 DEF CanGoOn, Writes, Busy
    <3>5. CASE call[t].state = "busy" /\ ~CanRead(LockOf(call[t]))
      <4>1. PICK r \in Thread : call[r].state = "announced"
        BY <3>5 DEF CanRead
      <4>2. QED
        BY Zenon, <3>2, <4>1 DEF CanGoOn, Busy
    <3>6. QED
      BY <3>3, <3>4, <3>5 DEF Busy
  <2>3. QED
    BY <2>1, <2>2
<1>2. QED
  BY <1>1, MockInvariant, PTL

-----------------------------------------------------------------------------
INSTANCE WellFoundedInduction

(***************************************************************************)
(* The naturals are well ordered, because < is well founded on them.       *)
(***************************************************************************)
LEMMA NaturalsWellOrdered == WellOrdered
<1> DEFINE R == OpToRel(<, Nat)
<1>1. \A x, y \in Nat : y < x => <<y, x>> \in R
  BY DEF OpToRel
<1>2. IsWellFoundedOn(R, Nat)
  BY Zenon, NatLessThanWellFounded
<1> HIDE DEF R
<1>3. ASSUME NEW T \in SUBSET Nat, T # {} PROVE \E x \in T : \A y \in T : x =< y
  <2>1. PICK x \in T : \A y \in T : ~(<<y, x>> \in R)
    BY Zenon, <1>2, <1>3, WFMin
  <2>2. \A y \in T : x \in Nat /\ y \in Nat /\ ~(y < x)
    BY <1>1, <2>1, Zenon
  <2>3. \A y \in T : x =< y
    BY <2>2, SMT
  <2>4. QED
    BY <2>3, Zenon
<1>4. QED
  BY <1>3, Zenon DEF WellOrdered

(***************************************************************************)
(* However long the chains of random_identifier_greater_than and           *)
(* _less_than and the identifiers are, no byte overflows and the node      *)
(* stays strictly between the neighbours built for it.                     *)
(***************************************************************************)
THEOREM NeighborsAlwaysSurround == FixtureSpec => []NeighborsSurround
<1>1. ChainsInv => NeighborsSurround
  BY DEF ChainsInv
<1>2. QED
  BY <1>1, InitChains, NextChains, NaturalsWellOrdered, PTL DEF FixtureSpec

(***************************************************************************)
(* However long identifiers and texts are: Display gives back the text of  *)
(* an identifier, padded, and identifiers compare like the numbers their   *)
(* texts denote, so that naturals stand for identifiers in the protocol's  *)
(* models.                                                                 *)
(***************************************************************************)
THEOREM TextsAreNumbers == IdSpec => []TextsDenoteNumbers
<1>1. IdInit => ReadInv
  BY DEF IdInit, ReadInv
<1>2. CompareInv => IdTypeOK
  BY DEF CompareInv
<1>3. QED
  BY <1>1, <1>2, ReadStep, TextsDenote, CompareInvariant, NaturalsWellOrdered, PTL
     DEF IdSpec

(***************************************************************************)
(* However long identifiers are, what Display prints of a comparison stays *)
(* within them and is true as it stands: the two sides are printed up to   *)
(* the first byte that tells them apart, and are in the order printed.     *)
(***************************************************************************)
THEOREM PrintedIsTrue == IdSpec => []ShowsTheDifference
BY ShownTrue, CompareInvariant, NaturalsWellOrdered, PTL
=============================================================================

------------------------- MODULE IdentifierFixtures -------------------------
(***************************************************************************)
(* The identifiers the tests build around a node                           *)
(* (src/core/testutil/fixtures.rs): neighbours below and above it made by  *)
(* chains of random_identifier_less_than and _greater_than calls.          *)
(***************************************************************************)
EXTENDS Bytes, FiniteSetsExt

CONSTANTS
    Drawn,      \* the byte strings the random source yields
    MaxCalls    \* bound on the calls of each generator

VARIABLES
    low, mid, high,   \* a node's identifier and the ends of its two chains
    lowered, raised,  \* how many calls made each chain
    panicked          \* a generator had no identifier to return

FixtureVars == <<low, mid, high, lowered, raised, panicked>>

ASSUME FixtureAssumption == Drawn \subseteq Array /\ MaxCalls \in Nat

(***************************************************************************)
(* random_hex_str, and random_identifier, which reads one.                 *)
(***************************************************************************)
RandomHexStr == {HexEncode(b) : b \in Drawn}

RandomIdentifier == {FromString(s) : s \in RandomHexStr}

(***************************************************************************)
(* The identifier of the bytes of target with byte i replaced.             *)
(***************************************************************************)
WithByte(target, i, byte) ==
    FromBytes([k \in 1..Size |-> IF k = i + 1 THEN byte ELSE target[k - 1]])

(***************************************************************************)
(* Faulty generator: zero bytes before the decremented one are borrowed    *)
(* from.                                                                   *)
(***************************************************************************)
LessThan_Borrows(target) ==
    LET first == Min({i \in Index : target[i] > 0})
    IN  IF target = MAX THEN RandomIdentifier
        ELSE {FromBytes([k \in 1..Size |-> IF k <= first THEN 255
                                           ELSE IF k = first + 1 THEN target[first] - 1
                                           ELSE target[k - 1]])}

(***************************************************************************)
(* What the generators may return: the last byte that is not 0xFF goes up, *)
(* the first that is not zero goes down.                                   *)
(***************************************************************************)
GreaterThan(target) ==
    LET last == Max({i \in Index : target[i] < 255})
    IN  IF target = ZERO THEN RandomIdentifier
        ELSE {WithByte(target, last, target[last] + 1)}

LessThan(target) ==
    LET first == Min({i \in Index : target[i] > 0})
    IN  IF target = MAX THEN RandomIdentifier
        ELSE {WithByte(target, first, target[first] - 1)}

FixtureInit ==
    /\ mid \in RandomIdentifier
    /\ low = mid /\ high = mid
    /\ lowered = 0 /\ raised = 0
    /\ panicked = FALSE

Raise ==
    /\ ~panicked /\ raised < MaxCalls /\ high # MAX
    /\ high' \in GreaterThan(high)
    /\ raised' = raised + 1
    /\ UNCHANGED <<low, mid, lowered, panicked>>

Lower ==
    /\ ~panicked /\ lowered < MaxCalls /\ low # ZERO
    /\ low' \in LessThan(low)
    /\ lowered' = lowered + 1
    /\ UNCHANGED <<mid, high, raised, panicked>>

(***************************************************************************)
(* Nothing lies above MAX or below ZERO.                                   *)
(***************************************************************************)
Panic ==
    /\ ~panicked
    /\ (raised < MaxCalls /\ high = MAX) \/ (lowered < MaxCalls /\ low = ZERO)
    /\ panicked' = TRUE
    /\ UNCHANGED <<low, mid, high, lowered, raised>>

FixtureNext == Raise \/ Lower \/ Panic

FixtureSpec == FixtureInit /\ [][FixtureNext]_FixtureVars

-----------------------------------------------------------------------------
FixtureTypeOK ==
    /\ low \in Array /\ mid \in Array /\ high \in Array
    /\ lowered \in 0..MaxCalls /\ raised \in 0..MaxCalls
    /\ panicked \in BOOLEAN

(***************************************************************************)
(* random_identifier_greater_than and _less_than: however often they are   *)
(* applied, *byte += 1 and -= 1 in fixtures.rs do not overflow, and chains *)
(* of the two keep a node strictly between the neighbours built for it,    *)
(* whatever bytes are full or zero, except from the two extremes, where    *)
(* any random identifier is returned.                                      *)
(***************************************************************************)
NeighborsSurround ==
    /\ FixtureTypeOK
    /\ raised > 0 => LexLess(mid, high) \/ mid = ZERO
    /\ lowered > 0 => LexLess(low, mid) \/ mid = MAX
=============================================================================

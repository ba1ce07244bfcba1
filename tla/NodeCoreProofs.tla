--------------------------- MODULE NodeCoreProofs ---------------------------
(***************************************************************************)
(* Lemmas about directions, prefixes, try_relink, the slots of a table and *)
(* what search_by_id returns, used by the proofs about the link service,   *)
(* the join, the shared table and the client search.                       *)
(***************************************************************************)
EXTENDS NodeCore, TLAPS

(***************************************************************************)
(* Direction::opposite flips and is its own inverse.                       *)
(***************************************************************************)
LEMMA OppositeFacts ==
    ASSUME NEW d \in Direction
    PROVE  /\ Opposite(d) \in Direction
           /\ Opposite(d) # d
           /\ Opposite(Opposite(d)) = d
BY DEF Direction, Opposite

(***************************************************************************)
(* Walking in a direction is a strict total order on the identifiers, and  *)
(* the opposite direction is its converse.                                 *)
(***************************************************************************)
LEMMA PrecedesOrder ==
    ASSUME NEW d \in Direction, NEW a \in Node, NEW b \in Node, NEW c \in Node
    PROVE  /\ ~Precedes(d, a, a)
           /\ Precedes(d, a, b) /\ Precedes(d, b, c) => Precedes(d, a, c)
           /\ Precedes(d, a, b) \/ a = b \/ Precedes(d, b, a)
           /\ ~(Precedes(d, a, b) /\ Precedes(d, b, a))
           /\ Precedes(Opposite(d), a, b) <=> Precedes(d, b, a)
<1>1. a \in Nat /\ b \in Nat /\ c \in Nat
  BY NodeAssumption
<1>2. QED
  BY <1>1 DEF Direction, Opposite, Precedes

(***************************************************************************)
(* Sharing a prefix is symmetric and transitive.                           *)
(***************************************************************************)
LEMMA PrefixMatchEquivalence ==
    ASSUME NEW a \in Node, NEW b \in Node, NEW c \in Node, NEW l
    PROVE  /\ PrefixMatch(a, b, l) => PrefixMatch(b, a, l)
           /\ PrefixMatch(a, b, l) /\ PrefixMatch(b, c, l) => PrefixMatch(a, c, l)
BY DEF PrefixMatch

(***************************************************************************)
(* belongs_in_own_slot seen from the other end: if c belongs in n's slot   *)
(* then n belongs in c's mirror slot.                                      *)
(***************************************************************************)
LEMMA BelongsMirror ==
    ASSUME NEW n \in Node, NEW c \in Node, NEW d \in Direction, NEW l \in Nat,
           BelongsInOwnSlot(n, l, d, c)
    PROVE  BelongsInOwnSlot(c, l, Opposite(d), n)
BY PrecedesOrder, PrefixMatchEquivalence DEF BelongsInOwnSlot

(***************************************************************************)
(* If e belongs in n's slot and lies before c, and c belongs there too,    *)
(* then c belongs in e's slot: the hop a request is forwarded to can serve *)
(* the request.                                                            *)
(***************************************************************************)
LEMMA BelongsForward ==
    ASSUME NEW n \in Node, NEW e \in Node, NEW c \in Node,
           NEW d \in Direction, NEW l \in Nat,
           BelongsInOwnSlot(n, l, d, e), BelongsInOwnSlot(n, l, d, c),
           Precedes(d, e, c)
    PROVE  BelongsInOwnSlot(e, l, d, c)
BY PrefixMatchEquivalence DEF BelongsInOwnSlot

(***************************************************************************)
(* try_relink leaves every other slot alone.  The slot it decides about    *)
(* holds the claimant or a node before it, and whatever it held before is  *)
(* not nearer than what it holds now.                                      *)
(***************************************************************************)
LEMMA TryRelinkFacts ==
    ASSUME NEW lt \in Table, NEW l \in Level, NEW d \in Direction, NEW c \in Node
    PROVE  LET new == TryRelink(lt, l, d, c)
           IN  /\ new \in Table
               /\ \A e \in Direction, k \in Level :
                     (e # d \/ k # l) => new[e][k] = lt[e][k]
               /\ new[d][l] \in {c, lt[d][l]} \ {None}
               /\ ~Precedes(d, c, new[d][l])
               /\ lt[d][l] # None => ~Precedes(d, lt[d][l], new[d][l])
               /\ LinkOutcome(lt, l, d, c) = "LinkedDirectly" => new[d][l] = c
               /\ LinkOutcome(lt, l, d, c) # "LinkedDirectly" =>
                     /\ new = lt
                     /\ lt[d][l] \in Node
                     /\ Precedes(d, lt[d][l], c)
<1> DEFINE old == lt[d][l]
           new == TryRelink(lt, l, d, c)
<1>1. old \in Entry /\ c # None
  BY NoneAssumption DEF Table
<1>2. CASE RelinkOutcome(lt, l, d, c) = "Relinked"
  <2>1. new = [lt EXCEPT ![d][l] = c]
    BY <1>2 DEF TryRelink
  <2>2. new \in Table /\ new[d][l] = c
        /\ \A e \in Direction, k \in Level : (e # d \/ k # l) => new[e][k] = lt[e][k]
    BY <2>1 DEF Table, Entry
  <2>3. old # None => ~Precedes(d, old, c)
    BY <1>2 DEF RelinkOutcome
  <2>4. QED
    BY <1>1, <1>2, <2>2, <2>3, PrecedesOrder DEF LinkOutcome, Entry
<1>3. CASE RelinkOutcome(lt, l, d, c) = "AlreadyConsistent"
  <2>1. new = lt /\ old = c
    BY <1>3 DEF TryRelink, RelinkOutcome
  <2>2. QED
    BY <1>1, <1>3, <2>1, PrecedesOrder DEF LinkOutcome
<1>4. CASE RelinkOutcome(lt, l, d, c) = "Forward"
  <2>1. new = lt /\ old # None /\ Precedes(d, old, c)
    BY <1>4 DEF TryRelink, RelinkOutcome
  <2>2. QED
    BY <1>1, <1>4, <2>1, PrecedesOrder DEF LinkOutcome, Entry
<1>5. QED
  BY <1>2, <1>3, <1>4 DEF RelinkOutcome

-----------------------------------------------------------------------------
(***************************************************************************)
(* The tables new differ from t by at most one try_relink, at node n, of a *)
(* claimant c that belongs in the slot: all a link handler does to them.   *)
(***************************************************************************)
Relinks(t, new, n, l, d, c) ==
    /\ BelongsInOwnSlot(n, l, d, c)
    /\ new = [t EXCEPT ![n] = TryRelink(t[n], l, d, c)]

(***************************************************************************)
(* Such a write keeps the type and the order of the tables, only tightens  *)
(* slots, and makes the slot at least as close as the claimant.            *)
(***************************************************************************)
LEMMA RelinksFacts ==
    ASSUME NEW t \in [Node -> Table], NEW new,
           NEW n \in Node, NEW l \in Nat, NEW d \in Direction, NEW c \in Node,
           Relinks(t, new, n, l, d, c)
    PROVE  /\ l \in Level
           /\ new \in [Node -> Table]
           /\ Ordered(t) => Ordered(new)
           /\ \A k \in Node, e \in Direction, j \in Level :
                 t[k][e][j] # None => AsCloseAs(new, k, e, j, t[k][e][j])
           /\ AsCloseAs(new, n, d, l, c)
           /\ \A k \in Node, e \in Direction, j \in Level :
                 new[k][e][j] # t[k][e][j] => k = n /\ e = d /\ j = l /\ new[k][e][j] = c
<1>1. l \in Level
  BY LevelsAssumption DEF Relinks, BelongsInOwnSlot, Level
<1> DEFINE lt == TryRelink(t[n], l, d, c)
<1>2. /\ lt \in Table
      /\ \A e \in Direction, k \in Level : (e # d \/ k # l) => lt[e][k] = t[n][e][k]
      /\ lt[d][l] \in {c, t[n][d][l]} \ {None}
      /\ ~Precedes(d, c, lt[d][l])
      /\ t[n][d][l] # None => ~Precedes(d, t[n][d][l], lt[d][l])
  BY <1>1, TryRelinkFacts
<1>3. /\ new \in [Node -> Table]
      /\ new[n] = lt
      /\ \A k \in Node : k # n => new[k] = t[k]
  BY <1>2 DEF Relinks
<1>4. \A k \in Node, e \in Direction, j \in Level :
         new[k][e][j] # t[k][e][j] => k = n /\ e = d /\ j = l /\ new[k][e][j] = c
  BY <1>1, <1>2, <1>3
<1>5. Ordered(t) => Ordered(new)
  BY <1>4 DEF Ordered, Relinks, BelongsInOwnSlot
<1>6. AsCloseAs(new, n, d, l, c)
  BY <1>2, <1>3 DEF AsCloseAs
<1>7. ASSUME NEW k \in Node, NEW e \in Direction, NEW j \in Level,
             t[k][e][j] # None
      PROVE  AsCloseAs(new, k, e, j, t[k][e][j])
  <2>1. CASE k = n /\ e = d /\ j = l
    BY <1>2, <1>3, <1>7, <2>1 DEF AsCloseAs
  <2>2. CASE ~(k = n /\ e = d /\ j = l)
    <3>1. new[k][e][j] = t[k][e][j] /\ t[k][e][j] \in Node
      BY <1>4, <1>7, <2>2 DEF Table, Entry
    <3>2. QED
      BY <1>7, <3>1, PrecedesOrder DEF AsCloseAs
  <2>3. QED
    BY <2>1, <2>2
<1>8. QED
  BY <1>1, <1>3, <1>4, <1>5, <1>6, <1>7

(***************************************************************************)
(* As close as c stays true when slots only tighten.                       *)
(***************************************************************************)
LEMMA AsCloseAsStable ==
    ASSUME NEW t \in [Node -> Table], NEW new \in [Node -> Table],
           NEW n \in Node, NEW d \in Direction, NEW l \in Level, NEW c \in Node,
           AsCloseAs(t, n, d, l, c),
           t[n][d][l] # None => AsCloseAs(new, n, d, l, t[n][d][l])
    PROVE  AsCloseAs(new, n, d, l, c)
<1>1. t[n][d][l] \in Node /\ new[n][d][l] \in Node
  BY DEF AsCloseAs, Table, Entry
<1>2. QED
  BY <1>1, PrecedesOrder DEF AsCloseAs

-----------------------------------------------------------------------------
(***************************************************************************)
(* Levels are naturals, and stage 1's is one of them.                      *)
(***************************************************************************)
LEMMA LevelFacts == 0 \in Level /\ Level \subseteq Nat
BY LevelsAssumption DEF Level

(***************************************************************************)
(* Below a level there are only levels.                                    *)
(***************************************************************************)
LEMMA LevelsBelow ==
    ASSUME NEW l \in Level, NEW k \in 0..l
    PROVE  k \in Level
BY LevelsAssumption DEF Level

(***************************************************************************)
(* Every nonempty set of naturals has a least element.  What rests on this *)
(* says so, and the modules that use it prove it, so that the theory of    *)
(* well-founded relations is in view only there.                           *)
(***************************************************************************)
WellOrdered ==
    \A T \in SUBSET Nat : T # {} => \E x \in T : \A y \in T : x =< y

(***************************************************************************)
(* The least element of a set of naturals, to be picked.                   *)
(***************************************************************************)
LEMMA LeastNatural ==
    ASSUME WellOrdered, NEW T, T \subseteq Nat, T # {}
    PROVE  \E x \in T : \A y \in T : x =< y
BY Zenon DEF WellOrdered

(***************************************************************************)
(* A nonempty set of levels has a least and a greatest level, which        *)
(* min_by_key and max_by_key pick in search_by_id.                         *)
(***************************************************************************)
LEMMA LevelExtremes ==
    ASSUME WellOrdered, NEW S, S \subseteq Level, S # {}
    PROVE  /\ \E x \in S : \A y \in S : x =< y
           /\ \E x \in S : \A y \in S : y =< x
<1> USE LevelsAssumption DEF Level
<1>1. \E x \in S : \A y \in S : x =< y
  <2>1. S \in SUBSET Nat
    OBVIOUS
  <2>2. QED
    BY <2>1, Zenon DEF WellOrdered
<1>2. \E x \in S : \A y \in S : y =< x
  <2> DEFINE T == {LookupTableLevels - x : x \in S}
  <2>1. T \in SUBSET Nat /\ T # {}
    OBVIOUS
  <2>2. PICK t \in T : \A s \in T : t =< s
    BY <2>1, Zenon DEF WellOrdered
  <2>3. PICK x \in S : t = LookupTableLevels - x
    OBVIOUS
  <2>4. \A y \in S : y =< x
    BY <2>2, <2>3
  <2>5. QED
    BY <2>4
<1>3. QED
  BY <1>1, <1>2

(***************************************************************************)
(* search_by_id answers with its own node or with a neighbour it holds at  *)
(* the level it names; that neighbour is not past the target, and the      *)
(* search goes on at a level no higher than before.                        *)
(***************************************************************************)
LEMMA SearchByIdFacts ==
    ASSUME NEW self \in Node, NEW lt \in Table, NEW target \in Node,
           NEW level \in Level, NEW d \in Direction
    PROVE  LET res == SearchById(self, lt, target, level, d)
           IN  /\ res.result \in Node
               /\ res.termination_level \in 0..level
               /\ \/ res.result = self
                  \/ /\ ~Precedes(d, target, res.result)
                     /\ res.result = lt[d][res.termination_level]
<1> DEFINE best == Best(lt, target, level, d)
           l == CHOOSE k \in best : TRUE
<1>1. best \subseteq Reachable(lt, target, level, d)
  BY DEF Best, Farthest
<1>2. best \subseteq 0..level /\ 0..level \subseteq Level /\ 0 \in 0..level
  BY <1>1, LevelsAssumption DEF Reachable, Level
<1>3. CASE best = {}
  <2>1. SearchById(self, lt, target, level, d) = [result |-> self, termination_level |-> 0]
    BY <1>3 DEF SearchById
  <2>2. QED
    BY <1>2, <2>1
<1>4. CASE best # {}
  <2>1. l \in best
    BY <1>4
  <2>2. lt[d][l] \in Node /\ ~Precedes(d, target, lt[d][l])
    BY <1>1, <1>2, <2>1 DEF Reachable, Table, Entry
  <2>3. SearchById(self, lt, target, level, d) = [result |-> lt[d][l], termination_level |-> l]
    BY <1>4 DEF SearchById
  <2>4. QED
    BY <1>2, <2>1, <2>2, <2>3
<1>5. QED
  BY <1>3, <1>4

(***************************************************************************)
(* If some neighbour is on the way to the target, the min_by_key or        *)
(* max_by_key of search_by_id finds one.                                   *)
(***************************************************************************)
LEMMA BestExists ==
    ASSUME WellOrdered,
           NEW t \in Table, NEW target \in Node, NEW level \in Level, NEW d \in Direction,
           Reachable(t, target, level, d) # {}
    PROVE  Best(t, target, level, d) # {}
<1> DEFINE reach == Reachable(t, target, level, d)
           far(l) == IF d = "Left" THEN t[d][l] ELSE target - t[d][l]
           T == {far(l) : l \in reach}
<1>1. \A l \in reach : l \in Level /\ t[d][l] \in Node /\ ~Precedes(d, target, t[d][l])
  BY LevelsAssumption DEF Reachable, Level, Table, Entry
<1>2. ASSUME NEW l \in reach
      PROVE  t[d][l] \in Nat /\ target \in Nat /\ far(l) \in Nat
  <2>1. t[d][l] \in Nat /\ target \in Nat
    BY <1>1, NodeAssumption
  <2>2. CASE d = "Left"
    BY <2>1, <2>2
  <2>3. CASE d = "Right"
    <3>1. t[d][l] =< target
      BY <1>1, <2>1, <2>3 DEF Precedes
    <3>2. QED
      BY <2>1, <2>3, <3>1
  <2>4. QED
    BY <2>2, <2>3 DEF Direction
<1>3. T \in SUBSET Nat /\ T # {}
  BY <1>2
<1>4. PICK x \in T : \A y \in T : x =< y
  BY <1>3, Zenon DEF WellOrdered
<1>5. PICK l \in reach : x = far(l)
  BY <1>4
<1>6. \A k \in reach : far(l) =< far(k)
  BY <1>4, <1>5
<1>7. \A k \in reach : ~Precedes(d, t[d][l], t[d][k])
  BY <1>2, <1>5, <1>6 DEF Precedes, Direction
<1>8. Farthest(t, target, level, d) # {} /\ Farthest(t, target, level, d) \subseteq Level
  BY <1>1, <1>5, <1>7 DEF Farthest
<1>9. QED
  BY <1>8, LevelExtremes DEF Best

(***************************************************************************)
(* A core search over an ordered table falls back to its own node only if  *)
(* nothing it looked at is on the way to the target.                       *)
(***************************************************************************)
LEMMA NoFallback ==
    ASSUME WellOrdered, NEW self \in Node, NEW t \in Table, NEW target \in Node, NEW level \in Level,
           NEW d \in Direction,
           \A l \in Level : t[d][l] # None => Precedes(d, self, t[d][l]),
           Reachable(t, target, level, d) # {}
    PROVE  SearchById(self, t, target, level, d).result # self
<1> DEFINE best == Best(t, target, level, d)
           l == CHOOSE k \in best : TRUE
<1>1. best # {} /\ best \subseteq Reachable(t, target, level, d)
  BY BestExists DEF Best, Farthest
<1>2. best \subseteq Level
  BY <1>1, LevelsAssumption DEF Reachable, Level
<1>3. l \in best
  BY <1>1
<1>4. SearchById(self, t, target, level, d).result = t[d][l]
  BY <1>1 DEF SearchById
<1>5. l \in Level /\ t[d][l] # None
  BY <1>1, <1>2, <1>3 DEF Reachable
<1>6. t[d][l] \in Node /\ Precedes(d, self, t[d][l])
  BY <1>5 DEF Table, Entry
<1>7. QED
  BY <1>4, <1>6, PrecedesOrder

(***************************************************************************)
(* max_level answers with a level.                                         *)
(***************************************************************************)
LEMMA CoreMaxLevelType ==
    ASSUME NEW lt
    PROVE  CoreMaxLevel(lt) \in Level
<1> DEFINE populated == {l \in Level : \E d \in Direction : lt[d][l] # None}
           highest == {l \in populated : \A k \in populated : k <= l}
<1>1. 0 \in Level
  BY LevelsAssumption DEF Level
<1>2. MaxPopulatedLevel(lt) = IF highest = {} THEN None ELSE CHOOSE l \in highest : TRUE
  BY DEF MaxPopulatedLevel
<1>3. highest # {} => (CHOOSE l \in highest : TRUE) \in Level
  OBVIOUS
<1>4. QED
  BY <1>1, <1>2, <1>3 DEF CoreMaxLevel
=============================================================================

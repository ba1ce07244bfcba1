---------------------------- MODULE SharedTable -----------------------------
(***************************************************************************)
(* The lookup table of one node while several tasks use it at once: the    *)
(* clones of an ArrayLookupTable share one RwLock, and every method is one *)
(* critical section.  BaseCore::search_by_id is not: it takes the lock     *)
(* once per level, so its candidates may come from different tables.       *)
(***************************************************************************)
EXTENDS NodeCore

CONSTANTS
    Owner,      \* the node the table belongs to
    Searcher,   \* the tasks that search
    AskedLevel   \* the levels callers ask for, out of range or not

ASSUME OwnerAssumption == Owner \in Node /\ AskedLevel \subseteq Nat

VARIABLES
    lt,         \* the table
    search,     \* search[s]: the latest search of s
    offered,    \* offered[s]: its levels held a neighbour on the way when it began
    writers     \* whether anything but the link handlers has written

sharedVars == <<lt, search, offered, writers>>

(***************************************************************************)
(* next is the level to be read next; seen[l] is what was read at level l. *)
(***************************************************************************)
Search == [pc     : {"idle", "reading", "done", "error"},
           target : Node,
           dir    : Direction,
           level  : AskedLevel,
           next   : Nat,
           seen   : [Level -> Entry],
           res    : [result : Node, termination_level : Nat]]

Unread == [l \in Level |-> None]

NoRes == [result |-> Owner, termination_level |-> 0]

SharedInit ==
    /\ lt = EmptyTable /\ writers = "links"
    /\ offered = [s \in Searcher |-> FALSE]
    /\ search \in [Searcher -> {[pc |-> "idle", target |-> Owner, dir |-> "Left", level |-> l,
                                 next |-> 0, seen |-> Unread, res |-> NoRes] : l \in AskedLevel}]

-----------------------------------------------------------------------------
(***************************************************************************)
(* The writers.  The link handlers call try_link (try_relink with two      *)
(* outcomes folded) for a candidate that belongs in the slot.              *)
(***************************************************************************)
TryLink(level, d, candidate) ==
    /\ BelongsInOwnSlot(Owner, level, d, candidate)
    /\ lt' = TryRelink(lt, level, d, candidate)
    /\ UNCHANGED <<search, offered, writers>>

Maintain(level, d) ==
    /\ \/ \E identity \in Node : lt' = UpdateEntry(lt, identity, level, d)
       \/ lt' = RemoveEntry(lt, level, d)
    /\ writers' = "anyone"
    /\ UNCHANGED <<search, offered>>

-----------------------------------------------------------------------------
(***************************************************************************)
(* search_by_id begins.                                                    *)
(***************************************************************************)
CallSearch(s, target, d, level) ==
    /\ search[s].pc # "reading"
    /\ search' = [search EXCEPT ![s] = [pc |-> "reading", target |-> target, dir |-> d,
                                        level |-> level, next |-> 0, seen |-> Unread,
                                        res |-> NoRes]]
    /\ offered' = [offered EXCEPT ![s] =
           level \in Level /\ Reachable(lt, target, level, d) # {}]
    /\ UNCHANGED <<lt, writers>>

(***************************************************************************)
(* One get_entry of the loop over 0..=level; the first level past the      *)
(* table ends the search with an error.                                    *)
(***************************************************************************)
ReadLevel(s) ==
    LET c == search[s]
    IN  /\ c.pc = "reading" /\ c.next <= c.level
        /\ search' = [search EXCEPT ![s] =
               IF c.next \in Level
               THEN [c EXCEPT !.seen = [c.seen EXCEPT ![c.next] = GetEntry(lt, c.next, c.dir)],
                              !.next = c.next + 1]
               ELSE [c EXCEPT !.pc = "error"]]
        /\ UNCHANGED <<lt, offered, writers>>

(***************************************************************************)
(* Faulty loop: 0..level without the level itself.                         *)
(***************************************************************************)
Decide_Early(s) ==
    LET c == search[s]
    IN  /\ c.pc = "reading" /\ (c.next > c.level \/ (c.next = c.level /\ c.level \in Level))
        /\ search' = [search EXCEPT ![s] =
               [c EXCEPT !.pc = "done",
                         !.res = SearchById(Owner, [lt EXCEPT ![c.dir] = c.seen],
                                            c.target, c.level, c.dir)]]
        /\ UNCHANGED <<lt, offered, writers>>

(***************************************************************************)
(* The candidates are filtered and the best is chosen, from what was read. *)
(***************************************************************************)
Decide(s) ==
    LET c == search[s]
    IN  /\ c.pc = "reading" /\ c.next > c.level
        /\ search' = [search EXCEPT ![s] =
               [c EXCEPT !.pc = "done",
                         !.res = SearchById(Owner, [lt EXCEPT ![c.dir] = c.seen],
                                            c.target, c.level, c.dir)]]
        /\ UNCHANGED <<lt, offered, writers>>

-----------------------------------------------------------------------------
SharedNext ==
    \/ \E level \in AskedLevel, d \in Direction, c \in Node : TryLink(level, d, c)
    \/ \E level \in AskedLevel, d \in Direction : Maintain(level, d)
    \/ \E s \in Searcher, target \in Node, d \in Direction, level \in AskedLevel :
          CallSearch(s, target, d, level)
    \/ \E s \in Searcher : ReadLevel(s) \/ Decide(s)

SharedSpec == SharedInit /\ [][SharedNext]_sharedVars

-----------------------------------------------------------------------------
SharedTypeOK ==
    /\ lt \in Table
    /\ search \in [Searcher -> Search]
    /\ offered \in [Searcher -> BOOLEAN]
    /\ writers \in {"links", "anyone"}

(***************************************************************************)
(* A search that falls back to its own node is right to do so: no level it *)
(* was asked to look at held a neighbour on the way to the target when it  *)
(* began, whatever the link handlers wrote between its reads.  The node    *)
(* that answers "me" ends the whole search.                                *)
(***************************************************************************)
FallbackIsTrue ==
    writers = "links" =>
        \A s \in Searcher :
            search[s].pc = "done" /\ search[s].res.result = Owner => ~offered[s]

(***************************************************************************)
(* Between link handlers, the neighbour a search chose is not past the     *)
(* target, and however stale the choice, the slot of the level it reports  *)
(* still holds that node or one between it and the owner.                  *)
(***************************************************************************)
ChoiceIsBacked ==
    writers = "links" =>
        \A s \in Searcher :
            LET c == search[s]
                x == lt[c.dir][c.res.termination_level]
            IN  c.pc = "done" /\ c.res.result # Owner
                    => /\ ~Precedes(c.dir, c.target, c.res.result)
                       /\ x # None /\ ~Precedes(c.dir, c.res.result, x)

(***************************************************************************)
(* Even while entries are replaced and removed at will, a search never     *)
(* names a node past its target, and fails exactly for a level past the    *)
(* table.                                                                  *)
(***************************************************************************)
NeverPastTarget ==
    \A s \in Searcher :
        LET c == search[s]
        IN  /\ c.pc = "done" => \/ c.res.result = Owner
                                \/ ~Precedes(c.dir, c.target, c.res.result)
            /\ c.pc = "done"  => c.level < LookupTableLevels
            /\ c.pc = "error" => c.level >= LookupTableLevels

(***************************************************************************)
(* The three views of a table agree: the listings have the levels in       *)
(* order, without gaps of their own, hold what get_entry returns, and end  *)
(* at max_populated_level.                                                 *)
(***************************************************************************)
ViewsAgree ==
    LET top(d) == LET ns == Neighbors(lt, d) IN IF ns = <<>> THEN {} ELSE {ns[Len(ns)][1]}
        tops   == top("Left") \cup top("Right")
    IN  /\ MaxPopulatedLevel(lt) = IF tops = {} THEN None ELSE Max(tops)
        /\ \A d \in Direction :
              LET ns == Neighbors(lt, d)
              IN  /\ \A i \in 2..Len(ns) : ns[i - 1][1] < ns[i][1]
                  /\ \A l \in Level : GetEntry(lt, l, d) # None
                                      <=> \E i \in 1..Len(ns) : ns[i] = <<l, GetEntry(lt, l, d)>>

(***************************************************************************)
(* A claim that was settled stays settled: asking again finds the claimant *)
(* in place, or the same nearer node to forward to, and writes nothing.    *)
(* A repair sweep over a healthy table is silent.                          *)
(***************************************************************************)
RelinkSettles ==
    \A l \in Level, d \in Direction, c \in Node :
        LET new == TryRelink(lt, l, d, c)
        IN  /\ TryRelink(new, l, d, c) = new
            /\ LinkOutcome(lt, l, d, c) = "LinkedDirectly"
                  => RelinkOutcome(new, l, d, c) = "AlreadyConsistent"
            /\ LinkOutcome(lt, l, d, c) = "Forward" => GetEntry(new, l, d) = GetEntry(lt, l, d)
=============================================================================

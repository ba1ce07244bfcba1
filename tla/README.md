# A TLA+ model of skipgraph-rust

A skip graph keeps its nodes in sorted doubly linked lists: one list of all
nodes at level 0, and at level `l` one list for every `l`-bit prefix of the
membership vectors. This project models how a node of `skipgraph-rust` joins
such a graph while others do the same, how a client searches it, and the parts
underneath: the shared lookup table, identifiers and membership vectors as byte
arrays, the cancellation context, the in-memory network, the repair schedule and
the test fixtures. TLC checks the models on small instances. TLAPS proves the
safety results for instances of every size.

## The system

| Part | Source | Modules |
| --- | --- | --- |
| ids, prefixes and directions as the protocol sees them | `src/core/model` | `Identities` |
| identifiers and membership vectors as bytes and hex text | `src/core/model/identifier.rs`, `memvec.rs` | `Bytes`, `Identifier`, `MembershipVector` |
| lookup table | `src/core/lookup/array_lookup_table.rs` | `LookupTable`, `SharedTable` |
| what one node computes (`BaseCore`, link decisions) | `src/node/core.rs`, `src/node/base_node.rs` | `NodeCore`, `SharedTable` |
| link service: `GetLinkOp` / `SetLinkOp` | `src/node/base_node.rs` | `LinkProtocol` |
| join, phase 0 and stage 1, waiter map, timeouts | `src/node/base_node.rs`, `src/node/waiter.rs` | `Join` |
| client search | `src/node/base_node.rs` | `ClientSearch` |
| transport (`Network` trait) | `src/network` | the `msgs` variable of `LinkProtocol`, `Join` and `ClientSearch` |
| mock network and hub | `src/network/mock` | `MockNetwork` |
| irrevocable context | `src/core/context/mod.rs` | `Context` |
| repair schedule | `src/node/repair_schedule.rs` | `TokioRepairSchedule`, `ManualRepairSchedule` |
| test fixtures | `src/core/testutil`, `src/node/testutil.rs` | `IdentifierFixtures`, `TableFixtures`, `ThreadJoin`, `WaitUntil`, `DoublyLinkedAtLevel` in `Join` |

A joining node `u` asks an introducer for its highest level (phase 0, optional),
searches from it towards `u` for the nearest node (the *anchor*), asks the anchor
for its neighbour beyond `u`, and asks both to adopt `u` in one of their slots
(`GetLinkOp`). A receiver drops a request for a slot the candidate cannot
occupy, adopts the candidate and confirms (`SetLinkOp`), or forwards the request
to the neighbour that sits in between. The confirmation writes `u`'s own slot.

## The modules

`Identities` represents an `Identity` by its identifier, a natural number: ids
are unique on a network, so the id determines the membership vector (`MemVec`)
and the address. `Precedes(d, a, b)` is the order in direction `d` and
`PrefixMatch` is `common_prefix_bit(a, b) >= level`.

`LookupTable` has one operator per critical section of `ArrayLookupTable`, as a
function of the table. `try_relink` is the three-way decision `RelinkOutcome`
and the table `TryRelink` it leaves behind; `try_link` is the same with two of
the outcomes folded (`LinkOutcome`).

`NodeCore` has `search_by_id` (`SearchById`, with the tie-breaks of
`min_by_key` and `max_by_key`), `max_level`, `belongs_in_own_slot`, and the two
link handlers as functions: the table they leave (`GetLinkTable`,
`SetLinkTable`) and the events they send (`GetLinkSends`). It also defines what
the properties speak of: `Ordered` tables, a slot `AsCloseAs` a node, and
`Wired` tables (ordered, every link known at both ends).

`LinkProtocol` is the abstract specification of linking. Any node may send any
other a request for any slot (level `LookupTableLevels` included, which is out
of range); the two handlers answer. Messages are reordered, delayed, lost (never
delivered) and delivered more than once. Nonces only correlate replies with
callers and are erased.

`Join` is the detailed specification. Each node has a table, a `request_id_map`
(`waiters`), the contents of its oneshot channels (`replies`) and a task
(`call`) with a program counter that stops at every `await`. One action is one
uninterrupted stretch of the task or one event handler:

| Action | Code |
| --- | --- |
| `GetMaxLevel`, `JoinStage1` | the calls, up to their first `await` |
| `ResumeMaxLevel`, `ResumeSearch`, `ResumeNeighbor`, `ResumeLink` | the stretch after each `await`, up to the next |
| `FailRoundTrip` | `tokio::time::timeout` elapses, or the send failed; `WaiterGuard` runs |
| `Cancel` | the future is dropped at an `await` |
| `Handle...` | the eight arms of `process_incoming_event` |

`SequentialJoin` is `Join` restricted to joins that do not overlap, on a network
that loses nothing (`SequentialSpec`). `JoinRefinement` has the mapping from `Join`
to `LinkProtocol` and the property `ImplementsLinkProtocol`.

Both specifications start from any wired network (`InitTable`); in TLC's runs
the members are linked correctly and joining nodes are empty.

Steps that the code takes under several locks are one action where nothing can
tell the difference. `handle_set_link_response` writes the table and then takes
the waiter; a timeout in between has the effect of a timeout before the handler,
because the write does not look at the waiter map. `search_by_id` locks once per
level, but stage 1 writes level-0 slots only; `SharedTable` has the general case.

`SharedTable` is one node's table used by several tasks. `try_link`,
`try_relink`, `update_entry` and `remove_entry` are one step each; a search reads
one level per step, so its candidates may come from different tables. `offered`
remembers whether the search had anywhere to go when it began, and `writers`
whether anything but the link handlers has written so far.

`ClientSearch` is `BaseNode::search_by_id` over fixed tables whose level-0 lists
are complete. The caller chooses the nonce. Requests, relays and answers are
reordered or lost; calls time out or are dropped. Callers may reuse a nonce: the
later waiter replaces the earlier one, whose sender is dropped, and each
`WaiterGuard` removes whatever is under its nonce. What is said of answers is
said of calls whose nonce no other call of that node used (`OwnNonce`).

`MockNetwork` is a call stack per thread. A frame is one delivery and says how
far it has got, which determines the read locks it holds; a handler sends by
pushing a frame. A writer of a `parking_lot` lock first announces itself, which
stops new readers, then waits for the old ones. With `Phased = TRUE` nodes are
created and registered before anything is sent, as the repository's tests do.

`Context` has the chain of parents of every context, who was cancelled, the
inherited deadlines, and tasks in `run` or `run_or_throw`. A call checks the
context (`CallRun`) and enters `select!` in a later step (`EnterSelect`): a cancel
or the deadline may fall between the two, and is then found by the race. `Poll` is
one poll of the unbiased `select!`: any ready branch may win.

`TokioRepairSchedule` keeps time relative to the interval, so it runs for ever;
`Tick` reschedules by `MissedTickBehavior::Skip`. `ManualRepairSchedule` is
tokio's `Notify`, with its permit, its queue, and a woken but dropped waiter
passing its notification on.

`Bytes` has the conversions both byte-array types share. `Identifier` and
`MembershipVector` run the loops of `compare` and `common_prefix_bit` one
iteration at a time. They justify the two abstractions of `Identities`: ids are
numbers, and `PrefixMatch` is agreement of the first bits. `Shown` is what the
`ComparisonContext` of a comparison prints of each side: the bytes up to
`diff_index`.

The fixtures decide what the repository's tests show. `IdentifierFixtures` builds
chains of greater and smaller identifiers, raising the last byte that is not full
or lowering the first that is not zero;
`TableFixtures` builds a table level by level and searches it; `ThreadJoin` is
`join_all_with_timeout` with its helper threads; `WaitUntil` is `wait_until` on a
bounded blocking pool.

## What TLC checks

Runs of the protocol use two levels, so that there is an upper list and an
out-of-range level. TLC must find no error in the runs not marked *violation*.

| Run | Instance | Properties |
| --- | --- | --- |
| `link_service` | 3 nodes, 1 and 2 share the upper list, at most 2 events in flight | `TablesOrdered`, `ConfirmationsBacked`, `HalfLinksAreInFlight`, `SlotsOnlyTighten`, `ForwardsApproach` |
| `join_concurrent` | members 1 and 4, nodes 2 and 3 join at once, one attempt each | `SearchNeverOvershoots`, `LinkReplyIsApplied`, `OkMeansLinked` |
| `join_sequential` | members 2 and 4; 1, 3 and 5 join one after the other, everything is delivered | `SequentialJoinsSort`, `SearchFindsNearest`, `LoneJoinSucceeds` |
| `join_calls` | members 1 and 3, node 2 joins, two attempts, start levels 0 and 2 (out of range) | `WaitersMatchAwaited`, `ImplementsLinkProtocol`, `EveryCallEnds` |
| `join_dropped` (violation) | member 1, nodes 2 and 3 join at once | `NoRequestDropped` |
| `join_retry` (violation) | members 1 and 3, node 2 joins, two attempts | `CollisionMeansTaken` |
| `shared_table` | owner 1 of nodes 0..3, one search, levels 0 to 2 asked for and written | `NeverPastTarget`, `FallbackIsTrue`, `ChoiceIsBacked`, `ViewsAgree` |
| `client_search` | 3 nodes, complete level-0 lists with shortcuts above, two searches, two nonces | `AnswerIsNearest`, `WaitersMatchCalls`, `EverySearchEnds` |
| `mock_network` | 2 nodes, 2 threads, stacks of 2 deliveries, setup before traffic | `NoDeadlock`, `OkMeansInstalled`, `EveryCallReturns` |
| `mock_shared` (violation) | a network that is up and grows while events are routed | `NoDeadlock` |
| `timers` | see below | of contexts: `CancelledExactlyBelow`, `ResultsAreTrue`, `UnusableDrains`; of the interval: `KeepsSchedule`; of the manual schedule: `NoFireLost`; of `join_all_with_timeout`: `JoinIsBounded`; of it and `wait_until`: `VerdictsAreTrue`; of all that wait: `EveryWaitEnds`; and `TimersTypeOK` |
| `values` | see below | of vectors: `PrefixDecidesLevel`, `SplitAtFirstDifference`; of identifiers: `TextsDenoteNumbers`, `ComparesLexicographically`, `ShowsTheDifference`; of the fixtures: `NeighborsSurround`, `TablesServeTests` |

The last two runs check components that share no state with any other. `MCTimers`
and `MCValues` put them side by side: `running` names the one component that
moves in a behaviour, the others stay as they were created. TLC so explores the
sum of their state spaces, each in full, and the fairness of a component is
assumed only where it runs. Some properties there join what the components
promise of the same kind: `EveryWaitEnds` is `EveryCallTicks` of the interval,
`JoinAllReturns` of `ThreadJoin` and `EveryWaitReturns` of `WaitUntil`, and the
comments in the two modules say the same of the others.

The type invariants of the protocol modules and `RelinkSettles` (asking
`try_relink` again changes nothing) are in no run: the proofs below establish
them for every instance.

| Component | Instance |
| --- | --- |
| contexts | 3 contexts, 1 task, timeouts 0 and 1 |
| interval, manual schedule | 3 callers, period 3, up to 7 units late; 4 fires |
| `join_all_with_timeout` | 3 threads that end, panic or hang, a budget of 3 |
| `wait_until` | 2 calls, 1 pool thread |
| vectors, identifiers | 2 bytes; vectors over 12 bytes; texts of up to 5 characters |
| fixtures | identifiers over the bytes 0, 1, 254, 255 and 3 calls of each generator; tables of 2 levels with 5 random ids and the extremes |

What the bounds leave room for:

- The order of the tables, the truth of confirmations and the tightening of
  slots are per-slot facts: three nodes give an owner, an occupant and a
  candidate, in both orders. Two events in flight let a request race another one
  or a confirmation. The proofs below remove these bounds.
- Two joins between two members is the smallest instance in which a join sees
  another's half-done work on both sides.
- In `join_concurrent` every join makes phase 0 first (`StartLevels` is empty);
  a phase 0 that fails leaves the search level at 0, as a caller who skips it
  and passes 0 does. Other start levels are in `join_calls`.
- The sequential run has joins at both ends and in the middle, from introducers
  on either side.
- `MaxAttempts` bounds the stage-1 calls of one node. A second attempt is what a
  retry needs; the concurrent runs allow one, to stay small.
- A search over two levels has a write between its reads; two candidates on the
  search side give a choice that can be tightened and one that is overtaken.
- Two searches with two nonces run apart, or one replaces the other's waiter.
  The shortcuts to the left mirror those to the right, to halve the networks.
- Two nested deliveries are the least that takes a lock twice on one thread.
- Three contexts make a chain with a middle, or a root with two children.
- A delay of 7 over a period of 3 skips more than one tick and ends off the grid.
- The bytes chosen differ in the first bit, the last, in between, and across the
  byte boundary, and include both ends of the range, where carries happen.
- One pool thread and two waits make a task that never starts; three handles let
  one thread hang before, between and after others.
- Deadlock is not checked where the system comes to an end: joins, client
  searches, a comparison, a finished table, a joined set of threads.

**Fairness.** `EveryCallEnds` assumes that timers fire and woken tasks are
polled (`Fairness`: weak fairness of `TimeOut` and `Resume`), which tokio
guarantees; it does not assume that a message is ever delivered.
`LoneJoinSucceeds` is about a network that loses nothing, so there weak fairness
of delivery stands in for the timeouts, which never fire first.

`EverySearchEnds` and `UnusableDrains` assume the same of timers and polls, and
nothing of messages or operations; `UnusableDrains` also that a task between the
check and `select!` goes on, as no `await` separates them. `EveryCallReturns`
assumes that a thread that can go on does, and that `parking_lot` does not pass
a waiting writer over for ever (strong fairness of `Announce`). `EveryCallTicks`
assumes that time passes and that the holder of the interval's lock is polled;
the queue of the tokio `Mutex` is first come, first served. `JoinAllReturns` and
`EveryWaitReturns` assume that the caller runs and time passes, not that any
thread or condition comes through.

**Disagreements.** Three runs show that the code does not do what is written.

- `join_dropped`: `concurrent-insert.md`, line 288, says that no legitimate
  request is ever dropped. A node `b` that links between the anchor and `u`
  after `u`'s search, but before its `GetNeighborOp`, becomes the answer to that
  query; `u` then asks `b` for the slot on the wrong side, `b` drops the
  request, and the join of `u` ends in a timeout.
- `join_retry`: the documentation of `join_stage1_link_level0` says that a
  search which resolves the node's own id means that another node holds it.
  After a first attempt that failed once its link request was accepted, the
  retry finds the node itself.
- `mock_shared`: `NetworkHub` is documented as safely shared without external
  locking. A node created while an event is routed announces its write between
  two nested reads of one thread, and both threads wait for ever.

**Noted while modelling**, with no run of their own:

- `run` of a context is documented to return an error if the context is cancelled
  or out of time before the operation completes (`context/mod.rs`, line 119).
  When both are ready at one poll, the unbiased `select!` may return the
  operation's result. `Poll` allows it, so `ResultsAreTrue` does not forbid it.
- A comment in `run` (lines 130 to 132) says that an already-cancelled or
  already-expired context "never races an immediately-ready future". That is true
  of the moment of the check; a context that another thread cancels between the
  check and the first poll does race.
- `throw_irrecoverable`: "When it reaches the root context, it terminates the
  program" (line 160). The panic unwinds one task or thread, and the others go
  on, as they do in `Context`.
- `Identifier::from_string` and `MembershipVector::from_string`: "The input must
  be at most 32 characters long." 64 hex characters are accepted: the limit is
  32 bytes.
- `random_lookup_table_with_extremes` is said to give every search a neighbour.
  A left search needs an entry not below its target, and the fixture puts zero
  there; likewise on the right.
- `wait_until` is said to poll until the condition is true or the timeout
  elapses. `abort` does not reach a blocking task that has started, which goes on
  polling on its thread; `WaitUntil` has such tasks, and `EveryWaitReturns` holds
  although they keep the pool busy.

## What TLAPS proves

`NodeCoreProofs` has the lemmas about operators: `Precedes` is a strict order
and `Opposite` reverses it, prefix agreement is an equivalence, what
`try_relink` changes (`TryRelinkFacts`), what a relink by a handler does to all
tables (`RelinksFacts`), and what a search returns: a node that is not past the
target, found in the slot of the level it reports (`SearchByIdFacts`). That a
search which has candidates has a best one (`BestExists`) takes that a set of
naturals has a least element. This is the hypothesis `WellOrdered` of the lemmas
that need it; each module derives it once, at its end, from
`WellFoundedInduction` (`NaturalsWellOrdered`), where its theorems are assembled.

`TableProofs` proves for `LinkProtocol!Spec`, for every set of nodes,
membership vectors, number of levels and wired initial network:

| Theorem | States |
| --- | --- |
| `TypeCorrect` | `[]TypeOK` |
| `AlwaysOrdered` | `[]TablesOrdered` |
| `AlwaysBacked` | `[]ConfirmationsBacked` |
| `HalfLinksAccounted` | `[]HalfLinksAreInFlight` |
| `SlotsTighten` | `SlotsOnlyTighten` |
| `ForwardsArrive` | `ForwardsApproach` |

All rest on `LinkInvariant`, the inductive invariant `LinkInv`. The order of the
tables is inductive with the types alone. `HalfLinksAreInFlight` is not: the
handler of `SetLinkOp` creates a link, and the other end is known to hold it only
because every confirmation in flight is backed by its sender. That in turn stays
true because slots only tighten (`StepsTighten`), which is the argument of the
whole proof: each step is either no table change or one `try_relink` behind
`belongs_in_own_slot` (`StepsRelink`).

`JoinProofs`, and for `JoinImplements` the first part of `JoinStepProofs`, prove
for `Join!Spec`, for any number of joining nodes, attempts and start levels:

| Theorem | States |
| --- | --- |
| `JoinTypeCorrect` | `[]TypeOK` |
| `WaitersAccounted` | `[]WaitersMatchAwaited` |
| `JoinImplements` | `ImplementsLinkProtocol` |
| `SearchesNeverOvershoot` | `[]SearchNeverOvershoots` |
| `LinkRepliesAreApplied` | `[]LinkReplyIsApplied` |
| `OkJoinsAreLinked` | `[]OkMeansLinked` |

The first three rest on `JoinInvariant`, the inductive invariant `JoinInv`. Types are not
inductive alone: `ResumeNeighbor` sends to the anchor, which is a node only
because a task at that point has one, and reads a field that only one kind of
reply has. `Consistent` therefore ties the place where a task stands to the kind
of its waiters and replies, and says that no nonce has two of them; a nonce is
never drawn twice, so a late reply finds no waiter. The refinement erases nonces:
`ResumeNeighbor` is one `SendLinkRequests`, the two link handlers map to
themselves, and every other step leaves tables and link events alone. Two link
events that differ in their nonce only become one, so consuming one of them is
a repeated delivery of the other, which `LinkProtocol` allows.

The last three rest on `PathInvariant`, the inductive invariant `PathInv` on top
of `JoinInv`. `OkMeansLinked` speaks of a task that has ended, when its requests,
replies and waiters are gone, so the invariant follows the join on its way
there: an event a task still awaits is where it should be (`OnTrack`), a
`SetLinkOp` in flight or in a channel is true in the tables (`Backed`), and a
task that links has, on the side of its search, a link known at both ends, a
waiter or a reply (`PathTask`). Every step of a task is first shown to have one
shape (`TaskShape`: requests under fresh nonces and on track, an anchor kept or
taken from the search), every handler another (`HandlerShape`: tables only
tighten, what is sent is on track if what was received is), and the invariant is
proved for the shapes.

`SequentialProofs` proves for `SequentialSpec`, for every finite set of nodes,
any number of joins in any order, from any joined introducer and start level:

| Theorem | States |
| --- | --- |
| `SearchesFindNearest` | `[]SearchFindsNearest` |
| `SequentialJoinsAreSorted` | `[]SequentialJoinsSort` |

They rest on `SequentialInvariant`, the inductive invariant `SequentialInv`, which
the second part of `JoinStepProofs` states and proves of the steps of the joining
task. The
tables *fit* a sorted list into which one node is being linked (`Fits`): a slot
of a joined node holds its neighbour or the node that has come in between, and a
slot of the joining node is empty or holds its neighbour to be. Every event in
flight belongs to the one join under way, has its waiter, and is right
(`Right`): a search request has reached a joined node before the joining one, an
answer names the nearest node, a link request has reached the neighbour to be, a
confirmation is already in its sender's table. A side of the joining node is
linked at both ends or still has its waiter (`OnCourse`), so the last reply
leaves a list with one more node (`FitsJoined`). Sortedness itself needs that a
finite set of naturals has an ascending list (`AscendingExists`), by a least
counterexample.

`TableProofs` also proves for `SharedTable!SharedSpec`, for any number of
levels, nodes and searches:

| Theorem | States |
| --- | --- |
| `SharedTypeCorrect` | `[]SharedTypeOK` |
| `SearchStaysBefore` | `[]NeverPastTarget`, whoever writes |
| `RelinksSettle` | `[]RelinkSettles`, whoever writes |
| `FallbackSound`, `ChoiceSound` | `[]FallbackIsTrue`, `[]ChoiceIsBacked`, as long as only the link handlers have written |
| `ViewsAlwaysAgree` | `[]ViewsAgree`, whoever writes |

`FallbackSound` and `ChoiceSound` rest on `Tight`: slots are ordered, what was read is still held or
was tightened since, and an offer seen at the start is still open at a level not
yet read or was read. Removal breaks it, so the invariant
`TightInv` promises it only while `writers` says that nothing else has written.

`ViewsAlwaysAgree` is about loops. `left_neighbors` and `right_neighbors` are a
recursive function over the levels. `ListingLoop` shows that a run of the loop
exists for any number of levels (otherwise there would be a least number of
levels without one), and `Lists` is its invariant: what has been listed is, in
order, what the slots passed hold.

`FixtureTablesServe`, on the same lemmas, is `[]TablesServeTests` for tables of
any number of levels over any identifiers with a least and a greatest. The
invariant `TablesInv` says that exactly the levels filled hold an entry, that no
two levels of a side hold the same one, and that the extremes come last: an entry
searched for at its own level is hidden by no other.

`ClientSearchProofs`, for any network with complete level-0 lists:

| Theorem | States |
| --- | --- |
| `ClientTypeCorrect` | `[]TypeOK` |
| `ClientWaitersAccounted` | `[]WaitersMatchCalls`, nonces reused or not |
| `AnswersAreNearest` | `[]AnswerIsNearest`, of calls whose nonce their node used once |

A relay hands the request to a node between itself and the target, so the
nearest node seen from the relay is the nearest seen from the origin. The
invariant says that of every message, and that a message's nonce leads to the
call it was sent for. A node that is past the target in the direction of the
search answers with itself, and `IsNearest` says so.

`SupportProofs`, for any number of nodes, threads and nested deliveries:

| Theorem | States |
| --- | --- |
| `MockTypeCorrect` | `[]TypeOK`, with the shape of the call stacks |
| `RegistrationsFinal` | `[]OkMeansInstalled` |
| `PhasedNeverBlocks` | `[]NoDeadlock`, if setup comes before traffic |

Under the discipline nobody writes while somebody sends (`Apart`), so every read
lock is free to be taken again, and a writer meets no reader.

`TimerProofs`, for any contexts, tasks and timeouts: `CancelReaches`
(`[]CancelledExactlyBelow`) and `ReportsAreTrue` (`[]ResultsAreTrue`). The
invariant `CtxInv` adds that chains
of parents are closed upwards (`Trees`), so that cancelling the live descendants
reaches every later child too, and what a call under way looks like (`Calls`).

For the schedules and the waiting fixtures, for any numbers of callers, fires,
threads and calls, any period, lateness, budget and pool, it proves:

| Theorem | States |
| --- | --- |
| `TimersTypeCorrect` | `[]TimersTypeOK` |
| `ScheduleKept` | `KeepsSchedule` |
| `NoFireIsLost` | `[]NoFireLost` |
| `JoinBounded` | `[]JoinIsBounded` |
| `VerdictsTrue` | `[]VerdictsAreTrue` |

They rest on `TimersInvariant`, one inductive invariant per component.
`IntervalInv` says that the deadline lies on the grid of the period, at most one
period ahead and at most `MaxLate` behind, and that the queue has nobody twice.
`ManualInv` counts: every fire is a tick, a pending notification, the permit or a
merged fire, and nobody queues while the permit is there. `JoinInv` says that
every handle before the one at hand has ended well, that what was received is
what the thread did (`ThreadsInv`), that what was waited and what may still be
waited fit the budget (`BudgetInv`), and that only the handle at hand has a
helper that is not done (`HelpersInv`). `WaitInv` ties a verdict to the check or the
deadline it came from.

`SupportProofs` also proves of the values, for arrays of any size:

| Theorem | States |
| --- | --- |
| `PrefixIsRight` | `[]PrefixDecidesLevel` |
| `SplitIsRight` | `[]SplitAtFirstDifference` |
| `CompareIsRight` | `[]ComparesLexicographically` |
| `TextsAreNumbers` | `[]TextsDenoteNumbers`, for texts of any length |
| `PrintedIsTrue` | `[]ShowsTheDifference` |
| `NeighborsAlwaysSurround` | `[]NeighborsSurround`, for chains of any length |

The first three have the invariants of the loops: what was passed agrees, and the
count is the number of bits passed, so the bit at that count is the first that
differs, which is where `decompose_at_bit` splits.

`TextsAreNumbers` is what lets the protocol modules use naturals for identifiers.
The number of a text is a recursive function over its digits (`ValueLoop` shows
that it has a value at every length). Padding and decoding keep that number:
after every byte, the digits and the bytes passed count the same
(`NumberOfText`). Two arrays compare as their numbers because from the first
byte that differs the numbers differ, and stay in that order (`OrderOfNumbers`).
Both inductions go by the least position at which they would fail.

`PrintedIsTrue` says the same of shortened texts. Digits that agree count the
same (`AgreeingTexts`), so the numbers of the two texts differ by the last byte
printed only (`PrintedOrder`).

`NeighborsAlwaysSurround` needs beside the property that a chain begins at the
node (`ChainsInv`). A generator changes one byte, the last that is not full or the
first that is not zero, which exists unless the identifier is an extreme
(`FirstAndLast`).

The assumptions are those of the modules: identifiers are naturals, `None` is no
node, there is at least one level, the members are nodes, start levels are
naturals, the initial network is wired, and the tables of a client search are
ordered and complete at level 0. `SequentialProofs` also assumes that the nodes
are finitely many and that the initial level-0 slots are the sorted list of the
members (`ListAssumption`); TLC evaluates both in every run of `MCJoin`. The
tables of the fixtures assume that there is a least and a greatest identifier
(`ExtremesAssumption`), the generators that the random source yields arrays of
bytes.
For the timers, the period is positive, and lateness, budgets, times and the
numbers of handles and fires are naturals.

Every safety property that a passing run checks is proved. Only model-checked is
liveness, which is out of the prover's reach: `LoneJoinSucceeds`,
`EveryCallEnds`, `EverySearchEnds`, `EveryCallReturns`, `UnusableDrains` and
`EveryWaitEnds`. Not proved either are the three properties of the violation
runs; `NoDeadlock`, violated in `mock_shared`, is proved for the phased network
only.

## Not modelled

- Stage 2 of the join and background repair: only the payload types `BuddyReq`
  and `CheckNeighborReq` exist, and `process_incoming_event` answers an error.
- `search_by_mem_vec`: its body is `todo!()`.
- `src/observability`: the metric traits are interfaces that nothing implements or
  calls outside tests, and `LevelBucket::from_level` is one stateless lookup,
  which a unit test covers at the boundaries of every bucket.
- `Address`, `Debug` and `Display` output other than that of identifiers and
  their comparison, tracing spans and the wording of errors: nothing decides on
  them.
- In the fixtures, the sources of random ports, addresses and vectors,
  `span_fixture`, `make_core` and `poll_until_some`. The generators of
  `IdentifierFixtures` panic at the end of the range, which is modelled; that two
  independent random draws of 32 bytes never coincide is assumed.
- Client searches while nodes join. `SharedTable` has the writes between the
  reads of one node, `Join` the searches of joining nodes under concurrent joins;
  a client search that is relayed through changing tables would ask the same of
  both.

-------------------------------- MODULE Join --------------------------------
(***************************************************************************)
(* Joining a skip graph: BaseNode::get_max_level (phase 0) and             *)
(* BaseNode::join_stage1_link_level0 (stage 1) of src/node/base_node.rs,   *)
(* run by any number of joining nodes at once, and the eight event         *)
(* handlers of every node, joined or joining.                              *)
(*                                                                         *)
(* A call is an async task that issues a request, parks a waiter in its    *)
(* node's request_id_map and awaits the oneshot channel of that waiter     *)
(* under a timeout.  A handler that receives the reply moves it from the   *)
(* network to the channel (`replies`); the task resumes later.  Messages   *)
(* are delayed and reordered at will, and one that is never delivered is a *)
(* lost one.                                                               *)
(***************************************************************************)
EXTENDS NodeCore

CONSTANTS
    Member,       \* the nodes that are in the network from the start
    InitTable,    \* their lookup tables; a joining node's is empty
    StartLevels,  \* search levels a caller may pass without asking first
    MaxAttempts   \* bound on the stage-1 calls one node makes

ASSUME MemberAssumption    == Member \subseteq Node
ASSUME InitTableAssumption == Wired(InitTable)
ASSUME BoundsAssumption    == StartLevels \subseteq Nat /\ MaxAttempts \in Nat

VARIABLES
    table,        \* table[n]: the lookup table of n
    msgs,         \* events in flight
    waiters,      \* waiters[n]: the entries of n's request_id_map
    replies,      \* replies[n]: replies sent into a oneshot, not yet consumed
    call,         \* call[n]: the join task of n
    issued        \* issued[n]: how many nonces n has drawn

vars == <<table, msgs, waiters, replies, call, issued>>

Nonce == Node \X Nat

IdSearchReq == [type : {"SearchByIdRequest"}, dest : Node, nonce : Nonce,
                target : Node, origin : Node, level : Nat, direction : Direction]
IdSearchRes == [type : {"SearchByIdResponse"}, dest : Node, nonce : Nonce,
                target : Node, termination_level : Nat, result : Node]
MaxLevelReq == [type : {"GetMaxLevelOp"}, dest : Node, nonce : Nonce, origin : Node]
MaxLevelRes == [type : {"RetMaxLevelOp"}, dest : Node, nonce : Nonce, max_level : Nat]
NeighborReq == [type : {"GetNeighborOp"}, dest : Node, nonce : Nonce,
                origin : Node, level : Level, direction : Direction]
NeighborRes == [type : {"RetNeighborOp"}, dest : Node, nonce : Nonce,
                level : Level, direction : Direction, neighbor : Entry]
LinkReq == [type : {"GetLinkOp"}, dest : Node, nonce : Nonce,
            candidate : Node, dir : Direction, level : Level]
LinkRes == [type : {"SetLinkOp"}, dest : Node, nonce : Nonce,
            dir : Direction, level : Level, linked : Entry]

Reply   == IdSearchRes \cup MaxLevelRes \cup NeighborRes \cup LinkRes
Request == IdSearchReq \cup MaxLevelReq \cup NeighborReq \cup LinkReq

(***************************************************************************)
(* A Waiter: the nonce it is keyed by, its variant and, for Waiter::Link,  *)
(* the slot the reply must name (level 0 and None in the other variants).  *)
(***************************************************************************)
Waiter == [nonce : Nonce, kind : {"AsyncSearch", "MaxLevel", "Neighbor", "Link"},
           level : Level, dir : Direction \cup {None}]

(***************************************************************************)
(* The join task: where it stands, its introducer and the search level it  *)
(* was given, the node its search resolved, the channels it awaits and     *)
(* whether one of its two link requests has failed.                        *)
(***************************************************************************)
Awaiting == {"maxlevel", "search", "neighbor", "link"}
Outcomes == {"ok", "err", "collision"}

Task == [pc : {"idle", "ready"} \cup Awaiting \cup Outcomes,
         introducer : Entry, level : Nat, anchor : Entry,
         rx : SUBSET Nonce, failed : BOOLEAN, attempts : Nat]

NewTask == [pc |-> "idle", introducer |-> None, level |-> 0, anchor |-> None,
            rx |-> {}, failed |-> FALSE, attempts |-> 0]

Joined == Member \cup {u \in Node : call[u].pc = "ok"}

(***************************************************************************)
(* assert_doubly_linked_at_level: ids, in ascending order, hold each other *)
(* as immediate neighbours, and the two ends hold nothing outward.         *)
(***************************************************************************)
DoublyLinkedAtLevel(ids, tables, level) ==
    \A i \in 1..Len(ids) :
        /\ GetEntry(tables[ids[i]], level, "Left") = IF i = 1 THEN None ELSE ids[i - 1]
        /\ GetEntry(tables[ids[i]], level, "Right") = IF i = Len(ids) THEN None ELSE ids[i + 1]

(***************************************************************************)
(* The search runs from the introducer towards the joining node.           *)
(***************************************************************************)
SearchDirection(u) == IF call[u].introducer < u THEN "Right" ELSE "Left"

Init ==
    /\ table = InitTable
    /\ msgs = {}
    /\ waiters = [n \in Node |-> {}]
    /\ replies = [n \in Node |-> {}]
    /\ call = [n \in Node |-> NewTask]
    /\ issued = [n \in Node |-> 0]

-----------------------------------------------------------------------------
(***************************************************************************)
(* Issuing requests.  A nonce is Nonce::random(), so never drawn twice;    *)
(* the waiter is inserted before the event is sent.                        *)
(***************************************************************************)
Fresh(u) == <<u, issued[u]>>
Fresh2(u) == <<u, issued[u] + 1>>

Issue(u, count, ws, ms) ==
    /\ issued' = [issued EXCEPT ![u] = @ + count]
    /\ waiters' = [waiters EXCEPT ![u] = @ \cup ws]
    /\ msgs' = msgs \cup ms

NewWaiter(nonce, kind) == [nonce |-> nonce, kind |-> kind, level |-> 0, dir |-> None]

LinkWaiter_SameSide(nonce, dir, level) ==    \* faulty: expects the request's slot
    [nonce |-> nonce, kind |-> "Link", level |-> level, dir |-> dir]

LinkWaiter(nonce, dir, level) ==
    [nonce |-> nonce, kind |-> "Link", level |-> level, dir |-> Opposite(dir)]

(***************************************************************************)
(* Phase 0, get_max_level(introducer).                                     *)
(***************************************************************************)
GetMaxLevel(u, i) ==
    /\ call[u].pc = "idle"
    /\ call' = [call EXCEPT ![u] = [@ EXCEPT !.pc = "maxlevel", !.introducer = i,
                                             !.rx = {Fresh(u)}]]
    /\ Issue(u, 1, {NewWaiter(Fresh(u), "MaxLevel")},
             {[type |-> "GetMaxLevelOp", dest |-> i, nonce |-> Fresh(u), origin |-> u]})
    /\ UNCHANGED <<table, replies>>

(***************************************************************************)
(* join_stage1_link_level0(introducer, max_level), up to its first await.  *)
(* max_level is the introducer's answer in phase 0, or the caller's choice *)
(* when phase 0 was skipped or the call is made again after an error.      *)
(***************************************************************************)
JoinStage1(u, i, level) ==
    /\ call[u].attempts < MaxAttempts
    /\ \/ call[u].pc = "ready" /\ i = call[u].introducer /\ level = call[u].level
       \/ call[u].pc \in {"idle", "err", "collision"} /\ level \in StartLevels
    /\ \/ /\ i = u
          /\ call' = [call EXCEPT ![u] = [@ EXCEPT !.pc = "err",
                                                   !.attempts = call[u].attempts + 1]]
          /\ UNCHANGED <<issued, waiters, msgs>>
       \/ /\ i # u
          /\ call' = [call EXCEPT ![u] =
                [@ EXCEPT !.pc = "search", !.introducer = i, !.level = level,
                          !.anchor = None, !.rx = {Fresh(u)}, !.failed = FALSE,
                          !.attempts = call[u].attempts + 1]]
          /\ Issue(u, 1, {NewWaiter(Fresh(u), "AsyncSearch")},
                   {[type |-> "SearchByIdRequest", dest |-> i, nonce |-> Fresh(u),
                     target |-> u, origin |-> u, level |-> level,
                     direction |-> IF i < u THEN "Right" ELSE "Left"]})
    /\ UNCHANGED <<table, replies>>

-----------------------------------------------------------------------------
(***************************************************************************)
(* The task of u resumes with a reply its oneshot channel holds.           *)
(***************************************************************************)
Consume(u, r) == replies' = [replies EXCEPT ![u] = @ \ {r}]

ResumeMaxLevel(u, r) ==
    /\ call[u].pc = "maxlevel" /\ r.nonce \in call[u].rx
    /\ Consume(u, r)
    /\ call' = [call EXCEPT ![u] = [@ EXCEPT !.pc = "ready", !.level = r.max_level,
                                             !.rx = {}]]
    /\ UNCHANGED <<table, msgs, waiters, issued>>

ResumeSearch(u, r) ==
    /\ call[u].pc = "search" /\ r.nonce \in call[u].rx
    /\ Consume(u, r)
    /\ \/ /\ r.result = u
          /\ call' = [call EXCEPT ![u] = [@ EXCEPT !.pc = "collision", !.rx = {}]]
          /\ UNCHANGED <<issued, waiters, msgs>>
       \/ /\ r.result # u
          /\ call' = [call EXCEPT ![u] = [@ EXCEPT !.pc = "neighbor",
                                !.anchor = r.result, !.rx = {Fresh(u)}]]
          /\ Issue(u, 1, {NewWaiter(Fresh(u), "Neighbor")},
                   {[type |-> "GetNeighborOp", dest |-> r.result, nonce |-> Fresh(u),
                     origin |-> u, level |-> 0, direction |-> SearchDirection(u)]})
    /\ UNCHANGED table

(***************************************************************************)
(* Faulty: only the anchor is asked; the neighbour is not.                 *)
(***************************************************************************)
ResumeNeighbor_OneSide(u, r) ==
    LET sdir == SearchDirection(u)
    IN  /\ call[u].pc = "neighbor" /\ r.nonce \in call[u].rx
        /\ Consume(u, r)
        /\ call' = [call EXCEPT ![u] = [@ EXCEPT !.pc = "link", !.rx = {Fresh(u)}]]
        /\ Issue(u, 1, {LinkWaiter(Fresh(u), sdir, 0)},
                 {GetLinkOp(call[u].anchor, Fresh(u), u, sdir, 0)})
        /\ UNCHANGED table

(***************************************************************************)
(* The anchor is always asked for a link; its neighbour on the far side of *)
(* u, if it named one, is asked for the opposite slot at the same time.    *)
(***************************************************************************)
ResumeNeighbor(u, r) ==
    LET sdir == SearchDirection(u)
        qdir == Opposite(sdir)
        searchLink == GetLinkOp(call[u].anchor, Fresh(u), u, sdir, 0)
    IN  /\ call[u].pc = "neighbor" /\ r.nonce \in call[u].rx
        /\ Consume(u, r)
        /\ \/ /\ r.neighbor = None
              /\ call' = [call EXCEPT ![u] = [@ EXCEPT !.pc = "link", !.rx = {Fresh(u)}]]
              /\ Issue(u, 1, {LinkWaiter(Fresh(u), sdir, 0)}, {searchLink})
           \/ /\ r.neighbor # None
              /\ call' = [call EXCEPT ![u] = [@ EXCEPT !.pc = "link",
                                                       !.rx = {Fresh(u), Fresh2(u)}]]
              /\ Issue(u, 2, {LinkWaiter(Fresh(u), sdir, 0), LinkWaiter(Fresh2(u), qdir, 0)},
                       {searchLink, GetLinkOp(r.neighbor, Fresh2(u), u, qdir, 0)})
        /\ UNCHANGED table

(***************************************************************************)
(* Faulty: the first answer ends the call (select! for join!).             *)
(***************************************************************************)
EndLinkRequest_First(u, nonce, failed) ==
    call' = [call EXCEPT ![u] =
        [@ EXCEPT !.rx = {}, !.pc = IF failed THEN "err" ELSE "ok"]]

(***************************************************************************)
(* tokio::join! of the two link requests: the call ends when both have,    *)
(* with an error if either failed.                                         *)
(***************************************************************************)
EndLinkRequest(u, nonce, failed) ==
    call' = [call EXCEPT ![u] =
        [@ EXCEPT !.rx = call[u].rx \ {nonce}, !.failed = call[u].failed \/ failed,
                  !.pc = IF call[u].rx # {nonce} THEN "link"
                         ELSE IF call[u].failed \/ failed THEN "err" ELSE "ok"]]

ResumeLink(u, r) ==
    /\ call[u].pc = "link" /\ r.nonce \in call[u].rx
    /\ Consume(u, r)
    /\ EndLinkRequest(u, r.nonce, FALSE)
    /\ UNCHANGED <<table, msgs, waiters, issued>>

Resume(u) ==
    \E r \in replies[u] :
        ResumeMaxLevel(u, r) \/ ResumeSearch(u, r) \/ ResumeNeighbor(u, r) \/ ResumeLink(u, r)

(***************************************************************************)
(* Faulty: no WaiterGuard; no timeout around get_neighbor.                 *)
(***************************************************************************)
RemoveWaiters_Leak(u, nonces) == waiters' = waiters

FailRoundTrip_NeighborWaits(u, nonce) ==
    /\ nonce \in call[u].rx /\ call[u].pc = "search"
    /\ \A r \in replies[u] : r.nonce # nonce
    /\ waiters' = [waiters EXCEPT ![u] = {w \in @ : w.nonce # nonce}]
    /\ call' = [call EXCEPT ![u] = [@ EXCEPT !.pc = "err", !.rx = {}]]
    /\ UNCHANGED <<table, msgs, replies, issued>>

(***************************************************************************)
(* A round trip ends without a reply: the timeout fires (it never does     *)
(* once the channel holds the reply: the channel is polled first), or the  *)
(* send failed.  WaiterGuard::drop removes the waiter.  Only get_max_level *)
(* lets its caller go on.                                                  *)
(***************************************************************************)
RemoveWaiters(u, nonces) ==
    waiters' = [waiters EXCEPT ![u] = {w \in @ : w.nonce \notin nonces}]

FailRoundTrip(u, nonce) ==
    /\ nonce \in call[u].rx
    /\ \A r \in replies[u] : r.nonce # nonce
    /\ RemoveWaiters(u, {nonce})
    /\ \/ call[u].pc = "maxlevel"
          /\ call' = [call EXCEPT ![u] = [@ EXCEPT !.pc = "ready", !.rx = {}]]
       \/ call[u].pc \in {"search", "neighbor"}
          /\ call' = [call EXCEPT ![u] = [@ EXCEPT !.pc = "err", !.rx = {}]]
       \/ call[u].pc = "link" /\ EndLinkRequest(u, nonce, TRUE)
    /\ UNCHANGED <<table, msgs, replies, issued>>

(***************************************************************************)
(* The caller drops the future of a call in progress: every guard of it    *)
(* runs, and a reply left in a channel is lost with the channel.           *)
(***************************************************************************)
Cancel(u) ==
    /\ call[u].pc \in Awaiting
    /\ RemoveWaiters(u, call[u].rx)
    /\ replies' = [replies EXCEPT ![u] = {r \in @ : r.nonce \notin call[u].rx}]
    /\ call' = [call EXCEPT ![u] = [@ EXCEPT !.pc = "err", !.rx = {}]]
    /\ UNCHANGED <<table, msgs, issued>>

-----------------------------------------------------------------------------
(***************************************************************************)
(* The handlers of process_incoming_event, at the node m.dest.  A handler  *)
(* that answers or relays replaces the event by the one it sends.          *)
(***************************************************************************)
Replace(m, ms) == msgs' = (msgs \ {m}) \cup ms

HandleSearchByIdRequest_NoRelay(m) ==    \* faulty: answers with the next hop
    LET res == SearchById(m.dest, table[m.dest], m.target, m.level, m.direction)
    IN  /\ m.type = "SearchByIdRequest" /\ m.level < LookupTableLevels
        /\ Replace(m, {[type |-> "SearchByIdResponse", dest |-> m.origin,
                        nonce |-> m.nonce, target |-> m.target,
                        termination_level |-> res.termination_level,
                        result |-> res.result]})
        /\ UNCHANGED <<table, waiters, replies, call, issued>>

HandleSearchByIdRequest(m) ==
    LET self == m.dest
        res  == SearchById(self, table[self], m.target, m.level, m.direction)
    IN  /\ m.type = "SearchByIdRequest"
        /\ \/ /\ m.level >= LookupTableLevels     \* get_entry errs: no answer
              /\ Replace(m, {})
           \/ /\ m.level < LookupTableLevels
              /\ res.result = self
              /\ Replace(m, {[type |-> "SearchByIdResponse", dest |-> m.origin,
                              nonce |-> m.nonce, target |-> m.target,
                              termination_level |-> res.termination_level,
                              result |-> res.result]})
           \/ /\ m.level < LookupTableLevels
              /\ res.result # self
              /\ Replace(m, {[m EXCEPT !.dest = res.result,
                                       !.level = res.termination_level]})
        /\ UNCHANGED <<table, waiters, replies, call, issued>>

HandleGetMaxLevelRequest(m) ==
    /\ m.type = "GetMaxLevelOp"
    /\ Replace(m, {[type |-> "RetMaxLevelOp", dest |-> m.origin, nonce |-> m.nonce,
                    max_level |-> CoreMaxLevel(table[m.dest])]})
    /\ UNCHANGED <<table, waiters, replies, call, issued>>

HandleGetNeighborRequest(m) ==
    /\ m.type = "GetNeighborOp"
    /\ Replace(m, {[type |-> "RetNeighborOp", dest |-> m.origin, nonce |-> m.nonce,
                    level |-> m.level, direction |-> m.direction,
                    neighbor |-> GetEntry(table[m.dest], m.level, m.direction)]})
    /\ UNCHANGED <<table, waiters, replies, call, issued>>

HandleGetLinkRequest_NoWrite(m) ==    \* faulty: confirms without relinking its slot
    /\ m.type = "GetLinkOp" /\ GetLinkBelongs(m)
    /\ Replace(m, {SetLinkOp(m.candidate, m.nonce, Opposite(m.dir), m.level, m.dest)})
    /\ UNCHANGED <<table, waiters, replies, call, issued>>

HandleGetLinkRequest(m) ==
    /\ m.type = "GetLinkOp"
    /\ table' = [table EXCEPT ![m.dest] = GetLinkTable(@, m)]
    /\ Replace(m, GetLinkSends(table[m.dest], m))
    /\ UNCHANGED <<waiters, replies, call, issued>>

(***************************************************************************)
(* take_waiter, then tx.send: the waiter of this nonce is taken only if it *)
(* is of the expected variant and, for a link, of the slot m names.        *)
(***************************************************************************)
TakeWaiter(m, kind) ==
    {w \in waiters[m.dest] :
        /\ w.nonce = m.nonce /\ w.kind = kind
        /\ kind = "Link" => w.level = m.level /\ w.dir = m.dir}

Resolve(m, kind) ==
    LET taken == TakeWaiter(m, kind)
    IN  /\ Replace(m, {})
        /\ waiters' = [waiters EXCEPT ![m.dest] = @ \ taken]
        /\ replies' = [replies EXCEPT ![m.dest] = @ \cup (IF taken = {} THEN {} ELSE {m})]
        /\ UNCHANGED <<call, issued>>

HandleSearchByIdResponse(m) ==
    m.type = "SearchByIdResponse" /\ Resolve(m, "AsyncSearch") /\ UNCHANGED table

HandleRetMaxLevelResponse(m) ==
    m.type = "RetMaxLevelOp" /\ Resolve(m, "MaxLevel") /\ UNCHANGED table

HandleRetNeighborResponse(m) ==
    m.type = "RetNeighborOp" /\ Resolve(m, "Neighbor") /\ UNCHANGED table

HandleSetLinkResponse(m) ==
    /\ m.type = "SetLinkOp"
    /\ table' = [table EXCEPT ![m.dest] = SetLinkTable(@, m)]
    /\ Resolve(m, "Link")

ProcessIncomingEvent(m) ==
    \/ HandleSearchByIdRequest(m)
    \/ HandleSearchByIdResponse(m)
    \/ HandleGetMaxLevelRequest(m)
    \/ HandleRetMaxLevelResponse(m)
    \/ HandleGetNeighborRequest(m)
    \/ HandleRetNeighborResponse(m)
    \/ HandleGetLinkRequest(m)
    \/ HandleSetLinkResponse(m)

-----------------------------------------------------------------------------
StartCall(u) ==
    \/ \E i \in Joined : GetMaxLevel(u, i)
    \/ \E i \in Joined \cup {u} : \E level \in StartLevels \cup {call[u].level} :
          JoinStage1(u, i, level)

TimeOut(u) == \E nonce \in call[u].rx : FailRoundTrip(u, nonce)

Next ==
    \/ \E u \in Node \ Member : StartCall(u) \/ Resume(u) \/ TimeOut(u) \/ Cancel(u)
    \/ \E m \in msgs : ProcessIncomingEvent(m)

Spec == Init /\ [][Next]_vars

(***************************************************************************)
(* tokio fires every timer and polls every woken task; nothing promises    *)
(* that a message arrives.                                                 *)
(***************************************************************************)
Fairness == \A u \in Node \ Member : WF_vars(TimeOut(u)) /\ WF_vars(Resume(u))

FairSpec == Spec /\ Fairness

-----------------------------------------------------------------------------
(***************************************************************************)
(* Every variable has its type.                                            *)
(***************************************************************************)
TypeOK ==
    /\ table \in [Node -> Table]
    /\ msgs \subseteq Request \cup Reply
    /\ waiters \in [Node -> SUBSET Waiter]
    /\ replies \in [Node -> SUBSET Reply]
    /\ call \in [Node -> Task]
    /\ issued \in [Node -> Nat]

(***************************************************************************)
(* The waiter map holds exactly the requests whose task still awaits an    *)
(* answer: a reply, a timeout or a cancellation removes the entry, so none *)
(* leaks and none is missing when the answer comes.                        *)
(***************************************************************************)
Nonces(S) == {x.nonce : x \in S}

WaitersMatchAwaited ==
    \A u \in Node :
        /\ Nonces(waiters[u]) \cup Nonces(replies[u]) = call[u].rx
        /\ Nonces(waiters[u]) \cap Nonces(replies[u]) = {}
        /\ call[u].rx # {} <=> call[u].pc \in Awaiting

(***************************************************************************)
(* send_search_by_id_req: "`dest` must not be past `target` in             *)
(* `direction` ... each relay hop preserves it".  The search request never *)
(* overshoots the joining node, and the node it resolves lies on the       *)
(* introducer's side, where its link request passes the receiver's check.  *)
(***************************************************************************)
SearchNeverOvershoots ==
    /\ \A m \in msgs : m.type = "SearchByIdRequest" =>
          ~Precedes(m.direction, m.target, m.dest)
    /\ \A u \in Node : call[u].anchor # None =>
          Precedes(SearchDirection(u), call[u].anchor, u)

(***************************************************************************)
(* send_link_request: "by the time this method's `await` resolves, that    *)
(* write has already happened".  When the reply of a link request is in    *)
(* its channel, the slot it names holds the node that accepted, or a       *)
(* closer one, and that node holds this one, or a closer one.              *)
(***************************************************************************)
LinkReplyIsApplied ==
    \A u \in Node : \A r \in replies[u] : r.type = "SetLinkOp" =>
        /\ AsCloseAs(table, u, r.dir, r.level, r.linked)
        /\ AsCloseAs(table, r.linked, Opposite(r.dir), r.level, u)

(***************************************************************************)
(* A stage-1 call that returned Ok left its node linked on the side of the *)
(* search: some node x between the anchor and u accepted it.  u's slot     *)
(* there holds x or a node closer to u, and x's slot u or a node closer    *)
(* to x, whatever other joins do meanwhile and afterwards.                 *)
(***************************************************************************)
OkMeansLinked ==
    \A u \in Node : call[u].pc = "ok" =>
        LET sdir == SearchDirection(u)
        IN  \E x \in Node :
              /\ ~Precedes(sdir, x, call[u].anchor) /\ Precedes(sdir, x, u)
              /\ AsCloseAs(table, u, Opposite(sdir), 0, x)
              /\ AsCloseAs(table, x, sdir, 0, u)

(***************************************************************************)
(* Every call ends, with a result or an error, even if no message is ever  *)
(* delivered: each of its round trips is bounded by a timeout.             *)
(***************************************************************************)
EveryCallEnds ==
    \A u \in Node \ Member : call[u].pc \in Awaiting ~> call[u].pc \notin Awaiting

(***************************************************************************)
(* concurrent-insert.md, 4.1: "No legitimate request is ever dropped."     *)
(* Every link request of this protocol is one a joining node makes.        *)
(***************************************************************************)
NoRequestDropped ==
    \A m \in msgs : m.type = "GetLinkOp" => GetLinkBelongs(m)

(***************************************************************************)
(* join_stage1_link_level0: "the search resolves a node whose id equals    *)
(* `self.id()`, so another node already holds this id".  Ids are unique    *)
(* here, so that error must never be returned.                             *)
(***************************************************************************)
CollisionMeansTaken == \A u \in Node : call[u].pc # "collision"
=============================================================================

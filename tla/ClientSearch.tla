---------------------------- MODULE ClientSearch ----------------------------
(***************************************************************************)
(* BaseNode::search_by_id and the messages it exchanges, on a network      *)
(* whose tables do not change: any node may have many searches under way,  *)
(* each under the nonce its caller chose, and requests, relays and answers *)
(* are delivered in any order or lost.                                     *)
(***************************************************************************)
EXTENDS NodeCore

CONSTANTS
    Tables,     \* the lookup tables the network may have
    Call,       \* invocations of search_by_id
    Nonce,      \* nonces callers choose
    WireLevel   \* levels callers ask for, out of range or not

(***************************************************************************)
(* The bottom list is complete; the levels above hold some shortcuts.      *)
(***************************************************************************)
BottomComplete(t) ==
    \A n, m \in Node, d \in Direction :
        Precedes(d, n, m) => t[n][d][0] # None /\ ~Precedes(d, m, t[n][d][0])

ASSUME ClientAssumption ==
    /\ \A t \in Tables : t \in [Node -> Table] /\ Ordered(t) /\ BottomComplete(t)
    /\ WireLevel \subseteq Nat /\ None \notin Call /\ Node # {} /\ Nonce # {}

VARIABLES
    lt,         \* lt[n]: the table of n
    waiters,    \* waiters[n][x]: the call whose waiter n parks under nonce x, or None
    call,       \* call[c]: the invocation c
    msgs        \* requests and responses in flight

vars == <<lt, waiters, call, msgs>>

Answer == [result : Node, termination_level : Nat, target : Node]

(***************************************************************************)
(* chan is the oneshot channel: open, its sender dropped, or used.         *)
(***************************************************************************)
Invocation == [pc : {"new", "waiting", "ok", "err"},
               node : Node, nonce : Nonce, target : Node, dir : Direction,
               chan : {"open", "dropped", "sent"}, res : Answer]

IdSearchReq == [type : {"SearchByIdRequest"}, dest : Node, nonce : Nonce, target : Node,
                origin : Node, level : Nat, dir : Direction]

IdSearchRes == [type : {"SearchByIdResponse"}, dest : Node, nonce : Nonce, res : Answer]

NewCall(n, x, target, d, pc, res) ==
    [pc |-> pc, node |-> n, nonce |-> x, target |-> target, dir |-> d,
     chan |-> "open", res |-> res]

Init ==
    /\ lt \in Tables
    /\ waiters = [n \in Node |-> [x \in Nonce |-> None]]
    /\ msgs = {}
    /\ LET n == CHOOSE n \in Node : TRUE
           x == CHOOSE x \in Nonce : TRUE
       IN  call = [c \in Call |-> NewCall(n, x, n, "Left", "new",
                                  [result |-> n, termination_level |-> 0, target |-> n])]

-----------------------------------------------------------------------------
Search(n, target, level, d) == SearchById(n, lt[n], target, level, d)

AnswerOf(found, target) ==
    [result |-> found.result, termination_level |-> found.termination_level, target |-> target]

(***************************************************************************)
(* The calls after c's entry, and with it the sender, has been dropped.    *)
(***************************************************************************)
DropSender(calls, c) ==
    IF c # None /\ calls[c].chan = "open" THEN [calls EXCEPT ![c].chan = "dropped"] ELSE calls

(***************************************************************************)
(* search_by_id up to its await.  The local search may fail, or end the    *)
(* call at once; otherwise a waiter is parked under the caller's nonce,    *)
(* whatever the map holds there, and the request is sent to the best       *)
(* neighbour.  A send that fails ends the call, and the guard removes the  *)
(* waiter.                                                                 *)
(***************************************************************************)
Fails(c, n, x, target, d, level) ==
    /\ level \notin Level
    /\ call' = [call EXCEPT ![c] = NewCall(n, x, target, d, "err", call[c].res)]
    /\ UNCHANGED <<lt, waiters, msgs>>

EndsLocally(c, n, x, target, d, level) ==
    /\ level \in Level
    /\ Search(n, target, level, d).result = n
    /\ call' = [call EXCEPT ![c] = NewCall(n, x, target, d, "ok",
                                           AnswerOf(Search(n, target, level, d), target))]
    /\ UNCHANGED <<lt, waiters, msgs>>

SendsRequest(c, n, x, target, d, level) ==
    LET found == Search(n, target, level, d)
        evict == DropSender(call, waiters[n][x])
    IN  /\ level \in Level
        /\ found.result # n
        /\ UNCHANGED lt
        /\ \/ /\ call' = [evict EXCEPT ![c] = NewCall(n, x, target, d, "waiting", call[c].res)]
              /\ waiters' = [waiters EXCEPT ![n][x] = c]
              /\ msgs' = msgs \cup {[type |-> "SearchByIdRequest", dest |-> found.result, nonce |-> x,
                                     target |-> target, origin |-> n,
                                     level |-> found.termination_level, dir |-> d]}
           \/ /\ call' = [evict EXCEPT ![c] = NewCall(n, x, target, d, "err", call[c].res)]
              /\ waiters' = [waiters EXCEPT ![n][x] = None]
              /\ UNCHANGED msgs

SearchByIdCall(c, n, x, target, d, level) ==
    /\ call[c].pc = "new"
    /\ \/ Fails(c, n, x, target, d, level)
       \/ EndsLocally(c, n, x, target, d, level)
       \/ SendsRequest(c, n, x, target, d, level)

(***************************************************************************)
(* Faulty guard: it forgets to remove the entry.                           *)
(***************************************************************************)
End_Leaks(c, pc) ==
    /\ call' = [call EXCEPT ![c].pc = pc]
    /\ UNCHANGED waiters

(***************************************************************************)
(* The call ends: its guard removes what the map holds under its nonce,    *)
(* be it another call's waiter, whose sender goes with it.                 *)
(***************************************************************************)
End(c, pc) ==
    LET n == call[c].node
        x == call[c].nonce
    IN  /\ call' = [DropSender(call, waiters[n][x]) EXCEPT ![c].pc = pc]
        /\ waiters' = [waiters EXCEPT ![n][x] = None]

(***************************************************************************)
(* The await is over: an answer, a dropped sender, the timeout, or the     *)
(* caller drops the future.                                                *)
(***************************************************************************)
Resume(c) ==
    /\ call[c].pc = "waiting" /\ call[c].chan # "open"
    /\ End(c, IF call[c].chan = "sent" THEN "ok" ELSE "err")
    /\ UNCHANGED <<lt, msgs>>

(***************************************************************************)
(* Faulty await: no timer is armed, only a dropped sender ends it early.   *)
(***************************************************************************)
TimeOut_Unarmed(c) ==
    /\ call[c].pc = "waiting" /\ call[c].chan = "dropped"
    /\ End(c, "err")
    /\ UNCHANGED <<lt, msgs>>

TimeOut(c) ==
    /\ call[c].pc = "waiting" /\ call[c].chan = "open"
    /\ End(c, "err")
    /\ UNCHANGED <<lt, msgs>>

Cancel(c) ==
    /\ call[c].pc = "waiting"
    /\ End(c, "err")
    /\ UNCHANGED <<lt, msgs>>

-----------------------------------------------------------------------------
(***************************************************************************)
(* handle_search_by_id_request: answer, or relay at the level found.       *)
(***************************************************************************)
HandleSearchByIdRequest(m) ==
    LET found == Search(m.dest, m.target, m.level, m.dir)
    IN  /\ msgs' = (msgs \ {m}) \cup
               IF found.result = m.dest
               THEN {[type |-> "SearchByIdResponse", dest |-> m.origin, nonce |-> m.nonce,
                      res |-> AnswerOf(found, m.target)]}
               ELSE {[m EXCEPT !.dest = found.result, !.level = found.termination_level]}
        /\ UNCHANGED <<lt, waiters, call>>

(***************************************************************************)
(* Faulty correlation: any waiter of the node takes the answer.            *)
(***************************************************************************)
HandleSearchByIdResponse_AnyWaiter(m) ==
    /\ \E x \in Nonce :
          LET c == waiters[m.dest][x]
          IN  /\ c # None
              /\ call' = [call EXCEPT ![c].chan = "sent", ![c].res = m.res]
              /\ waiters' = [waiters EXCEPT ![m.dest][x] = None]
    /\ msgs' = msgs \ {m}
    /\ UNCHANGED lt

(***************************************************************************)
(* handle_search_by_id_response: the waiter under the nonce is taken, and  *)
(* its channel used; without one the answer is dropped.                    *)
(***************************************************************************)
HandleSearchByIdResponse(m) ==
    LET c == waiters[m.dest][m.nonce]
    IN  /\ msgs' = msgs \ {m}
        /\ call' = IF c = None THEN call
                   ELSE [call EXCEPT ![c].chan = "sent", ![c].res = m.res]
        /\ waiters' = [waiters EXCEPT ![m.dest][m.nonce] = None]
        /\ UNCHANGED lt

Deliver(m) ==
    \/ m.type = "SearchByIdRequest"  /\ HandleSearchByIdRequest(m)
    \/ m.type = "SearchByIdResponse" /\ HandleSearchByIdResponse(m)

Lose(m) ==
    /\ msgs' = msgs \ {m}
    /\ UNCHANGED <<lt, waiters, call>>

-----------------------------------------------------------------------------
Next ==
    \/ \E c \in Call, n, target \in Node, x \in Nonce, d \in Direction, level \in WireLevel :
          SearchByIdCall(c, n, x, target, d, level)
    \/ \E c \in Call : Resume(c) \/ TimeOut(c) \/ Cancel(c)
    \/ \E m \in msgs : Deliver(m) \/ Lose(m)

Spec == Init /\ [][Next]_vars

(***************************************************************************)
(* tokio polls a future whose channel or timer is ready.                   *)
(***************************************************************************)
Fairness == \A c \in Call : WF_vars(Resume(c) \/ TimeOut(c))

FairSpec == Spec /\ Fairness

-----------------------------------------------------------------------------
TypeOK ==
    /\ lt \in [Node -> Table]
    /\ waiters \in [Node -> [Nonce -> Call \cup {None}]]
    /\ call \in [Call -> Invocation]
    /\ msgs \subseteq IdSearchReq \cup IdSearchRes

(***************************************************************************)
(* r is where a search from n for target ends: n itself if it is past the  *)
(* target already, or else the last node that is not past it.              *)
(***************************************************************************)
IsNearest(r, n, target, d) ==
    IF Precedes(d, target, n) THEN r = n
    ELSE /\ ~Precedes(d, target, r)
         /\ \A m \in Node : Precedes(d, r, m) => Precedes(d, target, m)

(***************************************************************************)
(* No other search of c's node was made under c's nonce.                   *)
(***************************************************************************)
OwnNonce(c) ==
    \A b \in Call \ {c} :
        call[b].pc # "new" => call[b].node # call[c].node \/ call[b].nonce # call[c].nonce

(***************************************************************************)
(* Searches under nonces of their own get the answers to their own         *)
(* questions, and the right ones: whatever shortcuts the upper levels      *)
(* have, from whatever level it starts, a search ends at the node nearest  *)
(* to its target.                                                          *)
(***************************************************************************)
AnswerIsNearest ==
    \A c \in Call :
        LET k == call[c]
        IN  k.pc = "ok" /\ OwnNonce(c) => k.res.target = k.target /\ IsNearest(k.res.result, k.node, k.target, k.dir)

(***************************************************************************)
(* Even when nonces are reused, a waiter map holds exactly the calls that  *)
(* wait under the nonce and can still be answered: calls that end leave    *)
(* nothing behind, and a call whose waiter another one replaced or removed *)
(* knows that its sender is gone.                                          *)
(***************************************************************************)
WaitersMatchCalls ==
    \A n \in Node, x \in Nonce, c \in Call :
        waiters[n][x] = c <=> /\ call[c].pc = "waiting" /\ call[c].chan = "open"
                              /\ call[c].node = n /\ call[c].nonce = x

(***************************************************************************)
(* Every search ends, though messages are lost, nonces are reused and      *)
(* guards remove each other's waiters.                                     *)
(***************************************************************************)
EverySearchEnds == \A c \in Call : call[c].pc = "waiting" ~> call[c].pc \in {"ok", "err"}
=============================================================================

----------------------------- MODULE JoinProofs -----------------------------
(***************************************************************************)
(* Theorems about Join, for every network and any number of joining nodes. *)
(* In order: its types and its waiter map (JoinInv), and the path of a     *)
(* join, from the search request to a node that is linked at both ends     *)
(* (PathInv).                                                              *)
(***************************************************************************)
EXTENDS Join, NodeCoreProofs

(***************************************************************************)
(* The waiter a task parks and the reply it expects while it stands at pc. *)
(***************************************************************************)
AwaitedKind(pc) ==
    IF pc = "maxlevel" THEN "MaxLevel"
    ELSE IF pc = "search" THEN "AsyncSearch"
    ELSE IF pc = "neighbor" THEN "Neighbor"
    ELSE "Link"

AwaitedReply(pc) ==
    IF pc = "maxlevel" THEN "RetMaxLevelOp"
    ELSE IF pc = "search" THEN "SearchByIdResponse"
    ELSE IF pc = "neighbor" THEN "RetNeighborOp"
    ELSE "SetLinkOp"

(***************************************************************************)
(* One node's task t, waiter map ws, channels rs and nonce count fit       *)
(* together: every waiter and every reply is for a nonce the task awaits   *)
(* and of the kind it awaits, no nonce has two of them, every nonce was    *)
(* drawn, and only the link requests await two.                            *)
(***************************************************************************)
Consistent(u, t, ws, rs, drawn) ==
    /\ \A n \in t.rx : \E i \in Nat : n = <<u, i>> /\ i < drawn
    /\ t.rx # {} <=> t.pc \in Awaiting
    /\ t.pc \in Awaiting \ {"link"} => \E n \in Nonce : t.rx = {n}
    /\ t.pc \in {"neighbor", "link"} => t.anchor # None
    /\ \A w \in ws : w.nonce \in t.rx /\ w.kind = AwaitedKind(t.pc)
    /\ \A r \in rs : r.nonce \in t.rx /\ r.type = AwaitedReply(t.pc)
    /\ \A n \in t.rx : (\E w \in ws : w.nonce = n) \/ (\E r \in rs : r.nonce = n)
    /\ \A w \in ws : \A r \in rs : w.nonce # r.nonce
    /\ \A v, w \in ws : v.nonce = w.nonce => v = w
    /\ \A q, r \in rs : q.nonce = r.nonce => q = r

TasksConsistent ==
    \A u \in Node : Consistent(u, call[u], waiters[u], replies[u], issued[u])

JoinInv == TypeOK /\ TasksConsistent

-----------------------------------------------------------------------------
(***************************************************************************)
(* A step of u's task, or of a handler at u, leaves the other nodes alone. *)
(***************************************************************************)
OthersAlone(u) ==
    \A v \in Node \ {u} : /\ call'[v] = call[v]
                          /\ waiters'[v] = waiters[v]
                          /\ replies'[v] = replies[v]
                          /\ issued'[v] = issued[v]

(***************************************************************************)
(* A step of one node's task leaves every other task consistent with its   *)
(* waiter map, reply channels and nonces.                                  *)
(***************************************************************************)
LEMMA OnlyAt ==
    ASSUME TasksConsistent, NEW u \in Node, OthersAlone(u),
           Consistent(u, call'[u], waiters'[u], replies'[u], issued'[u])
    PROVE  TasksConsistent'
<1> SUFFICES ASSUME NEW v \in Node
             PROVE  Consistent(v, call'[v], waiters'[v], replies'[v], issued'[v])
  BY DEF TasksConsistent
<1>1. CASE v = u
  BY <1>1
<1>2. CASE v # u
  BY <1>2 DEF TasksConsistent, OthersAlone
<1>3. QED
  BY <1>1, <1>2

(***************************************************************************)
(* A task that awaits nothing has no waiter and no reply, and the other    *)
(* way round; one that has just sent a request has the waiter of it.       *)
(***************************************************************************)
LEMMA RestingTask ==
    ASSUME NEW u \in Node, NEW t, NEW ws, NEW rs, NEW drawn, t.pc \notin Awaiting
    PROVE  /\ Consistent(u, t, ws, rs, drawn) => ws = {} /\ rs = {} /\ t.rx = {}
           /\ t.rx = {} => Consistent(u, t, {}, {}, drawn)
BY DEF Consistent, Awaiting

(***************************************************************************)
(* A task that has just sent one request awaits exactly the waiter it      *)
(* parked.                                                                 *)
(***************************************************************************)
LEMMA AskingTask ==
    ASSUME NEW u \in Node, NEW t, NEW w, NEW drawn \in Nat,
           t.rx = {<<u, drawn>>}, w.nonce = <<u, drawn>>, w.kind = AwaitedKind(t.pc),
           t.pc \in Awaiting, t.pc \in {"neighbor", "link"} => t.anchor # None
    PROVE  Consistent(u, t, {w}, {}, drawn + 1)
<1>1. <<u, drawn>> \in Nonce
  BY DEF Nonce
<1>2. QED
  BY <1>1 DEF Consistent, Awaiting

(***************************************************************************)
(* The same for the two link requests stage 1 sends at once.               *)
(***************************************************************************)
LEMMA AskingTwice ==
    ASSUME NEW u \in Node, NEW t, NEW v, NEW w, NEW drawn \in Nat,
           t.rx = {<<u, drawn>>, <<u, drawn + 1>>},
           v.nonce = <<u, drawn>>, w.nonce = <<u, drawn + 1>>,
           v.kind = "Link", w.kind = "Link", t.pc = "link", t.anchor # None
    PROVE  Consistent(u, t, {v, w}, {}, drawn + 2)
<1>1. <<u, drawn>> # <<u, drawn + 1>>
  OBVIOUS
<1>2. \A n \in t.rx : \E i \in Nat : n = <<u, i>> /\ i < drawn + 2
  OBVIOUS
<1>3. AwaitedKind(t.pc) = "Link" /\ t.pc \in Awaiting
  BY DEF AwaitedKind, Awaiting
<1>4. QED
  BY <1>1, <1>2, <1>3 DEF Consistent

(***************************************************************************)
(* A task that awaits one reply and has it has no waiter left.             *)
(***************************************************************************)
LEMMA AnsweredTask ==
    ASSUME NEW u \in Node, NEW t, NEW ws, NEW rs, NEW drawn, NEW r \in rs,
           Consistent(u, t, ws, rs, drawn), t.pc \in Awaiting \ {"link"}
    PROVE  ws = {} /\ rs = {r}
BY DEF Consistent, Awaiting

-----------------------------------------------------------------------------
(***************************************************************************)
(* The steps of a join task: u's task becomes t, and it sends one request  *)
(* m and parks the waiter w, or it stops awaiting.                         *)
(***************************************************************************)
LEMMA AskStep ==
    ASSUME JoinInv, NEW u \in Node, NEW t \in Task, NEW w \in Waiter, NEW m \in Request,
           t.rx = {Fresh(u)}, t.pc \in Awaiting,
           t.pc \in {"neighbor", "link"} => t.anchor # None,
           w.nonce = Fresh(u), w.kind = AwaitedKind(t.pc),
           waiters[u] = {}, replies'[u] = {},
           call' = [call EXCEPT ![u] = t], Issue(u, 1, {w}, {m}),
           replies' = [replies EXCEPT ![u] = {}], table' = table
    PROVE  JoinInv'
<1>1. TypeOK /\ TasksConsistent
  BY DEF JoinInv
<1>2. /\ issued' = [issued EXCEPT ![u] = @ + 1]
      /\ waiters' = [waiters EXCEPT ![u] = @ \cup {w}]
      /\ msgs' = msgs \cup {m}
  BY DEF Issue
<1>3. TypeOK'
  BY <1>1, <1>2 DEF TypeOK
<1>4. Consistent(u, t, {w}, {}, issued[u] + 1)
  BY <1>1, AskingTask DEF TypeOK, Fresh
<1>5. /\ call'[u] = t /\ waiters'[u] = {w}
      /\ replies'[u] = {} /\ issued'[u] = issued[u] + 1
  BY <1>1, <1>2 DEF TypeOK
<1>6. OthersAlone(u)
  BY <1>1, <1>2 DEF OthersAlone, TypeOK
<1>7. QED
  BY Zenon, <1>1, <1>3, <1>4, <1>5, <1>6, OnlyAt DEF JoinInv

(***************************************************************************)
(* A call that ends with nothing awaited and an empty waiter map preserves *)
(* the invariant.                                                          *)
(***************************************************************************)
LEMMA StopStep ==
    ASSUME JoinInv, NEW u \in Node, NEW t \in Task, t.rx = {}, t.pc \notin Awaiting,
           call' = [call EXCEPT ![u] = t],
           waiters' = [waiters EXCEPT ![u] = {}], replies' = [replies EXCEPT ![u] = {}],
           msgs' = msgs, issued' = issued, table' = table
    PROVE  JoinInv'
<1>1. TypeOK /\ TasksConsistent
  BY DEF JoinInv
<1>2. TypeOK'
  BY <1>1 DEF TypeOK
<1>3. Consistent(u, t, {}, {}, issued[u])
  BY RestingTask
<1>4. call'[u] = t /\ waiters'[u] = {} /\ replies'[u] = {} /\ issued'[u] = issued[u]
  BY <1>1 DEF TypeOK
<1>5. OthersAlone(u)
  BY <1>1 DEF OthersAlone, TypeOK
<1>6. QED
  BY SMTT(30), Zenon, <1>1, <1>2, <1>3, <1>4, <1>5, OnlyAt DEF JoinInv

(***************************************************************************)
(* A fresh nonce is a nonce, and a waiter parked under it is keyed by it.  *)
(***************************************************************************)
LEMMA FreshFacts ==
    ASSUME TypeOK, NEW u \in Node
    PROVE  /\ issued[u] \in Nat /\ Fresh(u) \in Nonce /\ Fresh2(u) \in Nonce
           /\ \A kind \in {"AsyncSearch", "MaxLevel", "Neighbor"} :
                 /\ NewWaiter(Fresh(u), kind) \in Waiter
                 /\ NewWaiter(Fresh(u), kind).nonce = Fresh(u)
                 /\ NewWaiter(Fresh(u), kind).kind = kind
<1>1. issued[u] \in Nat /\ Fresh(u) \in Nonce /\ Fresh2(u) \in Nonce
  BY DEF TypeOK, Nonce, Fresh, Fresh2
<1>2. 0 \in Level
  BY LevelsAssumption DEF Level
<1>3. QED
  BY <1>1, <1>2 DEF NewWaiter, Waiter

(***************************************************************************)
(* get_max_level sends its request and parks its waiter.                   *)
(***************************************************************************)
LEMMA GetMaxLevelStep ==
    ASSUME JoinInv, NEW u \in Node, NEW i \in Node, GetMaxLevel(u, i)
    PROVE  JoinInv'
<1> DEFINE w == NewWaiter(Fresh(u), "MaxLevel")
           m == [type |-> "GetMaxLevelOp", dest |-> i, nonce |-> Fresh(u), origin |-> u]
           t == [call[u] EXCEPT !.pc = "maxlevel", !.introducer = i, !.rx = {Fresh(u)}]
<1>1. TypeOK /\ TasksConsistent
  BY DEF JoinInv
<1>2. waiters[u] = {} /\ replies[u] = {}
  BY <1>1, RestingTask DEF TasksConsistent, Awaiting, GetMaxLevel
<1>3. /\ t \in Task /\ t.rx = {Fresh(u)} /\ t.pc = "maxlevel"
  BY ZenonT(30), <1>1, FreshFacts DEF TypeOK, Task, Awaiting, Entry
<1>4. m \in Request
  BY <1>1, FreshFacts DEF Request, MaxLevelReq
<1>5. /\ call' = [call EXCEPT ![u] = t] /\ Issue(u, 1, {w}, {m})
      /\ replies' = [replies EXCEPT ![u] = {}] /\ table' = table
  BY <1>1, <1>2 DEF GetMaxLevel, TypeOK
<1>6. replies'[u] = {} /\ w \in Waiter /\ w.nonce = Fresh(u) /\ w.kind = AwaitedKind(t.pc)
  BY <1>1, <1>3, <1>5, FreshFacts DEF AwaitedKind, TypeOK
<1>7. QED
  <2> HIDE DEF t, w, m
  <2> QED
    BY Zenon, <1>2, <1>3, <1>4, <1>5, <1>6, AskStep DEF Awaiting

(***************************************************************************)
(* The start of join_stage1_link_level0: the call is refused, or its       *)
(* search request is sent.                                                 *)
(***************************************************************************)
LEMMA JoinStage1Step ==
    ASSUME JoinInv, NEW u \in Node, NEW i \in Node, NEW level \in Nat,
           JoinStage1(u, i, level)
    PROVE  JoinInv'
<1> DEFINE w == NewWaiter(Fresh(u), "AsyncSearch")
           m == [type |-> "SearchByIdRequest", dest |-> i, nonce |-> Fresh(u),
                 target |-> u, origin |-> u, level |-> level,
                 direction |-> IF i < u THEN "Right" ELSE "Left"]
           more == call[u].attempts + 1
           r == [call[u] EXCEPT !.pc = "err", !.attempts = more]
           t == [call[u] EXCEPT !.pc = "search", !.introducer = i, !.level = level,
                                !.anchor = None, !.rx = {Fresh(u)}, !.failed = FALSE,
                                !.attempts = more]
<1>1. TypeOK /\ TasksConsistent
  BY DEF JoinInv
<1>2. waiters[u] = {} /\ replies[u] = {} /\ call[u].rx = {}
  BY <1>1, RestingTask DEF TasksConsistent, Awaiting, JoinStage1
<1>3. replies' = [replies EXCEPT ![u] = {}] /\ table' = table
  BY <1>1, <1>2 DEF JoinStage1, TypeOK
<1>0. call[u] \in Task /\ more \in Nat
  BY <1>1 DEF TypeOK, Task
<1>a. /\ i = u => call' = [call EXCEPT ![u] = r]
      /\ i # u => call' = [call EXCEPT ![u] = t]
  BY DEF JoinStage1
<1> HIDE DEF more
<1>4. CASE i = u
  <2>1. r \in Task /\ r.rx = {} /\ r.pc = "err"
    BY Zenon, <1>0, <1>2 DEF Task, Outcomes
  <2>2. /\ call' = [call EXCEPT ![u] = r]
        /\ waiters' = [waiters EXCEPT ![u] = {}] /\ msgs' = msgs /\ issued' = issued
    BY <1>1, <1>2, <1>4, <1>a DEF JoinStage1, TypeOK
  <2> HIDE DEF r
  <2>3. QED
    BY Zenon, <1>3, <2>1, <2>2, StopStep DEF Awaiting
<1>5. CASE i # u
  <2>1. t \in Task /\ t.rx = {Fresh(u)} /\ t.pc = "search"
    BY Zenon, <1>0, <1>1, FreshFacts DEF Task, Awaiting, Entry
  <2>2. m \in Request
    BY <1>1, FreshFacts DEF Request, IdSearchReq, Direction
  <2>3. call' = [call EXCEPT ![u] = t] /\ Issue(u, 1, {w}, {m})
    BY <1>5, <1>a DEF JoinStage1
  <2>4. /\ replies'[u] = {} /\ w \in Waiter /\ w.nonce = Fresh(u)
        /\ w.kind = AwaitedKind(t.pc)
    BY <1>1, <1>3, <2>1, FreshFacts DEF AwaitedKind, TypeOK
  <2> HIDE DEF t, w, m
  <2>5. QED
    BY Zenon, <1>2, <1>3, <2>1, <2>2, <2>3, <2>4, AskStep DEF Awaiting
<1>6. QED
  BY <1>4, <1>5

(***************************************************************************)
(* The reply a task consumes is the one its state expects.                 *)
(***************************************************************************)
LEMMA ReplyFacts ==
    ASSUME JoinInv, NEW u \in Node, NEW r \in replies[u]
    PROVE  /\ r \in Reply /\ r.nonce \in call[u].rx
           /\ call[u].pc = "maxlevel" => r.max_level \in Nat
           /\ call[u].pc = "search" => r.result \in Node
           /\ call[u].pc = "neighbor" => r.neighbor \in Entry
           /\ call[u].pc \in Awaiting \ {"link"} => waiters[u] = {} /\ replies[u] = {r}
<1>1. TypeOK /\ Consistent(u, call[u], waiters[u], replies[u], issued[u])
  BY DEF JoinInv, TasksConsistent
<1>2. r \in Reply /\ r.nonce \in call[u].rx /\ r.type = AwaitedReply(call[u].pc)
  BY <1>1 DEF TypeOK, Consistent
<1>3. /\ r.type = "RetMaxLevelOp" => r \in MaxLevelRes
      /\ r.type = "SearchByIdResponse" => r \in IdSearchRes
      /\ r.type = "RetNeighborOp" => r \in NeighborRes
  BY <1>2 DEF Reply, IdSearchRes, MaxLevelRes, NeighborRes, LinkRes
<1>4. call[u].pc \in Awaiting \ {"link"} => waiters[u] = {} /\ replies[u] = {r}
  BY <1>1, AnsweredTask
<1>5. QED
  BY <1>2, <1>3, <1>4 DEF AwaitedReply, MaxLevelRes, IdSearchRes, NeighborRes

(***************************************************************************)
(* get_max_level resumes with the introducer's answer.                     *)
(***************************************************************************)
LEMMA ResumeMaxLevelStep ==
    ASSUME JoinInv, NEW u \in Node, NEW r \in replies[u], ResumeMaxLevel(u, r)
    PROVE  JoinInv'
<1> DEFINE t == [call[u] EXCEPT !.pc = "ready", !.level = r.max_level, !.rx = {}]
<1>1. TypeOK
  BY DEF JoinInv
<1>2. r.max_level \in Nat /\ waiters[u] = {} /\ replies[u] = {r}
  BY ReplyFacts DEF ResumeMaxLevel, Awaiting
<1>3. t \in Task /\ t.rx = {} /\ t.pc = "ready"
  BY Zenon, <1>1, <1>2 DEF TypeOK, Task
<1>4. /\ call' = [call EXCEPT ![u] = t]
      /\ waiters' = [waiters EXCEPT ![u] = {}] /\ replies' = [replies EXCEPT ![u] = {}]
      /\ msgs' = msgs /\ issued' = issued /\ table' = table
  BY Zenon, <1>1, <1>2 DEF ResumeMaxLevel, Consume, TypeOK
<1> HIDE DEF t
<1>5. QED
  BY Zenon, <1>3, <1>4, StopStep DEF Awaiting

(***************************************************************************)
(* The search goes left or right.                                          *)
(***************************************************************************)
LEMMA SearchDirectionType ==
    ASSUME NEW u
    PROVE  SearchDirection(u) \in Direction
BY DEF SearchDirection, Direction

(***************************************************************************)
(* Stage 1 resumes with the search result: a collision, or the request for *)
(* the anchor's neighbour.                                                 *)
(***************************************************************************)
LEMMA ResumeSearchStep ==
    ASSUME JoinInv, NEW u \in Node, NEW r \in replies[u], ResumeSearch(u, r)
    PROVE  JoinInv'
<1> DEFINE w == NewWaiter(Fresh(u), "Neighbor")
           m == [type |-> "GetNeighborOp", dest |-> r.result, nonce |-> Fresh(u),
                 origin |-> u, level |-> 0, direction |-> SearchDirection(u)]
           s == [call[u] EXCEPT !.pc = "collision", !.rx = {}]
           t == [call[u] EXCEPT !.pc = "neighbor", !.anchor = r.result, !.rx = {Fresh(u)}]
<1>1. TypeOK
  BY DEF JoinInv
<1>2. r.result \in Node /\ waiters[u] = {} /\ replies[u] = {r}
  BY ReplyFacts DEF ResumeSearch, Awaiting
<1>3. replies' = [replies EXCEPT ![u] = {}] /\ table' = table
  BY Zenon, <1>1, <1>2 DEF ResumeSearch, Consume, TypeOK
<1>4. CASE r.result = u
  <2>1. s \in Task /\ s.rx = {} /\ s.pc = "collision"
    BY Zenon, <1>1 DEF TypeOK, Task, Outcomes
  <2>2. /\ call' = [call EXCEPT ![u] = s]
        /\ waiters' = [waiters EXCEPT ![u] = {}] /\ msgs' = msgs /\ issued' = issued
    BY <1>1, <1>2, <1>4 DEF ResumeSearch, TypeOK
  <2> HIDE DEF s
  <2>3. QED
    BY Zenon, <1>3, <2>1, <2>2, StopStep DEF Awaiting
<1>5. CASE r.result # u
  <2>1. t \in Task /\ t.rx = {Fresh(u)} /\ t.pc = "neighbor" /\ t.anchor # None
    <3>1. r.result \in Entry /\ r.result # None
      BY <1>2, NoneAssumption DEF Entry
    <3>2. call[u] \in Task /\ Fresh(u) \in Nonce
      BY <1>1, FreshFacts DEF TypeOK
    <3>3. QED
      BY Zenon, <3>1, <3>2 DEF Task, Awaiting
  <2>2. m \in Request
    BY <1>1, <1>2, FreshFacts, SearchDirectionType, LevelsAssumption
    DEF Request, NeighborReq, Level
  <2>3. call' = [call EXCEPT ![u] = t] /\ Issue(u, 1, {w}, {m})
    BY <1>5 DEF ResumeSearch
  <2>4. /\ replies'[u] = {} /\ w \in Waiter /\ w.nonce = Fresh(u)
        /\ w.kind = AwaitedKind(t.pc)
    BY <1>1, <1>3, <2>1, FreshFacts DEF AwaitedKind, TypeOK
  <2> HIDE DEF t, w, m
  <2>5. QED
    BY Zenon, <1>2, <1>3, <2>1, <2>2, <2>3, <2>4, AskStep DEF Awaiting
<1>6. QED
  BY <1>4, <1>5

(***************************************************************************)
(* What send_link_request sends and parks is a link request and a link     *)
(* waiter for the reply's slot.                                            *)
(***************************************************************************)
LEMMA LinkRequestFacts ==
    ASSUME NEW u \in Node, NEW nonce \in Nonce, NEW d \in Direction, NEW x \in Node
    PROVE  /\ GetLinkOp(x, nonce, u, d, 0) \in LinkReq
           /\ LinkWaiter(nonce, d, 0) \in Waiter
           /\ LinkWaiter(nonce, d, 0).nonce = nonce
           /\ LinkWaiter(nonce, d, 0).kind = "Link"
<1>1. 0 \in Level /\ Opposite(d) \in Direction
  BY LevelsAssumption, OppositeFacts DEF Level
<1>2. QED
  BY <1>1 DEF GetLinkOp, LinkReq, LinkWaiter, Waiter

(***************************************************************************)
(* send_link_request runs twice at once when the anchor named a neighbour. *)
(***************************************************************************)
LEMMA AskTwiceStep ==
    ASSUME JoinInv, NEW u \in Node, NEW t \in Task, NEW v \in Waiter, NEW w \in Waiter,
           NEW m \in Request, NEW q \in Request,
           t.rx = {Fresh(u), Fresh2(u)}, t.pc = "link", t.anchor # None,
           v.nonce = Fresh(u), w.nonce = Fresh2(u), v.kind = "Link", w.kind = "Link",
           waiters[u] = {}, replies'[u] = {},
           call' = [call EXCEPT ![u] = t], Issue(u, 2, {v, w}, {m, q}),
           replies' = [replies EXCEPT ![u] = {}], table' = table
    PROVE  JoinInv'
<1>1. TypeOK /\ TasksConsistent
  BY DEF JoinInv
<1>2. /\ issued' = [issued EXCEPT ![u] = @ + 2]
      /\ waiters' = [waiters EXCEPT ![u] = @ \cup {v, w}]
      /\ msgs' = msgs \cup {m, q}
  BY DEF Issue
<1>3. TypeOK'
  BY <1>1, <1>2 DEF TypeOK
<1>4. Consistent(u, t, {v, w}, {}, issued[u] + 2)
  BY Zenon, <1>1, AskingTwice DEF TypeOK, Fresh, Fresh2
<1>5. /\ call'[u] = t /\ waiters'[u] = {v, w}
      /\ replies'[u] = {} /\ issued'[u] = issued[u] + 2
  BY <1>1, <1>2 DEF TypeOK
<1>6. OthersAlone(u)
  BY <1>1, <1>2 DEF OthersAlone, TypeOK
<1>7. QED
  BY Zenon, <1>1, <1>3, <1>4, <1>5, <1>6, OnlyAt DEF JoinInv

(***************************************************************************)
(* Stage 1 resumes with the anchor's neighbour and sends one or two link   *)
(* requests.                                                               *)
(***************************************************************************)
LEMMA ResumeNeighborStep ==
    ASSUME JoinInv, NEW u \in Node, NEW r \in replies[u], ResumeNeighbor(u, r)
    PROVE  JoinInv'
<1> DEFINE sdir == SearchDirection(u)
           qdir == Opposite(sdir)
           v == LinkWaiter(Fresh(u), sdir, 0)
           w == LinkWaiter(Fresh2(u), qdir, 0)
           m == GetLinkOp(call[u].anchor, Fresh(u), u, sdir, 0)
           q == GetLinkOp(r.neighbor, Fresh2(u), u, qdir, 0)
           s == [call[u] EXCEPT !.pc = "link", !.rx = {Fresh(u)}]
           t == [call[u] EXCEPT !.pc = "link", !.rx = {Fresh(u), Fresh2(u)}]
<1>1. TypeOK /\ Consistent(u, call[u], waiters[u], replies[u], issued[u])
  BY DEF JoinInv, TasksConsistent
<1>2. r.neighbor \in Entry /\ waiters[u] = {} /\ replies[u] = {r}
  BY ReplyFacts DEF ResumeNeighbor, Awaiting
<1>3. replies' = [replies EXCEPT ![u] = {}] /\ replies'[u] = {} /\ table' = table
  BY Zenon, <1>1, <1>2 DEF ResumeNeighbor, Consume, TypeOK
<1>4. call[u] \in Task /\ call[u].anchor \in Node
  <2>1. call[u].pc = "neighbor"
    BY DEF ResumeNeighbor
  <2>2. QED
    BY <1>1, <2>1 DEF TypeOK, Consistent, Task, Entry
<1>5. sdir \in Direction /\ qdir \in Direction
  BY SearchDirectionType, OppositeFacts
<1>6. m \in Request /\ v \in Waiter /\ v.nonce = Fresh(u) /\ v.kind = "Link"
  <2> HIDE DEF sdir
  <2> QED
    BY <1>1, <1>4, <1>5, FreshFacts, LinkRequestFacts DEF Request
<1>7. CASE r.neighbor = None
  <2>1. s \in Task /\ s.rx = {Fresh(u)} /\ s.pc = "link" /\ s.anchor # None
    BY Zenon, <1>1, <1>4, FreshFacts, NoneAssumption DEF Task, Awaiting
  <2>2. call' = [call EXCEPT ![u] = s] /\ Issue(u, 1, {v}, {m})
    BY <1>7 DEF ResumeNeighbor
  <2>3. v.kind = AwaitedKind(s.pc)
    BY <1>6, <2>1 DEF AwaitedKind
  <2> HIDE DEF s, v, m
  <2>4. QED
    BY Zenon, <1>2, <1>3, <1>6, <2>1, <2>2, <2>3, AskStep DEF Awaiting
<1>8. CASE r.neighbor # None
  <2>1. /\ t \in Task /\ t.rx = {Fresh(u), Fresh2(u)}
        /\ t.pc = "link" /\ t.anchor # None
    BY Zenon, <1>1, <1>4, FreshFacts, NoneAssumption DEF Task, Awaiting
  <2>2. call' = [call EXCEPT ![u] = t] /\ Issue(u, 2, {v, w}, {m, q})
    BY <1>8 DEF ResumeNeighbor
  <2>3. q \in Request /\ w \in Waiter /\ w.nonce = Fresh2(u) /\ w.kind = "Link"
    <3>1. r.neighbor \in Node
      BY <1>2, <1>8 DEF Entry
    <3> HIDE DEF qdir
    <3>2. QED
      BY <1>1, <1>5, <3>1, FreshFacts, LinkRequestFacts DEF Request
  <2> HIDE DEF t, v, w, m, q
  <2>4. QED
    BY Zenon, <1>2, <1>3, <1>6, <2>1, <2>2, <2>3, AskTwiceStep
<1>9. QED
  BY <1>7, <1>8

(***************************************************************************)
(* One of the link requests ends, with its reply or without: the other one *)
(* keeps its waiter or its reply.                                          *)
(***************************************************************************)
LEMMA EndLinkStep ==
    ASSUME JoinInv, NEW u \in Node, NEW n \in call[u].rx, NEW failed \in BOOLEAN,
           call[u].pc = "link", EndLinkRequest(u, n, failed),
           waiters' = [waiters EXCEPT ![u] = {w \in @ : w.nonce # n}],
           replies' = [replies EXCEPT ![u] = {r \in @ : r.nonce # n}],
           msgs' = msgs, issued' = issued, table' = table
    PROVE  JoinInv'
<1> DEFINE pc == IF call[u].rx # {n} THEN "link"
                 ELSE IF call[u].failed \/ failed THEN "err" ELSE "ok"
           fails == call[u].failed \/ failed
           rx == call[u].rx \ {n}
           t == [call[u] EXCEPT !.rx = rx, !.failed = fails, !.pc = pc]
           ws == {w \in waiters[u] : w.nonce # n}
           rs == {r \in replies[u] : r.nonce # n}
<1>1. TypeOK /\ TasksConsistent
  BY DEF JoinInv
<1>2. call[u] \in Task /\ fails \in BOOLEAN /\ rx \subseteq Nonce
  BY <1>1 DEF TypeOK, Task
<1>3. /\ pc \in {"link"} \cup Outcomes
      /\ pc = "link" <=> rx # {}
  BY DEF Outcomes
<1>4. call' = [call EXCEPT ![u] = t]
  BY DEF EndLinkRequest
<1>5. t \in Task /\ t.rx = rx /\ t.pc = pc /\ t.anchor = call[u].anchor
  <2> HIDE DEF pc, fails, rx
  <2> QED
    BY Zenon, <1>2, <1>3 DEF Task, Awaiting
<1>6. Consistent(u, t, ws, rs, issued[u])
  <2>1. Consistent(u, call[u], waiters[u], replies[u], issued[u])
    BY <1>1 DEF TasksConsistent
  <2>2. pc \in Awaiting <=> pc = "link"
    BY <1>3 DEF Awaiting, Outcomes
  <2>3. rx # {} => AwaitedKind(pc) = "Link" /\ AwaitedReply(pc) = "SetLinkOp"
    BY <1>3 DEF AwaitedKind, AwaitedReply
  <2>4. AwaitedKind(call[u].pc) = "Link" /\ AwaitedReply(call[u].pc) = "SetLinkOp"
    BY DEF AwaitedKind, AwaitedReply
  <2> HIDE DEF t, pc
  <2>5. /\ \A w \in ws : w.nonce \in rx /\ w.kind = AwaitedKind(pc)
        /\ \A r \in rs : r.nonce \in rx /\ r.type = AwaitedReply(pc)
        /\ \A k \in rx : (\E w \in ws : w.nonce = k) \/ (\E r \in rs : r.nonce = k)
    BY <2>1, <2>3, <2>4 DEF Consistent
  <2>6. pc \notin {"neighbor"} /\ (pc = "link" => t.anchor # None)
    BY <1>3, <1>5, <2>1 DEF Consistent, Outcomes
  <2>7. QED
    BY <1>3, <1>5, <2>1, <2>2, <2>5, <2>6 DEF Consistent
<1> HIDE DEF t
<1>7. call'[u] = t /\ waiters'[u] = ws /\ replies'[u] = rs /\ issued'[u] = issued[u]
  BY <1>1, <1>4 DEF TypeOK
<1>8. TypeOK'
  BY <1>1, <1>4, <1>5 DEF TypeOK
<1>9. OthersAlone(u)
  BY <1>1, <1>4 DEF OthersAlone, TypeOK
<1>10. QED
  BY Zenon, <1>1, <1>6, <1>7, <1>8, <1>9, OnlyAt DEF JoinInv

(***************************************************************************)
(* Stage 1 resumes with the reply to one of its link requests.             *)
(***************************************************************************)
LEMMA ResumeLinkStep ==
    ASSUME JoinInv, NEW u \in Node, NEW r \in replies[u], ResumeLink(u, r)
    PROVE  JoinInv'
<1>1. TypeOK /\ Consistent(u, call[u], waiters[u], replies[u], issued[u])
  BY DEF JoinInv, TasksConsistent
<1>2. /\ waiters[u] = {w \in waiters[u] : w.nonce # r.nonce}
      /\ replies[u] \ {r} = {q \in replies[u] : q.nonce # r.nonce}
  BY <1>1 DEF Consistent
<1>3. /\ waiters' = [waiters EXCEPT ![u] = {w \in @ : w.nonce # r.nonce}]
      /\ replies' = [replies EXCEPT ![u] = {q \in @ : q.nonce # r.nonce}]
  BY Zenon, <1>1, <1>2 DEF ResumeLink, Consume, TypeOK
<1>4. /\ r.nonce \in call[u].rx /\ call[u].pc = "link"
      /\ EndLinkRequest(u, r.nonce, FALSE)
      /\ msgs' = msgs /\ issued' = issued /\ table' = table
  BY Zenon DEF ResumeLink
<1>5. QED
  BY Zenon, <1>3, <1>4, EndLinkStep

(***************************************************************************)
(* A round trip fails, by its timeout or in sending: its waiter is removed *)
(* by the guard.                                                           *)
(***************************************************************************)
LEMMA FailRoundTripStep ==
    ASSUME JoinInv, NEW u \in Node, NEW n \in call[u].rx, FailRoundTrip(u, n)
    PROVE  JoinInv'
<1> DEFINE t(pc) == [call[u] EXCEPT !.pc = pc, !.rx = {}]
<1>1. TypeOK /\ Consistent(u, call[u], waiters[u], replies[u], issued[u])
  BY DEF JoinInv, TasksConsistent
<1>2. /\ waiters' = [waiters EXCEPT ![u] = {w \in @ : w.nonce # n}]
      /\ replies' = replies /\ msgs' = msgs /\ issued' = issued /\ table' = table
      /\ \A r \in replies[u] : r.nonce # n
  BY DEF FailRoundTrip, RemoveWaiters
<1>3. CASE call[u].pc = "link"
  <2>1. replies' = [replies EXCEPT ![u] = {r \in @ : r.nonce # n}]
    BY <1>1, <1>2 DEF TypeOK
  <2>2. EndLinkRequest(u, n, TRUE)
    BY Zenon, <1>3 DEF FailRoundTrip
  <2>3. QED
    BY Zenon, <1>2, <1>3, <2>1, <2>2, EndLinkStep
<1>4. CASE call[u].pc # "link"
  <2>1. PICK pc \in {"ready", "err"} : call' = [call EXCEPT ![u] = t(pc)]
    BY Zenon, <1>4 DEF FailRoundTrip
  <2>2. t(pc) \in Task /\ t(pc).rx = {} /\ t(pc).pc \notin Awaiting
    BY Zenon, <1>1 DEF TypeOK, Task, Awaiting, Outcomes
  <2>3. call[u].rx = {n}
    BY <1>1, <1>4 DEF Consistent
  <2>4. {w \in waiters[u] : w.nonce # n} = {} /\ replies[u] = {}
    BY <1>1, <1>2, <2>3 DEF Consistent
  <2>5. /\ waiters' = [waiters EXCEPT ![u] = {}]
        /\ replies' = [replies EXCEPT ![u] = {}]
    BY Zenon, <1>1, <1>2, <2>4 DEF TypeOK
  <2> HIDE DEF t
  <2>6. QED
    BY Zenon, <1>2, <2>1, <2>2, <2>5, StopStep
<1>5. QED
  BY <1>3, <1>4

(***************************************************************************)
(* The future of the call is dropped: the guards remove every waiter it    *)
(* still has.                                                              *)
(***************************************************************************)
LEMMA CancelStep ==
    ASSUME JoinInv, NEW u \in Node, Cancel(u)
    PROVE  JoinInv'
<1> DEFINE t == [call[u] EXCEPT !.pc = "err", !.rx = {}]
<1>1. TypeOK /\ Consistent(u, call[u], waiters[u], replies[u], issued[u])
  BY DEF JoinInv, TasksConsistent
<1>2. /\ {w \in waiters[u] : w.nonce \notin call[u].rx} = {}
      /\ {r \in replies[u] : r.nonce \notin call[u].rx} = {}
  BY <1>1 DEF Consistent
<1>3. t \in Task /\ t.rx = {} /\ t.pc \notin Awaiting
  BY Zenon, <1>1 DEF TypeOK, Task, Awaiting, Outcomes
<1>4. /\ call' = [call EXCEPT ![u] = t]
      /\ waiters' = [waiters EXCEPT ![u] = {}] /\ replies' = [replies EXCEPT ![u] = {}]
      /\ msgs' = msgs /\ issued' = issued /\ table' = table
  BY Zenon, <1>1, <1>2 DEF Cancel, RemoveWaiters, TypeOK
<1> HIDE DEF t
<1>5. QED
  BY Zenon, <1>3, <1>4, StopStep

-----------------------------------------------------------------------------
(***************************************************************************)
(* The handlers.  Those of requests touch neither tasks nor waiters: they  *)
(* replace the event m by events of its type or answers to it.             *)
(***************************************************************************)
LEMMA MessageTypes ==
    ASSUME TypeOK, NEW m \in msgs
    PROVE  /\ m.dest \in Node /\ m.nonce \in Nonce
           /\ m.type = "SearchByIdRequest" => m \in IdSearchReq
           /\ m.type = "GetMaxLevelOp" => m \in MaxLevelReq
           /\ m.type = "GetNeighborOp" => m \in NeighborReq
           /\ m.type = "GetLinkOp" => m \in LinkReq
           /\ m.type = "SetLinkOp" => m \in LinkRes
           /\ m.type \in {"SearchByIdResponse", "RetMaxLevelOp",
                          "RetNeighborOp", "SetLinkOp"} => m \in Reply
<1>1. m \in Request \cup Reply
  BY DEF TypeOK
<1>2. QED
  BY <1>1 DEF Request, Reply, IdSearchReq, MaxLevelReq, NeighborReq, LinkReq,
              IdSearchRes, MaxLevelRes, NeighborRes, LinkRes

(***************************************************************************)
(* A handler that answers a request from the table alone touches no task,  *)
(* waiter or reply.                                                        *)
(***************************************************************************)
LEMMA ServeStep ==
    ASSUME JoinInv, NEW m \in msgs, NEW ms \in SUBSET (Request \cup Reply),
           Replace(m, ms), table' \in [Node -> Table],
           UNCHANGED <<waiters, replies, call, issued>>
    PROVE  JoinInv'
<1>1. TypeOK'
  BY DEF JoinInv, TypeOK, Replace
<1>2. TasksConsistent'
  BY DEF JoinInv, TasksConsistent
<1>3. QED
  BY <1>1, <1>2 DEF JoinInv

(***************************************************************************)
(* handle_search_by_id_request answers or relays.                          *)
(***************************************************************************)
LEMMA SearchByIdRequestStep ==
    ASSUME JoinInv, NEW m \in msgs, HandleSearchByIdRequest(m)
    PROVE  JoinInv'
<1> DEFINE res == SearchById(m.dest, table[m.dest], m.target, m.level, m.direction)
           answer == [type |-> "SearchByIdResponse", dest |-> m.origin,
                      nonce |-> m.nonce, target |-> m.target,
                      termination_level |-> res.termination_level,
                      result |-> res.result]
           relay == [m EXCEPT !.dest = res.result, !.level = res.termination_level]
<1>1. TypeOK /\ m \in IdSearchReq
  BY MessageTypes DEF JoinInv, HandleSearchByIdRequest
<1>2. table' \in [Node -> Table] /\ UNCHANGED <<waiters, replies, call, issued>>
  BY <1>1 DEF HandleSearchByIdRequest, TypeOK
<1>3. /\ m.dest \in Node /\ m.target \in Node /\ m.origin \in Node /\ m.nonce \in Nonce
      /\ m.level \in Nat /\ m.direction \in Direction /\ table[m.dest] \in Table
  BY <1>1 DEF IdSearchReq, TypeOK
<1>4. m.level < LookupTableLevels => m.level \in Level
  BY <1>3, LevelsAssumption DEF Level
<1>5. m.level < LookupTableLevels =>
          res.result \in Node /\ res.termination_level \in 0..m.level
  BY <1>3, <1>4, SearchByIdFacts
<1>6. m.level < LookupTableLevels => res.result \in Node /\ res.termination_level \in Nat
  BY <1>5
<1>7. \/ Replace(m, {})
      \/ m.level < LookupTableLevels /\ Replace(m, {answer})
      \/ m.level < LookupTableLevels /\ Replace(m, {relay})
  BY DEF HandleSearchByIdRequest
<1> HIDE DEF res
<1>8. m.level < LookupTableLevels => answer \in IdSearchRes /\ relay \in IdSearchReq
  BY Zenon, <1>1, <1>3, <1>6 DEF IdSearchReq, IdSearchRes
<1> HIDE DEF answer, relay
<1>9. PICK ms \in SUBSET (Request \cup Reply) : Replace(m, ms)
  BY <1>7, <1>8 DEF Request, Reply
<1>10. QED
  BY <1>2, <1>9, ServeStep

(***************************************************************************)
(* handle_get_max_level_request answers with the highest populated level.  *)
(***************************************************************************)
LEMMA GetMaxLevelRequestStep ==
    ASSUME JoinInv, NEW m \in msgs, HandleGetMaxLevelRequest(m)
    PROVE  JoinInv'
<1> DEFINE answer == [type |-> "RetMaxLevelOp", dest |-> m.origin, nonce |-> m.nonce,
                      max_level |-> CoreMaxLevel(table[m.dest])]
<1>1. TypeOK /\ m \in MaxLevelReq
  BY MessageTypes DEF JoinInv, HandleGetMaxLevelRequest
<1>2. CoreMaxLevel(table[m.dest]) \in Nat
  BY CoreMaxLevelType, LevelsAssumption DEF Level
<1>3. answer \in Reply
  BY <1>1, <1>2 DEF MaxLevelReq, MaxLevelRes, Reply
<1>4. Replace(m, {answer}) /\ table' = table /\ UNCHANGED <<waiters, replies, call, issued>>
  BY DEF HandleGetMaxLevelRequest
<1> HIDE DEF answer
<1>5. {answer} \in SUBSET (Request \cup Reply) /\ table' \in [Node -> Table]
  BY <1>1, <1>3, <1>4 DEF TypeOK
<1>6. QED
  BY <1>4, <1>5, ServeStep

(***************************************************************************)
(* handle_get_neighbor_request answers with the entry.                     *)
(***************************************************************************)
LEMMA GetNeighborRequestStep ==
    ASSUME JoinInv, NEW m \in msgs, HandleGetNeighborRequest(m)
    PROVE  JoinInv'
<1> DEFINE answer == [type |-> "RetNeighborOp", dest |-> m.origin, nonce |-> m.nonce,
                      level |-> m.level, direction |-> m.direction,
                      neighbor |-> GetEntry(table[m.dest], m.level, m.direction)]
<1>1. TypeOK /\ m \in NeighborReq
  BY MessageTypes DEF JoinInv, HandleGetNeighborRequest
<1>2. GetEntry(table[m.dest], m.level, m.direction) \in Entry
  BY <1>1 DEF TypeOK, NeighborReq, GetEntry, Table
<1>3. answer \in Reply
  BY <1>1, <1>2 DEF NeighborReq, NeighborRes, Reply
<1>4. Replace(m, {answer}) /\ table' = table /\ UNCHANGED <<waiters, replies, call, issued>>
  BY DEF HandleGetNeighborRequest
<1> HIDE DEF answer
<1>5. {answer} \in SUBSET (Request \cup Reply) /\ table' \in [Node -> Table]
  BY <1>1, <1>3, <1>4 DEF TypeOK
<1>6. QED
  BY <1>4, <1>5, ServeStep

(***************************************************************************)
(* handle_get_link_request drops, confirms or forwards.                    *)
(***************************************************************************)
LEMMA GetLinkRequestStep ==
    ASSUME JoinInv, NEW m \in msgs, HandleGetLinkRequest(m)
    PROVE  JoinInv'
<1> DEFINE lt == table[m.dest]
           ms == GetLinkSends(lt, m)
<1>1. TypeOK /\ m \in LinkReq
  BY MessageTypes DEF JoinInv, HandleGetLinkRequest
<1>2. /\ m.dest \in Node /\ m.candidate \in Node /\ m.dir \in Direction
      /\ m.level \in Level /\ m.nonce \in Nonce /\ lt \in Table
  BY <1>1 DEF LinkReq, TypeOK
<1>3. /\ Replace(m, ms) /\ UNCHANGED <<waiters, replies, call, issued>>
      /\ table' = [table EXCEPT ![m.dest] = GetLinkTable(lt, m)]
  BY <1>1, <1>2 DEF HandleGetLinkRequest, TypeOK
<1>4. GetLinkTable(lt, m) \in Table
  BY <1>2, TryRelinkFacts DEF GetLinkTable
<1>5. ms \in SUBSET (Request \cup Reply)
  <2>1. SetLinkOp(m.candidate, m.nonce, Opposite(m.dir), m.level, m.dest) \in LinkRes
    BY <1>2, OppositeFacts DEF SetLinkOp, LinkRes, Entry
  <2>2. LinkOutcome(lt, m.level, m.dir, m.candidate) # "LinkedDirectly" =>
            GetEntry(lt, m.level, m.dir) \in Node
    BY <1>2, TryRelinkFacts DEF GetEntry
  <2>3. LinkOutcome(lt, m.level, m.dir, m.candidate) # "LinkedDirectly" =>
            [m EXCEPT !.dest = GetEntry(lt, m.level, m.dir)] \in LinkReq
    BY <1>1, <2>2 DEF LinkReq
  <2>4. QED
    BY <2>1, <2>3 DEF GetLinkSends, Request, Reply
<1> HIDE DEF ms
<1>6. table' \in [Node -> Table]
  BY Zenon, <1>1, <1>3, <1>4 DEF TypeOK
<1>7. QED
  BY <1>3, <1>5, <1>6, ServeStep

(***************************************************************************)
(* A handler of a reply takes the one waiter of its nonce, if it is of the *)
(* right kind, and puts the reply where the task will find it.  A reply to *)
(* a request that timed out or was cancelled finds none.                   *)
(***************************************************************************)
LEMMA ResolveStep ==
    ASSUME JoinInv, NEW m \in msgs, NEW kind, m \in Reply,
           \A pc \in Awaiting : AwaitedKind(pc) = kind => AwaitedReply(pc) = m.type,
           Resolve(m, kind), table' \in [Node -> Table]
    PROVE  JoinInv'
<1> DEFINE u == m.dest
           taken == TakeWaiter(m, kind)
           rs == replies[u] \cup (IF taken = {} THEN {} ELSE {m})
<1>1. TypeOK /\ TasksConsistent /\ u \in Node
  BY MessageTypes DEF JoinInv
<1>2. /\ msgs' = msgs \ {m}
      /\ waiters' = [waiters EXCEPT ![u] = @ \ taken]
      /\ replies' = [replies EXCEPT ![u] = rs]
      /\ call' = call /\ issued' = issued
  BY <1>1 DEF Resolve, Replace, TypeOK
<1>3. rs \subseteq Reply
  BY <1>1 DEF TypeOK
<1>4. Consistent(u, call[u], waiters[u] \ taken, rs, issued[u])
  <2>1. Consistent(u, call[u], waiters[u], replies[u], issued[u])
    BY <1>1 DEF TasksConsistent
  <2>2. CASE taken = {}
    BY <2>1, <2>2
  <2>3. CASE taken # {}
    <3>1. PICK w \in waiters[u] : w \in taken /\ w.nonce = m.nonce /\ w.kind = kind
      BY <2>3 DEF TakeWaiter
    <3>2. \A v \in taken : v = w
      BY <2>1, <3>1 DEF TakeWaiter, Consistent
    <3>3. /\ m.nonce \in call[u].rx
          /\ call[u].pc \in Awaiting /\ m.type = AwaitedReply(call[u].pc)
      BY <2>1, <3>1 DEF Consistent
    <3>4. waiters[u] \ taken = waiters[u] \ {w} /\ rs = replies[u] \cup {m}
      BY <2>3, <3>1, <3>2
    <3>5. \A r \in replies[u] : r.nonce # m.nonce
      BY ZenonT(30), SMT, <2>1, <3>1 DEF Consistent
    <3>6. \A v \in waiters[u] \ {w} : v.nonce # m.nonce
      BY ZenonT(30), SMT, <2>1, <3>1 DEF Consistent
    <3> HIDE DEF rs, taken, u
    <3>7. Consistent(u, call[u], waiters[u] \ {w}, replies[u] \cup {m}, issued[u])
      BY ZenonT(30), SMT, <2>1, <3>1, <3>3, <3>5, <3>6 DEF Consistent
    <3>8. QED
      BY <3>4, <3>7
  <2>4. QED
    BY <2>2, <2>3
<1> HIDE DEF taken, rs, u
<1>5. /\ call'[u] = call[u] /\ waiters'[u] = waiters[u] \ taken
      /\ replies'[u] = rs /\ issued'[u] = issued[u]
  BY <1>1, <1>2 DEF TypeOK
<1>6. TypeOK'
  BY <1>1, <1>2, <1>3 DEF TypeOK
<1>7. OthersAlone(u)
  BY <1>1, <1>2 DEF OthersAlone, TypeOK
<1>8. QED
  BY SMTT(30), Zenon, <1>1, <1>4, <1>5, <1>6, <1>7, OnlyAt DEF JoinInv

(***************************************************************************)
(* The four response handlers take the matching waiter, if there is one,   *)
(* and resolve it.                                                         *)
(***************************************************************************)
LEMMA ResponseSteps ==
    ASSUME JoinInv, NEW m \in msgs,
           \/ HandleSearchByIdResponse(m) \/ HandleRetMaxLevelResponse(m)
           \/ HandleRetNeighborResponse(m) \/ HandleSetLinkResponse(m)
    PROVE  JoinInv'
<1>1. TypeOK
  BY DEF JoinInv
<1>2. CASE HandleSearchByIdResponse(m)
  <2>1. m.type = "SearchByIdResponse" /\ Resolve(m, "AsyncSearch") /\ table' = table
    BY <1>2 DEF HandleSearchByIdResponse
  <2>2. \A pc \in Awaiting : AwaitedKind(pc) = "AsyncSearch" => AwaitedReply(pc) = m.type
    BY <2>1 DEF AwaitedKind, AwaitedReply, Awaiting
  <2>3. m \in Reply /\ table' \in [Node -> Table]
    BY <1>1, <2>1, MessageTypes DEF TypeOK
  <2>4. QED
    BY <2>1, <2>2, <2>3, ResolveStep
<1>3. CASE HandleRetMaxLevelResponse(m)
  <2>1. m.type = "RetMaxLevelOp" /\ Resolve(m, "MaxLevel") /\ table' = table
    BY <1>3 DEF HandleRetMaxLevelResponse
  <2>2. \A pc \in Awaiting : AwaitedKind(pc) = "MaxLevel" => AwaitedReply(pc) = m.type
    BY <2>1 DEF AwaitedKind, AwaitedReply, Awaiting
  <2>3. m \in Reply /\ table' \in [Node -> Table]
    BY <1>1, <2>1, MessageTypes DEF TypeOK
  <2>4. QED
    BY <2>1, <2>2, <2>3, ResolveStep
<1>4. CASE HandleRetNeighborResponse(m)
  <2>1. m.type = "RetNeighborOp" /\ Resolve(m, "Neighbor") /\ table' = table
    BY <1>4 DEF HandleRetNeighborResponse
  <2>2. \A pc \in Awaiting : AwaitedKind(pc) = "Neighbor" => AwaitedReply(pc) = m.type
    BY <2>1 DEF AwaitedKind, AwaitedReply, Awaiting
  <2>3. m \in Reply /\ table' \in [Node -> Table]
    BY <1>1, <2>1, MessageTypes DEF TypeOK
  <2>4. QED
    BY <2>1, <2>2, <2>3, ResolveStep
<1>5. CASE HandleSetLinkResponse(m)
  <2>1. /\ m.type = "SetLinkOp" /\ Resolve(m, "Link")
        /\ table' = [table EXCEPT ![m.dest] = SetLinkTable(@, m)]
    BY <1>5 DEF HandleSetLinkResponse
  <2>2. \A pc \in Awaiting : AwaitedKind(pc) = "Link" => AwaitedReply(pc) = m.type
    BY <2>1 DEF AwaitedKind, AwaitedReply, Awaiting
  <2>3. /\ m \in Reply /\ m.dest \in Node /\ m.level \in Level
        /\ m.dir \in Direction /\ m.linked \in Entry
    BY <1>1, <2>1, MessageTypes DEF LinkRes
  <2>4. table[m.dest] \in Table
    BY <1>1, <2>3 DEF TypeOK
  <2>5. SetLinkTable(table[m.dest], m) \in Table
    BY <2>3, <2>4, TryRelinkFacts DEF SetLinkTable, Entry
  <2>6. table' \in [Node -> Table]
    BY Zenon, <1>1, <2>1, <2>5 DEF TypeOK
  <2>7. QED
    BY <2>1, <2>2, <2>3, <2>6, ResolveStep
<1>6. QED
  BY <1>2, <1>3, <1>4, <1>5

-----------------------------------------------------------------------------
(***************************************************************************)
(* Every step of a join task preserves the invariant.                      *)
(***************************************************************************)
LEMMA TaskSteps ==
    ASSUME JoinInv, NEW u \in Node \ Member,
           StartCall(u) \/ Resume(u) \/ TimeOut(u) \/ Cancel(u)
    PROVE  JoinInv'
<1>1. CASE StartCall(u)
  <2>1. Joined \cup {u} \subseteq Node /\ StartLevels \cup {call[u].level} \subseteq Nat
    BY Zenon, MemberAssumption, BoundsAssumption DEF JoinInv, TypeOK, Task, Joined
  <2>2. \/ \E i \in Node : GetMaxLevel(u, i)
        \/ \E i \in Node, level \in Nat : JoinStage1(u, i, level)
    BY <1>1, <2>1 DEF StartCall
  <2>3. QED
    BY <2>2, GetMaxLevelStep, JoinStage1Step
<1>2. CASE Resume(u)
  BY <1>2, ResumeMaxLevelStep, ResumeSearchStep, ResumeNeighborStep, ResumeLinkStep
  DEF Resume
<1>3. CASE TimeOut(u)
  BY <1>3, FailRoundTripStep DEF TimeOut
<1>4. CASE Cancel(u)
  BY <1>4, CancelStep
<1>5. QED
  BY <1>1, <1>2, <1>3, <1>4

(***************************************************************************)
(* The tasks, the waiter maps and the channels of every node fit together  *)
(* in every reachable state.                                               *)
(***************************************************************************)
THEOREM JoinInvariant == Spec => []JoinInv
<1>1. Init => JoinInv
  <2> SUFFICES ASSUME Init PROVE JoinInv
    OBVIOUS
  <2>1. NewTask \in Task /\ NewTask.rx = {} /\ NewTask.pc \notin Awaiting
    BY DEF NewTask, Task, Entry, Awaiting
  <2>2. TypeOK
    BY <2>1, InitTableAssumption DEF Init, TypeOK, Wired
  <2>3. \A u \in Node : /\ call[u] = NewTask /\ waiters[u] = {}
                       /\ replies[u] = {} /\ issued[u] = 0
    BY DEF Init
  <2>4. ASSUME NEW u \in Node
        PROVE  Consistent(u, call[u], waiters[u], replies[u], issued[u])
    <3>1. Consistent(u, NewTask, {}, {}, 0)
      BY <2>1, RestingTask
    <3>2. QED
      BY <2>3, <3>1
  <2>5. QED
    BY <2>2, <2>4 DEF JoinInv, TasksConsistent
<1>2. JoinInv /\ [Next]_vars => JoinInv'
  <2> SUFFICES ASSUME JoinInv, [Next]_vars PROVE JoinInv'
    OBVIOUS
  <2>1. CASE \E u \in Node \ Member : StartCall(u) \/ Resume(u) \/ TimeOut(u) \/ Cancel(u)
    BY <2>1, TaskSteps
  <2>2. CASE \E m \in msgs : ProcessIncomingEvent(m)
    BY <2>2, SearchByIdRequestStep, GetMaxLevelRequestStep, GetNeighborRequestStep,
       GetLinkRequestStep, ResponseSteps DEF ProcessIncomingEvent
  <2>3. CASE UNCHANGED vars
    BY <2>3 DEF vars, JoinInv, TypeOK, TasksConsistent
  <2>4. QED
    BY <2>1, <2>2, <2>3 DEF Next
<1>3. QED
  BY <1>1, <1>2, PTL DEF Spec

(***************************************************************************)
(* Events, waiters, replies, tasks and tables keep their types: whatever a *)
(* search or a link handler puts into an event is a node and a level.      *)
(***************************************************************************)
THEOREM JoinTypeCorrect == Spec => []TypeOK
<1>1. JoinInv => TypeOK
  BY DEF JoinInv
<1>2. QED
  BY <1>1, JoinInvariant, PTL

(***************************************************************************)
(* WaiterGuard and take_waiter leave no entry behind and lose none: the    *)
(* map of a node holds exactly the requests its task still awaits.         *)
(***************************************************************************)
THEOREM WaitersAccounted == Spec => []WaitersMatchAwaited
<1>1. JoinInv => WaitersMatchAwaited
  <2> SUFFICES ASSUME JoinInv, NEW u \in Node
               PROVE  /\ Nonces(waiters[u]) \cup Nonces(replies[u]) = call[u].rx
                      /\ Nonces(waiters[u]) \cap Nonces(replies[u]) = {}
                      /\ call[u].rx # {} <=> call[u].pc \in Awaiting
    BY Zenon DEF WaitersMatchAwaited
  <2>1. Consistent(u, call[u], waiters[u], replies[u], issued[u])
    BY DEF JoinInv, TasksConsistent
  <2>2. QED
    BY <2>1 DEF Consistent, Nonces
<1>2. QED
  BY <1>1, JoinInvariant, PTL

-----------------------------------------------------------------------------
(***************************************************************************)
(* The path of a join.  Heading is SearchDirection of a task t of u.       *)
(***************************************************************************)
Heading(u, t) == IF t.introducer < u THEN "Right" ELSE "Left"

(***************************************************************************)
(* Event m, if it belongs to a request that u's task t awaits, is where it *)
(* should be.  A search looks for u in its heading, and its answer is not  *)
(* past u.  A link request on the side of the search, and the node that    *)
(* confirms it, has not gone back behind the anchor.                       *)
(***************************************************************************)
OnTrack(u, t, m) ==
    LET d == Heading(u, t)
    IN  m.nonce \in t.rx =>
          /\ (t.pc = "search" /\ m.type = "SearchByIdRequest" /\ m.origin = u) =>
                m.target = u /\ m.direction = d
          /\ (t.pc = "search" /\ m.type = "SearchByIdResponse" /\ m.dest = u) =>
                ~Precedes(d, u, m.result)
          /\ (t.pc = "link" /\ m.type = "GetLinkOp" /\ m.candidate = u /\ m.dir = d) =>
                m.level = 0 /\ ~Precedes(d, m.dest, t.anchor)
          /\ (t.pc = "link" /\ m.type = "SetLinkOp" /\ m.dest = u /\ m.dir = Opposite(d)) =>
                m.level = 0 /\ ~Precedes(d, m.linked, t.anchor)

(***************************************************************************)
(* A SetLinkOp, in flight or in a channel, is true in the given tables.    *)
(***************************************************************************)
Backed(tables, m) ==
    m.type = "SetLinkOp" =>
        /\ m.linked # None
        /\ BelongsInOwnSlot(m.dest, m.level, m.dir, m.linked)
        /\ AsCloseAs(tables, m.linked, Opposite(m.dir), m.level, m.dest)

(***************************************************************************)
(* Node u is linked on the side of the search of its task t.               *)
(***************************************************************************)
Linked(u, t) ==
    LET d == Heading(u, t)
    IN  \E x \in Node :
          /\ ~Precedes(d, x, t.anchor) /\ Precedes(d, x, u)
          /\ AsCloseAs(table, u, Opposite(d), 0, x)
          /\ AsCloseAs(table, x, d, 0, u)

(***************************************************************************)
(* What holds of the events in flight, of those in channels and of a task. *)
(***************************************************************************)
SentInv ==
    \A m \in msgs :
        /\ m.nonce[2] < issued[m.nonce[1]]
        /\ Backed(table, m)
        /\ m.type = "SearchByIdRequest" => ~Precedes(m.direction, m.target, m.dest)
        /\ \A u \in Node : OnTrack(u, call[u], m)

GotInv ==
    \A u \in Node : \A r \in replies[u] :
        /\ r.dest = u
        /\ Backed(table, r)
        /\ r.type = "SetLinkOp" => AsCloseAs(table, u, r.dir, r.level, r.linked)
        /\ OnTrack(u, call[u], r)

PathTask(u, t, ws, rs) ==
    /\ t.pc = "idle" => t.anchor = None
    /\ t.anchor # None => Precedes(Heading(u, t), t.anchor, u)
    /\ t.pc = "ok" => Linked(u, t)
    /\ (t.pc = "link" /\ ~t.failed) =>
          \/ Linked(u, t)
          \/ \E w \in ws \cup rs : w.dir = Opposite(Heading(u, t))

PathTasks == \A u \in Node : PathTask(u, call[u], waiters[u], replies[u])

(***************************************************************************)
(* The inductive invariant, on top of JoinInv.                             *)
(***************************************************************************)
PathInv == Ordered(table) /\ SentInv /\ GotInv /\ PathTasks

(***************************************************************************)
(* The nonces a task awaits are its own, and drawn.                        *)
(***************************************************************************)
LEMMA OwnNonces ==
    ASSUME JoinInv, NEW u \in Node, NEW n \in call[u].rx
    PROVE  n[1] = u /\ n[2] \in Nat /\ n[2] < issued[u]
BY DEF JoinInv, TasksConsistent, Consistent

(***************************************************************************)
(* So are the nonces it awaits after a step.                               *)
(***************************************************************************)
LEMMA OwnNoncesNext ==
    ASSUME JoinInv', NEW u \in Node, NEW n \in call'[u].rx
    PROVE  n[1] = u
BY DEF JoinInv, TasksConsistent, Consistent

(***************************************************************************)
(* A nonce that was drawn stays below the counter, and is none drawn later.*)
(***************************************************************************)
LEMMA DrawnBefore ==
    ASSUME NEW k \in Nat, NEW i \in Nat, NEW j \in Nat, k < i
    PROVE  ~(i =< k) /\ (i =< j => k < j)
OBVIOUS

(***************************************************************************)
(* A search reply names the node it resolved.                              *)
(***************************************************************************)
LEMMA SearchReplyType ==
    ASSUME TypeOK, NEW u \in Node, NEW r \in replies[u], r.type = "SearchByIdResponse"
    PROVE  r.result \in Node
<1>1. r \in Reply
  BY DEF TypeOK
<1>2. QED
  BY <1>1 DEF Reply, IdSearchRes, MaxLevelRes, NeighborRes, LinkRes

(***************************************************************************)
(* A request that is not linked directly has a node to be forwarded to.    *)
(***************************************************************************)
LEMMA ForwardTo ==
    ASSUME NEW lt \in Table, NEW l \in Level, NEW d \in Direction, NEW c \in Node,
           LinkOutcome(lt, l, d, c) # "LinkedDirectly"
    PROVE  lt[d][l] \in Node
BY TryRelinkFacts

(***************************************************************************)
(* Headings are directions.                                                *)
(***************************************************************************)
LEMMA HeadingType ==
    ASSUME NEW u, NEW t
    PROVE  Heading(u, t) \in Direction
BY ZenonT(30) DEF Heading, Direction

-----------------------------------------------------------------------------
(***************************************************************************)
(* What a step of u's task does.  The requests it sends are under fresh    *)
(* nonces and on track.  Its task awaits nothing, or still awaits part of  *)
(* what it did, or only what is fresh.                                     *)
(***************************************************************************)
Sends(u) ==
    \A m \in msgs' \ msgs :
        /\ m.type # "SetLinkOp"
        /\ m.nonce[1] = u /\ issued[u] =< m.nonce[2] /\ m.nonce[2] < issued'[u]
        /\ OnTrack(u, call'[u], m)
        /\ m.type = "SearchByIdRequest" => ~Precedes(m.direction, m.target, m.dest)

SamePath(s, t) == t.introducer = s.introducer /\ t.anchor = s.anchor

Awaits(u) ==
    \/ call'[u].rx = {}
    \/ /\ call'[u].rx \subseteq call[u].rx /\ call'[u].pc = call[u].pc
       /\ SamePath(call[u], call'[u])
    \/ \A n \in call'[u].rx : issued[u] =< n[2]

(***************************************************************************)
(* The anchor of a task is kept with the introducer, or is what its search *)
(* resolved; before the first call there is none.                          *)
(***************************************************************************)
Anchors(u) ==
    /\ call'[u].pc # "idle"
    /\ \/ call'[u].anchor = None
       \/ call[u].pc = "idle" /\ call'[u].anchor = call[u].anchor
       \/ SamePath(call[u], call'[u])
       \/ /\ call[u].pc = "search" /\ call'[u].introducer = call[u].introducer
          /\ \E r \in replies[u] : call'[u].anchor = r.result /\ r.result # u

(***************************************************************************)
(* A task links: it begins with a waiter for the side of the search, and   *)
(* goes on, unless it failed, when one reply r is consumed.                *)
(***************************************************************************)
Links(u) ==
    \/ call'[u].pc \notin {"link", "ok"}
    \/ call'[u].pc = "link" /\ call'[u].failed
    \/ /\ call'[u].pc = "link"
       /\ \E w \in waiters'[u] : w.dir = Opposite(Heading(u, call'[u]))
    \/ /\ call[u].pc = "link" /\ ~call[u].failed /\ SamePath(call[u], call'[u])
       /\ \E r \in replies[u] :
             /\ waiters'[u] = waiters[u] /\ replies'[u] = replies[u] \ {r}
             /\ call'[u].pc = "ok" => waiters[u] = {} /\ replies[u] = {r}

TaskShape(u) ==
    /\ table' = table /\ OthersAlone(u)
    /\ issued[u] =< issued'[u] /\ replies'[u] \subseteq replies[u]
    /\ Sends(u) /\ Awaits(u) /\ Anchors(u) /\ Links(u)

(***************************************************************************)
(* A step that sends nothing and ends all waiting has the shape.           *)
(***************************************************************************)
LEMMA StopShape ==
    ASSUME JoinInv, NEW u \in Node, NEW t \in Task, t.rx = {},
           t.pc \in {"ready", "err", "collision"}, SamePath(call[u], t),
           call' = [call EXCEPT ![u] = t],
           \A v \in Node \ {u} : waiters'[v] = waiters[v] /\ replies'[v] = replies[v],
           replies'[u] \subseteq replies[u],
           msgs' = msgs, issued' = issued, table' = table
    PROVE  TaskShape(u)
<1>1. TypeOK /\ call'[u] = t /\ issued[u] \in Nat
  BY DEF JoinInv, TypeOK
<1>2. OthersAlone(u)
  BY ZenonT(30), <1>1 DEF OthersAlone, TypeOK
<1>3. issued[u] =< issued'[u] /\ Sends(u)
  BY SMT, <1>1 DEF Sends
<1>4. Awaits(u) /\ Anchors(u) /\ Links(u)
  BY Zenon, SMT, <1>1 DEF Awaits, Anchors, Links, SamePath
<1>5. QED
  BY Zenon, SMT, <1>2, <1>3, <1>4 DEF TaskShape

(***************************************************************************)
(* Nonces drawn one or two at a time are the node's own and are new.       *)
(***************************************************************************)
LEMMA DrawnNonces ==
    ASSUME NEW u \in Node, issued[u] \in Nat
    PROVE  /\ Fresh(u)[1] = u /\ issued[u] =< Fresh(u)[2]
           /\ Fresh2(u)[1] = u /\ issued[u] =< Fresh2(u)[2]
           /\ \A i : i = issued[u] + 1 => Fresh(u)[2] < i /\ issued[u] =< i
           /\ \A i : i = issued[u] + 2 =>
                 Fresh(u)[2] < i /\ Fresh2(u)[2] < i /\ issued[u] =< i
BY DEF Fresh, Fresh2

(***************************************************************************)
(* A step that sends one request m under a fresh nonce.                    *)
(***************************************************************************)
LEMMA AskShape ==
    ASSUME JoinInv, NEW u \in Node, NEW t, NEW w, NEW m,
           t.rx = {Fresh(u)}, t.pc \in Awaiting, m.nonce = Fresh(u), m.type # "SetLinkOp",
           call' = [call EXCEPT ![u] = t], Issue(u, 1, {w}, {m}),
           \A v \in Node \ {u} : replies'[v] = replies[v],
           replies'[u] \subseteq replies[u], table' = table,
           OnTrack(u, t, m),
           m.type = "SearchByIdRequest" => ~Precedes(m.direction, m.target, m.dest),
           Anchors(u), t.pc = "link" => w.dir = Opposite(Heading(u, t))
    PROVE  TaskShape(u)
<1>1. TypeOK /\ call'[u] = t /\ issued[u] \in Nat
  BY ZenonT(30) DEF JoinInv, TypeOK
<1>2. /\ issued'[u] = issued[u] + 1 /\ w \in waiters'[u] /\ msgs' = msgs \cup {m}
      /\ \A v \in Node \ {u} : issued'[v] = issued[v] /\ waiters'[v] = waiters[v]
  BY ZenonT(30), <1>1 DEF Issue, TypeOK
<1>3. OthersAlone(u)
  BY ZenonT(30), <1>1, <1>2 DEF OthersAlone, TypeOK
<1>4. /\ Fresh(u)[1] = u /\ issued[u] =< Fresh(u)[2] /\ Fresh(u)[2] < issued'[u]
      /\ issued[u] =< issued'[u]
  BY Zenon, <1>1, <1>2, DrawnNonces
<1>5. Sends(u)
  BY Zenon, <1>1, <1>2, <1>4 DEF Sends
<1>6. Awaits(u)
  BY Zenon, <1>1, <1>4 DEF Awaits
<1>7. Links(u)
  BY Zenon, <1>1, <1>2 DEF Links, Awaiting
<1>8. QED
  BY Zenon, <1>3, <1>4, <1>5, <1>6, <1>7 DEF TaskShape

(***************************************************************************)
(* get_max_level.                                                          *)
(***************************************************************************)
LEMMA GetMaxLevelShape ==
    ASSUME JoinInv, NEW u \in Node, NEW i, GetMaxLevel(u, i)
    PROVE  TaskShape(u)
<1> DEFINE w == NewWaiter(Fresh(u), "MaxLevel")
           m == [type |-> "GetMaxLevelOp", dest |-> i, nonce |-> Fresh(u), origin |-> u]
           t == [call[u] EXCEPT !.pc = "maxlevel", !.introducer = i, !.rx = {Fresh(u)}]
<1>1. TypeOK /\ call[u] \in Task /\ call[u].pc = "idle"
  BY DEF JoinInv, TypeOK, GetMaxLevel
<1>2. /\ t.rx = {Fresh(u)} /\ t.pc = "maxlevel" /\ t.anchor = call[u].anchor
      /\ m.nonce = Fresh(u) /\ m.type = "GetMaxLevelOp"
  BY <1>1 DEF Task
<1>3. /\ call' = [call EXCEPT ![u] = t] /\ Issue(u, 1, {w}, {m})
      /\ replies' = replies /\ table' = table
  BY DEF GetMaxLevel
<1> HIDE DEF t, w, m
<1>4. call'[u] = t
  BY ZenonT(30), <1>1, <1>3 DEF TypeOK
<1>5. OnTrack(u, t, m)
  BY ZenonT(30), <1>2 DEF OnTrack
<1>6. Anchors(u)
  BY <1>1, <1>2, <1>4 DEF Anchors
<1>7. QED
  BY Zenon, <1>2, <1>3, <1>5, <1>6, AskShape DEF Awaiting

(***************************************************************************)
(* join_stage1_link_level0 is refused, or its search starts: not past u,   *)
(* as the introducer is another node and lies behind u in the heading.     *)
(***************************************************************************)
LEMMA JoinStage1Shape ==
    ASSUME JoinInv, NEW u \in Node, NEW i \in Node, NEW level \in Nat, JoinStage1(u, i, level)
    PROVE  TaskShape(u)
<1> DEFINE w == NewWaiter(Fresh(u), "AsyncSearch")
           d == IF i < u THEN "Right" ELSE "Left"
           m == [type |-> "SearchByIdRequest", dest |-> i, nonce |-> Fresh(u),
                 target |-> u, origin |-> u, level |-> level, direction |-> d]
           more == call[u].attempts + 1
           r == [call[u] EXCEPT !.pc = "err", !.attempts = more]
           t == [call[u] EXCEPT !.pc = "search", !.introducer = i, !.level = level,
                                !.anchor = None, !.rx = {Fresh(u)}, !.failed = FALSE,
                                !.attempts = more]
<1>1. TypeOK /\ TasksConsistent /\ call[u] \in Task /\ more \in Nat
  BY DEF JoinInv, TypeOK, Task
<1>2. call[u].rx = {}
  BY <1>1, RestingTask DEF TasksConsistent, Awaiting, JoinStage1
<1>3. replies' = replies /\ table' = table
  BY DEF JoinStage1
<1>4. /\ i = u => call' = [call EXCEPT ![u] = r] /\ UNCHANGED <<issued, waiters, msgs>>
      /\ i # u => call' = [call EXCEPT ![u] = t] /\ Issue(u, 1, {w}, {m})
  BY DEF JoinStage1
<1> HIDE DEF more
<1>5. CASE i = u
  <2>1. r \in Task /\ r.rx = {} /\ r.pc = "err" /\ SamePath(call[u], r)
    BY Zenon, <1>1, <1>2 DEF Task, Outcomes, SamePath
  <2> HIDE DEF r
  <2>2. QED
    BY <1>3, <1>4, <1>5, <2>1, StopShape
<1>6. CASE i # u
  <2>1. /\ t.rx = {Fresh(u)} /\ t.pc = "search" /\ t.anchor = None /\ t.introducer = i
        /\ m.nonce = Fresh(u) /\ m.type = "SearchByIdRequest"
        /\ m.target = u /\ m.direction = d /\ m.dest = i
    BY <1>1 DEF Task
  <2>2. ~Precedes(d, u, i)
    BY <1>6, NodeAssumption DEF Precedes
  <2>3. Heading(u, t) = d
    BY <2>1 DEF Heading
  <2> HIDE DEF t, w, m, d
  <2>4. call'[u] = t
    BY ZenonT(30), <1>1, <1>4, <1>6 DEF TypeOK
  <2>5. OnTrack(u, t, m)
    BY <2>1, <2>3 DEF OnTrack
  <2>6. Anchors(u)
    BY <2>1, <2>4 DEF Anchors
  <2>7. QED
    BY <1>3, <1>4, <1>6, <2>1, <2>2, <2>5, <2>6, AskShape DEF Awaiting
<1>7. QED
  BY <1>5, <1>6

(***************************************************************************)
(* get_max_level resumes.                                                  *)
(***************************************************************************)
LEMMA ResumeMaxLevelShape ==
    ASSUME JoinInv, NEW u \in Node, NEW r \in replies[u], ResumeMaxLevel(u, r)
    PROVE  TaskShape(u)
<1> DEFINE t == [call[u] EXCEPT !.pc = "ready", !.level = r.max_level, !.rx = {}]
<1>1. TypeOK /\ r.max_level \in Nat
  BY ReplyFacts DEF JoinInv, ResumeMaxLevel
<1>2. t \in Task /\ t.rx = {} /\ t.pc = "ready" /\ SamePath(call[u], t)
  BY Zenon, <1>1 DEF TypeOK, Task, SamePath
<1>3. /\ call' = [call EXCEPT ![u] = t] /\ waiters' = waiters
      /\ replies' = [replies EXCEPT ![u] = @ \ {r}]
      /\ msgs' = msgs /\ issued' = issued /\ table' = table
  BY DEF ResumeMaxLevel, Consume
<1> HIDE DEF t
<1>4. \A v \in Node : replies'[v] \subseteq replies[v] /\ (v # u => replies'[v] = replies[v])
  BY <1>1, <1>3 DEF TypeOK
<1>5. QED
  BY Zenon, <1>2, <1>3, <1>4, StopShape

(***************************************************************************)
(* The search resolves u itself, or the anchor.                            *)
(***************************************************************************)
LEMMA ResumeSearchShape ==
    ASSUME JoinInv, NEW u \in Node, NEW r \in replies[u], ResumeSearch(u, r)
    PROVE  TaskShape(u)
<1> DEFINE w == NewWaiter(Fresh(u), "Neighbor")
           m == [type |-> "GetNeighborOp", dest |-> r.result, nonce |-> Fresh(u),
                 origin |-> u, level |-> 0, direction |-> SearchDirection(u)]
           s == [call[u] EXCEPT !.pc = "collision", !.rx = {}]
           t == [call[u] EXCEPT !.pc = "neighbor", !.anchor = r.result, !.rx = {Fresh(u)}]
<1>1. TypeOK /\ call[u] \in Task /\ call[u].pc = "search"
  BY DEF JoinInv, TypeOK, ResumeSearch
<1>2. replies' = [replies EXCEPT ![u] = @ \ {r}] /\ table' = table
  BY DEF ResumeSearch, Consume
<1>3. \A v \in Node : replies'[v] \subseteq replies[v] /\ (v # u => replies'[v] = replies[v])
  BY <1>1, <1>2 DEF TypeOK
<1>4. CASE r.result = u
  <2>1. s \in Task /\ s.rx = {} /\ s.pc = "collision" /\ SamePath(call[u], s)
    BY Zenon, <1>1 DEF Task, Outcomes, SamePath
  <2>2. call' = [call EXCEPT ![u] = s] /\ UNCHANGED <<issued, waiters, msgs>>
    BY <1>4 DEF ResumeSearch
  <2> HIDE DEF s
  <2>3. QED
    BY Zenon, <1>2, <1>3, <2>1, <2>2, StopShape
<1>5. CASE r.result # u
  <2>1. /\ t.rx = {Fresh(u)} /\ t.pc = "neighbor" /\ t.anchor = r.result
        /\ t.introducer = call[u].introducer
        /\ m.nonce = Fresh(u) /\ m.type = "GetNeighborOp"
    BY <1>1 DEF Task
  <2>2. call' = [call EXCEPT ![u] = t] /\ Issue(u, 1, {w}, {m})
    BY <1>5 DEF ResumeSearch
  <2> HIDE DEF t, w, m
  <2>3. call'[u] = t
    BY ZenonT(30), <1>1, <2>2 DEF TypeOK
  <2>4. OnTrack(u, t, m)
    BY ZenonT(30), <2>1 DEF OnTrack
  <2>5. Anchors(u)
    BY ZenonT(30), <1>1, <1>5, <2>1, <2>3 DEF Anchors
  <2>6. QED
    BY Zenon, <1>2, <1>3, <2>1, <2>2, <2>4, <2>5, AskShape DEF Awaiting
<1>6. QED
  BY <1>4, <1>5

(***************************************************************************)
(* A link request of u, just sent to the node x, is on track: it is on the *)
(* other side, or x is the anchor.                                         *)
(***************************************************************************)
LEMMA LinkRequestOnTrack ==
    ASSUME NEW u \in Node, NEW t, NEW n, NEW d, NEW x \in Node,
           d = Heading(u, t) => x = t.anchor
    PROVE  OnTrack(u, t, GetLinkOp(x, n, u, d, 0))
<1> DEFINE m == GetLinkOp(x, n, u, d, 0)
<1>1. m.type = "GetLinkOp" /\ m.dir = d /\ m.level = 0 /\ m.dest = x
  BY DEF GetLinkOp
<1> HIDE DEF m
<1>2. ~Precedes(Heading(u, t), x, x)
  BY HeadingType, PrecedesOrder
<1>3. QED
  BY ZenonT(30), <1>1, <1>2 DEF OnTrack, m

(***************************************************************************)
(* The anchor, and its neighbour if it named one, are asked for a link.    *)
(***************************************************************************)
LEMMA ResumeNeighborShape ==
    ASSUME JoinInv, NEW u \in Node, NEW r \in replies[u], ResumeNeighbor(u, r)
    PROVE  TaskShape(u)
<1> DEFINE sdir == SearchDirection(u)
           qdir == Opposite(sdir)
           a == call[u].anchor
           v == LinkWaiter(Fresh(u), sdir, 0)
           w == LinkWaiter(Fresh2(u), qdir, 0)
           m == GetLinkOp(a, Fresh(u), u, sdir, 0)
           q == GetLinkOp(r.neighbor, Fresh2(u), u, qdir, 0)
           s == [call[u] EXCEPT !.pc = "link", !.rx = {Fresh(u)}]
           t == [call[u] EXCEPT !.pc = "link", !.rx = {Fresh(u), Fresh2(u)}]
<1>1. /\ TypeOK /\ Consistent(u, call[u], waiters[u], replies[u], issued[u])
      /\ call[u] \in Task /\ call[u].pc = "neighbor" /\ r.neighbor \in Entry
  BY ReplyFacts DEF JoinInv, TypeOK, TasksConsistent, ResumeNeighbor
<1>2. replies' = [replies EXCEPT ![u] = @ \ {r}] /\ table' = table
  BY DEF ResumeNeighbor, Consume
<1>3. \A k \in Node : replies'[k] \subseteq replies[k] /\ (k # u => replies'[k] = replies[k])
  BY ZenonT(30), <1>1, <1>2 DEF TypeOK
<1>4. a \in Node
  BY <1>1 DEF Consistent, Task, Entry
<1>5. /\ s.rx = {Fresh(u)} /\ s.pc = "link" /\ SamePath(call[u], s)
      /\ t.rx = {Fresh(u), Fresh2(u)} /\ t.pc = "link" /\ SamePath(call[u], t)
  BY <1>1 DEF Task, SamePath
<1>6. /\ r.neighbor = None => call' = [call EXCEPT ![u] = s] /\ Issue(u, 1, {v}, {m})
      /\ r.neighbor # None => call' = [call EXCEPT ![u] = t] /\ Issue(u, 2, {v, w}, {m, q})
  BY ZenonT(30) DEF ResumeNeighbor
<1>7. /\ sdir \in Direction /\ qdir # sdir
      /\ v.dir = Opposite(sdir)
      /\ m.nonce = Fresh(u) /\ m.type = "GetLinkOp"
      /\ q.nonce = Fresh2(u) /\ q.type = "GetLinkOp"
  BY ZenonT(30), SearchDirectionType, OppositeFacts DEF LinkWaiter, GetLinkOp
<1> HIDE DEF s, t, v, w, m, q
<1>8. /\ Heading(u, s) = sdir /\ s.anchor = a
      /\ Heading(u, t) = sdir /\ t.anchor = a
  BY <1>5 DEF Heading, SearchDirection, SamePath
<1>9. OnTrack(u, s, m) /\ OnTrack(u, t, m)
  <2> HIDE DEF sdir, a
  <2> QED
    BY <1>4, <1>8, LinkRequestOnTrack DEF m
<1> HIDE DEF sdir, qdir, a
<1>10. CASE r.neighbor = None
  <2>1. call'[u] = s
    BY Zenon, <1>1, <1>6, <1>10 DEF TypeOK
  <2>2. Anchors(u)
    BY Zenon, <1>5, <2>1 DEF Anchors
  <2>3. QED
    BY Zenon, <1>2, <1>3, <1>5, <1>6, <1>7, <1>8, <1>9, <1>10, <2>2, AskShape DEF Awaiting
<1>11. CASE r.neighbor # None
  <2>1. OnTrack(u, t, q)
    BY Zenon, <1>1, <1>7, <1>8, <1>11, LinkRequestOnTrack DEF Entry, q
  <2>2. call'[u] = t /\ issued[u] \in Nat
    BY Zenon, <1>1, <1>6, <1>11 DEF TypeOK
  <2>3. /\ issued'[u] = issued[u] + 2 /\ v \in waiters'[u] /\ msgs' = msgs \cup {m, q}
        /\ \A k \in Node \ {u} : issued'[k] = issued[k] /\ waiters'[k] = waiters[k]
    BY SMT, ZenonT(30), <1>1, <1>6, <1>11 DEF Issue, TypeOK
  <2>4. OthersAlone(u)
    <3>1. \A k \in Node : k # u => call'[k] = call[k]
      BY Zenon, <1>1, <1>6, <1>11 DEF TypeOK
    <3>2. QED
      BY Zenon, <1>3, <2>3, <3>1 DEF OthersAlone
  <2>5. /\ Fresh(u)[1] = u /\ issued[u] =< Fresh(u)[2] /\ Fresh(u)[2] < issued'[u]
        /\ Fresh2(u)[1] = u /\ issued[u] =< Fresh2(u)[2] /\ Fresh2(u)[2] < issued'[u]
        /\ issued[u] =< issued'[u]
    BY Zenon, <2>2, <2>3, DrawnNonces
  <2>6. Sends(u)
    BY Zenon, <1>7, <1>9, <2>1, <2>2, <2>3, <2>5 DEF Sends
  <2>7. Awaits(u) /\ Anchors(u)
    BY Zenon, <1>5, <2>2, <2>5 DEF Awaits, Anchors
  <2>8. Links(u)
    BY ZenonT(30), <1>5, <1>7, <1>8, <2>2, <2>3 DEF Links
  <2>9. QED
    BY Zenon, <1>2, <1>3, <2>4, <2>5, <2>6, <2>7, <2>8 DEF TaskShape
<1>12. QED
  BY <1>10, <1>11

(***************************************************************************)
(* One link request of u ends.                                             *)
(***************************************************************************)
LEMMA EndLinkShape ==
    ASSUME JoinInv, NEW u \in Node, NEW n \in call[u].rx, NEW failed \in BOOLEAN,
           call[u].pc = "link", EndLinkRequest(u, n, failed),
           \A v \in Node \ {u} : waiters'[v] = waiters[v] /\ replies'[v] = replies[v],
           replies'[u] \subseteq replies[u],
           failed \/ \E r \in replies[u] : /\ r.nonce = n /\ waiters'[u] = waiters[u]
                                           /\ replies'[u] = replies[u] \ {r},
           msgs' = msgs, issued' = issued, table' = table
    PROVE  TaskShape(u)
<1> DEFINE fails == call[u].failed \/ failed
           pc == IF call[u].rx # {n} THEN "link" ELSE IF fails THEN "err" ELSE "ok"
           rx == call[u].rx \ {n}
           t == [call[u] EXCEPT !.rx = rx, !.failed = fails, !.pc = pc]
<1>1. /\ TypeOK /\ Consistent(u, call[u], waiters[u], replies[u], issued[u])
      /\ call[u] \in Task /\ issued[u] \in Nat /\ fails \in BOOLEAN
  BY ZenonT(30) DEF JoinInv, TypeOK, TasksConsistent, Task
<1>2. call' = [call EXCEPT ![u] = t]
  BY DEF EndLinkRequest
<1> HIDE DEF rx, pc, fails
<1>3. /\ t.rx = rx /\ t.pc = pc /\ t.failed = fails /\ SamePath(call[u], t)
  BY <1>1 DEF Task, SamePath
<1> HIDE DEF t
<1>4. call'[u] = t /\ OthersAlone(u)
  BY ZenonT(30), <1>1, <1>2 DEF TypeOK, OthersAlone
<1>5. Awaits(u)
  <2>1. rx \subseteq call[u].rx /\ (rx # {} => pc = "link")
    BY Zenon DEF rx, pc
  <2>2. QED
    BY Zenon, <1>3, <1>4, <2>1 DEF Awaits
<1>6. Anchors(u)
  BY Zenon, <1>3, <1>4 DEF Anchors, pc
<1>7. Links(u)
  <2>1. CASE fails
    BY Zenon, <1>3, <1>4, <2>1 DEF Links, pc
  <2>2. CASE ~fails
    <3>1. PICK r \in replies[u] : /\ r.nonce = n /\ waiters'[u] = waiters[u]
                                  /\ replies'[u] = replies[u] \ {r}
      BY Zenon, <2>2 DEF fails
    <3>2. pc = "ok" => waiters[u] = {} /\ replies[u] = {r}
      BY <1>1, <3>1 DEF Consistent, pc
    <3>3. ~call[u].failed
      BY Zenon, <2>2 DEF fails
    <3>4. QED
      BY Zenon, <1>3, <1>4, <3>1, <3>2, <3>3 DEF Links
  <2>3. QED
    BY <2>1, <2>2
<1>8. issued[u] =< issued'[u]
  <2>1. \A i, j \in Nat : i = j => i =< j
    OBVIOUS
  <2>2. QED
    BY Zenon, <1>1, <2>1
<1>9. Sends(u)
  BY Zenon DEF Sends
<1>10. QED
  BY Zenon, <1>4, <1>5, <1>6, <1>7, <1>8, <1>9 DEF TaskShape

(***************************************************************************)
(* Stage 1 resumes with the reply to a link request.                       *)
(***************************************************************************)
LEMMA ResumeLinkShape ==
    ASSUME JoinInv, NEW u \in Node, NEW r \in replies[u], ResumeLink(u, r)
    PROVE  TaskShape(u)
<1>1. TypeOK
  BY DEF JoinInv
<1>2. /\ r.nonce \in call[u].rx /\ call[u].pc = "link" /\ EndLinkRequest(u, r.nonce, FALSE)
      /\ replies' = [replies EXCEPT ![u] = @ \ {r}]
      /\ waiters' = waiters /\ msgs' = msgs /\ issued' = issued /\ table' = table
  BY Zenon DEF ResumeLink, Consume
<1>3. /\ replies'[u] = replies[u] \ {r}
      /\ \A v \in Node \ {u} : replies'[v] = replies[v]
  BY <1>1, <1>2 DEF TypeOK
<1>4. QED
  BY Zenon, <1>2, <1>3, EndLinkShape

(***************************************************************************)
(* A round trip fails.                                                     *)
(***************************************************************************)
LEMMA FailRoundTripShape ==
    ASSUME JoinInv, NEW u \in Node, NEW n \in call[u].rx, FailRoundTrip(u, n)
    PROVE  TaskShape(u)
<1> DEFINE t(pc) == [call[u] EXCEPT !.pc = pc, !.rx = {}]
<1>1. TypeOK /\ call[u] \in Task
  BY ZenonT(30) DEF JoinInv, TypeOK
<1>2. /\ replies' = replies /\ msgs' = msgs /\ issued' = issued /\ table' = table
      /\ \A v \in Node \ {u} : waiters'[v] = waiters[v]
  BY <1>1 DEF FailRoundTrip, RemoveWaiters, TypeOK
<1>3. CASE call[u].pc = "link"
  <2>1. EndLinkRequest(u, n, TRUE)
    BY Zenon, <1>3 DEF FailRoundTrip
  <2>2. QED
    BY Zenon, <1>2, <1>3, <2>1, EndLinkShape
<1>4. CASE call[u].pc # "link"
  <2>1. PICK pc \in {"ready", "err"} : call' = [call EXCEPT ![u] = t(pc)]
    BY Zenon, <1>4 DEF FailRoundTrip
  <2>2. t(pc) \in Task /\ t(pc).rx = {} /\ t(pc).pc = pc /\ SamePath(call[u], t(pc))
    BY Zenon, <1>1 DEF Task, Outcomes, SamePath
  <2> HIDE DEF t
  <2>3. QED
    BY Zenon, <1>2, <2>1, <2>2, StopShape
<1>5. QED
  BY ZenonT(30), <1>3, <1>4

(***************************************************************************)
(* The call is dropped.                                                    *)
(***************************************************************************)
LEMMA CancelShape ==
    ASSUME JoinInv, NEW u \in Node, Cancel(u)
    PROVE  TaskShape(u)
<1> DEFINE t == [call[u] EXCEPT !.pc = "err", !.rx = {}]
<1>1. TypeOK /\ call[u] \in Task
  BY DEF JoinInv, TypeOK
<1>2. /\ call' = [call EXCEPT ![u] = t]
      /\ msgs' = msgs /\ issued' = issued /\ table' = table
      /\ \A v \in Node \ {u} : waiters'[v] = waiters[v] /\ replies'[v] = replies[v]
      /\ replies'[u] \subseteq replies[u]
  BY <1>1 DEF Cancel, RemoveWaiters, TypeOK
<1>3. t \in Task /\ t.rx = {} /\ t.pc = "err" /\ SamePath(call[u], t)
  BY Zenon, <1>1 DEF Task, Outcomes, SamePath
<1> HIDE DEF t
<1>4. QED
  BY Zenon, <1>2, <1>3, StopShape

(***************************************************************************)
(* Every step of a join task has the shape.                                *)
(***************************************************************************)
LEMMA TaskShapes ==
    ASSUME JoinInv, NEW u \in Node \ Member,
           StartCall(u) \/ Resume(u) \/ TimeOut(u) \/ Cancel(u)
    PROVE  TaskShape(u)
<1>1. CASE StartCall(u)
  <2>1. Joined \cup {u} \subseteq Node /\ StartLevels \cup {call[u].level} \subseteq Nat
    BY Zenon, MemberAssumption, BoundsAssumption DEF JoinInv, TypeOK, Task, Joined
  <2>2. \/ \E i \in Node : GetMaxLevel(u, i)
        \/ \E i \in Node, level \in Nat : JoinStage1(u, i, level)
    BY <1>1, <2>1 DEF StartCall
  <2>3. QED
    BY SMTT(30), Zenon, <2>2, GetMaxLevelShape, JoinStage1Shape
<1>2. CASE Resume(u)
  BY <1>2, ResumeMaxLevelShape, ResumeSearchShape, ResumeNeighborShape, ResumeLinkShape
  DEF Resume
<1>3. CASE TimeOut(u)
  BY <1>3, FailRoundTripShape DEF TimeOut
<1>4. CASE Cancel(u)
  BY ZenonT(30), <1>4, CancelShape
<1>5. QED
  BY <1>1, <1>2, <1>3, <1>4


-----------------------------------------------------------------------------
(***************************************************************************)
(* A step of u's task keeps an event that was sent before on track.        *)
(***************************************************************************)
LEMMA StaysOnTrack ==
    ASSUME JoinInv, JoinInv', NEW u \in Node, NEW m, m.nonce \in Nonce, Awaits(u),
           m.nonce[1] = u => m.nonce[2] < issued[u], OnTrack(u, call[u], m)
    PROVE  OnTrack(u, call'[u], m)
<1> SUFFICES ASSUME m.nonce \in call'[u].rx
             PROVE  OnTrack(u, call'[u], m)
  BY Zenon DEF OnTrack
<1>1. m.nonce[1] = u
  BY Zenon, OwnNoncesNext
<1>2. issued[u] \in Nat /\ m.nonce[2] \in Nat
  BY DEF JoinInv, TypeOK, Nonce
<1>3. /\ call'[u].rx \subseteq call[u].rx /\ call'[u].pc = call[u].pc
      /\ SamePath(call[u], call'[u])
  <2>1. ~(issued[u] =< m.nonce[2])
    BY Zenon, <1>1, <1>2, DrawnBefore
  <2>2. QED
    BY Zenon, <2>1 DEF Awaits
<1>4. Heading(u, call'[u]) = Heading(u, call[u])
  BY <1>3 DEF Heading, SamePath
<1>5. QED
  BY ZenonT(30), <1>3, <1>4 DEF OnTrack, SamePath

(***************************************************************************)
(* The reply of the link request on the side of the search links u: its    *)
(* write is applied at both ends, and it comes from the anchor or a node   *)
(* nearer to u.                                                            *)
(***************************************************************************)
LEMMA ReplyLinks ==
    ASSUME JoinInv, GotInv, NEW u \in Node, NEW r \in replies[u], call[u].pc = "link",
           r.dir = Opposite(Heading(u, call[u]))
    PROVE  Linked(u, call[u])
<1> DEFINE d == Heading(u, call[u])
<1>1. TypeOK /\ Consistent(u, call[u], waiters[u], replies[u], issued[u])
  BY DEF JoinInv, TasksConsistent
<1>2. r.nonce \in call[u].rx /\ r.type = "SetLinkOp"
  BY ZenonT(30), <1>1 DEF Consistent, AwaitedReply
<1>3. r \in LinkRes
  BY ZenonT(30), <1>1, <1>2
     DEF TypeOK, Reply, IdSearchRes, MaxLevelRes, NeighborRes, LinkRes
<1>4. d \in Direction /\ Opposite(Opposite(d)) = d
  BY ZenonT(30), HeadingType, OppositeFacts
<1>5. r.dest = u /\ Backed(table, r) /\ AsCloseAs(table, u, r.dir, r.level, r.linked)
      /\ OnTrack(u, call[u], r)
  BY ZenonT(30), <1>2 DEF GotInv
<1> HIDE DEF d
<1>6. r.level = 0 /\ ~Precedes(d, r.linked, call[u].anchor)
  BY ZenonT(30), <1>2, <1>5 DEF OnTrack, d
<1>7. r.linked \in Node /\ Precedes(Opposite(d), u, r.linked)
  BY <1>2, <1>3, <1>5 DEF Backed, BelongsInOwnSlot, LinkRes, Entry, d
<1>8. Precedes(d, r.linked, u)
  BY ZenonT(30), <1>4, <1>7, PrecedesOrder
<1>9. AsCloseAs(table, u, Opposite(d), 0, r.linked) /\ AsCloseAs(table, r.linked, d, 0, u)
  BY <1>2, <1>4, <1>5, <1>6 DEF Backed, d
<1>10. QED
  BY ZenonT(30), <1>6, <1>7, <1>8, <1>9 DEF Linked, d

(***************************************************************************)
(* After a step of a join task, what is in flight is still on track.       *)
(***************************************************************************)
LEMMA TaskKeepsSent ==
    ASSUME JoinInv, JoinInv', PathInv, NEW u \in Node, TaskShape(u)
    PROVE  SentInv'
<1> SUFFICES ASSUME NEW m \in msgs'
             PROVE  /\ m.nonce[2] < issued'[m.nonce[1]]
                    /\ Backed(table', m)
                    /\ m.type = "SearchByIdRequest" => ~Precedes(m.direction, m.target, m.dest)
                    /\ \A v \in Node : OnTrack(v, call'[v], m)
  BY ZenonT(30) DEF SentInv, OnTrack, Heading
<1>1. /\ TypeOK /\ issued[u] \in Nat /\ issued'[u] \in Nat
      /\ table' = table /\ OthersAlone(u) /\ Awaits(u) /\ issued[u] =< issued'[u]
  BY SMTT(30), Zenon DEF JoinInv, TypeOK, TaskShape
<1>2. CASE m \in msgs
  <2>1. m.nonce \in Nonce
    BY ZenonT(30), <1>1, <1>2, MessageTypes
  <2>2. /\ m.nonce[1] \in Node /\ m.nonce[2] \in Nat /\ m.nonce[2] < issued[m.nonce[1]]
        /\ Backed(table, m)
        /\ m.type = "SearchByIdRequest" => ~Precedes(m.direction, m.target, m.dest)
        /\ \A v \in Node : OnTrack(v, call[v], m)
    BY ZenonT(30), <1>2, <2>1 DEF PathInv, SentInv, Nonce
  <2>3. m.nonce[2] < issued'[m.nonce[1]]
    <3>1. CASE m.nonce[1] = u
      BY Zenon, <1>1, <2>2, <3>1, DrawnBefore
    <3>2. CASE m.nonce[1] # u
      BY Zenon, <1>1, <2>2, <3>2 DEF OthersAlone
    <3>3. QED
      BY Zenon, <3>1, <3>2
  <2>4. Backed(table', m)
    BY ZenonT(30), <1>1, <2>2 DEF Backed
  <2>5. OnTrack(u, call'[u], m)
    BY ZenonT(30), <1>1, <2>1, <2>2, StaysOnTrack
  <2>6. \A v \in Node : OnTrack(v, call'[v], m)
    BY ZenonT(30), <1>1, <2>2, <2>5 DEF OthersAlone
  <2>7. QED
    BY <2>2, <2>3, <2>4, <2>6
<1>3. CASE m \notin msgs
  <2>1. /\ m.type # "SetLinkOp"
        /\ m.nonce[1] = u /\ issued[u] =< m.nonce[2] /\ m.nonce[2] < issued'[u]
        /\ OnTrack(u, call'[u], m)
        /\ m.type = "SearchByIdRequest" => ~Precedes(m.direction, m.target, m.dest)
    BY ZenonT(30), <1>3 DEF TaskShape, Sends
  <2>2. Backed(table', m)
    BY ZenonT(30), <2>1 DEF Backed
  <2>3. ASSUME NEW v \in Node, v # u PROVE OnTrack(v, call'[v], m)
    <3>1. m.nonce \notin call'[v].rx
      BY ZenonT(30), <1>1, <2>1, <2>3, OwnNonces DEF OthersAlone
    <3>2. QED
      BY <3>1 DEF OnTrack
  <2>4. QED
    BY ZenonT(30), <2>1, <2>2, <2>3
<1>4. QED
  BY ZenonT(30), <1>2, <1>3

(***************************************************************************)
(* The replies that stay in the channels were there before.                *)
(***************************************************************************)
LEMMA TaskKeepsGot ==
    ASSUME JoinInv, JoinInv', PathInv, NEW u \in Node, TaskShape(u)
    PROVE  GotInv'
<1> SUFFICES ASSUME NEW v \in Node, NEW r \in replies'[v]
             PROVE  /\ r.dest = v
                    /\ Backed(table', r)
                    /\ r.type = "SetLinkOp" => AsCloseAs(table', v, r.dir, r.level, r.linked)
                    /\ OnTrack(v, call'[v], r)
  BY Zenon DEF GotInv, OnTrack, Heading
<1>1. /\ TypeOK /\ table' = table /\ OthersAlone(u) /\ Awaits(u)
      /\ replies'[u] \subseteq replies[u]
  BY DEF JoinInv, TaskShape
<1>2. r \in replies[v]
  BY ZenonT(30), <1>1 DEF OthersAlone
<1>3. /\ r.dest = v /\ Backed(table, r)
      /\ r.type = "SetLinkOp" => AsCloseAs(table, v, r.dir, r.level, r.linked)
      /\ OnTrack(v, call[v], r)
  BY <1>2 DEF PathInv, GotInv
<1>4. Backed(table', r)
  BY Zenon, <1>1, <1>3 DEF Backed
<1>5. r.nonce \in call[v].rx /\ call[v].rx \subseteq Nonce
  BY Zenon, <1>1, <1>2 DEF JoinInv, TasksConsistent, Consistent, TypeOK, Task
<1>6. r.nonce \in Nonce /\ r.nonce[1] = v /\ r.nonce[2] < issued[v]
  BY ZenonT(30), <1>5, OwnNonces
<1>7. OnTrack(v, call'[v], r)
  <2>1. CASE v = u
    BY <1>1, <1>3, <1>6, <2>1, StaysOnTrack
  <2>2. CASE v # u
    BY Zenon, <1>1, <1>3, <2>2 DEF OthersAlone
  <2>3. QED
    BY ZenonT(30), <2>1, <2>2
<1>8. QED
  BY ZenonT(30), <1>1, <1>3, <1>4, <1>7

(***************************************************************************)
(* The anchor stays behind u, and a task goes on, or returns Ok, linked.   *)
(***************************************************************************)
LEMMA TaskKeepsTasks ==
    ASSUME JoinInv, JoinInv', PathInv, NEW u \in Node, TaskShape(u)
    PROVE  PathTasks'
<1>1. /\ TypeOK /\ table' = table /\ OthersAlone(u) /\ Anchors(u) /\ Links(u)
      /\ Consistent(u, call[u], waiters[u], replies[u], issued[u])
  BY DEF JoinInv, TasksConsistent, TaskShape
<1>2. PathTask(u, call[u], waiters[u], replies[u])
  BY ZenonT(30) DEF PathInv, PathTasks
<1>3. ASSUME SamePath(call[u], call'[u])
      PROVE  /\ Heading(u, call'[u]) = Heading(u, call[u])
             /\ Linked(u, call[u]) => Linked(u, call'[u])
  BY <1>3 DEF SamePath, Heading, Linked
<1>4. call'[u].anchor # None => Precedes(Heading(u, call'[u]), call'[u].anchor, u)
  <2>1. CASE /\ call[u].pc = "search" /\ call'[u].introducer = call[u].introducer
             /\ \E r \in replies[u] : call'[u].anchor = r.result /\ r.result # u
    <3>1. PICK r \in replies[u] : call'[u].anchor = r.result /\ r.result # u
      BY <2>1
    <3>2. r.nonce \in call[u].rx /\ r.type = "SearchByIdResponse"
      BY Zenon, <1>1, <2>1, <3>1 DEF Consistent, AwaitedReply
    <3>3. r.result \in Node
      BY Zenon, <1>1, <3>1, <3>2, SearchReplyType
    <3>4. r.dest = u /\ OnTrack(u, call[u], r)
      BY <3>1 DEF PathInv, GotInv
    <3>5. ~Precedes(Heading(u, call[u]), u, r.result)
      BY ZenonT(30), <2>1, <3>2, <3>4 DEF OnTrack
    <3>6. Precedes(Heading(u, call[u]), r.result, u)
      BY ZenonT(30), <3>1, <3>3, <3>5, HeadingType, PrecedesOrder
    <3>7. QED
      BY ZenonT(30), <2>1, <3>1, <3>6 DEF Heading
  <2>2. CASE SamePath(call[u], call'[u])
    BY <1>2, <1>3, <2>2 DEF SamePath, PathTask
  <2>3. QED
    BY Zenon, <1>1, <1>2, <2>1, <2>2 DEF Anchors, PathTask
<1>5. /\ call'[u].pc = "ok" => Linked(u, call'[u])
      /\ (call'[u].pc = "link" /\ ~call'[u].failed) =>
            \/ Linked(u, call'[u])
            \/ \E w \in waiters'[u] \cup replies'[u] : w.dir = Opposite(Heading(u, call'[u]))
  <2>1. CASE /\ call[u].pc = "link" /\ ~call[u].failed /\ SamePath(call[u], call'[u])
             /\ \E r \in replies[u] :
                   /\ waiters'[u] = waiters[u] /\ replies'[u] = replies[u] \ {r}
                   /\ call'[u].pc = "ok" => waiters[u] = {} /\ replies[u] = {r}
    <3>1. PICK r \in replies[u] :
                   /\ waiters'[u] = waiters[u] /\ replies'[u] = replies[u] \ {r}
                   /\ call'[u].pc = "ok" => waiters[u] = {} /\ replies[u] = {r}
      BY ZenonT(30), <2>1
    <3>2. CASE Linked(u, call[u])
      BY ZenonT(30), <1>3, <2>1, <3>2
    <3>3. CASE r.dir = Opposite(Heading(u, call[u]))
      BY ZenonT(30), <1>3, <2>1, <3>1, <3>3, ReplyLinks DEF PathInv
    <3>4. CASE ~Linked(u, call[u]) /\ r.dir # Opposite(Heading(u, call[u]))
      <4>1. PICK w \in waiters[u] \cup replies[u] : w.dir = Opposite(Heading(u, call[u]))
        BY ZenonT(30), <1>2, <2>1, <3>4 DEF PathTask
      <4>2. w \in waiters'[u] \cup replies'[u]
        BY <3>1, <3>4, <4>1
      <4>3. call'[u].pc # "ok"
        BY <3>1, <3>4, <4>1
      <4>4. QED
        BY ZenonT(30), <1>3, <2>1, <4>1, <4>2, <4>3
    <3>5. QED
      BY <3>2, <3>3, <3>4
  <2>2. CASE call'[u].pc \notin {"link", "ok"}
    BY <2>2
  <2>3. CASE call'[u].pc = "link" /\ call'[u].failed
    BY <2>3
  <2>4. CASE /\ call'[u].pc = "link"
             /\ \E w \in waiters'[u] : w.dir = Opposite(Heading(u, call'[u]))
    BY <2>4
  <2>5. QED
    BY ZenonT(30), <1>1, <2>1, <2>2, <2>3, <2>4 DEF Links
<1>6. ASSUME NEW v \in Node PROVE PathTask(v, call[v], waiters[v], replies[v])'
  <2>1. CASE v = u
    <3>1. Linked(u, call'[u]) => Linked(u, call[u])'
      BY Zenon, <1>1 DEF Linked, Heading
    <3>2. call'[u].pc # "idle"
      BY Zenon, <1>1 DEF Anchors
    <3>3. QED
      BY <1>4, <1>5, <2>1, <3>1, <3>2 DEF PathTask, Heading
  <2>2. CASE v # u
    <3>1. /\ call'[v] = call[v] /\ waiters'[v] = waiters[v] /\ replies'[v] = replies[v]
      BY ZenonT(30), <1>1, <2>2 DEF OthersAlone
    <3>2. PathTask(v, call[v], waiters[v], replies[v])
      BY DEF PathInv, PathTasks
    <3>3. QED
      BY Zenon, <1>1, <3>1, <3>2 DEF PathTask, Heading, Linked
  <2>3. QED
    BY ZenonT(30), <2>1, <2>2
<1>7. QED
  BY ZenonT(30), <1>6 DEF PathTasks

(***************************************************************************)
(* So a step of a join task keeps the invariant.                           *)
(***************************************************************************)
LEMMA TaskKeepsPath ==
    ASSUME JoinInv, JoinInv', PathInv, NEW u \in Node, TaskShape(u)
    PROVE  PathInv'
<1>1. Ordered(table)'
  BY ZenonT(30) DEF PathInv, TaskShape, Ordered
<1>2. QED
  BY ZenonT(30), <1>1, TaskKeepsSent, TaskKeepsGot, TaskKeepsTasks DEF PathInv


-----------------------------------------------------------------------------
(***************************************************************************)
(* What the handler of m does.  It touches no task and draws no nonce, and *)
(* tables only get tighter.  What it sends is under m's nonce, true and on *)
(* track.  At most it moves m into the channel of its receiver, taking the *)
(* waiter of that slot, once the write is done.                            *)
(***************************************************************************)
Tightens ==
    /\ Ordered(table')
    /\ \A n, c \in Node, d \in Direction, l \in Level :
          AsCloseAs(table, n, d, l, c) => AsCloseAs(table', n, d, l, c)

Relays(m, ms) ==
    \A q \in ms :
        /\ q.nonce = m.nonce
        /\ Backed(table', q)
        /\ q.type = "SearchByIdRequest" => ~Precedes(q.direction, q.target, q.dest)
        /\ \A u \in Node : OnTrack(u, call[u], q)

Delivers(m, v) ==
    /\ v = m.dest /\ replies'[v] = replies[v] \cup {m}
    /\ \E w \in waiters[v] : /\ waiters'[v] = waiters[v] \ {w}
                             /\ m.type = "SetLinkOp" => w.dir = m.dir
    /\ m.type = "SetLinkOp" => AsCloseAs(table', v, m.dir, m.level, m.linked)

HandlerShape(m) ==
    /\ call' = call /\ issued' = issued
    /\ Tightens
    /\ Relays(m, msgs' \ msgs)
    /\ \A v \in Node : \/ waiters'[v] = waiters[v] /\ replies'[v] = replies[v]
                       \/ Delivers(m, v)

(***************************************************************************)
(* A true SetLinkOp stays true when tables get tighter.                    *)
(***************************************************************************)
LEMMA StaysBacked ==
    ASSUME Tightens, NEW m, m.type = "SetLinkOp" => m \in LinkRes, Backed(table, m)
    PROVE  Backed(table', m)
<1> SUFFICES ASSUME m.type = "SetLinkOp"
             PROVE  Backed(table', m)
  BY DEF Backed
<1>1. /\ m.linked \in Node /\ m.dest \in Node /\ m.level \in Level
      /\ m.dir \in Direction /\ Opposite(m.dir) \in Direction
  BY ZenonT(30), OppositeFacts DEF Backed, LinkRes, Entry
<1>2. QED
  BY <1>1 DEF Backed, Tightens

(***************************************************************************)
(* So does what a linked node was promised.                                *)
(***************************************************************************)
LEMMA StaysLinked ==
    ASSUME Tightens, call' = call, NEW u \in Node, Linked(u, call[u])
    PROVE  Linked(u, call[u])'
<1> DEFINE d == Heading(u, call[u])
<1>1. d \in Direction /\ Opposite(d) \in Direction /\ 0 \in Level
  BY Zenon, HeadingType, OppositeFacts, LevelFacts
<1>2. PICK x \in Node : /\ ~Precedes(d, x, call[u].anchor) /\ Precedes(d, x, u)
                        /\ AsCloseAs(table, u, Opposite(d), 0, x)
                        /\ AsCloseAs(table, x, d, 0, u)
  BY ZenonT(30) DEF Linked
<1>3. AsCloseAs(table', u, Opposite(d), 0, x) /\ AsCloseAs(table', x, d, 0, u)
  BY <1>1, <1>2 DEF Tightens
<1>4. Heading(u, call[u])' = d
  BY DEF Heading
<1> HIDE DEF d
<1>5. QED
  BY ZenonT(30), <1>2, <1>3, <1>4 DEF Linked

(***************************************************************************)
(* A handler keeps the path.                                               *)
(***************************************************************************)
LEMMA HandlerKeepsPath ==
    ASSUME JoinInv, JoinInv', PathInv, NEW m \in msgs, HandlerShape(m)
    PROVE  PathInv'
<1>1. /\ TypeOK /\ TypeOK' /\ call' = call /\ issued' = issued /\ Tightens
      /\ Relays(m, msgs' \ msgs)
  BY ZenonT(30) DEF JoinInv, HandlerShape
<1>2. \A u \in Node : \A q : OnTrack(u, call'[u], q) <=> OnTrack(u, call[u], q)
  BY ZenonT(30), <1>1
<1>3. \A q \in msgs : /\ q.nonce[2] < issued[q.nonce[1]]
                      /\ Backed(table, q)
                      /\ q.type = "SearchByIdRequest" => ~Precedes(q.direction, q.target, q.dest)
                      /\ \A u \in Node : OnTrack(u, call[u], q)
  BY ZenonT(30) DEF PathInv, SentInv
<1>4. \A q \in msgs : Backed(table', q)
  BY ZenonT(30), <1>1, <1>3, StaysBacked, MessageTypes
<1>5. SentInv'
  <2> SUFFICES ASSUME NEW q \in msgs'
               PROVE  /\ q.nonce[2] < issued'[q.nonce[1]]
                      /\ Backed(table', q)
                      /\ q.type = "SearchByIdRequest" => ~Precedes(q.direction, q.target, q.dest)
                      /\ \A u \in Node : OnTrack(u, call'[u], q)
    BY Zenon DEF SentInv, OnTrack, Heading
  <2>1. CASE q \in msgs
    BY Zenon, <1>1, <1>2, <1>3, <1>4, <2>1
  <2>2. CASE q \notin msgs
    BY ZenonT(30), <1>1, <1>2, <1>3, <2>2 DEF Relays
  <2>3. QED
    BY <2>1, <2>2
<1>6. GotInv'
  <2> SUFFICES ASSUME NEW v \in Node, NEW r \in replies'[v]
               PROVE  /\ r.dest = v
                      /\ Backed(table', r)
                      /\ r.type = "SetLinkOp" => AsCloseAs(table', v, r.dir, r.level, r.linked)
                      /\ OnTrack(v, call'[v], r)
    BY Zenon DEF GotInv, OnTrack, Heading
  <2>1. CASE r \in replies[v]
    <3>1. /\ r.dest = v /\ Backed(table, r)
          /\ r.type = "SetLinkOp" => AsCloseAs(table, v, r.dir, r.level, r.linked)
          /\ OnTrack(v, call[v], r)
      BY <2>1 DEF PathInv, GotInv
    <3>2. r.type = "SetLinkOp" => r \in LinkRes
      BY Zenon, <1>1, <2>1
         DEF TypeOK, Reply, IdSearchRes, MaxLevelRes, NeighborRes, LinkRes
    <3>3. Backed(table', r)
      BY <1>1, <3>1, <3>2, StaysBacked
    <3>4. r.type = "SetLinkOp" =>
             r.linked \in Node /\ r.level \in Level /\ r.dir \in Direction
      BY ZenonT(30), <3>1, <3>2 DEF Backed, LinkRes, Entry
    <3>5. r.type = "SetLinkOp" => AsCloseAs(table', v, r.dir, r.level, r.linked)
      BY ZenonT(30), <1>1, <3>1, <3>4 DEF Tightens
    <3>6. QED
      BY Zenon, <1>2, <3>1, <3>3, <3>5
  <2>2. CASE r \notin replies[v]
    <3>1. Delivers(m, v) /\ r = m
      BY <2>2 DEF HandlerShape, Delivers
    <3>2. QED
      BY ZenonT(30), <1>2, <1>3, <1>4, <3>1 DEF Delivers
  <2>3. QED
    BY <2>1, <2>2
<1>7. PathTasks'
  <2> SUFFICES ASSUME NEW v \in Node
               PROVE  PathTask(v, call[v], waiters[v], replies[v])'
    BY DEF PathTasks
  <2> DEFINE d == Heading(v, call[v])
  <2>1. PathTask(v, call[v], waiters[v], replies[v])
    BY DEF PathInv, PathTasks
  <2>2. Linked(v, call[v]) => Linked(v, call[v])'
    BY <1>1, StaysLinked
  <2>3. Heading(v, call[v])' = d
    BY <1>1 DEF Heading
  <2>4. ASSUME call[v].pc = "link", NEW w \in waiters[v] \cup replies[v], w.dir = Opposite(d)
        PROVE  \E q \in waiters'[v] \cup replies'[v] : q.dir = Opposite(d)
    <3>1. CASE waiters'[v] = waiters[v] /\ replies'[v] = replies[v]
      BY SMTT(30), Zenon, <2>4, <3>1
    <3>2. CASE Delivers(m, v)
      <4>1. m \in replies'[v]
        BY <3>2 DEF Delivers
      <4>2. m.type = "SetLinkOp"
        BY ZenonT(30), <1>1, <2>4, <4>1
           DEF JoinInv, TasksConsistent, Consistent, AwaitedReply
      <4> HIDE DEF d
      <4>3. QED
        BY <2>4, <3>2, <4>1, <4>2 DEF Delivers
    <3>3. QED
      BY ZenonT(30), <3>1, <3>2 DEF HandlerShape
  <2> HIDE DEF d
  <2>5. QED
    BY Zenon, <1>1, <2>1, <2>2, <2>3, <2>4 DEF PathTask, d
<1>8. QED
  BY ZenonT(30), <1>1, <1>5, <1>6, <1>7 DEF PathInv, Tightens


(***************************************************************************)
(* Leaving the tables alone counts as tightening them.                     *)
(***************************************************************************)
LEMMA SameTightens ==
    ASSUME Ordered(table), table' = table
    PROVE  Tightens
BY DEF Tightens

(***************************************************************************)
(* Relinking a slot tightens it.                                           *)
(***************************************************************************)
LEMMA RelinksTightens ==
    ASSUME TypeOK, Ordered(table),
           NEW n \in Node, NEW l \in Nat, NEW d \in Direction, NEW c \in Node,
           Relinks(table, table', n, l, d, c)
    PROVE  Tightens /\ AsCloseAs(table', n, d, l, c)
<1>1. table \in [Node -> Table]
  BY ZenonT(30) DEF TypeOK
<1>2. /\ table' \in [Node -> Table] /\ Ordered(table') /\ AsCloseAs(table', n, d, l, c)
      /\ \A k \in Node, e \in Direction, j \in Level :
            table[k][e][j] # None => AsCloseAs(table', k, e, j, table[k][e][j])
  BY ZenonT(30), <1>1, RelinksFacts
<1>3. QED
  BY <1>1, <1>2, AsCloseAsStable DEF Tightens

(***************************************************************************)
(* A handler that replaces m by what it sends has the shape.               *)
(***************************************************************************)
LEMMA RelayShape ==
    ASSUME NEW m \in msgs, NEW ms, Replace(m, ms), Relays(m, ms), Tightens,
           UNCHANGED <<waiters, replies, call, issued>>
    PROVE  HandlerShape(m)
<1>1. msgs' \ msgs \subseteq ms
  BY Zenon DEF Replace
<1>2. Relays(m, msgs' \ msgs)
  BY Zenon, <1>1 DEF Relays
<1>3. waiters' = waiters /\ replies' = replies /\ call' = call /\ issued' = issued
  BY Zenon
<1>4. QED
  BY Zenon, <1>2, <1>3 DEF HandlerShape

(***************************************************************************)
(* handle_search_by_id_request: the answer is this node, which is not past *)
(* the target, and the relay goes to a node that is not.                   *)
(***************************************************************************)
LEMMA SearchByIdRequestShape ==
    ASSUME JoinInv, PathInv, NEW m \in msgs, HandleSearchByIdRequest(m)
    PROVE  HandlerShape(m)
<1> DEFINE res == SearchById(m.dest, table[m.dest], m.target, m.level, m.direction)
           answer == [type |-> "SearchByIdResponse", dest |-> m.origin,
                      nonce |-> m.nonce, target |-> m.target,
                      termination_level |-> res.termination_level,
                      result |-> res.result]
           relay == [m EXCEPT !.dest = res.result, !.level = res.termination_level]
<1>1. TypeOK /\ m \in IdSearchReq /\ m.type = "SearchByIdRequest"
  BY MessageTypes DEF JoinInv, HandleSearchByIdRequest
<1>2. Tightens /\ UNCHANGED <<waiters, replies, call, issued>>
  BY SameTightens DEF HandleSearchByIdRequest, PathInv
<1>3. /\ m.dest \in Node /\ m.target \in Node /\ m.origin \in Node /\ m.level \in Nat
      /\ m.direction \in Direction /\ table[m.dest] \in Table
  BY ZenonT(30), <1>1 DEF IdSearchReq, TypeOK
<1>4. /\ ~Precedes(m.direction, m.target, m.dest)
      /\ \A u \in Node : OnTrack(u, call[u], m)
  BY <1>1 DEF PathInv, SentInv
<1>5. \/ Replace(m, {})
      \/ m.level < LookupTableLevels /\ res.result = m.dest /\ Replace(m, {answer})
      \/ m.level < LookupTableLevels /\ res.result # m.dest /\ Replace(m, {relay})
  BY ZenonT(30) DEF HandleSearchByIdRequest
<1>6. m.level < LookupTableLevels /\ res.result # m.dest =>
         ~Precedes(m.direction, m.target, res.result)
  <2>1. m.level < LookupTableLevels => m.level \in Level
    BY <1>3, LevelsAssumption DEF Level
  <2>2. QED
    BY ZenonT(30), <1>3, <2>1, SearchByIdFacts
<1> HIDE DEF res
<1>7. /\ answer.type = "SearchByIdResponse" /\ answer.dest = m.origin
      /\ answer.nonce = m.nonce /\ answer.result = res.result
      /\ relay.type = "SearchByIdRequest" /\ relay.nonce = m.nonce /\ relay.dest = res.result
      /\ relay.target = m.target /\ relay.origin = m.origin /\ relay.direction = m.direction
  BY ZenonT(30), <1>1 DEF IdSearchReq
<1> HIDE DEF answer, relay
<1>8. Relays(m, {})
  BY ZenonT(30) DEF Relays
<1>9. res.result = m.dest => Relays(m, {answer})
  <2>1. Backed(table', answer)
    BY ZenonT(30), <1>7 DEF Backed
  <2>2. res.result = m.dest => \A u \in Node : OnTrack(u, call[u], answer)
    BY Zenon, <1>1, <1>4, <1>7 DEF OnTrack
  <2>3. QED
    BY ZenonT(30), <1>7, <2>1, <2>2 DEF Relays
<1>10. m.level < LookupTableLevels /\ res.result # m.dest => Relays(m, {relay})
  <2>1. Backed(table', relay)
    BY ZenonT(30), <1>7 DEF Backed
  <2>2. \A u \in Node : OnTrack(u, call[u], relay)
    BY ZenonT(30), <1>1, <1>4, <1>7 DEF OnTrack
  <2>3. QED
    BY ZenonT(30), <1>6, <1>7, <2>1, <2>2 DEF Relays
<1>11. QED
  BY SMTT(30), Zenon, <1>2, <1>5, <1>8, <1>9, <1>10, RelayShape

(***************************************************************************)
(* handle_get_max_level_request and handle_get_neighbor_request answer     *)
(* with an event no property of the path is about.                         *)
(***************************************************************************)
LEMMA ReadRequestShapes ==
    ASSUME JoinInv, PathInv, NEW m \in msgs,
           HandleGetMaxLevelRequest(m) \/ HandleGetNeighborRequest(m)
    PROVE  HandlerShape(m)
<1>1. Tightens /\ UNCHANGED <<waiters, replies, call, issued>>
  BY Zenon, SameTightens DEF HandleGetMaxLevelRequest, HandleGetNeighborRequest, PathInv
<1>2. ASSUME NEW q, q.nonce = m.nonce, q.type \in {"RetMaxLevelOp", "RetNeighborOp"},
             Replace(m, {q})
      PROVE  HandlerShape(m)
  <2>1. Backed(table', q) /\ \A u \in Node : OnTrack(u, call[u], q)
    BY Zenon, <1>2 DEF Backed, OnTrack
  <2>2. Relays(m, {q})
    BY ZenonT(30), <1>2, <2>1 DEF Relays
  <2>3. QED
    BY <1>1, <1>2, <2>2, RelayShape
<1>3. CASE HandleGetMaxLevelRequest(m)
  <2> DEFINE q == [type |-> "RetMaxLevelOp", dest |-> m.origin, nonce |-> m.nonce,
                   max_level |-> CoreMaxLevel(table[m.dest])]
  <2>1. Replace(m, {q}) /\ q.nonce = m.nonce /\ q.type = "RetMaxLevelOp"
    BY Zenon, <1>3 DEF HandleGetMaxLevelRequest
  <2> HIDE DEF q
  <2>2. QED
    BY <1>2, <2>1
<1>4. CASE HandleGetNeighborRequest(m)
  <2> DEFINE q == [type |-> "RetNeighborOp", dest |-> m.origin, nonce |-> m.nonce,
                   level |-> m.level, direction |-> m.direction,
                   neighbor |-> GetEntry(table[m.dest], m.level, m.direction)]
  <2>1. Replace(m, {q}) /\ q.nonce = m.nonce /\ q.type = "RetNeighborOp"
    BY Zenon, <1>4 DEF HandleGetNeighborRequest
  <2> HIDE DEF q
  <2>2. QED
    BY <1>2, <2>1
<1>5. QED
  BY <1>3, <1>4

(***************************************************************************)
(* A task that links has an anchor.                                        *)
(***************************************************************************)
LEMMA LinkAnchor ==
    ASSUME JoinInv, NEW u \in Node, call[u].pc = "link"
    PROVE  call[u].anchor \in Node
BY DEF JoinInv, TypeOK, TasksConsistent, Consistent, Task, Entry

(***************************************************************************)
(* handle_get_link_request: the node that confirms has written its slot,   *)
(* and a forward goes to a node beyond it, so not back behind the anchor.  *)
(***************************************************************************)
LEMMA GetLinkRequestShape ==
    ASSUME JoinInv, PathInv, NEW m \in msgs, HandleGetLinkRequest(m)
    PROVE  HandlerShape(m)
<1> DEFINE lt == table[m.dest]
           new == TryRelink(lt, m.level, m.dir, m.candidate)
           e == lt[m.dir][m.level]
           confirm == SetLinkOp(m.candidate, m.nonce, Opposite(m.dir), m.level, m.dest)
           forward == [m EXCEPT !.dest = e]
<1>1. TypeOK /\ m \in LinkReq /\ m.type = "GetLinkOp" /\ Ordered(table)
  BY MessageTypes DEF JoinInv, PathInv, HandleGetLinkRequest
<1>2. /\ m.dest \in Node /\ m.candidate \in Node /\ m.dir \in Direction
      /\ m.level \in Level /\ m.level \in Nat /\ lt \in Table
  BY <1>1, LevelFacts DEF LinkReq, TypeOK
<1>3. \A u \in Node : OnTrack(u, call[u], m)
  BY DEF PathInv, SentInv
<1>4. UNCHANGED <<waiters, replies, call, issued>>
  BY DEF HandleGetLinkRequest
<1>5. CASE ~GetLinkBelongs(m)
  <2>1. table' = table /\ Replace(m, {})
    BY <1>1, <1>2, <1>5 DEF HandleGetLinkRequest, GetLinkTable, GetLinkSends, TypeOK
  <2>2. Relays(m, {})
    BY Zenon DEF Relays
  <2>3. Tightens
    BY Zenon, <1>1, <2>1, SameTightens
  <2>4. QED
    BY Zenon, <1>4, <2>1, <2>2, <2>3, RelayShape
<1>6. CASE GetLinkBelongs(m)
  <2>1. table' = [table EXCEPT ![m.dest] = new]
    BY <1>6 DEF HandleGetLinkRequest, GetLinkTable
  <2>2. Relinks(table, table', m.dest, m.level, m.dir, m.candidate)
    BY ZenonT(30), <1>6, <2>1 DEF Relinks, GetLinkBelongs
  <2>3. Tightens /\ AsCloseAs(table', m.dest, m.dir, m.level, m.candidate)
    BY <1>1, <1>2, <2>2, RelinksTightens
  <2>4. CASE LinkOutcome(lt, m.level, m.dir, m.candidate) = "LinkedDirectly"
    <3>1. Replace(m, {confirm})
      BY SMTT(30), Zenon, <1>6, <2>4 DEF HandleGetLinkRequest, GetLinkSends
    <3>2. /\ confirm.type = "SetLinkOp" /\ confirm.dest = m.candidate
          /\ confirm.nonce = m.nonce /\ confirm.dir = Opposite(m.dir)
          /\ confirm.level = m.level /\ confirm.linked = m.dest
      BY DEF SetLinkOp
    <3> HIDE DEF confirm
    <3>3. Opposite(Opposite(m.dir)) = m.dir /\ m.dest # None
      BY <1>2, OppositeFacts, NodeAssumption, NoneAssumption
    <3>4. BelongsInOwnSlot(m.candidate, m.level, Opposite(m.dir), m.dest)
      BY ZenonT(30), <1>2, <1>6, BelongsMirror DEF GetLinkBelongs
    <3>5. Backed(table', confirm)
      BY ZenonT(30), <2>3, <3>2, <3>3, <3>4 DEF Backed
    <3>6. ASSUME NEW u \in Node PROVE OnTrack(u, call[u], confirm)
      <4>1. OnTrack(u, call[u], m)
        BY <1>3
      <4>2. Opposite(m.dir) = Opposite(Heading(u, call[u])) => m.dir = Heading(u, call[u])
        BY ZenonT(30), <1>2, HeadingType, OppositeFacts
      <4>3. QED
        BY Zenon, <1>1, <3>2, <4>1, <4>2 DEF OnTrack
    <3>7. Relays(m, {confirm})
      BY ZenonT(30), <3>2, <3>5, <3>6 DEF Relays
    <3>8. QED
      BY <1>4, <2>3, <3>1, <3>7, RelayShape
  <2>5. CASE LinkOutcome(lt, m.level, m.dir, m.candidate) # "LinkedDirectly"
    <3>1. e \in Node /\ Precedes(m.dir, m.dest, e)
      <4>1. e \in Node
        BY Zenon, <1>2, <2>5, ForwardTo
      <4>2. QED
        BY <1>1, <1>2, <4>1, NoneAssumption DEF Ordered
    <3>2. Replace(m, {forward})
      BY <1>6, <2>5 DEF HandleGetLinkRequest, GetLinkSends, GetEntry
    <3> HIDE DEF e
    <3>3. /\ forward.type = "GetLinkOp" /\ forward.nonce = m.nonce /\ forward.dest = e
          /\ forward.candidate = m.candidate /\ forward.dir = m.dir
          /\ forward.level = m.level
      BY <1>1 DEF LinkReq
    <3> HIDE DEF forward
    <3>4. Backed(table', forward)
      BY <3>3 DEF Backed
    <3>5. ASSUME NEW u \in Node PROVE OnTrack(u, call[u], forward)
      <4>1. OnTrack(u, call[u], m)
        BY <1>3
      <4>2. call[u].pc = "link" => call[u].anchor \in Node
        BY Zenon, LinkAnchor
      <4>3. call[u].pc = "link" /\ ~Precedes(m.dir, m.dest, call[u].anchor) =>
               ~Precedes(m.dir, e, call[u].anchor)
        BY <1>2, <3>1, <4>2, PrecedesOrder
      <4>4. QED
        BY ZenonT(30), <1>1, <3>3, <4>1, <4>3 DEF OnTrack
    <3>6. Relays(m, {forward})
      BY Zenon, <3>3, <3>4, <3>5 DEF Relays
    <3>7. QED
      BY ZenonT(30), <1>4, <2>3, <3>2, <3>6, RelayShape
  <2>6. QED
    BY <2>4, <2>5
<1>7. QED
  BY <1>5, <1>6

(***************************************************************************)
(* take_waiter and the send into the channel.                              *)
(***************************************************************************)
LEMMA ResolveShape ==
    ASSUME JoinInv, NEW m \in msgs, NEW kind, Resolve(m, kind), Tightens,
           m.type = "SetLinkOp" => /\ kind = "Link"
                                   /\ AsCloseAs(table', m.dest, m.dir, m.level, m.linked)
    PROVE  HandlerShape(m)
<1> DEFINE u == m.dest
           taken == TakeWaiter(m, kind)
<1>1. TypeOK /\ u \in Node /\ Consistent(u, call[u], waiters[u], replies[u], issued[u])
  BY ZenonT(30), MessageTypes DEF JoinInv, TasksConsistent
<1>2. /\ call' = call /\ issued' = issued /\ msgs' = msgs \ {m}
      /\ waiters' = [waiters EXCEPT ![u] = @ \ taken]
      /\ replies' = [replies EXCEPT ![u] = @ \cup (IF taken = {} THEN {} ELSE {m})]
  BY ZenonT(30) DEF Resolve, Replace
<1>3. \A w \in taken : /\ w \in waiters[u] /\ w.nonce = m.nonce
                       /\ kind = "Link" => w.dir = m.dir
  BY ZenonT(30) DEF TakeWaiter
<1> HIDE DEF taken, u
<1>4. \A v, w \in taken : v = w
  <2>1. \A v, w \in waiters[u] : v.nonce = w.nonce => v = w
    BY Zenon, <1>1 DEF Consistent
  <2>2. QED
    BY Zenon, <1>3, <2>1
<1>5. /\ waiters'[u] = waiters[u] \ taken
      /\ replies'[u] = replies[u] \cup (IF taken = {} THEN {} ELSE {m})
      /\ \A v \in Node \ {u} : waiters'[v] = waiters[v] /\ replies'[v] = replies[v]
  BY <1>1, <1>2 DEF TypeOK
<1>6. \A v \in Node : \/ waiters'[v] = waiters[v] /\ replies'[v] = replies[v]
                      \/ Delivers(m, v)
  <2>1. CASE taken = {}
    <3>1. waiters'[u] = waiters[u] /\ replies'[u] = replies[u]
      BY Zenon, <1>5, <2>1
    <3>2. QED
      BY Zenon, <1>5, <3>1
  <2>2. CASE taken # {}
    <3>1. PICK w \in taken : TRUE
      BY Zenon, <2>2
    <3>2. taken = {w}
      BY Zenon, <1>4, <3>1
    <3>3. /\ waiters'[u] = waiters[u] \ {w} /\ w \in waiters[u]
          /\ replies'[u] = replies[u] \cup {m}
      BY Zenon, <1>3, <1>5, <2>2, <3>2
    <3>4. Delivers(m, u)
      BY SMTT(30), Zenon, <1>3, <3>1, <3>3 DEF Delivers, u
    <3>5. QED
      BY <1>5, <3>4
  <2>3. QED
    BY Zenon, <2>1, <2>2
<1>7. Relays(m, msgs' \ msgs)
  BY <1>2 DEF Relays
<1>8. QED
  BY ZenonT(30), <1>2, <1>6, <1>7 DEF HandlerShape

(***************************************************************************)
(* The four response handlers.  handle_set_link_response writes before it  *)
(* resolves, and what a true SetLinkOp names belongs in the slot.          *)
(***************************************************************************)
LEMMA ResponseShapes ==
    ASSUME JoinInv, PathInv, NEW m \in msgs,
           \/ HandleSearchByIdResponse(m) \/ HandleRetMaxLevelResponse(m)
           \/ HandleRetNeighborResponse(m) \/ HandleSetLinkResponse(m)
    PROVE  HandlerShape(m)
<1>1. TypeOK /\ Ordered(table)
  BY DEF JoinInv, PathInv
<1>2. CASE HandleSearchByIdResponse(m) \/ HandleRetMaxLevelResponse(m)
           \/ HandleRetNeighborResponse(m)
  <2>1. PICK kind : Resolve(m, kind) /\ m.type # "SetLinkOp" /\ table' = table
    BY <1>2
       DEF HandleSearchByIdResponse, HandleRetMaxLevelResponse,
           HandleRetNeighborResponse
  <2>2. QED
    BY <1>1, <2>1, SameTightens, ResolveShape
<1>3. CASE HandleSetLinkResponse(m)
  <2>1. /\ m.type = "SetLinkOp" /\ Resolve(m, "Link")
        /\ table' = [table EXCEPT ![m.dest] = SetLinkTable(@, m)]
    BY <1>3 DEF HandleSetLinkResponse
  <2>2. m.linked # None /\ BelongsInOwnSlot(m.dest, m.level, m.dir, m.linked)
    BY Zenon, <2>1 DEF PathInv, SentInv, Backed
  <2>3. /\ m.dest \in Node /\ m.level \in Nat /\ m.dir \in Direction /\ m.linked \in Node
    BY <1>1, <2>1, <2>2, MessageTypes, LevelsAssumption DEF LinkRes, Entry, Level
  <2>4. Relinks(table, table', m.dest, m.level, m.dir, m.linked)
    BY ZenonT(30), <2>1, <2>2 DEF Relinks, SetLinkTable
  <2>5. Tightens /\ AsCloseAs(table', m.dest, m.dir, m.level, m.linked)
    BY ZenonT(30), <1>1, <2>3, <2>4, RelinksTightens
  <2>6. QED
    BY Zenon, <2>1, <2>5, ResolveShape
<1>4. QED
  BY <1>2, <1>3

(***************************************************************************)
(* Every reachable state of Join satisfies the path invariant.             *)
(***************************************************************************)
THEOREM PathInvariant == Spec => []PathInv
<1>1. Init => PathInv
  <2> SUFFICES ASSUME Init PROVE PathInv
    OBVIOUS
  <2>1. Ordered(table)
    BY ZenonT(30), InitTableAssumption DEF Init, Wired
  <2>2. SentInv /\ GotInv
    BY DEF Init, SentInv, GotInv
  <2>3. \A u \in Node : call[u] = NewTask
    BY DEF Init
  <2>4. NewTask.pc = "idle" /\ NewTask.anchor = None
    BY DEF NewTask
  <2>5. PathTasks
    BY Zenon, <2>3, <2>4 DEF PathTasks, PathTask
  <2>6. QED
    BY <2>1, <2>2, <2>5 DEF PathInv
<1>2. JoinInv /\ JoinInv' /\ PathInv /\ [Next]_vars => PathInv'
  <2> SUFFICES ASSUME JoinInv, JoinInv', PathInv, [Next]_vars PROVE PathInv'
    OBVIOUS
  <2>1. ASSUME NEW u \in Node \ Member,
               StartCall(u) \/ Resume(u) \/ TimeOut(u) \/ Cancel(u)
        PROVE  PathInv'
    BY <2>1, TaskShapes, TaskKeepsPath
  <2>2. ASSUME NEW m \in msgs, ProcessIncomingEvent(m)
        PROVE  PathInv'
    <3>1. HandlerShape(m)
      BY <2>2, SearchByIdRequestShape, ReadRequestShapes, GetLinkRequestShape, ResponseShapes
      DEF ProcessIncomingEvent
    <3>2. QED
      BY <3>1, HandlerKeepsPath
  <2>3. CASE UNCHANGED vars
    BY Zenon, <2>3 DEF vars, PathInv, SentInv, GotInv, PathTasks, PathTask, Backed, Linked
  <2>4. QED
    BY <2>1, <2>2, <2>3 DEF Next
<1>3. QED
  BY <1>1, <1>2, JoinInvariant, PTL DEF Spec

(***************************************************************************)
(* send_search_by_id_req's precondition, in every state: no search request *)
(* is past its target, and what a search resolved lies before the joining  *)
(* node, whatever the tables on the way do while the request travels.      *)
(***************************************************************************)
THEOREM SearchesNeverOvershoot == Spec => []SearchNeverOvershoots
<1>1. PathInv => SearchNeverOvershoots
  BY Zenon
     DEF PathInv, SentInv, PathTasks, PathTask, SearchNeverOvershoots,
         SearchDirection, Heading
<1>2. QED
  BY <1>1, PathInvariant, PTL

(***************************************************************************)
(* send_link_request: when a link reply is in its channel, both ends hold  *)
(* the link or a closer one.                                               *)
(***************************************************************************)
THEOREM LinkRepliesAreApplied == Spec => []LinkReplyIsApplied
<1>1. PathInv => LinkReplyIsApplied
  BY ZenonT(30) DEF PathInv, GotInv, Backed, LinkReplyIsApplied
<1>2. QED
  BY <1>1, PathInvariant, PTL

(***************************************************************************)
(* join_stage1_link_level0 returns Ok only to a node that is linked on the *)
(* side of its search, and it stays so, for any number of concurrent joins *)
(* and every loss, delay and reordering of messages.                       *)
(***************************************************************************)
THEOREM OkJoinsAreLinked == Spec => []OkMeansLinked
<1>1. PathInv => OkMeansLinked
  <2> SUFFICES ASSUME PathInv, NEW u \in Node, call[u].pc = "ok"
               PROVE  LET sdir == SearchDirection(u)
                      IN  \E x \in Node :
                            /\ ~Precedes(sdir, x, call[u].anchor) /\ Precedes(sdir, x, u)
                            /\ AsCloseAs(table, u, Opposite(sdir), 0, x)
                            /\ AsCloseAs(table, x, sdir, 0, u)
    BY ZenonT(30) DEF OkMeansLinked
  <2>1. Linked(u, call[u])
    BY DEF PathInv, PathTasks, PathTask
  <2>2. QED
    BY ZenonT(30), <2>1 DEF Linked, SearchDirection, Heading
<1>2. QED
  BY <1>1, PathInvariant, PTL
=============================================================================

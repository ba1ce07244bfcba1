-------------------------- MODULE SequentialProofs --------------------------
(***************************************************************************)
(* Joins that do not overlap, on any network: the search of every join     *)
(* finds the nearest node, and when nothing is in progress the level-0     *)
(* slots are the sorted, doubly linked list of all joined nodes.           *)
(***************************************************************************)
EXTENDS JoinStepProofs

(***************************************************************************)
(* The handlers.  What they make of the tables t keeps the links to u and  *)
(* u's own right links.                                                    *)
(***************************************************************************)
Keeps(t, new, S, u) ==
    /\ \A n \in Node, d \in Direction : t[n][d][0] = u => new[n][d][0] = u
    /\ \A d \in Direction : IsNearest(S, u, d, t[u][d][0]) => new[u][d][0] = t[u][d][0]

(***************************************************************************)
(* Then what was right stays right.                                        *)
(***************************************************************************)
LEMMA StaysRight ==
    ASSUME NEW S \in SUBSET Node, NEW u \in Node, NEW t, NEW new, Keeps(t, new, S, u)
    PROVE  /\ \A d \in Direction : LinkedOn(t, S, u, d) => LinkedOn(new, S, u, d)
           /\ \A k, m : /\ Right(t, S, u, k, m)
                        /\ m.type = "SetLinkOp" => m.dir \in Direction
                        => Right(new, S, u, k, m)
<1>1. ASSUME NEW d \in Direction, LinkedOn(t, S, u, d) PROVE LinkedOn(new, S, u, d)
  <2>1. IsNearest(S, u, d, t[u][d][0]) /\ new[u][d][0] = t[u][d][0]
    BY <1>1 DEF LinkedOn, Keeps
  <2>2. ASSUME t[u][d][0] # None PROVE new[t[u][d][0]][Opposite(d)][0] = u
    <3>1. t[u][d][0] \in Node /\ t[t[u][d][0]][Opposite(d)][0] = u
      BY <1>1, <2>1, <2>2 DEF IsNearest, LinkedOn
    <3>2. QED
      BY SMTT(30), Zenon, <3>1, OppositeFacts DEF Keeps
  <2>3. QED
    BY Zenon, <2>1, <2>2 DEF LinkedOn
<1>2. ASSUME NEW k, NEW m, Right(t, S, u, k, m), m.type = "SetLinkOp" => m.dir \in Direction
      PROVE  Right(new, S, u, k, m)
  <2>1. ASSUME m.type = "SetLinkOp" PROVE new[m.linked][Opposite(m.dir)][0] = u
    <3>1. /\ m.linked # None /\ IsNearest(S, u, m.dir, m.linked)
          /\ t[m.linked][Opposite(m.dir)][0] = u
      BY Zenon, <1>2, <2>1 DEF Right
    <3>2. m.linked \in Node
      BY SMTT(30), Zenon, <3>1 DEF IsNearest
    <3>3. QED
      BY <1>2, <2>1, <3>1, <3>2, OppositeFacts DEF Keeps
  <2>2. QED
    BY Zenon, <1>2, <2>1 DEF Right
<1>3. QED
  BY Zenon, <1>1, <1>2

(***************************************************************************)
(* A handler that sends at most one right event under m's nonce, or moves  *)
(* m into its channel, keeps the invariant, provided that a confirmation   *)
(* it takes has linked u.                                                  *)
(***************************************************************************)
LEMMA HandlerKeepsSequential ==
    ASSUME JoinInv, JoinInv', SequentialInv, NEW m \in msgs, HandlerShape(m),
           NEW ms, msgs' = (msgs \ {m}) \cup ms, \A e, f \in ms : e = f,
           \A e \in ms : /\ e.nonce = m.nonce
                         /\ Right(table', Joined, m.nonce[1], call[m.nonce[1]], e),
           Keeps(table, table', Joined, m.nonce[1]),
           Fits(table', Joined, Linking),
           m.type = "SetLinkOp" => LinkedOn(table', Joined, m.nonce[1], m.dir),
           waiters' # waiters => ms = {}
    PROVE  SequentialInv'
<1> DEFINE u == m.nonce[1]
<1>1. /\ u \in Node /\ call[u].pc \in Awaiting /\ Right(table, Joined, u, call[u], m)
      /\ OnCourse(table, Joined, u, call[u], waiters[u])
      /\ \A v \in Node : v # u => call[v].pc \notin Awaiting
  BY Zenon, EventOfTask
<1>2. \A e \in msgs : e.nonce[1] = u
  <2>1. ASSUME NEW e \in msgs PROVE e.nonce[1] = u
    <3>1. e.nonce[1] \in Node /\ call[e.nonce[1]].pc \in Awaiting
      BY Zenon, EventOfTask
    <3>2. QED
      BY <1>1, <3>1
  <2>2. QED
    BY SMTT(30), Zenon, <2>1
<1>3. Keeps(table, table', Joined, u) /\ Joined \in SUBSET Node
  BY SMTT(30), Zenon, MemberAssumption DEF Joined
<1>4. \A e \in ms : e.nonce = m.nonce /\ Right(table', Joined, u, call[u], e)
  OBVIOUS
<1>5. m.type = "SetLinkOp" => LinkedOn(table', Joined, u, m.dir)
  OBVIOUS
<1> HIDE DEF u
<1>6. TypeOK /\ call' = call /\ Joined' = Joined /\ Linking' = Linking
  BY DEF HandlerShape, JoinInv, Joined, Linking
<1>7. \A v \in Node : \/ waiters'[v] = waiters[v] /\ replies'[v] = replies[v]
                      \/ Delivers(m, v)
  BY DEF HandlerShape
<1>8. \A v \in Node : Consistent(v, call[v], waiters'[v], replies'[v], issued'[v])
  BY <1>6 DEF JoinInv, TasksConsistent
<1>9. PICK w \in waiters[u] : w.nonce = m.nonce
  BY SMTT(30), Zenon DEF SequentialInv, SentRight, u
<1>10. Consistent(u, call[u], waiters[u], replies[u], issued[u])
  BY SMTT(30), Zenon, <1>1 DEF JoinInv, TasksConsistent
<1>11. ASSUME NEW v \in Node, Delivers(m, v)
       PROVE  /\ v = u /\ replies'[u] = replies[u] \cup {m} /\ waiters'[u] = waiters[u] \ {w}
              /\ call[u].pc = "link" => m.type = "SetLinkOp" /\ w.dir = m.dir
  <2>1. m \in replies'[v] /\ m.nonce \in call[v].rx /\ m.type = AwaitedReply(call[v].pc)
    BY <1>8, <1>11 DEF Delivers, Consistent
  <2>2. v = u
    BY <2>1, OwnNonces DEF u
  <2>3. PICK x \in waiters[v] : /\ waiters'[v] = waiters[v] \ {x}
                                /\ m.type = "SetLinkOp" => x.dir = m.dir
    BY <1>11 DEF Delivers
  <2>4. w \notin waiters'[u]
    <3>1. \A y \in waiters'[u] : \A q \in replies'[u] : y.nonce # q.nonce
      BY Zenon, <1>1, <1>8 DEF Consistent
    <3>2. QED
      BY Zenon, <1>9, <2>1, <2>2, <3>1
  <2>5. x = w
    BY <1>9, <2>2, <2>3, <2>4
  <2>6. call[u].pc = "link" => m.type = "SetLinkOp"
    BY <2>1, <2>2 DEF AwaitedReply
  <2>7. QED
    BY Zenon, <1>11, <2>2, <2>3, <2>5, <2>6 DEF Delivers
<1>12. \A v \in Node : v # u => waiters'[v] = waiters[v] /\ replies'[v] = replies[v]
  BY <1>7, <1>11
<1>13. \A e \in msgs : e.type = "SetLinkOp" => e.dir \in Direction
  BY <1>6, MessageTypes DEF LinkRes
<1>14. \A e \in msgs : Right(table', Joined, u, call[u], e)
  <2>1. ASSUME NEW e \in msgs PROVE Right(table', Joined, u, call[u], e)
    <3>1. Right(table, Joined, u, call[u], e)
      BY Zenon, <1>2 DEF SequentialInv, SentRight
    <3>2. QED
      BY Zenon, <1>1, <1>3, <1>13, <3>1, StaysRight
  <2>2. QED
    BY <2>1
<1>15. \A e \in replies[u] : Right(table', Joined, u, call[u], e)
  <2>1. ASSUME NEW e \in replies[u] PROVE Right(table', Joined, u, call[u], e)
    <3>1. Right(table, Joined, u, call[u], e)
      BY Zenon, <1>1 DEF SequentialInv, GotRight
    <3>2. e \in Reply
      BY <1>1, <1>6 DEF TypeOK
    <3>3. e.type = "SetLinkOp" => e.dir \in Direction
      BY <3>2 DEF Reply, IdSearchRes, MaxLevelRes, NeighborRes, LinkRes
    <3>4. QED
      BY Zenon, <1>1, <1>3, <3>1, <3>3, StaysRight
  <2>2. QED
    BY <2>1
<1>16. \A v \in Node : v # u => replies[v] = {}
  BY <1>1, RestingTask DEF JoinInv, TasksConsistent
<1>17. GotRight'
  <2>1. ASSUME NEW v \in Node, NEW e \in replies'[v]
        PROVE  Right(table', Joined', v, call'[v], e)
    <3>1. v = u
      BY Zenon, <1>12, <1>16, <2>1
    <3>2. e \in replies[u] \/ e = m
      BY <1>7, <1>11, <2>1, <3>1
    <3>3. QED
      BY <1>6, <1>14, <1>15, <3>1, <3>2
  <2>2. QED
    BY <2>1 DEF GotRight
<1>18. SentRight'
  <2>1. ASSUME NEW e \in msgs'
        PROVE  /\ e.nonce[1] = u
               /\ \E x \in waiters'[u] : x.nonce = e.nonce
               /\ \A f \in msgs' : f.nonce = e.nonce => f = e
               /\ Right(table', Joined, u, call[u], e)
    <3>1. CASE e \in ms
      <4>1. waiters' = waiters /\ e.nonce = m.nonce
        BY <3>1
      <4>2. \A f \in msgs' : f.nonce = m.nonce => f \in ms
        BY DEF SequentialInv, SentRight
      <4>3. QED
        BY Zenon, <1>4, <1>9, <3>1, <4>1, <4>2 DEF u
    <3>2. CASE e \in msgs /\ e # m
      <4>1. e.nonce # m.nonce /\ \A f \in msgs : f.nonce = e.nonce => f = e
        BY Zenon, <3>2 DEF SequentialInv, SentRight
      <4>2. PICK x \in waiters[u] : x.nonce = e.nonce
        BY Zenon, <1>2, <3>2 DEF SequentialInv, SentRight
      <4>3. x \in waiters'[u]
        BY <1>1, <1>7, <1>9, <1>11, <4>1, <4>2
      <4>4. \A f \in msgs' : f.nonce = e.nonce => f = e
        BY <1>4, <4>1
      <4>5. QED
        BY Zenon, <1>2, <1>14, <3>2, <4>2, <4>3, <4>4
    <3>3. QED
      BY <3>1, <3>2
  <2>2. QED
    BY SMT, ZenonT(30), <1>6, <2>1 DEF SentRight
<1>19. ASSUME NEW v \in Node PROVE OnCourse(table', Joined', v, call'[v], waiters'[v])
  <2>1. CASE v # u
    BY Zenon, <1>1, <1>6, <2>1 DEF OnCourse, Awaiting
  <2>2. CASE v = u
    <3>1. ASSUME call[u].pc = "link", NEW d \in Direction
          PROVE  LinkedOn(table', Joined, u, d) \/ \E x \in waiters'[u] : x.dir = d
      <4>1. CASE LinkedOn(table, Joined, u, d)
        BY Zenon, <1>1, <1>3, <4>1, StaysRight
      <4>2. CASE \E x \in waiters[u] : x.dir = d
        BY Zenon, <1>1, <1>5, <1>7, <1>11, <3>1, <4>2
      <4>3. QED
        BY Zenon, <1>1, <3>1, <4>1, <4>2 DEF OnCourse
    <3>2. OnCourse(table', Joined, u, call[u], waiters'[u])
      BY Zenon, <1>1, <3>1 DEF OnCourse
    <3>3. QED
      BY <1>6, <2>2, <3>2
  <2>3. QED
    BY <2>1, <2>2
<1>20. Alone'
  BY <1>6 DEF SequentialInv, Alone
<1>21. Fits(table', Joined', Linking')
  BY <1>6
<1>22. QED
  BY Zenon, <1>17, <1>18, <1>19, <1>20, <1>21 DEF SequentialInv

(***************************************************************************)
(* What a handler sends in answer to m: nothing or one right event under   *)
(* m's nonce.                                                              *)
(***************************************************************************)
Answers(m, ms) ==
    /\ \A e, f \in ms : e = f
    /\ \A e \in ms : /\ e.nonce = m.nonce
                     /\ Right(table, Joined, m.nonce[1], call[m.nonce[1]], e)

(***************************************************************************)
(* A handler that only reads its table and answers rightly keeps the       *)
(* invariant.                                                              *)
(***************************************************************************)
LEMMA ReadKeepsSequential ==
    ASSUME JoinInv, JoinInv', SequentialInv, NEW m \in msgs, HandlerShape(m),
           NEW ms, Replace(m, ms), Answers(m, ms),
           m.type # "SetLinkOp", table' = table, waiters' = waiters \/ ms = {}
    PROVE  SequentialInv'
<1>1. Keeps(table, table', Joined, m.nonce[1])
  BY DEF Keeps
<1>2. Fits(table', Joined, Linking)
  BY DEF SequentialInv
<1>3. msgs' = (msgs \ {m}) \cup ms
  BY DEF Replace
<1>4. \A e \in ms : /\ e.nonce = m.nonce
                    /\ Right(table', Joined, m.nonce[1], call[m.nonce[1]], e)
  BY DEF Answers
<1>5. \A e, f \in ms : e = f
  BY DEF Answers
<1>6. QED
  BY Zenon, <1>1, <1>2, <1>3, <1>4, <1>5, HandlerKeepsSequential

(***************************************************************************)
(* With u outside the list, a node of the list before u whose neighbour is *)
(* not before u is the nearest to u.                                       *)
(***************************************************************************)
LEMMA NearestBefore ==
    ASSUME NEW S \in SUBSET Node, NEW u \in Node \ S, NEW d \in Direction,
           NEW x \in S, Precedes(d, x, u), NEW e, IsNearest(S, x, d, e),
           e # None => Precedes(d, u, e)
    PROVE  IsNearest(S, u, Opposite(d), x)
<1>1. x \in Node /\ u \in Node /\ x # None /\ Opposite(d) \in Direction
  BY NoneAssumption, OppositeFacts
<1>2. \A a, b \in Node : Precedes(Opposite(d), a, b) <=> Precedes(d, b, a)
  BY PrecedesOrder
<1>3. ASSUME NEW z \in S, Precedes(d, z, u), Precedes(d, x, z) PROVE FALSE
  <2>1. e # None /\ e \in S /\ ~Precedes(d, z, e)
    BY <1>3 DEF IsNearest
  <2>2. z \in Node /\ e \in Node /\ Precedes(d, u, e)
    BY SMTT(30), Zenon, <2>1
  <2>3. QED
    BY SMTT(30), Zenon, <1>1, <1>3, <2>1, <2>2, PrecedesOrder
<1>4. QED
  BY <1>1, <1>2, <1>3 DEF IsNearest

(***************************************************************************)
(* handle_search_by_id_request.  It answers only when its level-0 entry is *)
(* past u, so that this node is the nearest, whatever the levels above     *)
(* hold; otherwise it relays to a joined node before u.                    *)
(***************************************************************************)
LEMMA SearchRequestSequential ==
    ASSUME WellOrdered, JoinInv, JoinInv', PathInv, SequentialInv, NEW m \in msgs,
           HandleSearchByIdRequest(m)
    PROVE  SequentialInv'
<1> DEFINE u == m.nonce[1]
           d == Heading(u, call[u])
           x == m.dest
           e == table[x][d][0]
           res == SearchById(x, table[x], m.target, m.level, m.direction)
           answer == [type |-> "SearchByIdResponse", dest |-> m.origin,
                      nonce |-> m.nonce, target |-> m.target,
                      termination_level |-> res.termination_level,
                      result |-> res.result]
           relay == [m EXCEPT !.dest = res.result, !.level = res.termination_level]
<1>1. TypeOK /\ m \in IdSearchReq /\ m.type = "SearchByIdRequest" /\ Ordered(table)
  BY MessageTypes DEF JoinInv, HandleSearchByIdRequest, PathInv
<1>2. /\ u \in Node /\ u \notin Joined /\ Right(table, Joined, u, call[u], m)
      /\ call[u].pc # "link" => Linking = {}
  BY Zenon, EventOfTask
<1>3. /\ call[u].pc = "search" /\ m.origin = u /\ m.target = u /\ m.direction = d
      /\ x \in Joined /\ Precedes(d, x, u)
  BY Zenon, <1>1, <1>2 DEF Right
<1>4. Fits(table, Joined, {})
  BY <1>2, <1>3 DEF SequentialInv
<1>5. /\ Joined \in SUBSET Node /\ x \in Node /\ d \in Direction /\ m.level \in Nat
      /\ table[x] \in Table
  BY SMTT(30), Zenon, <1>1, <1>3, HeadingType, MemberAssumption
     DEF Joined, IdSearchReq, TypeOK
<1>6. /\ \/ Replace(m, {})
         \/ m.level < LookupTableLevels /\ res.result = x /\ Replace(m, {answer})
         \/ m.level < LookupTableLevels /\ res.result # x /\ Replace(m, {relay})
      /\ table' = table /\ waiters' = waiters
  BY SMTT(30), Zenon DEF HandleSearchByIdRequest
<1>7. HandlerShape(m) /\ m.type # "SetLinkOp"
  BY SMTT(30), Zenon, <1>1, SearchByIdRequestShape
<1>8. IsNearest(Joined, x, d, e)
  BY SMTT(30), Zenon, <1>3, <1>4, <1>5 DEF Fits
<1>9. ASSUME m.level < LookupTableLevels, res.result = x
      PROVE  IsNearest(Joined, u, Opposite(d), x)
  <2>1. m.level \in Level /\ 0 \in 0..m.level
    BY SMTT(30), Zenon, <1>5, <1>9, LevelsAssumption DEF Level
  <2>2. \A l \in Level : table[x][d][l] # None => Precedes(d, x, table[x][d][l])
    BY <1>1, <1>5 DEF Ordered
  <2>3. Reachable(table[x], u, m.level, d) = {}
    BY Zenon, <1>2, <1>3, <1>5, <1>9, <2>1, <2>2, NoFallback
  <2>4. e # None => Precedes(d, u, e)
    BY Zenon, <2>1, <2>3 DEF Reachable
  <2>5. QED
    BY Zenon, <1>2, <1>3, <1>5, <1>8, <2>4, NearestBefore
<1>10. ASSUME m.level < LookupTableLevels, res.result # x
       PROVE  res.result \in Joined /\ Precedes(d, res.result, u)
  <2>1. m.level \in Level
    BY <1>5, <1>10, LevelsAssumption DEF Level
  <2>2. /\ res.result \in Node /\ res.termination_level \in 0..m.level
        /\ ~Precedes(d, u, res.result) /\ res.result = table[x][d][res.termination_level]
    <3> DEFINE found == SearchById(x, table[x], u, m.level, d)
    <3>1. res = found
      BY <1>3
    <3> HIDE DEF res, u, d, x
    <3>2. /\ found.termination_level \in 0..m.level
          /\ found.result \in Node
          /\ \/ found.result = x
             \/ /\ ~Precedes(d, u, found.result)
                /\ found.result = table[x][d][found.termination_level]
      BY <1>2, <1>5, <2>1, SearchByIdFacts
    <3> HIDE DEF found
    <3>3. QED
      BY Zenon, <1>10, <3>1, <3>2
  <2> HIDE DEF res, u, d, x
  <2>3. res.termination_level \in Level
    BY <2>1, <2>2, LevelsAssumption DEF Level
  <2>4. res.result \in Joined
    BY <1>4, <1>5, <2>2, <2>3, NoneAssumption DEF Fits
  <2>5. QED
    BY <1>2, <1>5, <2>2, <2>4, PrecedesOrder
<1> HIDE DEF res, d
<1>11. /\ answer.type = "SearchByIdResponse" /\ answer.dest = m.origin
       /\ answer.nonce = m.nonce /\ answer.result = res.result
       /\ relay.type = "SearchByIdRequest" /\ relay.nonce = m.nonce /\ relay.dest = res.result
       /\ relay.target = m.target /\ relay.origin = m.origin /\ relay.direction = m.direction
  BY SMTT(30), Zenon, <1>1 DEF IdSearchReq
<1> HIDE DEF answer, relay
<1>12. CASE Replace(m, {})
  <2>1. Answers(m, {})
    BY DEF Answers
  <2>2. QED
    BY Zenon, <1>6, <1>7, <1>12, <2>1, ReadKeepsSequential
<1>13. CASE m.level < LookupTableLevels /\ res.result = x /\ Replace(m, {answer})
  <2>1. Right(table, Joined, u, call[u], answer)
    BY Zenon, <1>3, <1>9, <1>11, <1>13 DEF Right, d
  <2>2. Answers(m, {answer})
    BY Zenon, <1>11, <2>1 DEF Answers
  <2>3. QED
    BY Zenon, <1>6, <1>7, <1>13, <2>2, ReadKeepsSequential
<1>14. CASE m.level < LookupTableLevels /\ res.result # x /\ Replace(m, {relay})
  <2>1. Right(table, Joined, u, call[u], relay)
    BY Zenon, <1>3, <1>10, <1>11, <1>14 DEF Right, d
  <2>2. Answers(m, {relay})
    BY Zenon, <1>11, <2>1 DEF Answers
  <2>3. QED
    BY Zenon, <1>6, <1>7, <1>14, <2>2, ReadKeepsSequential
<1>15. QED
  BY SMTT(30), Zenon, <1>6, <1>12, <1>13, <1>14

(***************************************************************************)
(* handle_get_max_level_request, whose answer nothing here depends on.     *)
(***************************************************************************)
LEMMA MaxLevelRequestSequential ==
    ASSUME JoinInv, JoinInv', PathInv, SequentialInv, NEW m \in msgs,
           HandleGetMaxLevelRequest(m)
    PROVE  SequentialInv'
<1> DEFINE u == m.nonce[1]
           answer == [type |-> "RetMaxLevelOp", dest |-> m.origin, nonce |-> m.nonce,
                      max_level |-> CoreMaxLevel(table[m.dest])]
<1>1. /\ m.type = "GetMaxLevelOp" /\ m.type # "SetLinkOp" /\ Replace(m, {answer})
      /\ table' = table /\ waiters' = waiters
  BY DEF HandleGetMaxLevelRequest
<1>2. Right(table, Joined, u, call[u], m)
  BY Zenon, EventOfTask
<1>3. call[u].pc = "maxlevel" /\ m.origin = u
  BY Zenon, <1>1, <1>2 DEF Right
<1>4. answer.type = "RetMaxLevelOp" /\ answer.dest = m.origin /\ answer.nonce = m.nonce
  OBVIOUS
<1> HIDE DEF answer
<1>5. Right(table, Joined, u, call[u], answer)
  BY Zenon, <1>3, <1>4 DEF Right
<1>6. Answers(m, {answer})
  BY Zenon, <1>4, <1>5 DEF Answers
<1>7. HandlerShape(m)
  BY ReadRequestShapes
<1>8. QED
  BY ZenonT(30), <1>1, <1>6, <1>7, ReadKeepsSequential

(***************************************************************************)
(* handle_get_neighbor_request: what the anchor holds towards u is u's     *)
(* neighbour on the far side.                                              *)
(***************************************************************************)
LEMMA NeighborRequestSequential ==
    ASSUME JoinInv, JoinInv', PathInv, SequentialInv, NEW m \in msgs,
           HandleGetNeighborRequest(m)
    PROVE  SequentialInv'
<1> DEFINE u == m.nonce[1]
           d == Heading(u, call[u])
           y == call[u].anchor
           e == table[y][d][0]
           answer == [type |-> "RetNeighborOp", dest |-> m.origin, nonce |-> m.nonce,
                      level |-> m.level, direction |-> m.direction,
                      neighbor |-> GetEntry(table[m.dest], m.level, m.direction)]
<1>1. /\ m.type = "GetNeighborOp" /\ m.type # "SetLinkOp" /\ Replace(m, {answer})
      /\ table' = table /\ waiters' = waiters
  BY DEF HandleGetNeighborRequest
<1>2. /\ u \in Node /\ u \notin Joined /\ Right(table, Joined, u, call[u], m)
      /\ OnCourse(table, Joined, u, call[u], waiters[u])
      /\ call[u].pc # "link" => Linking = {}
  BY Zenon, EventOfTask
<1>3. /\ call[u].pc = "neighbor" /\ m.origin = u /\ m.dest = y /\ m.level = 0
      /\ m.direction = d
  BY Zenon, <1>1, <1>2 DEF Right
<1>4. IsNearest(Joined, u, Opposite(d), y)
  BY Zenon, <1>2, <1>3 DEF OnCourse
<1>5. d \in Direction /\ Opposite(d) \in Direction /\ Opposite(Opposite(d)) = d
  BY SMTT(30), Zenon, HeadingType, OppositeFacts
<1>6. Joined \in SUBSET Node /\ y \in Joined
  <2>1. y # None
    BY Zenon, <1>2, <1>3 DEF JoinInv, TasksConsistent, Consistent
  <2>2. QED
    BY <1>4, <2>1, MemberAssumption DEF IsNearest, Joined
<1>7. IsNearest(Joined, y, d, e)
  BY Zenon, <1>2, <1>3, <1>5, <1>6 DEF SequentialInv, Fits
<1>8. answer.type = "RetNeighborOp" /\ answer.dest = m.origin /\ answer.nonce = m.nonce
      /\ answer.neighbor = e
  BY <1>3 DEF GetEntry
<1> HIDE DEF answer, d, y, e
<1>9. IsNearest(Joined, u, d, e)
  <2>1. IsNearest(Joined, y, Opposite(Opposite(d)), e)
    BY <1>5, <1>7
  <2>2. IsNearest(Joined, u, Opposite(Opposite(d)), e)
    BY Zenon, <1>2, <1>4, <1>5, <1>6, <2>1, NearestAcross
  <2>3. QED
    BY <1>5, <2>2
<1>10. Right(table, Joined, u, call[u], answer)
  BY Zenon, <1>3, <1>8, <1>9 DEF Right, d
<1>11. Answers(m, {answer})
  BY Zenon, <1>8, <1>10 DEF Answers
<1>12. HandlerShape(m)
  BY ReadRequestShapes
<1>13. QED
  BY Zenon, <1>1, <1>11, <1>12, ReadKeepsSequential

(***************************************************************************)
(* The three responses that only go into a channel.                        *)
(***************************************************************************)
LEMMA ResponseSequential ==
    ASSUME JoinInv, JoinInv', PathInv, SequentialInv, NEW m \in msgs,
           \/ HandleSearchByIdResponse(m) \/ HandleRetMaxLevelResponse(m)
           \/ HandleRetNeighborResponse(m)
    PROVE  SequentialInv'
<1>1. m.type # "SetLinkOp" /\ Replace(m, {}) /\ table' = table
  BY DEF HandleSearchByIdResponse, HandleRetMaxLevelResponse, HandleRetNeighborResponse, Resolve
<1>2. HandlerShape(m)
  BY ResponseShapes
<1>3. Answers(m, {})
  BY DEF Answers
<1>4. QED
  BY Zenon, <1>1, <1>2, <1>3, ReadKeepsSequential

(***************************************************************************)
(* The tables new and t differ at most in x's level-0 slot on side d, and  *)
(* what is written there has its place.                                    *)
(***************************************************************************)
OnlySlot(t, new, x, d) ==
    \A k \in Node, e \in Direction, l \in Level :
        new[k][e][l] # t[k][e][l] => k = x /\ e = d /\ l = 0

Placed(new, S, u, x, d) ==
    \/ x \in S /\ new[x][d][0] = u /\ IsNearest(S \cup {u}, x, d, u)
    \/ x = u /\ new[u][d][0] # None /\ IsNearest(S, u, d, new[u][d][0])

(***************************************************************************)
(* One write into a fitting list that u is being linked into: the slot of  *)
(* u's neighbour towards u gets u, or the slot of u gets its neighbour.    *)
(***************************************************************************)
LEMMA FitsWrite ==
    ASSUME NEW S \in SUBSET Node, NEW u \in Node \ S, NEW t, NEW new,
           NEW x \in Node, NEW d \in Direction, Fits(t, S, {u}),
           OnlySlot(t, new, x, d), Placed(new, S, u, x, d)
    PROVE  Fits(new, S, {u}) /\ Keeps(t, new, S, u)
<1> DEFINE c == new[x][d][0]
<1> USE DEF OnlySlot, Placed
<1>1. 0 \in Level /\ u # None
  BY SMTT(30), Zenon, LevelsAssumption, NoneAssumption DEF Level
<1>2. c \in S \cup {u}
  BY DEF IsNearest
<1>3. \A k \in Node, e \in Direction : k # x \/ e # d => new[k][e][0] = t[k][e][0]
  BY <1>1
<1>4. \A k \in Node, e \in Direction, l \in Level : new[k][e][l] \in S \cup {u} \cup {None}
  <2>1. ASSUME NEW k \in Node, NEW e \in Direction, NEW l \in Level
        PROVE  new[k][e][l] \in S \cup {u} \cup {None}
    <3>1. CASE new[k][e][l] = t[k][e][l]
      BY <3>1 DEF Fits
    <3>2. CASE new[k][e][l] # t[k][e][l]
      BY SMTT(30), Zenon, <1>2, <3>2
    <3>3. QED
      BY SMTT(30), Zenon, <3>1, <3>2
  <2>2. QED
    BY SMTT(30), Zenon, <2>1
<1>5. ASSUME NEW k \in S, NEW e \in Direction
      PROVE  \/ IsNearest(S, k, e, new[k][e][0])
             \/ new[k][e][0] \in {u} /\ IsNearest(S \cup {new[k][e][0]}, k, e, new[k][e][0])
  <2>1. CASE k = x /\ e = d
    BY Zenon, <2>1
  <2>2. CASE ~(k = x /\ e = d)
    <3>1. new[k][e][0] = t[k][e][0]
      BY SMTT(30), Zenon, <1>3, <2>2
    <3>2. QED
      BY Zenon, <3>1 DEF Fits
  <2>3. QED
    BY <2>1, <2>2
<1>6. ASSUME NEW k \in Node \ S, NEW e \in Direction
      PROVE  \/ new[k][e][0] = None
             \/ k \in {u} /\ IsNearest(S, k, e, new[k][e][0])
  <2>1. CASE k = x /\ e = d
    BY <2>1
  <2>2. CASE ~(k = x /\ e = d)
    <3>1. new[k][e][0] = t[k][e][0]
      BY <1>3, <2>2
    <3>2. QED
      BY Zenon, <3>1 DEF Fits
  <2>3. QED
    BY SMTT(30), Zenon, <2>1, <2>2
<1>7. Fits(new, S, {u})
  BY Zenon, <1>4, <1>5, <1>6 DEF Fits
<1>8. ASSUME NEW k \in Node, NEW e \in Direction, t[k][e][0] = u PROVE new[k][e][0] = u
  <2>1. CASE k = x /\ e = d /\ x = u
    <3>1. IsNearest(S, u, d, u)
      BY SMTT(30), Zenon, <1>1, <1>8, <2>1 DEF Fits
    <3>2. QED
      BY SMTT(30), Zenon, <1>1, <3>1 DEF IsNearest
  <2>2. CASE k = x /\ e = d /\ x # u
    BY <2>2
  <2>3. CASE ~(k = x /\ e = d)
    BY SMTT(30), Zenon, <1>3, <1>8, <2>3
  <2>4. QED
    BY SMTT(30), Zenon, <2>1, <2>2, <2>3
<1>9. ASSUME NEW e \in Direction, IsNearest(S, u, e, t[u][e][0])
      PROVE  new[u][e][0] = t[u][e][0]
  <2>1. CASE u = x /\ e = d
    <3>1. IsNearest(S, u, d, c)
      BY <2>1
    <3>2. QED
      BY ZenonT(30), <1>9, <2>1, <3>1, NearestUnique
  <2>2. CASE ~(u = x /\ e = d)
    BY SMTT(30), Zenon, <1>3, <2>2
  <2>3. QED
    BY <2>1, <2>2
<1>10. QED
  BY Zenon, <1>7, <1>8, <1>9 DEF Keeps

(***************************************************************************)
(* A slot that is empty or holds c or a node past it, and the table new    *)
(* that has c in that slot and is lt otherwise.                            *)
(***************************************************************************)
Open(lt, d, c) == lt[d][0] = None \/ ~Precedes(d, lt[d][0], c)

Takes(lt, new, d, c) ==
    /\ new[d][0] = c
    /\ \A e \in Direction, l \in Level : (e # d \/ l # 0) => new[e][l] = lt[e][l]

(***************************************************************************)
(* try_relink links a claimant c into an open slot.                        *)
(***************************************************************************)
LEMMA RelinkedSlot ==
    ASSUME NEW lt \in Table, NEW d \in Direction, NEW c \in Node, Open(lt, d, c)
    PROVE  /\ LinkOutcome(lt, 0, d, c) = "LinkedDirectly"
           /\ Takes(lt, TryRelink(lt, 0, d, c), d, c)
<1>1. 0 \in Level
  BY SMTT(30), Zenon, LevelsAssumption DEF Level
<1>2. QED
  BY <1>1, TryRelinkFacts, NoneAssumption DEF Open, Takes

(***************************************************************************)
(* A node that is nearest to u on a side, and whose slot fits, has nobody  *)
(* in between.                                                             *)
(***************************************************************************)
LEMMA NobodyBetween ==
    ASSUME NEW S \in SUBSET Node, NEW u \in Node \ S, NEW q \in Direction, NEW y \in S,
           IsNearest(S, u, Opposite(q), y), NEW t, Fits(t, S, {u})
    PROVE  Open(t[y], q, u)
<1> DEFINE e == t[y][q][0]
<1> SUFFICES ASSUME e # None PROVE ~Precedes(q, e, u)
  BY DEF Open
<1>1. y \in Node /\ u \in Node /\ y # None /\ e \in Node
  BY NoneAssumption, LevelsAssumption DEF Fits, Level
<1>2. \A a, b \in Node : Precedes(Opposite(q), a, b) <=> Precedes(q, b, a)
  BY PrecedesOrder
<1>3. Precedes(q, y, u) /\ \A x \in S : Precedes(q, x, u) => ~Precedes(q, y, x)
  BY SMTT(30), Zenon, <1>1, <1>2 DEF IsNearest
<1>4. CASE e = u
  BY SMTT(30), Zenon, <1>1, <1>3, <1>4, PrecedesOrder
<1>5. CASE e # u
  <2>1. IsNearest(S, y, q, e)
    BY Zenon, <1>5 DEF Fits
  <2>2. e \in S /\ Precedes(q, y, e)
    BY <1>1, <2>1 DEF IsNearest
  <2>3. QED
    BY <1>3, <2>2
<1>6. QED
  BY <1>4, <1>5

(***************************************************************************)
(* handle_get_link_request.  The receiver is the node nearest to u, so it  *)
(* relinks its slot and confirms: without overlap nothing is forwarded and *)
(* nothing is dropped.                                                     *)
(***************************************************************************)
LEMMA GetLinkSequential ==
    ASSUME JoinInv, JoinInv', PathInv, SequentialInv, NEW m \in msgs,
           HandleGetLinkRequest(m)
    PROVE  SequentialInv'
<1> DEFINE u == m.nonce[1]
           y == m.dest
           q == m.dir
           lt == table[y]
           new == TryRelink(lt, 0, q, u)
           confirm == SetLinkOp(u, m.nonce, Opposite(q), 0, y)
           ms == {confirm}
<1>1. TypeOK /\ m \in LinkReq /\ m.type = "GetLinkOp"
  BY MessageTypes DEF JoinInv, HandleGetLinkRequest
<1>2. /\ u \in Node /\ u \notin Joined /\ Right(table, Joined, u, call[u], m)
      /\ call[u].pc = "link" => Linking = {u}
  BY Zenon, EventOfTask
<1>3. /\ call[u].pc = "link" /\ m.candidate = u /\ m.level = 0
      /\ IsNearest(Joined, u, Opposite(q), y)
  BY Zenon, <1>1, <1>2 DEF Right
<1>4. /\ y \in Node /\ q \in Direction /\ Opposite(q) \in Direction /\ Opposite(Opposite(q)) = q
      /\ 0 \in Level /\ lt \in Table /\ table \in [Node -> Table] /\ y # None
      /\ Joined \in SUBSET Node
  BY SMTT(30), Zenon, <1>1, LevelsAssumption, NoneAssumption, OppositeFacts, MemberAssumption
  DEF LinkReq, TypeOK, Level, Joined
<1>5. y \in Joined /\ Fits(table, Joined, {u})
  BY <1>2, <1>3, <1>4 DEF IsNearest, SequentialInv
<1>6. /\ table' = [table EXCEPT ![m.dest] = GetLinkTable(@, m)]
      /\ Replace(m, GetLinkSends(table[m.dest], m)) /\ waiters' = waiters
  BY DEF HandleGetLinkRequest
<1>7. HandlerShape(m)
  BY GetLinkRequestShape
<1>8. Precedes(q, y, u)
  BY Zenon, <1>2, <1>3, <1>4, PrecedesOrder DEF IsNearest
<1>9. BelongsInOwnSlot(y, 0, q, u)
  BY <1>8, LevelsAssumption DEF BelongsInOwnSlot, PrefixMatch
<1>10. /\ LinkOutcome(lt, 0, q, u) = "LinkedDirectly"
       /\ Takes(lt, new, q, u)
  <2>1. Open(lt, q, u)
    BY Zenon, <1>2, <1>3, <1>4, <1>5, NobodyBetween
  <2>2. QED
    BY Zenon, <1>2, <1>4, <2>1, RelinkedSlot
<1>11. GetLinkTable(lt, m) = new /\ GetLinkSends(lt, m) = ms
  BY Zenon, <1>3, <1>9, <1>10 DEF GetLinkTable, GetLinkSends, GetLinkBelongs
<1>12. /\ confirm.type = "SetLinkOp" /\ confirm.dest = u /\ confirm.nonce = m.nonce
       /\ confirm.dir = Opposite(q) /\ confirm.level = 0 /\ confirm.linked = y
  BY DEF SetLinkOp
<1> HIDE DEF new, confirm
<1>13. /\ \A e, f \in ms : e = f
       /\ \A e \in ms : e = confirm
  OBVIOUS
<1> HIDE DEF ms, lt, u, y, q
<1>14. table' = [table EXCEPT ![y] = new] /\ msgs' = (msgs \ {m}) \cup ms
  BY SMTT(30), Zenon, <1>6, <1>11 DEF Replace, lt, y
<1>15. table'[y][q][0] = u /\ OnlySlot(table, table', y, q)
  BY <1>4, <1>10, <1>14 DEF lt, Takes, OnlySlot
<1>16. IsNearest(Joined \cup {u}, y, q, u)
  <2>1. IsNearest(Joined \cup {u}, y, Opposite(Opposite(q)), u)
    BY Zenon, <1>2, <1>3, <1>4, NearestInserted
  <2>2. QED
    BY <1>4, <2>1
<1>17. Fits(table', Joined, {u}) /\ Keeps(table, table', Joined, u)
  <2>1. Placed(table', Joined, u, y, q)
    BY <1>5, <1>15, <1>16 DEF Placed
  <2>2. QED
    BY Zenon, <1>2, <1>4, <1>5, <1>15, <2>1, FitsWrite
<1>18. Right(table', Joined, u, call[u], confirm)
  <2>1. table'[y][Opposite(Opposite(q))][0] = u
    BY <1>4, <1>15
  <2>2. QED
    BY ZenonT(30), <1>3, <1>4, <1>12, <2>1 DEF Right
<1>19. \A e \in ms : e.nonce = m.nonce /\ Right(table', Joined, u, call[u], e)
  BY Zenon, <1>12, <1>13, <1>18
<1>20. Fits(table', Joined, Linking) /\ m.type # "SetLinkOp"
  BY SMTT(30), Zenon, <1>1, <1>2, <1>3, <1>17
<1>21. QED
  BY Zenon, <1>6, <1>7, <1>13, <1>14, <1>17, <1>19, <1>20, HandlerKeepsSequential DEF u

(***************************************************************************)
(* handle_set_link_response: u's slot is empty or holds the node that      *)
(* confirms, and holds it afterwards, so that this side is linked.         *)
(***************************************************************************)
LEMMA SetLinkSequential ==
    ASSUME JoinInv, JoinInv', PathInv, SequentialInv, NEW m \in msgs,
           HandleSetLinkResponse(m)
    PROVE  SequentialInv'
<1> DEFINE u == m.nonce[1]
           y == m.linked
           d == m.dir
           lt == table[u]
           new == TryRelink(lt, 0, d, y)
           ms == {}
<1>1. TypeOK /\ m \in LinkRes /\ m.type = "SetLinkOp"
  BY MessageTypes DEF JoinInv, HandleSetLinkResponse
<1>2. /\ u \in Node /\ u \notin Joined /\ Right(table, Joined, u, call[u], m)
      /\ call[u].pc = "link" => Linking = {u}
  BY Zenon, EventOfTask
<1>3. /\ call[u].pc = "link" /\ m.dest = u /\ m.level = 0 /\ y # None
      /\ IsNearest(Joined, u, d, y) /\ table[y][Opposite(d)][0] = u
  BY Zenon, <1>1, <1>2 DEF Right
<1>4. /\ d \in Direction /\ Opposite(d) \in Direction /\ 0 \in Level
      /\ lt \in Table /\ table \in [Node -> Table] /\ Joined \in SUBSET Node
  BY SMTT(30), Zenon, <1>1, <1>2, LevelsAssumption, OppositeFacts, MemberAssumption
  DEF LinkRes, TypeOK, Level, Joined
<1>5. y \in Joined /\ y \in Node /\ Precedes(d, u, y) /\ Fits(table, Joined, {u})
  BY Zenon, <1>2, <1>3, <1>4 DEF IsNearest, SequentialInv
<1>6. /\ table' = [table EXCEPT ![m.dest] = SetLinkTable(@, m)] /\ Replace(m, {})
  BY DEF HandleSetLinkResponse, Resolve
<1>7. HandlerShape(m)
  BY ResponseShapes
<1>8. BelongsInOwnSlot(u, 0, d, y)
  BY <1>5, LevelsAssumption DEF BelongsInOwnSlot, PrefixMatch
<1>9. SetLinkTable(lt, m) = new
  BY Zenon, <1>3, <1>8 DEF SetLinkTable
<1>10. lt[d][0] \in {y, None}
  <2>1. lt[d][0] = None \/ IsNearest(Joined, u, d, lt[d][0])
    BY Zenon, <1>2, <1>4, <1>5 DEF Fits
  <2>2. QED
    BY Zenon, <1>2, <1>3, <1>4, <2>1, NearestUnique
<1>11. Open(lt, d, y)
  BY Zenon, <1>4, <1>5, <1>10, PrecedesOrder DEF Open
<1>12. Takes(lt, new, d, y)
  BY Zenon, <1>4, <1>5, <1>11, RelinkedSlot
<1> HIDE DEF new, lt, u, y, d
<1>13. table' = [table EXCEPT ![u] = new]
  BY SMTT(30), Zenon, <1>3, <1>6, <1>9 DEF lt
<1>14. table'[u][d][0] = y /\ OnlySlot(table, table', u, d)
  BY <1>2, <1>4, <1>12, <1>13 DEF lt, Takes, OnlySlot
<1>15. Fits(table', Joined, {u}) /\ Keeps(table, table', Joined, u)
  <2>1. Placed(table', Joined, u, u, d)
    BY <1>3, <1>14 DEF Placed
  <2>2. QED
    BY Zenon, <1>2, <1>4, <1>5, <1>14, <2>1, FitsWrite
<1>16. LinkedOn(table', Joined, u, d)
  <2>1. table'[y][Opposite(d)][0] = u
    BY SMTT(30), Zenon, <1>3, <1>4, <1>5, <1>15 DEF Keeps
  <2>2. QED
    BY Zenon, <1>3, <1>14, <2>1 DEF LinkedOn
<1>17. /\ msgs' = (msgs \ {m}) \cup ms /\ \A e, f \in ms : e = f
       /\ \A e \in ms : e.nonce = m.nonce /\ Right(table', Joined, u, call[u], e)
  BY SMTT(30), Zenon, <1>6 DEF Replace
<1>18. Fits(table', Joined, Linking) /\ ms = {}
  BY SMTT(30), Zenon, <1>2, <1>3, <1>15
<1> HIDE DEF ms
<1>19. QED
  BY Zenon, <1>7, <1>15, <1>16, <1>17, <1>18, HandlerKeepsSequential DEF u, d

-----------------------------------------------------------------------------
(***************************************************************************)
(* The steps of a task that joins alone preserve the invariant.            *)
(***************************************************************************)
LEMMA TaskStepsSequential ==
    ASSUME JoinInv, JoinInv', SequentialInv, NEW u \in Node \ Member,
           (Quiescent /\ StartCall(u)) \/ Resume(u)
    PROVE  SequentialInv'
<1>1. CASE Quiescent /\ StartCall(u)
  <2>1. Joined \subseteq Node /\ StartLevels \cup {call[u].level} \subseteq Nat
    BY Zenon, MemberAssumption, BoundsAssumption DEF JoinInv, TypeOK, Task, Joined
  <2>2. \/ \E i \in Node : GetMaxLevel(u, i)
        \/ \E i \in Joined \cup {u}, level \in Nat : JoinStage1(u, i, level)
    BY SMTT(30), Zenon, <1>1, <2>1 DEF StartCall
  <2>3. QED
    BY Zenon, <1>1, <2>2, GetMaxLevelSequential, JoinStage1Sequential
<1>2. CASE Resume(u)
  <2>1. PICK r \in replies[u] : \/ ResumeMaxLevel(u, r) \/ ResumeSearch(u, r)
                                \/ ResumeNeighbor(u, r) \/ ResumeLink(u, r)
    BY SMTT(30), Zenon, <1>2 DEF Resume
  <2>2. QED
    BY Zenon, <2>1, ResumeMaxLevelSequential, ResumeSearchSequential,
       ResumeNeighborSequential, ResumeLinkSequential
<1>3. QED
  BY <1>1, <1>2

(***************************************************************************)
(* The network at the start is a sorted list with no join under way.       *)
(***************************************************************************)
LEMMA InitialSequential == Init => SequentialInv
<1> SUFFICES ASSUME Init PROVE SequentialInv
  OBVIOUS
<1>1. NewTask.pc = "idle"
  BY DEF NewTask
<1>2. \A u \in Node : call[u].pc = "idle" /\ replies[u] = {}
  BY Zenon, <1>1 DEF Init
<1>3. Joined = Member /\ Linking = {} /\ "idle" \notin Awaiting
  BY <1>2 DEF Joined, Linking, Awaiting
<1>4. Alone /\ GotRight
  BY Zenon, <1>2, <1>3 DEF Alone, GotRight
<1>5. SentRight
  BY DEF Init, SentRight
<1>6. \A u \in Node : OnCourse(table, Joined, u, call[u], waiters[u])
  BY Zenon, <1>2 DEF OnCourse, Awaiting
<1>7. Fits(table, Joined, Linking)
  <2>1. table = InitTable /\ 0 \in Level
    BY LevelsAssumption DEF Init, Level
  <2>2. Fits(InitTable, Member, {})
    BY <2>1, ListAssumption, MemberAssumption DEF Fits
  <2>3. QED
    BY Zenon, <1>3, <2>1, <2>2
<1>8. QED
  BY Zenon, <1>4, <1>5, <1>6, <1>7 DEF SequentialInv

(***************************************************************************)
(* Every step of joins that do not overlap preserves the invariant.        *)
(***************************************************************************)
LEMMA NextSequential ==
    WellOrdered /\ JoinInv /\ JoinInv' /\ PathInv /\ SequentialInv /\ [SequentialNext]_vars
        => SequentialInv'
<1> SUFFICES ASSUME WellOrdered, JoinInv, JoinInv', PathInv, SequentialInv, [SequentialNext]_vars
             PROVE  SequentialInv'
  OBVIOUS
<1>1. ASSUME NEW u \in Node \ Member, (Quiescent /\ StartCall(u)) \/ Resume(u)
      PROVE  SequentialInv'
  BY Zenon, <1>1, TaskStepsSequential
<1>2. ASSUME NEW m \in msgs, ProcessIncomingEvent(m)
      PROVE  SequentialInv'
  BY Zenon, <1>2, SearchRequestSequential, MaxLevelRequestSequential,
     NeighborRequestSequential, ResponseSequential, GetLinkSequential, SetLinkSequential
  DEF ProcessIncomingEvent
<1>3. CASE UNCHANGED vars
  <2>1. /\ table' = table /\ msgs' = msgs /\ waiters' = waiters
        /\ replies' = replies /\ call' = call
    BY <1>3 DEF vars
  <2>2. QED
    BY Zenon, <2>1 DEF SequentialInv, Alone, SentRight, GotRight, Linking, Joined
<1>4. QED
  BY Zenon, <1>1, <1>2, <1>3 DEF SequentialNext

(***************************************************************************)
(* By the invariant, a search that was answered named the nearest node.    *)
(***************************************************************************)
LEMMA SearchNearest == JoinInv /\ SequentialInv => SearchFindsNearest
<1> SUFFICES ASSUME JoinInv, SequentialInv, NEW u \in Node, call[u].pc = "neighbor"
             PROVE  call[u].anchor = Nearest(Joined, u, Opposite(SearchDirection(u)), 0)
  BY DEF SearchFindsNearest
<1>1. SearchDirection(u) = Heading(u, call[u])
  BY DEF SearchDirection, Heading
<1>2. IsNearest(Joined, u, Opposite(SearchDirection(u)), call[u].anchor)
  BY Zenon, <1>1 DEF SequentialInv, OnCourse
<1>3. Opposite(SearchDirection(u)) \in Direction /\ Joined \in SUBSET Node
  BY MemberAssumption DEF SearchDirection, Opposite, Direction, Joined
<1>4. QED
  BY Zenon, <1>2, <1>3, NearestIs

(***************************************************************************)
(* With no join under way the level-0 list is the sorted, doubly linked    *)
(* list of all joined nodes, however many joins ran, from whichever        *)
(* introducer and level, in whatever order.                                *)
(***************************************************************************)
LEMMA QuietListSorted ==
    ASSUME JoinInv, SequentialInv,
           Cardinality(Joined) \in Nat, \E ids : ids \in Ascending(Joined)
    PROVE  SequentialJoinsSort
<1> SUFFICES ASSUME Quiescent
             PROVE  \E ids \in Ascending(Joined) : DoublyLinkedAtLevel(ids, table, 0)
  BY DEF SequentialJoinsSort
<1>1. Joined \in SUBSET Node
  BY MemberAssumption DEF Joined
<1>2. PICK ids : ids \in Ascending(Joined)
  OBVIOUS
<1>3. Linking = {}
  BY DEF Quiescent, Linking, Awaiting
<1>4. \A x \in Joined, d \in Direction : IsNearest(Joined, x, d, table[x][d][0])
  BY <1>3 DEF SequentialInv, Fits
<1>5. Len(ids) = Cardinality(Joined)
  BY <1>2 DEF Ascending
<1>6. "Left" \in Direction /\ "Right" \in Direction
  BY DEF Direction
<1>7. ASSUME NEW i \in 1..Len(ids)
      PROVE  /\ table[ids[i]]["Left"][0] = IF i = 1 THEN None ELSE ids[i - 1]
             /\ table[ids[i]]["Right"][0] = IF i = Len(ids) THEN None ELSE ids[i + 1]
  <2> DEFINE x == ids[i]
             a == IF i = 1 THEN None ELSE ids[i - 1]
             b == IF i = Len(ids) THEN None ELSE ids[i + 1]
  <2>1. x \in Joined /\ IsNearest(Joined, x, "Left", a) /\ IsNearest(Joined, x, "Right", b)
    BY <1>1, <1>2, <1>5, AscendingNearest
  <2> HIDE DEF x, a, b
  <2>2. x \in Node
    BY <1>1, <2>1
  <2>3. table[x]["Left"][0] = a
    BY Zenon, <1>1, <1>4, <1>6, <2>1, <2>2, NearestUnique
  <2>4. table[x]["Right"][0] = b
    BY Zenon, <1>1, <1>4, <1>6, <2>1, <2>2, NearestUnique
  <2>5. QED
    BY <2>3, <2>4 DEF x, a, b
<1>8. DoublyLinkedAtLevel(ids, table, 0)
  BY Zenon, <1>7 DEF DoublyLinkedAtLevel, GetEntry
<1>9. QED
  BY <1>2, <1>8

-----------------------------------------------------------------------------
INSTANCE WellFoundedInduction

(***************************************************************************)
(* The naturals are well ordered, because < is well founded on them.       *)
(***************************************************************************)
LEMMA NaturalsWellOrdered == WellOrdered
<1> DEFINE R == OpToRel(<, Nat)
<1>1. \A x, y \in Nat : y < x => <<y, x>> \in R
  BY DEF OpToRel
<1>2. IsWellFoundedOn(R, Nat)
  BY NatLessThanWellFounded
<1> HIDE DEF R
<1>3. ASSUME NEW T \in SUBSET Nat, T # {} PROVE \E x \in T : \A y \in T : x =< y
  <2>1. PICK x \in T : \A y \in T : ~(<<y, x>> \in R)
    BY <1>2, <1>3, WFMin
  <2>2. \A y \in T : x \in Nat /\ y \in Nat /\ ~(y < x)
    BY <1>1, <2>1, Zenon
  <2>3. \A y \in T : x =< y
    BY <2>2, SMT
  <2>4. QED
    BY <2>3, Zenon
<1>4. QED
  BY <1>3, Zenon DEF WellOrdered

(***************************************************************************)
(* Joins that do not overlap keep the tables a sorted level-0 list into    *)
(* which at most one node is being linked, between its two neighbours.     *)
(***************************************************************************)
THEOREM SequentialInvariant == SequentialSpec => []SequentialInv
<1>1. SequentialSpec => Spec
  <2>1. SequentialNext => Next
    BY DEF SequentialNext, Next
  <2>2. QED
    BY <2>1, PTL DEF SequentialSpec, Spec
<1>2. QED
  BY <1>1, NextSequential, NaturalsWellOrdered, InitialSequential, JoinInvariant, PathInvariant, PTL
     DEF SequentialSpec

(***************************************************************************)
(* The search of a join that overlaps with no other ends at the joined     *)
(* node nearest to the joining one on the introducer's side.               *)
(***************************************************************************)
THEOREM SearchesFindNearest == SequentialSpec => []SearchFindsNearest
<1>1. SequentialSpec => []JoinInv
  <2>1. SequentialNext => Next
    BY DEF SequentialNext, Next
  <2>2. QED
    BY <2>1, JoinInvariant, PTL DEF SequentialSpec, Spec
<1>2. QED
  BY <1>1, SearchNearest, SequentialInvariant, PTL

-----------------------------------------------------------------------------
INSTANCE FiniteSetTheorems

(***************************************************************************)
(* A finite set of naturals has an ascending list, by a least set that has *)
(* none.                                                                   *)
(***************************************************************************)
LEMMA AscendingExists ==
    ASSUME NEW S \in SUBSET Nat, IsFiniteSet(S)
    PROVE  \E ids : ids \in Ascending(S)
<1> DEFINE Bad(T) == T \in SUBSET Nat /\ IsFiniteSet(T) /\ ~\E ids : ids \in Ascending(T)
           sizes  == {n \in Nat : \E T : Bad(T) /\ Cardinality(T) = n}
<1> SUFFICES ASSUME Bad(S) PROVE FALSE
  OBVIOUS
<1>1. sizes # {} /\ sizes \subseteq Nat
  BY Zenon, FS_CardinalityType
<1>2. PICK n \in sizes : \A k \in sizes : n =< k
  BY Zenon, <1>1, LeastNatural, NaturalsWellOrdered
<1>3. PICK T : Bad(T) /\ Cardinality(T) = n
  BY <1>2
<1>4. T # {}
  <2> SUFFICES ASSUME T = {} PROVE FALSE
    OBVIOUS
  <2>1. Cardinality(T) = 0
    BY FS_EmptySet
  <2>2. [i \in 1..0 |-> i] \in Ascending(T)
    BY <2>1 DEF Ascending
  <2>3. QED
    BY <1>3, <2>2
<1>5. PICK x \in T : \A y \in T : x =< y
  BY Zenon, <1>3, <1>4, LeastNatural, NaturalsWellOrdered
<1>6. IsFiniteSet(T \ {x}) /\ Cardinality(T \ {x}) = n - 1 /\ n - 1 \in Nat /\ n \in Nat \ {0}
  <2>1. IsFiniteSet(T) /\ Cardinality(T) = n /\ n \in Nat /\ n # 0
    BY <1>3, <1>4, FS_CardinalityType, FS_EmptySet
  <2>2. IsFiniteSet(T \ {x}) /\ Cardinality(T \ {x}) = n - 1
    BY <1>5, <2>1, FS_RemoveElement
  <2>3. QED
    BY <2>1, <2>2
<1>7. ~Bad(T \ {x})
  <2>1. n - 1 \notin sizes
    BY <1>2, <1>6
  <2>2. QED
    BY Zenon, <1>6, <2>1
<1>8. PICK rest : rest \in Ascending(T \ {x})
  BY <1>3, <1>6, <1>7
<1>9. \E ids : ids \in Ascending(T)
  BY <1>3, <1>5, <1>6, <1>8, AscendingPrepend
<1>10. QED
  BY <1>3, <1>9

(***************************************************************************)
(* Joins that do not overlap sort the network: what the tests assert of a  *)
(* few joins with assert_doubly_linked_at_level holds of any number.       *)
(***************************************************************************)
THEOREM SequentialJoinsAreSorted == SequentialSpec => []SequentialJoinsSort
<1>1. JoinInv /\ SequentialInv => SequentialJoinsSort
  <2>1. Joined \in SUBSET Node
    BY MemberAssumption DEF Joined
  <2>2. Joined \in SUBSET Nat /\ IsFiniteSet(Joined)
    BY Zenon, <2>1, NodeAssumption, NodesAssumption, FS_Subset
  <2>3. QED
    BY Zenon, <2>2, AscendingExists, FS_CardinalityType, QuietListSorted
<1>2. SequentialSpec => []JoinInv
  <2>1. SequentialNext => Next
    BY DEF SequentialNext, Next
  <2>2. QED
    BY <2>1, JoinInvariant, PTL DEF SequentialSpec, Spec
<1>3. QED
  BY <1>1, <1>2, SequentialInvariant, PTL
=============================================================================

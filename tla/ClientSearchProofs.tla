------------------------- MODULE ClientSearchProofs -------------------------
(***************************************************************************)
(* Proofs about ClientSearch, for any network, number of levels and number *)
(* of concurrent searches: answers are right and reach their callers, and  *)
(* the waiter maps hold what is awaited.                                   *)
(***************************************************************************)
EXTENDS ClientSearch, NodeCoreProofs

(***************************************************************************)
(* The local search of a node: a neighbour it names lies between the node  *)
(* and the target, and it names itself only if the search ends there.      *)
(* Only the bottom level is needed for this.                               *)
(***************************************************************************)
LEMMA SearchFacts ==
    ASSUME WellOrdered, lt \in Tables, NEW n \in Node, NEW target \in Node, NEW level \in Level, NEW d \in Direction
    PROVE  LET found == Search(n, target, level, d)
           IN  /\ found.result \in Node
               /\ found.termination_level \in Level
               /\ found.result # n => /\ ~Precedes(d, target, found.result)
                                      /\ ~Precedes(d, target, n)
               /\ found.result = n => IsNearest(n, n, target, d)
<1> DEFINE found == SearchById(n, lt[n], target, level, d)
<1>1. lt \in [Node -> Table] /\ Ordered(lt) /\ BottomComplete(lt)
  BY ClientAssumption
<1>2. lt[n] \in Table /\ \A l \in Level : lt[n][d][l] # None => Precedes(d, n, lt[n][d][l])
  BY <1>1 DEF Ordered
<1>3. /\ found.result \in Node
      /\ found.termination_level \in 0..level
      /\ \/ found.result = n
         \/ /\ ~Precedes(d, target, found.result)
            /\ found.result = lt[n][d][found.termination_level]
  BY <1>2, SearchByIdFacts
<1>4. found.termination_level \in Level /\ 0 \in Level /\ 0 \in 0..level
  BY <1>3, LevelsAssumption DEF Level
<1>5. ASSUME found.result # n
      PROVE  ~Precedes(d, target, found.result) /\ ~Precedes(d, target, n)
  <2>1. found.result # None /\ Precedes(d, n, found.result)
    BY <1>2, <1>3, <1>4, <1>5, NoneAssumption
  <2>2. QED
    BY <1>3, <1>5, <2>1, PrecedesOrder
<1>6. ASSUME found.result = n
      PROVE  IsNearest(n, n, target, d)
  <2> SUFFICES ASSUME ~Precedes(d, target, n), NEW m \in Node, Precedes(d, n, m), ~Precedes(d, target, m)
               PROVE  FALSE
    BY DEF IsNearest
  <2>1. lt[n][d][0] # None /\ ~Precedes(d, m, lt[n][d][0])
    BY <1>1 DEF BottomComplete
  <2>2. lt[n][d][0] \in Node
    BY <1>2, <1>4, <2>1 DEF Table, Entry
  <2>3. ~Precedes(d, target, lt[n][d][0])
    BY <2>1, <2>2, PrecedesOrder
  <2>4. 0 \in Reachable(lt[n], target, level, d)
    BY <1>4, <2>1, <2>3 DEF Reachable
  <2>5. QED
    BY <1>2, <1>6, <2>4, NoFallback
<1>7. QED
  BY <1>3, <1>4, <1>5, <1>6 DEF Search

(***************************************************************************)
(* The answer a relay reaches is that of the origin, if neither is past    *)
(* the target.                                                             *)
(***************************************************************************)
LEMMA NearestFromOrigin ==
    ASSUME NEW r \in Node, NEW n \in Node, NEW target \in Node, NEW d \in Direction,
           IsNearest(r, r, target, d), ~Precedes(d, target, r), ~Precedes(d, target, n)
    PROVE  IsNearest(r, n, target, d)
BY DEF IsNearest

-----------------------------------------------------------------------------
(***************************************************************************)
(* Dropping a waiter's sender changes nothing but that call's channel.     *)
(***************************************************************************)
LEMMA DropSenderFacts ==
    ASSUME call \in [Call -> Invocation], NEW w \in Call \cup {None}
    PROVE  LET new == DropSender(call, w)
           IN  /\ new \in [Call -> Invocation]
               /\ \A b \in Call : b # w => new[b] = call[b]
               /\ w # None => new[w].chan # "open"
               /\ \A b \in Call : /\ new[b].pc = call[b].pc /\ new[b].node = call[b].node
                                  /\ new[b].nonce = call[b].nonce /\ new[b].target = call[b].target
                                  /\ new[b].dir = call[b].dir /\ new[b].res = call[b].res
                                  /\ new[b].chan = "sent" <=> call[b].chan = "sent"
<1> DEFINE new == DropSender(call, w)
<1>1. CASE w # None /\ call[w].chan = "open"
  <2>1. w \in Call /\ new = [call EXCEPT ![w].chan = "dropped"]
    BY <1>1 DEF DropSender
  <2>2. QED
    BY <1>1, <2>1 DEF Invocation
<1>2. CASE ~(w # None /\ call[w].chan = "open")
  <2>1. new = call
    BY <1>2 DEF DropSender
  <2>2. QED
    BY <1>2, <2>1
<1>3. QED
  BY <1>1, <1>2

(***************************************************************************)
(* What the waiter maps, the calls and their types need.                   *)
(***************************************************************************)
Base == TypeOK /\ lt \in Tables /\ WaitersMatchCalls

(***************************************************************************)
(* The end of a call, seen from every call and every waiter map.           *)
(***************************************************************************)
LEMMA EndFacts ==
    ASSUME Base, NEW c \in Call, call[c].pc = "waiting", NEW pc \in {"ok", "err"}, End(c, pc)
    PROVE  /\ call' \in [Call -> Invocation]
           /\ waiters' \in [Node -> [Nonce -> Call \cup {None}]]
           /\ WaitersMatchCalls'
           /\ call'[c].pc = pc
           /\ \A b \in Call : /\ b # c => call'[b].pc = call[b].pc
                              /\ call'[b].node = call[b].node
                              /\ call'[b].nonce = call[b].nonce /\ call'[b].target = call[b].target
                              /\ call'[b].dir = call[b].dir /\ call'[b].res = call[b].res
                              /\ call'[b].chan = "sent" <=> call[b].chan = "sent"
<1> DEFINE n == call[c].node
           x == call[c].nonce
           w == waiters[n][x]
           new == DropSender(call, w)
<1>1. call \in [Call -> Invocation] /\ n \in Node /\ x \in Nonce /\ w \in Call \cup {None}
  BY DEF Base, TypeOK, Invocation
<1>2. /\ new \in [Call -> Invocation]
      /\ \A b \in Call : b # w => new[b] = call[b]
      /\ w # None => new[w].chan # "open"
      /\ \A b \in Call : /\ new[b].pc = call[b].pc /\ new[b].node = call[b].node
                         /\ new[b].nonce = call[b].nonce /\ new[b].target = call[b].target
                         /\ new[b].dir = call[b].dir /\ new[b].res = call[b].res
                         /\ new[b].chan = "sent" <=> call[b].chan = "sent"
  BY Zenon, <1>1, DropSenderFacts
<1>3. call' = [new EXCEPT ![c].pc = pc] /\ waiters' = [waiters EXCEPT ![n][x] = None]
  BY DEF End
<1> HIDE DEF new
<1>4. /\ call' \in [Call -> Invocation]
      /\ \A b \in Call : b # c => call'[b] = new[b]
      /\ call'[c].pc = pc /\ call'[c].node = n /\ call'[c].nonce = x
      /\ call'[c].target = call[c].target /\ call'[c].dir = call[c].dir
      /\ call'[c].res = call[c].res /\ call'[c].chan = new[c].chan
  BY <1>1, <1>2, <1>3 DEF Invocation
<1>5. /\ waiters' \in [Node -> [Nonce -> Call \cup {None}]]
      /\ waiters'[n][x] = None
      /\ \A m \in Node, y \in Nonce : (m # n \/ y # x) => waiters'[m][y] = waiters[m][y]
  BY <1>1, <1>3 DEF Base, TypeOK
<1>6. None \notin Call
  BY ClientAssumption
<1>7. WaitersMatchCalls'
  <2> SUFFICES ASSUME NEW m \in Node, NEW y \in Nonce, NEW b \in Call
               PROVE  waiters'[m][y] = b <=> /\ call'[b].pc = "waiting" /\ call'[b].chan = "open"
                                             /\ call'[b].node = m /\ call'[b].nonce = y
    BY DEF WaitersMatchCalls
  <2>1. waiters[m][y] = b <=> /\ call[b].pc = "waiting" /\ call[b].chan = "open"
                              /\ call[b].node = m /\ call[b].nonce = y
    BY DEF Base, WaitersMatchCalls
  <2>2. CASE m = n /\ y = x
    <3>1. waiters'[m][y] # b
      BY <1>5, <1>6, <2>2
    <3>2. CASE b = c
      BY <1>4, <3>1, <3>2
    <3>3. CASE b # c /\ b = w
      BY Zenon, <1>2, <1>4, <1>6, <3>1, <3>3
    <3>4. CASE b # c /\ b # w
      BY SMT, ZenonT(30), <1>2, <1>4, <2>1, <2>2, <3>1, <3>4
    <3>5. QED
      BY <3>2, <3>3, <3>4
  <2>3. CASE m # n \/ y # x
    <3>1. waiters'[m][y] = waiters[m][y]
      BY <1>5, <2>3
    <3>2. CASE b = c
      BY <1>4, <2>1, <2>3, <3>1, <3>2
    <3>3. CASE b # c /\ b = w
      <4>1. call[b].node = n /\ call[b].nonce = x
        BY <1>1, <3>3 DEF Base, WaitersMatchCalls
      <4>2. call'[b].node = n /\ call'[b].nonce = x
        BY Zenon, <1>2, <1>4, <3>3, <4>1
      <4>3. waiters[m][y] # b
        BY <2>1, <2>3, <4>1
      <4>4. QED
        BY <2>3, <3>1, <4>2, <4>3
    <3>4. CASE b # c /\ b # w
      BY <1>2, <1>4, <2>1, <3>1, <3>4
    <3>5. QED
      BY <3>2, <3>3, <3>4
  <2>4. QED
    BY <2>2, <2>3
<1>8. QED
  BY <1>2, <1>4, <1>5, <1>7
-----------------------------------------------------------------------------
(***************************************************************************)
(* A call parks its waiter over whatever the map holds under its nonce,    *)
(* or gives up and leaves nothing there: SendsRequest on waiters and calls.*)
(***************************************************************************)
LEMMA ParkFacts ==
    ASSUME Base, NEW c \in Call, call[c].pc = "new", NEW n \in Node, NEW x \in Nonce,
           NEW k \in Invocation, k.node = n, k.nonce = x,
           call' = [DropSender(call, waiters[n][x]) EXCEPT ![c] = k],
           \/ k.pc = "waiting" /\ k.chan = "open" /\ waiters' = [waiters EXCEPT ![n][x] = c]
           \/ k.pc = "err" /\ waiters' = [waiters EXCEPT ![n][x] = None]
    PROVE  /\ call' \in [Call -> Invocation]
           /\ waiters' \in [Node -> [Nonce -> Call \cup {None}]]
           /\ WaitersMatchCalls'
           /\ call'[c] = k
           /\ \A b \in Call \ {c} :
                 /\ call'[b].pc = call[b].pc /\ call'[b].node = call[b].node
                 /\ call'[b].nonce = call[b].nonce /\ call'[b].target = call[b].target
                 /\ call'[b].dir = call[b].dir /\ call'[b].res = call[b].res
                 /\ call'[b].chan = "sent" <=> call[b].chan = "sent"
<1> DEFINE w == waiters[n][x]
           new == DropSender(call, w)
<1>1. call \in [Call -> Invocation] /\ w \in Call \cup {None} /\ None \notin Call
  BY ClientAssumption DEF Base, TypeOK
<1>2. /\ new \in [Call -> Invocation]
      /\ \A b \in Call : b # w => new[b] = call[b]
      /\ w # None => new[w].chan # "open"
      /\ \A b \in Call : /\ new[b].pc = call[b].pc /\ new[b].node = call[b].node
                         /\ new[b].nonce = call[b].nonce /\ new[b].target = call[b].target
                         /\ new[b].dir = call[b].dir /\ new[b].res = call[b].res
                         /\ new[b].chan = "sent" <=> call[b].chan = "sent"
  BY <1>1, DropSenderFacts
<1>3. call' = [new EXCEPT ![c] = k]
  OBVIOUS
<1> HIDE DEF new
<1>4. call' \in [Call -> Invocation] /\ call'[c] = k /\ \A b \in Call \ {c} : call'[b] = new[b]
  BY ZenonT(30), <1>2, <1>3
<1>5. /\ waiters' \in [Node -> [Nonce -> Call \cup {None}]]
      /\ waiters'[n][x] = IF k.pc = "waiting" THEN c ELSE None
      /\ \A m \in Node, y \in Nonce : (m # n \/ y # x) => waiters'[m][y] = waiters[m][y]
  BY DEF Base, TypeOK
<1>6. WaitersMatchCalls'
  <2> SUFFICES ASSUME NEW m \in Node, NEW y \in Nonce, NEW b \in Call
               PROVE  waiters'[m][y] = b <=> /\ call'[b].pc = "waiting" /\ call'[b].chan = "open"
                                             /\ call'[b].node = m /\ call'[b].nonce = y
    BY DEF WaitersMatchCalls
  <2>1. waiters[m][y] = b <=> /\ call[b].pc = "waiting" /\ call[b].chan = "open"
                              /\ call[b].node = m /\ call[b].nonce = y
    BY DEF Base, WaitersMatchCalls
  <2>2. CASE b = c
    <3>1. waiters[m][y] # b
      BY <2>1, <2>2
    <3>2. CASE m = n /\ y = x
      BY <1>1, <1>4, <1>5, <2>2, <3>2
    <3>3. CASE m # n \/ y # x
      BY <1>4, <1>5, <2>2, <3>1, <3>3
    <3>4. QED
      BY <3>2, <3>3
  <2>3. CASE b # c /\ m = n /\ y = x
    <3>1. waiters'[m][y] # b
      BY <1>1, <1>5, <2>3
    <3>2. CASE b = w
      BY <1>1, <1>2, <1>4, <2>3, <3>1, <3>2
    <3>3. CASE b # w
      BY <1>2, <1>4, <2>1, <2>3, <3>1, <3>3
    <3>4. QED
      BY <3>2, <3>3
  <2>4. CASE b # c /\ (m # n \/ y # x)
    <3>1. waiters'[m][y] = waiters[m][y]
      BY <1>5, <2>4
    <3>2. CASE b = w
      <4>1. call[b].node = n /\ call[b].nonce = x
        BY <3>2 DEF Base, WaitersMatchCalls
      <4>2. call'[b].node = n /\ call'[b].nonce = x
        BY <1>2, <1>4, <2>4, <4>1
      <4>3. waiters[m][y] # b
        BY <2>1, <2>4, <4>1
      <4>4. QED
        BY <2>4, <3>1, <4>2, <4>3
    <3>3. CASE b # w
      BY <1>2, <1>4, <2>1, <2>4, <3>1, <3>3
    <3>4. QED
      BY <3>2, <3>3
  <2>5. QED
    BY <2>2, <2>3, <2>4
<1>7. QED
  BY <1>2, <1>4, <1>5, <1>6

(***************************************************************************)
(* A response takes the waiter under its nonce and uses its channel.       *)
(***************************************************************************)
LEMMA ResponseFacts ==
    ASSUME Base, NEW m \in IdSearchRes, HandleSearchByIdResponse(m)
    PROVE  LET w == waiters[m.dest][m.nonce]
           IN  /\ call' \in [Call -> Invocation]
               /\ waiters' \in [Node -> [Nonce -> Call \cup {None}]]
               /\ WaitersMatchCalls'
               /\ \A b \in Call : b # w => call'[b] = call[b]
               /\ w # None => /\ w \in Call /\ call[w].pc = "waiting"
                              /\ call[w].node = m.dest /\ call[w].nonce = m.nonce
                              /\ call'[w].pc = "waiting" /\ call'[w].node = call[w].node
                              /\ call'[w].nonce = call[w].nonce /\ call'[w].target = call[w].target
                              /\ call'[w].dir = call[w].dir /\ call'[w].res = m.res
<1> DEFINE n == m.dest
           x == m.nonce
           w == waiters[n][x]
<1>1. /\ call \in [Call -> Invocation] /\ n \in Node /\ x \in Nonce /\ m.res \in Answer
      /\ w \in Call \cup {None} /\ None \notin Call
  BY SMTT(30), Zenon, ClientAssumption DEF Base, TypeOK, IdSearchRes
<1>2. waiters' = [waiters EXCEPT ![n][x] = None]
  BY DEF HandleSearchByIdResponse
<1>3. /\ waiters' \in [Node -> [Nonce -> Call \cup {None}]]
      /\ waiters'[n][x] = None
      /\ \A o \in Node, y \in Nonce : (o # n \/ y # x) => waiters'[o][y] = waiters[o][y]
  BY <1>1, <1>2 DEF Base, TypeOK
<1>4. w # None => /\ w \in Call /\ call[w].pc = "waiting" /\ call[w].chan = "open"
                  /\ call[w].node = n /\ call[w].nonce = x
  BY <1>1 DEF Base, WaitersMatchCalls
<1>5. /\ call' \in [Call -> Invocation]
      /\ \A b \in Call : b # w => call'[b] = call[b]
      /\ w # None => /\ call'[w].pc = call[w].pc /\ call'[w].node = call[w].node
                     /\ call'[w].nonce = call[w].nonce /\ call'[w].target = call[w].target
                     /\ call'[w].dir = call[w].dir /\ call'[w].res = m.res
                     /\ call'[w].chan = "sent"
  <2>1. CASE w = None
    <3>1. call' = call
      BY <2>1 DEF HandleSearchByIdResponse
    <3>2. QED
      BY <1>1, <2>1, <3>1
  <2>2. CASE w # None
    <3>1. call' = [call EXCEPT ![w].chan = "sent", ![w].res = m.res] /\ w \in Call
      BY <1>4, <2>2 DEF HandleSearchByIdResponse
    <3>2. call' = [call EXCEPT ![w] = [call[w] EXCEPT !.chan = "sent", !.res = m.res]]
      BY Zenon, <1>1, <3>1
    <3> DEFINE e == [call[w] EXCEPT !.chan = "sent"]
               f == [e EXCEPT !.res = m.res]
    <3>3. e \in Invocation
      BY SMTT(30), Zenon, <1>1, <3>1 DEF Invocation
    <3>4. /\ e.pc = call[w].pc /\ e.node = call[w].node /\ e.nonce = call[w].nonce
          /\ e.target = call[w].target /\ e.dir = call[w].dir /\ e.chan = "sent"
      BY <1>1, <3>1 DEF Invocation
    <3>5. call' = [call EXCEPT ![w] = f]
      BY Zenon, <1>1, <3>1, <3>2 DEF Invocation
    <3> HIDE DEF e
    <3>6. /\ f \in Invocation
          /\ f.pc = call[w].pc /\ f.node = call[w].node /\ f.nonce = call[w].nonce
          /\ f.target = call[w].target /\ f.dir = call[w].dir /\ f.chan = "sent" /\ f.res = m.res
      BY <1>1, <3>3, <3>4 DEF Invocation
    <3> HIDE DEF f
    <3>7. QED
      BY ZenonT(30), <1>1, <3>1, <3>5, <3>6
  <2>3. QED
    BY Zenon, <2>1, <2>2
<1>6. WaitersMatchCalls'
  <2> SUFFICES ASSUME NEW o \in Node, NEW y \in Nonce, NEW b \in Call
               PROVE  waiters'[o][y] = b <=> /\ call'[b].pc = "waiting" /\ call'[b].chan = "open"
                                             /\ call'[b].node = o /\ call'[b].nonce = y
    BY DEF WaitersMatchCalls
  <2>1. waiters[o][y] = b <=> /\ call[b].pc = "waiting" /\ call[b].chan = "open"
                              /\ call[b].node = o /\ call[b].nonce = y
    BY DEF Base, WaitersMatchCalls
  <2>2. CASE b = w
    <3>1. call'[b].chan = "sent"
      BY SMTT(30), Zenon, <1>1, <1>5, <2>2
    <3>2. waiters'[o][y] # b
      BY SMTT(30), Zenon, <1>1, <1>3, <1>4, <2>1, <2>2
    <3>3. QED
      BY SMTT(30), Zenon, <3>1, <3>2
  <2>3. CASE b # w
    BY <1>1, <1>3, <1>5, <2>1, <2>3
  <2>4. QED
    BY <2>2, <2>3
<1>7. QED
  BY Zenon, <1>1, <1>3, <1>4, <1>5, <1>6
-----------------------------------------------------------------------------
(***************************************************************************)
(* Every request in flight asks for a level of the table, and neither its  *)
(* origin nor its receiver is past the target.                             *)
(***************************************************************************)
RequestsOnCourse ==
    \A m \in msgs : m.type = "SearchByIdRequest" =>
        m.level \in Level /\ ~Precedes(m.dir, m.target, m.dest) /\ ~Precedes(m.dir, m.target, m.origin)

Sound == Base /\ RequestsOnCourse

(***************************************************************************)
(* The three ways a call starts keep the waiter maps, the types and the    *)
(* requests sound.                                                         *)
(***************************************************************************)
LEMMA CallSound ==
    ASSUME WellOrdered, Sound, NEW c \in Call, NEW n \in Node, NEW target \in Node, NEW x \in Nonce,
           NEW d \in Direction, NEW level \in WireLevel, SearchByIdCall(c, n, x, target, d, level)
    PROVE  /\ Sound'
           /\ call'[c].pc # "new" /\ call'[c].node = n /\ call'[c].nonce = x
           /\ call'[c].target = target /\ call'[c].dir = d
           /\ call'[c].pc = "ok" => /\ call'[c].res.target = target
                                    /\ IsNearest(call'[c].res.result, n, target, d)
           /\ call'[c].pc = "waiting" => call'[c].chan = "open"
           /\ \A b \in Call \ {c} :
                 /\ call'[b].pc = call[b].pc /\ call'[b].node = call[b].node
                 /\ call'[b].nonce = call[b].nonce /\ call'[b].target = call[b].target
                 /\ call'[b].dir = call[b].dir /\ call'[b].res = call[b].res
                 /\ call'[b].chan = "sent" <=> call[b].chan = "sent"
           /\ \A m \in msgs' : m \in msgs \/ /\ m.type = "SearchByIdRequest" /\ m.origin = n
                                             /\ m.nonce = x /\ m.target = target /\ m.dir = d
<1> DEFINE K(pc, res) == NewCall(n, x, target, d, pc, res)
           found == Search(n, target, level, d)
<1>1. /\ call \in [Call -> Invocation] /\ call[c].res \in Answer /\ call[c].pc = "new"
      /\ lt \in Tables /\ lt \in [Node -> Table] /\ None \notin Call
  BY ClientAssumption DEF Sound, Base, TypeOK, Invocation, SearchByIdCall
<1>2. ASSUME NEW pc \in {"waiting", "ok", "err"}, NEW res \in Answer
      PROVE  /\ K(pc, res) \in Invocation
             /\ K(pc, res).pc = pc /\ K(pc, res).node = n /\ K(pc, res).nonce = x
             /\ K(pc, res).target = target /\ K(pc, res).dir = d
             /\ K(pc, res).chan = "open" /\ K(pc, res).res = res
  BY DEF NewCall, Invocation
<1> HIDE DEF K
<1>3. ASSUME NEW pc \in {"ok", "err"}, NEW res \in Answer, call' = [call EXCEPT ![c] = K(pc, res)],
             UNCHANGED <<lt, waiters, msgs>>
      PROVE  Sound'
  <2>1. TypeOK' /\ (lt \in Tables)'
    BY <1>1, <1>2, <1>3 DEF Sound, Base, TypeOK
  <2>2. WaitersMatchCalls'
    <3> SUFFICES ASSUME NEW o \in Node, NEW y \in Nonce, NEW b \in Call
                 PROVE  waiters[o][y] = b <=> /\ call'[b].pc = "waiting" /\ call'[b].chan = "open"
                                              /\ call'[b].node = o /\ call'[b].nonce = y
      BY <1>3 DEF WaitersMatchCalls
    <3>1. waiters[o][y] = b <=> /\ call[b].pc = "waiting" /\ call[b].chan = "open"
                                /\ call[b].node = o /\ call[b].nonce = y
      BY DEF Sound, Base, WaitersMatchCalls
    <3>2. CASE b = c
      <4>1. call'[b].pc = pc
        BY <1>1, <1>2, <1>3, <3>2
      <4>2. QED
        BY <1>1, <3>1, <3>2, <4>1
    <3>3. CASE b # c
      <4>1. call'[b] = call[b]
        BY <1>1, <1>3, <3>3
      <4>2. QED
        BY <3>1, <4>1
    <3>4. QED
      BY <3>2, <3>3
  <2>3. RequestsOnCourse'
    BY <1>3 DEF Sound, RequestsOnCourse
  <2>4. QED
    BY <2>1, <2>2, <2>3 DEF Sound, Base
<1>4. CASE Fails(c, n, x, target, d, level)
  <2>1. call' = [call EXCEPT ![c] = K("err", call[c].res)] /\ UNCHANGED <<lt, waiters, msgs>>
    BY <1>4 DEF Fails, K
  <2>2. Sound'
    BY Zenon, <1>1, <1>3, <2>1
  <2>3. QED
    BY <1>1, <1>2, <2>1, <2>2
<1>5. CASE EndsLocally(c, n, x, target, d, level)
  <2> DEFINE a == AnswerOf(found, target)
  <2>1. /\ level \in Level /\ found.result = n
        /\ call' = [call EXCEPT ![c] = K("ok", a)] /\ UNCHANGED <<lt, waiters, msgs>>
    BY <1>5 DEF EndsLocally, K
  <2>2. found.termination_level \in Level /\ IsNearest(n, n, target, d)
    BY <1>1, <2>1, SearchFacts
  <2>3. a \in Answer /\ a.target = target /\ a.result = n
    BY <2>1, <2>2 DEF AnswerOf, Answer, Level
  <2> HIDE DEF a, found
  <2>4. Sound'
    BY Zenon, <1>3, <2>1, <2>3
  <2>5. call'[c] = K("ok", a) /\ K("ok", a).res = a /\ \A b \in Call \ {c} : call'[b] = call[b]
    BY <1>1, <1>2, <2>1, <2>3
  <2>6. QED
    BY <1>1, <1>2, <2>1, <2>2, <2>3, <2>4, <2>5
<1>6. CASE SendsRequest(c, n, x, target, d, level)
  <2> DEFINE q == [type |-> "SearchByIdRequest", dest |-> found.result, nonce |-> x, target |-> target,
                   origin |-> n, level |-> found.termination_level, dir |-> d]
  <2>1. /\ level \in Level /\ found.result # n /\ lt' = lt
        /\ \/ /\ call' = [DropSender(call, waiters[n][x]) EXCEPT ![c] = K("waiting", call[c].res)]
              /\ waiters' = [waiters EXCEPT ![n][x] = c]
              /\ msgs' = msgs \cup {q}
           \/ /\ call' = [DropSender(call, waiters[n][x]) EXCEPT ![c] = K("err", call[c].res)]
              /\ waiters' = [waiters EXCEPT ![n][x] = None]
              /\ msgs' = msgs
    BY <1>6 DEF SendsRequest, K
  <2>2. /\ found.result \in Node /\ found.termination_level \in Level
        /\ ~Precedes(d, target, found.result) /\ ~Precedes(d, target, n)
    BY <1>1, <2>1, SearchFacts
  <2>3. q \in IdSearchReq
    <3>1. found.termination_level \in Nat
      BY Zenon, SMT, <2>2, LevelFacts
    <3>2. QED
      BY Zenon, SMT, <2>2, <3>1 DEF IdSearchReq
  <2>4. /\ q.type = "SearchByIdRequest" /\ q.origin = n /\ q.nonce = x /\ q.target = target
        /\ q.dir = d /\ q.dest = found.result /\ q.level = found.termination_level
    OBVIOUS
  <2> HIDE DEF q, found
  <2>5. PICK k \in Invocation :
            /\ k \in {K("waiting", call[c].res), K("err", call[c].res)}
            /\ call' = [DropSender(call, waiters[n][x]) EXCEPT ![c] = k]
            /\ \/ k.pc = "waiting" /\ k.chan = "open" /\ waiters' = [waiters EXCEPT ![n][x] = c]
               \/ k.pc = "err" /\ waiters' = [waiters EXCEPT ![n][x] = None]
    BY <1>1, <1>2, <2>1
  <2>6. /\ k.node = n /\ k.nonce = x /\ k.target = target /\ k.dir = d /\ k.chan = "open"
        /\ k.pc \in {"waiting", "err"}
    BY SMTT(30), Zenon, <1>1, <1>2, <2>5
  <2>7. /\ call' \in [Call -> Invocation]
        /\ waiters' \in [Node -> [Nonce -> Call \cup {None}]]
        /\ WaitersMatchCalls'
        /\ call'[c] = k
        /\ \A b \in Call \ {c} :
              /\ call'[b].pc = call[b].pc /\ call'[b].node = call[b].node
              /\ call'[b].nonce = call[b].nonce /\ call'[b].target = call[b].target
              /\ call'[b].dir = call[b].dir /\ call'[b].res = call[b].res
              /\ call'[b].chan = "sent" <=> call[b].chan = "sent"
    BY <1>1, <2>5, <2>6, ParkFacts DEF Sound
  <2>8. msgs' \subseteq msgs \cup {q}
    BY <2>1
  <2>9. RequestsOnCourse'
    BY <2>2, <2>4, <2>8 DEF Sound, RequestsOnCourse
  <2>10. Sound'
    BY <1>1, <2>1, <2>3, <2>7, <2>8, <2>9 DEF Sound, Base, TypeOK
  <2>11. QED
    BY <2>4, <2>6, <2>7, <2>8, <2>10
<1>7. QED
  BY <1>4, <1>5, <1>6 DEF SearchByIdCall
(***************************************************************************)
(* handle_search_by_id_request turns a request into an answer that is      *)
(* right for its origin, or into the same request one hop further.         *)
(***************************************************************************)
LEMMA RequestFacts ==
    ASSUME WellOrdered, Sound, NEW m \in msgs, m \in IdSearchReq, HandleSearchByIdRequest(m)
    PROVE  /\ Sound'
           /\ \E q : /\ msgs' = (msgs \ {m}) \cup {q}
                    /\ \/ /\ q.type = "SearchByIdRequest" /\ q.origin = m.origin /\ q.nonce = m.nonce
                          /\ q.target = m.target /\ q.dir = m.dir
                       \/ /\ q.type = "SearchByIdResponse" /\ q.dest = m.origin /\ q.nonce = m.nonce
                          /\ q.res.target = m.target
                          /\ IsNearest(q.res.result, m.origin, m.target, m.dir)
<1> DEFINE found == Search(m.dest, m.target, m.level, m.dir)
           a == AnswerOf(found, m.target)
           r == [type |-> "SearchByIdResponse", dest |-> m.origin, nonce |-> m.nonce, res |-> a]
           e == [m EXCEPT !.dest = found.result]
           f == [e EXCEPT !.level = found.termination_level]
<1>1. /\ m.type = "SearchByIdRequest" /\ m.dest \in Node /\ m.nonce \in Nonce /\ m.target \in Node
      /\ m.origin \in Node /\ m.dir \in Direction /\ m.level \in Level
      /\ ~Precedes(m.dir, m.target, m.dest) /\ ~Precedes(m.dir, m.target, m.origin)
  BY DEF IdSearchReq, Sound, RequestsOnCourse
<1>2. /\ found.result \in Node /\ found.termination_level \in Level
      /\ found.result # m.dest => ~Precedes(m.dir, m.target, found.result)
      /\ found.result = m.dest => IsNearest(m.dest, m.dest, m.target, m.dir)
  BY <1>1, SearchFacts DEF Sound, Base
<1>3. UNCHANGED <<lt, waiters, call>>
  BY DEF HandleSearchByIdRequest
<1>4. ASSUME NEW q \in IdSearchReq \cup IdSearchRes, msgs' = (msgs \ {m}) \cup {q},
             q.type = "SearchByIdRequest" => /\ q.level \in Level
                                             /\ ~Precedes(q.dir, q.target, q.dest)
                                             /\ ~Precedes(q.dir, q.target, q.origin)
      PROVE  Sound'
  <2>1. TypeOK' /\ (lt \in Tables)'
    BY <1>3, <1>4 DEF Sound, Base, TypeOK
  <2>2. WaitersMatchCalls'
    BY <1>3 DEF Sound, Base, WaitersMatchCalls
  <2>3. RequestsOnCourse'
    BY <1>4 DEF Sound, RequestsOnCourse
  <2>4. QED
    BY <2>1, <2>2, <2>3 DEF Sound, Base
<1>5. CASE found.result = m.dest
  <2>1. msgs' = (msgs \ {m}) \cup {r}
    BY <1>5 DEF HandleSearchByIdRequest
  <2>2. a \in Answer /\ a.target = m.target /\ a.result = m.dest
    BY <1>1, <1>2, <1>5 DEF AnswerOf, Answer, Level
  <2>3. IsNearest(m.dest, m.origin, m.target, m.dir)
    BY <1>1, <1>2, <1>5, NearestFromOrigin
  <2> HIDE DEF a, found
  <2>4. r \in IdSearchRes /\ r.type = "SearchByIdResponse" /\ r.dest = m.origin /\ r.nonce = m.nonce /\ r.res = a
    BY <1>1, <2>2 DEF IdSearchRes
  <2> HIDE DEF r
  <2>5. Sound'
    BY <1>4, <2>1, <2>4
  <2>6. QED
    BY <2>1, <2>2, <2>3, <2>4, <2>5
<1>6. CASE found.result # m.dest
  <2>1. e \in IdSearchReq
    BY <1>2 DEF IdSearchReq
  <2>2. /\ e.origin = m.origin /\ e.nonce = m.nonce /\ e.target = m.target /\ e.dir = m.dir
        /\ e.dest = found.result
    BY DEF IdSearchReq
  <2>3. msgs' = (msgs \ {m}) \cup {f}
    BY <1>6 DEF HandleSearchByIdRequest, IdSearchReq
  <2> HIDE DEF e, found
  <2>4. /\ f \in IdSearchReq
        /\ f.origin = m.origin /\ f.nonce = m.nonce /\ f.target = m.target /\ f.dir = m.dir
        /\ f.dest = found.result /\ f.level = found.termination_level
        /\ f.type = "SearchByIdRequest"
    BY <1>2, <2>1, <2>2 DEF IdSearchReq, Level
  <2> HIDE DEF f
  <2>5. Sound'
    BY <1>1, <1>2, <1>4, <1>6, <2>3, <2>4
  <2>6. QED
    BY <2>3, <2>4, <2>5
<1>7. QED
  BY <1>5, <1>6

(***************************************************************************)
(* No call, no waiter and no message at the start.                         *)
(***************************************************************************)
LEMMA InitSound == Init => Sound
<1> SUFFICES ASSUME Init PROVE Sound
  OBVIOUS
<1> DEFINE n == CHOOSE n \in Node : TRUE
           x == CHOOSE x \in Nonce : TRUE
           a == [result |-> n, termination_level |-> 0, target |-> n]
           k == NewCall(n, x, n, "Left", "new", a)
<1>1. n \in Node /\ x \in Nonce /\ None \notin Call
  BY ClientAssumption
<1>2. /\ call = [c \in Call |-> k] /\ waiters = [o \in Node |-> [y \in Nonce |-> None]]
      /\ msgs = {} /\ lt \in Tables
  BY Zenon DEF Init
<1> HIDE DEF n, x
<1>3. k \in Invocation /\ k.pc = "new"
  BY <1>1 DEF NewCall, Invocation, Answer, Direction
<1> HIDE DEF k
<1>4. TypeOK /\ lt \in Tables
  BY <1>2, <1>3, ClientAssumption DEF TypeOK
<1>5. WaitersMatchCalls
  BY <1>1, <1>2, <1>3 DEF WaitersMatchCalls
<1>6. QED
  BY <1>2, <1>4, <1>5 DEF Sound, Base, RequestsOnCourse

(***************************************************************************)
(* Every step keeps the types, the waiters and the course of the requests. *)
(***************************************************************************)
LEMMA NextSound == WellOrdered /\ Sound /\ [Next]_vars => Sound'
<1> SUFFICES ASSUME WellOrdered, Sound, [Next]_vars PROVE Sound'
  OBVIOUS
<1>1. ASSUME NEW c \in Call, NEW pc \in {"ok", "err"}, call[c].pc = "waiting", End(c, pc), UNCHANGED <<lt, msgs>>
      PROVE  Sound'
  <2>1. call' \in [Call -> Invocation] /\ waiters' \in [Node -> [Nonce -> Call \cup {None}]] /\ WaitersMatchCalls'
    BY <1>1, EndFacts DEF Sound
  <2>2. QED
    BY <1>1, <2>1 DEF Sound, Base, TypeOK, RequestsOnCourse
<1>2. ASSUME NEW c \in Call, NEW n \in Node, NEW target \in Node, NEW x \in Nonce, NEW d \in Direction,
             NEW level \in WireLevel, SearchByIdCall(c, n, x, target, d, level)
      PROVE  Sound'
  BY <1>2, CallSound
<1>3. ASSUME NEW c \in Call, Resume(c) \/ TimeOut(c) \/ Cancel(c)
      PROVE  Sound'
  <2>1. PICK pc \in {"ok", "err"} : call[c].pc = "waiting" /\ End(c, pc) /\ UNCHANGED <<lt, msgs>>
    BY <1>3 DEF Resume, TimeOut, Cancel
  <2>2. QED
    BY <1>1, <2>1
<1>4. ASSUME NEW m \in msgs, Lose(m)
      PROVE  Sound'
  BY <1>4 DEF Lose, Sound, Base, TypeOK, WaitersMatchCalls, RequestsOnCourse
<1>5. ASSUME NEW m \in msgs, Deliver(m)
      PROVE  Sound'
  <2>0. m \in IdSearchReq \cup IdSearchRes
    BY DEF Sound, Base, TypeOK
  <2>1. CASE m.type = "SearchByIdRequest" /\ HandleSearchByIdRequest(m)
    <3>1. m \in IdSearchReq
      BY <2>0, <2>1 DEF IdSearchRes
    <3>2. QED
      BY <2>1, <3>1, RequestFacts
  <2>2. CASE m.type = "SearchByIdResponse" /\ HandleSearchByIdResponse(m)
    <3>1. m \in IdSearchRes
      BY SMTT(30), Zenon, <2>0, <2>2 DEF IdSearchReq
    <3>2. call' \in [Call -> Invocation] /\ waiters' \in [Node -> [Nonce -> Call \cup {None}]] /\ WaitersMatchCalls'
      BY SMTT(30), Zenon, <2>2, <3>1, ResponseFacts DEF Sound
    <3>3. msgs' \subseteq msgs /\ lt' = lt
      BY <2>2 DEF HandleSearchByIdResponse
    <3>4. QED
      BY <3>2, <3>3 DEF Sound, Base, TypeOK, RequestsOnCourse
  <2>3. QED
    BY <1>5, <2>1, <2>2 DEF Deliver
<1>6. CASE UNCHANGED vars
  BY <1>6 DEF vars, Sound, Base, TypeOK, WaitersMatchCalls, RequestsOnCourse
<1>7. QED
  BY <1>2, <1>3, <1>4, <1>5, <1>6 DEF Next

-----------------------------------------------------------------------------
(***************************************************************************)
(* A message in flight belongs to a call that has been made, and agrees    *)
(* with a call of its origin and nonce that shares its nonce with no other *)
(* one; so does an answer already in such a call's channel.                *)
(***************************************************************************)
Home(m) == IF m.type = "SearchByIdRequest" THEN m.origin ELSE m.dest

BelongsTo(m, k) == k.pc # "new" /\ k.node = Home(m) /\ k.nonce = m.nonce

Agrees(m, k) ==
    IF m.type = "SearchByIdRequest" THEN m.target = k.target /\ m.dir = k.dir
    ELSE m.res.target = k.target /\ IsNearest(m.res.result, k.node, k.target, k.dir)

Correlated ==
    \A m \in msgs : /\ \E c \in Call : BelongsTo(m, call[c])
                    /\ \A c \in Call : OwnNonce(c) /\ BelongsTo(m, call[c]) => Agrees(m, call[c])

Answered ==
    \A c \in Call :
        LET k == call[c]
        IN  OwnNonce(c) /\ (k.pc = "ok" \/ (k.pc = "waiting" /\ k.chan = "sent")) =>
                k.res.target = k.target /\ IsNearest(k.res.result, k.node, k.target, k.dir)

(***************************************************************************)
(* A step that starts no call keeps the messages it keeps correlated.      *)
(***************************************************************************)
LEMMA CorrelationKept ==
    ASSUME Correlated,
           \A b \in Call : /\ (call'[b].pc = "new") = (call[b].pc = "new")
                           /\ call'[b].node = call[b].node /\ call'[b].nonce = call[b].nonce
                           /\ call'[b].target = call[b].target /\ call'[b].dir = call[b].dir,
           NEW m \in msgs
    PROVE  /\ \E c \in Call : BelongsTo(m, call'[c])
           /\ \A c \in Call : OwnNonce(c)' /\ BelongsTo(m, call'[c]) => Agrees(m, call'[c])
           /\ \A c \in Call : OwnNonce(c)' => OwnNonce(c)
<1>0. \A c \in Call : OwnNonce(c)' => OwnNonce(c)
  BY DEF OwnNonce
<1>1. \A c \in Call : BelongsTo(m, call'[c]) = BelongsTo(m, call[c])
  BY DEF BelongsTo
<1>2. \A c \in Call : Agrees(m, call'[c]) = Agrees(m, call[c])
  BY DEF Agrees
<1>3. QED
  BY <1>0, <1>1, <1>2 DEF Correlated

(***************************************************************************)
(* A call whose nonce nobody else has matches no message in flight, and    *)
(* takes no other call's nonce from it without being seen to.              *)
(***************************************************************************)
LEMMA CallCorrelated ==
    ASSUME WellOrdered, Sound, Correlated, Answered,
           NEW c \in Call, NEW n \in Node, NEW target \in Node, NEW x \in Nonce,
           NEW d \in Direction, NEW level \in WireLevel, SearchByIdCall(c, n, x, target, d, level)
    PROVE  Correlated' /\ Answered'
<1>1. /\ call'[c].pc # "new" /\ call'[c].node = n /\ call'[c].nonce = x
      /\ call'[c].target = target /\ call'[c].dir = d
      /\ call'[c].pc = "ok" => /\ call'[c].res.target = target
                               /\ IsNearest(call'[c].res.result, n, target, d)
      /\ call'[c].pc = "waiting" => call'[c].chan = "open"
  BY CallSound
<1>2. \A b \in Call \ {c} :
          /\ call'[b].pc = call[b].pc /\ call'[b].node = call[b].node
          /\ call'[b].nonce = call[b].nonce /\ call'[b].target = call[b].target
          /\ call'[b].dir = call[b].dir /\ call'[b].res = call[b].res
          /\ call'[b].chan = "sent" <=> call[b].chan = "sent"
  BY CallSound
<1>3. \A m \in msgs' : m \in msgs \/ /\ m.type = "SearchByIdRequest" /\ m.origin = n
                                     /\ m.nonce = x /\ m.target = target /\ m.dir = d
  BY CallSound
<1>4. call[c].pc = "new" /\ \A b \in Call \ {c} : OwnNonce(b)' => OwnNonce(b)
  BY <1>2 DEF SearchByIdCall, OwnNonce
<1>5. Answered'
  <2> SUFFICES ASSUME NEW b \in Call, OwnNonce(b)',
                      call'[b].pc = "ok" \/ (call'[b].pc = "waiting" /\ call'[b].chan = "sent")
               PROVE  /\ call'[b].res.target = call'[b].target
                      /\ IsNearest(call'[b].res.result, call'[b].node, call'[b].target, call'[b].dir)
    BY DEF Answered
  <2>1. CASE b = c
    BY <1>1, <2>1
  <2>2. CASE b # c
    BY <1>2, <1>4, <2>2 DEF Answered
  <2>3. QED
    BY <2>1, <2>2
<1>6. Correlated'
  <2> SUFFICES ASSUME NEW m \in msgs'
               PROVE  /\ \E b \in Call : BelongsTo(m, call'[b])
                      /\ \A b \in Call : OwnNonce(b)' /\ BelongsTo(m, call'[b]) => Agrees(m, call'[b])
    BY DEF Correlated
  <2>1. \A b \in Call \ {c} : BelongsTo(m, call'[b]) = BelongsTo(m, call[b])
    BY <1>2 DEF BelongsTo
  <2>2. CASE m \in msgs
    <3>1. PICK b \in Call : BelongsTo(m, call[b])
      BY <2>2 DEF Correlated
    <3>2. b # c /\ BelongsTo(m, call'[b])
      BY <1>4, <2>1, <3>1 DEF BelongsTo
    <3>3. ~(OwnNonce(c)' /\ BelongsTo(m, call'[c]))
      BY <3>2 DEF BelongsTo, OwnNonce
    <3>4. \A o \in Call \ {c} : Agrees(m, call'[o]) = Agrees(m, call[o])
      BY <1>2 DEF Agrees
    <3>5. QED
      BY <1>4, <2>1, <2>2, <3>1, <3>2, <3>3, <3>4 DEF Correlated
  <2>3. CASE m.type = "SearchByIdRequest" /\ m.origin = n /\ m.nonce = x /\ m.target = target /\ m.dir = d
    <3>1. BelongsTo(m, call'[c]) /\ Agrees(m, call'[c])
      BY <1>1, <2>3 DEF BelongsTo, Agrees, Home
    <3>2. \A b \in Call \ {c} : ~(OwnNonce(b)' /\ BelongsTo(m, call'[b]))
      BY <3>1 DEF BelongsTo, OwnNonce
    <3>3. QED
      BY <3>1, <3>2
  <2>4. QED
    BY <1>3, <2>2, <2>3
<1>7. QED
  BY <1>5, <1>6
(***************************************************************************)
(* Delivering, losing and ending: answers keep to their own calls.         *)
(***************************************************************************)
LEMMA OthersCorrelated ==
    ASSUME WellOrdered, Sound, Correlated, Answered,
           \/ \E c \in Call : Resume(c) \/ TimeOut(c) \/ Cancel(c)
           \/ \E m \in msgs : Deliver(m) \/ Lose(m)
    PROVE  Correlated' /\ Answered'
<1>1. ASSUME NEW c \in Call, Resume(c) \/ TimeOut(c) \/ Cancel(c)
      PROVE  Correlated' /\ Answered'
  <2>1. PICK pc \in {"ok", "err"} : /\ call[c].pc = "waiting" /\ End(c, pc) /\ msgs' = msgs
                                    /\ pc = "ok" => call[c].chan = "sent"
    BY <1>1 DEF Resume, TimeOut, Cancel
  <2>2. /\ call'[c].pc = pc
        /\ \A b \in Call : /\ b # c => call'[b].pc = call[b].pc
                           /\ call'[b].node = call[b].node
                           /\ call'[b].nonce = call[b].nonce /\ call'[b].target = call[b].target
                           /\ call'[b].dir = call[b].dir /\ call'[b].res = call[b].res
                           /\ call'[b].chan = "sent" <=> call[b].chan = "sent"
    BY <2>1, EndFacts DEF Sound
  <2>3. \A b \in Call : (call'[b].pc = "new") = (call[b].pc = "new")
    BY SMTT(30), Zenon, <2>1, <2>2
  <2>4. Correlated'
    BY <2>1, <2>2, <2>3, CorrelationKept DEF Correlated
  <2>5. Answered'
    <3>1. \A b \in Call : OwnNonce(b)' => OwnNonce(b)
      BY SMTT(30), Zenon, <2>2, <2>3 DEF OwnNonce
    <3>2. QED
      BY SMTT(30), Zenon, <2>1, <2>2, <3>1 DEF Answered
  <2>6. QED
    BY <2>4, <2>5
<1>2. ASSUME NEW m \in msgs, Lose(m)
      PROVE  Correlated' /\ Answered'
  BY <1>2 DEF Lose, Correlated, Answered, OwnNonce
<1>3. ASSUME NEW m \in msgs, m.type = "SearchByIdRequest", HandleSearchByIdRequest(m)
      PROVE  Correlated' /\ Answered'
  <2>1. m \in IdSearchReq
    BY <1>3 DEF Sound, Base, TypeOK, IdSearchRes
  <2>2. PICK q : /\ msgs' = (msgs \ {m}) \cup {q}
                 /\ \/ /\ q.type = "SearchByIdRequest" /\ q.origin = m.origin /\ q.nonce = m.nonce
                       /\ q.target = m.target /\ q.dir = m.dir
                    \/ /\ q.type = "SearchByIdResponse" /\ q.dest = m.origin /\ q.nonce = m.nonce
                       /\ q.res.target = m.target
                       /\ IsNearest(q.res.result, m.origin, m.target, m.dir)
    BY <1>3, <2>1, RequestFacts
  <2>3. call' = call
    BY <1>3 DEF HandleSearchByIdRequest
  <2>4. \A c \in Call : BelongsTo(q, call[c]) = BelongsTo(m, call[c])
    BY <1>3, <2>2 DEF BelongsTo, Home
  <2>5. \A c \in Call : BelongsTo(m, call[c]) /\ Agrees(m, call[c]) => Agrees(q, call[c])
    BY SMTT(30), Zenon, <1>3, <2>2 DEF BelongsTo, Agrees, Home
  <2>6. Correlated'
    BY <2>2, <2>3, <2>4, <2>5 DEF Correlated, OwnNonce
  <2>7. QED
    BY <2>3, <2>6 DEF Answered, OwnNonce
<1>4. ASSUME NEW m \in msgs, m.type = "SearchByIdResponse", HandleSearchByIdResponse(m)
      PROVE  Correlated' /\ Answered'
  <2> DEFINE w == waiters[m.dest][m.nonce]
  <2>1. m \in IdSearchRes
    BY <1>4 DEF Sound, Base, TypeOK, IdSearchReq
  <2>2. /\ \A b \in Call : b # w => call'[b] = call[b]
        /\ w # None => /\ w \in Call /\ call[w].pc = "waiting"
                       /\ call[w].node = m.dest /\ call[w].nonce = m.nonce
                       /\ call'[w].pc = "waiting" /\ call'[w].node = call[w].node
                       /\ call'[w].nonce = call[w].nonce /\ call'[w].target = call[w].target
                       /\ call'[w].dir = call[w].dir /\ call'[w].res = m.res
    BY Zenon, <1>4, <2>1, ResponseFacts DEF Sound
  <2>3. msgs' \subseteq msgs
    BY <1>4 DEF HandleSearchByIdResponse
  <2>4. None \notin Call
    BY ClientAssumption
  <2> HIDE DEF w
  <2>5. \A b \in Call : /\ (call'[b].pc = "new") = (call[b].pc = "new")
                        /\ call'[b].node = call[b].node /\ call'[b].nonce = call[b].nonce
                        /\ call'[b].target = call[b].target /\ call'[b].dir = call[b].dir
    BY <2>2, <2>4
  <2>6. Correlated'
    BY Zenon, <2>3, <2>5, CorrelationKept DEF Correlated
  <2>7. Answered'
    <3> SUFFICES ASSUME NEW b \in Call, OwnNonce(b)',
                        call'[b].pc = "ok" \/ (call'[b].pc = "waiting" /\ call'[b].chan = "sent")
                 PROVE  /\ call'[b].res.target = call'[b].target
                        /\ IsNearest(call'[b].res.result, call'[b].node, call'[b].target, call'[b].dir)
      BY DEF Answered
    <3>0. OwnNonce(b)
      BY <2>5 DEF OwnNonce
    <3>1. CASE b = w
      <4>1. BelongsTo(m, call[b])
        BY <1>4, <2>2, <2>4, <3>1 DEF BelongsTo, Home
      <4>2. Agrees(m, call[b])
        BY <3>0, <4>1 DEF Correlated
      <4>3. QED
        BY <1>4, <2>2, <2>4, <3>1, <4>2 DEF Agrees
    <3>2. CASE b # w
      BY <2>2, <3>0, <3>2 DEF Answered
    <3>3. QED
      BY <3>1, <3>2
  <2>8. QED
    BY <2>6, <2>7
<1>5. QED
  BY <1>1, <1>2, <1>3, <1>4 DEF Deliver

(***************************************************************************)
(* Every step keeps messages and answers correlated with their calls.      *)
(***************************************************************************)
LEMMA NextCorrelated ==
    WellOrdered /\ Sound /\ Correlated /\ Answered /\ [Next]_vars => Correlated' /\ Answered'
<1> SUFFICES ASSUME WellOrdered, Sound, Correlated, Answered, [Next]_vars
             PROVE  Correlated' /\ Answered'
  OBVIOUS
<1>1. ASSUME NEW c \in Call, NEW n \in Node, NEW target \in Node, NEW x \in Nonce, NEW d \in Direction,
             NEW level \in WireLevel, SearchByIdCall(c, n, x, target, d, level)
      PROVE  Correlated' /\ Answered'
  BY <1>1, CallCorrelated
<1>2. CASE UNCHANGED vars
  BY <1>2 DEF vars, Correlated, Answered, OwnNonce
<1>3. QED
  BY <1>1, <1>2, OthersCorrelated DEF Next

-----------------------------------------------------------------------------
INSTANCE WellFoundedInduction

(***************************************************************************)
(* The naturals are well ordered, because < is well founded on them.       *)
(***************************************************************************)
LEMMA NaturalsWellOrdered == WellOrdered
<1> DEFINE R == OpToRel(<, Nat)
<1>1. \A x, y \in Nat : y < x => <<y, x>> \in R
  BY DEF OpToRel
<1>2. IsWellFoundedOn(R, Nat)
  BY Zenon, NatLessThanWellFounded
<1> HIDE DEF R
<1>3. ASSUME NEW T \in SUBSET Nat, T # {} PROVE \E x \in T : \A y \in T : x =< y
  <2>1. PICK x \in T : \A y \in T : ~(<<y, x>> \in R)
    BY Zenon, <1>2, <1>3, WFMin
  <2>2. \A y \in T : x \in Nat /\ y \in Nat /\ ~(y < x)
    BY <1>1, <2>1, Zenon
  <2>3. \A y \in T : x =< y
    BY <2>2, SMT
  <2>4. QED
    BY <2>3, Zenon
<1>4. QED
  BY <1>3, Zenon DEF WellOrdered

(***************************************************************************)
(* Whether or not nonces are reused: the types, the waiter maps and the    *)
(* course of the requests are kept by every step.                          *)
(***************************************************************************)
THEOREM ClientInvariant == Spec => []Sound
BY InitSound, NextSound, NaturalsWellOrdered, PTL DEF Spec

(***************************************************************************)
(* Calls, waiters and messages of search_by_id keep their types.           *)
(***************************************************************************)
THEOREM ClientTypeCorrect == Spec => []TypeOK
<1>1. Sound => TypeOK
  BY DEF Sound, Base
<1>2. QED
  BY <1>1, ClientInvariant, PTL

(***************************************************************************)
(* Even when nonces are reused, request_id_map holds exactly the searches  *)
(* that can still be answered.                                             *)
(***************************************************************************)
THEOREM ClientWaitersAccounted == Spec => []WaitersMatchCalls
<1>1. Sound => WaitersMatchCalls
  BY DEF Sound, Base
<1>2. QED
  BY <1>1, ClientInvariant, PTL

(***************************************************************************)
(* Every search that returns Ok under a nonce of its own has the answer    *)
(* to its own question, and it is the node nearest to the target: in every *)
(* network whose tables are in order and whose bottom list is complete,    *)
(* whatever its shortcuts.                                                 *)
(***************************************************************************)
THEOREM AnswersAreNearest == Spec => []AnswerIsNearest
<1>1. Init => Correlated /\ Answered
  <2> SUFFICES ASSUME Init PROVE Correlated /\ Answered
    OBVIOUS
  <2>1. msgs = {} /\ \A c \in Call : call[c].pc = "new"
    BY Zenon DEF Init, NewCall
  <2>2. QED
    BY <2>1 DEF Correlated, Answered
<1>2. Answered => AnswerIsNearest
  BY DEF Answered, AnswerIsNearest
<1>3. QED
  BY <1>1, <1>2, ClientInvariant, NextCorrelated, NaturalsWellOrdered, PTL DEF Spec
=============================================================================

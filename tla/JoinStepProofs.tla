--------------------------- MODULE JoinStepProofs ---------------------------
(***************************************************************************)
(* The steps of a join, read in two ways. First, for any number of joins   *)
(* at once: every step is a step of the link service or invisible to it    *)
(* (JoinImplements). Then, for joins that do not overlap: the              *)
(* invariant of the sorted list into which one node is being linked        *)
(* (SequentialInv), and why every step of a joining task keeps it.         *)
(* SequentialProofs has the handlers and the theorems about that list.     *)
(***************************************************************************)
EXTENDS JoinRefinement, SequentialJoin, JoinProofs

(***************************************************************************)
(* The refinement.  Erased(S) is what the link service sees of events S.   *)
(***************************************************************************)
IsLinkEvent(m) == m.type \in {"GetLinkOp", "SetLinkOp"}

Erased(S) == {EraseNonce(m) : m \in {e \in S : IsLinkEvent(e)}}

(***************************************************************************)
(* The events the link service sees are the link events of the join        *)
(* without their nonces.                                                   *)
(***************************************************************************)
LEMMA LinkMsgsErased == LinkMsgs = Erased(msgs) /\ LinkMsgs' = Erased(msgs')
BY DEF LinkMsgs, Erased, IsLinkEvent

(***************************************************************************)
(* Sending events adds their erased forms to what the link service sees.   *)
(***************************************************************************)
LEMMA ErasedSends ==
    ASSUME NEW ms, msgs' = msgs \cup ms
    PROVE  LinkMsgs' = LinkMsgs \cup Erased(ms)
BY LinkMsgsErased DEF Erased

(***************************************************************************)
(* Consuming one of two link events that differ in their nonce alone looks *)
(* like a delivery that leaves the event in flight.                        *)
(***************************************************************************)
LEMMA ErasedReplace ==
    ASSUME NEW m \in msgs, NEW ms, Replace(m, ms)
    PROVE  IF IsLinkEvent(m)
           THEN EraseNonce(m) \in LinkMsgs /\ LP!Replace(EraseNonce(m), Erased(ms))
           ELSE LinkMsgs' = LinkMsgs \cup Erased(ms)
<1> DEFINE em == EraseNonce(m)
<1>1. msgs' = (msgs \ {m}) \cup ms
  BY DEF Replace
<1>2. LinkMsgs' = Erased(msgs \ {m}) \cup Erased(ms)
  BY <1>1, LinkMsgsErased DEF Erased
<1>3. CASE IsLinkEvent(m)
  <2>1. em \in LinkMsgs
    BY <1>3, LinkMsgsErased DEF Erased
  <2>2. Erased(msgs \ {m}) \in {LinkMsgs \ {em}, LinkMsgs}
    <3>1. Erased(msgs \ {m}) \subseteq LinkMsgs /\ LinkMsgs \ {em} \subseteq Erased(msgs \ {m})
      BY LinkMsgsErased DEF Erased
    <3>2. QED
      BY <2>1, <3>1
  <2>3. LP!Replace(em, Erased(ms))
    BY <1>2, <2>2 DEF LP!Replace
  <2>4. QED
    BY <1>3, <2>1, <2>3
<1>4. CASE ~IsLinkEvent(m)
  <2>1. Erased(msgs \ {m}) = LinkMsgs
    BY <1>4, LinkMsgsErased DEF Erased
  <2>2. QED
    BY <1>2, <1>4, <2>1
<1>5. QED
  BY <1>3, <1>4

(***************************************************************************)
(* Events of other kinds are invisible to the link service.                *)
(***************************************************************************)
LEMMA ErasedNothing ==
    ASSUME NEW ms, \A m \in ms : ~IsLinkEvent(m)
    PROVE  Erased(ms) = {}
BY DEF Erased

(***************************************************************************)
(* Erasing the nonce of a link event leaves its other fields alone.        *)
(***************************************************************************)
LEMMA ErasedFacts ==
    ASSUME NEW m \in LinkReq \cup LinkRes
    PROVE  LET em == EraseNonce(m)
           IN  /\ IsLinkEvent(m)
               /\ em.type = m.type /\ em.dest = m.dest /\ em.nonce = None
               /\ em.dir = m.dir /\ em.level = m.level
               /\ m \in LinkReq => em.candidate = m.candidate
               /\ m \in LinkRes => em.linked = m.linked
BY DEF EraseNonce, LinkReq, LinkRes, IsLinkEvent

(***************************************************************************)
(* Asking the anchor, and its neighbour if there is one, is one step of    *)
(* the service: a request to the node on either side of u.                 *)
(***************************************************************************)
LEMMA ResumeNeighborLinks ==
    ASSUME JoinInv, NEW u \in Node, NEW r \in replies[u], ResumeNeighbor(u, r)
    PROVE  LP!Next
<1> DEFINE sdir == SearchDirection(u)
           qdir == Opposite(sdir)
           a == call[u].anchor
           m == GetLinkOp(a, Fresh(u), u, sdir, 0)
           q == GetLinkOp(r.neighbor, Fresh2(u), u, qdir, 0)
           ms == IF r.neighbor = None THEN {m} ELSE {m, q}
           to == [d \in Direction |-> IF d = sdir THEN a ELSE r.neighbor]
           sent == {LP!GetLinkOp(to[d], None, u, d, 0) : d \in {e \in Direction : to[e] # None}}
<1>1. call[u].pc = "neighbor" /\ table' = table /\ msgs' = msgs \cup ms
  BY DEF ResumeNeighbor, Issue
<1>2. a \in Node /\ a # None /\ r.neighbor \in Entry
  <2>1. TypeOK /\ Consistent(u, call[u], waiters[u], replies[u], issued[u])
    BY DEF JoinInv, TasksConsistent
  <2>2. a \in Node /\ a # None
    BY <1>1, <2>1, NoneAssumption DEF TypeOK, Consistent, Task, Entry
  <2>3. QED
    BY ZenonT(30), <1>1, <2>2, ReplyFacts
<1>3. /\ sdir \in Direction /\ qdir \in Direction /\ qdir # sdir
      /\ \A d \in Direction : d = sdir \/ d = qdir
  BY DEF SearchDirection, Direction, Opposite
<1> HIDE DEF sdir, qdir, a
<1>4. /\ EraseNonce(m) = LP!GetLinkOp(a, None, u, sdir, 0) /\ IsLinkEvent(m)
      /\ EraseNonce(q) = LP!GetLinkOp(r.neighbor, None, u, qdir, 0) /\ IsLinkEvent(q)
  BY DEF GetLinkOp, LP!GetLinkOp, EraseNonce, IsLinkEvent
<1>5. to[sdir] = a /\ to[qdir] = r.neighbor
  BY <1>3
<1>6. to \in [Direction -> Entry]
  BY <1>2 DEF Entry
<1> HIDE DEF m, q, to
<1>7. Erased(ms) = sent
  <2>1. CASE r.neighbor = None
    <3>1. Erased(ms) = {EraseNonce(m)}
      BY <1>4, <2>1 DEF Erased
    <3>2. {e \in Direction : to[e] # None} = {sdir}
      BY <1>2, <1>3, <1>5, <2>1
    <3>3. QED
      BY SMTT(30), Zenon, <1>4, <1>5, <3>1, <3>2
  <2>2. CASE r.neighbor # None
    <3>1. Erased(ms) = {EraseNonce(m), EraseNonce(q)}
      BY <1>4, <2>2 DEF Erased
    <3>2. {e \in Direction : to[e] # None} = {sdir, qdir}
      BY <1>2, <1>3, <1>5, <2>2
    <3>3. QED
      BY <1>4, <1>5, <3>1, <3>2
  <2>3. QED
    BY <2>1, <2>2
<1>8. LinkMsgs' = LinkMsgs \cup sent
  <2> HIDE DEF ms, sent
  <2> QED
    BY <1>1, <1>7, ErasedSends
<1>9. LP!SendLinkRequests(u, to, 0)
  BY <1>1, <1>8 DEF LP!SendLinkRequests, LP!Direction, Direction
<1>10. 0 \in LP!WireLevel /\ to \in [LP!Direction -> LP!Entry]
  BY <1>6, LevelsAssumption DEF LP!WireLevel, LP!Direction, Direction, LP!Entry, Entry
<1>11. QED
  BY <1>9, <1>10 DEF LP!Next

(***************************************************************************)
(* No other step of a task is visible to the service.                      *)
(***************************************************************************)
LEMMA TaskLinks ==
    ASSUME JoinInv, NEW u \in Node \ Member,
           StartCall(u) \/ Resume(u) \/ TimeOut(u) \/ Cancel(u)
    PROVE  LP!Next \/ UNCHANGED LP!vars
<1>1. CASE \E r \in replies[u] : ResumeNeighbor(u, r)
  BY <1>1, ResumeNeighborLinks
<1>2. ASSUME NEW i, GetMaxLevel(u, i)
      PROVE  table' = table /\ LinkMsgs' = LinkMsgs
  <2> DEFINE m == [type |-> "GetMaxLevelOp", dest |-> i, nonce |-> Fresh(u), origin |-> u]
  <2>1. table' = table /\ msgs' = msgs \cup {m}
    BY <1>2 DEF GetMaxLevel, Issue
  <2>2. Erased({m}) = {}
    BY ErasedNothing DEF IsLinkEvent
  <2>3. QED
    BY <2>1, <2>2, ErasedSends
<1>3. ASSUME NEW i, NEW level, JoinStage1(u, i, level)
      PROVE  table' = table /\ LinkMsgs' = LinkMsgs
  <2> DEFINE m == [type |-> "SearchByIdRequest", dest |-> i, nonce |-> Fresh(u),
                   target |-> u, origin |-> u, level |-> level,
                   direction |-> IF i < u THEN "Right" ELSE "Left"]
  <2>1. table' = table /\ (msgs' = msgs \/ msgs' = msgs \cup {m})
    BY <1>3 DEF JoinStage1, Issue
  <2>2. Erased({m}) = {}
    BY ErasedNothing DEF IsLinkEvent
  <2>3. QED
    BY SMTT(30), Zenon, <2>1, <2>2, ErasedSends, LinkMsgsErased
<1>4. ASSUME NEW r, ResumeSearch(u, r)
      PROVE  table' = table /\ LinkMsgs' = LinkMsgs
  <2> DEFINE m == [type |-> "GetNeighborOp", dest |-> r.result, nonce |-> Fresh(u),
                   origin |-> u, level |-> 0, direction |-> SearchDirection(u)]
  <2>1. table' = table /\ (msgs' = msgs \/ msgs' = msgs \cup {m})
    BY <1>4 DEF ResumeSearch, Issue
  <2>2. Erased({m}) = {}
    BY ErasedNothing DEF IsLinkEvent
  <2>3. QED
    BY SMTT(30), Zenon, <2>1, <2>2, ErasedSends, LinkMsgsErased
<1>5. ASSUME \/ \E r \in replies[u] : ResumeMaxLevel(u, r) \/ ResumeLink(u, r)
             \/ TimeOut(u) \/ Cancel(u)
      PROVE  table' = table /\ LinkMsgs' = LinkMsgs
  <2>1. table' = table /\ msgs' = msgs
    BY Zenon, <1>5 DEF ResumeMaxLevel, ResumeLink, TimeOut, FailRoundTrip, Cancel
  <2>2. QED
    BY <2>1, LinkMsgsErased
<1>6. QED
  BY SMTT(30), Zenon, <1>1, <1>2, <1>3, <1>4, <1>5 DEF StartCall, Resume, LP!vars

(***************************************************************************)
(* handle_get_link_request does the same to a request with its nonce and   *)
(* without: the nonce is copied and never looked at.                       *)
(***************************************************************************)
LEMMA GetLinkLinks ==
    ASSUME JoinInv, NEW m \in msgs, HandleGetLinkRequest(m)
    PROVE  LP!Next
<1> DEFINE em == EraseNonce(m)
           lt == table[m.dest]
           ms == GetLinkSends(lt, m)
           x == GetEntry(lt, m.level, m.dir)
           confirm == SetLinkOp(m.candidate, m.nonce, Opposite(m.dir), m.level, m.dest)
           forward == [m EXCEPT !.dest = x]
<1>1. TypeOK /\ m \in LinkReq
  BY MessageTypes DEF JoinInv, HandleGetLinkRequest
<1>2. /\ IsLinkEvent(m) /\ em.type = "GetLinkOp" /\ em.dest = m.dest /\ em.nonce = None
      /\ em.dir = m.dir /\ em.level = m.level /\ em.candidate = m.candidate
  BY <1>1, ErasedFacts DEF HandleGetLinkRequest
<1>3. /\ Replace(m, ms) /\ m.dest \in Node
      /\ table' = [table EXCEPT ![m.dest] = GetLinkTable(lt, m)]
  BY <1>1 DEF HandleGetLinkRequest, TypeOK, LinkReq
<1>4. EraseNonce(forward) = [em EXCEPT !.dest = x] /\ IsLinkEvent(forward)
  BY Zenon, <1>1 DEF LinkReq, EraseNonce, IsLinkEvent
<1>5. /\ EraseNonce(confirm) = LP!SetLinkOp(m.candidate, None, Opposite(m.dir), m.level, m.dest)
      /\ IsLinkEvent(confirm)
  BY DEF SetLinkOp, LP!SetLinkOp, EraseNonce, IsLinkEvent
<1> HIDE DEF em, confirm, forward
<1>6. LP!GetLinkBelongs(em) <=> GetLinkBelongs(m)
  BY <1>2 DEF LP!GetLinkBelongs, GetLinkBelongs, LP!BelongsInOwnSlot, BelongsInOwnSlot,
              LP!Precedes, Precedes, LP!PrefixMatch, PrefixMatch
<1>7. /\ LP!TryRelink(lt, em.level, em.dir, em.candidate)
             = TryRelink(lt, m.level, m.dir, m.candidate)
      /\ LP!LinkOutcome(lt, em.level, em.dir, em.candidate)
             = LinkOutcome(lt, m.level, m.dir, m.candidate)
  BY <1>2 DEF LP!TryRelink, TryRelink, LP!LinkOutcome, LinkOutcome,
              LP!RelinkOutcome, RelinkOutcome, LP!Precedes, Precedes
<1>8. LP!GetLinkTable(lt, em) = GetLinkTable(lt, m)
  BY ZenonT(30), <1>6, <1>7 DEF LP!GetLinkTable, GetLinkTable
<1>9. LP!GetLinkSends(lt, em) = Erased(ms)
  <2>1. ms = IF ~GetLinkBelongs(m) THEN {}
             ELSE IF LinkOutcome(lt, m.level, m.dir, m.candidate) = "LinkedDirectly"
             THEN {confirm} ELSE {forward}
    BY DEF GetLinkSends, confirm, forward
  <2>2. LP!GetLinkSends(lt, em) =
             IF ~GetLinkBelongs(m) THEN {}
             ELSE IF LinkOutcome(lt, m.level, m.dir, m.candidate) = "LinkedDirectly"
             THEN {EraseNonce(confirm)} ELSE {EraseNonce(forward)}
    <3>1. LP!GetEntry(lt, em.level, em.dir) = x /\ LP!Opposite(em.dir) = Opposite(m.dir)
      BY <1>2 DEF LP!GetEntry, GetEntry, LP!Opposite, Opposite
    <3>2. QED
      BY SMTT(30), Zenon, <1>2, <1>4, <1>5, <1>6, <1>7, <3>1 DEF LP!GetLinkSends
  <2>3. /\ Erased({}) = {} /\ Erased({confirm}) = {EraseNonce(confirm)}
        /\ Erased({forward}) = {EraseNonce(forward)}
    BY <1>4, <1>5 DEF Erased
  <2>4. QED
    BY Zenon, <2>1, <2>2, <2>3
<1> HIDE DEF ms
<1>10. em \in LinkMsgs /\ LP!Replace(em, Erased(ms))
  BY ZenonT(30), <1>2, <1>3, ErasedReplace DEF em
<1>11. LP!HandleGetLinkRequest(em)
  BY SMTT(30), Zenon, <1>1, <1>2, <1>3, <1>8, <1>9, <1>10
     DEF LP!HandleGetLinkRequest, TypeOK
<1>12. QED
  BY <1>10, <1>11 DEF LP!Next

(***************************************************************************)
(* handle_set_link_response is a step of the link service.                 *)
(***************************************************************************)
LEMMA SetLinkLinks ==
    ASSUME JoinInv, NEW m \in msgs, HandleSetLinkResponse(m)
    PROVE  LP!Next
<1> DEFINE em == EraseNonce(m)
           lt == table[m.dest]
<1>1. TypeOK /\ m \in LinkRes
  BY MessageTypes DEF JoinInv, HandleSetLinkResponse
<1>2. /\ IsLinkEvent(m) /\ em.type = "SetLinkOp" /\ em.dest = m.dest
      /\ em.dir = m.dir /\ em.level = m.level /\ em.linked = m.linked
  BY <1>1, ErasedFacts DEF HandleSetLinkResponse
<1>3. /\ Replace(m, {}) /\ m.dest \in Node
      /\ table' = [table EXCEPT ![m.dest] = SetLinkTable(lt, m)]
  BY <1>1 DEF HandleSetLinkResponse, Resolve, TypeOK, LinkRes
<1> HIDE DEF em
<1>4. LP!SetLinkTable(lt, em) = SetLinkTable(lt, m)
  <2>1. LP!BelongsInOwnSlot(em.dest, em.level, em.dir, em.linked)
          <=> BelongsInOwnSlot(m.dest, m.level, m.dir, m.linked)
    BY <1>2 DEF LP!BelongsInOwnSlot, BelongsInOwnSlot, LP!Precedes, Precedes,
                LP!PrefixMatch, PrefixMatch
  <2>2. LP!TryRelink(lt, em.level, em.dir, em.linked)
          = TryRelink(lt, m.level, m.dir, m.linked)
    BY <1>2 DEF LP!TryRelink, TryRelink, LP!RelinkOutcome, RelinkOutcome,
                LP!Precedes, Precedes
  <2>3. QED
    BY <1>2, <2>1, <2>2 DEF LP!SetLinkTable, SetLinkTable
<1>5. em \in LinkMsgs /\ LP!Replace(em, {})
  <2>1. em \in LinkMsgs /\ LP!Replace(em, Erased({}))
    BY <1>2, <1>3, ErasedReplace DEF em
  <2>2. Erased({}) = {}
    BY ZenonT(30), ErasedNothing
  <2>3. QED
    BY <2>1, <2>2
<1>6. LP!HandleSetLinkResponse(em)
  BY SMTT(30), Zenon, <1>1, <1>2, <1>3, <1>4, <1>5 DEF LP!HandleSetLinkResponse, TypeOK
<1>7. QED
  BY <1>5, <1>6 DEF LP!Next

(***************************************************************************)
(* The handlers of searches, levels and neighbours send no link event and  *)
(* write no table.                                                         *)
(***************************************************************************)
LEMMA HandlerLinks ==
    ASSUME JoinInv, NEW m \in msgs, ProcessIncomingEvent(m)
    PROVE  LP!Next \/ UNCHANGED LP!vars
<1>1. CASE HandleGetLinkRequest(m)
  BY <1>1, GetLinkLinks
<1>2. CASE HandleSetLinkResponse(m)
  BY <1>2, SetLinkLinks
<1>3. ASSUME NEW ms, Replace(m, ms), \A e \in ms : ~IsLinkEvent(e),
             ~IsLinkEvent(m), table' = table
      PROVE  UNCHANGED LP!vars
  BY <1>3, ErasedReplace, ErasedNothing DEF LP!vars
<1>4. CASE HandleSearchByIdRequest(m)
  <2> DEFINE res == SearchById(m.dest, table[m.dest], m.target, m.level, m.direction)
             answer == [type |-> "SearchByIdResponse", dest |-> m.origin,
                        nonce |-> m.nonce, target |-> m.target,
                        termination_level |-> res.termination_level,
                        result |-> res.result]
             relay == [m EXCEPT !.dest = res.result, !.level = res.termination_level]
  <2>1. m \in IdSearchReq /\ ~IsLinkEvent(m) /\ table' = table
    BY <1>4, MessageTypes DEF HandleSearchByIdRequest, IsLinkEvent, JoinInv
  <2>2. PICK ms \in {{}, {answer}, {relay}} : Replace(m, ms)
    BY <1>4 DEF HandleSearchByIdRequest
  <2> HIDE DEF res
  <2>3. ~IsLinkEvent(answer) /\ ~IsLinkEvent(relay)
    BY <2>1 DEF IsLinkEvent, IdSearchReq
  <2> HIDE DEF answer, relay
  <2>4. QED
    BY <1>3, <2>1, <2>2, <2>3
<1>5. CASE HandleGetMaxLevelRequest(m)
  <2> DEFINE answer == [type |-> "RetMaxLevelOp", dest |-> m.origin, nonce |-> m.nonce,
                        max_level |-> CoreMaxLevel(table[m.dest])]
  <2>1. ~IsLinkEvent(m) /\ table' = table /\ Replace(m, {answer}) /\ ~IsLinkEvent(answer)
    BY <1>5 DEF HandleGetMaxLevelRequest, IsLinkEvent
  <2>2. QED
    BY <1>3, <2>1
<1>6. CASE HandleGetNeighborRequest(m)
  <2> DEFINE answer == [type |-> "RetNeighborOp", dest |-> m.origin, nonce |-> m.nonce,
                        level |-> m.level, direction |-> m.direction,
                        neighbor |-> GetEntry(table[m.dest], m.level, m.direction)]
  <2>1. ~IsLinkEvent(m) /\ table' = table /\ Replace(m, {answer}) /\ ~IsLinkEvent(answer)
    BY <1>6 DEF HandleGetNeighborRequest, IsLinkEvent
  <2>2. QED
    BY <1>3, <2>1
<1>7. CASE \/ HandleSearchByIdResponse(m) \/ HandleRetMaxLevelResponse(m)
           \/ HandleRetNeighborResponse(m)
  <2>1. ~IsLinkEvent(m) /\ table' = table /\ Replace(m, {})
    BY <1>7 DEF HandleSearchByIdResponse, HandleRetMaxLevelResponse,
                HandleRetNeighborResponse, Resolve, IsLinkEvent
  <2>2. QED
    BY <1>3, <2>1
<1>8. QED
  BY <1>1, <1>2, <1>4, <1>5, <1>6, <1>7 DEF ProcessIncomingEvent

(***************************************************************************)
(* The join implements the link service: every step of every task and of   *)
(* every handler is a step of LinkProtocol or leaves its state alone.  So  *)
(* what TableProofs proves of the tables holds during joins.               *)
(***************************************************************************)
THEOREM JoinImplements == Spec => ImplementsLinkProtocol
<1>1. Init => LP!Init
  BY LinkMsgsErased, ErasedNothing DEF Init, LP!Init
<1>2. JoinInv /\ [Next]_vars => [LP!Next]_LP!vars
  <2> SUFFICES ASSUME JoinInv, [Next]_vars PROVE LP!Next \/ UNCHANGED LP!vars
    BY DEF LP!vars
  <2>1. CASE Next
    BY <2>1, TaskLinks, HandlerLinks DEF Next
  <2>2. CASE UNCHANGED vars
    BY <2>2, LinkMsgsErased DEF vars, LP!vars
  <2>3. QED
    BY <2>1, <2>2
<1>3. QED
  BY <1>1, <1>2, JoinInvariant, PTL DEF Spec, ImplementsLinkProtocol, LP!Spec

-----------------------------------------------------------------------------
(***************************************************************************)
(* The least element in front of the ascending list of the others is the   *)
(* ascending list of all.                                                  *)
(***************************************************************************)
LEMMA AscendingPrepend ==
    ASSUME NEW S \in SUBSET Nat, NEW x \in S, \A y \in S : x =< y,
           Cardinality(S) \in Nat \ {0}, Cardinality(S \ {x}) = Cardinality(S) - 1,
           NEW rest \in Ascending(S \ {x})
    PROVE  \E ids : ids \in Ascending(S)
<1> DEFINE n   == Cardinality(S)
           ids == [i \in 1..n |-> IF i = 1 THEN x ELSE rest[i - 1]]
<1>1. n \in Nat /\ n # 0 /\ Cardinality(S \ {x}) = n - 1
  OBVIOUS
<1> HIDE DEF n
<1>2. /\ rest \in [1..(n - 1) -> S \ {x}]
      /\ \A y \in S \ {x} : \E i \in 1..(n - 1) : rest[i] = y
      /\ \A i, j \in 1..(n - 1) : i < j => rest[i] < rest[j]
  BY Zenon, <1>1 DEF Ascending
<1>3. ids \in [1..n -> S]
  BY <1>1, <1>2
<1>4. ASSUME NEW y \in S PROVE \E i \in 1..n : ids[i] = y
  <2>1. CASE y = x
    BY <1>1, <2>1
  <2>2. CASE y # x
    <3>1. PICK i \in 1..(n - 1) : rest[i] = y
      BY <1>2, <2>2
    <3>2. i + 1 \in 1..n /\ i + 1 # 1 /\ (i + 1) - 1 = i
      BY <1>1
    <3>3. ids[i + 1] = y
      BY <3>1, <3>2
    <3>4. QED
      BY <3>2, <3>3
  <2>3. QED
    BY <2>1, <2>2
<1>5. ASSUME NEW i \in 1..n, NEW j \in 1..n, i < j PROVE ids[i] < ids[j]
  <2>1. j # 1 /\ j - 1 \in 1..(n - 1) /\ rest[j - 1] \in S /\ rest[j - 1] # x
    BY <1>1, <1>2, <1>5
  <2>2. CASE i = 1
    <3>1. ids[i] = x /\ ids[j] = rest[j - 1]
      BY <2>1, <2>2
    <3>2. x \in Nat /\ rest[j - 1] \in Nat /\ x =< rest[j - 1]
      BY Zenon, <2>1
    <3>3. QED
      BY <2>1, <3>1, <3>2
  <2>3. CASE i # 1
    <3>1. i - 1 \in 1..(n - 1) /\ i - 1 < j - 1
      BY <1>1, <1>5, <2>3
    <3>2. QED
      BY <1>2, <2>1, <2>3, <3>1
  <2>4. QED
    BY <2>2, <2>3
<1>6. DOMAIN ids = 1..n
  OBVIOUS
<1> HIDE DEF ids
<1>7. ids \in Ascending(S)
  BY <1>3, <1>4, <1>5, <1>6 DEF Ascending, n
<1>8. QED
  BY <1>7

(***************************************************************************)
(* In an ascending list the neighbours of an element are the nearest ones. *)
(***************************************************************************)
LEMMA AscendingNearest ==
    ASSUME NEW S \in SUBSET Node, Cardinality(S) \in Nat, NEW ids \in Ascending(S),
           NEW i \in 1..Cardinality(S)
    PROVE  /\ ids[i] \in S
           /\ IsNearest(S, ids[i], "Left", IF i = 1 THEN None ELSE ids[i - 1])
           /\ IsNearest(S, ids[i], "Right",
                        IF i = Cardinality(S) THEN None ELSE ids[i + 1])
<1> DEFINE n == Cardinality(S)
<1>1. n \in Nat /\ S \subseteq Nat /\ None \notin S
  BY Zenon, NodeAssumption, NoneAssumption
<1>2. /\ ids \in [1..n -> S]
      /\ \A x \in S : \E j \in 1..n : ids[j] = x
      /\ \A j, k \in 1..n : j < k => ids[j] < ids[k]
  BY DEF Ascending
<1> HIDE DEF n
<1>3. ids[i] \in S /\ i \in 1..n
  BY <1>2 DEF n
<1>4. \A j, k \in 1..n : ids[j] \in Nat /\ ids[k] \in Nat /\ (ids[j] < ids[k] => j < k)
  <2> SUFFICES ASSUME NEW j \in 1..n, NEW k \in 1..n
               PROVE  ids[j] \in Nat /\ ids[k] \in Nat /\ (ids[j] < ids[k] => j < k)
    OBVIOUS
  <2>1. ids[j] \in Nat /\ ids[k] \in Nat
    BY Zenon, <1>1, <1>2
  <2>2. CASE k < j
    <3>1. ids[k] < ids[j]
      BY <1>2, <2>2
    <3>2. QED
      BY <2>1, <3>1
  <2>3. CASE k = j
    BY <2>1, <2>3
  <2>4. QED
    BY <1>1, <2>1, <2>2, <2>3
<1>5. IsNearest(S, ids[i], "Left", IF i = 1 THEN None ELSE ids[i - 1])
  <2>1. CASE i = 1
    <3>1. \A x \in S : ~Precedes("Left", ids[i], x)
      BY <1>1, <1>2, <1>3, <1>4, <2>1 DEF Precedes
    <3>2. QED
      BY <2>1, <3>1 DEF IsNearest
  <2>2. CASE i # 1
    <3>1. i - 1 \in 1..n /\ i - 1 < i
      BY <1>1, <1>3, <2>2
    <3>2. ids[i - 1] \in S /\ ids[i - 1] # None /\ Precedes("Left", ids[i], ids[i - 1])
      BY <1>1, <1>2, <1>3, <3>1 DEF Precedes
    <3>3. ASSUME NEW x \in S, Precedes("Left", ids[i], x), Precedes("Left", x, ids[i - 1])
          PROVE  FALSE
      <4>1. PICK j \in 1..n : ids[j] = x
        BY <1>2
      <4>2. j < i /\ i - 1 < j
        BY <1>3, <1>4, <3>1, <3>3, <4>1 DEF Precedes
      <4>3. QED
        BY <1>1, <1>3, <4>2
    <3>4. QED
      BY <2>2, <3>2, <3>3 DEF IsNearest
  <2>3. QED
    BY <2>1, <2>2
<1>6. IsNearest(S, ids[i], "Right", IF i = n THEN None ELSE ids[i + 1])
  <2>1. CASE i = n
    <3>1. \A x \in S : ~Precedes("Right", ids[i], x)
      BY <1>1, <1>2, <1>3, <1>4, <2>1 DEF Precedes
    <3>2. QED
      BY <2>1, <3>1 DEF IsNearest
  <2>2. CASE i # n
    <3>1. i + 1 \in 1..n /\ i < i + 1
      BY <1>1, <1>3, <2>2
    <3>2. ids[i + 1] \in S /\ ids[i + 1] # None /\ Precedes("Right", ids[i], ids[i + 1])
      BY <1>1, <1>2, <1>3, <3>1 DEF Precedes
    <3>3. ASSUME NEW x \in S, Precedes("Right", ids[i], x), Precedes("Right", x, ids[i + 1])
          PROVE  FALSE
      <4>1. PICK j \in 1..n : ids[j] = x
        BY <1>2
      <4>2. i < j /\ j < i + 1
        BY <1>3, <1>4, <3>1, <3>3, <4>1 DEF Precedes
      <4>3. QED
        BY <1>1, <1>3, <4>2
    <3>4. QED
      BY <2>2, <3>2, <3>3 DEF IsNearest
  <2>3. QED
    BY <2>1, <2>2
<1>7. QED
  BY <1>3, <1>5, <1>6 DEF n

(***************************************************************************)
(* Nearest nodes.  There is at most one, and Nearest returns it.           *)
(***************************************************************************)
LEMMA NearestUnique ==
    ASSUME NEW S \in SUBSET Node, NEW n \in Node, NEW d \in Direction,
           NEW y, IsNearest(S, n, d, y)
    PROVE  /\ y \in S \cup {None} /\ (y # None => y \in Node)
           /\ \A z : IsNearest(S, n, d, z) => z = y
<1>1. y \in S \cup {None} /\ (y # None => y \in Node)
  BY DEF IsNearest
<1>2. ASSUME NEW z, IsNearest(S, n, d, z) PROVE z = y
  <2>1. CASE y = None \/ z = None
    BY <1>2, <2>1 DEF IsNearest
  <2>2. CASE y # None /\ z # None
    <3>1. y \in Node /\ z \in Node /\ ~Precedes(d, z, y) /\ ~Precedes(d, y, z)
      BY <1>2, <2>2 DEF IsNearest
    <3>2. QED
      BY <3>1, PrecedesOrder
  <2>3. QED
    BY <2>1, <2>2
<1>3. QED
  BY <1>1, <1>2

(***************************************************************************)
(* At level 0 every node shares the prefix, so that Nearest is the nearest *)
(* node of all.                                                            *)
(***************************************************************************)
LEMMA NearestIs ==
    ASSUME NEW S \in SUBSET Node, NEW n \in Node, NEW d \in Direction,
           NEW y, IsNearest(S, n, d, y)
    PROVE  Nearest(S, n, d, 0) = y
<1> DEFINE c == {x \in S : BelongsInOwnSlot(n, 0, d, x)}
<1>1. \A x \in S : BelongsInOwnSlot(n, 0, d, x) <=> Precedes(d, n, x)
  BY LevelsAssumption DEF BelongsInOwnSlot, PrefixMatch
<1>2. CASE y = None
  <2>1. c = {}
    BY <1>1, <1>2 DEF IsNearest
  <2>2. QED
    BY <1>2, <2>1 DEF Nearest
<1>3. CASE y # None
  <2>1. y \in c /\ \A x \in c : ~Precedes(d, x, y)
    BY <1>1, <1>3 DEF IsNearest
  <2>2. \A z \in c : (\A x \in c : ~Precedes(d, x, z)) => z = y
    BY <2>1, PrecedesOrder
  <2> HIDE DEF c
  <2>3. y = CHOOSE x \in c : \A z \in c : ~Precedes(d, z, x)
    BY <2>1, <2>2
  <2>4. QED
    BY <2>1, <2>3 DEF Nearest, c
<1>4. QED
  BY <1>2, <1>3

(***************************************************************************)
(* A node u outside the list, between its two neighbours in it: what the   *)
(* neighbour on one side holds towards u is the neighbour on the other.    *)
(***************************************************************************)
LEMMA NearestAcross ==
    ASSUME NEW S \in SUBSET Node, NEW u \in Node \ S, NEW d \in Direction,
           NEW y \in S, IsNearest(S, u, d, y),
           NEW e, IsNearest(S, y, Opposite(d), e)
    PROVE  IsNearest(S, u, Opposite(d), e)
<1>1. /\ y \in Node /\ u \in Node /\ y # None /\ Opposite(d) \in Direction
      /\ Precedes(d, u, y) /\ \A x \in S : Precedes(d, u, x) => ~Precedes(d, x, y)
  BY NoneAssumption, OppositeFacts DEF IsNearest
<1>2. \A x, z \in Node : Precedes(Opposite(d), x, z) <=> Precedes(d, z, x)
  BY PrecedesOrder
<1>3. ASSUME NEW x \in S, Precedes(Opposite(d), u, x)
      PROVE  Precedes(Opposite(d), y, x)
  BY <1>1, <1>2, <1>3, PrecedesOrder
<1>4. CASE e = None
  BY <1>3, <1>4 DEF IsNearest
<1>5. CASE e # None
  <2>1. /\ e \in S /\ Precedes(Opposite(d), y, e)
        /\ \A x \in S : Precedes(Opposite(d), y, x) => ~Precedes(Opposite(d), x, e)
    BY <1>5 DEF IsNearest
  <2>2. Precedes(Opposite(d), u, e)
    BY <1>1, <1>2, <2>1, PrecedesOrder
  <2>3. QED
    BY <1>3, <1>5, <2>1, <2>2 DEF IsNearest
<1>6. QED
  BY <1>4, <1>5

(***************************************************************************)
(* What u's joining makes of the neighbours: its own stay, it becomes that *)
(* of its two neighbours, and nothing else changes.                        *)
(***************************************************************************)
LEMMA NearestInserted ==
    ASSUME NEW S \in SUBSET Node, NEW u \in Node \ S, NEW d \in Direction, NEW y
    PROVE  /\ IsNearest(S, u, d, y) => IsNearest(S \cup {u}, u, d, y)
           /\ IsNearest(S, u, d, y) /\ y # None => IsNearest(S \cup {u}, y, Opposite(d), u)
           /\ \A n \in S :
                 /\ IsNearest(S \cup {u}, n, d, u) => IsNearest(S, u, Opposite(d), n)
                 /\ IsNearest(S, n, d, y) /\ ~IsNearest(S \cup {u}, n, d, u) =>
                       IsNearest(S \cup {u}, n, d, y)
<1>1. u \in Node /\ u # None /\ Opposite(d) \in Direction
  BY NoneAssumption, OppositeFacts
<1>2. \A x, z \in Node : Precedes(Opposite(d), x, z) <=> Precedes(d, z, x)
  BY PrecedesOrder
<1>3. IsNearest(S, u, d, y) => IsNearest(S \cup {u}, u, d, y)
  BY <1>1, PrecedesOrder DEF IsNearest
<1>4. ASSUME IsNearest(S, u, d, y), y # None PROVE IsNearest(S \cup {u}, y, Opposite(d), u)
  <2>1. y \in Node /\ Precedes(d, u, y) /\ \A x \in S : Precedes(d, u, x) => ~Precedes(d, x, y)
    BY <1>4 DEF IsNearest
  <2>2. \A x \in S \cup {u} : Precedes(Opposite(d), y, x) => ~Precedes(Opposite(d), x, u)
    BY <1>1, <1>2, <2>1, PrecedesOrder
  <2>3. QED
    BY <1>1, <1>2, <2>1, <2>2 DEF IsNearest
<1>5. ASSUME NEW n \in S, IsNearest(S \cup {u}, n, d, u) PROVE IsNearest(S, u, Opposite(d), n)
  <2>1. n \in Node /\ n # None /\ Precedes(d, n, u)
        /\ \A x \in S : Precedes(d, n, x) => ~Precedes(d, x, u)
    BY <1>1, <1>5, NoneAssumption DEF IsNearest
  <2>2. \A x \in S : Precedes(Opposite(d), u, x) => ~Precedes(Opposite(d), x, n)
    BY <1>1, <1>2, <2>1, PrecedesOrder
  <2>3. QED
    BY <1>1, <1>2, <2>1, <2>2 DEF IsNearest
<1>6. ASSUME NEW n \in S, IsNearest(S, n, d, y), ~IsNearest(S \cup {u}, n, d, u)
      PROVE  IsNearest(S \cup {u}, n, d, y)
  <2>1. n \in Node
    OBVIOUS
  <2>2. CASE ~Precedes(d, n, u)
    BY <1>6, <2>2 DEF IsNearest
  <2>3. CASE Precedes(d, n, u)
    <3>1. PICK x \in S : Precedes(d, n, x) /\ Precedes(d, x, u)
      BY <1>1, <1>6, <2>1, <2>3, PrecedesOrder DEF IsNearest
    <3>2. y # None /\ y \in S /\ ~Precedes(d, x, y) /\ x \in Node /\ y \in Node
      BY <1>6, <3>1 DEF IsNearest
    <3>3. ~Precedes(d, u, y)
      BY <1>1, <3>1, <3>2, PrecedesOrder
    <3>4. QED
      BY <1>6, <3>2, <3>3 DEF IsNearest
  <2>4. QED
    BY <2>2, <2>3
<1>7. QED
  BY <1>3, <1>4, <1>5, <1>6

-----------------------------------------------------------------------------
(***************************************************************************)
(* The tables t fit a level-0 list of the nodes S into which the nodes of  *)
(* L are being linked: a slot of a node of S holds the neighbour in S or   *)
(* the node of L that has come in between; one of a node of L is empty or  *)
(* holds its neighbour to be; and nobody else is linked.                   *)
(***************************************************************************)
Fits(t, S, L) ==
    /\ \A n \in Node, d \in Direction, l \in Level : t[n][d][l] \in S \cup L \cup {None}
    /\ \A n \in S, d \in Direction :
          \/ IsNearest(S, n, d, t[n][d][0])
          \/ t[n][d][0] \in L /\ IsNearest(S \cup {t[n][d][0]}, n, d, t[n][d][0])
    /\ \A n \in Node \ S, d \in Direction :
          \/ t[n][d][0] = None
          \/ n \in L /\ IsNearest(S, n, d, t[n][d][0])

Linking == {u \in Node : call[u].pc = "link"}

(***************************************************************************)
(* Node u and its neighbour to be on side d hold each other.               *)
(***************************************************************************)
LinkedOn(t, S, u, d) ==
    /\ IsNearest(S, u, d, t[u][d][0])
    /\ t[u][d][0] # None => t[t[u][d][0]][Opposite(d)][0] = u

(***************************************************************************)
(* What an event m, in flight or in a channel, of the task k of u says     *)
(* when the tables are t and the nodes of S have joined: a request is      *)
(* where it can be answered rightly, and an answer is right.               *)
(***************************************************************************)
Right(t, S, u, k, m) ==
    LET d == Heading(u, k)
    IN  /\ m.type \in {"GetMaxLevelOp", "RetMaxLevelOp"} => k.pc = "maxlevel"
        /\ m.type \in {"SearchByIdRequest", "SearchByIdResponse"} => k.pc = "search"
        /\ m.type \in {"GetNeighborOp", "RetNeighborOp"} => k.pc = "neighbor"
        /\ m.type \in {"GetLinkOp", "SetLinkOp"} => k.pc = "link"
        /\ m.type \in {"SearchByIdRequest", "GetMaxLevelOp", "GetNeighborOp"} => m.origin = u
        /\ m.type \in {"SearchByIdResponse", "RetMaxLevelOp", "RetNeighborOp", "SetLinkOp"} =>
              m.dest = u
        /\ m.type = "SearchByIdRequest" =>
              m.target = u /\ m.direction = d /\ m.dest \in S /\ Precedes(d, m.dest, u)
        /\ m.type = "SearchByIdResponse" => IsNearest(S, u, Opposite(d), m.result)
        /\ m.type = "GetNeighborOp" => m.dest = k.anchor /\ m.level = 0 /\ m.direction = d
        /\ m.type = "RetNeighborOp" => IsNearest(S, u, d, m.neighbor)
        /\ m.type = "GetLinkOp" =>
              m.candidate = u /\ m.level = 0 /\ IsNearest(S, u, Opposite(m.dir), m.dest)
        /\ m.type = "SetLinkOp" =>
              /\ m.level = 0 /\ m.linked # None /\ IsNearest(S, u, m.dir, m.linked)
              /\ t[m.linked][Opposite(m.dir)][0] = u

(***************************************************************************)
(* The task k of u, with its waiters ws.  A search has found the nearest   *)
(* node, and a side that is not linked yet has its request under way.      *)
(***************************************************************************)
OnCourse(t, S, u, k, ws) ==
    /\ k.pc \in Awaiting => u \notin Member
    /\ k.pc \in Awaiting \ {"maxlevel"} => ~k.failed
    /\ k.pc = "neighbor" => IsNearest(S, u, Opposite(Heading(u, k)), k.anchor)
    /\ k.pc = "link" => \A d \in Direction : LinkedOn(t, S, u, d) \/ \E w \in ws : w.dir = d

(***************************************************************************)
(* The inductive invariant of joins that do not overlap.  At most one task *)
(* awaits, and every event in flight is that task's, with its waiter.      *)
(***************************************************************************)
Alone == \A u, v \in Node : call[u].pc \in Awaiting /\ call[v].pc \in Awaiting => u = v

SentRight ==
    \A m \in msgs : /\ \E w \in waiters[m.nonce[1]] : w.nonce = m.nonce
                    /\ \A e \in msgs : e.nonce = m.nonce => e = m
                    /\ Right(table, Joined, m.nonce[1], call[m.nonce[1]], m)

GotRight == \A u \in Node : \A r \in replies[u] : Right(table, Joined, u, call[u], r)

SequentialInv ==
    /\ Alone
    /\ \A u \in Node : OnCourse(table, Joined, u, call[u], waiters[u])
    /\ Fits(table, Joined, Linking)
    /\ SentRight
    /\ GotRight

(***************************************************************************)
(* An event in flight belongs to a request that the one awaiting task      *)
(* awaits.                                                                 *)
(***************************************************************************)
LEMMA EventOfTask ==
    ASSUME JoinInv, SequentialInv, NEW m \in msgs
    PROVE  LET u == m.nonce[1]
           IN  /\ u \in Node /\ call[u].pc \in Awaiting /\ u \notin Joined
               /\ m.nonce \in call[u].rx
               /\ Right(table, Joined, u, call[u], m)
               /\ OnCourse(table, Joined, u, call[u], waiters[u])
               /\ \A v \in Node : v # u => call[v].pc \notin Awaiting
               /\ call[u].pc = "link" => Linking = {u}
               /\ call[u].pc # "link" => Linking = {}
<1> DEFINE u == m.nonce[1]
<1>1. u \in Node
  BY MessageTypes DEF JoinInv, Nonce
<1> HIDE DEF u
<1>2. PICK w \in waiters[u] : w.nonce = m.nonce
  BY DEF SequentialInv, SentRight, u
<1>3. Consistent(u, call[u], waiters[u], replies[u], issued[u])
  BY <1>1 DEF JoinInv, TasksConsistent
<1>4. m.nonce \in call[u].rx /\ call[u].pc \in Awaiting
  BY Zenon, <1>2, <1>3 DEF Consistent
<1>5. OnCourse(table, Joined, u, call[u], waiters[u]) /\ Alone
  BY <1>1 DEF SequentialInv
<1>6. u \notin Joined
  BY Zenon, <1>4, <1>5 DEF Joined, OnCourse, Awaiting
<1>7. \A v \in Node : v # u => call[v].pc \notin Awaiting
  BY <1>1, <1>4, <1>5 DEF Alone
<1>8. Right(table, Joined, u, call[u], m)
  BY DEF SequentialInv, SentRight, u
<1>9. \A v \in Linking : v \in Node /\ call[v].pc \in Awaiting /\ call[v].pc = "link"
  BY DEF Linking, Awaiting
<1>10. (call[u].pc = "link" => Linking = {u}) /\ (call[u].pc # "link" => Linking = {})
  BY <1>1, <1>7, <1>9 DEF Linking
<1>11. QED
  BY Zenon, <1>1, <1>4, <1>5, <1>6, <1>7, <1>8, <1>10 DEF u

(***************************************************************************)
(* Without waiters nothing is in flight.                                   *)
(***************************************************************************)
LEMMA NothingInFlight ==
    ASSUME JoinInv, SequentialInv, \A v \in Node : waiters[v] = {}
    PROVE  msgs = {}
<1>1. \A m \in msgs : m.nonce[1] \in Node /\ waiters[m.nonce[1]] # {}
  BY MessageTypes DEF JoinInv, Nonce, SequentialInv, SentRight
<1>2. QED
  BY <1>1

(***************************************************************************)
(* More nodes may be linking.                                              *)
(***************************************************************************)
LEMMA FitsMore ==
    ASSUME NEW t, NEW S, NEW L, NEW M, L \subseteq M, Fits(t, S, L)
    PROVE  Fits(t, S, M)
BY DEF Fits

(***************************************************************************)
(* A step after which only u may await, and only for what it has just sent *)
(* to the right place, keeps the invariant.                                *)
(***************************************************************************)
LEMMA FreshRequests ==
    ASSUME SequentialInv, NEW u \in Node \ Member, table' = table,
           \A v \in Node : v # u => call'[v] = call[v] /\ call[v].pc \notin Awaiting,
           call[u].pc \notin {"ok", "link"}, call'[u].pc # "ok",
           \A v \in Node : replies'[v] = {},
           OnCourse(table, Joined, u, call'[u], waiters'[u]),
           \A m \in msgs' : /\ m.nonce[1] = u
                            /\ \E w \in waiters'[u] : w.nonce = m.nonce
                            /\ \A e \in msgs' : e.nonce = m.nonce => e = m
                            /\ Right(table, Joined, u, call'[u], m)
    PROVE  SequentialInv'
<1>1. Joined' = Joined
  BY DEF Joined
<1>2. Linking \subseteq Linking'
  BY DEF Linking
<1>3. Fits(table, Joined, Linking')
  BY <1>2, FitsMore DEF SequentialInv
<1>4. Fits(table, Joined, Linking)'
  BY <1>1, <1>3 DEF Fits
<1>5. Alone'
  BY Zenon DEF Alone
<1>6. ASSUME NEW v \in Node PROVE OnCourse(table, Joined, v, call[v], waiters[v])'
  <2>1. CASE v = u
    BY Zenon, <1>1, <2>1 DEF OnCourse, LinkedOn
  <2>2. CASE v # u
    BY <2>2 DEF OnCourse, Awaiting
  <2>3. QED
    BY <2>1, <2>2
<1>7. SentRight'
  <2>1. ASSUME NEW m \in msgs' PROVE Right(table', Joined', m.nonce[1], call'[m.nonce[1]], m)
    BY <1>1
  <2>2. QED
    BY <2>1 DEF SentRight
<1>8. GotRight'
  BY DEF GotRight
<1>9. QED
  BY Zenon, <1>4, <1>5, <1>6, <1>7, <1>8 DEF SequentialInv

-----------------------------------------------------------------------------
(***************************************************************************)
(* The steps of a task.  In a quiescent network no channel holds a reply.  *)
(***************************************************************************)
LEMMA QuiescentChannels ==
    ASSUME JoinInv, Quiescent
    PROVE  \A v \in Node : call[v].pc \notin Awaiting /\ waiters[v] = {} /\ replies[v] = {}
BY RestingTask DEF JoinInv, TasksConsistent, Quiescent

(***************************************************************************)
(* get_max_level.                                                          *)
(***************************************************************************)
LEMMA GetMaxLevelSequential ==
    ASSUME JoinInv, SequentialInv, Quiescent, NEW u \in Node \ Member, NEW i \in Node,
           GetMaxLevel(u, i)
    PROVE  SequentialInv'
<1> DEFINE w == NewWaiter(Fresh(u), "MaxLevel")
           m == [type |-> "GetMaxLevelOp", dest |-> i, nonce |-> Fresh(u), origin |-> u]
           t == [call[u] EXCEPT !.pc = "maxlevel", !.introducer = i, !.rx = {Fresh(u)}]
<1>1. TypeOK /\ call[u] \in Task /\ call[u].pc = "idle"
  BY DEF JoinInv, TypeOK, GetMaxLevel
<1>2. /\ t.pc = "maxlevel" /\ w.nonce = Fresh(u)
      /\ m.nonce = Fresh(u) /\ m.type = "GetMaxLevelOp" /\ m.origin = u
  BY <1>1 DEF Task, NewWaiter
<1>3. /\ call' = [call EXCEPT ![u] = t] /\ Issue(u, 1, {w}, {m})
      /\ replies' = replies /\ table' = table
  BY DEF GetMaxLevel
<1> HIDE DEF t, w, m
<1>4. /\ call'[u] = t /\ w \in waiters'[u] /\ msgs' = {m}
      /\ \A v \in Node : v # u => call'[v] = call[v]
  BY SMTT(30), Zenon, <1>1, <1>3 DEF TypeOK, Issue, Quiescent
<1>5. Right(table, Joined, u, t, m)
  BY Zenon, <1>2 DEF Right
<1>6. OnCourse(table, Joined, u, t, waiters'[u])
  BY Zenon, <1>2 DEF OnCourse, Awaiting
<1>7. m.nonce[1] = u
  BY <1>2 DEF Fresh
<1>8. \A q \in msgs' : /\ q.nonce[1] = u
                       /\ \E x \in waiters'[u] : x.nonce = q.nonce
                       /\ \A e \in msgs' : e.nonce = q.nonce => e = q
                       /\ Right(table, Joined, u, call'[u], q)
  BY Zenon, <1>2, <1>4, <1>5, <1>7
<1>9. call[u].pc \notin {"ok", "link"} /\ call'[u].pc # "ok"
  BY <1>1, <1>2, <1>4
<1>10. QED
  BY Zenon, <1>3, <1>4, <1>6, <1>8, <1>9, QuiescentChannels, FreshRequests

(***************************************************************************)
(* join_stage1_link_level0, up to its first await: its search starts at a  *)
(* joined node, which lies before u in the heading.                        *)
(***************************************************************************)
LEMMA JoinStage1Sequential ==
    ASSUME JoinInv, SequentialInv, Quiescent, NEW u \in Node \ Member,
           NEW i \in Joined \cup {u}, NEW level \in Nat, JoinStage1(u, i, level)
    PROVE  SequentialInv'
<1> DEFINE w == NewWaiter(Fresh(u), "AsyncSearch")
           d == IF i < u THEN "Right" ELSE "Left"
           m == [type |-> "SearchByIdRequest", dest |-> i, nonce |-> Fresh(u),
                 target |-> u, origin |-> u, level |-> level, direction |-> d]
           more == call[u].attempts + 1
           r == [call[u] EXCEPT !.pc = "err", !.attempts = more]
           t == [call[u] EXCEPT !.pc = "search", !.introducer = i, !.level = level,
                                !.anchor = None, !.rx = {Fresh(u)}, !.failed = FALSE,
                                !.attempts = more]
<1>1. TypeOK /\ call[u] \in Task /\ call[u].pc \notin {"ok", "link"}
  BY DEF JoinInv, TypeOK, JoinStage1
<1>2. replies' = replies /\ table' = table
  BY DEF JoinStage1
<1>3. /\ i = u => call' = [call EXCEPT ![u] = r] /\ UNCHANGED <<issued, waiters, msgs>>
      /\ i # u => call' = [call EXCEPT ![u] = t] /\ Issue(u, 1, {w}, {m})
  BY DEF JoinStage1
<1> HIDE DEF more
<1>4. CASE i = u
  <2>1. r.pc = "err"
    BY <1>1 DEF Task
  <2> HIDE DEF r
  <2>2. /\ call'[u] = r /\ msgs' = {}
        /\ \A v \in Node : v # u => call'[v] = call[v]
    BY SMTT(30), Zenon, <1>1, <1>3, <1>4 DEF TypeOK, Quiescent
  <2>3. OnCourse(table, Joined, u, r, waiters'[u])
    BY Zenon, <2>1 DEF OnCourse, Awaiting
  <2>4. QED
    BY Zenon, <1>1, <1>2, <2>1, <2>2, <2>3, QuiescentChannels, FreshRequests
<1>5. CASE i # u
  <2>1. /\ t.pc = "search" /\ t.introducer = i /\ w.nonce = Fresh(u)
        /\ m.nonce = Fresh(u) /\ m.type = "SearchByIdRequest" /\ m.origin = u
        /\ m.target = u /\ m.direction = d /\ m.dest = i
    BY <1>1 DEF Task, NewWaiter
  <2>2. ~t.failed
    BY Zenon, <1>1 DEF Task
  <2>3. i \in Joined /\ i \in Node
    BY <1>5, MemberAssumption DEF Joined
  <2>4. Precedes(d, i, u)
    BY <1>5, <2>3, NodeAssumption DEF Precedes
  <2>5. Heading(u, t) = d
    BY <2>1 DEF Heading
  <2> HIDE DEF t, w, m, d
  <2>6. /\ call'[u] = t /\ w \in waiters'[u] /\ msgs' = {m}
        /\ \A v \in Node : v # u => call'[v] = call[v]
    BY SMTT(30), Zenon, <1>1, <1>3, <1>5 DEF TypeOK, Issue, Quiescent
  <2>7. Right(table, Joined, u, t, m)
    BY Zenon, <2>1, <2>3, <2>4, <2>5 DEF Right
  <2>8. OnCourse(table, Joined, u, t, waiters'[u])
    BY Zenon, <2>1, <2>2 DEF OnCourse, Awaiting
  <2>9. m.nonce[1] = u
    BY <2>1 DEF Fresh
  <2>10. \A q \in msgs' : /\ q.nonce[1] = u
                          /\ \E x \in waiters'[u] : x.nonce = q.nonce
                          /\ \A e \in msgs' : e.nonce = q.nonce => e = q
                          /\ Right(table, Joined, u, call'[u], q)
    BY Zenon, <2>1, <2>6, <2>7, <2>9
  <2>11. call'[u].pc # "ok"
    BY <2>1, <2>6
  <2>12. QED
    BY Zenon, <1>1, <1>2, <2>6, <2>8, <2>10, <2>11, QuiescentChannels, FreshRequests
<1>6. QED
  BY <1>4, <1>5

(***************************************************************************)
(* A task that resumes: nobody else awaits, and with its only reply it has *)
(* nothing in flight.                                                      *)
(***************************************************************************)
LEMMA ResumesAlone ==
    ASSUME JoinInv, SequentialInv, NEW u \in Node, NEW r \in replies[u],
           call[u].pc \in Awaiting
    PROVE  /\ u \notin Joined /\ Right(table, Joined, u, call[u], r)
           /\ OnCourse(table, Joined, u, call[u], waiters[u])
           /\ \A v \in Node : v # u =>
                 call[v].pc \notin Awaiting /\ waiters[v] = {} /\ replies[v] = {}
           /\ waiters[u] = {} => msgs = {}
           /\ call[u].pc # "link" =>
                 waiters[u] = {} /\ replies[u] = {r} /\ Linking = {}
<1>1. OnCourse(table, Joined, u, call[u], waiters[u]) /\ Alone
      /\ Right(table, Joined, u, call[u], r)
  BY DEF SequentialInv, GotRight
<1>2. u \notin Joined
  BY Zenon, <1>1 DEF Joined, OnCourse, Awaiting
<1>3. \A v \in Node : v # u =>
         call[v].pc \notin Awaiting /\ waiters[v] = {} /\ replies[v] = {}
  BY <1>1, RestingTask DEF Alone, JoinInv, TasksConsistent
<1>4. waiters[u] = {} => msgs = {}
  BY Zenon, <1>3, NothingInFlight
<1>5. call[u].pc # "link" => waiters[u] = {} /\ replies[u] = {r}
  BY ReplyFacts
<1>6. call[u].pc # "link" => Linking = {}
  BY <1>3 DEF Linking, Awaiting
<1>7. QED
  BY Zenon, <1>1, <1>2, <1>3, <1>4, <1>5, <1>6

(***************************************************************************)
(* get_max_level resumes.                                                  *)
(***************************************************************************)
LEMMA ResumeMaxLevelSequential ==
    ASSUME JoinInv, SequentialInv, NEW u \in Node \ Member, NEW r \in replies[u],
           ResumeMaxLevel(u, r)
    PROVE  SequentialInv'
<1> DEFINE t == [call[u] EXCEPT !.pc = "ready", !.level = r.max_level, !.rx = {}]
<1>1. TypeOK /\ call[u] \in Task /\ call[u].pc = "maxlevel"
  BY DEF JoinInv, TypeOK, ResumeMaxLevel
<1>2. t.pc = "ready"
  BY <1>1 DEF Task
<1>3. /\ replies[u] = {r} /\ msgs = {}
      /\ \A v \in Node : v # u => call[v].pc \notin Awaiting /\ replies[v] = {}
  BY <1>1, ResumesAlone DEF Awaiting
<1>4. /\ call' = [call EXCEPT ![u] = t] /\ replies' = [replies EXCEPT ![u] = @ \ {r}]
      /\ table' = table /\ msgs' = msgs
  BY DEF ResumeMaxLevel, Consume
<1> HIDE DEF t
<1>5. /\ call'[u] = t /\ msgs' = {}
      /\ \A v \in Node : replies'[v] = {}
      /\ \A v \in Node : v # u => call'[v] = call[v]
  BY SMTT(30), Zenon, <1>1, <1>3, <1>4 DEF TypeOK
<1>6. OnCourse(table, Joined, u, t, waiters'[u])
  BY Zenon, <1>2 DEF OnCourse, Awaiting
<1>7. QED
  BY Zenon, <1>1, <1>2, <1>3, <1>4, <1>5, <1>6, FreshRequests

(***************************************************************************)
(* Stage 1 resumes with the search result.  It is a joined node, so never  *)
(* a collision, and the nearest one: what SearchFindsNearest says.         *)
(***************************************************************************)
LEMMA ResumeSearchSequential ==
    ASSUME JoinInv, SequentialInv, NEW u \in Node \ Member, NEW r \in replies[u],
           ResumeSearch(u, r)
    PROVE  SequentialInv'
<1> DEFINE w == NewWaiter(Fresh(u), "Neighbor")
           m == [type |-> "GetNeighborOp", dest |-> r.result, nonce |-> Fresh(u),
                 origin |-> u, level |-> 0, direction |-> SearchDirection(u)]
           t == [call[u] EXCEPT !.pc = "neighbor", !.anchor = r.result, !.rx = {Fresh(u)}]
<1>1. TypeOK /\ call[u] \in Task /\ call[u].pc = "search"
  BY DEF JoinInv, TypeOK, ResumeSearch
<1>2. /\ replies[u] = {r} /\ msgs = {} /\ u \notin Joined
      /\ Right(table, Joined, u, call[u], r) /\ OnCourse(table, Joined, u, call[u], waiters[u])
      /\ \A v \in Node : v # u => call[v].pc \notin Awaiting /\ replies[v] = {}
  BY SMTT(30), Zenon, <1>1, ResumesAlone DEF Awaiting
<1>3. r.type = "SearchByIdResponse" /\ r.result \in Node
  BY <1>1, ReplyFacts DEF JoinInv, TasksConsistent, Consistent, AwaitedReply
<1>4. IsNearest(Joined, u, Opposite(Heading(u, call[u])), r.result)
  BY Zenon, <1>2, <1>3 DEF Right
<1>5. r.result # u
  BY <1>2, <1>3, <1>4, NoneAssumption DEF IsNearest
<1>6. ~call[u].failed
  BY Zenon, <1>1, <1>2 DEF OnCourse, Awaiting
<1>7. /\ t.pc = "neighbor" /\ t.anchor = r.result /\ t.introducer = call[u].introducer
      /\ w.nonce = Fresh(u) /\ m.nonce = Fresh(u) /\ m.type = "GetNeighborOp"
      /\ m.origin = u /\ m.dest = r.result /\ m.level = 0 /\ m.direction = SearchDirection(u)
  BY <1>1 DEF Task, NewWaiter
<1>8. ~t.failed
  BY Zenon, <1>1, <1>6 DEF Task
<1>9. Heading(u, t) = Heading(u, call[u]) /\ SearchDirection(u) = Heading(u, t)
  BY <1>7 DEF Heading, SearchDirection
<1>10. /\ call' = [call EXCEPT ![u] = t] /\ Issue(u, 1, {w}, {m})
       /\ replies' = [replies EXCEPT ![u] = @ \ {r}] /\ table' = table
  BY <1>5 DEF ResumeSearch, Consume
<1> HIDE DEF t, w, m
<1>11. /\ call'[u] = t /\ w \in waiters'[u] /\ msgs' = {m}
       /\ \A v \in Node : replies'[v] = {}
       /\ \A v \in Node : v # u => call'[v] = call[v]
  BY SMTT(30), Zenon, <1>1, <1>2, <1>10 DEF TypeOK, Issue
<1>12. Right(table, Joined, u, t, m)
  BY Zenon, <1>7, <1>9 DEF Right
<1>13. OnCourse(table, Joined, u, t, waiters'[u])
  BY Zenon, <1>4, <1>7, <1>8, <1>9 DEF OnCourse, Awaiting
<1>14. m.nonce[1] = u
  BY <1>7 DEF Fresh
<1>15. \A q \in msgs' : /\ q.nonce[1] = u
                        /\ \E x \in waiters'[u] : x.nonce = q.nonce
                        /\ \A e \in msgs' : e.nonce = q.nonce => e = q
                        /\ Right(table, Joined, u, call'[u], q)
  BY Zenon, <1>7, <1>11, <1>12, <1>14
<1>16. call[u].pc \notin {"ok", "link"} /\ call'[u].pc # "ok"
  BY <1>1, <1>7, <1>11
<1>17. QED
  BY Zenon, <1>2, <1>10, <1>11, <1>13, <1>15, <1>16, FreshRequests

(***************************************************************************)
(* A link request to the nearest node on one side of u is where it should  *)
(* be, and its waiter is for that side.                                    *)
(***************************************************************************)
LEMMA LinkRequestRight ==
    ASSUME NEW u \in Node, NEW d \in Direction, NEW y, NEW nonce, NEW S, NEW t, NEW k,
           k.pc = "link", IsNearest(S, u, Opposite(d), y)
    PROVE  LET m == GetLinkOp(y, nonce, u, d, 0)
               w == LinkWaiter(nonce, d, 0)
           IN  /\ m.nonce = nonce /\ w.nonce = nonce /\ w.dir = Opposite(d)
               /\ Right(t, S, u, k, m)
<1> DEFINE m == GetLinkOp(y, nonce, u, d, 0)
           w == LinkWaiter(nonce, d, 0)
<1>1. /\ m.nonce = nonce /\ m.type = "GetLinkOp" /\ m.dest = y /\ m.candidate = u
      /\ m.dir = d /\ m.level = 0
  BY DEF GetLinkOp
<1>2. w.nonce = nonce /\ w.dir = Opposite(d)
  BY DEF LinkWaiter
<1> HIDE DEF m, w
<1>3. Right(t, S, u, k, m)
  BY Zenon, <1>1 DEF Right
<1>4. QED
  BY Zenon, <1>1, <1>2, <1>3 DEF m, w

(***************************************************************************)
(* Stage 1 resumes with the anchor's neighbour: both nodes to ask for a    *)
(* link are nearest to u, and a side without one is linked as it is.       *)
(***************************************************************************)
LEMMA ResumeNeighborSequential ==
    ASSUME JoinInv, SequentialInv, NEW u \in Node \ Member, NEW r \in replies[u],
           ResumeNeighbor(u, r)
    PROVE  SequentialInv'
<1> DEFINE d == SearchDirection(u)
           q == Opposite(d)
           y == call[u].anchor
           m1 == GetLinkOp(y, Fresh(u), u, d, 0)
           w1 == LinkWaiter(Fresh(u), d, 0)
           m2 == GetLinkOp(r.neighbor, Fresh2(u), u, q, 0)
           w2 == LinkWaiter(Fresh2(u), q, 0)
           t1 == [call[u] EXCEPT !.pc = "link", !.rx = {Fresh(u)}]
           t2 == [call[u] EXCEPT !.pc = "link", !.rx = {Fresh(u), Fresh2(u)}]
<1>1. TypeOK /\ call[u] \in Task /\ call[u].pc = "neighbor"
  BY DEF JoinInv, TypeOK, ResumeNeighbor
<1>2. /\ replies[u] = {r} /\ msgs = {} /\ u \notin Joined /\ Linking = {}
      /\ Right(table, Joined, u, call[u], r) /\ OnCourse(table, Joined, u, call[u], waiters[u])
      /\ \A v \in Node : v # u => call[v].pc \notin Awaiting /\ replies[v] = {}
  BY <1>1, ResumesAlone DEF Awaiting
<1>3. r.type = "RetNeighborOp"
  BY <1>1 DEF JoinInv, TasksConsistent, Consistent, AwaitedReply
<1>4. d = Heading(u, call[u]) /\ d \in Direction /\ q \in Direction /\ Opposite(q) = d
  BY SearchDirectionType, OppositeFacts DEF SearchDirection, Heading
<1>5. IsNearest(Joined, u, d, r.neighbor) /\ IsNearest(Joined, u, q, y)
  BY Zenon, <1>1, <1>2, <1>3, <1>4 DEF Right, OnCourse
<1>6. ~call[u].failed
  BY Zenon, <1>1, <1>2 DEF OnCourse, Awaiting
<1>7. /\ replies' = [replies EXCEPT ![u] = @ \ {r}] /\ table' = table
      /\ \/ /\ r.neighbor = None
            /\ call' = [call EXCEPT ![u] = t1] /\ Issue(u, 1, {w1}, {m1})
         \/ /\ r.neighbor # None
            /\ call' = [call EXCEPT ![u] = t2] /\ Issue(u, 2, {w1, w2}, {m1, m2})
  BY DEF ResumeNeighbor, Consume
<1>8. t1.pc = "link" /\ t2.pc = "link"
  BY <1>1 DEF Task
<1>9. ~t1.failed /\ ~t2.failed
  BY Zenon, <1>1, <1>6 DEF Task
<1> HIDE DEF t1, t2
<1>10. \A k : k.pc = "link" =>
          /\ m1.nonce = Fresh(u) /\ w1.nonce = Fresh(u) /\ w1.dir = q
          /\ Right(table, Joined, u, k, m1)
          /\ m2.nonce = Fresh2(u) /\ w2.nonce = Fresh2(u) /\ w2.dir = d
          /\ Right(table, Joined, u, k, m2)
  <2> SUFFICES ASSUME NEW k, k.pc = "link"
               PROVE  /\ m1.nonce = Fresh(u) /\ w1.nonce = Fresh(u) /\ w1.dir = q
                      /\ Right(table, Joined, u, k, m1)
                      /\ m2.nonce = Fresh2(u) /\ w2.nonce = Fresh2(u) /\ w2.dir = d
                      /\ Right(table, Joined, u, k, m2)
    OBVIOUS
  <2>1. /\ m1.nonce = Fresh(u) /\ w1.nonce = Fresh(u) /\ w1.dir = q
        /\ Right(table, Joined, u, k, m1)
    BY Zenon, <1>4, <1>5, LinkRequestRight
  <2>2. IsNearest(Joined, u, Opposite(q), r.neighbor)
    BY Zenon, <1>4, <1>5
  <2>3. /\ m2.nonce = Fresh2(u) /\ w2.nonce = Fresh2(u) /\ w2.dir = Opposite(q)
        /\ Right(table, Joined, u, k, m2)
    BY Zenon, <1>4, <2>2, LinkRequestRight
  <2>4. QED
    BY Zenon, <1>4, <2>1, <2>3
<1>11. Fresh(u)[1] = u /\ Fresh2(u)[1] = u /\ Fresh(u) # Fresh2(u)
  BY <1>1 DEF Fresh, Fresh2, TypeOK
<1> HIDE DEF m1, m2, w1, w2, q, y, d
<1>12. \A e \in Direction : e = d \/ e = q
  BY <1>4 DEF Direction, Opposite, q
<1>13. /\ \A v \in Node : replies'[v] = {}
       /\ \A v \in Node : v # u => call'[v] = call[v]
  BY SMTT(30), Zenon, <1>1, <1>2, <1>7 DEF TypeOK
<1>14. /\ r.neighbor = None => call'[u] = t1 /\ w1 \in waiters'[u] /\ msgs' = {m1}
       /\ r.neighbor # None =>
             call'[u] = t2 /\ {w1, w2} \subseteq waiters'[u] /\ msgs' = {m1, m2}
  BY SMTT(30), Zenon, <1>1, <1>2, <1>7 DEF TypeOK, Issue
<1>15. call'[u].pc = "link" /\ ~call'[u].failed
  BY Zenon, <1>8, <1>9, <1>14
<1>16. r.neighbor = None => LinkedOn(table, Joined, u, d)
  <2>1. table[u][d][0] = None
    BY <1>2, <1>4 DEF SequentialInv, Fits
  <2>2. QED
    BY <1>5, <2>1 DEF LinkedOn
<1>17. \A e \in Direction : LinkedOn(table, Joined, u, e) \/ \E w \in waiters'[u] : w.dir = e
  <2>1. \E w \in waiters'[u] : w.dir = q
    BY SMTT(30), Zenon, <1>10, <1>14, <1>15
  <2>2. LinkedOn(table, Joined, u, d) \/ \E w \in waiters'[u] : w.dir = d
    BY SMTT(30), Zenon, <1>10, <1>14, <1>15, <1>16
  <2>3. QED
    BY Zenon, <1>12, <2>1, <2>2
<1>18. OnCourse(table, Joined, u, call'[u], waiters'[u])
  BY Zenon, <1>15, <1>17 DEF OnCourse
<1>19. \A e \in msgs' : e = m1 \/ (e = m2 /\ w2 \in waiters'[u])
  BY <1>14
<1>20. w1 \in waiters'[u]
  BY <1>14
<1>21. \A e \in msgs' : /\ e.nonce[1] = u
                        /\ \E x \in waiters'[u] : x.nonce = e.nonce
                        /\ \A f \in msgs' : f.nonce = e.nonce => f = e
                        /\ Right(table, Joined, u, call'[u], e)
  BY Zenon, <1>10, <1>11, <1>15, <1>19, <1>20
<1>22. call[u].pc \notin {"ok", "link"} /\ call'[u].pc # "ok"
  BY <1>1, <1>15
<1>23. QED
  BY Zenon, <1>2, <1>7, <1>13, <1>18, <1>21, <1>22, FreshRequests

(***************************************************************************)
(* The list with u in it: u's neighbours hold u, u holds them, and all     *)
(* others hold what they held.                                             *)
(***************************************************************************)
LEMMA FitsJoined ==
    ASSUME NEW S \in SUBSET Node, NEW u \in Node \ S, NEW t \in [Node -> Table],
           Fits(t, S, {u}), \A d \in Direction : LinkedOn(t, S, u, d)
    PROVE  Fits(t, S \cup {u}, {})
<1>1. \A n \in Node, d \in Direction, l \in Level : t[n][d][l] \in S \cup {u} \cup {None}
  BY Zenon DEF Fits
<1>2. ASSUME NEW d \in Direction PROVE IsNearest(S \cup {u}, u, d, t[u][d][0])
  BY Zenon, <1>2, NearestInserted DEF LinkedOn
<1>3. ASSUME NEW n \in S, NEW d \in Direction
      PROVE  IsNearest(S \cup {u}, n, d, t[n][d][0])
  <2>1. CASE t[n][d][0] \in {u} /\ IsNearest(S \cup {t[n][d][0]}, n, d, t[n][d][0])
    BY <2>1
  <2>2. CASE IsNearest(S, n, d, t[n][d][0])
    <3>1. ASSUME IsNearest(S \cup {u}, n, d, u) PROVE FALSE
      <4> DEFINE q == Opposite(d)
      <4>1. q \in Direction /\ Opposite(q) = d
        BY OppositeFacts
      <4>2. IsNearest(S, u, q, n)
        BY Zenon, <3>1, NearestInserted
      <4>3. IsNearest(S, u, q, t[u][q][0]) /\
            (t[u][q][0] # None => t[t[u][q][0]][Opposite(q)][0] = u)
        BY <4>1 DEF LinkedOn
      <4>4. t[u][q][0] = n /\ n # None
        BY ZenonT(30), <4>1, <4>2, <4>3, NearestUnique, NoneAssumption
      <4>5. t[n][d][0] = u
        BY <4>1, <4>3, <4>4
      <4>6. QED
        BY <2>2, <4>5, NoneAssumption DEF IsNearest
    <3>2. QED
      BY Zenon, <2>2, <3>1, NearestInserted
  <2>3. QED
    BY Zenon, <2>1, <2>2 DEF Fits
<1>4. ASSUME NEW n \in Node \ (S \cup {u}), NEW d \in Direction PROVE t[n][d][0] = None
  BY Zenon, <1>4 DEF Fits
<1>5. QED
  BY Zenon, <1>1, <1>2, <1>3, <1>4 DEF Fits

(***************************************************************************)
(* One of the link requests ends.  With the last one the node has joined:  *)
(* no waiter is left, so both sides are linked.                            *)
(***************************************************************************)
LEMMA ResumeLinkSequential ==
    ASSUME JoinInv, JoinInv', SequentialInv, NEW u \in Node \ Member, NEW r \in replies[u],
           ResumeLink(u, r)
    PROVE  SequentialInv'
<1> DEFINE t == [call[u] EXCEPT !.rx = call[u].rx \ {r.nonce},
                                !.failed = call[u].failed \/ FALSE,
                                !.pc = IF call[u].rx # {r.nonce} THEN "link"
                                       ELSE IF call[u].failed \/ FALSE THEN "err" ELSE "ok"]
<1>1. TypeOK /\ call[u] \in Task /\ call[u].pc = "link" /\ r.nonce \in call[u].rx
  BY DEF JoinInv, TypeOK, ResumeLink
<1>2. /\ u \notin Joined
      /\ OnCourse(table, Joined, u, call[u], waiters[u])
      /\ \A v \in Node : v # u =>
            call[v].pc \notin Awaiting /\ waiters[v] = {} /\ replies[v] = {}
      /\ waiters[u] = {} => msgs = {}
  BY <1>1, ResumesAlone DEF Awaiting
<1>3. ~call[u].failed
  BY Zenon, <1>1, <1>2 DEF OnCourse, Awaiting
<1>4. /\ t.introducer = call[u].introducer /\ t.anchor = call[u].anchor
      /\ t.rx = call[u].rx \ {r.nonce}
  BY Zenon, <1>1 DEF Task
<1>5. /\ ~t.failed
      /\ call[u].rx # {r.nonce} => t.pc = "link"
      /\ call[u].rx = {r.nonce} => t.pc = "ok"
  BY Zenon, <1>1, <1>3 DEF Task
<1>6. /\ call' = [call EXCEPT ![u] = t] /\ replies' = [replies EXCEPT ![u] = @ \ {r}]
      /\ UNCHANGED <<table, msgs, waiters, issued>>
  BY DEF ResumeLink, EndLinkRequest, Consume
<1> HIDE DEF t
<1>7. /\ call'[u] = t /\ \A v \in Node : v # u => call'[v] = call[v]
      /\ replies'[u] = replies[u] \ {r} /\ \A v \in Node : v # u => replies'[v] = replies[v]
  BY SMTT(30), Zenon, <1>1, <1>6 DEF TypeOK
<1>8. CASE call[u].rx # {r.nonce}
  <2>1. t.pc = "link" /\ call'[u].pc = call[u].pc
    BY <1>1, <1>5, <1>7, <1>8
  <2>2. Joined' = Joined /\ Linking' = Linking
    BY <1>7, <2>1 DEF Joined, Linking
  <2>3. Heading(u, t) = Heading(u, call[u])
    BY <1>4 DEF Heading
  <2>4. \A m : Right(table, Joined, u, call[u], m) => Right(table, Joined, u, t, m)
    BY Zenon, <1>1, <1>4, <2>1, <2>3 DEF Right
  <2>5. Alone'
    <3>1. \A v \in Node : call'[v].pc = call[v].pc
      BY <1>7, <2>1
    <3>2. QED
      BY <3>1 DEF Alone, SequentialInv
  <2>6. ASSUME NEW v \in Node PROVE OnCourse(table', Joined', v, call'[v], waiters'[v])
    <3>1. CASE v = u
      <4>1. \A d \in Direction :
               LinkedOn(table, Joined, u, d) \/ \E w \in waiters[u] : w.dir = d
        BY Zenon, <1>1, <1>2 DEF OnCourse
      <4>2. OnCourse(table, Joined, u, t, waiters[u])
        BY Zenon, <1>5, <2>1, <4>1 DEF OnCourse
      <4>3. QED
        BY Zenon, <1>6, <1>7, <2>2, <3>1, <4>2
    <3>2. CASE v # u
      BY Zenon, <1>6, <1>7, <2>2, <3>2 DEF SequentialInv
    <3>3. QED
      BY <3>1, <3>2
  <2>7. Fits(table', Joined', Linking')
    BY <1>6, <2>2 DEF SequentialInv
  <2>8. SentRight'
    <3>1. ASSUME NEW m \in msgs
          PROVE  /\ \E w \in waiters'[m.nonce[1]] : w.nonce = m.nonce
                 /\ \A e \in msgs : e.nonce = m.nonce => e = m
                 /\ Right(table', Joined', m.nonce[1], call'[m.nonce[1]], m)
      <4>1. m.nonce[1] = u
        BY <1>1, <1>2, EventOfTask DEF Awaiting
      <4>2. QED
        BY Zenon, <1>6, <1>7, <2>2, <2>4, <4>1 DEF SequentialInv, SentRight
    <3>2. QED
      BY Zenon, <1>6, <3>1 DEF SentRight
  <2>9. GotRight'
    <3>1. ASSUME NEW v \in Node, NEW e \in replies'[v]
          PROVE  Right(table', Joined', v, call'[v], e)
      BY Zenon, <1>2, <1>6, <1>7, <2>2, <2>4, <3>1 DEF SequentialInv, GotRight
    <3>2. QED
      BY <3>1 DEF GotRight
  <2>10. QED
    BY Zenon, <2>5, <2>6, <2>7, <2>8, <2>9 DEF SequentialInv
<1>9. CASE call[u].rx = {r.nonce}
  <2>1. t.pc = "ok" /\ call'[u].pc = "ok" /\ call'[u].rx = {}
    BY <1>4, <1>5, <1>7, <1>9
  <2>2. \A v \in Node : call'[v].pc \notin Awaiting /\ waiters'[v] = {} /\ replies'[v] = {}
    <3>1. \A v \in Node : call'[v].pc \notin Awaiting
      BY <1>2, <1>7, <2>1 DEF Awaiting
    <3>2. \A v \in Node : Consistent(v, call'[v], waiters'[v], replies'[v], issued'[v])
      BY DEF JoinInv, TasksConsistent
    <3>3. QED
      BY <3>1, <3>2, RestingTask
  <2>3. msgs' = {} /\ waiters[u] = {}
    BY <1>2, <1>6, <2>2
  <2>4. Joined' = Joined \cup {u} /\ Linking' = {} /\ Linking = {u}
    <3>1. Linking' = {} /\ Linking = {u}
      BY <1>1, <1>2, <2>2 DEF Linking, Awaiting
    <3>2. QED
      BY <1>7, <2>1, <3>1 DEF Joined
  <2>5. \A d \in Direction : LinkedOn(table, Joined, u, d)
    BY Zenon, <1>1, <1>2, <2>3 DEF OnCourse
  <2>6. Fits(table, Joined \cup {u}, {})
    <3>1. Joined \in SUBSET Node /\ table \in [Node -> Table] /\ Fits(table, Joined, {u})
      BY <1>1, <2>4, MemberAssumption DEF Joined, TypeOK, SequentialInv
    <3>2. QED
      BY Zenon, <1>2, <2>5, <3>1, FitsJoined
  <2>7. Fits(table', Joined', Linking')
    BY <1>6, <2>4, <2>6
  <2>8. Alone' /\ SentRight' /\ GotRight'
    BY <2>2, <2>3 DEF Alone, SentRight, GotRight
  <2>9. \A v \in Node : OnCourse(table', Joined', v, call'[v], waiters'[v])
    BY <2>2 DEF OnCourse, Awaiting
  <2>10. QED
    BY Zenon, <2>7, <2>8, <2>9 DEF SequentialInv
<1>10. QED
  BY <1>8, <1>9
=============================================================================

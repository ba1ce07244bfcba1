---------------------------- MODULE TimerProofs ----------------------------
(***************************************************************************)
(* Proofs about the components that run against a clock: contexts, the two *)
(* repair schedules and the test helpers that join threads and wait for a  *)
(* condition, for any number of contexts, callers, threads and calls and   *)
(* any periods, budgets and timeouts.                                      *)
(***************************************************************************)
EXTENDS MCTimers, Integers, Sequences, FiniteSets, TLAPS

(***************************************************************************)
(* The trees are well formed: a context lies above itself, the chain above *)
(* an ancestor is part of the chain above the context, and the deadline is *)
(* that of every ancestor.                                                 *)
(***************************************************************************)
Trees ==
    /\ \A c \in Live : c \in above[c]
    /\ \A c \in Ctx : \A a \in above[c] : a \in Live /\ deadline[a] = deadline[c]
    /\ asked \subseteq Live
    /\ cancelled \subseteq Live

(***************************************************************************)
(* A call that began has a context; one under way has no result.           *)
(***************************************************************************)
Calls ==
    \A t \in Task :
        /\ task[t].pc # "idle" => task[t].ctx \in Live
        /\ task[t].pc \in {"idle", "checked", "racing"} => task[t].result = None

CtxInv == TypeOK /\ Trees /\ CancelledExactlyBelow /\ Calls /\ ResultsAreTrue

(***************************************************************************)
(* A call that ends with a true result leaves a well-formed record.        *)
(***************************************************************************)
LEMMA FinishFacts ==
    ASSUME NEW r \in Run, NEW result \in Outcome \cup {"Cancelled", "DeadlineExceeded"}
    PROVE  /\ Finish(r, result) \in Run
           /\ Finish(r, result).result = result
           /\ Finish(r, result).ctx = r.ctx
           /\ Finish(r, result).op = r.op
           /\ Finish(r, result).pc \in {"returned", "panicked"}
BY Zenon DEF Finish, Run

(***************************************************************************)
(* Nothing exists at the start.                                            *)
(***************************************************************************)
LEMMA InitInv == Init => CtxInv
<1> SUFFICES ASSUME Init PROVE CtxInv
    OBVIOUS
<1>1. TypeOK
    BY ContextAssumption DEF Init, TypeOK, Run, Idle
<1>2. Live = {}
    BY DEF Init, Live
<1>3. Trees /\ CancelledExactlyBelow
    BY <1>2 DEF Init, Trees, CancelledExactlyBelow
<1>4. Calls /\ ResultsAreTrue
    BY ContextAssumption DEF Init, Calls, ResultsAreTrue, Idle, Outcome
<1> QED
    BY <1>1, <1>3, <1>4 DEF CtxInv

(***************************************************************************)
(* Steps that create a context, cancel one or let time pass: no call       *)
(* changes, and what calls reported stays true.                            *)
(***************************************************************************)
LEMMA TreeStep ==
    ASSUME CtxInv, UNCHANGED task, now \in Nat, now' \in Nat, now' >= now,
           asked \subseteq asked',
           \A c \in Live : above'[c] = above[c] /\ deadline'[c] = deadline[c]
    PROVE  Calls' /\ ResultsAreTrue'
<1> USE DEF CtxInv
<1>1. \A c \in Live : c \in Live'
    BY DEF Live
<1>2. Calls'
    BY <1>1 DEF Calls
<1>3. ASSUME NEW t \in Task, task[t].result = "Cancelled"
      PROVE  above'[task[t].ctx] \cap asked' # {}
    BY <1>3, ContextAssumption DEF Calls, ResultsAreTrue, TypeOK, Run
<1>4. ASSUME NEW t \in Task, task[t].result = "DeadlineExceeded",
             NEW a \in above'[task[t].ctx]
      PROVE  IsDeadlineExceeded(a)'
    <2>1. task[t].ctx \in Live
        BY <1>4, ContextAssumption DEF Calls, TypeOK, Run
    <2>2. a \in above[task[t].ctx] /\ a \in Live /\ task[t].ctx \in Ctx
        BY <2>1, <1>4 DEF Trees, Live
    <2>3. deadline'[a] = deadline[a]
        BY <2>2
    <2>4. deadline[a] \in Nat /\ now >= deadline[a]
        BY <2>2, <1>4 DEF ResultsAreTrue, IsDeadlineExceeded, TypeOK, Live
    <2> QED
        BY <2>3, <2>4, ContextAssumption DEF IsDeadlineExceeded
<1>5. \A t \in Task : task[t].result \in Outcome => task[t].op = task[t].result
    BY DEF ResultsAreTrue
<1> QED
    BY <1>2, <1>3, <1>4, <1>5 DEF ResultsAreTrue

(***************************************************************************)
(* Steps of one call: the trees stay as they are, so only its own record   *)
(* needs a look.                                                           *)
(***************************************************************************)
LEMMA CallStep ==
    ASSUME CtxInv, UNCHANGED <<now, above, deadline, cancelled, asked>>,
           NEW t \in Task, NEW r \in Run, task' = [task EXCEPT ![t] = r],
           r.pc # "idle" => r.ctx \in Live,
           r.pc \in {"idle", "checked", "racing"} => r.result = None,
           r.result = "Cancelled" => above[r.ctx] \cap asked # {},
           r.result = "DeadlineExceeded" => \A a \in above[r.ctx] : IsDeadlineExceeded(a),
           r.result \in Outcome => r.op = r.result
    PROVE  CtxInv'
<1> USE DEF CtxInv
<1>1. TypeOK'
    BY DEF TypeOK
<1>2. Live' = Live
    BY DEF Live
<1>3. Trees' /\ CancelledExactlyBelow'
    BY <1>2 DEF Trees, CancelledExactlyBelow
<1>4. \A u \in Task : task'[u] = IF u = t THEN r ELSE task[u]
    BY DEF TypeOK
<1>5. Calls'
    BY <1>2, <1>4 DEF Calls
<1>6. \A a \in Ctx : IsDeadlineExceeded(a)' = IsDeadlineExceeded(a)
    BY DEF IsDeadlineExceeded
<1>7. ResultsAreTrue'
    BY <1>4, <1>6 DEF ResultsAreTrue, IsDeadlineExceeded
<1> QED
    BY <1>1, <1>3, <1>5, <1>7

(***************************************************************************)
(* Why a context is unusable is a true result of a call under it.          *)
(***************************************************************************)
LEMMA ErrFacts ==
    ASSUME CtxInv, NEW c \in Live
    PROVE  /\ Err(c) \in {"Cancelled", "DeadlineExceeded", None}
           /\ c \in cancelled => above[c] \cap asked # {}
           /\ IsDeadlineExceeded(c) => \A a \in above[c] : IsDeadlineExceeded(a)
           /\ Err(c) = "Cancelled" => c \in cancelled
           /\ Err(c) = "DeadlineExceeded" => IsDeadlineExceeded(c)
           /\ Err(c) = None => \A a \in above[c] : a \notin asked /\ ~IsDeadlineExceeded(a)
<1>1. c \in cancelled <=> above[c] \cap asked # {}
    BY DEF CtxInv, CancelledExactlyBelow
<1>2. \A a \in above[c] : deadline[a] = deadline[c]
    BY DEF CtxInv, Trees, Live
<1>3. \A a \in above[c] : IsDeadlineExceeded(a) = IsDeadlineExceeded(c)
    BY <1>2 DEF IsDeadlineExceeded
<1>4. Err(c) = None => c \notin cancelled /\ ~IsDeadlineExceeded(c)
    BY ContextAssumption DEF Err
<1> QED
    BY <1>1, <1>3, <1>4, ContextAssumption DEF Err

(***************************************************************************)
(* New and with_timeout make a tree of one context.                        *)
(***************************************************************************)
LEMMA RootStep ==
    ASSUME CtxInv, NEW c \in Ctx, NEW d \in Nat \cup {None}, c \notin Live,
           above' = [above EXCEPT ![c] = {c}],
           deadline' = [deadline EXCEPT ![c] = d],
           UNCHANGED <<now, cancelled, asked, task>>
    PROVE  CtxInv'
<1> USE DEF CtxInv
<1>1. TypeOK'
    BY DEF TypeOK
<1>2. Live' = Live \cup {c}
    BY DEF Live, TypeOK
<1>3. \A x \in Ctx : above'[x] = IF x = c THEN {c} ELSE above[x]
    BY DEF TypeOK
<1>4. \A x \in Ctx : x # c => deadline'[x] = deadline[x]
    BY DEF TypeOK
<1>5. \A x \in Ctx : c \notin above[x]
    BY DEF Trees
<1>6. Trees'
    BY <1>2, <1>3, <1>4, <1>5 DEF Trees, Live, TypeOK
<1>7. CancelledExactlyBelow'
    BY <1>2, <1>3 DEF CancelledExactlyBelow, Trees, Live
<1>8. Calls' /\ ResultsAreTrue'
    <2>1. \A x \in Live : above'[x] = above[x] /\ deadline'[x] = deadline[x]
        BY <1>3, <1>4 DEF Live
    <2>2. now \in Nat /\ now' \in Nat /\ now' >= now
        BY DEF TypeOK
    <2> QED
        BY <2>1, <2>2, TreeStep
<1> QED
    BY <1>1, <1>6, <1>7, <1>8

(***************************************************************************)
(* child preserves the invariant: the new context gets its parent's        *)
(* ancestors, deadline and cancellation.                                   *)
(***************************************************************************)
LEMMA ChildStep ==
    ASSUME CtxInv, NEW c \in Ctx, NEW p \in Ctx, Child(c, p)
    PROVE  CtxInv'
<1> USE DEF CtxInv, Child
<1>1. TypeOK'
    BY DEF TypeOK
<1>2. \A x \in Ctx : above'[x] = IF x = c THEN above[p] \cup {c} ELSE above[x]
    BY DEF TypeOK
<1>3. \A x \in Ctx : deadline'[x] = IF x = c THEN deadline[p] ELSE deadline[x]
    BY DEF TypeOK
<1>4. Live' = Live \cup {c}
    BY <1>2 DEF Live
<1>5. \A x \in Ctx : c \notin above[x]
    BY DEF Trees
<1>6. Trees'
    <2>1. \A x \in Live' : x \in above'[x]
        BY <1>2, <1>4 DEF Trees, Live
    <2>2. ASSUME NEW x \in Ctx, NEW a \in above'[x]
          PROVE  a \in Live' /\ deadline'[a] = deadline'[x]
        <3>1. CASE x = c
            BY <3>1, <1>2, <1>3, <1>4, <1>5 DEF Trees, Live
        <3>2. CASE x # c
            BY <3>2, <1>2, <1>3, <1>4, <1>5 DEF Trees, Live
        <3> QED
            BY <3>1, <3>2
    <2> QED
        BY <2>1, <2>2, <1>4 DEF Trees
<1>7. CancelledExactlyBelow'
    <2>1. c \notin asked /\ c \notin cancelled
        BY DEF Trees
    <2>2. ASSUME NEW x \in Live' PROVE x \in cancelled' <=> above'[x] \cap asked' # {}
        <3>1. CASE x = c
            BY <3>1, <2>1, <1>2 DEF CancelledExactlyBelow
        <3>2. CASE x # c
            BY <3>2, <1>2, <1>4 DEF CancelledExactlyBelow, Live
        <3> QED
            BY <3>1, <3>2
    <2> QED
        BY <2>2 DEF CancelledExactlyBelow
<1>8. Calls' /\ ResultsAreTrue'
    <2>1. \A x \in Live : above'[x] = above[x] /\ deadline'[x] = deadline[x]
        BY <1>2, <1>3 DEF Live
    <2>2. now \in Nat /\ now' \in Nat /\ now' >= now /\ UNCHANGED task /\ asked \subseteq asked'
        BY DEF TypeOK
    <2> QED
        BY <2>1, <2>2, TreeStep
<1> QED
    BY <1>1, <1>6, <1>7, <1>8

(***************************************************************************)
(* cancel preserves the invariant: it cancels exactly the contexts at and  *)
(* below its own.                                                          *)
(***************************************************************************)
LEMMA CancelStep ==
    ASSUME CtxInv, NEW c \in Ctx, Cancel(c)
    PROVE  CtxInv'
<1> USE DEF CtxInv, Cancel
<1>1. TypeOK'
    BY DEF TypeOK
<1>2. Live' = Live
    BY DEF Live
<1>3. Trees'
    BY <1>2 DEF Trees, Live
<1>4. CancelledExactlyBelow'
    BY <1>2 DEF CancelledExactlyBelow, Live
<1>5. Calls' /\ ResultsAreTrue'
    <2>1. now \in Nat /\ now' \in Nat /\ now' >= now /\ UNCHANGED task /\ asked \subseteq asked'
        BY DEF TypeOK
    <2> QED
        BY <2>1, TreeStep
<1> QED
    BY <1>1, <1>3, <1>4, <1>5

(***************************************************************************)
(* The passing of time preserves the invariant: a deadline that was        *)
(* exceeded stays so.                                                      *)
(***************************************************************************)
LEMMA TickStep ==
    ASSUME CtxInv, Tick
    PROVE  CtxInv'
<1> USE DEF CtxInv, Tick
<1>1. TypeOK'
    BY DEF TypeOK
<1>2. Live' = Live
    BY DEF Live
<1>3. Trees' /\ CancelledExactlyBelow'
    BY <1>2 DEF Trees, CancelledExactlyBelow
<1>4. Calls' /\ ResultsAreTrue'
    <2>1. now \in Nat /\ now' \in Nat /\ now' >= now /\ UNCHANGED task /\ asked \subseteq asked'
        BY DEF TypeOK
    <2> QED
        BY <2>1, TreeStep
<1> QED
    BY <1>1, <1>3, <1>4

(***************************************************************************)
(* The record of a call that has just entered its race.                    *)
(***************************************************************************)
LEMMA CallRunStep ==
    ASSUME CtxInv, NEW t \in Task, NEW c \in Ctx, NEW throws \in BOOLEAN, CallRun(t, c, throws)
    PROVE  CtxInv'
<1> DEFINE r == [Idle EXCEPT !.pc = "checked", !.ctx = c, !.throws = throws]
<1>1. /\ r \in Run /\ r.pc = "checked" /\ r.ctx = c /\ r.result = None /\ r.op = None
    BY Zenon DEF Run, Idle
<1>2. /\ c \in Live /\ UNCHANGED <<now, above, deadline, cancelled, asked>>
      /\ task' = [task EXCEPT ![t] = IF Err(c) # None THEN Finish(r, Err(c)) ELSE r]
    BY DEF CallRun
<1> HIDE DEF r
<1>3. CASE Err(c) = None
    <2>1. task' = [task EXCEPT ![t] = r]
        BY <1>2, <1>3
    <2>2. r.result \notin {"Cancelled", "DeadlineExceeded"} \cup Outcome
        BY <1>1, ContextAssumption DEF Outcome
    <2> QED
        BY Zenon, <1>1, <1>2, <2>1, <2>2, CallStep
<1>4. CASE Err(c) # None
    <2> DEFINE f == Finish(r, Err(c))
    <2>1. Err(c) \in {"Cancelled", "DeadlineExceeded"}
        BY <1>2, <1>4, ErrFacts
    <2>2. /\ f \in Run /\ f.result = Err(c) /\ f.ctx = c /\ f.pc \in {"returned", "panicked"}
        BY <1>1, <2>1, FinishFacts
    <2>3. task' = [task EXCEPT ![t] = f]
        BY <1>2, <1>4
    <2>4. /\ f.result = "Cancelled" => above[f.ctx] \cap asked # {}
          /\ f.result = "DeadlineExceeded" => \A a \in above[f.ctx] : IsDeadlineExceeded(a)
          /\ f.result \notin Outcome
        BY <1>2, <2>1, <2>2, ErrFacts DEF Outcome
    <2> HIDE DEF f
    <2> QED
        BY Zenon, <1>2, <2>2, <2>3, <2>4, CallStep
<1> QED
    BY <1>3, <1>4

(***************************************************************************)
(* run enters its select!: the call is still under way below its context.  *)
(***************************************************************************)
LEMMA EnterSelectStep ==
    ASSUME CtxInv, NEW t \in Task, EnterSelect(t)
    PROVE  CtxInv'
<1> DEFINE r == [task[t] EXCEPT !.pc = "racing"]
<1>1. task[t] \in Run /\ task[t].pc = "checked" /\ task[t].result = None /\ task[t].ctx \in Live
    BY DEF CtxInv, TypeOK, Calls, EnterSelect
<1>2. r \in Run /\ r.pc = "racing" /\ r.result = None /\ r.ctx \in Live
    BY <1>1, Zenon DEF Run
<1>3. task' = [task EXCEPT ![t] = r] /\ UNCHANGED <<now, above, deadline, cancelled, asked>>
    BY DEF EnterSelect
<1>4. r.result \notin {"Cancelled", "DeadlineExceeded"} \cup Outcome
    BY <1>2, ContextAssumption DEF Outcome
<1> HIDE DEF r
<1> QED
    BY Zenon, <1>2, <1>3, <1>4, CallStep

(***************************************************************************)
(* The operation under run becomes ready: no context changes and the call  *)
(* has not returned yet.                                                   *)
(***************************************************************************)
LEMMA CompleteStep ==
    ASSUME CtxInv, NEW t \in Task, NEW end \in Outcome, Complete(t, end)
    PROVE  CtxInv'
<1> DEFINE r == [task[t] EXCEPT !.op = end]
<1>1. task[t] \in Run /\ task[t].pc = "racing" /\ task[t].result = None /\ task[t].ctx \in Live
    BY DEF CtxInv, TypeOK, Complete, Calls
<1>2. r \in Run /\ r.pc = "racing" /\ r.result = None /\ r.ctx \in Live
    BY <1>1 DEF Run
<1>3. r.result \notin {"Cancelled", "DeadlineExceeded"} \cup Outcome
    BY <1>2, ContextAssumption DEF Outcome
<1>4. task' = [task EXCEPT ![t] = r] /\ UNCHANGED <<now, above, deadline, cancelled, asked>>
    BY <1>1 DEF Complete, CtxInv, TypeOK, Run
<1> HIDE DEF r
<1> QED
    BY Zenon, <1>2, <1>3, <1>4, CallStep

(***************************************************************************)
(* A poll of select! preserves the invariant: each branch that is ready is *)
(* a true result.                                                          *)
(***************************************************************************)
LEMMA PollStep ==
    ASSUME CtxInv, NEW t \in Task, Poll(t)
    PROVE  CtxInv'
<1>1. PICK result \in Ready(t) : task' = [task EXCEPT ![t] = Finish(task[t], result)]
    BY Zenon DEF Poll
<1>2. task[t] \in Run /\ task[t].ctx \in Live /\ UNCHANGED <<now, above, deadline, cancelled, asked>>
    BY DEF CtxInv, TypeOK, Poll, Calls
<1>3. /\ result \in Outcome \cup {"Cancelled", "DeadlineExceeded"}
      /\ result = "Cancelled" => task[t].ctx \in cancelled
      /\ result = "DeadlineExceeded" => IsDeadlineExceeded(task[t].ctx)
      /\ result \in Outcome => result = task[t].op
    BY SMTT(30), Zenon, <1>2 DEF Ready, Run, Outcome
<1> DEFINE f == Finish(task[t], result)
<1>4. /\ f \in Run /\ f.result = result /\ f.ctx = task[t].ctx /\ f.op = task[t].op
      /\ f.pc \in {"returned", "panicked"}
    BY SMTT(30), Zenon, <1>2, <1>3, FinishFacts
<1>5. /\ f.result = "Cancelled" => above[f.ctx] \cap asked # {}
      /\ f.result = "DeadlineExceeded" => \A a \in above[f.ctx] : IsDeadlineExceeded(a)
      /\ f.result \in Outcome => f.op = f.result
    BY <1>2, <1>3, <1>4, ErrFacts
<1>6. task' = [task EXCEPT ![t] = f]
    BY <1>1
<1> HIDE DEF f
<1> QED
    BY Zenon, <1>2, <1>4, <1>5, <1>6, CallStep

(***************************************************************************)
(* The invariant is inductive.                                             *)
(***************************************************************************)
LEMMA NextInv == CtxInv /\ [Next]_vars => CtxInv'
<1> SUFFICES ASSUME CtxInv, [Next]_vars PROVE CtxInv'
    OBVIOUS
<1>1. ASSUME NEW c \in Ctx, New(c) PROVE CtxInv'
    <2>1. deadline' = [deadline EXCEPT ![c] = deadline[c]] /\ deadline[c] \in Nat \cup {None}
        BY <1>1 DEF New, CtxInv, TypeOK
    <2> QED
        BY Zenon, <1>1, <2>1, RootStep DEF New
<1>2. ASSUME NEW c \in Ctx, NEW timeout \in Timeouts, WithTimeout(c, timeout) PROVE CtxInv'
    <2>1. now + timeout \in Nat
        BY ContextAssumption DEF CtxInv, TypeOK
    <2> QED
        BY Zenon, <1>2, <2>1, RootStep DEF WithTimeout
<1>3. CASE UNCHANGED vars
    BY <1>3 DEF CtxInv, vars, TypeOK, Trees, Live, CancelledExactlyBelow, Calls,
                ResultsAreTrue, IsDeadlineExceeded
<1> QED
    BY <1>1, <1>2, <1>3, ChildStep, CancelStep, CallRunStep, EnterSelectStep,
       CompleteStep, PollStep, TickStep
    DEF Next, WithCancel

(***************************************************************************)
(* The invariant of the cancellation tree of context/mod.rs holds in every *)
(* state, for any contexts, tasks and timeouts.                            *)
(***************************************************************************)
THEOREM ContextInvariant == Spec => []CtxInv
BY InitInv, NextInv, PTL DEF Spec

(***************************************************************************)
(* cancel() reaches exactly the contexts below it, for any tree.           *)
(***************************************************************************)
THEOREM CancelReaches == Spec => []CancelledExactlyBelow
<1>1. CtxInv => CancelledExactlyBelow
    BY DEF CtxInv
<1> QED
    BY <1>1, ContextInvariant, PTL

(***************************************************************************)
(* Whatever branch the select! of run takes, what it reports is true.      *)
(***************************************************************************)
THEOREM ReportsAreTrue == Spec => []ResultsAreTrue
<1>1. CtxInv => ResultsAreTrue
    BY DEF CtxInv
<1> QED
    BY <1>1, ContextInvariant, PTL

-----------------------------------------------------------------------------
(***************************************************************************)
(* A queue of distinct tasks.                                              *)
(***************************************************************************)
Queue(S, q) == q \in Seq(S) /\ \A i, j \in 1..Len(q) : q[i] = q[j] => i = j

Members(q) == {q[i] : i \in DOMAIN q}

(***************************************************************************)
(* A task that is not in the queue joins it at the end.                    *)
(***************************************************************************)
LEMMA QueueAppend ==
    ASSUME NEW S, NEW q, Queue(S, q), NEW t \in S, t \notin Members(q)
    PROVE  Queue(S, Append(q, t)) /\ Members(Append(q, t)) = Members(q) \cup {t}
<1> DEFINE r == Append(q, t)
<1>1. /\ q \in Seq(S) /\ Len(q) \in Nat /\ DOMAIN q = 1..Len(q)
      /\ r \in Seq(S) /\ Len(r) = Len(q) + 1 /\ DOMAIN r = 1..Len(r)
      /\ r[Len(q) + 1] = t
      /\ \A i \in 1..Len(q) : r[i] = q[i] /\ q[i] # t
  BY DEF Queue, Members
<1> HIDE DEF r
<1>2. \A i, j \in 1..Len(r) : r[i] = r[j] => i = j
  BY <1>1 DEF Queue
<1>3. Members(r) = Members(q) \cup {t}
  <2>1. \A x : x \in Members(r) <=> \E i \in 1..Len(q) + 1 : x = r[i]
    BY <1>1 DEF Members
  <2>2. \A x : x \in Members(q) <=> \E i \in 1..Len(q) : x = q[i]
    BY <1>1 DEF Members
  <2>3. \A i \in 1..Len(q) + 1 : i \in 1..Len(q) \/ i = Len(q) + 1
    BY <1>1
  <2>4. \A i \in 1..Len(q) : i \in 1..Len(q) + 1
    BY <1>1
  <2>5. Len(q) + 1 \in 1..Len(q) + 1
    BY <1>1
  <2>6. QED
    BY <1>1, <2>1, <2>2, <2>3, <2>4, <2>5
<1>4. QED
  BY <1>1, <1>2, <1>3 DEF Queue, r

(***************************************************************************)
(* The first task leaves a queue, and only it.                             *)
(***************************************************************************)
LEMMA QueueTail ==
    ASSUME NEW S, NEW q, Queue(S, q), q # <<>>
    PROVE  /\ Queue(S, Tail(q)) /\ Head(q) \in S
           /\ Head(q) \in Members(q)
           /\ Members(Tail(q)) \subseteq Members(q) \ {Head(q)}
<1> DEFINE r == Tail(q)
<1>1. /\ q \in Seq(S) /\ Len(q) \in Nat /\ Len(q) # 0 /\ DOMAIN q = 1..Len(q)
      /\ r \in Seq(S) /\ Len(r) = Len(q) - 1 /\ DOMAIN r = 1..Len(r)
      /\ \A i \in 1..Len(r) : r[i] = q[i + 1]
      /\ Head(q) = q[1]
  BY DEF Queue
<1> HIDE DEF r
<1>2. \A i \in 1..Len(r) : i + 1 \in 1..Len(q) /\ i + 1 # 1
  BY <1>1
<1>3. 1 \in 1..Len(q)
  BY <1>1
<1>4. \A i, j \in 1..Len(r) : r[i] = r[j] => i = j
  BY <1>1, <1>2 DEF Queue
<1>5. \A i \in 1..Len(r) : r[i] # q[1] /\ r[i] \in Members(q)
  BY <1>1, <1>2, <1>3 DEF Queue, Members
<1>6. Members(r) \subseteq Members(q) \ {Head(q)}
  BY <1>1, <1>5 DEF Members
<1>7. Head(q) \in Members(q) /\ Head(q) \in S
  BY <1>1, <1>3 DEF Members
<1>8. QED
  BY <1>1, <1>4, <1>6, <1>7 DEF Queue, r

(***************************************************************************)
(* A task leaves a queue, wherever it stands.                              *)
(***************************************************************************)
LEMMA QueueRemove ==
    ASSUME NEW S, NEW q, Queue(S, q), NEW k \in DOMAIN q
    PROVE  LET r == SubSeq(q, 1, k - 1) \o SubSeq(q, k + 1, Len(q))
           IN  Queue(S, r) /\ Members(r) \subseteq Members(q)
<1> DEFINE a == SubSeq(q, 1, k - 1)
           b == SubSeq(q, k + 1, Len(q))
           r == a \o b
           at(i) == IF i < k THEN i ELSE i + 1
<1>1. q \in Seq(S) /\ Len(q) \in Nat /\ DOMAIN q = 1..Len(q) /\ k \in 1..Len(q)
  BY DEF Queue
<1>2. /\ a \in Seq(S) /\ Len(a) = k - 1 /\ \A i \in 1..(k - 1) : a[i] = q[i]
      /\ b \in Seq(S) /\ Len(b) = Len(q) - k /\ \A i \in 1..(Len(q) - k) : b[i] = q[k + i]
  <2>1. \A i \in 1..(k - 1) : q[i] \in S
    BY <1>1
  <2>2. \A i \in (k + 1)..Len(q) : q[i] \in S
    BY <1>1
  <2>3. /\ a \in Seq(S) /\ Len(a) = (IF 1 <= k - 1 THEN k - 1 - 1 + 1 ELSE 0)
        /\ \A i \in 1..(k - 1 - 1 + 1) : a[i] = q[1 + i - 1]
    BY <1>1, <2>1
  <2>4. /\ b \in Seq(S) /\ Len(b) = (IF k + 1 <= Len(q) THEN Len(q) - (k + 1) + 1 ELSE 0)
        /\ \A i \in 1..(Len(q) - (k + 1) + 1) : b[i] = q[(k + 1) + i - 1]
    BY <1>1, <2>2
  <2> HIDE DEF a, b
  <2>5. /\ Len(a) = k - 1 /\ \A i \in 1..(k - 1) : a[i] = q[i]
    BY <1>1, <2>3
  <2>6. Len(b) = Len(q) - k
    BY <1>1, <2>4
  <2>7. \A i \in 1..(Len(q) - k) : b[i] = q[k + i]
    <3> TAKE i \in 1..(Len(q) - k)
    <3>1. i \in 1..(Len(q) - (k + 1) + 1) /\ (k + 1) + i - 1 = k + i
      BY <1>1
    <3>2. QED
      BY <2>4, <3>1
  <2>8. QED
    BY <2>3, <2>4, <2>5, <2>6, <2>7
<1> HIDE DEF a, b
<1>3. /\ r \in Seq(S) /\ Len(r) = Len(q) - 1
      /\ \A i \in 1..Len(r) : r[i] = IF i <= Len(a) THEN a[i] ELSE b[i - Len(a)]
  <2>1. /\ r \in Seq(S) /\ Len(r) = Len(a) + Len(b)
        /\ \A i \in 1..(Len(a) + Len(b)) : r[i] = IF i <= Len(a) THEN a[i] ELSE b[i - Len(a)]
    BY SMTT(30), Zenon, <1>2
  <2>2. Len(a) + Len(b) = Len(q) - 1
    BY <1>1, <1>2
  <2>3. QED
    BY <2>1, <2>2
<1> HIDE DEF r
<1>4. \A i \in 1..Len(r) : at(i) \in 1..Len(q) /\ r[i] = q[at(i)]
  <2> TAKE i \in 1..Len(r)
  <2>1. CASE i < k
    BY <1>1, <1>2, <1>3, <2>1
  <2>2. CASE ~(i < k)
    <3>1. i - (k - 1) \in 1..(Len(q) - k) /\ ~(i <= k - 1)
      BY <1>1, <1>3, <2>2
    <3>2. k + (i - (k - 1)) = i + 1 /\ i + 1 \in 1..Len(q)
      BY <1>1, <1>3, <2>2
    <3>3. r[i] = b[i - (k - 1)]
      BY <1>2, <1>3, <3>1
    <3>4. b[i - (k - 1)] = q[k + (i - (k - 1))]
      BY <1>2, <3>1
    <3>5. QED
      BY <2>2, <3>2, <3>3, <3>4
  <2>3. QED
    BY <2>1, <2>2
<1>5. \A i, j \in 1..Len(r) : at(i) = at(j) => i = j
  BY <1>1, <1>3
<1> HIDE DEF at
<1>6. \A i, j \in 1..Len(r) : r[i] = r[j] => i = j
  BY SMTT(30), Zenon, <1>4, <1>5 DEF Queue
<1>7. DOMAIN r = 1..Len(r)
  BY <1>3
<1>8. Members(r) \subseteq Members(q)
  BY <1>1, <1>4, <1>7 DEF Members
<1>9. QED
  BY Zenon, <1>3, <1>6, <1>8 DEF Queue, r, a, b

-----------------------------------------------------------------------------
(***************************************************************************)
(* TokioRepairSchedule.  Below the period only 0 is a multiple of it.      *)
(***************************************************************************)
LEMMA OnlyZero ==
    ASSUME NEW r \in 0..(Period - 1), NEW d \in Int, NEW m \in Int, r + d = m * Period, r # 0
    PROVE  d # 0
<1>1. Period \in Nat /\ Period > 0
  BY IntervalAssumption
<1>2. SUFFICES ASSUME d = 0 PROVE FALSE
  OBVIOUS
<1>3. r = m * Period
  BY <1>1, <1>2
<1>4. ~(m >= 1) /\ ~(m <= -1)
  BY <1>1, <1>3
<1>5. m = 0
  BY <1>4
<1>6. QED
  BY <1>1, <1>3, <1>5

(***************************************************************************)
(* What is left of a division by the period is less than the period.       *)
(***************************************************************************)
LEMMA PeriodDivides ==
    ASSUME NEW x \in Int
    PROVE  x % Period \in 0..(Period - 1) /\ \E k \in Int : x = k * Period + (x % Period)
<1>1. Period \in Nat /\ Period > 0
  BY IntervalAssumption
<1> DEFINE q == x \div Period
           r == x % Period
<1>2. r \in 0..(Period - 1) /\ q \in Int /\ x = Period * q + r
  BY <1>1
<1> HIDE DEF q, r
<1>3. x = q * Period + r
  BY <1>1, <1>2
<1>4. r \in 0..(Period - 1) /\ \E k \in Int : x = k * Period + r
  BY <1>2, <1>3
<1>5. QED
  BY <1>4 DEF r

(***************************************************************************)
(* The inductive invariant of the interval: the deadline is a multiple of  *)
(* the period, and while the tick of the current period is taken it has    *)
(* not come yet.                                                           *)
(***************************************************************************)
IntervalInv ==
    /\ phase \in 0..(Period - 1) /\ due \in -MaxLate..Period
    /\ \E k \in Int : phase + due = k * Period
    /\ open \in BOOLEAN
    /\ ~open => due > 0
    /\ Queue(Caller, queue)

(***************************************************************************)
(* The interval is created on the period.                                  *)
(***************************************************************************)
LEMMA IntervalInit == Interval!Init => IntervalInv
<1> SUFFICES ASSUME Interval!Init PROVE IntervalInv
  OBVIOUS
<1>1. phase = 0 /\ due = 0 /\ queue = <<>> /\ open = TRUE
  BY DEF Interval!Init
<1>2. phase + due = 0 * Period
  BY <1>1, IntervalAssumption
<1>3. Queue(Caller, queue)
  BY <1>1 DEF Queue
<1>4. QED
  BY <1>1, <1>2, <1>3, IntervalAssumption DEF IntervalInv

(***************************************************************************)
(* Every step of the interval keeps it so.                                 *)
(***************************************************************************)
LEMMA IntervalStep == IntervalInv /\ [Interval!Next]_intervalVars => IntervalInv'
<1> SUFFICES ASSUME IntervalInv, [Interval!Next]_intervalVars PROVE IntervalInv'
  OBVIOUS
<1>1. Period \in Nat /\ Period > 0 /\ MaxLate \in Nat
  BY IntervalAssumption
<1>2. /\ phase \in 0..(Period - 1) /\ due \in -MaxLate..Period
      /\ open \in BOOLEAN /\ (~open => due > 0) /\ Queue(Caller, queue)
  BY DEF IntervalInv
<1>3. PICK k \in Int : phase + due = k * Period
  BY DEF IntervalInv
<1>4. ASSUME Queue(Caller, queue'), phase' = phase, due' = due, open' = open
      PROVE  IntervalInv'
  BY <1>2, <1>3, <1>4 DEF IntervalInv
<1>5. ASSUME NEW t \in Caller, Interval!CallTick(t) PROVE IntervalInv'
  <2>1. /\ t \notin Members(queue) /\ queue' = Append(queue, t)
        /\ phase' = phase /\ due' = due /\ open' = open
    BY <1>5 DEF Interval!CallTick, Interval!Waiting, Interval!Range, Members
  <2>2. QED
    BY <1>2, <1>4, <2>1, QueueAppend
<1>6. ASSUME NEW t \in Caller, Interval!Drop(t) PROVE IntervalInv'
  <2>1. /\ \E i \in DOMAIN queue :
              queue' = SubSeq(queue, 1, i - 1) \o SubSeq(queue, i + 1, Len(queue))
        /\ phase' = phase /\ due' = due /\ open' = open
    BY Zenon, <1>6 DEF Interval!Drop, Interval!Without
  <2>2. QED
    BY <1>2, <1>4, <2>1, QueueRemove
<1>7. CASE Interval!Tick
  <2>1. /\ queue # <<>> /\ due <= 0 /\ due' = Period - ((-due) % Period)
        /\ queue' = Tail(queue) /\ open' = FALSE /\ phase' = phase
    BY <1>7 DEF Interval!Tick, Interval!NextDue
  <2>2. -due \in Int
    BY <1>1, <1>2
  <2> DEFINE r == (-due) % Period
  <2>3. r \in 0..(Period - 1) /\ \E j \in Int : -due = j * Period + r
    BY <2>2, PeriodDivides
  <2>4. due' = Period - r
    BY <2>1
  <2> HIDE DEF r
  <2>5. PICK j \in Int : -due = j * Period + r
    BY <2>3
  <2>6. due' \in 1..Period
    BY <1>1, <2>3, <2>4
  <2>7. phase + due' = k * Period + j * Period + Period
    BY <1>1, <1>2, <1>3, <2>3, <2>4, <2>5
  <2>8. k * Period + j * Period + Period = (k + j + 1) * Period
    BY <1>1
  <2>9. Queue(Caller, queue')
    BY <1>2, <2>1, QueueTail
  <2>10. due' \in -MaxLate..Period /\ due' > 0
    BY <1>1, <2>6
  <2>11. phase' + due' = (k + j + 1) * Period /\ k + j + 1 \in Int
    BY <2>1, <2>7, <2>8
  <2>12. phase' \in 0..(Period - 1) /\ open' \in BOOLEAN /\ (~open' => due' > 0)
    BY Zenon, <1>2, <2>1, <2>10
  <2>13. QED
    BY <2>9, <2>10, <2>11, <2>12 DEF IntervalInv
<1>8. CASE Interval!Clock
  <2>1. /\ due > -MaxLate /\ phase' = (phase + 1) % Period /\ due' = due - 1
        /\ open' = (open \/ phase' = 0) /\ queue' = queue
    BY <1>8 DEF Interval!Clock
  <2>2. phase + 1 \in Int
    BY <1>1, <1>2
  <2>3. phase' \in 0..(Period - 1)
    BY <2>1, <2>2, PeriodDivides
  <2>4. PICK j \in Int : phase + 1 = j * Period + phase'
    BY <2>1, <2>2, PeriodDivides
  <2>5. phase' + due' = k * Period - j * Period
    BY <1>1, <1>2, <1>3, <2>1, <2>3, <2>4
  <2>6. k * Period - j * Period = (k - j) * Period
    BY <1>1
  <2>7. due' \in -MaxLate..Period
    BY <1>1, <1>2, <2>1
  <2>8. ~open' => due' > 0
    <3> SUFFICES ASSUME ~open' PROVE due' > 0
      OBVIOUS
    <3>1. ~open /\ phase' # 0
      BY Zenon, <2>1
    <3>2. due >= 1
      BY <1>1, <1>2, <3>1
    <3>3. due' # 0
      <4>1. phase' + due' = (k - j) * Period /\ k - j \in Int /\ due' \in Int
        BY <1>1, <2>5, <2>6, <2>7
      <4>2. QED
        BY <2>3, <3>1, <4>1, OnlyZero
    <3>4. QED
      BY <1>1, <1>2, <2>1, <3>2, <3>3
  <2>9. k - j \in Int /\ phase' + due' = (k - j) * Period
    BY <2>5, <2>6
  <2>10. open' \in BOOLEAN /\ Queue(Caller, queue')
    BY <1>2, <2>1
  <2>11. QED
    BY <2>3, <2>7, <2>8, <2>9, <2>10 DEF IntervalInv
<1>9. CASE UNCHANGED intervalVars
  BY <1>2, <1>4, <1>9 DEF intervalVars
<1>10. QED
  BY <1>5, <1>6, <1>7, <1>8, <1>9 DEF Interval!Next


(***************************************************************************)
(* A multiple of the period leaves nothing.                                *)
(***************************************************************************)
LEMMA MultipleLeavesNothing ==
    ASSUME NEW x \in Int, NEW k \in Int, x = k * Period
    PROVE  x % Period = 0
<1>1. Period \in Nat /\ Period > 0
  BY IntervalAssumption
<1> DEFINE r == x % Period
<1>2. r \in 0..(Period - 1)
  BY PeriodDivides
<1>3. PICK q \in Int : x = q * Period + r
  BY PeriodDivides
<1> HIDE DEF r
<1>4. r + 0 = (k - q) * Period
  BY <1>1, <1>2, <1>3
<1>5. k - q \in Int
  OBVIOUS
<1>6. r = 0
  BY <1>2, <1>4, <1>5, OnlyZero
<1>7. QED
  BY <1>6 DEF r

(***************************************************************************)
(* What the invariant says of the interval: its types, its cadence, and    *)
(* that a tick that is taken opens the period it is taken in.              *)
(***************************************************************************)
LEMMA IntervalSafe ==
    ASSUME IntervalInv
    PROVE  Interval!TypeOK /\ Interval!KeepsCadence /\ (Interval!Tick => open)
<1>1. Period \in Nat /\ Period > 0 /\ MaxLate \in Nat
  BY IntervalAssumption
<1>2. Interval!TypeOK
  <2>1. Interval!IsInjective(queue) /\ queue \in Seq(Caller)
    BY DEF IntervalInv, Queue, Interval!IsInjective
  <2>2. QED
    BY <2>1 DEF IntervalInv, Interval!TypeOK
<1>3. Interval!KeepsCadence
  <2>1. PICK k \in Int : phase + due = k * Period
    BY DEF IntervalInv
  <2>2. phase + due \in Int
    BY <1>1 DEF IntervalInv
  <2>3. QED
    BY <2>1, <2>2, MultipleLeavesNothing DEF Interval!KeepsCadence
<1>4. ASSUME Interval!Tick PROVE open
  <2>1. due <= 0 /\ due \in Int
    BY <1>1, <1>4 DEF Interval!Tick, IntervalInv
  <2>2. ~(due > 0)
    BY <2>1
  <2>3. QED
    BY <2>2 DEF IntervalInv
<1>5. QED
  BY <1>2, <1>3, <1>4

-----------------------------------------------------------------------------
(***************************************************************************)
(* wait_until.  The inductive invariant: Ok is in a oneshot, or returned,  *)
(* only after a check found the condition true, and a call that says       *)
(* otherwise has begun and is out of time.                                 *)
(***************************************************************************)
WaitInv ==
    /\ Waits!TypeOK
    /\ \A c \in Call : /\ report[c] = "Ok" => seen[c]
                       /\ returned[c] = "Ok" => seen[c]
                       /\ returned[c] # None => waitDeadline[c] # None
                       /\ returned[c] = "not_met" => waitNow >= waitDeadline[c]

(***************************************************************************)
(* No call of wait_until has begun.                                        *)
(***************************************************************************)
LEMMA WaitInit == Waits!Init => WaitInv
<1> SUFFICES ASSUME Waits!Init PROVE WaitInv
  OBVIOUS
<1>1. Waits!TypeOK
  BY WaitsAssumption DEF Waits!Init, Waits!TypeOK
<1>2. None # "Ok" /\ None # "not_met"
  BY ContextAssumption, WaitsAssumption
<1>3. QED
  BY <1>1, <1>2 DEF Waits!Init, WaitInv

(***************************************************************************)
(* Every step of the calls, their tasks and the clock keeps the invariant. *)
(***************************************************************************)
LEMMA WaitStep == WaitInv /\ [Waits!Next]_waitVars => WaitInv'
<1> SUFFICES ASSUME WaitInv, [Waits!Next]_waitVars PROVE WaitInv'
  OBVIOUS
<1> DEFINE Times == 0..(CallTime + WaitTime)
<1>1. /\ waitNow \in Times
      /\ holds \in [Call -> BOOLEAN] /\ seen \in [Call -> BOOLEAN]
      /\ poller \in [Call -> {"none", "queued", "polling", "done", "aborted"}]
      /\ report \in [Call -> {None, "Ok", "closed"}]
      /\ waitDeadline \in [Call -> Times \cup {None}]
      /\ returned \in [Call -> {None, "Ok", "channel_closed", "not_met"}]
  BY DEF WaitInv, Waits!TypeOK
<1>2. \A c \in Call : /\ report[c] = "Ok" => seen[c]
                      /\ returned[c] = "Ok" => seen[c]
                      /\ returned[c] # None => waitDeadline[c] # None
                      /\ returned[c] = "not_met" => waitNow >= waitDeadline[c]
  BY DEF WaitInv
<1>3. /\ None \notin {"Ok", "closed", "channel_closed", "not_met"} /\ None \notin Nat
      /\ CallTime \in Nat /\ WaitTime \in Nat
  BY ContextAssumption, WaitsAssumption
<1>4. ASSUME NEW c \in Call, Waits!WaitUntilCall(c) PROVE WaitInv'
  <2>1. /\ waitDeadline[c] = None /\ waitNow <= CallTime
        /\ poller' = [poller EXCEPT ![c] = "queued"]
        /\ waitDeadline' = [waitDeadline EXCEPT ![c] = waitNow + WaitTime]
        /\ waitNow' = waitNow /\ holds' = holds /\ report' = report
        /\ returned' = returned /\ seen' = seen
    BY <1>4 DEF Waits!WaitUntilCall
  <2>2. waitNow + WaitTime \in Times /\ waitNow + WaitTime # None
    BY <1>1, <1>3, <2>1
  <2>3. Waits!TypeOK'
    BY SMTT(30), Zenon, <1>1, <2>1, <2>2 DEF Waits!TypeOK
  <2>4. returned[c] = None
    BY SMTT(30), Zenon, <1>2, <2>1
  <2>5. QED
    BY Zenon, <1>1, <1>2, <1>3, <2>1, <2>2, <2>3, <2>4 DEF WaitInv
<1>5. ASSUME NEW c \in Call, Waits!StartTask(c) PROVE WaitInv'
  <2>1. /\ poller' = [poller EXCEPT ![c] = "polling"]
        /\ waitDeadline' = waitDeadline /\ waitNow' = waitNow /\ holds' = holds
        /\ report' = report /\ returned' = returned /\ seen' = seen
    BY <1>5 DEF Waits!StartTask
  <2>2. Waits!TypeOK'
    BY <1>1, <2>1 DEF Waits!TypeOK
  <2>3. QED
    BY <1>2, <2>1, <2>2 DEF WaitInv
<1>6. ASSUME NEW c \in Call, Waits!Check(c) \/ Waits!CheckPanics(c) PROVE WaitInv'
  <2>1. /\ poller' = [poller EXCEPT ![c] = "done"]
        /\ waitDeadline' = waitDeadline /\ waitNow' = waitNow /\ holds' = holds
        /\ returned' = returned
        /\ \/ /\ seen' = [seen EXCEPT ![c] = TRUE]
              /\ \E r \in {None, "Ok"} : report' = [report EXCEPT ![c] = r]
           \/ /\ seen' = seen
              /\ \E r \in {None, "closed"} : report' = [report EXCEPT ![c] = r]
    BY Zenon, <1>6 DEF Waits!Check, Waits!CheckPanics
  <2>2. seen' \in [Call -> BOOLEAN] /\ \A x \in Call : seen[x] => seen'[x]
    BY Zenon, <1>1, <2>1
  <2>3. /\ report' \in [Call -> {None, "Ok", "closed"}]
        /\ \A x \in Call : report'[x] = "Ok" => seen'[x]
    BY <1>1, <1>2, <1>3, <2>1
  <2>4. Waits!TypeOK'
    BY SMTT(30), Zenon, <1>1, <2>1, <2>2, <2>3 DEF Waits!TypeOK
  <2>5. QED
    BY <1>2, <2>1, <2>2, <2>3, <2>4 DEF WaitInv
<1>7. ASSUME NEW c \in Call, Waits!Resume(c) PROVE WaitInv'
  <2>1. PICK r \in {"Ok", "channel_closed", "not_met"} :
            /\ returned' = [returned EXCEPT ![c] = r]
            /\ r = "Ok" => report[c] = "Ok"
            /\ r = "not_met" => waitNow >= waitDeadline[c]
    BY Zenon, <1>7 DEF Waits!Resume, Waits!Return
  <2>2. /\ waitDeadline[c] # None /\ waitDeadline' = waitDeadline /\ waitNow' = waitNow
        /\ holds' = holds /\ seen' = seen /\ report' = [report EXCEPT ![c] = None]
        /\ poller' = [poller EXCEPT ![c] = IF @ = "queued" THEN "aborted" ELSE @]
    BY <1>7 DEF Waits!Resume, Waits!Return, Waits!Waiting
  <2>3. /\ returned' \in [Call -> {None, "Ok", "channel_closed", "not_met"}]
        /\ report' \in [Call -> {None, "Ok", "closed"}]
        /\ poller' \in [Call -> {"none", "queued", "polling", "done", "aborted"}]
    BY <1>1, <2>1, <2>2
  <2>4. Waits!TypeOK'
    BY <1>1, <2>2, <2>3 DEF Waits!TypeOK
  <2>5. QED
    BY <1>1, <1>2, <1>3, <2>1, <2>2, <2>4 DEF WaitInv
<1>8. ASSUME NEW c \in Call, Waits!Change(c) PROVE WaitInv'
  <2>1. /\ holds' = [holds EXCEPT ![c] = ~@] /\ poller' = poller
        /\ waitDeadline' = waitDeadline /\ waitNow' = waitNow
        /\ report' = report /\ returned' = returned /\ seen' = seen
    BY <1>8 DEF Waits!Change
  <2>2. holds' \in [Call -> BOOLEAN]
    BY <1>1, <2>1
  <2>3. Waits!TypeOK'
    BY SMTT(30), Zenon, <1>1, <2>1, <2>2 DEF Waits!TypeOK
  <2>4. QED
    BY Zenon, <1>2, <2>1, <2>3 DEF WaitInv
<1>9. CASE Waits!Tick
  <2>1. /\ waitNow < CallTime + WaitTime /\ waitNow' = waitNow + 1
        /\ holds' = holds /\ poller' = poller /\ waitDeadline' = waitDeadline
        /\ report' = report /\ returned' = returned /\ seen' = seen
    BY <1>9 DEF Waits!Tick
  <2>2. waitNow' \in Times /\ \A x \in Times : waitNow >= x => waitNow' >= x
    BY SMTT(30), Zenon, <1>1, <1>3, <2>1
  <2>3. Waits!TypeOK'
    BY SMTT(30), Zenon, <1>1, <2>1, <2>2 DEF Waits!TypeOK
  <2>4. \A c \in Call : returned[c] = "not_met" => waitDeadline[c] \in Times
    BY SMTT(30), Zenon, <1>1, <1>2, <1>3
  <2>5. QED
    BY <1>2, <2>1, <2>2, <2>3, <2>4 DEF WaitInv
<1>10. CASE UNCHANGED waitVars
  BY <1>10 DEF waitVars, WaitInv, Waits!TypeOK
<1>11. QED
  BY SMTT(30), Zenon, <1>4, <1>5, <1>6, <1>7, <1>8, <1>9, <1>10 DEF Waits!Next

(***************************************************************************)
(* What the invariant says of the calls.                                   *)
(***************************************************************************)
LEMMA WaitSafe == WaitInv => Waits!TypeOK /\ Waits!ResultIsTrue
BY DEF WaitInv, Waits!ResultIsTrue

-----------------------------------------------------------------------------
(***************************************************************************)
(* join_all_with_timeout.  Where the caller is: at a handle unless it is   *)
(* at the head of the loop or done, and past the last one when it returns  *)
(* Ok.  Every thread it has passed ended well; what is in a channel, and   *)
(* what was received, is what the thread has come to.                      *)
(***************************************************************************)
ThreadsInv ==
    /\ pc \notin {"loop", "Ok", "timeout"} => next \in Joins!Handle
    /\ pc = "Ok" => next = Handles + 1
    /\ \A h \in Joins!Handle : h < next => worker[h] = "ok"
    /\ \A h \in Joins!Handle : outcome[h] # None => outcome[h] = worker[h]
    /\ pc = "received" => got = worker[next] /\ got \in Joins!Outcome

(***************************************************************************)
(* The budget: the time the caller has waited and may still wait for the   *)
(* handle it is at stay within it.                                         *)
(***************************************************************************)
BudgetInv ==
    /\ waited <= joinNow /\ waited <= Budget
    /\ pc \in {"spawn", "spawned"} => waited + remaining <= Budget
    /\ pc = "recv" => /\ joinNow <= joinDeadline
                      /\ waited + (joinDeadline - joinNow) <= Budget

(***************************************************************************)
(* A helper that has not ended is the one of the handle the caller is at.  *)
(***************************************************************************)
HelpersInv ==
    \A h \in Joins!Handle :
        helper[h] \in {"joining", "sent"} =>
            h = next /\ pc \in {"spawned", "recv", "received", "thread_timed_out"}

JoinInv == Joins!TypeOK /\ ThreadsInv /\ BudgetInv /\ HelpersInv

(***************************************************************************)
(* The call begins with the first handle and no helper.                    *)
(***************************************************************************)
LEMMA JoinInit == Joins!Init => JoinInv
<1> SUFFICES ASSUME Joins!Init PROVE JoinInv
  OBVIOUS
<1> USE DEF Joins!Init
<1>1. Handles \in Nat /\ Budget \in Nat
  BY JoinsAssumption
<1>2. Joins!TypeOK
  BY <1>1 DEF Joins!TypeOK, Joins!Handle, Joins!Outcome, Joins!Result
<1>3. ThreadsInv
  BY <1>1 DEF ThreadsInv, Joins!Handle
<1>4. BudgetInv
  BY <1>1 DEF BudgetInv
<1>5. HelpersInv
  BY DEF HelpersInv
<1>6. QED
  BY <1>2, <1>3, <1>4, <1>5 DEF JoinInv

(***************************************************************************)
(* The steps of the threads and of the helpers.                            *)
(***************************************************************************)
LEMMA ThreadStep ==
    ASSUME JoinInv, NEW h \in Joins!Handle,
           Joins!WorkerEnds(h) \/ Joins!HelperSends(h) \/ Joins!HelperExits(h)
    PROVE  JoinInv'
<1>1. /\ worker \in [Joins!Handle -> Joins!Outcome \cup {"running"}]
      /\ helper \in [Joins!Handle -> {"none", "joining", "sent", "exited"}]
      /\ outcome \in [Joins!Handle -> Joins!Outcome \cup {None}]
  BY DEF JoinInv, Joins!TypeOK
<1>2. "running" \notin Joins!Outcome
  BY DEF Joins!Outcome
<1>3. /\ pc' = pc /\ next' = next /\ got' = got /\ joinNow' = joinNow /\ waited' = waited
      /\ remaining' = remaining /\ joinDeadline' = joinDeadline
  BY DEF Joins!WorkerEnds, Joins!HelperSends, Joins!HelperExits, Joins!caller
<1>4. BudgetInv'
  BY <1>3 DEF JoinInv, BudgetInv
<1>5. ASSUME worker' \in [Joins!Handle -> Joins!Outcome \cup {"running"}],
             helper' \in [Joins!Handle -> {"none", "joining", "sent", "exited"}],
             outcome' \in [Joins!Handle -> Joins!Outcome \cup {None}]
      PROVE  Joins!TypeOK'
  BY <1>3, <1>5 DEF JoinInv, Joins!TypeOK
<1>6. CASE Joins!WorkerEnds(h)
  <2>1. PICK o \in Joins!Outcome : worker' = [worker EXCEPT ![h] = o]
    BY Zenon, <1>6 DEF Joins!WorkerEnds
  <2>2. worker[h] = "running" /\ helper' = helper /\ outcome' = outcome
    BY <1>6 DEF Joins!WorkerEnds
  <2>3. Joins!TypeOK'
    BY <1>1, <1>5, <2>1, <2>2
  <2>4. outcome[h] = None \/ outcome[h] # worker[h]
    BY <1>1, <1>2, <2>2
  <2>5. ThreadsInv'
    BY <1>1, <1>2, <1>3, <2>1, <2>2, <2>4 DEF JoinInv, ThreadsInv
  <2>6. HelpersInv'
    BY Zenon, <1>3, <2>2 DEF JoinInv, HelpersInv
  <2>7. QED
    BY <1>4, <2>3, <2>5, <2>6 DEF JoinInv
<1>7. CASE Joins!HelperSends(h)
  <2>1. /\ helper[h] = "joining" /\ worker[h] # "running" /\ worker' = worker
        /\ helper' = [helper EXCEPT ![h] = "sent"]
        /\ outcome' = outcome \/ outcome' = [outcome EXCEPT ![h] = worker[h]]
    BY <1>7 DEF Joins!HelperSends
  <2>2. Joins!TypeOK'
    <3>1. helper' \in [Joins!Handle -> {"none", "joining", "sent", "exited"}]
      BY <1>1, <2>1
    <3>2. outcome' \in [Joins!Handle -> Joins!Outcome \cup {None}]
      BY <1>1, <2>1
    <3>3. QED
      BY <1>1, <1>5, <2>1, <3>1, <3>2
  <2>3. ThreadsInv'
    BY <1>1, <1>3, <2>1 DEF JoinInv, ThreadsInv
  <2>4. HelpersInv'
    BY <1>1, <1>3, <2>1 DEF JoinInv, HelpersInv
  <2>5. QED
    BY <1>4, <2>2, <2>3, <2>4 DEF JoinInv
<1>8. CASE Joins!HelperExits(h)
  <2>1. /\ worker' = worker /\ outcome' = outcome
        /\ helper' = [helper EXCEPT ![h] = "exited"]
    BY <1>8 DEF Joins!HelperExits
  <2>2. Joins!TypeOK'
    BY <1>1, <1>5, <2>1
  <2>3. ThreadsInv'
    BY <1>3, <2>1 DEF JoinInv, ThreadsInv
  <2>4. HelpersInv'
    BY <1>1, <1>3, <2>1 DEF JoinInv, HelpersInv
  <2>5. QED
    BY <1>4, <2>2, <2>3, <2>4 DEF JoinInv
<1>9. QED
  BY <1>6, <1>7, <1>8


(***************************************************************************)
(* The head of the loop hands out what is left of the budget.              *)
(***************************************************************************)
LEMMA NextHandleStep == ASSUME JoinInv, Joins!NextHandle PROVE JoinInv'
<1>1. /\ pc = "loop" /\ joinNow' = joinNow /\ worker' = worker /\ helper' = helper
      /\ outcome' = outcome /\ next' = next /\ joinDeadline' = joinDeadline
      /\ got' = got /\ waited' = waited
  BY DEF Joins!NextHandle
<1>2. /\ Handles \in Nat /\ Budget \in Nat /\ joinNow \in Nat /\ waited \in Nat
      /\ next \in 1..(Handles + 1)
  BY JoinsAssumption DEF JoinInv, Joins!TypeOK
<1>3. \/ next > Handles /\ pc' = "Ok" /\ remaining' = remaining
      \/ ~(next > Handles) /\ pc' = "timeout" /\ remaining' = remaining
      \/ ~(next > Handles) /\ joinNow < Budget /\ pc' = "spawn" /\ remaining' = Budget - joinNow
  BY <1>2 DEF Joins!NextHandle
<1>4. remaining' \in 0..Budget
  BY <1>2, <1>3 DEF JoinInv, Joins!TypeOK
<1>5. pc' \in {"Ok", "timeout", "spawn"}
  BY <1>3
<1>6. Joins!TypeOK'
  BY <1>1, <1>4, <1>5 DEF JoinInv, Joins!TypeOK, Joins!Result
<1>7. ThreadsInv'
  <2>1. /\ pc' = "Ok" => next' = Handles + 1
        /\ pc' = "spawn" => next' \in Joins!Handle
    BY <1>1, <1>2, <1>3 DEF Joins!Handle
  <2>2. QED
    BY <1>1, <1>5, <2>1 DEF JoinInv, ThreadsInv
<1>8. BudgetInv'
  <2>1. waited <= joinNow /\ waited <= Budget
    BY DEF JoinInv, BudgetInv
  <2>2. pc' = "spawn" => waited + remaining' <= Budget
    BY <1>2, <1>3, <2>1
  <2>3. QED
    BY <1>1, <1>5, <2>1, <2>2 DEF BudgetInv
<1>9. HelpersInv'
  BY <1>1 DEF JoinInv, HelpersInv
<1>10. QED
  BY <1>6, <1>7, <1>8, <1>9 DEF JoinInv

(***************************************************************************)
(* The steps of the caller at a handle.                                    *)
(***************************************************************************)
LEMMA HandleStep ==
    ASSUME JoinInv,
           \/ Joins!SpawnHelper \/ Joins!CallRecv \/ Joins!Receive \/ Joins!GiveUp \/ Joins!Reap
    PROVE  JoinInv'
<1>1. /\ worker \in [Joins!Handle -> Joins!Outcome \cup {"running"}]
      /\ helper \in [Joins!Handle -> {"none", "joining", "sent", "exited"}]
      /\ outcome \in [Joins!Handle -> Joins!Outcome \cup {None}]
      /\ joinNow \in Nat /\ waited \in Nat /\ remaining \in 0..Budget /\ joinDeadline \in Nat
      /\ got \in Joins!Outcome \cup {None} /\ next \in 1..(Handles + 1)
  BY DEF JoinInv, Joins!TypeOK
<1>2. Handles \in Nat /\ Budget \in Nat
  BY SMTT(30), Zenon, JoinsAssumption
<1>3. /\ joinNow' = joinNow /\ worker' = worker /\ waited' = waited /\ remaining' = remaining
      /\ waited <= joinNow /\ waited <= Budget
  BY SMTT(30), Zenon
     DEF Joins!SpawnHelper, Joins!CallRecv, Joins!Receive, Joins!GiveUp,
         Joins!Reap, JoinInv, BudgetInv
<1>4. next \in Joins!Handle
  BY DEF Joins!SpawnHelper, Joins!CallRecv, Joins!Receive, Joins!GiveUp, Joins!Reap,
         JoinInv, ThreadsInv
<1>5. CASE Joins!SpawnHelper
  <2>1. /\ pc = "spawn" /\ pc' = "spawned" /\ helper' = [helper EXCEPT ![next] = "joining"]
        /\ outcome' = outcome /\ next' = next /\ joinDeadline' = joinDeadline /\ got' = got
    BY <1>5 DEF Joins!SpawnHelper
  <2>2. helper' \in [Joins!Handle -> {"none", "joining", "sent", "exited"}]
    BY Zenon, <1>1, <2>1
  <2>3. Joins!TypeOK'
    BY <1>1, <1>3, <2>1, <2>2 DEF Joins!TypeOK
  <2>4. ThreadsInv'
    BY <1>3, <1>4, <2>1 DEF JoinInv, ThreadsInv
  <2>5. BudgetInv'
    BY <1>3, <2>1 DEF JoinInv, BudgetInv
  <2>6. HelpersInv'
    BY <1>1, <2>1 DEF JoinInv, HelpersInv
  <2>7. QED
    BY <2>3, <2>4, <2>5, <2>6 DEF JoinInv
<1>6. CASE Joins!CallRecv
  <2>1. /\ pc = "spawned" /\ pc' = "recv" /\ joinDeadline' = joinNow + remaining
        /\ outcome' = outcome /\ next' = next /\ helper' = helper /\ got' = got
    BY <1>6 DEF Joins!CallRecv
  <2>2. Joins!TypeOK'
    BY <1>1, <1>2, <1>3, <2>1 DEF Joins!TypeOK
  <2>3. ThreadsInv'
    BY <1>3, <1>4, <2>1 DEF JoinInv, ThreadsInv
  <2>4. BudgetInv'
    <3>1. waited + remaining <= Budget
      BY <2>1 DEF JoinInv, BudgetInv
    <3>2. joinNow <= joinDeadline' /\ waited + (joinDeadline' - joinNow) <= Budget
      BY <1>1, <1>2, <2>1, <3>1
    <3>3. QED
      BY <1>3, <2>1, <3>2 DEF BudgetInv
  <2>5. HelpersInv'
    BY <2>1 DEF JoinInv, HelpersInv
  <2>6. QED
    BY <2>2, <2>3, <2>4, <2>5 DEF JoinInv
<1>7. CASE Joins!Receive
  <2>1. /\ pc = "recv" /\ pc' = "received" /\ outcome[next] # None /\ got' = outcome[next]
        /\ outcome' = [outcome EXCEPT ![next] = None] /\ next' = next /\ helper' = helper
        /\ joinDeadline' = joinDeadline
    BY <1>7 DEF Joins!Receive
  <2>2. got' = worker[next] /\ got' \in Joins!Outcome
    BY <1>1, <1>4, <2>1 DEF JoinInv, ThreadsInv
  <2>3. outcome' \in [Joins!Handle -> Joins!Outcome \cup {None}]
    BY Zenon, <1>1, <2>1
  <2>4. Joins!TypeOK'
    BY SMTT(30), Zenon, <1>1, <1>3, <2>1, <2>2, <2>3 DEF Joins!TypeOK
  <2>5. ThreadsInv'
    BY <1>1, <1>3, <1>4, <2>1, <2>2 DEF JoinInv, ThreadsInv
  <2>6. BudgetInv'
    BY <1>3, <2>1 DEF BudgetInv
  <2>7. HelpersInv'
    BY <2>1 DEF JoinInv, HelpersInv
  <2>8. QED
    BY <2>4, <2>5, <2>6, <2>7 DEF JoinInv
<1>8. CASE Joins!GiveUp
  <2>1. /\ pc = "recv" /\ pc' = "thread_timed_out" /\ outcome' = outcome /\ next' = next
        /\ helper' = helper /\ joinDeadline' = joinDeadline /\ got' = got
    BY <1>8 DEF Joins!GiveUp
  <2>2. Joins!TypeOK'
    BY <1>1, <1>3, <2>1 DEF Joins!TypeOK, Joins!Result
  <2>3. ThreadsInv'
    BY <1>3, <1>4, <2>1 DEF JoinInv, ThreadsInv
  <2>4. BudgetInv'
    BY <1>3, <2>1 DEF BudgetInv
  <2>5. HelpersInv'
    BY <2>1 DEF JoinInv, HelpersInv
  <2>6. QED
    BY <2>2, <2>3, <2>4, <2>5 DEF JoinInv
<1>9. CASE Joins!Reap
  <2>1. /\ pc = "received" /\ helper[next] = "exited" /\ outcome' = outcome
        /\ helper' = helper /\ joinDeadline' = joinDeadline /\ got' = got
        /\ \/ got = "ok" /\ pc' = "loop" /\ next' = next + 1
           \/ pc' = "thread_panicked" /\ next' = next
    BY <1>9 DEF Joins!Reap
  <2>2. next' \in 1..(Handles + 1)
    BY <1>1, <1>2, <1>4, <2>1 DEF Joins!Handle
  <2>3. Joins!TypeOK'
    BY <1>1, <1>3, <2>1, <2>2 DEF Joins!TypeOK, Joins!Result
  <2>4. \A h \in Joins!Handle : h < next' => worker[h] = "ok"
    <3>1. \A h \in Joins!Handle : h < next => worker[h] = "ok"
      BY DEF JoinInv, ThreadsInv
    <3>2. got = worker[next]
      BY <2>1 DEF JoinInv, ThreadsInv
    <3>3. \A h \in Joins!Handle : h < next + 1 => h < next \/ h = next
      BY <1>1, <1>2 DEF Joins!Handle
    <3>4. QED
      BY <2>1, <3>1, <3>2, <3>3
  <2>5. ThreadsInv'
    BY <1>3, <1>4, <2>1, <2>4 DEF JoinInv, ThreadsInv
  <2>6. BudgetInv'
    BY <1>3, <2>1 DEF BudgetInv
  <2>7. HelpersInv'
    BY <2>1 DEF JoinInv, HelpersInv
  <2>8. QED
    BY <2>3, <2>5, <2>6, <2>7 DEF JoinInv
<1>10. QED
  BY <1>5, <1>6, <1>7, <1>8, <1>9


(***************************************************************************)
(* The clock: while the caller waits it runs up to the deadline.           *)
(***************************************************************************)
LEMMA JoinTickStep == ASSUME JoinInv, Joins!Tick PROVE JoinInv'
<1>1. /\ joinNow' = joinNow + 1 /\ worker' = worker /\ helper' = helper /\ outcome' = outcome
      /\ pc' = pc /\ next' = next /\ remaining' = remaining /\ joinDeadline' = joinDeadline
      /\ got' = got
  BY DEF Joins!Tick, Joins!caller
<1>2. /\ joinNow \in Nat /\ waited \in Nat /\ joinDeadline \in Nat /\ remaining \in 0..Budget
      /\ Budget \in Nat
  BY JoinsAssumption DEF JoinInv, Joins!TypeOK
<1>3. \/ pc = "recv" /\ joinNow < joinDeadline /\ waited' = waited + 1
      \/ pc # "recv" /\ waited' = waited
  BY DEF Joins!Tick
<1>4. Joins!TypeOK'
  BY <1>1, <1>2, <1>3 DEF JoinInv, Joins!TypeOK
<1>5. ThreadsInv'
  BY <1>1 DEF JoinInv, ThreadsInv
<1>6. BudgetInv'
  <2>1. CASE pc = "recv"
    <3>1. /\ joinNow <= joinDeadline /\ waited + (joinDeadline - joinNow) <= Budget
          /\ waited <= joinNow
      BY <2>1 DEF JoinInv, BudgetInv
    <3>2. /\ joinNow' <= joinDeadline /\ waited' + (joinDeadline - joinNow') <= Budget
          /\ waited' <= joinNow' /\ waited' <= Budget
      BY <1>1, <1>2, <1>3, <2>1, <3>1
    <3>3. QED
      BY <1>1, <2>1, <3>2 DEF BudgetInv
  <2>2. CASE pc # "recv"
    <3>1. waited' <= joinNow' /\ waited' <= Budget
      BY <1>1, <1>2, <1>3, <2>2 DEF JoinInv, BudgetInv
    <3>2. QED
      BY <1>1, <1>3, <2>2, <3>1 DEF JoinInv, BudgetInv
  <2>3. QED
    BY <2>1, <2>2
<1>7. HelpersInv'
  BY <1>1 DEF JoinInv, HelpersInv
<1>8. QED
  BY <1>4, <1>5, <1>6, <1>7 DEF JoinInv

(***************************************************************************)
(* Every step of join_all_with_timeout keeps the invariant.                *)
(***************************************************************************)
LEMMA JoinStep == JoinInv /\ [Joins!Next]_joinVars => JoinInv'
<1> SUFFICES ASSUME JoinInv, [Joins!Next]_joinVars PROVE JoinInv'
  OBVIOUS
<1>1. CASE UNCHANGED joinVars
  BY <1>1 DEF joinVars, JoinInv, Joins!TypeOK, ThreadsInv, BudgetInv, HelpersInv
<1>2. CASE Joins!Next
  BY <1>2, ThreadStep, NextHandleStep, HandleStep, JoinTickStep
     DEF Joins!Next, Joins!CallerStep
<1>3. QED
  BY SMTT(30), Zenon, <1>1, <1>2

INSTANCE FiniteSetTheorems

(***************************************************************************)
(* What the invariant says of the call.                                    *)
(***************************************************************************)
LEMMA JoinSafe == JoinInv => Joins!TypeOK /\ Joins!OkMeansAllEnded /\ JoinIsBounded
<1> SUFFICES ASSUME JoinInv PROVE Joins!TypeOK /\ Joins!OkMeansAllEnded /\ JoinIsBounded
  OBVIOUS
<1>1. Joins!OkMeansAllEnded
  <2> SUFFICES ASSUME pc = "Ok", NEW h \in Joins!Handle PROVE worker[h] = "ok"
    BY DEF Joins!OkMeansAllEnded
  <2>1. h < next
    BY JoinsAssumption DEF JoinInv, ThreadsInv, Joins!Handle
  <2>2. QED
    BY <2>1 DEF JoinInv, ThreadsInv
<1>2. Joins!BudgetIsGlobal
  BY DEF JoinInv, BudgetInv, Joins!BudgetIsGlobal
<1>3. Joins!OneHelperAtATime
  <2> DEFINE busy == {h \in Joins!Handle : helper[h] \in {"joining", "sent"}}
  <2>1. busy \in SUBSET {next}
    BY DEF JoinInv, HelpersInv
  <2> HIDE DEF busy
  <2>2. IsFiniteSet({next}) /\ Cardinality({next}) = 1
    BY Zenon, FS_Singleton
  <2>3. Cardinality(busy) <= 1
    BY SMTT(30), Zenon, <2>1, <2>2, FS_Subset
  <2>4. Joins!Cardinality(busy) = Cardinality(busy)
    BY DEF Joins!Cardinality, Cardinality
  <2>5. QED
    BY <2>3, <2>4 DEF Joins!OneHelperAtATime, busy
<1>4. QED
  BY <1>1, <1>2, <1>3 DEF JoinInv, JoinIsBounded

-----------------------------------------------------------------------------
(***************************************************************************)
(* ManualRepairSchedule.  The inductive invariant: nobody waits beside a   *)
(* stored permit, no task is queued twice or both queued and notified, and *)
(* every fire is accounted for.                                            *)
(***************************************************************************)
Stored == IF permit THEN 1 ELSE 0

ManualInv ==
    /\ permit \in BOOLEAN
    /\ Queue(Caller, waiting)
    /\ notified \subseteq Caller \ Members(waiting)
    /\ IsFiniteSet(notified)
    /\ fires \in 0..MaxFires /\ ticks \in Nat /\ merged \in Nat
    /\ permit => waiting = <<>>
    /\ fires = ticks + Cardinality(notified) + Stored + merged

(***************************************************************************)
(* A new schedule has no permit, no waiter and no fire.                    *)
(***************************************************************************)
LEMMA ManualInit == Manual!Init => ManualInv
<1> SUFFICES ASSUME Manual!Init PROVE ManualInv
  OBVIOUS
<1>1. /\ permit = FALSE /\ waiting = <<>> /\ notified = {}
      /\ fires = 0 /\ ticks = 0 /\ merged = 0
  BY DEF Manual!Init
<1>2. IsFiniteSet(notified) /\ Cardinality(notified) = 0
  BY <1>1, FS_EmptySet
<1>3. Queue(Caller, waiting)
  BY <1>1 DEF Queue
<1>4. Stored = 0
  BY <1>1 DEF Stored
<1>5. fires \in 0..MaxFires /\ ticks \in Nat /\ merged \in Nat
  BY <1>1, ManualAssumption
<1>6. fires = ticks + Cardinality(notified) + Stored + merged
  BY <1>1, <1>2, <1>4
<1>7. permit \in BOOLEAN /\ (permit => waiting = <<>>) /\ notified \subseteq Caller \ Members(waiting)
  BY Zenon, <1>1
<1>8. QED
  BY SMTT(30), Zenon, <1>2, <1>3, <1>5, <1>6, <1>7 DEF ManualInv

(***************************************************************************)
(* notify_one, when one more notification than before is to be delivered:  *)
(* it reaches the first waiter, the permit, or is merged with it.          *)
(***************************************************************************)
LEMMA NotifyKeeps ==
    ASSUME ManualInv, NEW woken \in SUBSET notified, Manual!NotifyOne(waiting, woken)
    PROVE  /\ permit' \in BOOLEAN /\ Queue(Caller, waiting') /\ merged' \in Nat
           /\ notified' \subseteq Caller \ Members(waiting') /\ IsFiniteSet(notified')
           /\ permit' => waiting' = <<>>
           /\ Cardinality(notified') \in Nat /\ Cardinality(woken) \in Nat
           /\ Cardinality(notified') + Stored' + merged' = Cardinality(woken) + Stored + merged + 1
<1>1. /\ permit \in BOOLEAN /\ Queue(Caller, waiting) /\ merged \in Nat
      /\ notified \subseteq Caller \ Members(waiting) /\ IsFiniteSet(notified)
      /\ permit => waiting = <<>>
  BY DEF ManualInv
<1>2. IsFiniteSet(woken) /\ Cardinality(woken) \in Nat
  BY SMTT(30), Zenon, <1>1, FS_Subset, FS_CardinalityType
<1>3. CASE waiting # <<>>
  <2>1. /\ waiting' = Tail(waiting) /\ notified' = woken \cup {Head(waiting)}
        /\ permit' = permit /\ merged' = merged
    BY <1>3 DEF Manual!NotifyOne
  <2>2. /\ Queue(Caller, waiting') /\ Head(waiting) \in Caller
        /\ Head(waiting) \in Members(waiting)
        /\ Members(waiting') \subseteq Members(waiting) \ {Head(waiting)}
    BY SMTT(30), Zenon, <1>1, <1>3, <2>1, QueueTail
  <2>3. Head(waiting) \notin woken
    BY <1>1, <2>2
  <2>4. IsFiniteSet(notified') /\ Cardinality(notified') = Cardinality(woken) + 1
    BY Zenon, <1>2, <2>1, <2>3, FS_AddElement
  <2>5. notified' \subseteq Caller \ Members(waiting')
    BY <1>1, <2>1, <2>2
  <2>6. permit = FALSE /\ permit' = FALSE
    BY <1>1, <1>3, <2>1
  <2>7. Stored = 0 /\ Stored' = 0
    BY <2>6 DEF Stored
  <2>8. Cardinality(notified') + Stored' + merged' = Cardinality(woken) + Stored + merged + 1
    BY SMTT(30), Zenon, <1>1, <1>2, <2>1, <2>4, <2>7
  <2>9. QED
    BY SMTT(30), Zenon, <1>1, <1>2, <2>1, <2>2, <2>4, <2>5, <2>6, <2>8
<1>4. CASE waiting = <<>>
  <2>1. /\ waiting' = waiting /\ notified' = woken /\ permit' = TRUE
        /\ merged' = IF permit THEN merged + 1 ELSE merged
    BY <1>4 DEF Manual!NotifyOne
  <2>2. Stored' = 1
    BY <2>1 DEF Stored
  <2>3. Stored' + merged' = Stored + merged + 1 /\ Stored \in Nat /\ merged' \in Nat
    <3>1. CASE permit
      BY SMTT(30), Zenon, <1>1, <2>1, <2>2, <3>1 DEF Stored
    <3>2. CASE ~permit
      BY SMTT(30), Zenon, <1>1, <2>1, <2>2, <3>2 DEF Stored
    <3>3. QED
      BY <3>1, <3>2
  <2>4. Cardinality(notified') + Stored' + merged' = Cardinality(woken) + Stored + merged + 1
    BY SMTT(30), Zenon, <1>1, <1>2, <2>1, <2>2, <2>3
  <2>5. QED
    BY SMTT(30), Zenon, <1>1, <1>2, <1>4, <2>1, <2>3, <2>4
<1>5. QED
  BY SMTT(30), Zenon, <1>3, <1>4


(***************************************************************************)
(* Every step of the schedule keeps the invariant.                         *)
(***************************************************************************)
LEMMA ManualStep == ManualInv /\ [Manual!Next]_manualVars => ManualInv'
<1> SUFFICES ASSUME ManualInv, [Manual!Next]_manualVars PROVE ManualInv'
  OBVIOUS
<1> DEFINE n == Cardinality(notified)
<1>1. /\ permit \in BOOLEAN /\ Queue(Caller, waiting)
      /\ notified \subseteq Caller \ Members(waiting) /\ IsFiniteSet(notified)
      /\ permit => waiting = <<>>
  BY DEF ManualInv
<1>2. /\ fires \in 0..MaxFires /\ ticks \in Nat /\ merged \in Nat /\ MaxFires \in Nat
      /\ fires = ticks + n + Stored + merged
  BY ManualAssumption DEF ManualInv
<1>3. n \in Nat /\ Stored \in {0, 1}
  BY <1>1, FS_CardinalityType DEF Stored
<1>4. ASSUME NEW t \in Caller, Manual!CallTick(t) PROVE ManualInv'
  <2>1. /\ t \notin Members(waiting) /\ t \notin notified
        /\ notified' = notified /\ fires' = fires /\ merged' = merged
    BY <1>4 DEF Manual!CallTick, Manual!Range, Members
  <2>2. CASE permit
    <3>1. permit' = FALSE /\ ticks' = ticks + 1 /\ waiting' = waiting
      BY <1>4, <2>2 DEF Manual!CallTick
    <3>2. Stored = 1 /\ Stored' = 0
      BY <2>2, <3>1 DEF Stored
    <3>3. fires' = ticks' + Cardinality(notified') + Stored' + merged' /\ ticks' \in Nat
      BY SMTT(30), Zenon, <1>2, <1>3, <2>1, <3>1, <3>2
    <3>4. QED
      BY Zenon, <1>1, <1>2, <2>1, <3>1, <3>3 DEF ManualInv
  <2>3. CASE ~permit
    <3>1. permit' = permit /\ ticks' = ticks /\ waiting' = Append(waiting, t)
      BY <1>4, <2>3 DEF Manual!CallTick
    <3>2. Stored' = Stored
      BY <3>1 DEF Stored
    <3>3. fires' = ticks' + Cardinality(notified') + Stored' + merged'
      BY SMTT(30), Zenon, <1>2, <2>1, <3>1, <3>2
    <3>4. Queue(Caller, waiting') /\ Members(waiting') = Members(waiting) \cup {t}
      BY SMTT(30), Zenon, <1>1, <2>1, <3>1, QueueAppend
    <3>5. notified' \subseteq Caller \ Members(waiting')
      BY <1>1, <2>1, <3>4
    <3>6. permit' \in BOOLEAN /\ (permit' => waiting' = <<>>)
      BY SMTT(30), Zenon, <1>1, <2>3, <3>1
    <3>7. QED
      BY SMTT(30), Zenon, <1>1, <1>2, <2>1, <3>1, <3>3, <3>4, <3>5, <3>6 DEF ManualInv
  <2>4. QED
    BY SMTT(30), Zenon, <2>2, <2>3
<1>5. ASSUME NEW t \in Caller, Manual!Poll(t) PROVE ManualInv'
  <2>1. /\ t \in notified /\ notified' = notified \ {t} /\ ticks' = ticks + 1
        /\ permit' = permit /\ waiting' = waiting /\ fires' = fires /\ merged' = merged
    BY <1>5 DEF Manual!Poll
  <2>2. IsFiniteSet(notified') /\ Cardinality(notified') = n - 1
    BY <1>1, <2>1, FS_RemoveElement
  <2>3. Stored' = Stored
    BY <2>1 DEF Stored
  <2>4. fires' = ticks' + Cardinality(notified') + Stored' + merged' /\ ticks' \in Nat
    BY SMTT(30), Zenon, <1>2, <1>3, <2>1, <2>2, <2>3
  <2>5. notified' \subseteq Caller \ Members(waiting')
    BY <1>1, <2>1
  <2>6. QED
    BY SMTT(30), Zenon, <1>1, <1>2, <2>1, <2>2, <2>4, <2>5 DEF ManualInv
<1>6. ASSUME NEW t \in Caller, Manual!Drop(t) PROVE ManualInv'
  <2>1. fires' = fires /\ ticks' = ticks
    BY SMTT(30), Zenon, <1>6 DEF Manual!Drop
  <2>2. CASE /\ \E i \in DOMAIN waiting :
                    waiting' = SubSeq(waiting, 1, i - 1) \o SubSeq(waiting, i + 1, Len(waiting))
             /\ permit' = permit /\ notified' = notified /\ merged' = merged
    <3>1. PICK i \in DOMAIN waiting :
              waiting' = SubSeq(waiting, 1, i - 1) \o SubSeq(waiting, i + 1, Len(waiting))
      BY Zenon, <2>2
    <3>2. Queue(Caller, waiting') /\ Members(waiting') \subseteq Members(waiting)
      BY <1>1, <3>1, QueueRemove
    <3>3. waiting # <<>>
      BY <3>1
    <3>4. permit' = FALSE /\ Stored' = Stored
      BY SMTT(30), Zenon, <1>1, <2>2, <3>3 DEF Stored
    <3>5. fires' = ticks' + Cardinality(notified') + Stored' + merged'
      BY SMTT(30), Zenon, <1>2, <2>1, <2>2, <3>4
    <3>6. notified' \subseteq Caller \ Members(waiting')
      BY SMTT(30), Zenon, <1>1, <2>2, <3>2
    <3>7. QED
      BY SMTT(30), Zenon, <1>1, <1>2, <2>1, <2>2, <3>2, <3>4, <3>5, <3>6 DEF ManualInv
  <2>3. CASE t \in notified /\ Manual!NotifyOne(waiting, notified \ {t})
    <3> DEFINE m == Cardinality(notified \ {t})
    <3>1. /\ permit' \in BOOLEAN /\ Queue(Caller, waiting') /\ merged' \in Nat
          /\ notified' \subseteq Caller \ Members(waiting') /\ IsFiniteSet(notified')
          /\ permit' => waiting' = <<>>
          /\ Cardinality(notified') \in Nat /\ m \in Nat
          /\ Cardinality(notified') + Stored' + merged' = m + Stored + merged + 1
      <4>1. notified \ {t} \in SUBSET notified
        OBVIOUS
      <4>2. QED
        BY <2>3, <4>1, NotifyKeeps
    <3>2. m = n - 1
      BY Zenon, <1>1, <2>3, FS_RemoveElement
    <3> HIDE DEF m, n
    <3>3. Stored' \in {0, 1}
      BY <3>1 DEF Stored
    <3>4. merged' \in Nat /\ Cardinality(notified') \in Nat /\ m \in Nat
      BY <3>1
    <3>5. Cardinality(notified') + Stored' + merged' = n + Stored + merged
      <4>1. Cardinality(notified') + Stored' + merged' = m + Stored + merged + 1
        BY <3>1
      <4>2. QED
        BY SMTT(30), Zenon, <1>2, <1>3, <3>2, <3>3, <3>4, <4>1
    <3>6. fires' = ticks' + Cardinality(notified') + Stored' + merged'
      <4>1. /\ Stored \in Nat /\ Stored' \in Nat /\ n \in Nat
            /\ ticks \in Nat /\ merged \in Nat /\ fires \in Nat
        BY SMTT(30), Zenon, <1>2, <1>3, <3>3
      <4>2. fires = ticks + (n + Stored + merged)
        BY <1>2, <4>1
      <4>3. fires = ticks + (Cardinality(notified') + Stored' + merged')
        BY <3>5, <4>2
      <4>4. fires = ticks + Cardinality(notified') + Stored' + merged'
        BY SMTT(30), Zenon, <3>4, <4>1, <4>3
      <4>5. QED
        BY <2>1, <4>4
    <3>7. /\ permit' \in BOOLEAN /\ Queue(Caller, waiting') /\ IsFiniteSet(notified')
          /\ notified' \subseteq Caller \ Members(waiting') /\ (permit' => waiting' = <<>>)
      BY <3>1
    <3>8. fires' \in 0..MaxFires /\ ticks' \in Nat
      BY SMTT(30), Zenon, <1>2, <2>1
    <3>9. QED
      BY SMTT(30), Zenon, <3>4, <3>6, <3>7, <3>8 DEF ManualInv
  <2>4. QED
    BY Zenon, <1>6, <2>2, <2>3 DEF Manual!Drop, Manual!Without
<1>7. CASE Manual!Fire
  <2>1. fires < MaxFires /\ fires' = fires + 1 /\ ticks' = ticks
    BY <1>7 DEF Manual!Fire
  <2>2. /\ permit' \in BOOLEAN /\ Queue(Caller, waiting') /\ merged' \in Nat
        /\ notified' \subseteq Caller \ Members(waiting') /\ IsFiniteSet(notified')
        /\ permit' => waiting' = <<>>
        /\ Cardinality(notified') \in Nat
        /\ Cardinality(notified') + Stored' + merged' = n + Stored + merged + 1
    BY SMTT(30), Zenon, <1>7, NotifyKeeps DEF Manual!Fire
  <2> HIDE DEF n
  <2>3. Stored' \in {0, 1}
    BY SMTT(30), Zenon, <2>2 DEF Stored
  <2>4. fires' = ticks' + Cardinality(notified') + Stored' + merged' /\ fires' \in 0..MaxFires
    BY SMTT(30), Zenon, <1>2, <1>3, <2>1, <2>2, <2>3
  <2>5. QED
    BY SMTT(30), Zenon, <1>2, <2>1, <2>2, <2>4 DEF ManualInv
<1>8. CASE UNCHANGED manualVars
  BY <1>8 DEF manualVars, ManualInv, Stored
<1>9. QED
  BY SMTT(30), Zenon, <1>4, <1>5, <1>6, <1>7, <1>8 DEF Manual!Next

(***************************************************************************)
(* What the invariant says of the schedule.                                *)
(***************************************************************************)
LEMMA ManualSafe == ManualInv => Manual!TypeOK /\ NoFireLost
<1> SUFFICES ASSUME ManualInv PROVE Manual!TypeOK /\ NoFireLost
  OBVIOUS
<1> DEFINE n == Cardinality(notified)
<1>1. n \in Nat /\ Stored \in {0, 1} /\ MaxFires \in Nat
  BY FS_CardinalityType, ManualAssumption DEF ManualInv, Stored
<1>2. fires \in 0..MaxFires /\ ticks \in Nat /\ merged \in Nat /\ fires = ticks + n + Stored + merged
  BY DEF ManualInv
<1>3. ticks \in 0..MaxFires /\ merged \in 0..MaxFires
  <2> HIDE DEF n
  <2>1. QED
    BY <1>1, <1>2
<1>4. Manual!IsInjective(waiting) /\ waiting \in Seq(Caller) /\ Manual!Range(waiting) = Members(waiting)
  BY DEF ManualInv, Queue, Members, Manual!IsInjective, Manual!Range
<1>5. Manual!TypeOK
  BY <1>3, <1>4 DEF Manual!TypeOK, ManualInv
<1>6. Manual!PermitMeansNobodyWaits /\ Manual!FiresAccounted
  <2>1. Manual!Cardinality(notified) = Cardinality(notified)
    BY DEF Manual!Cardinality, Cardinality
  <2>2. QED
    BY SMTT(30), Zenon, <1>2, <2>1
       DEF ManualInv, Stored, Manual!PermitMeansNobodyWaits,
           Manual!FiresAccounted
<1>7. QED
  BY <1>5, <1>6 DEF NoFireLost

-----------------------------------------------------------------------------
(***************************************************************************)
(* The components together.                                                *)
(***************************************************************************)
TimersInv == CtxInv /\ IntervalInv /\ ManualInv /\ JoinInv /\ WaitInv

(***************************************************************************)
(* A step is one of one component and leaves the others as they are.       *)
(***************************************************************************)
LEMMA OneSteps ==
    ASSUME [TimersNext]_allVars
    PROVE  /\ [Next]_vars /\ [Interval!Next]_intervalVars /\ [Manual!Next]_manualVars
           /\ [Joins!Next]_joinVars /\ [Waits!Next]_waitVars
<1>1. CASE UNCHANGED allVars
  BY SMTT(30), Zenon, <1>1 DEF allVars
<1>2. CASE TimersNext
  BY <1>2 DEF TimersNext
<1>3. QED
  BY <1>1, <1>2

(***************************************************************************)
(* The invariants of the five components hold in every state of every      *)
(* behaviour, for any contexts, callers, periods, budgets and timeouts.    *)
(***************************************************************************)
THEOREM TimersInvariant == TimersSpec => []TimersInv
<1>1. TimersInit => TimersInv
  BY SMTT(30), Zenon, InitInv, IntervalInit, ManualInit, JoinInit, WaitInit
     DEF TimersInit, TimersInv
<1>2. TimersInv /\ [TimersNext]_allVars => TimersInv'
  BY SMTT(30), Zenon, OneSteps, NextInv, IntervalStep, ManualStep, JoinStep, WaitStep
     DEF TimersInv
<1>3. QED
  BY <1>1, <1>2, PTL DEF TimersSpec

(***************************************************************************)
(* The types of all components, with what they say of the code: no budget  *)
(* in join_all_with_timeout underflows, no caller of tick is queued twice, *)
(* no deadline lies before the start.                                      *)
(***************************************************************************)
THEOREM TimersTypeCorrect == TimersSpec => []TimersTypeOK
<1>1. TimersInv => TimersTypeOK
  BY SMTT(30), Zenon, IntervalSafe, ManualSafe, JoinSafe, WaitSafe
     DEF TimersInv, CtxInv, TimersTypeOK
<1>2. QED
  BY <1>1, TimersInvariant, PTL

(***************************************************************************)
(* ManualRepairSchedule: for any callers and any number of fires, a fire   *)
(* is never lost and nobody waits while a permit is stored, although a     *)
(* task may be dropped between its notification and its next poll.         *)
(***************************************************************************)
THEOREM NoFireIsLost == TimersSpec => []NoFireLost
<1>1. TimersInv => NoFireLost
  BY ManualSafe DEF TimersInv
<1>2. QED
  BY <1>1, TimersInvariant, PTL

(***************************************************************************)
(* join_all_with_timeout and wait_until return Ok only when it is so, for  *)
(* any number of threads and calls, and any timeout.                       *)
(***************************************************************************)
THEOREM VerdictsTrue == TimersSpec => []VerdictsAreTrue
<1>1. TimersInv => VerdictsAreTrue
  BY SMTT(30), Zenon, JoinSafe, WaitSafe DEF TimersInv, VerdictsAreTrue
<1>2. QED
  BY <1>1, TimersInvariant, PTL

(***************************************************************************)
(* join_all_with_timeout waits no longer than its budget and leaves at     *)
(* most one helper thread behind, for any number of threads.               *)
(***************************************************************************)
THEOREM JoinBounded == TimersSpec => []JoinIsBounded
<1>1. TimersInv => JoinIsBounded
  BY JoinSafe DEF TimersInv
<1>2. QED
  BY <1>1, TimersInvariant, PTL

(***************************************************************************)
(* TokioRepairSchedule fires at most once in a period and keeps to its     *)
(* multiples, for any period, any number of callers and any delay.         *)
(***************************************************************************)
THEOREM ScheduleKept == TimersSpec => KeepsSchedule
<1>1. IntervalInv => Interval!KeepsCadence
  BY IntervalSafe
<1>2. TimersInv => IntervalInv
  BY DEF TimersInv
<1>3. TimersInv /\ Interval!KeepsCadence' => [(Interval!Tick => open) /\ Interval!KeepsCadence']_intervalVars
  BY <1>2, IntervalSafe
<1>4. QED
  BY <1>1, <1>2, <1>3, TimersInvariant, PTL DEF TimersSpec, KeepsSchedule
=============================================================================

----------------------------- MODULE ThreadJoin -----------------------------
(***************************************************************************)
(* join_all_with_timeout and join_with_timeout                             *)
(* (src/core/testutil/fixtures.rs): the caller joins its threads one after *)
(* the other, each through a helper thread that blocks in join and sends   *)
(* the outcome to the caller, which waits for it at most for what is left  *)
(* of one budget.                                                          *)
(***************************************************************************)
EXTENDS Integers, FiniteSets

CONSTANTS
    Handles,    \* the number of threads
    Timeout,    \* the budget
    MaxTime,    \* bound on the time that passes while the caller is not waiting
    None

VARIABLES
    now,        \* time since join_all_with_timeout was called
    worker,     \* worker[h]: what thread h has come to
    helper,     \* helper[h]: the helper thread that joins h
    chan,       \* chan[h]: the outcome sent to the caller, not yet received
    pc, next,   \* where the caller is, and the handle it is at
    remaining,  \* what the caller allows the handle it is at
    deadline,   \* when its recv_timeout gives up
    got,        \* the outcome it received
    waited      \* the time it has spent in recv_timeout

vars == <<now, worker, helper, chan, pc, next, remaining, deadline, got, waited>>
caller == <<pc, next, remaining, deadline, got>>

Handle  == 1..Handles
Outcome == {"ok", "panicked"}
Result == {"Ok", "timeout", "thread_panicked", "thread_timed_out"}

Init ==
    /\ now = 0 /\ waited = 0
    /\ worker = [h \in Handle |-> "running"]
    /\ helper = [h \in Handle |-> "none"]
    /\ chan = [h \in Handle |-> None]
    /\ pc = "loop" /\ next = 1
    /\ remaining = 0 /\ deadline = 0 /\ got = None

-----------------------------------------------------------------------------
(***************************************************************************)
(* The threads that are joined; one may never end.                         *)
(***************************************************************************)
WorkerEnds(h) ==
    /\ worker[h] = "running"
    /\ \E o \in Outcome : worker' = [worker EXCEPT ![h] = o]
    /\ UNCHANGED <<now, helper, chan, caller, waited>>

(***************************************************************************)
(* The helper's join returns and its send is stored, unless the receiver   *)
(* is gone; then the helper ends.                                          *)
(***************************************************************************)
HelperSends(h) ==
    /\ helper[h] = "joining" /\ worker[h] # "running"
    /\ helper' = [helper EXCEPT ![h] = "sent"]
    /\ chan' = IF pc \in {"spawned", "recv"} /\ next = h
               THEN [chan EXCEPT ![h] = worker[h]] ELSE chan
    /\ UNCHANGED <<now, worker, caller, waited>>

HelperExits(h) ==
    /\ helper[h] = "sent"
    /\ helper' = [helper EXCEPT ![h] = "exited"]
    /\ UNCHANGED <<now, worker, chan, caller, waited>>

-----------------------------------------------------------------------------
(***************************************************************************)
(* The head of the loop: the budget is spent, or what is left of it is     *)
(* what this handle gets, or no handle is left.  The faulty head gives     *)
(* every handle the whole budget.                                          *)
(***************************************************************************)
NextHandle_WholeBudget ==
    /\ pc = "loop"
    /\ IF next > Handles THEN pc' = "Ok" /\ UNCHANGED remaining
       ELSE pc' = "spawn" /\ remaining' = Timeout
    /\ UNCHANGED <<now, worker, helper, chan, next, deadline, got, waited>>

NextHandle ==
    /\ pc = "loop"
    /\ IF next > Handles THEN pc' = "Ok" /\ UNCHANGED remaining
       ELSE IF now >= Timeout THEN pc' = "timeout" /\ UNCHANGED remaining
       ELSE pc' = "spawn" /\ remaining' = Timeout - now
    /\ UNCHANGED <<now, worker, helper, chan, next, deadline, got, waited>>

SpawnHelper ==
    /\ pc = "spawn"
    /\ helper' = [helper EXCEPT ![next] = "joining"]
    /\ pc' = "spawned"
    /\ UNCHANGED <<now, worker, chan, next, remaining, deadline, got, waited>>

CallRecv ==
    /\ pc = "spawned"
    /\ pc' = "recv" /\ deadline' = now + remaining
    /\ UNCHANGED <<now, worker, helper, chan, next, remaining, got, waited>>

Receive ==
    /\ pc = "recv" /\ chan[next] # None
    /\ got' = chan[next]
    /\ chan' = [chan EXCEPT ![next] = None]
    /\ pc' = "received"
    /\ UNCHANGED <<now, worker, helper, next, remaining, deadline, waited>>

(***************************************************************************)
(* Faulty wait: recv instead of recv_timeout.                              *)
(***************************************************************************)
GiveUp_Never == FALSE /\ UNCHANGED vars

GiveUp ==
    /\ pc = "recv" /\ chan[next] = None /\ now >= deadline
    /\ pc' = "thread_timed_out"
    /\ UNCHANGED <<now, worker, helper, chan, next, remaining, deadline, got, waited>>

(***************************************************************************)
(* Faulty end of a join: a panic counts as an end like any other.          *)
(***************************************************************************)
Reap_IgnoresPanic ==
    /\ pc = "received" /\ helper[next] = "exited"
    /\ pc' = "loop" /\ next' = next + 1
    /\ UNCHANGED <<now, worker, helper, chan, remaining, deadline, got, waited>>

(***************************************************************************)
(* The caller joins the helper and looks at the outcome.                   *)
(***************************************************************************)
Reap ==
    /\ pc = "received" /\ helper[next] = "exited"
    /\ IF got = "ok" THEN pc' = "loop" /\ next' = next + 1
       ELSE pc' = "thread_panicked" /\ UNCHANGED next
    /\ UNCHANGED <<now, worker, helper, chan, remaining, deadline, got, waited>>

(***************************************************************************)
(* The clock.  recv_timeout is woken when its time has come, not later;    *)
(* everything else the caller does may be slow.                            *)
(***************************************************************************)
Tick ==
    /\ pc \notin Result
    /\ IF pc = "recv" THEN now < deadline ELSE now < MaxTime
    /\ now' = now + 1
    /\ waited' = IF pc = "recv" THEN waited + 1 ELSE waited
    /\ UNCHANGED <<worker, helper, chan, caller>>

CallerStep == NextHandle \/ SpawnHelper \/ CallRecv \/ Receive \/ GiveUp \/ Reap

Next ==
    \/ \E h \in Handle : WorkerEnds(h) \/ HelperSends(h) \/ HelperExits(h)
    \/ CallerStep
    \/ Tick

Spec == Init /\ [][Next]_vars

(***************************************************************************)
(* The scheduler runs the caller and the helpers and time passes; nothing  *)
(* is assumed of the threads that are joined.                              *)
(***************************************************************************)
FairSpec ==
    /\ Spec
    /\ WF_vars(CallerStep)
    /\ WF_vars(Tick)
    /\ \A h \in Handle : WF_vars(HelperSends(h)) /\ WF_vars(HelperExits(h))

-----------------------------------------------------------------------------
(***************************************************************************)
(* The types; what is left of the budget is never negative, so the         *)
(* subtraction of durations in join_all_with_timeout does not underflow.   *)
(***************************************************************************)
TypeOK ==
    /\ now \in Nat /\ waited \in Nat
    /\ worker \in [Handle -> Outcome \cup {"running"}]
    /\ helper \in [Handle -> {"none", "joining", "sent", "exited"}]
    /\ chan \in [Handle -> Outcome \cup {None}]
    /\ pc \in {"loop", "spawn", "spawned", "recv", "received"} \cup Result
    /\ next \in 1..(Handles + 1)
    /\ remaining \in 0..Timeout /\ deadline \in Nat
    /\ got \in Outcome \cup {None}

(***************************************************************************)
(* join_all_with_timeout returns Ok only if every thread ended, and ended  *)
(* without a panic.                                                        *)
(***************************************************************************)
OkMeansAllEnded == pc = "Ok" => \A h \in Handle : worker[h] = "ok"

(***************************************************************************)
(* "The timeout is a global budget across all handles": however many       *)
(* threads there are, join_all_with_timeout waits no longer than that.     *)
(***************************************************************************)
BudgetIsGlobal == waited <= Timeout

(***************************************************************************)
(* join_with_timeout leaves at most the helper of the thread it gave up on *)
(* behind, so a run of the tests leaks one thread per timed-out call.      *)
(***************************************************************************)
OneHelperAtATime ==
    Cardinality({h \in Handle : helper[h] \in {"joining", "sent"}}) <= 1

(***************************************************************************)
(* join_all_with_timeout returns although a thread never ends.             *)
(***************************************************************************)
JoinAllReturns == <>(pc \in Result)
=============================================================================

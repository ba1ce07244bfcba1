------------------------------ MODULE WaitUntil ------------------------------
(***************************************************************************)
(* wait_until (src/core/testutil/fixtures.rs): a blocking task checks a    *)
(* condition until it holds and reports over a oneshot, while the caller   *)
(* waits for the report at most for a timeout and then aborts the task.    *)
(* The calls share the threads of the runtime's blocking pool, and abort   *)
(* only takes a task that has not started.                                 *)
(***************************************************************************)
EXTENDS Integers, FiniteSets

CONSTANTS
    Call,       \* calls of wait_until
    Timeout,    \* the timeout of each
    Threads,    \* threads of the blocking pool (512 by default)
    MaxTime,    \* bound on the time at which calls begin
    None

VARIABLES
    now,
    holds,      \* holds[c]: what the condition of c would return now
    task,       \* task[c]: the blocking task of c
    chan,       \* chan[c]: what is in the oneshot
    deadline,   \* deadline[c]: when c gives up, None before the call
    result,     \* result[c]: what c returned, None before
    seen        \* seen[c]: a check of c's condition returned true

vars == <<now, holds, task, chan, deadline, result, seen>>

Init ==
    /\ now = 0
    /\ holds = [c \in Call |-> FALSE]
    /\ task = [c \in Call |-> "none"]
    /\ chan = [c \in Call |-> None]
    /\ deadline = [c \in Call |-> None]
    /\ result = [c \in Call |-> None]
    /\ seen = [c \in Call |-> FALSE]

Waiting(c) == deadline[c] # None /\ result[c] = None

-----------------------------------------------------------------------------
WaitUntilCall(c) ==
    /\ deadline[c] = None /\ now <= MaxTime
    /\ task' = [task EXCEPT ![c] = "queued"]
    /\ deadline' = [deadline EXCEPT ![c] = now + Timeout]
    /\ UNCHANGED <<now, holds, chan, result, seen>>

(***************************************************************************)
(* The blocking pool runs a queued task when a thread is free.             *)
(***************************************************************************)
StartTask(c) ==
    /\ task[c] = "queued"
    /\ Cardinality({x \in Call : task[x] = "polling"}) < Threads
    /\ task' = [task EXCEPT ![c] = "polling"]
    /\ UNCHANGED <<now, holds, chan, deadline, result, seen>>

(***************************************************************************)
(* A check that finds the condition true: it is reported, unless the       *)
(* caller is gone, and the task ends.  A check that does not leaves        *)
(* everything as it is.                                                    *)
(***************************************************************************)
Check(c) ==
    /\ task[c] = "polling" /\ holds[c]
    /\ task' = [task EXCEPT ![c] = "done"]
    /\ seen' = [seen EXCEPT ![c] = TRUE]
    /\ chan' = [chan EXCEPT ![c] = IF result[c] = None THEN "Ok" ELSE None]
    /\ UNCHANGED <<now, holds, deadline, result>>

(***************************************************************************)
(* The condition panics: the task ends and the sender is dropped.          *)
(***************************************************************************)
CheckPanics(c) ==
    /\ task[c] = "polling"
    /\ task' = [task EXCEPT ![c] = "done"]
    /\ chan' = [chan EXCEPT ![c] = IF result[c] = None THEN "closed" ELSE None]
    /\ UNCHANGED <<now, holds, deadline, result, seen>>

(***************************************************************************)
(* The caller returns r, and aborts the task: a queued one never runs.     *)
(***************************************************************************)
Return(c, r) ==
    /\ result' = [result EXCEPT ![c] = r]
    /\ task' = [task EXCEPT ![c] = IF @ = "queued" THEN "aborted" ELSE @]
    /\ chan' = [chan EXCEPT ![c] = None]
    /\ UNCHANGED <<now, holds, deadline, seen>>

(***************************************************************************)
(* timeout looks at the receiver first and at the clock second.            *)
(***************************************************************************)
Resume(c) ==
    /\ Waiting(c)
    /\ \/ chan[c] = "Ok" /\ Return(c, "Ok")
       \/ chan[c] = "closed" /\ Return(c, "channel_closed")
       \/ chan[c] = None /\ now >= deadline[c] /\ Return(c, "not_met")

(***************************************************************************)
(* The world the conditions look at, and the clock.                        *)
(***************************************************************************)
Change(c) ==
    /\ holds' = [holds EXCEPT ![c] = ~@]
    /\ UNCHANGED <<now, task, chan, deadline, result, seen>>

Tick ==
    /\ now < MaxTime + Timeout
    /\ now' = now + 1
    /\ UNCHANGED <<holds, task, chan, deadline, result, seen>>

Next ==
    \/ \E c \in Call : \/ WaitUntilCall(c) \/ StartTask(c) \/ Check(c)
                       \/ CheckPanics(c) \/ Resume(c) \/ Change(c)
    \/ Tick

Spec == Init /\ [][Next]_vars

(***************************************************************************)
(* The runtime resumes callers and starts tasks, the polling threads run,  *)
(* and time passes; nothing is assumed of the conditions.                  *)
(***************************************************************************)
FairSpec ==
    /\ Spec
    /\ \A c \in Call : WF_vars(Resume(c)) /\ WF_vars(StartTask(c)) /\ WF_vars(Check(c))
    /\ WF_vars(Tick)

-----------------------------------------------------------------------------
(***************************************************************************)
(* The types; wait_until returns Ok or one of its two errors.              *)
(***************************************************************************)
TypeOK ==
    /\ now \in 0..(MaxTime + Timeout)
    /\ holds \in [Call -> BOOLEAN] /\ seen \in [Call -> BOOLEAN]
    /\ task \in [Call -> {"none", "queued", "polling", "done", "aborted"}]
    /\ chan \in [Call -> {None, "Ok", "closed"}]
    /\ deadline \in [Call -> 0..(MaxTime + Timeout) \cup {None}]
    /\ result \in [Call -> {None, "Ok", "channel_closed", "not_met"}]

(***************************************************************************)
(* wait_until returns Ok only if a check found the condition true, and     *)
(* "not met" only when the timeout has passed.                             *)
(***************************************************************************)
ResultIsTrue ==
    \A c \in Call : /\ result[c] = "Ok" => seen[c]
                    /\ result[c] = "not_met" => now >= deadline[c]

(***************************************************************************)
(* wait_until returns, even when the blocking pool has no thread for its   *)
(* task or its condition never holds.                                      *)
(***************************************************************************)
EveryWaitReturns == \A c \in Call : deadline[c] # None ~> result[c] # None
=============================================================================

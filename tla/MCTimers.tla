------------------------------ MODULE MCTimers ------------------------------
(***************************************************************************)
(* The components that run against a clock, for TLC: contexts, the two     *)
(* repair schedules, and the test helpers that join threads and wait for a *)
(* condition.  They share no state, so a behaviour is one of one of them,  *)
(* chosen at the start, while the others stay as they were created.        *)
(***************************************************************************)
EXTENDS Context, TLC

CONSTANTS
    Caller,             \* callers of tick()
    Period, MaxLate,    \* of the interval
    MaxFires,           \* of the manual schedule
    Handles, Budget, JoinTime,
    Call, WaitTime, Threads, CallTime

(***************************************************************************)
(* tokio panics when an interval is created with a period of zero.  None   *)
(* is none of the results a component may store.                           *)
(***************************************************************************)
ASSUME IntervalAssumption == Period \in Nat \ {0} /\ MaxLate \in Nat
ASSUME ManualAssumption   == MaxFires \in Nat
ASSUME JoinsAssumption    ==
    /\ Handles \in Nat /\ Budget \in Nat /\ JoinTime \in Nat
    /\ None \notin {"ok", "panicked"}
ASSUME WaitsAssumption    ==
    /\ WaitTime \in Nat /\ CallTime \in Nat
    /\ None \notin {"closed", "channel_closed", "not_met"}

VARIABLES
    running,            \* the component of this behaviour
    phase, due, queue, open,
    permit, waiting, notified, fires, ticks, merged,
    joinNow, worker, helper, outcome, pc, next, remaining, joinDeadline, got, waited,
    waitNow, holds, poller, report, waitDeadline, returned, seen

Interval == INSTANCE TokioRepairSchedule WITH Task <- Caller
Manual   == INSTANCE ManualRepairSchedule WITH Task <- Caller
Joins    == INSTANCE ThreadJoin WITH
                Timeout <- Budget, MaxTime <- JoinTime,
                now <- joinNow, chan <- outcome, deadline <- joinDeadline
Waits    == INSTANCE WaitUntil WITH
                Timeout <- WaitTime, MaxTime <- CallTime, now <- waitNow, task <- poller,
                chan <- report, deadline <- waitDeadline, result <- returned

intervalVars == <<phase, due, queue, open>>
manualVars   == <<permit, waiting, notified, fires, ticks, merged>>
joinVars     == <<joinNow, worker, helper, outcome, pc, next, remaining, joinDeadline, got, waited>>
waitVars     == <<waitNow, holds, poller, report, waitDeadline, returned, seen>>

allVars == <<running, vars, intervalVars, manualVars, joinVars, waitVars>>

-----------------------------------------------------------------------------
TimersInit ==
    /\ running \in {"context", "interval", "manual", "joins", "waits"}
    /\ Init /\ Interval!Init /\ Manual!Init /\ Joins!Init /\ Waits!Init

TimersNext ==
    /\ UNCHANGED running
    /\ \/ running = "context" /\ Next
          /\ UNCHANGED <<intervalVars, manualVars, joinVars, waitVars>>
       \/ running = "interval" /\ Interval!Next
          /\ UNCHANGED <<vars, manualVars, joinVars, waitVars>>
       \/ running = "manual" /\ Manual!Next
          /\ UNCHANGED <<vars, intervalVars, joinVars, waitVars>>
       \/ running = "joins" /\ Joins!Next
          /\ UNCHANGED <<vars, intervalVars, manualVars, waitVars>>
       \/ running = "waits" /\ Waits!Next
          /\ UNCHANGED <<vars, intervalVars, manualVars, joinVars>>

(***************************************************************************)
(* The fairness of the component that runs.                                *)
(***************************************************************************)
TimersSpec ==
    /\ TimersInit /\ [][TimersNext]_allVars
    /\ WF_vars(running = "context" /\ Tick)
    /\ \A t \in Task : /\ WF_vars(running = "context" /\ EnterSelect(t))
                       /\ WF_vars(running = "context" /\ Poll(t))
    /\ WF_intervalVars(running = "interval" /\ Interval!Tick)
    /\ WF_intervalVars(running = "interval" /\ Interval!Clock)
    /\ WF_joinVars(running = "joins" /\ Joins!CallerStep)
    /\ WF_joinVars(running = "joins" /\ Joins!Tick)
    /\ \A h \in Joins!Handle : /\ WF_joinVars(running = "joins" /\ Joins!HelperSends(h))
                               /\ WF_joinVars(running = "joins" /\ Joins!HelperExits(h))
    /\ \A c \in Call : /\ WF_waitVars(running = "waits" /\ Waits!Resume(c))
                       /\ WF_waitVars(running = "waits" /\ Waits!StartTask(c))
                       /\ WF_waitVars(running = "waits" /\ Waits!Check(c))
    /\ WF_waitVars(running = "waits" /\ Waits!Tick)

-----------------------------------------------------------------------------
(***************************************************************************)
(* Every component keeps its types: no deadline before the start, no       *)
(* negative remainder of a budget, no task queued twice, no result but the *)
(* documented ones.                                                        *)
(***************************************************************************)
TimersTypeOK ==
    TypeOK /\ Interval!TypeOK /\ Manual!TypeOK /\ Joins!TypeOK /\ Waits!TypeOK

(***************************************************************************)
(* TokioRepairSchedule: missed ticks are skipped, not fired back to back,  *)
(* and after any delay the deadlines are multiples of the period.          *)
(***************************************************************************)
KeepsSchedule == [][(Interval!Tick => open) /\ Interval!KeepsCadence']_intervalVars

(***************************************************************************)
(* ManualRepairSchedule: no task waits while a permit is stored, and every *)
(* fire is a tick, pending, stored or merged, so no wake-up is lost.       *)
(***************************************************************************)
NoFireLost == Manual!PermitMeansNobodyWaits /\ Manual!FiresAccounted

(***************************************************************************)
(* join_all_with_timeout returns Ok only if every thread ended without a   *)
(* panic, and wait_until only if a check found the condition true; it says *)
(* that the condition was not met only when the timeout has passed.        *)
(***************************************************************************)
VerdictsAreTrue == Joins!OkMeansAllEnded /\ Waits!ResultIsTrue

(***************************************************************************)
(* join_all_with_timeout: all waits together stay within one budget, and   *)
(* at most one helper thread is left behind.                               *)
(***************************************************************************)
JoinIsBounded == Joins!BudgetIsGlobal /\ Joins!OneHelperAtATime

(***************************************************************************)
(* Whoever waits is served or gives up: a caller of tick in a queue of     *)
(* others, join_all_with_timeout on a thread that never ends, wait_until   *)
(* on a busy blocking pool or a condition that never holds.                *)
(***************************************************************************)
EveryWaitEnds ==
    /\ Interval!EveryCallTicks
    /\ running = "joins" => Joins!JoinAllReturns
    /\ Waits!EveryWaitReturns
=============================================================================

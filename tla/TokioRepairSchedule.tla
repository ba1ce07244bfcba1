------------------------ MODULE TokioRepairSchedule ------------------------
(***************************************************************************)
(* The production tick source of repair_schedule.rs: an Interval that      *)
(* skips missed ticks, behind a tokio Mutex that tasks queue for.  Time is *)
(* kept relative to the interval, so it may run for ever.                  *)
(***************************************************************************)
EXTENDS Integers, Sequences, Functions

CONSTANTS
    Task,       \* callers of tick()
    Period,     \* the period of the schedule
    MaxLate     \* how late a tick may become while nobody takes it

VARIABLES
    phase,      \* the time modulo Period
    due,        \* the time until the interval's deadline; negative once missed
    queue,      \* the tasks in tick(); the first holds the lock
    open        \* whether a period has begun since the last tick (history)

vars == <<phase, due, queue, open>>

(***************************************************************************)
(* TokioRepairSchedule::new: the first tick is due at once.                *)
(***************************************************************************)
Init ==
    /\ phase = 0
    /\ due = 0
    /\ queue = <<>>
    /\ open = TRUE

Waiting == Range(queue)

(***************************************************************************)
(* tick() queues for the lock; it holds it across the await of the tick.   *)
(***************************************************************************)
CallTick(t) ==
    /\ t \notin Waiting
    /\ queue' = Append(queue, t)
    /\ UNCHANGED <<phase, due, open>>

(***************************************************************************)
(* Faulty choice of MissedTickBehavior: Burst.                             *)
(***************************************************************************)
NextDue_Burst == due + Period

(***************************************************************************)
(* MissedTickBehavior::Skip: the next deadline is the next multiple of the *)
(* period.                                                                 *)
(***************************************************************************)
NextDue == Period - ((-due) % Period)

Tick ==
    /\ queue # <<>> /\ due <= 0
    /\ due' = NextDue
    /\ queue' = Tail(queue)
    /\ open' = FALSE
    /\ UNCHANGED phase

(***************************************************************************)
(* The queue when the task at place i has left it.                         *)
(***************************************************************************)
Without(q, i) == SubSeq(q, 1, i - 1) \o SubSeq(q, i + 1, Len(q))

(***************************************************************************)
(* A dropped future leaves the queue, or releases the lock, and takes no   *)
(* tick along.                                                             *)
(***************************************************************************)
Drop(t) ==
    /\ \E i \in DOMAIN queue : queue[i] = t /\ queue' = Without(queue, i)
    /\ UNCHANGED <<phase, due, open>>

Clock ==
    /\ due > -MaxLate
    /\ phase' = (phase + 1) % Period
    /\ due' = due - 1
    /\ open' = (open \/ phase' = 0)
    /\ UNCHANGED queue

Next == (\E t \in Task : CallTick(t) \/ Drop(t)) \/ Tick \/ Clock

Spec == Init /\ [][Next]_vars

(***************************************************************************)
(* Time passes, and tokio polls the task whose tick is due.                *)
(***************************************************************************)
FairSpec == Spec /\ WF_vars(Tick) /\ WF_vars(Clock)

-----------------------------------------------------------------------------
TypeOK ==
    /\ phase \in 0..(Period - 1)
    /\ due \in -MaxLate..Period
    /\ queue \in Seq(Task) /\ IsInjective(queue)
    /\ open \in BOOLEAN

(***************************************************************************)
(* Missed ticks are skipped, not fired back to back: however late a tick   *)
(* is taken, by however many tasks, a period passes at most one tick.      *)
(***************************************************************************)
NoBurst == [][Tick => open]_vars

(***************************************************************************)
(* After any delay the schedule resumes its normal cadence: deadlines are  *)
(* multiples of the period.                                                *)
(***************************************************************************)
KeepsCadence == (phase + due) % Period = 0

(***************************************************************************)
(* The lock is held across the wait for a tick, and still every caller     *)
(* gets one, or gives up, though others call again at once.                *)
(***************************************************************************)
EveryCallTicks == \A t \in Task : t \in Waiting ~> t \notin Waiting
=============================================================================

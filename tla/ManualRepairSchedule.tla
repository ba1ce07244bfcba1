------------------------ MODULE ManualRepairSchedule ------------------------
(***************************************************************************)
(* The tick source that tests fire by hand: a tokio Notify with one permit *)
(* and a queue of waiting tasks.                                           *)
(***************************************************************************)
EXTENDS Integers, Sequences, Functions, FiniteSets

CONSTANTS
    Task,       \* callers of tick()
    MaxFires    \* bound on the calls of fire()

VARIABLES
    permit,     \* the stored permit of the Notify
    waiting,    \* the tasks whose tick() waits, in order
    notified,   \* the tasks that were notified and not polled since
    fires,      \* calls of fire()
    ticks,      \* calls of tick() that returned
    merged      \* notifications that found the permit stored already

vars == <<permit, waiting, notified, fires, ticks, merged>>

(***************************************************************************)
(* ManualRepairSchedule::new.                                              *)
(***************************************************************************)
Init ==
    /\ permit = FALSE /\ waiting = <<>> /\ notified = {}
    /\ fires = 0 /\ ticks = 0 /\ merged = 0

(***************************************************************************)
(* tick(), when it is first polled: it takes the permit or waits.          *)
(***************************************************************************)
CallTick(t) ==
    /\ t \notin Range(waiting) \cup notified
    /\ IF permit
       THEN /\ permit' = FALSE /\ ticks' = ticks + 1
            /\ UNCHANGED waiting
       ELSE /\ waiting' = Append(waiting, t)
            /\ UNCHANGED <<permit, ticks>>
    /\ UNCHANGED <<notified, fires, merged>>

(***************************************************************************)
(* notify_one, given the tasks that wait and those that are notified: it   *)
(* wakes the first that waits, or stores the permit.                       *)
(***************************************************************************)
NotifyOne(queue, woken) ==
    IF queue # <<>>
    THEN /\ waiting' = Tail(queue) /\ notified' = woken \cup {Head(queue)}
         /\ UNCHANGED <<permit, merged>>
    ELSE /\ waiting' = queue /\ notified' = woken
         /\ permit' = TRUE
         /\ merged' = IF permit THEN merged + 1 ELSE merged

Fire ==
    /\ fires < MaxFires
    /\ NotifyOne(waiting, notified)
    /\ fires' = fires + 1
    /\ UNCHANGED ticks

Poll(t) ==
    /\ t \in notified
    /\ notified' = notified \ {t}
    /\ ticks' = ticks + 1
    /\ UNCHANGED <<permit, waiting, fires, merged>>

(***************************************************************************)
(* Faulty drop: the notification goes down with the task.                  *)
(***************************************************************************)
Drop_Loses(t) ==
    /\ t \in Range(waiting) \cup notified
    /\ waiting' = SelectSeq(waiting, LAMBDA u : u # t)
    /\ notified' = notified \ {t}
    /\ UNCHANGED <<permit, fires, ticks, merged>>

(***************************************************************************)
(* The queue when the task at place i has left it.                         *)
(***************************************************************************)
Without(q, i) == SubSeq(q, 1, i - 1) \o SubSeq(q, i + 1, Len(q))

(***************************************************************************)
(* A dropped tick() leaves the queue; a notification it had not seen yet   *)
(* is passed on.                                                           *)
(***************************************************************************)
Drop(t) ==
    /\ \/ /\ \E i \in DOMAIN waiting : waiting[i] = t /\ waiting' = Without(waiting, i)
          /\ UNCHANGED <<permit, notified, merged>>
       \/ /\ t \in notified
          /\ NotifyOne(waiting, notified \ {t})
    /\ UNCHANGED <<fires, ticks>>

Next == (\E t \in Task : CallTick(t) \/ Poll(t) \/ Drop(t)) \/ Fire

Spec == Init /\ [][Next]_vars

-----------------------------------------------------------------------------
TypeOK ==
    /\ permit \in BOOLEAN
    /\ waiting \in Seq(Task) /\ IsInjective(waiting)
    /\ notified \subseteq Task \ Range(waiting)
    /\ fires \in 0..MaxFires /\ ticks \in 0..MaxFires /\ merged \in 0..MaxFires

(***************************************************************************)
(* No wake-up is lost: while a permit is stored, no task waits.            *)
(***************************************************************************)
PermitMeansNobodyWaits == permit => waiting = <<>>

(***************************************************************************)
(* fire() completes exactly one tick(), pending or future, also when the   *)
(* task it woke is dropped before it runs; only permits do not accumulate. *)
(***************************************************************************)
FiresAccounted ==
    fires = ticks + Cardinality(notified) + (IF permit THEN 1 ELSE 0) + merged
=============================================================================

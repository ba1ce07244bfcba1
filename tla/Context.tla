------------------------------ MODULE Context ------------------------------
(***************************************************************************)
(* IrrevocableContext (src/core/context/mod.rs): trees of contexts that    *)
(* are cancelled from the top down and share one deadline, and tasks that  *)
(* run an operation under a context.                                       *)
(*                                                                         *)
(* A clone of a context shares its ContextInner, so a context is one       *)
(* element of Ctx whoever holds it.  above[c] is the chain of `parent`     *)
(* pointers of c, c included; it is empty until c is created.              *)
(***************************************************************************)
EXTENDS Naturals

CONSTANTS
    Ctx,        \* the contexts that may be created
    Task,       \* the tasks that call run or run_or_throw
    Timeouts,   \* durations a caller may pass to with_timeout
    MaxTime,    \* bound on the clock
    None        \* Option::None

ASSUME ContextAssumption ==
    /\ Timeouts \subseteq Nat
    /\ MaxTime \in Nat
    /\ None \notin Nat \cup {"Ok", "Failed", "Cancelled", "DeadlineExceeded"}

VARIABLES
    now,        \* Instant::now()
    above,      \* above[c]: c and the contexts it descends from
    deadline,   \* deadline[c]: ContextInner::deadline
    cancelled,  \* the contexts whose token is cancelled
    asked,      \* the contexts on which cancel() was called
    task        \* task[t]: the latest run of t

vars == <<now, above, deadline, cancelled, asked, task>>

Outcome == {"Ok", "Failed"}

(***************************************************************************)
(* throws: the call is run_or_throw.  op: what the operation has come to,  *)
(* None while it is pending.  pc "checked": between the check of the       *)
(* context and the select!, where nothing is held.                         *)
(***************************************************************************)
Run == [pc     : {"idle", "checked", "racing", "returned", "panicked"},
        ctx    : Ctx \cup {None},
        throws : BOOLEAN,
        op     : Outcome \cup {None},
        result : Outcome \cup {"Cancelled", "DeadlineExceeded", None}]

Idle == [pc |-> "idle", ctx |-> None, throws |-> FALSE, op |-> None,
         result |-> None]

Live == {c \in Ctx : above[c] # {}}

Init ==
    /\ now = 0
    /\ above = [c \in Ctx |-> {}]
    /\ deadline = [c \in Ctx |-> None]
    /\ cancelled = {}
    /\ asked = {}
    /\ task = [t \in Task |-> Idle]

-----------------------------------------------------------------------------
IsDeadlineExceeded(c) == deadline[c] # None /\ now >= deadline[c]

(***************************************************************************)
(* err: why c is unusable, cancellation first; None if it is usable.       *)
(***************************************************************************)
Err(c) == IF c \in cancelled THEN "Cancelled"
          ELSE IF IsDeadlineExceeded(c) THEN "DeadlineExceeded"
          ELSE None

(***************************************************************************)
(* The two root constructors.                                              *)
(***************************************************************************)
New(c) ==
    /\ c \notin Live
    /\ above' = [above EXCEPT ![c] = {c}]
    /\ UNCHANGED <<now, deadline, cancelled, asked, task>>

(***************************************************************************)
(* Faulty root: the time left is computed the wrong way round.             *)
(***************************************************************************)
WithTimeout_Reversed(c, timeout) ==
    /\ c \notin Live
    /\ above' = [above EXCEPT ![c] = {c}]
    /\ deadline' = [deadline EXCEPT ![c] = timeout - now]
    /\ UNCHANGED <<now, cancelled, asked, task>>

WithTimeout(c, timeout) ==
    /\ c \notin Live
    /\ above' = [above EXCEPT ![c] = {c}]
    /\ deadline' = [deadline EXCEPT ![c] = now + timeout]
    /\ UNCHANGED <<now, cancelled, asked, task>>

(***************************************************************************)
(* Faulty child: it gets a token of its own.                               *)
(***************************************************************************)
Child_OwnToken(c, p) ==
    /\ c \notin Live
    /\ p \in Live
    /\ above' = [above EXCEPT ![c] = above[p] \cup {c}]
    /\ deadline' = [deadline EXCEPT ![c] = deadline[p]]
    /\ UNCHANGED <<now, cancelled, asked, task>>

(***************************************************************************)
(* child: a child token of a cancelled token is cancelled from the start.  *)
(***************************************************************************)
Child(c, p) ==
    /\ c \notin Live
    /\ p \in Live
    /\ above' = [above EXCEPT ![c] = above[p] \cup {c}]
    /\ deadline' = [deadline EXCEPT ![c] = deadline[p]]
    /\ cancelled' = IF p \in cancelled THEN cancelled \cup {c} ELSE cancelled
    /\ UNCHANGED <<now, asked, task>>

(***************************************************************************)
(* with_cancel: a child, and the closure that cancels it.                  *)
(***************************************************************************)
WithCancel(c, p) == Child(c, p)

(***************************************************************************)
(* cancel, and the closure of with_cancel: the token and all its           *)
(* descendants.                                                            *)
(***************************************************************************)
Cancel(c) ==
    /\ c \in Live
    /\ cancelled' = cancelled \cup {x \in Ctx : c \in above[x]}
    /\ asked' = asked \cup {c}
    /\ UNCHANGED <<now, above, deadline, task>>

-----------------------------------------------------------------------------
(***************************************************************************)
(* run returns; run_or_throw turns an error into throw_irrecoverable,      *)
(* which climbs to the root context and panics there: the panic unwinds    *)
(* the task that called it.                                                *)
(***************************************************************************)
Finish(r, result) ==
    [r EXCEPT !.result = result,
              !.pc     = IF r.throws /\ result # "Ok" THEN "panicked" ELSE "returned"]

(***************************************************************************)
(* run up to the check: an unusable context ends the call.                 *)
(***************************************************************************)
CallRun(t, c, throws) ==
    LET r == [Idle EXCEPT !.pc = "checked", !.ctx = c, !.throws = throws]
    IN  /\ task[t].pc \in {"idle", "returned"}
        /\ c \in Live
        /\ task' = [task EXCEPT ![t] = IF Err(c) # None THEN Finish(r, Err(c)) ELSE r]
        /\ UNCHANGED <<now, above, deadline, cancelled, asked>>

(***************************************************************************)
(* run enters its select!, whatever became of the context since the check: *)
(* from now on the operation is polled.                                    *)
(***************************************************************************)
EnterSelect(t) ==
    /\ task[t].pc = "checked"
    /\ task' = [task EXCEPT ![t].pc = "racing"]
    /\ UNCHANGED <<now, above, deadline, cancelled, asked>>

(***************************************************************************)
(* The operation under way becomes ready, with a value or an error.        *)
(***************************************************************************)
Complete(t, outcome) ==
    /\ task[t].pc = "racing"
    /\ task[t].op = None
    /\ task' = [task EXCEPT ![t].op = outcome]
    /\ UNCHANGED <<now, above, deadline, cancelled, asked>>

(***************************************************************************)
(* The branches of the select! that are ready.                             *)
(***************************************************************************)
Ready_NoCancel(t) ==
    ({task[t].op} \ {None})
    \cup {x \in {"DeadlineExceeded"} : IsDeadlineExceeded(task[t].ctx)}

Ready_Always(t) ==
    ({task[t].op} \ {None})
    \cup {x \in {"Cancelled"} : task[t].ctx \in cancelled}
    \cup {x \in {"DeadlineExceeded"} : deadline[task[t].ctx] # None}

Ready(t) ==
    ({task[t].op} \ {None})
    \cup {x \in {"Cancelled"} : task[t].ctx \in cancelled}
    \cup {x \in {"DeadlineExceeded"} : IsDeadlineExceeded(task[t].ctx)}

(***************************************************************************)
(* The task is polled: select! takes any branch that is ready.             *)
(***************************************************************************)
Poll(t) ==
    /\ task[t].pc = "racing"
    /\ \E result \in Ready(t) : task' = [task EXCEPT ![t] = Finish(task[t], result)]
    /\ UNCHANGED <<now, above, deadline, cancelled, asked>>

Tick ==
    /\ now < MaxTime
    /\ now' = now + 1
    /\ UNCHANGED <<above, deadline, cancelled, asked, task>>

-----------------------------------------------------------------------------
Next ==
    \/ \E c \in Ctx : New(c)
    \/ \E c \in Ctx, timeout \in Timeouts : now + timeout <= MaxTime /\ WithTimeout(c, timeout)
    \/ \E c, p \in Ctx : Child(c, p) \/ WithCancel(c, p)
    \/ \E c \in Ctx : Cancel(c)
    \/ \E t \in Task, c \in Ctx, throws \in BOOLEAN : CallRun(t, c, throws)
    \/ \E t \in Task, outcome \in Outcome : Complete(t, outcome)
    \/ \E t \in Task : EnterSelect(t) \/ Poll(t)
    \/ Tick

Spec == Init /\ [][Next]_vars

(***************************************************************************)
(* Running and woken tasks are polled and time passes; no operation need   *)
(* ever complete.                                                          *)
(***************************************************************************)
Fairness == WF_vars(Tick) /\ \A t \in Task : WF_vars(EnterSelect(t)) /\ WF_vars(Poll(t))

FairSpec == Spec /\ Fairness

-----------------------------------------------------------------------------
(***************************************************************************)
(* The types; a deadline is an instant and never lies before the start.    *)
(***************************************************************************)
TypeOK ==
    /\ now \in Nat
    /\ above \in [Ctx -> SUBSET Ctx]
    /\ deadline \in [Ctx -> Nat \cup {None}]
    /\ cancelled \subseteq Ctx
    /\ asked \subseteq Ctx
    /\ task \in [Task -> Run]

(***************************************************************************)
(* A context is cancelled exactly when cancel() was called on it or on a   *)
(* context it descends from, whether it was created before that call or    *)
(* after it: cancellation reaches every descendant and never climbs.       *)
(***************************************************************************)
CancelledExactlyBelow ==
    \A c \in Live : c \in cancelled <=> above[c] \cap asked # {}

(***************************************************************************)
(* What run reports is so: "context cancelled" and "deadline exceeded"     *)
(* name a cancellation or a deadline of the context, or of the root it     *)
(* inherited them from, and a result comes from an operation that ended.   *)
(***************************************************************************)
ResultsAreTrue ==
    \A t \in Task :
        LET r == task[t]
        IN  /\ r.result = "Cancelled" => above[r.ctx] \cap asked # {}
            /\ r.result = "DeadlineExceeded" => \A a \in above[r.ctx] : IsDeadlineExceeded(a)
            /\ r.result \in Outcome => r.op = r.result

(***************************************************************************)
(* Once a context was cancelled or its time is up, all work below it comes *)
(* to an end, the calls that had passed the check before included, and in  *)
(* the end none is under way below it ever again, even if no operation     *)
(* ever completes and children are still made of it.                       *)
(***************************************************************************)
UnusableDrains ==
    \A c \in Ctx :
        (c \in asked \/ IsDeadlineExceeded(c))
            ~> [](\A t \in Task : task[t].pc \in {"checked", "racing"} => c \notin above[task[t].ctx])
=============================================================================

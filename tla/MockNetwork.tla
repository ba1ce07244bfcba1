---------------------------- MODULE MockNetwork -----------------------------
(***************************************************************************)
(* The in-memory network (src/network/mock): a hub that maps identifiers   *)
(* to networks, and networks that deliver an event by calling the target's *)
(* processor on the sender's own thread.  Every call takes parking_lot     *)
(* read locks and keeps them while the handler runs, and the handler sends *)
(* further events the same way, so one thread holds a lock several times.  *)
(*                                                                         *)
(* A lock is "hub", or a node for the lock of that node's network.  The    *)
(* lock inside MessageProcessor is left out: nothing ever takes it for     *)
(* writing, so nobody waits for it.                                        *)
(***************************************************************************)
EXTENDS Naturals, Sequences

CONSTANTS
    Node,       \* identifiers
    Thread,     \* threads that use the network
    MaxDepth,   \* bound on the nesting of deliveries on one thread
    Phased,     \* whether set-up and traffic are kept apart, as the fixtures do
    None        \* Option::None

ASSUME MockAssumption ==
    /\ MaxDepth \in Nat \ {0} /\ Phased \in BOOLEAN
    /\ None \notin Thread /\ "hub" \notin Node

VARIABLES
    networks,   \* networks[n]: the thread that registered n in the hub, or None
    processor,  \* processor[n]: the thread whose processor n has, or None
    call        \* call[t]: the call t is in, or the outcome of its last one

vars == <<networks, processor, call>>

(***************************************************************************)
(* A delivery in progress: an event on its way from one network to another *)
(* one, waiting for a lock ("core", "hub", "target" and "address", the     *)
(* last inside the handler) or in its handler, which may have sent an      *)
(* event of its own already and seen that fail.                            *)
(***************************************************************************)
Frame == [from : Node, to : Node,
          at : {"core", "hub", "target", "address", "handler", "sent", "failed"}]

Call == [op : {"send", "new_mock_network", "register_processor"}, node : Node,
         state : {"ok", "err", "busy", "announced"},
         frames : Seq(Frame)]

Init ==
    /\ networks = [n \in Node |-> None]
    /\ processor = [n \in Node |-> None]
    /\ call \in [Thread -> {[op |-> "send", node |-> n, state |-> "err", frames |-> <<>>] : n \in Node}]

Busy(t) == call[t].state \in {"busy", "announced"}

Writes(t) == Busy(t) /\ call[t].op # "send"

-----------------------------------------------------------------------------
(***************************************************************************)
(* The locks.  A frame holds the guards its calls have taken so far.  A    *)
(* writer announces itself, which keeps new readers out, and then waits    *)
(* for the readers that are in; its critical section is one step.          *)
(***************************************************************************)
Held(f) ==
    CASE f.at = "core"   -> {}
      [] f.at = "hub"    -> {f.from}
      [] f.at = "target" -> {f.from, "hub"}
      [] OTHER           -> {f.from, "hub", f.to}

LockOf(c) == IF c.op = "new_mock_network" THEN "hub" ELSE c.node

NoReaders(lock) == \A t \in Thread : \A j \in DOMAIN call[t].frames : lock \notin Held(call[t].frames[j])

(***************************************************************************)
(* Faulty lock: a mutex, which readers do not share.                       *)
(***************************************************************************)
CanRead_Mutex(lock) ==
    /\ NoReaders(lock)
    /\ \A t \in Thread : ~(call[t].state = "announced" /\ LockOf(call[t]) = lock)

CanRead(lock) == \A t \in Thread : ~(call[t].state = "announced" /\ LockOf(call[t]) = lock)

-----------------------------------------------------------------------------
(***************************************************************************)
(* The delivery at the top of a stack, and the deliveries below it.        *)
(***************************************************************************)
TopFrame(frames) == frames[Len(frames)]

Below(frames) == SubSeq(frames, 1, Len(frames) - 1)

Top(t) == TopFrame(call[t].frames)

At(t, place) == call[t].frames # <<>> /\ Top(t).at = place

AtTop(frames, place) == Append(Below(frames), [TopFrame(frames) EXCEPT !.at = place])

Move(t, place) == call' = [call EXCEPT ![t].frames = AtTop(call[t].frames, place)]

(***************************************************************************)
(* Faulty return: a handler whose send failed tries again.                 *)
(***************************************************************************)
Pop_Retries(t, res) ==
    LET below == Below(call[t].frames)
    IN  call' = IF below = <<>>
                THEN [call EXCEPT ![t].frames = <<>>, ![t].state = res]
                ELSE [call EXCEPT ![t].frames = AtTop(below, IF res = "err" THEN "handler" ELSE "sent")]

(***************************************************************************)
(* The delivery on top returns and its guards are released.  Its error is  *)
(* passed on by the handler that had sent the event, and by the call.      *)
(***************************************************************************)
Pop(t, res) ==
    LET below == Below(call[t].frames)
    IN  call' = IF below = <<>>
                THEN [call EXCEPT ![t].frames = <<>>, ![t].state = res]
                ELSE [call EXCEPT ![t].frames = AtTop(below, IF res = "err" THEN "failed" ELSE "sent")]

(***************************************************************************)
(* MockNetwork::send_event takes the lock of the sending network.          *)
(***************************************************************************)
CallSend(t, from, to) ==
    /\ ~Busy(t) /\ networks[from] # None
    /\ Phased => \A r \in Thread : ~Writes(r)
    /\ call' = [call EXCEPT ![t] = [op |-> "send", node |-> to, state |-> "busy",
                                    frames |-> <<[from |-> from, to |-> to, at |-> "core"]>>]]
    /\ UNCHANGED <<networks, processor>>

SendEvent(t) ==
    /\ At(t, "core") /\ CanRead(Top(t).from)
    /\ Move(t, "hub")
    /\ UNCHANGED <<networks, processor>>

(***************************************************************************)
(* NetworkHub::route_event takes the hub's lock and looks the target up.   *)
(***************************************************************************)
RouteEvent(t) ==
    /\ At(t, "hub") /\ CanRead("hub")
    /\ IF networks[Top(t).to] # None THEN Move(t, "target") ELSE Pop(t, "err")
    /\ UNCHANGED <<networks, processor>>

(***************************************************************************)
(* MockNetwork::incoming_event takes the target's lock and calls its       *)
(* processor.  A handler that answers a link request asks for its own      *)
(* address first, which takes the target's lock once more.                 *)
(***************************************************************************)
IncomingEvent(t) ==
    /\ At(t, "target") /\ CanRead(Top(t).to)
    /\ IF processor[Top(t).to] # None
       THEN \E place \in {"address", "handler"} : Move(t, place)
       ELSE Pop(t, "err")
    /\ UNCHANGED <<networks, processor>>

NetAddress(t) ==
    /\ At(t, "address") /\ CanRead(Top(t).to)
    /\ Move(t, "handler")
    /\ UNCHANGED <<networks, processor>>

(***************************************************************************)
(* The handler replies or relays: at most one event, sent from its node.   *)
(***************************************************************************)
HandlerSends(t, to) ==
    /\ At(t, "handler") /\ Len(call[t].frames) < MaxDepth
    /\ call' = [call EXCEPT ![t].frames =
           Append(call[t].frames, [from |-> Top(t).to, to |-> to, at |-> "core"])]
    /\ UNCHANGED <<networks, processor>>

(***************************************************************************)
(* The handler returns: an error if its own send failed, or if it refuses  *)
(* the event (an unsupported payload, a level out of range).               *)
(***************************************************************************)
HandlerReturns(t) ==
    /\ \/ At(t, "handler") /\ \E res \in {"ok", "err"} : Pop(t, res)
       \/ At(t, "sent")    /\ Pop(t, "ok")
       \/ At(t, "failed")  /\ Pop(t, "err")
    /\ UNCHANGED <<networks, processor>>

-----------------------------------------------------------------------------
(***************************************************************************)
(* The two calls that write.  register_processor needs a network's handle. *)
(***************************************************************************)
CallWrite(t, op, n) ==
    /\ ~Busy(t)
    /\ op = "register_processor" => networks[n] # None
    /\ Phased => \A r \in Thread : Busy(r) => Writes(r)
    /\ call' = [call EXCEPT ![t] = [op |-> op, node |-> n, state |-> "busy", frames |-> <<>>]]
    /\ UNCHANGED <<networks, processor>>

Announce(t) ==
    /\ Writes(t) /\ call[t].state = "busy" /\ CanRead(LockOf(call[t]))
    /\ call' = [call EXCEPT ![t].state = "announced"]
    /\ UNCHANGED <<networks, processor>>

(***************************************************************************)
(* new_mock_network and register_processor: an id, or a network, that is   *)
(* taken keeps what it has.                                                *)
(***************************************************************************)
NewMockNetwork(t) ==
    LET c == call[t]
    IN  /\ c.op = "new_mock_network" /\ c.state = "announced" /\ NoReaders("hub")
        /\ IF networks[c.node] # None
           THEN /\ call' = [call EXCEPT ![t].state = "err"]
                /\ UNCHANGED networks
           ELSE /\ call' = [call EXCEPT ![t].state = "ok"]
                /\ networks' = [networks EXCEPT ![c.node] = t]
        /\ UNCHANGED processor

(***************************************************************************)
(* Faulty registration: a processor that is there is replaced.             *)
(***************************************************************************)
RegisterProcessor_Replaces(t) ==
    LET c == call[t]
    IN  /\ c.op = "register_processor" /\ c.state = "announced" /\ NoReaders(c.node)
        /\ call' = [call EXCEPT ![t].state = "ok"]
        /\ processor' = [processor EXCEPT ![c.node] = t]
        /\ UNCHANGED networks

RegisterProcessor(t) ==
    LET c == call[t]
    IN  /\ c.op = "register_processor" /\ c.state = "announced" /\ NoReaders(c.node)
        /\ IF processor[c.node] # None
           THEN /\ call' = [call EXCEPT ![t].state = "err"]
                /\ UNCHANGED processor
           ELSE /\ call' = [call EXCEPT ![t].state = "ok"]
                /\ processor' = [processor EXCEPT ![c.node] = t]
        /\ UNCHANGED networks

-----------------------------------------------------------------------------
Deliver(t) ==
    \/ SendEvent(t) \/ RouteEvent(t) \/ IncomingEvent(t) \/ NetAddress(t)
    \/ (\E to \in Node : HandlerSends(t, to))
    \/ HandlerReturns(t)

Write(t) == NewMockNetwork(t) \/ RegisterProcessor(t)

Next ==
    \E t \in Thread :
        \/ \E from, to \in Node : CallSend(t, from, to)
        \/ \E op \in {"new_mock_network", "register_processor"}, n \in Node : CallWrite(t, op, n)
        \/ Deliver(t) \/ Announce(t) \/ Write(t)

Spec == Init /\ [][Next]_vars

(***************************************************************************)
(* A thread that can take its next step does so, and parking_lot does not  *)
(* pass a waiting writer over for ever.                                    *)
(***************************************************************************)
Fairness == \A t \in Thread : WF_vars(Deliver(t) \/ Write(t)) /\ SF_vars(Announce(t))

FairSpec == Spec /\ Fairness

-----------------------------------------------------------------------------
(***************************************************************************)
(* The frames of a thread are a call stack: a nested delivery starts at    *)
(* the node whose handler made it, and only the top one is moving.         *)
(***************************************************************************)
CallStack(frames) == \A j \in 2..Len(frames) : frames[j].from = frames[j - 1].to

TypeOK ==
    /\ networks \in [Node -> Thread \cup {None}]
    /\ processor \in [Node -> Thread \cup {None}]
    /\ call \in [Thread -> Call]
    /\ \A t \in Thread :
          /\ call[t].frames # <<>> => call[t].op = "send" /\ call[t].state = "busy"
          /\ CallStack(call[t].frames)

(***************************************************************************)
(* A call that returned Ok from a registration is the one in place: of two *)
(* concurrent registrations for an id or a network one fails, and nothing  *)
(* takes the winner's place.                                               *)
(***************************************************************************)
OkMeansInstalled ==
    \A t \in Thread :
        LET c == call[t]
        IN  c.state = "ok" => /\ c.op = "new_mock_network"   => networks[c.node] = t
                              /\ c.op = "register_processor" => processor[c.node] = t

(***************************************************************************)
(* No thread waits for a lock that only it, or somebody who waits for it,  *)
(* can release: while any call is under way, one of them can go on.        *)
(***************************************************************************)
CanGoOn(t) ==
    \/ At(t, "core") /\ CanRead(Top(t).from)
    \/ At(t, "hub") /\ CanRead("hub")
    \/ (At(t, "target") \/ At(t, "address")) /\ CanRead(Top(t).to)
    \/ At(t, "handler") \/ At(t, "sent") \/ At(t, "failed")
    \/ Writes(t) /\ call[t].state = "busy" /\ CanRead(LockOf(call[t]))
    \/ call[t].state = "announced" /\ NoReaders(LockOf(call[t]))

NoDeadlock == (\E t \in Thread : Busy(t)) => \E t \in Thread : Busy(t) /\ CanGoOn(t)

(***************************************************************************)
(* Every send and every registration returns.                              *)
(***************************************************************************)
EveryCallReturns == \A t \in Thread : Busy(t) ~> ~Busy(t)
=============================================================================

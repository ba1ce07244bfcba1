--------------------------- MODULE MCMockNetwork ----------------------------
(***************************************************************************)
(* Instances of MockNetwork for TLC.                                       *)
(***************************************************************************)
EXTENDS MockNetwork

-----------------------------------------------------------------------------
(***************************************************************************)
(* A network that is up: some nodes, set up by one thread, serve events    *)
(* while threads send and add further nodes.                               *)
(***************************************************************************)
UpInit ==
    \E up \in SUBSET Node, t \in Thread :
        /\ networks = [n \in Node |-> IF n \in up THEN t ELSE None]
        /\ processor = networks
        /\ call = [r \in Thread |-> [op |-> "send", node |-> CHOOSE n \in Node : TRUE,
                                     state |-> "err", frames |-> <<>>]]

Grow ==
    \E t \in Thread :
        \/ \E from, to \in Node : from # to /\ CallSend(t, from, to)
        \/ \E n \in Node : CallWrite(t, "new_mock_network", n)
        \/ Deliver(t) \/ Announce(t) \/ Write(t)

GrowSpec == UpInit /\ [][Grow]_vars
=============================================================================

--------------------------- MODULE JoinRefinement ---------------------------
(***************************************************************************)
(* Join as an implementation of LinkProtocol.                              *)
(***************************************************************************)
EXTENDS Join

(***************************************************************************)
(* What the link service sees: the link events in flight, without their    *)
(* nonces.                                                                 *)
(***************************************************************************)
EraseNonce(m) == [m EXCEPT !.nonce = None]

LinkMsgs == {EraseNonce(m) : m \in {e \in msgs : e.type \in {"GetLinkOp", "SetLinkOp"}}}

LP == INSTANCE LinkProtocol WITH msgs <- LinkMsgs

(***************************************************************************)
(* Stage 1 uses the link service as LinkProtocol specifies it, and nothing *)
(* else in the join writes a lookup table ("there is exactly one code path *)
(* ... that ever writes a lookup-table entry", concurrent-insert.md, 3.2). *)
(***************************************************************************)
ImplementsLinkProtocol == LP!Spec
=============================================================================

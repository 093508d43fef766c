-------------------------- MODULE MCInboundHandoff --------------------------
(* Two commands of two sessions, recovered in pages of one row. *)
EXTENDS InboundHandoff, TLC

CONSTANTS c1, c2, s1, s2

MCChatOf == c1 :> s1 @@ c2 :> s2
=============================================================================

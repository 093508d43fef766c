---------------------- MODULE MCConversationRuntime ----------------------
(***************************************************************************)
(* TLC instances of ConversationRuntime.                                   *)
(***************************************************************************)
EXTENDS ConversationRuntime, TLC

Symmetry == Permutations(Turns) \cup Permutations(Threads)

=============================================================================

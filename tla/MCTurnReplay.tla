---------------------------- MODULE MCTurnReplay ----------------------------
(***************************************************************************)
(* TLC instances of TurnReplay.                                            *)
(***************************************************************************)
EXTENDS TurnReplay

\* Whoever asks for a whole turn sees all of it or is told that it was cut; the
\* log and the queues stay within their limits, and no event is taken from a live
\* subscriber to keep them there (runtime.py subscribe, _publish and its two trims).
ReplaysAreHonest == ReplayTypeOK /\ WholeReplayIsHonest /\ LiveSubscriberMissesNothing
=============================================================================

----------------------------- MODULE MCDelivery -----------------------------
(***************************************************************************)
(* One TLC instance for what a turn is given and gives: the handoff that   *)
(* brings its mobile command, the plugin snapshot it leases, and the log   *)
(* its readers replay.  Of the plugins one is local and one installed; a   *)
(* turn leases, a job forks its lease, and two snapshots follow the first. *)
(* The three share nothing: part names the one a behaviour runs, and only  *)
(* that one is under its fairness.  Only the snapshots may never come to   *)
(* rest.                                                                   *)
(***************************************************************************)
EXTENDS MCInboundHandoff, MCSnapshotStore, MCTurnReplay

VARIABLE part
deliveryVars == <<part, handoffVars, vars, replayVars>>

DeliveryInit ==
  part \in {"handoff", "snapshots", "replay"} /\ HandoffInit /\ Init /\ ReplayInit

Rest == part # "snapshots" /\ UNCHANGED <<handoffVars, vars, replayVars>>

DeliveryNext ==
  /\ UNCHANGED part
  /\ \/ part = "handoff" /\ HandoffNext /\ UNCHANGED <<vars, replayVars>>
     \/ part = "snapshots" /\ Next /\ UNCHANGED <<handoffVars, replayVars>>
     \/ part = "replay" /\ ReplayNext /\ UNCHANGED <<handoffVars, vars>>
     \/ Rest

\* HandoffFairSpec, FairSpec of SnapshotStore and ReplayFairSpec, each for its own part.
DeliverySpec ==
  /\ DeliveryInit /\ [][DeliveryNext]_deliveryVars
  /\ WF_handoffVars(part = "handoff" /\ Boot)
  /\ WF_handoffVars(part = "handoff" /\ StartWorker)
  /\ \A s \in Chats : WF_handoffVars(part = "handoff" /\ Lane(s))
  /\ \A c \in Commands : WF_handoffVars(part = "handoff" /\ RetryDelete(c))
  /\ WF_vars(part = "snapshots" /\ Proceeds)
  /\ WF_vars(part = "snapshots" /\ \E s \in Snapshots : DrainGoes(s) \/ DrainStops(s))
  /\ WF_vars(part = "snapshots" /\ \E h \in Holders : Wake(h))
  /\ \A h \in Holders : WF_vars(part = "snapshots" /\ Release(h))
  /\ \A s \in Subscribers : WF_replayVars(part = "replay" /\ Take(s))
=============================================================================

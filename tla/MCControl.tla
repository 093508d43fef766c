------------------------------ MODULE MCControl ------------------------------
(***************************************************************************)
(* One TLC instance for what happens around a turn and shares no state     *)
(* here: the lane of its chat, the gate that admits it, its owner while    *)
(* store writes succeed, and the queue that sends its reply.  part names   *)
(* the one a behaviour runs.  No fair action of a part is enabled in its   *)
(* initial state but those that name their part, so the fairness of the    *)
(* parts that rest asks nothing.  Every caller uses the same chat: chats   *)
(* share nothing but the pool of state objects.                            *)
(***************************************************************************)
EXTENDS ChatLane, OutboundQueue

CONSTANTS Tasks, Deployments, CommitMayFail,
          Threads, NoTurn, NoThread, Sizes, MaxTurns, MaxBytes, MaxObjects, StoreMayFail

VARIABLES part,
          task, accepting, closed, lease, used, draining, asking, answer,
          restartOwner, restart, pending, completed, delivered, settings, awaited, sent,
          status, thread, pred, root, rejected, latest, finals, up, shut, admits, owner, pc,
          cancelling, reaping, interruptReq, sealed, future, charge, activeBytes, liveObjects,
          announced

\* No job and no deployment has the name of none.
ASSUME NoneIsNobody == None \notin Tasks \cup Deployments

Gate == INSTANCE MaintenanceGate WITH Turns <- Tasks
Owner == INSTANCE ConversationRuntime
           WITH Turns <- Tasks, closed <- shut, accepting <- admits

gateVars == <<task, accepting, closed, lease, used, draining, asking, answer,
              restartOwner, restart, pending, completed, delivered, settings, awaited, sent>>
ownerVars == <<status, thread, pred, root, rejected, latest, finals, up, shut, admits, owner,
               pc, cancelling, reaping, interruptReq, sealed, future, charge, activeBytes,
               liveObjects, announced>>
controlVars == <<part, vars, gateVars, ownerVars, outVars>>

MCChatOf == [k \in Callers |-> CHOOSE c \in Chats : TRUE]

ControlInit ==
  /\ part \in {"lane", "gate", "turn", "replies"}
  /\ Init /\ Gate!Init /\ Owner!Init /\ OutInit

ControlNext ==
  /\ UNCHANGED part
  /\ \/ part = "lane" /\ Next /\ UNCHANGED <<gateVars, ownerVars, outVars>>
     \/ part = "gate" /\ Gate!Next /\ UNCHANGED <<vars, ownerVars, outVars>>
     \/ part = "turn" /\ Owner!Next /\ UNCHANGED <<vars, gateVars, outVars>>
     \/ part = "replies" /\ OutNext /\ UNCHANGED <<vars, gateVars, ownerVars>>

\* OutFairness, for its own part.
RepliesFairness ==
  /\ WF_outVars(part = "replies" /\ Dispatch) /\ WF_outVars(part = "replies" /\ Closing)
  /\ WF_outVars(part = "replies" /\ app = "failing" /\ Shutdown)
  /\ \A m \in Messages : WF_outVars(part = "replies" /\ Answered(m))
                        /\ WF_outVars(part = "replies" /\ SenderCancelled(m))

ControlSpec ==
  /\ ControlInit /\ [][ControlNext]_controlVars
  /\ Fairness /\ Gate!Fairness /\ Owner!Fairness /\ RepliesFairness

\* The gate is closed exactly while a deployment or a restart holds it, never both, or a
\* settings restart or shutdown closed it; "drained" means that nothing runs, and a
\* committed restart cuts nothing off and follows the delivered reply of the turn that
\* asked (control/runtime.py, restart.py).
GateIsOrderly ==
  /\ Gate!TypeOK /\ Gate!GateMatchesOwners
  /\ Gate!PreparedMeansQuiet /\ Gate!RestartIsOrderly

\* A restart once committed is not withdrawn, and a lease or a restart that nobody
\* ends is ended by its timer (control/runtime.py, restart.py).
GateIsLeft == Gate!CommitIsFinal /\ Gate!GateReopens

\* While store writes succeed, an open row belongs to the active turn of its thread, where
\* an interrupt or a shutdown reaches it, and every accepted turn is resolved, or the
\* process shuts down (control/runtime.py _run).
AcceptedTurnsResolve == []Owner!NoOrphanRow /\ Owner!AcceptedTurnsResolve
=============================================================================

------------------------------ MODULE Subagents ------------------------------
(***************************************************************************)
(* Subagents started by a turn (agent/background/subagent_manager.py): a   *)
(* turn waits for a synchronous one; a background one tells the chat when  *)
(* it has ended.  Both take a slot, and a background one keeps the plugin  *)
(* snapshot it was started under.  A task cancelled before its first step  *)
(* never runs; publish_inbound may suspend, as the chat's lane is locked.  *)
(***************************************************************************)
EXTENDS Naturals, Sequences, SequencesExt, FiniteSets

CONSTANTS Background, Synchronous,  \* the jobs of each kind
          MaxActive,                \* MAX_ACTIVE_SUBAGENTS
          MaxCancels                \* bound on the calls of cancel

VARIABLES worker,      \* the task of each job
          cancelling,  \* jobs whose task has a cancellation pending
          slot,        \* _SubagentAdmission._active
          registered,  \* _running_tasks and _sync_tasks
          marked,      \* _cancel_announced
          canceller,   \* jobs that a call of cancel is announcing
          waiter,      \* the turn that awaits spawn_sync
          snapshot,    \* the snapshot lease of each job
          told,        \* what the chat was told of each job, in order
          manager, cancels

subagentVars == <<worker, cancelling, slot, registered, marked, canceller, waiter, snapshot,
                  told, manager, cancels>>

Jobs == Background \cup Synchronous

SubagentInit ==
  /\ worker = [j \in Jobs |-> "none"] /\ waiter = [j \in Jobs |-> "none"]
  /\ snapshot = [j \in Jobs |-> "none"] /\ told = [j \in Jobs |-> <<>>]
  /\ cancelling = {} /\ slot = {} /\ registered = {} /\ marked = {} /\ canceller = {}
  /\ manager = "up" /\ cancels = 0

Goes(j, p) == worker' = [worker EXCEPT ![j] = p]
Tells(j, what) == told' = [told EXCEPT ![j] = Append(@, what)]
Turn == UNCHANGED <<waiter, manager, cancels>>
----------------------------------------------------------------------------
\* spawn and spawn_sync: the slot is taken without an await.
Spawn(j) ==
  /\ manager = "up" /\ worker[j] = "none" /\ Cardinality(slot) < MaxActive
  /\ slot' = slot \cup {j} /\ registered' = registered \cup {j} /\ Goes(j, "created")
  /\ IF j \in Background
     THEN snapshot' \in {snapshot, [snapshot EXCEPT ![j] = "held"]} /\ UNCHANGED waiter
     ELSE waiter' = [waiter EXCEPT ![j] = "waiting"] /\ UNCHANGED snapshot
  /\ UNCHANGED <<cancelling, marked, canceller, told, manager, cancels>>

Starts(j) ==
  /\ worker[j] = "created" /\ j \notin cancelling /\ Goes(j, "running")
  /\ UNCHANGED <<cancelling, slot, registered, marked, canceller, snapshot, told>> /\ Turn

\* The task ends; its frame gives the snapshot back if it was ever entered.
Over(j, entered) ==
  /\ Goes(j, "over") /\ cancelling' = cancelling \ {j}
  /\ snapshot' = IF entered /\ snapshot[j] = "held" THEN [snapshot EXCEPT ![j] = "released"] ELSE snapshot
  /\ UNCHANGED <<slot, registered, marked, canceller>> /\ Turn

\* The agent has ended, by itself ("telling") or with an error ("failing").
AgentEnds(j) ==
  /\ worker[j] = "running" /\ j \notin cancelling
  /\ IF j \in Background
     THEN /\ Goes(j, "telling") \/ Goes(j, "failing")
          /\ UNCHANGED <<cancelling, slot, registered, marked, canceller, snapshot, told>> /\ Turn
     ELSE Over(j, TRUE) /\ UNCHANGED told

\* _announce_result
Tell(j) ==
  /\ worker[j] \in {"telling", "failing"} /\ j \notin cancelling
  /\ Tells(j, IF worker[j] = "failing" THEN "failed" ELSE "finished") /\ Over(j, TRUE)

\* The cancellation arrives, after whatever the agent does about it: a job that cancel
\* did not speak for speaks for itself.
CancelHits(j) ==
  /\ j \in cancelling /\ UNCHANGED told
  /\ IF worker[j] = "running" /\ j \in Background /\ j \notin marked
     THEN /\ Goes(j, "excusing") /\ cancelling' = cancelling \ {j} /\ Turn
          /\ UNCHANGED <<slot, registered, marked, canceller, snapshot>>
     ELSE /\ worker[j] \in {"created", "running", "telling", "failing", "excusing"}
          /\ Over(j, worker[j] # "created")

\* It arrives while the shell of an agent that failed is shut down, and is dropped there:
\* the job goes on to announce that error.  A synchronous one is over as in CancelHits.
CancelLost(j) ==
  /\ j \in cancelling \cap Background /\ worker[j] = "running"
  /\ cancelling' = cancelling \ {j} /\ Goes(j, "failing")
  /\ UNCHANGED <<slot, registered, marked, canceller, snapshot, told>> /\ Turn

Excuse(j) ==
  /\ worker[j] = "excusing" /\ j \notin cancelling /\ Tells(j, "cancelled") /\ Over(j, TRUE)

\* _finish_background_job, _finish_sync_job
Forget(j) ==
  /\ worker[j] = "over" /\ Goes(j, "gone")
  /\ slot' = slot \ {j} /\ registered' = registered \ {j} /\ marked' = marked \ {j}
  /\ snapshot' = IF snapshot[j] = "held" THEN [snapshot EXCEPT ![j] = "releasing"] ELSE snapshot
  /\ UNCHANGED <<cancelling, canceller, told>> /\ Turn

SnapshotReleased(j) ==
  /\ snapshot[j] = "releasing" /\ snapshot' = [snapshot EXCEPT ![j] = "released"]
  /\ UNCHANGED <<worker, cancelling, slot, registered, marked, canceller, told>> /\ Turn
----------------------------------------------------------------------------
Active(j) == j \in registered /\ worker[j] \notin {"over", "gone"}

\* Mutant: the task is cancelled before the chat is told.
Cancel_TaskFirst(j) ==
  /\ manager = "up" /\ Active(j) /\ j \in Background \ canceller /\ cancels < MaxCancels
  /\ marked' = marked \cup {j} /\ canceller' = canceller \cup {j} /\ cancels' = cancels + 1
  /\ cancelling' = cancelling \cup {j}
  /\ UNCHANGED <<worker, slot, registered, waiter, snapshot, told, manager>>

\* cancel: the mark first, then the announcement, then the cancellation.
Cancel(j) ==
  /\ manager = "up" /\ Active(j) /\ j \in Background \ canceller /\ cancels < MaxCancels
  /\ marked' = marked \cup {j} /\ canceller' = canceller \cup {j} /\ cancels' = cancels + 1
  /\ UNCHANGED <<worker, cancelling, slot, registered, waiter, snapshot, told, manager>>

\* Mutant: announced, and the task is left to itself.
CancelTold_Spares(j) ==
  /\ j \in canceller /\ canceller' = canceller \ {j} /\ Tells(j, "cancelled")
  /\ UNCHANGED <<worker, cancelling, slot, registered, marked, snapshot>> /\ Turn

CancelTold(j) ==
  /\ j \in canceller /\ canceller' = canceller \ {j} /\ Tells(j, "cancelled")
  /\ cancelling' = cancelling \cup {k \in {j} : Active(k)}
  /\ UNCHANGED <<worker, slot, registered, marked, snapshot>> /\ Turn

\* The turn that called is itself interrupted.
CancelCut(j) ==
  /\ j \in canceller /\ canceller' = canceller \ {j}
  /\ UNCHANGED <<worker, cancelling, slot, registered, marked, snapshot, told>> /\ Turn

\* Mutant: the slot is given back when the wait is.
WaitCut_FreesSlot(j) ==
  /\ waiter[j] = "waiting" /\ waiter' = [waiter EXCEPT ![j] = "cut"]
  /\ cancelling' = cancelling \cup {k \in {j} : Active(k)} /\ slot' = slot \ {j}
  /\ UNCHANGED <<worker, registered, marked, canceller, snapshot, told, manager, cancels>>

\* The turn that waits is interrupted: it cancels the worker and waits for its end.
WaitCut(j) ==
  /\ waiter[j] = "waiting" /\ waiter' = [waiter EXCEPT ![j] = "cut"]
  /\ cancelling' = cancelling \cup {k \in {j} : Active(k)}
  /\ UNCHANGED <<worker, slot, registered, marked, canceller, snapshot, told, manager, cancels>>

\* The wait ends with the worker; a second interrupt ends it at once.
WaitEnds(j) ==
  /\ \/ waiter[j] \in {"waiting", "cut"} /\ worker[j] \in {"over", "gone"}
     \/ waiter[j] = "cut"
  /\ waiter' = [waiter EXCEPT ![j] = "ended"]
  /\ UNCHANGED <<worker, cancelling, slot, registered, marked, canceller, snapshot, told, manager, cancels>>

\* shutdown, when no turn is left.
Shutdown ==
  /\ manager = "up" /\ canceller = {} /\ \A j \in Jobs : waiter[j] \in {"none", "ended"}
  /\ manager' = "stopping" /\ cancelling' = {j \in registered : Active(j)}
  /\ UNCHANGED <<worker, slot, registered, marked, canceller, waiter, snapshot, told, cancels>>

Stopped ==
  /\ manager = "stopping" /\ registered = {} /\ \A j \in Jobs : snapshot[j] # "releasing"
  /\ manager' = "down"
  /\ UNCHANGED <<worker, cancelling, slot, registered, marked, canceller, waiter, snapshot, told, cancels>>
----------------------------------------------------------------------------
SubagentNext ==
  \/ \E j \in Jobs :
       \/ Spawn(j) \/ Starts(j) \/ AgentEnds(j) \/ Tell(j) \/ CancelHits(j) \/ CancelLost(j)
       \/ Excuse(j) \/ Forget(j) \/ SnapshotReleased(j)
       \/ Cancel(j) \/ CancelTold(j) \/ CancelCut(j) \/ WaitCut(j) \/ WaitEnds(j)
  \/ Shutdown \/ Stopped

SubagentSpec == SubagentInit /\ [][SubagentNext]_subagentVars
----------------------------------------------------------------------------
SubagentTypeOK ==
  /\ worker \in [Jobs ->
       {"none", "created", "running", "telling", "failing", "excusing", "over", "gone"}]
  /\ told \in [Jobs -> Seq({"finished", "failed", "cancelled"})]
  /\ cancelling \cup marked \cup canceller \subseteq Jobs /\ canceller \subseteq Background

\* A slot is taken exactly as long as the worker lives, whatever became of the turn that
\* started it, and its snapshot is not given back before (subagent_manager.py).
SlotsAreReal ==
  /\ slot = {j \in Jobs : worker[j] \notin {"none", "gone"}} /\ Cardinality(slot) <= MaxActive
  /\ \A j \in Jobs : worker[j] \in {"running", "telling", "failing", "excusing"} =>
       snapshot[j] \in {"none", "held"}
  /\ manager = "down" => \A j \in Jobs : snapshot[j] \in {"none", "released"}

\* A background job that ended before the shutdown is announced, or about to be, and no
\* result of one is announced once its cancellation was (subagent_manager.py cancel): only
\* an error may follow, when the cancellation is lost in the agent's clean-up.
ChatsAreTold ==
  /\ manager = "up" => \A j \in Background :
       worker[j] \in {"over", "gone"} => told[j] # <<>> \/ j \in canceller
  /\ \A j \in Background : \A a, b \in DOMAIN told[j] :
       a < b => ~ (told[j][a] = "cancelled" /\ told[j][b] = "finished")

\* agent/tools/spawn.py:196: a cancelled job's completion event is "cancelled", so nothing
\* else is announced of it after that.
CancelledIsFinal ==
  \A j \in Background : \A a, b \in DOMAIN told[j] :
    a < b /\ told[j][a] = "cancelled" => told[j][b] = "cancelled"
=============================================================================

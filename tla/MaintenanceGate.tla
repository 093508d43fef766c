--------------------------- MODULE MaintenanceGate ---------------------------
(***************************************************************************)
(* Who may close the admission of new turns, and who opens it again: the   *)
(* deployment lease of agent/control/runtime.py, the restart an agent asks *)
(* for (agent/restart.py RestartCoordinator) and the settings restart of   *)
(* main.py, all three over the one flag _accepting_turns.                  *)
(*                                                                         *)
(* A turn is reduced to its task and its terminal; ConversationRuntime     *)
(* models the rest.  The release of a lease and the step of a turn that    *)
(* reports its terminal hold no await, so each is one action.  A           *)
(* deployment id is used for one lease (the controller derives it from its *)
(* operation id).  The model is one life of the process.                   *)
(***************************************************************************)
EXTENDS FiniteSets

CONSTANTS
    Turns,          \* turn ids
    Deployments,    \* deployment ids
    None,           \* no turn, no deployment
    CommitMayFail   \* TRUE: writing to the supervisor's pipe may raise

VARIABLES
    task,          \* the task of each turn
    accepting,     \* _accepting_turns
    closed,        \* _closed
    lease,         \* _deployment_owner_id
    used,          \* deployment ids that have had their lease
    draining,      \* tasks the drain task of each deployment still awaits
    asking,        \* deployments with a prepare_deployment request in flight
    answer,        \* the answer to that request
    restartOwner,  \* _restart_owner_turn_id
    restart,       \* RestartCoordinator.state
    pending,       \* turn of RestartCoordinator.pending
    completed,     \* _turn_completed
    delivered,     \* _delivered
    settings,      \* main.serve's commit_settings_restart
    awaited,       \* tasks its quiesce_and_drain gathers
    sent           \* history: turns whose final response was delivered

runtime == <<task, accepting, closed>>
deployment == <<lease, used, draining, asking, answer>>
coordinator == <<restartOwner, restart, pending, completed, delivered>>
settingsVars == <<settings, awaited>>
vars == <<runtime, deployment, coordinator, settingsVars, sent>>

\* "ready": created, no first step yet.  "dead": cancelled before that step,
\* waiting for its interrupter.  The others are terminals; "lost" is a turn
\* whose terminal could not be written, or that the process took down.
Alive == {"ready", "running"}
Ends == {"completed", "failed", "interrupted", "cancelled"}
Gone == Ends \cup {"lost"}
TaskState == {"none", "dead"} \cup Alive \cup Gone

Active == {t \in Turns : task[t] \in Alive \cup {"dead"}}  \* keys of _tasks

Init ==
    /\ task = [t \in Turns |-> "none"]
    /\ accepting = TRUE
    /\ closed = FALSE
    /\ lease = None
    /\ used = {}
    /\ draining = [d \in Deployments |-> {}]
    /\ asking = {}
    /\ answer = [d \in Deployments |-> "none"]
    /\ restartOwner = None
    /\ restart = "idle"
    /\ pending = None
    /\ completed = FALSE
    /\ delivered = FALSE
    /\ settings = "idle"
    /\ awaited = {}
    /\ sent = {}

-----------------------------------------------------------------------------
\* RestartCoordinator

\* Mutant: the admission stays closed after a cancelled restart.
Resume_StaysClosed ==
    /\ restartOwner' = None
    /\ UNCHANGED accepting

\* resume_after_restart_cancel
Resume ==
    /\ restartOwner' = None
    /\ accepting' = (accepting \/ (~closed /\ lease = None))

\* _cancel of a pending request
CancelRestart ==
    /\ restart' = "cancelled"
    /\ pending' = None
    /\ completed' = FALSE
    /\ delivered' = FALSE
    /\ Resume

\* _commit_if_ready, with the flags the caller just set
CommitIfReady(done, told) ==
    \/ /\ done /\ told
       /\ restart' = "committed"
       /\ completed' = done
       /\ delivered' = told
       /\ UNCHANGED <<restartOwner, pending, accepting>>
    \/ /\ done /\ told /\ CommitMayFail
       /\ CancelRestart
    \/ /\ ~(done /\ told)
       /\ completed' = done
       /\ delivered' = told
       /\ restart' = IF done THEN "waiting" ELSE restart
       /\ UNCHANGED <<restartOwner, pending, accepting>>

\* Mutant: the report is not compared with the pending turn.
Concerns_AnyTurn(t) == restart # "committed" /\ pending # None

\* The request of turn t is pending and not committed.
Concerns(t) == restart # "committed" /\ pending = t

\* mark_turn_terminal
TellTerminal(t, st) ==
    \/ /\ Concerns(t)
       /\ st = "completed"
       /\ CommitIfReady(TRUE, delivered)
    \/ /\ Concerns(t)
       /\ st # "completed"
       /\ CancelRestart
    \/ /\ ~Concerns(t)
       /\ UNCHANGED <<coordinator, accepting>>

\* quiesce_for_restart: the caller is the only turn and the gate is open.
MayQuiesce(t) == Active = {t} /\ accepting

\* arm, called by the agent_restart tool of a running turn
Arm(t) ==
    /\ task[t] = "running"
    /\ pending = None
    /\ MayQuiesce(t)
    /\ accepting' = FALSE
    /\ restartOwner' = t
    /\ pending' = t
    /\ restart' = "armed"
    /\ completed' = FALSE
    /\ delivered' = FALSE
    /\ UNCHANGED <<task, closed, deployment, settingsVars, sent>>

\* mark_delivered, from the router or from the outbound dispatcher: the final
\* response of a turn that has ended was written to its transport.
MarkDelivered(t) ==
    /\ task[t] \in Ends
    /\ sent' = sent \cup {t}
    /\ \/ Concerns(t) /\ CommitIfReady(completed, TRUE)
       \/ ~Concerns(t) /\ UNCHANGED <<coordinator, accepting>>
    /\ UNCHANGED <<task, closed, deployment, settingsVars>>

\* mark_delivery_failed: the connection closed, or the channel gave up.
MarkDeliveryFailed(t) ==
    /\ Concerns(t)
    /\ CancelRestart
    /\ UNCHANGED <<task, closed, deployment, settingsVars, sent>>

\* Mutant: the commit does not stop the watchdog, nor does it look.
Watchdog_AfterCommit ==
    /\ pending # None
    /\ CancelRestart
    /\ UNCHANGED <<task, closed, deployment, settingsVars, sent>>

\* _delivery_watchdog of the pending request
Watchdog ==
    /\ pending # None
    /\ restart # "committed"
    /\ CancelRestart
    /\ UNCHANGED <<task, closed, deployment, settingsVars, sent>>

-----------------------------------------------------------------------------
\* Turns

\* start_turn
StartTurn(t) ==
    /\ accepting
    /\ ~closed
    /\ task[t] = "none"
    /\ task' = [task EXCEPT ![t] = "ready"]
    /\ UNCHANGED <<accepting, closed, deployment, coordinator, settingsVars,
                   sent>>

\* _run takes its first step
BeginTurn(t) ==
    /\ task[t] = "ready"
    /\ task' = [task EXCEPT ![t] = "running"]
    /\ UNCHANGED <<accepting, closed, deployment, coordinator, settingsVars,
                   sent>>

\* interrupt_turn cancels the task before that step
InterruptReady(t) ==
    /\ task[t] = "ready"
    /\ task' = [task EXCEPT ![t] = "dead"]
    /\ UNCHANGED <<accepting, closed, deployment, coordinator, settingsVars,
                   sent>>

\* ... and its interrupter writes the terminal and releases the ownership,
\* without a word to the coordinator.
Reap(t) ==
    /\ task[t] = "dead"
    /\ task' = [task EXCEPT ![t] = "cancelled"]
    /\ UNCHANGED <<accepting, closed, deployment, coordinator, settingsVars,
                   sent>>

\* The finally of _run: report the terminal, then leave _tasks.
EndTurn(t, st) ==
    /\ task[t] = "running"
    /\ st = "cancelled" => closed
    /\ task' = [task EXCEPT ![t] = st]
    /\ TellTerminal(t, st)
    /\ UNCHANGED <<closed, deployment, settingsVars, sent>>

\* The same without a terminal: the store refused it, or shutdown cancelled
\* a task that had not started.  Nobody is told.
LoseTurn(t) ==
    /\ task[t] = "running" \/ (closed /\ task[t] = "ready")
    /\ task' = [task EXCEPT ![t] = "lost"]
    /\ UNCHANGED <<accepting, closed, deployment, coordinator, settingsVars,
                   sent>>

-----------------------------------------------------------------------------
\* Deployment leases

\* Mutant: the restart owner is not looked at.
MayGrant_DuringRestart(d) == ~closed /\ lease = None /\ d \notin used

\* A new lease needs an open gate and no restart.
MayGrant(d) ==
    /\ ~closed
    /\ lease = None
    /\ d \notin used
    /\ accepting
    /\ restartOwner = None

\* Mutant: the drain also waits for the turn that asked for a restart.
GrantLease_DrainsRestart(d) ==
    /\ MayGrant(d)
    /\ lease' = d
    /\ used' = used \cup {d}
    /\ accepting' = FALSE
    /\ draining' = [draining EXCEPT ![d] = Active \cup {restartOwner}]
    /\ asking' = asking \cup {d}
    /\ answer' = [answer EXCEPT ![d] = "none"]
    /\ UNCHANGED <<task, closed, coordinator, settingsVars, sent>>

\* prepare_deployment takes the lease and drains what runs now.
GrantLease(d) ==
    /\ MayGrant(d)
    /\ lease' = d
    /\ used' = used \cup {d}
    /\ accepting' = FALSE
    /\ draining' = [draining EXCEPT ![d] = Active]
    /\ asking' = asking \cup {d}
    /\ answer' = [answer EXCEPT ![d] = "none"]
    /\ UNCHANGED <<task, closed, coordinator, settingsVars, sent>>

\* A repeated request of the owner shares the lease.
JoinLease(d) ==
    /\ ~closed
    /\ lease = d
    /\ d \notin asking
    /\ asking' = asking \cup {d}
    /\ answer' = [answer EXCEPT ![d] = "none"]
    /\ UNCHANGED <<runtime, lease, used, draining, coordinator, settingsVars,
                   sent>>

\* Mutant: the request is answered without waiting for the drain task.
DrainDone_AtOnce(d) == TRUE

\* _drain_deployment_turns returned: every task it was given is done, a task
\* that died unstarted included.
DrainDone(d) == \A t \in draining[d] : task[t] \notin Alive

\* The request ends: drained if the lease is still its own, else an error.
AnswerPrepare(d) ==
    /\ d \in asking
    /\ DrainDone(d) \/ lease # d
    /\ asking' = asking \ {d}
    /\ answer' = [answer EXCEPT ![d] = IF lease = d THEN "drained" ELSE "released"]
    /\ UNCHANGED <<runtime, lease, used, draining, coordinator, settingsVars,
                   sent>>

\* Mutant: the lease goes, the gate stays closed.
ReleaseLease_StaysClosed(d) ==
    /\ lease = d
    /\ lease' = None
    /\ UNCHANGED <<task, accepting, closed, used, draining, asking, answer,
                   coordinator, settingsVars, sent>>

\* _release_deployment: by cancel_deployment or by the expiry task.
ReleaseLease(d) ==
    /\ lease = d
    /\ lease' = None
    /\ accepting' = (accepting \/ (~closed /\ restartOwner = None))
    /\ UNCHANGED <<task, closed, used, draining, asking, answer, coordinator,
                   settingsVars, sent>>

CancelDeployment(d) == ReleaseLease(d)
ExpireDeployment(d) == ReleaseLease(d)

-----------------------------------------------------------------------------
\* main.serve

\* SIGUSR2: quiesce_and_drain closes the gate whoever holds it.  It waits only
\* if a task is left; with none the commit frame is written in the same step.
SettingsQuiesce ==
    /\ ~closed
    /\ settings = "idle"
    /\ settings' = IF Active = {} THEN "committed" ELSE "draining"
    /\ accepting' = FALSE
    /\ awaited' = Active
    /\ UNCHANGED <<task, closed, deployment, coordinator, sent>>

\* gather has all its results: the commit frame is written.
SettingsCommit ==
    /\ ~closed
    /\ settings = "draining"
    /\ \A t \in awaited : task[t] \in Gone
    /\ settings' = "committed"
    /\ UNCHANGED <<runtime, deployment, coordinator, awaited, sent>>

\* gather meets a task that was cancelled before it started: the exception
\* ends commit_settings_restart without a commit.
SettingsAbort ==
    /\ ~closed
    /\ settings = "draining"
    /\ \E t \in awaited : task[t] = "dead"
    /\ settings' = "aborted"
    /\ UNCHANGED <<runtime, deployment, coordinator, awaited, sent>>

\* A signal, a committed restart or the end of commit_settings_restart:
\* serve cancels the runtime, which shuts down: every turn may end cancelled.
Shutdown ==
    /\ ~closed
    /\ closed' = TRUE
    /\ accepting' = FALSE
    /\ lease' = None
    /\ UNCHANGED <<task, used, draining, asking, answer, coordinator, settingsVars,
                   sent>>

Next ==
    \/ \E t \in Turns :
        \/ StartTurn(t)
        \/ BeginTurn(t)
        \/ InterruptReady(t)
        \/ Reap(t)
        \/ \E st \in Ends : EndTurn(t, st)
        \/ LoseTurn(t)
        \/ Arm(t)
        \/ MarkDelivered(t)
        \/ MarkDeliveryFailed(t)
    \/ Watchdog
    \/ \E d \in Deployments :
        \/ GrantLease(d)
        \/ JoinLease(d)
        \/ AnswerPrepare(d)
        \/ CancelDeployment(d)
        \/ ExpireDeployment(d)
    \/ SettingsQuiesce
    \/ SettingsCommit
    \/ SettingsAbort
    \/ Shutdown

Spec == Init /\ [][Next]_vars

\* The timers fire: asyncio.sleep of the watchdog and of the expiry task.
Fairness ==
    /\ WF_vars(Watchdog)
    /\ \A d \in Deployments : WF_vars(ExpireDeployment(d))

-----------------------------------------------------------------------------
\* Properties

\* The values each variable may hold.
TypeOK ==
    /\ task \in [Turns -> TaskState]
    /\ accepting \in BOOLEAN
    /\ closed \in BOOLEAN
    /\ lease \in Deployments \cup {None}
    /\ used \subseteq Deployments
    /\ draining \in [Deployments -> SUBSET Turns]
    /\ asking \subseteq Deployments
    /\ answer \in [Deployments -> {"none", "drained", "released"}]
    /\ restartOwner \in Turns \cup {None}
    /\ restart \in {"idle", "armed", "waiting", "committed", "cancelled"}
    /\ pending \in Turns \cup {None}
    /\ completed \in BOOLEAN
    /\ delivered \in BOOLEAN
    /\ settings \in {"idle", "draining", "committed", "aborted"}
    /\ awaited \subseteq Turns
    /\ sent \subseteq Turns

\* The gate is closed as long as a deployment or a restart holds it, they
\* never hold it both, and it is never closed with nobody left to open it.  The
\* runtime's restart owner is the turn whose request the coordinator has.
GateMatchesOwners ==
    /\ restartOwner = pending
    /\ lease # None \/ restartOwner # None => ~accepting
    /\ lease = None \/ restartOwner = None
    /\ ~accepting =>
        closed \/ lease # None \/ restartOwner # None \/ settings # "idle"

\* A deployer that was told "drained" and still holds the lease finds no turn
\* running: it may replace the process.
PreparedMeansQuiet ==
    \A d \in Deployments :
        answer[d] = "drained" /\ lease = d =>
            \A t \in Turns : task[t] \notin Alive

\* When a restart is committed no turn is alive, so it cuts nothing off, and, as
\* agent_restart promises (agent/tools/agent_restart.py), the reply of the turn that
\* asked for it is persisted and delivered, whatever other turns deliver or time out.
RestartIsOrderly ==
    restart = "committed" =>
        /\ \A t \in Turns : task[t] \notin Alive
        /\ task[pending] = "completed" /\ pending \in sent

\* Once committed, a restart is never withdrawn by a late timeout or a late
\* delivery failure.
CommitIsFinal == [][restart = "committed" => restart' = "committed"]_vars

\* Whoever closed the gate, it opens again or the process ends.
GateReopens ==
    ~accepting ~>
        accepting \/ closed \/ restart = "committed" \/ settings # "idle"

\* runtime.py:1456: quiesce_and_drain "stops accepting new turns" until the
\* running ones have ended.
SettingsDrainHolds == settings = "draining" => ~accepting

=============================================================================

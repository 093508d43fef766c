----------------------------- MODULE MCServices -----------------------------
(***************************************************************************)
(* One TLC instance for the services that work beside the turns: two       *)
(* protocols over a link between two processes, two durable registers of a *)
(* background loop, the rollout of a plugin, the deployment of the agent,  *)
(* the commands its shell tools start, the models it may call and its      *)
(* subagents.  They share nothing: part names the one a behaviour runs,    *)
(* the others stay in an initial state.                                    *)
(***************************************************************************)
EXTENDS Scheduler, WakeReservoir, PluginRollout, ShellExecutions

CONSTANTS Ops, MaxFaults,
          Configs, NoConfig, MaxRequests, MaxBoots,
          LastCommit,
          Scopes, MaxChanges, MaxGenerations,
          Background, Synchronous, MaxActive, MaxCancels

\* Limits and bounds are numbers, and the executions of a process are finitely many.
ASSUME LimitsAreNumbers == {MaxActive, MaxFaults} \subseteq Nat /\ MaxGenerations \in Nat \ {0}
ASSUME ScopesAreFinite == IsFiniteSet(Scopes)
\* Deployments are numbered from 1, and a missing configuration file is not one of its contents.
ASSUME CommitsAreNumbered == LastCommit \in Nat \ {0}
ASSUME NoFileIsNoConfig == NoConfig \notin Configs /\ {MaxRequests, MaxBoots} \subseteq Nat

VARIABLES part,
          receipt, audit, call, active, link, toMac, toCloud, joined, proposals, mac, run, notes, faults,
          file, api, bridge, sup, gateway, pipe, boots,
          base, ref, release, current, record, service, lease, deploy, report, proven, cut,
          log, visible, leases, retiring, scope, command, save, reload,
          worker, cancelling, slot, spawned, marked, canceller, awaiting, snapshot, messages,
          manager, cancels

Notes == INSTANCE NotesBridge WITH pending <- proposals
Settings == INSTANCE SettingsBridge
Deploy == INSTANCE Deployment WITH op <- deploy
Models == INSTANCE ModelRegistry
Spawned == INSTANCE Subagents WITH registered <- spawned, waiter <- awaiting,
                                told <- messages

notesVars == <<receipt, audit, call, active, link, toMac, toCloud, joined, proposals, mac, run,
               notes, faults>>
settingsVars == <<file, api, bridge, sup, gateway, pipe, boots>>
deploymentVars == <<base, ref, release, current, record, service, lease, deploy, report, proven,
                    cut>>
modelVars == <<log, visible, leases, retiring, scope, command, save, reload>>
spawnVars == <<worker, cancelling, slot, spawned, marked, canceller, awaiting, snapshot, messages,
               manager, cancels>>
serviceVars == <<part, notesVars, settingsVars, schedVars, wakeVars, rolloutVars,
                 deploymentVars, execVars, modelVars, spawnVars>>

ServiceInit ==
  /\ part \in {"notes", "settings", "scheduler", "wake", "rollout", "deployment", "shell",
              "models", "subagents"}
  /\ Notes!Init /\ Settings!Init /\ SchedInit /\ WakeInit
  /\ RolloutInit /\ Deploy!DeployInit /\ ExecInit /\ Models!ModelInit /\ Spawned!SubagentInit
  /\ part # "settings" => file = NoConfig
  /\ part # "rollout" => disk.stable = 0
  /\ part # "deployment" => current = 0 /\ \A c \in DOMAIN base : base[c] = 0

ServiceNext ==
  /\ UNCHANGED part
  /\ \/ /\ part = "notes" /\ Notes!Next
        /\ UNCHANGED <<settingsVars, schedVars, wakeVars, rolloutVars, deploymentVars,
                       execVars, modelVars, spawnVars>>
     \/ /\ part = "settings" /\ Settings!Next
        /\ UNCHANGED <<notesVars, schedVars, wakeVars, rolloutVars, deploymentVars,
                       execVars, modelVars, spawnVars>>
     \/ /\ part = "scheduler" /\ SchedNext
        /\ UNCHANGED <<notesVars, settingsVars, wakeVars, rolloutVars, deploymentVars,
                       execVars, modelVars, spawnVars>>
     \/ /\ part = "wake" /\ WakeNext
        /\ UNCHANGED <<notesVars, settingsVars, schedVars, rolloutVars, deploymentVars,
                       execVars, modelVars, spawnVars>>
     \/ /\ part = "rollout" /\ RolloutNext
        /\ UNCHANGED <<notesVars, settingsVars, schedVars, wakeVars, deploymentVars,
                       execVars, modelVars, spawnVars>>
     \/ /\ part = "deployment" /\ Deploy!DeployNext
        /\ UNCHANGED <<notesVars, settingsVars, schedVars, wakeVars, rolloutVars,
                       execVars, modelVars, spawnVars>>
     \/ /\ part = "shell" /\ ExecNext
        /\ UNCHANGED <<notesVars, settingsVars, schedVars, wakeVars, rolloutVars,
                       deploymentVars, modelVars, spawnVars>>
     \/ /\ part = "models" /\ Models!ModelNext
        /\ UNCHANGED <<notesVars, settingsVars, schedVars, wakeVars, rolloutVars,
                       deploymentVars, execVars, spawnVars>>
     \/ /\ part = "subagents" /\ Spawned!SubagentNext
        /\ UNCHANGED <<notesVars, settingsVars, schedVars, wakeVars, rolloutVars,
                       deploymentVars, execVars, modelVars>>

ServiceSpec == ServiceInit /\ [][ServiceNext]_serviceVars

\* Settings: an answer is credited to the generation that asked for it unless it
\* came after the wait for it was given up, and a settled save is the one the
\* Gateway runs (main.py, agent/supervisor.py).
ReloadsAreHonest ==
  part = "settings" =>
    Settings!TypeOK /\ Settings!AnswerIsFreshUnlessLate /\ Settings!SettledMeansLoaded

\* Notes: what the service, the broker and the Mac have on record about a note
\* never contradicts Apple Notes or each other (apple_notes, notes_bridge).
LedgersAgree == part = "notes" => Notes!TypeOK /\ Notes!LedgersAgree

\* Deployment: what is recorded answered its health check, the link and the record
\* part only when a run is cut short, nothing runs in a drained service and the
\* record follows the chain of promotions (deployment/controller.py).
DeploymentsAreHonest ==
  /\ [](part = "deployment" =>
          /\ Deploy!DeployTypeOK /\ Deploy!RecordIsProven
          /\ Deploy!NothingDivergesQuietly /\ Deploy!QuietWhileOurs)
  /\ Deploy!MovesAreOrderly

\* Models: an execution runs with models the database held after it had entered, a
\* command replaces what its author saw, and a retired generation is held exactly as
\* long as an execution uses it (model_runtime/registry.py, management.py).
ModelsAreHonest ==
  part = "models" => Models!ModelTypeOK /\ Models!LeasesAreExact /\ Models!ModelsAreHonest

\* Subagents: slots and snapshots are held as long as workers live, and the chat is told
\* how each background job ended (subagent_manager.py).
SubagentsAreHonest ==
  part = "subagents" => Spawned!SubagentTypeOK /\ Spawned!SlotsAreReal /\ Spawned!ChatsAreTold

\* Notes: the tools keep their promise to the user (apple_notes/service.py).
KeepsPromise == Notes!KeepsPromise
=============================================================================

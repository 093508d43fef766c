---------------------------- MODULE ModelRegistry ----------------------------
(***************************************************************************)
(* The models the agent may call.  The workspace database is written by    *)
(* two processes: the settings service under its lock                      *)
(* (bootstrap/settings_api.py) and the Gateway's model management          *)
(* (agent/model_runtime/management.py).  The Gateway builds a generation   *)
(* from it whenever an execution finds another revision than the one that  *)
(* is visible, and every execution keeps its generation to the end         *)
(* (agent/model_runtime/registry.py).  A save whose reload fails puts the  *)
(* database back.                                                          *)
(***************************************************************************)
EXTENDS Integers, Sequences, SequencesExt, FiniteSets

CONSTANTS Scopes,         \* executions
          MaxChanges,     \* bound on what the database has held
          MaxGenerations  \* bound on the generations of one Gateway process

VARIABLES log,       \* all the database has held; the last entry is what it holds
          visible,   \* ModelRegistry._current: its id, revision and models
          leases,    \* lease_count of each generation
          retiring,  \* _retired
          scope,     \* execution_scope of each execution
          command,   \* the management command in progress, and the models its author saw
          save,      \* the settings operation in progress: what it read, and its backup
          reload     \* the reload a save has asked the Gateway for

modelVars == <<log, visible, leases, retiring, scope, command, save, reload>>

Generations == 1..MaxGenerations

\* What is committed is named by its place in the log.
Entry(revision, models, over, by) ==
  [revision |-> revision, models |-> models, over |-> over, by |-> by]

Outside == [at |-> "outside", id |-> 0, models |-> 0, since |-> 0, until |-> 0]
NoCommand == [at |-> "none", revision |-> 0, models |-> 0]
NoSave == [at |-> "none", revision |-> 0, source |-> 0, backup |-> Entry(0, 0, 0, "none")]

database == Last(log)

ModelInit ==
  /\ log = <<Entry(1, 1, 0, "migration")>>
  /\ visible = [id |-> 1, revision |-> 1, models |-> 1]
  /\ leases = [g \in Generations |-> 0] /\ retiring = {}
  /\ scope = [s \in Scopes |-> Outside]
  /\ command = NoCommand /\ save = NoSave /\ reload = "none"
----------------------------------------------------------------------------
(* The Gateway: nothing else of it runs between reading the database and   *)
(* publishing what was built from it.                                      *)

\* Built from one read of the database, then published under _lock.
Publish ==
  /\ visible.id < MaxGenerations
  /\ visible' = [id |-> visible.id + 1, revision |-> database.revision,
                 models |-> database.models]
  /\ retiring' = retiring \cup {g \in {visible.id} : leases[g] > 0}

\* Mutant: only a higher revision is news.
Stale_Higher == database.revision > visible.revision

\* _refresh_from_store_if_changed
Stale == database.revision # visible.revision

Bind(s, since) ==
  /\ leases' = [leases EXCEPT ![visible.id] = @ + 1]
  /\ scope' = [scope EXCEPT ![s] = [at |-> "running", id |-> visible.id,
                                    models |-> visible.models, since |-> since,
                                    until |-> Len(log)]]

Enter(s) ==
  /\ scope[s].at = "outside"
  /\ IF Stale
     THEN /\ Publish /\ UNCHANGED leases
          /\ scope' = [scope EXCEPT ![s] = [Outside EXCEPT !.at = "notifying", !.since = Len(log)]]
     ELSE Bind(s, Len(log)) /\ UNCHANGED <<visible, retiring>>

\* The listeners of a change were awaited; one that fails ends the execution.
Notified(s) ==
  /\ scope[s].at = "notifying"
  /\ \/ Bind(s, scope[s].since)
     \/ scope' = [scope EXCEPT ![s] = Outside] /\ UNCHANGED leases

\* Mutant: a retired generation is not let go.
Leave_Keeps(s) ==
  /\ scope[s].at = "running" /\ scope' = [scope EXCEPT ![s] = Outside]
  /\ leases' = [leases EXCEPT ![scope[s].id] = @ - 1] /\ UNCHANGED retiring

Leave(s) ==
  /\ scope[s].at = "running" /\ scope' = [scope EXCEPT ![s] = Outside]
  /\ leases' = [leases EXCEPT ![scope[s].id] = @ - 1]
  /\ retiring' = {g \in retiring : leases'[g] > 0}

Restarts ==
  /\ scope' = [s \in Scopes |-> Outside] /\ command' = NoCommand
  /\ leases' = [g \in Generations |-> 0] /\ retiring' = {}
  /\ visible' = [id |-> 1, revision |-> database.revision, models |-> database.models]
  /\ reload' = IF reload = "asked" THEN "failed" ELSE reload

\* reload_model_config
Reloads ==
  /\ reload = "asked"
  /\ \/ Publish /\ reload' = "done"
     \/ reload' = "failed" /\ UNCHANGED <<visible, retiring>>

Commit(models, by) ==
  /\ Len(log) < MaxChanges
  /\ log' = Append(log, Entry(database.revision + 1, Len(log) + 1, models, by))

Look ==
  /\ command.at = "none"
  /\ command' = [at |-> "decided", revision |-> database.revision, models |-> database.models]

\* Mutant: the revision is compared before the candidate is tried, not in the transaction.
Mutate_Unchecked ==
  command.at = "decided" /\ Commit(command.models, "command") /\ command' = NoCommand

\* mutate compares in its transaction.
Mutate ==
  /\ command.at = "decided" /\ command.revision = database.revision
  /\ Commit(command.models, "command") /\ command' = NoCommand

\* execute refreshes before it answers; the refresh may fail, the commit stands.
Execute ==
  /\ Mutate
  /\ \/ /\ database'.revision # visible.revision /\ visible.id < MaxGenerations
        /\ visible' = [id |-> visible.id + 1, revision |-> database'.revision,
                       models |-> database'.models]
        /\ retiring' = retiring \cup {g \in {visible.id} : leases[g] > 0}
     \/ UNCHANGED <<visible, retiring>>

Refuse == command.at = "decided" /\ command' = NoCommand
----------------------------------------------------------------------------
(* The settings service, one operation at a time under apply_lock *)

\* The revision the page shows, with the models it was read with.
OpenPage ==
  /\ save.at = "none"
  /\ save' = [NoSave EXCEPT !.at = "open", !.revision = database.revision,
                            !.source = database.models]

\* set_role and upsert_embedding_model: the next execution finds the revision.
SetRole ==
  /\ save.at = "open" /\ save.revision = database.revision
  /\ Commit(save.source, "command") /\ save' = NoSave

\* apply: the revision is compared before the connection is tried, and not again.
Apply == save.at = "open" /\ save.revision = database.revision /\ save' = [save EXCEPT !.at = "probe"]

ReadSource ==
  save.at = "probe" /\ save' = [save EXCEPT !.at = "read", !.source = database.models]

BackUp == save.at = "read" /\ save' = [save EXCEPT !.at = "ready", !.backup = database]

\* replace_from_llm_config; with defer_restart nothing is asked of the Gateway.
Replace ==
  /\ save.at = "ready" /\ Commit(save.source, "save")
  /\ save' \in {NoSave, [save EXCEPT !.at = "replaced"]}

Ask ==
  save.at = "replaced" /\ save' = [save EXCEPT !.at = "asked"] /\ reload' = "asked"

Answered == save.at = "asked" /\ reload = "done" /\ save' = NoSave /\ reload' = "none"

\* restore_from: the revision goes back with the rest.
Restore ==
  \/ database = save.backup /\ UNCHANGED log
  \/ database # save.backup /\ Len(log) < MaxChanges /\ log' = Append(log, save.backup)

\* The write or the loading of the new configuration fails.
ReplaceFails == save.at \in {"ready", "replaced"} /\ Restore /\ save' = NoSave

\* The reload fails or is not answered in time, and is asked for again.
Withdraw ==
  /\ save.at = "asked" /\ Restore
  /\ save' = [save EXCEPT !.at = "withdrawn"] /\ reload' = "asked"

Withdrawn == save.at = "withdrawn" /\ save' = NoSave /\ reload' \in {reload, "none"}

SettingsEnd == save.at # "none" /\ save' = NoSave
----------------------------------------------------------------------------
ModelNext ==
  \/ \E s \in Scopes :
       \/ Enter(s) /\ UNCHANGED <<log, command, save, reload>>
       \/ Notified(s) /\ UNCHANGED <<log, visible, retiring, command, save, reload>>
       \/ Leave(s) /\ UNCHANGED <<log, visible, command, save, reload>>
  \/ Restarts /\ UNCHANGED <<log, save>>
  \/ Reloads /\ UNCHANGED <<log, leases, scope, command, save>>
  \/ (Look \/ Refuse) /\ UNCHANGED <<log, visible, leases, retiring, scope, save, reload>>
  \/ Execute /\ UNCHANGED <<leases, scope, save, reload>>
  \/ (OpenPage \/ Apply \/ ReadSource \/ BackUp \/ SettingsEnd)
     /\ UNCHANGED <<log, visible, leases, retiring, scope, command, reload>>
  \/ (SetRole \/ Replace \/ ReplaceFails)
     /\ UNCHANGED <<visible, leases, retiring, scope, command, reload>>
  \/ (Ask \/ Answered \/ Withdrawn)
     /\ UNCHANGED <<log, visible, leases, retiring, scope, command>>
  \/ Withdraw /\ UNCHANGED <<visible, leases, retiring, scope, command>>

ModelSpec == ModelInit /\ [][ModelNext]_modelVars
----------------------------------------------------------------------------
ModelTypeOK ==
  /\ log \in Seq([revision : Nat, models : Nat, over : Nat,
                  by : {"migration", "command", "save"}])
  /\ visible.id \in Generations /\ leases \in [Generations -> Nat]
  /\ retiring \subseteq Generations
  /\ \A s \in Scopes : scope[s].at \in {"outside", "notifying", "running"}
  /\ reload \in {"none", "asked", "done", "failed"}

\* A lease for every execution that runs, and a retired generation is held exactly as
\* long as one of its executions does (registry.py execution_scope).
LeasesAreExact ==
  /\ \A g \in Generations :
       leases[g] = Cardinality({s \in Scopes : scope[s].at = "running" /\ scope[s].id = g})
  /\ retiring = {g \in Generations : leases[g] > 0} \ {visible.id}

\* An execution runs with models the database held after it had entered
\* (registry.py _refresh_from_store_if_changed).
ScopesReadTheLatest ==
  \A s \in Scopes : scope[s].at = "running" =>
    \E i \in scope[s].since..scope[s].until : log[i].models = scope[s].models

\* A restore has put the database back and the revision was given to other models.
RevisionReused ==
  \E i, j \in DOMAIN log : log[i].revision = log[j].revision /\ log[i].models # log[j].models

\* As long as no revision is used twice, executions read the latest models, also when
\* a save was withdrawn, and a command replaces what its author saw (registry.py, management.py).
ModelsAreHonest ==
  RevisionReused \/ /\ ScopesReadTheLatest
                    /\ \A i \in 2..Len(log) : log[i].by = "command" /\ log[i].models = i
                                                => log[i].over = log[i - 1].models
=============================================================================

---------------------------- MODULE PluginRollout ----------------------------
(***************************************************************************)
(* The rollout of one installed plugin: the turn that owns an install or an*)
(* uninstall (agent/plugins/turn_rollout.py), the manager's procedures on  *)
(* the candidate, each under the manager's lock (agent/plugins/manager.py),*)
(* and what they leave on disk: the pair of pointers (artifacts.py), the   *)
(* manifest entry, the journal of transactions (reload_journal.py) and the *)
(* fact told to the next user turn.  A step is what runs between two       *)
(* durable writes; the process may die between any two steps, and the boot *)
(* decides from the disk alone (load_all).                                 *)
(* One candidate exists at a time whatever plugin it is of, so the other   *)
(* plugins only add refusals.  The loading of the stable version at boot   *)
(* and single file writes succeed; leases of the replaced snapshot end at  *)
(* any time; SnapshotStore models what happens to snapshots and endpoints. *)
(***************************************************************************)
EXTENDS Naturals, Sequences, FiniteSets

CONSTANTS Owners,    \* the turns that run plugin commands
          Operators, \* {"operator"} if plugin/promote and plugin/discard are used, or {}
          MaxRev,    \* bound: revisions of the plugin, 0 is none
          MaxTx,     \* bound: transactions begun
          MaxDeaths  \* bound: deaths of the process

\* There is a revision to install, and an operator is one who asks by name.
ASSUME RolloutIsBounded ==
  Operators \subseteq {"operator"} /\ MaxRev \in Nat \ {0} /\ {MaxTx, MaxDeaths} \subseteq Nat

VARIABLES disk,      \* .pointers.json: the stable and the latest artifact
          manifest,  \* the plugin's entry: "absent", "on" or "off"
          journal,   \* reload_transactions, each with the stable it began from
          fact,      \* plugin-rollout-fact.json: what it says, of which transaction
          up,        \* "up", "down" or "refused": load_all raised
          serving,   \* _active_generations: the revision that runs, 0 if none
          ready,     \* _ready_candidate: its transaction and its previous
          proc,      \* the procedure that holds _candidate_prepare_lock
          op,        \* _pending of the rollout, and how far its resolution is
          reverting, \* a revert waits for the lock to drop the candidate
          stage,     \* of a turn: "new", "running" or "over"
          child,     \* the attached child turn: its transaction and its owner
          deaths

rolloutVars == <<disk, manifest, journal, fact, up, serving, ready, proc, op, reverting, stage,
                 child, deaths>>

Revs == 0..MaxRev
Txs == 1..Len(journal)
NoReady == [tx |-> 0, prev |-> 0]
NoProc == [at |-> "idle", who |-> "nobody", owner |-> "nobody", cut |-> FALSE]
NoOp == [at |-> "none", owner |-> "nobody", kind |-> "install", tx |-> 0, evidence |-> FALSE]
NoChild == [tx |-> 0, owner |-> "nobody"]
NoFact == [says |-> "nothing", tx |-> 0]

\* _TRANSITIONS
Transitions ==
  [preparing      |-> {"prepared", "aborted"},
   prepared       |-> {"validating", "aborted"},
   validating     |-> {"commit_started", "aborted"},
   commit_started |-> {"latest_ready", "committed", "aborted", "recovered"},
   latest_ready   |-> {"discarding", "promoting", "aborted", "recovered"},
   discarding     |-> {"aborted"},
   promoting      |-> {"discarding", "committed", "aborted", "recovered"},
   committed      |-> {"draining", "complete", "recovered"},
   draining       |-> {"complete", "recovered"},
   complete |-> {}, aborted |-> {}, recovered |-> {}]

Phases == DOMAIN Transitions
Terminal == {p \in Phases : Transitions[p] = {}}
\* What _recovery_action discards.
DiscardPhases == {"preparing", "prepared", "validating", "latest_ready", "discarding"}
\* What install_candidate refuses to install beside.
Blocking == DiscardPhases \cup {"commit_started", "promoting"}

Phase(tx) == journal[tx].phase
Advanced(tx, phase) == [journal EXCEPT ![tx].phase = phase]
Newest == Len(journal)
Unfinished == {tx \in Txs : Phase(tx) \notin Terminal}
Staged == disk.stable # disk.latest
\* discover() offers a revision that does not run yet.
Changed == manifest # "off" /\ disk.latest \notin {0, serving}
Fact(says, tx) == [says |-> says, tx |-> tx]

RolloutInit ==
  /\ disk \in {[stable |-> r, latest |-> r] : r \in {0, 1}}
  /\ manifest = (IF disk.stable = 0 THEN "absent" ELSE "on")
  /\ journal = <<>> /\ fact = NoFact /\ up = "up" /\ serving = disk.stable
  /\ ready = NoReady /\ proc = NoProc /\ op = NoOp /\ reverting = FALSE
  /\ stage = [t \in Owners |-> "new"] /\ child = NoChild /\ deaths = 0

Idle == up = "up" /\ proc.at = "idle"
Free == Idle /\ ~reverting
At(step) == up = "up" /\ proc.at = step
Take(who, step) == proc' = [NoProc EXCEPT !.at = step, !.who = who]
Goto(step) == proc' = [proc EXCEPT !.at = step]
Release == proc' = NoProc
----------------------------------------------------------------------------
(* Staging: from the installer's files to a candidate that can be tried *)

\* install: the pair of pointers first.  A first reconcile would have found what
\* Changed, and an unfinished candidate refuses the call.
Install(t, rev) ==
  /\ Free /\ stage[t] = "running" /\ op.at = "none" /\ Newest < MaxTx
  /\ ready = NoReady /\ ~Changed /\ ~Staged
  /\ \A tx \in Txs : Phase(tx) \notin Blocking
  /\ disk' = [disk EXCEPT !.latest = rev]
  /\ proc' = [NoProc EXCEPT !.at = "manifest", !.who = "install", !.owner = t]
  /\ UNCHANGED <<manifest, journal, fact, up, serving, ready, op, reverting, stage, child, deaths>>

\* upsert_plugin_manifest, or the rollback of the pointers when it fails.
InstallListed ==
  /\ At("manifest")
  /\ \/ manifest' = "on" /\ Goto("found") /\ UNCHANGED disk
     \/ disk' = [disk EXCEPT !.latest = disk.stable] /\ Release /\ UNCHANGED manifest
  /\ UNCHANGED <<journal, fact, up, serving, ready, op, reverting, stage, child, deaths>>

\* The same revision as the one that runs: there is nothing to stage.
InstallSame ==
  /\ At("found") /\ ~Changed /\ Release
  /\ UNCHANGED <<disk, manifest, journal, fact, up, serving, ready, op, reverting, stage, child,
                 deaths>>

\* The caller of an install is gone: _complete_critical finishes the work all the
\* same, and raises when it is done.
CutInstall ==
  /\ up = "up" /\ proc.who = "install" /\ ~proc.cut
  /\ proc' = [proc EXCEPT !.cut = TRUE]
  /\ UNCHANGED <<disk, manifest, journal, fact, up, serving, ready, op, reverting, stage, child,
                 deaths>>

\* Mutant: the watcher stages beside a candidate.
Watch_BesideCandidate ==
  /\ Idle /\ Changed /\ Newest < MaxTx
  /\ Take("watcher", "found")
  /\ UNCHANGED <<disk, manifest, journal, fact, up, serving, ready, op, reverting, stage, child,
                 deaths>>

\* The watcher finds a pointer that was written before a death.
Watch ==
  /\ Idle /\ ready = NoReady /\ Changed /\ Newest < MaxTx
  /\ Take("watcher", "found")
  /\ UNCHANGED <<disk, manifest, journal, fact, up, serving, ready, op, reverting, stage, child,
                 deaths>>

\* _load_one(activate=False): the transaction begins.
Begin ==
  /\ At("found") /\ Changed
  /\ journal' = Append(journal, [rev |-> disk.latest, base |-> disk.stable, phase |-> "preparing"])
  /\ Goto("load")
  /\ UNCHANGED <<disk, manifest, fact, up, serving, ready, op, reverting, stage, child, deaths>>

\* The load, the compiled snapshot and the post-publish checks succeed in turn.
NextPhase == [load |-> "prepared", publish |-> "validating", validate |-> "commit_started"]
\* Mutant: a snapshot is opened that no check has validated.
NextStep_Unchecked == [load |-> "publish", publish |-> "open", validate |-> "open"]
NextStep == [load |-> "publish", publish |-> "validate", validate |-> "open"]
Prepare ==
  /\ proc.at \in DOMAIN NextStep /\ up = "up"
  /\ journal' = Advanced(Newest, NextPhase[proc.at])
  /\ Goto(NextStep[proc.at])
  /\ UNCHANGED <<disk, manifest, fact, up, serving, ready, op, reverting, stage, child, deaths>>

\* A candidate that does not load is aborted before its pointer is taken back...
LoadFails ==
  /\ At("load")
  /\ journal' = Advanced(Newest, "aborted") /\ Goto("unpoint")
  /\ UNCHANGED <<disk, manifest, fact, up, serving, ready, op, reverting, stage, child, deaths>>

\* ... one that fails later is aborted after it (discard_prepared and
\* _abort_failed_publication).
PublishFails ==
  /\ proc.at \in {"publish", "validate", "open"} /\ up = "up" /\ Goto("abort")
  /\ disk' = [disk EXCEPT !.latest = disk.stable]
  /\ UNCHANGED <<manifest, journal, fact, up, serving, ready, op, reverting, stage, child, deaths>>

StagingGivenUp ==
  /\ Release
  /\ \/ /\ At("unpoint") /\ disk' = [disk EXCEPT !.latest = disk.stable]
        /\ UNCHANGED journal
     \/ /\ At("abort") /\ journal' = Advanced(Newest, "aborted")
        /\ UNCHANGED disk
  /\ UNCHANGED <<manifest, fact, up, serving, ready, op, reverting, stage, child, deaths>>

\* commit_latest succeeded; unless the call was cut the rollout binds the
\* candidate to the turn that asked, whatever became of it.
CandidateReady ==
  /\ At("open") /\ Staged
  /\ journal' = Advanced(Newest, "latest_ready")
  /\ ready' = [tx |-> Newest, prev |-> serving]
  /\ op' = IF proc.who = "install" /\ ~proc.cut
             THEN [NoOp EXCEPT !.at = "open", !.owner = proc.owner, !.tx = Newest]
             ELSE op
  /\ Release
  /\ UNCHANGED <<disk, manifest, fact, up, serving, reverting, stage, child, deaths>>

\* stable = latest and nothing runs: the publication is immediate.
PublishAtOnce ==
  /\ At("open") /\ ~Staged
  /\ journal' = Advanced(Newest, "committed") /\ serving' = disk.latest /\ Goto("track")
  /\ UNCHANGED <<disk, manifest, fact, up, ready, op, reverting, stage, child, deaths>>
----------------------------------------------------------------------------
(* The turn that owns the operation *)

StartTurn(t) ==
  /\ up = "up" /\ stage[t] = "new"
  /\ stage' = [stage EXCEPT ![t] = "running"]
  /\ fact' = NoFact
  /\ UNCHANGED <<disk, manifest, journal, up, serving, ready, proc, op, reverting, child, deaths>>

Uninstall(t) ==
  /\ up = "up" /\ proc.who # "install" /\ op.at = "none"
  /\ stage[t] = "running" /\ manifest # "absent"
  /\ op' = [NoOp EXCEPT !.at = "open", !.owner = t, !.kind = "uninstall"]
  /\ UNCHANGED <<disk, manifest, journal, fact, up, serving, ready, proc, reverting, stage, child,
                 deaths>>

Revert(t) ==
  /\ up = "up" /\ stage[t] = "running" /\ op.at = "open" /\ op.owner = t
  /\ reverting' = (op.kind = "install")
  /\ op' = NoOp
  /\ UNCHANGED <<disk, manifest, journal, fact, up, serving, ready, proc, stage, child, deaths>>

\* An attached child takes a lease of the candidate; a candidate that is being
\* promoted or dropped takes none.
StartChild(t) ==
  /\ up = "up" /\ child = NoChild /\ ready.tx # 0
  /\ proc.at \notin {"seal", "promote", "point", "commit", "restore", "leases"}
  /\ op.at = "open" /\ op.kind = "install" /\ op.owner = t /\ op.tx = ready.tx
  /\ child' = [tx |-> op.tx, owner |-> t]
  /\ UNCHANGED <<disk, manifest, journal, fact, up, serving, ready, proc, op, reverting, stage,
                 deaths>>

\* What a child's terminal must match to count: _record_child_terminal.
Attested ==
  /\ op.at = "open" /\ op.kind = "install" /\ op.owner = child.owner
  /\ op.tx = child.tx /\ ready.tx = child.tx

\* The child ends; useful says that it completed and used what the candidate offers.
EndChild ==
  /\ up = "up" /\ child # NoChild
  /\ \E useful \in BOOLEAN :
       op' = IF useful /\ Attested THEN [op EXCEPT !.evidence = TRUE] ELSE op
  /\ child' = NoChild
  /\ UNCHANGED <<disk, manifest, journal, fact, up, serving, ready, proc, reverting, stage, deaths>>

\* Mutant: a turn that completed needs no evidence.
Resolution_Untried(completed) ==
  IF completed THEN IF op.kind = "install" THEN "switch" ELSE "disable"
  ELSE IF op.kind = "install" THEN "cancel" ELSE "none"

\* What _resolve_parent does about an operation when its turn ends.
Resolution(completed) ==
  IF op.kind = "install" THEN IF completed /\ op.evidence THEN "switch" ELSE "cancel"
  ELSE IF completed THEN "disable" ELSE "none"

Sealed(completed) ==
  IF Resolution(completed) = "none" THEN NoOp ELSE [op EXCEPT !.at = Resolution(completed)]

\* turn_terminal, after the owner let go of the lease.
EndTurn(t) ==
  /\ up = "up" /\ stage[t] = "running"
  /\ stage' = [stage EXCEPT ![t] = "over"]
  /\ \E completed \in BOOLEAN :
       op' = IF op.at = "open" /\ op.owner = t THEN Sealed(completed) ELSE op
  /\ UNCHANGED <<disk, manifest, journal, fact, up, serving, ready, proc, reverting, child, deaths>>
----------------------------------------------------------------------------
(* Dropping the candidate: _drop_ready *)

\* Who asks for the candidate to be dropped, each after it got the lock.
Droppers ==
  Operators \cup (IF reverting THEN {"revert"} ELSE {})
    \cup (IF op.at \in {"cancel", "clean", "drain"} THEN {"resolve"} ELSE {})
    \cup (IF manifest = "off" THEN {"watcher"} ELSE {})

\* The journal first, unless an earlier attempt got as far.
Discarded(tx) ==
  IF Phase(tx) \in {"latest_ready", "promoting"} THEN Advanced(tx, "discarding") ELSE journal

Drop ==
  /\ Idle /\ ready.tx # 0
  /\ \E who \in Droppers : Take(who, "restore")
  /\ journal' = Discarded(ready.tx)
  /\ UNCHANGED <<disk, manifest, fact, up, serving, ready, op, reverting, stage, child, deaths>>

\* The pointers that belong to the candidate: _ready_artifact_pointers.
Candidate == journal[ready.tx].rev
Pair(stable, latest) == [stable |-> stable, latest |-> latest]
Promotable == disk \in {Pair(ready.prev, Candidate), Pair(Candidate, Candidate)}
Restorable == Promotable \/ disk = Pair(ready.prev, ready.prev)

\* How a drop ends for whoever asked for it.
DropEnds(done) ==
  /\ reverting' = (reverting /\ proc.who # "revert")
  /\ IF proc.who # "resolve" THEN Release /\ UNCHANGED <<op, fact>>
     ELSE IF op.at = "drain" /\ done THEN Goto("deactivate") /\ UNCHANGED <<op, fact>>
     ELSE /\ Release /\ op' = NoOp
          /\ fact' = CASE op.at = "cancel" /\ done -> Fact("kept", ready.tx)
                       [] op.at = "clean" -> fact
                       [] OTHER -> Fact("failed", ready.tx)

\* Mutant: only the latest pointer is taken back.
Restore_LatestOnly ==
  /\ At("restore") /\ Restorable
  /\ disk' = [disk EXCEPT !.latest = disk.stable]
  /\ Goto("leases")
  /\ UNCHANGED <<manifest, journal, fact, up, serving, ready, op, reverting, stage, child, deaths>>

Restore ==
  /\ At("restore") /\ Restorable
  /\ disk' = Pair(ready.prev, ready.prev)
  /\ Goto("leases")
  /\ UNCHANGED <<manifest, journal, fact, up, serving, ready, op, reverting, stage, child, deaths>>

\* Another installation moved the pointers: the candidate stays, as discarding.
RestoreFails ==
  /\ At("restore") /\ ~Restorable /\ DropEnds(FALSE)
  /\ UNCHANGED <<disk, manifest, journal, up, serving, ready, stage, child, deaths>>

\* discard_latest waits for the validation leases.
Dropped ==
  /\ At("leases") /\ child.tx # ready.tx
  /\ journal' = Advanced(ready.tx, "aborted")
  /\ ready' = NoReady
  /\ DropEnds(TRUE)
  /\ UNCHANGED <<disk, manifest, up, serving, stage, child, deaths>>

\* There is nothing to drop: _require_ready_candidate raises.
NothingToDrop ==
  /\ Idle /\ ready.tx = 0 /\ (reverting \/ op.at \in {"cancel", "clean", "switch"})
  /\ IF reverting THEN reverting' = FALSE /\ UNCHANGED <<op, fact>>
     ELSE /\ op' = NoOp /\ UNCHANGED reverting
          /\ fact' = IF op.at = "clean" THEN fact ELSE Fact("failed", 0)
  /\ UNCHANGED <<disk, manifest, journal, up, serving, ready, proc, stage, child, deaths>>
----------------------------------------------------------------------------
(* Promoting the candidate: switch_ready, for the turn or for an operator *)

Seal ==
  /\ Idle /\ ready.tx # 0
  /\ \E who \in Operators \cup (IF op.at = "switch" THEN {"resolve"} ELSE {}) : Take(who, "seal")
  /\ UNCHANGED <<disk, manifest, journal, fact, up, serving, ready, op, reverting, stage, child,
                 deaths>>

\* A switch that fails leaves the candidate; the resolution then tries to drop it.
SwitchFails ==
  /\ Release
  /\ IF proc.who = "resolve"
       THEN /\ fact' = Fact("failed", ready.tx)
            /\ op' = IF Phase(ready.tx) \in {"latest_ready", "promoting"}
                       THEN [op EXCEPT !.at = "clean"] ELSE NoOp
       ELSE UNCHANGED <<fact, op>>

\* A changed KV store, skill links that cannot be prepared.
SwitchRefused ==
  /\ At("seal") /\ SwitchFails
  /\ UNCHANGED <<disk, manifest, journal, up, serving, ready, reverting, stage, child, deaths>>

\* wait_for_no_leases; then the production resources come up, or the candidate is
\* dropped on the spot.
Quiet ==
  /\ At("seal") /\ child.tx # ready.tx
  /\ \/ Goto("promote") /\ UNCHANGED journal
     \/ Goto("restore") /\ journal' = Discarded(ready.tx)
  /\ UNCHANGED <<disk, manifest, fact, up, serving, ready, op, reverting, stage, child, deaths>>

\* before_open: the journal, the pointers, the KV store.
Promote ==
  /\ At("promote") /\ Goto("point")
  /\ journal' = IF Phase(ready.tx) = "latest_ready" THEN Advanced(ready.tx, "promoting") ELSE journal
  /\ UNCHANGED <<disk, manifest, fact, up, serving, ready, op, reverting, stage, child, deaths>>

\* The old snapshot stays; with changed endpoints the candidate is dropped at once.
PromotionFails ==
  \/ SwitchFails /\ UNCHANGED journal
  \/ Goto("restore") /\ journal' = Discarded(ready.tx) /\ UNCHANGED <<fact, op>>

Point ==
  /\ At("point")
  /\ \/ /\ Promotable /\ disk' = Pair(Candidate, Candidate) /\ Goto("commit")
        /\ UNCHANGED <<journal, fact, op>>
     \/ ~Promotable /\ PromotionFails /\ UNCHANGED disk
  /\ UNCHANGED <<manifest, up, serving, ready, reverting, stage, child, deaths>>

\* kv_store.commit raises after the pointers moved.
CommitFails ==
  /\ At("commit") /\ PromotionFails
  /\ UNCHANGED <<disk, manifest, up, serving, ready, reverting, stage, child, deaths>>

\* after_open, and _track_reload_drain in two writes; nothing is left to drain if
\* there was no snapshot before or its last lease has ended.
SwitchCommits ==
  /\ At("commit")
  /\ journal' = Advanced(ready.tx, "committed")
  /\ serving' = Candidate /\ ready' = NoReady /\ Goto("track")
  /\ UNCHANGED <<disk, manifest, fact, up, op, reverting, stage, child, deaths>>

Committed == CHOOSE tx \in Txs : Phase(tx) = "committed"
Track ==
  /\ At("track")
  /\ \E phase \in {"draining", "complete"} : journal' = Advanced(Committed, phase)
  /\ IF proc.who = "resolve"
       THEN op' = NoOp /\ fact' = Fact("switched", Committed)
       ELSE UNCHANGED <<op, fact>>
  /\ Release
  /\ UNCHANGED <<disk, manifest, up, serving, ready, reverting, stage, child, deaths>>

\* _finish_drained_reload: the last lease of the replaced snapshot ended.
Drained(tx) ==
  /\ up = "up" /\ Phase(tx) = "draining"
  /\ journal' = Advanced(tx, "complete")
  /\ UNCHANGED <<disk, manifest, fact, up, serving, ready, proc, op, reverting, stage, child, deaths>>
----------------------------------------------------------------------------
(* Removing the plugin: _uninstall_plugin *)

Resolves(from, to) == up = "up" /\ op.at = from /\ op' = [op EXCEPT !.at = to]

Disable ==
  /\ Resolves("disable", "drain")
  /\ manifest' = "off"
  /\ UNCHANGED <<disk, journal, fact, up, serving, ready, proc, reverting, stage, child, deaths>>

\* reconcile_disabled_and_drain: without a candidate the active version goes at once.
Deactivate ==
  /\ \/ Idle /\ ready = NoReady /\ op.at = "drain"
     \/ At("deactivate")
  /\ serving' = 0
  /\ Take("resolve", "drain")
  /\ UNCHANGED <<disk, manifest, journal, fact, up, ready, op, reverting, stage, child, deaths>>

\* The watcher, too, takes out a version that the manifest disables.
WatcherDeactivates ==
  /\ Idle /\ ready = NoReady /\ manifest = "off" /\ serving # 0
  /\ serving' = 0
  /\ UNCHANGED <<disk, manifest, journal, fact, up, ready, proc, op, reverting, stage, child, deaths>>

\* Every replaced version has drained, which also completes its transaction.
Removable ==
  /\ At("drain") /\ \A tx \in Txs : Phase(tx) # "draining"
  /\ Release /\ Resolves("drain", "remove")
  /\ UNCHANGED <<disk, manifest, journal, fact, up, serving, ready, reverting, stage, child, deaths>>

\* finalize_uninstall_plugin: the artifacts with their pointers, then the entry.
RemoveArtifacts ==
  /\ Resolves("remove", "forget")
  /\ disk' = Pair(0, 0)
  /\ UNCHANGED <<manifest, journal, fact, up, serving, ready, proc, reverting, stage, child, deaths>>

Forget ==
  /\ up = "up" /\ op.at = "forget"
  /\ manifest' = "absent" /\ fact' = Fact("removed", 0) /\ op' = NoOp
  /\ UNCHANGED <<disk, journal, up, serving, ready, proc, reverting, stage, child, deaths>>
----------------------------------------------------------------------------
(* Deaths and boots *)

\* Memory is lost: what remains is on disk.
HostDies ==
  /\ up # "refused" /\ deaths < MaxDeaths /\ deaths' = deaths + 1
  /\ up' = "down" /\ serving' = 0 /\ ready' = NoReady /\ proc' = NoProc /\ op' = NoOp
  /\ reverting' = FALSE /\ child' = NoChild
  /\ stage' = [t \in Owners |-> IF stage[t] = "running" THEN "over" ELSE stage[t]]
  /\ UNCHANGED <<disk, manifest, journal, fact>>

\* What load_all reads off the disk about an unfinished transaction.
Rev(tx) == journal[tx].rev
Switching(tx) == Phase(tx) \in {"commit_started", "promoting"}
\* Mutant: the latest pointer decides at boot.
SwitchedOnDisk_Latest(tx) == Phase(tx) \notin DiscardPhases /\ disk.latest = Rev(tx)

SwitchedOnDisk(tx) == Phase(tx) \notin DiscardPhases /\ disk.stable = Rev(tx)
PointsBack(tx) ==
  /\ Staged /\ disk.latest = Rev(tx)
  /\ Phase(tx) \in DiscardPhases \/ Switching(tx)
GivenUp(tx) ==
  /\ ~Staged
  /\ Phase(tx) \in DiscardPhases \/ (Switching(tx) /\ disk.stable # Rev(tx))

\* _discard_recovery_pointer
BootPointsBack ==
  /\ up = "down" /\ Cardinality(Unfinished) = 1
  /\ \E tx \in Unfinished : ~SwitchedOnDisk(tx) /\ PointsBack(tx)
  /\ disk' = [disk EXCEPT !.latest = disk.stable]
  /\ UNCHANGED <<manifest, journal, fact, up, serving, ready, proc, op, reverting, stage, child,
                 deaths>>

\* finish_recovery and the fact.  A transaction that was switching is aborted when
\* this boot took the pointer back, recovered when an earlier one had.
BootGivesUp ==
  /\ up = "down" /\ Cardinality(Unfinished) = 1
  /\ \E tx \in Unfinished :
       /\ GivenUp(tx)
       /\ \E phase \in {"aborted"} \cup (IF Switching(tx) THEN {"recovered"} ELSE {}) :
            journal' = Advanced(tx, phase)
       /\ fact' = Fact("kept", tx)
  /\ UNCHANGED <<disk, manifest, up, serving, ready, proc, op, reverting, stage, child, deaths>>

\* The stable version is loaded unless it is disabled; a transaction that had
\* switched is finished then.
BootLoads ==
  /\ up = "down"
  /\ serving' = IF manifest = "off" THEN 0 ELSE disk.stable
  /\ up' = "up"
  /\ \/ Unfinished = {} /\ UNCHANGED <<journal, fact>>
     \/ /\ Cardinality(Unfinished) = 1
        /\ \E tx \in Unfinished :
             /\ SwitchedOnDisk(tx) /\ manifest # "off"
             /\ journal' = Advanced(tx, "recovered")
             /\ fact' = Fact("committed", tx)
  /\ UNCHANGED <<disk, manifest, ready, proc, op, reverting, stage, child, deaths>>

\* load_all raises: two unfinished transactions, pointers that are neither's, or a
\* switched version that is disabled.  The next boot finds the same.
BootRefuses ==
  /\ up = "down"
  /\ \/ Cardinality(Unfinished) > 1
     \/ \E tx \in Unfinished :
          IF SwitchedOnDisk(tx) THEN manifest = "off" ELSE ~PointsBack(tx) /\ ~GivenUp(tx)
  /\ up' = "refused"
  /\ UNCHANGED <<disk, manifest, journal, fact, serving, ready, proc, op, reverting, stage, child,
                 deaths>>
----------------------------------------------------------------------------
RolloutNext ==
  \/ \E t \in Owners : \/ \E rev \in 1..MaxRev : Install(t, rev)
                       \/ StartTurn(t) \/ Uninstall(t) \/ Revert(t) \/ StartChild(t) \/ EndTurn(t)
  \/ InstallListed \/ InstallSame \/ CutInstall \/ Watch \/ Begin \/ Prepare
  \/ LoadFails \/ PublishFails \/ StagingGivenUp \/ CandidateReady \/ PublishAtOnce
  \/ EndChild
  \/ Drop \/ Restore \/ RestoreFails \/ Dropped \/ NothingToDrop
  \/ Seal \/ SwitchRefused \/ Quiet \/ Promote \/ Point \/ CommitFails \/ SwitchCommits \/ Track
  \/ \E tx \in Txs : Drained(tx)
  \/ Disable \/ Deactivate \/ WatcherDeactivates \/ Removable \/ RemoveArtifacts \/ Forget
  \/ HostDies \/ BootPointsBack \/ BootGivesUp \/ BootLoads \/ BootRefuses

RolloutSpec == RolloutInit /\ [][RolloutNext]_rolloutVars
----------------------------------------------------------------------------
\* The values the variables take.
RolloutTypeOK ==
  /\ disk \in [stable : Revs, latest : Revs] /\ manifest \in {"absent", "on", "off"}
  /\ Newest <= MaxTx /\ \A tx \in Txs : journal[tx] \in [rev : Revs, base : Revs, phase : Phases]
  /\ fact \in [says : {"nothing", "kept", "failed", "switched", "removed", "committed"},
               tx : 0..MaxTx]
  /\ up \in {"up", "down", "refused"} /\ serving \in Revs
  /\ ready.tx \in 0..Newest /\ child.tx \in 0..Newest /\ op.tx \in 0..Newest
  /\ reverting \in BOOLEAN /\ stage \in [Owners -> {"new", "running", "over"}]
  /\ deaths \in 0..MaxDeaths

\* Outside a switch or a drop that is under way the version that runs is the one
\* the next boot would load, and a candidate that can be tried is the one the disk
\* calls latest (manager.py switch_ready, _drop_ready).
Undecided == \E tx \in Unfinished : Phase(tx) \in {"promoting", "discarding", "committed"}
DiskAgrees ==
  /\ up = "up" /\ ~Undecided /\ serving # 0 => disk.stable = serving
  /\ ready.tx # 0 /\ Phase(ready.tx) = "latest_ready" => disk.latest = Candidate /\ Staged

\* At most one transaction has not reached its commit, and while the process runs
\* it belongs to the procedure at work or to the ready candidate
\* (manager.py install_candidate).
OneCandidate ==
  \A tx \in Txs :
    Phase(tx) \in Blocking =>
      /\ \A other \in Txs : Phase(other) \in Blocking => other = tx
      /\ up = "up" => tx = ready.tx \/ (tx = Newest /\ proc.at # "idle")

\* Whatever point the process dies at, a boot can go on from the journal: the
\* acceptance table of docs/design/plugin-install-uninstall-turn-boundary-rollout.md,
\* "any crash point" (manager.py load_all).
BootAlwaysRecovers == up # "refused"

\* No handler ever asks the journal for a jump that it refuses (reload_journal.py).
JournalMovesForward ==
  [][\A tx \in Txs : Phase(tx)' # Phase(tx) => Phase(tx)' \in Transitions[Phase(tx)]]_journal

\* The stable pointer moves to a version only for an operator or for the turn whose
\* child used that very candidate, and back or away only when it is dropped or
\* removed, which nobody uses any more (turn_rollout.py, manager.py).
Validated ==
  proc.who \in Operators \/ (op.at = "switch" /\ op.evidence /\ op.tx = ready.tx)
StableMovesByRight ==
  [][disk'.stable # disk.stable =>
       \/ proc.at = "point" /\ Validated
       \/ proc.at = "restore" /\ disk'.stable = ready.prev
       \/ disk'.stable = 0 /\ serving = 0 /\ ready = NoReady]_disk

\* A fact is so when it is written, but for one case at boot: a rejected promotion
\* whose pointers had moved and were not back when the process died
\* (manager.py _write_startup_recovery_fact, turn_rollout.py _write_fact).
FactHolds ==
  CASE fact.says = "kept" -> disk.stable = journal[fact.tx].base
    [] fact.says \in {"switched", "committed"} -> disk.stable = Rev(fact.tx) /\ serving = Rev(fact.tx)
    [] fact.says = "removed" -> disk = Pair(0, 0) /\ serving = 0 /\ manifest = "absent"
    [] OTHER -> TRUE

MovedAndRejected == \E tx \in Txs : Phase(tx) = "discarding" /\ disk.stable = Rev(tx)
FactsAreTrue == [][fact' # fact /\ ~MovedAndRejected => FactHolds']_fact

\* The version that runs is the one the next boot would load, one candidate at a time is
\* neither promoted nor given up, the journal takes no jump, the stable pointer moves only
\* to a version that was tried, and what the next turn is told is so
\* (manager.py, artifacts.py, turn_rollout.py).
RolloutIsHonest ==
  /\ [](RolloutTypeOK /\ DiskAgrees /\ OneCandidate)
  /\ JournalMovesForward /\ StableMovesByRight /\ FactsAreTrue
=============================================================================

---------------------------- MODULE SnapshotStore ----------------------------
(***************************************************************************)
(* RuntimeSnapshotStore and the procedures of PluginManager that publish   *)
(* through it.  A snapshot names one generation of every loaded plugin; a  *)
(* turn, job, event or tick leases a snapshot and keeps it until it ends.  *)
(*                                                                         *)
(* The manager's procedures hold _candidate_prepare_lock, so one of them   *)
(* runs at a time (op); leases, drain tasks and waiters run at any await   *)
(* of it.  What runs between two awaits is one action.  Snapshots are      *)
(* numbered in the order they are compiled, and a generation is the pair   *)
(* of its plugin and the snapshot that brought it.                         *)
(***************************************************************************)
EXTENDS Naturals, FiniteSets, FiniteSetsExt

CONSTANTS
    PluginCount,    \* plugins, numbered in the order of snapshot.generations
    Installed,      \* plugins from the installer: a new version is staged as latest
    Endpoints,      \* plugins that own managed services or channels
    Holders,        \* turns, jobs, events and ticks
    Forks,          \* holders that fork the lease of a holder that acquired its own
    MaxSnapshots, MaxMishaps,
    Publisher       \* the manager's procedure, as a waiter of the condition

ASSUME CountAssumption ==
    PluginCount \in Nat \ {0} /\ MaxSnapshots \in Nat \ {0} /\ MaxMishaps \in Nat
ASSUME PluginsAssumption ==
    Installed \subseteq 1 .. PluginCount /\ Endpoints \subseteq 1 .. PluginCount
ASSUME HoldersAssumption == 
    IsFiniteSet(Holders) /\ Forks \subseteq Holders /\ Publisher \notin Holders

Plugins == 1 .. PluginCount
Snapshots == 1 .. MaxSnapshots
Generations == Plugins \X Snapshots

VARIABLES
    made,       \* snapshots compiled so far
    gens,       \* gens[s][p]: the generation of p in s, 0 when p is not in s
    state, accepting, leases,   \* state, accepting_leases, lease_count
    uses,       \* lease_count of a generation
    current, latest,            \* _current, _latest
    holder,     \* the snapshot a holder leases, 0 when none
    want,       \* the selector of a waiting acquire
    asleep,     \* who waits for the condition and was not notified
    drain,      \* the drain task: no, made, runs, stopping (cancelled), lost
    hand,       \* the plugin whose generation the drain task disposes, or 0
    failed,     \* _drain_failures
    begun,      \* how often the disposal of a generation was started
    closed,     \* generations disposed
    draining,   \* _draining_generations
    previous, phase,            \* of a candidate: transaction.previous, journal
    tx, early,  \* _drain_transactions, _drained_before_commit
    ready,      \* _ready_candidate
    op, mishaps

published == <<made, gens, state, accepting, current, latest>>
counts == <<leases, uses>>
store == <<published, counts>>
readers == <<holder, want>>
drains == <<drain, hand, failed, begun, closed, draining>>
journal == <<previous, phase, tx, early>>
vars == <<store, readers, asleep, drains, journal, ready, op, mishaps>>

\* A procedure of a kind at a step, and the lock when nobody has it.
Procedure(at, kind, cand, plugin, endpoint) ==
    [at |-> at, kind |-> kind, cand |-> cand, plugin |-> plugin, endpoint |-> endpoint,
     awaits |-> {}, left |-> {}]
Idle == Procedure("idle", "none", 0, 0, FALSE)

\* install: the first snapshot holds the first generation of every plugin.
Init ==
    /\ made = 1
    /\ gens = [s \in Snapshots |-> [p \in Plugins |-> IF s = 1 THEN 1 ELSE 0]]
    /\ state = [s \in Snapshots |-> IF s = 1 THEN "committed" ELSE "compiled"]
    /\ accepting = [s \in Snapshots |-> TRUE]
    /\ leases = [s \in Snapshots |-> 0]
    /\ uses = [g \in Generations |-> 0]
    /\ current = 1 /\ latest = 1
    /\ holder = [h \in Holders |-> 0]
    /\ want = [h \in Holders |-> "none"]
    /\ asleep = {}
    /\ drain = [s \in Snapshots |-> "no"] /\ hand = [s \in Snapshots |-> 0]
    /\ failed = {} /\ begun = [g \in Generations |-> 0]
    /\ closed = {} /\ draining = {}
    /\ previous = [s \in Snapshots |-> 0]
    /\ phase = [s \in Snapshots |-> "none"]
    /\ tx = [s \in Snapshots |-> 0] /\ early = {}
    /\ ready = 0 /\ op = Idle /\ mishaps = 0

GenerationsOf(s) == {<<p, gens[s][p]>> : p \in {q \in Plugins : gens[s][q] # 0}}

Mishap == mishaps < MaxMishaps /\ mishaps' = mishaps + 1

NotifyAll == asleep' = {}

-----------------------------------------------------------------------------
\* Drains

\* Mutant: release_lease schedules before it counts the lease down.
Drainable_Stale(s, st, ls) == st[s] \in {"retired", "aborted"} /\ leases[s] = 0

\* _schedule_drain does something only then.
Drainable(s, st, ls) == st[s] \in {"retired", "aborted"} /\ ls[s] = 0

\* _schedule_drain of the snapshots S, under the states st and lease counts ls.
Schedule(S, st, ls) ==
    LET new == {s \in S : Drainable(s, st, ls) /\ drain[s] \in {"no", "lost"}}
    IN  /\ drain' = [s \in Snapshots |-> IF s \in new THEN "made" ELSE drain[s]]
        /\ failed' = failed \ new

\* Mutant: a retired snapshot that is still leased does not count.
ReferencedElsewhere_Retired(g, s) ==
    \E t \in Snapshots \ {s} :
        state[t] \in {"validating", "committed"} /\ g \in GenerationsOf(t)

\* generation_is_referenced_elsewhere
ReferencedElsewhere(g, s) ==
    \E t \in Snapshots \ {s} :
        /\ state[t] \in {"validating", "committed"} \/ leases[t] > 0
        /\ g \in GenerationsOf(t)

\* The generation whose disposal a drain task waits for.
InHand(s) == IF hand[s] = 0 THEN {} ELSE {<<hand[s], gens[s][hand[s]]>>}

\* The disposal in hand ends.  scope.aclose returns at once to the second of two tasks
\* that dispose the same generation, so the scope may stay open until the other ends.
Disposed(s) ==
    \/ closed' = closed \cup InHand(s)
    \/ /\ \E t \in Snapshots \ {s} : InHand(t) \cap InHand(s) # {}
       /\ closed' = closed

\* The plugins the loop of _on_snapshot_drained has yet to dispose.
StillToDispose(s) ==
    {p \in Plugins : /\ p > hand[s] /\ gens[s][p] # 0
                     /\ ~ReferencedElsewhere(<<p, gens[s][p]>>, s)}

\* Mutant: a drain that precedes the end of its commit leaves no trace.
FinishDrainedReload_Forgets(s) ==
    /\ tx' = [tx EXCEPT ![s] = 0]
    /\ phase' = [c \in Snapshots |->
                    IF c = tx[s] /\ phase[c] = "draining" THEN "complete" ELSE phase[c]]
    /\ UNCHANGED early

\* _finish_drained_reload
FinishDrainedReload(s) ==
    /\ tx' = [tx EXCEPT ![s] = 0]
    /\ early' = early \cup {t \in {s} : tx[s] # 0 /\ phase[tx[s]] = "moving"}
    /\ phase' = [c \in Snapshots |->
                    IF c = tx[s] /\ phase[c] = "draining" THEN "complete" ELSE phase[c]]

\* The drain task ends: the drained snapshot is forgotten, waiters are woken.
DrainEnds(s) ==
    /\ drain' = [drain EXCEPT ![s] = "no"] /\ hand' = [hand EXCEPT ![s] = 0]
    /\ NotifyAll
    /\ UNCHANGED <<made, gens, accepting, current, latest, counts>>

\* _run_drain and _on_snapshot_drained up to the next disposal or the end.
DrainGoes(s) ==
    /\ drain[s] \in {"made", "runs"}
    /\ Disposed(s) /\ draining' = draining \ InHand(s)
    /\ \/ /\ StillToDispose(s) # {}
          /\ LET p == Min(StillToDispose(s)) IN
                /\ hand' = [hand EXCEPT ![s] = p]
                /\ begun' = [begun EXCEPT ![<<p, gens[s][p]>>] = Min({@ + 1, 2})]
          /\ drain' = [drain EXCEPT ![s] = "runs"]
          /\ UNCHANGED <<store, asleep, journal, failed>>
       \/ /\ StillToDispose(s) = {}
          /\ DrainEnds(s) /\ state' = [state EXCEPT ![s] = "gone"]
          /\ FinishDrainedReload(s)
          /\ UNCHANGED <<failed, begun, previous>>
    /\ UNCHANGED <<readers, ready, op, mishaps>>

\* The task was cancelled: it completes the disposal in hand, then fails.
DrainStops(s) ==
    /\ drain[s] = "stopping"
    /\ DrainEnds(s) /\ failed' = failed \cup {s}
    /\ Disposed(s)
    /\ UNCHANGED <<state, begun, draining, readers, journal, ready, op, mishaps>>

\* The skill catalog of the snapshot cannot be closed.
DrainFails(s) ==
    /\ drain[s] = "made" /\ Mishap
    /\ DrainEnds(s) /\ failed' = failed \cup {s}
    /\ UNCHANGED <<state, begun, closed, draining, readers, journal, ready, op>>

-----------------------------------------------------------------------------
\* Leases

Selected(selector) == IF selector = "stable" THEN current ELSE latest

\* Mutant: the generations are not counted.
Claim_Snapshot(h, s) ==
    /\ holder' = [holder EXCEPT ![h] = s]
    /\ leases' = [leases EXCEPT ![s] = @ + 1] /\ UNCHANGED uses

\* _claim_lease, by holder h
Claim(h, s) ==
    /\ holder' = [holder EXCEPT ![h] = s]
    /\ leases' = [leases EXCEPT ![s] = @ + 1]
    /\ uses' = [g \in Generations |->
                  IF g \in GenerationsOf(s) THEN uses[g] + 1 ELSE uses[g]]

\* Mutant: a paused snapshot still takes leases.
Leasable_Paused(s) == state[s] = "committed"

Leasable(s) == state[s] = "committed" /\ accepting[s]

\* The loop body of acquire: a lease, an error, or (another) wait.
TryAcquire(h, selector) ==
    LET s == Selected(selector) IN
    /\ \/ /\ Leasable(s) /\ Claim(h, s)
          /\ want' = [want EXCEPT ![h] = "none"] /\ UNCHANGED asleep
       \/ /\ ~Leasable(s) /\ state[s] = "committed"
          /\ want' = [want EXCEPT ![h] = selector] /\ asleep' = asleep \cup {h}
          /\ UNCHANGED <<holder, leases, uses>>
       \/ /\ state[s] # "committed"
          /\ want' = [want EXCEPT ![h] = "none"]
          /\ UNCHANGED <<holder, leases, uses, asleep>>
    /\ UNCHANGED <<published, drains, journal, ready, op, mishaps>>

Acquire(h, selector) ==
    h \notin Forks /\ holder[h] = 0 /\ want[h] = "none" /\ TryAcquire(h, selector)

Wake(h) == want[h] # "none" /\ h \notin asleep /\ TryAcquire(h, want[h])

\* The waiting turn is cancelled.
AcquireCancelled(h) ==
    /\ want[h] # "none" /\ want' = [want EXCEPT ![h] = "none"]
    /\ asleep' = asleep \ {h}
    /\ UNCHANGED <<store, holder, drains, journal, ready, op, mishaps>>

\* fork_lease of h's lease for i
Fork(h, i) ==
    /\ h \notin Forks /\ i \in Forks /\ holder[h] # 0 /\ holder[i] = 0
    /\ state[holder[h]] # "gone"
    /\ Claim(i, holder[h])
    /\ UNCHANGED <<published, want, asleep, drains, journal, ready, op, mishaps>>

\* release and release_lease
Release(h) ==
    LET s == holder[h] IN
    /\ s # 0
    /\ holder' = [holder EXCEPT ![h] = 0]
    /\ leases' = [leases EXCEPT ![s] = @ - 1]
    /\ uses' = [g \in Generations |->
                  IF g \in GenerationsOf(s) THEN uses[g] - 1 ELSE uses[g]]
    /\ Schedule({s}, state, leases')
    /\ NotifyAll
    /\ UNCHANGED <<published, want, hand,
                   begun, closed, draining, journal, ready, op, mishaps>>

-----------------------------------------------------------------------------
\* The manager's procedures

\* The procedure goes on at a.
Goto(a) == op' = [op EXCEPT !.at = a]

\* It raises, or is cancelled, and gives the lock back.
Raise == op' = Idle

Continue == op' = [Idle EXCEPT !.at = "reconciled"]

Pause(S) == accepting' = [s \in Snapshots |-> s \notin S /\ accepting[s]]

\* Mutant: nobody is told that admission is open again.
Resume_Silent(S) ==
    /\ accepting' = [s \in Snapshots |-> s \in S \/ accepting[s]] /\ UNCHANGED asleep

\* resume of the snapshots S, which are committed, and stable or latest
Resume(S) ==
    /\ accepting' = [s \in Snapshots |-> s \in S \/ accepting[s]] /\ NotifyAll

\* What the procedure waits for in the condition.
Blocked ==
    \/ op.at = "quiesce" /\ leases[current] > 0
    \/ op.at \in {"seal", "drop"} /\ leases[op.cand] > 0
    \/ op.at = "uses" /\ uses[<<op.plugin, Min(op.left)>>] > 0

Waits == /\ Blocked /\ Publisher \notin asleep
         /\ asleep' = asleep \cup {Publisher}
         /\ UNCHANGED <<store, readers, drains, journal, ready, op, mishaps>>

\* wait_for_no_leases is left.
Admitted == ~Blocked /\ Publisher \notin asleep

\* Whether the endpoints of p change hands; the endpoints of a staged candidate wait
\* for its promotion.
EndpointChange(kind, p) ==
    IF p \notin Endpoints \/ kind = "stage" THEN {FALSE}
    ELSE IF kind \in {"disable", "remove"} THEN {TRUE} ELSE BOOLEAN

\* _compile_generation_snapshot or _compile_topology_snapshot, then pause_admission
\* when a service or channel of the plugin changes hands.
Compile(kind, p, endpoint) ==
    LET s == made + 1 IN
    /\ op.at = IF kind = "remove" THEN "idle" ELSE "reconciled"
    /\ ready = 0 /\ made < MaxSnapshots
    /\ kind \in {"disable", "remove"} => gens[current][p] # 0
    /\ kind \in IF p \in Installed THEN {"stage", "disable", "remove"}
                                   ELSE {"replace", "disable", "remove"}
    /\ endpoint \in EndpointChange(kind, p)
    /\ made' = s
    /\ gens' = [gens EXCEPT ![s] = [gens[current] EXCEPT
                    ![p] = IF kind \in {"disable", "remove"} THEN 0 ELSE s]]
    /\ op' = Procedure(IF endpoint THEN "quiesce" ELSE "begin", kind, s, p, endpoint)
    /\ Pause(IF endpoint THEN {current} ELSE {})
    /\ UNCHANGED <<state, counts, current, latest, readers, asleep, drains, journal,
                   ready, mishaps>>

\* No lease is left on the paused snapshot.
Quiesced ==
    /\ op.at = "quiesce" /\ Admitted
    /\ Goto(IF op.kind = "promote" THEN "seal" ELSE "switch")
    /\ UNCHANGED <<store, readers, asleep, drains, journal, ready, mishaps>>

\* The quiescing, the switch of the endpoints or another step before begin_publish
\* fails; some failures are a result that reconcile_changed goes on after.
PublicationFails ==
    /\ op.at \in {"quiesce", "switch", "begin"} /\ op.kind # "promote"
    /\ Resume(IF op.endpoint THEN {current} ELSE {})
    /\ \/ Raise
       \/ op.at # "quiesce" /\ op.kind \in {"replace", "stage"} /\ Continue
    /\ UNCHANGED <<made, gens, state, current, latest, counts, readers, drains,
                   journal, ready, mishaps>>

\* begin_publish
Begin ==
    /\ op.at \in {"switch", "begin"} /\ op.kind # "promote"
    /\ state' = [state EXCEPT ![op.cand] = "validating"]
    /\ accepting' = [accepting EXCEPT ![op.cand] = FALSE]
    /\ previous' = [previous EXCEPT ![op.cand] = current]
    /\ phase' = [phase EXCEPT ![op.cand] =
                    IF op.kind \in {"replace", "stage"} THEN "validating" ELSE @]
    /\ Goto("validate")
    /\ UNCHANGED <<made, gens, current, latest, counts, readers, asleep, drains,
                   tx, early, ready, mishaps>>

\* The invariants or before_open fail: abort, up to the wait for the drain.
Abort ==
    /\ op.at = "validate"
    /\ state' = [state EXCEPT ![op.cand] = "aborted"]
    /\ accepting' = [accepting EXCEPT ![op.cand] = FALSE, ![current] = TRUE]
    /\ Schedule({op.cand}, state', leases)
    /\ Goto("aborting")
    /\ UNCHANGED <<made, gens, current, latest, counts, readers, asleep, hand,
                   begun, closed, draining, journal, ready, mishaps>>

\* Mutant: a plugin that was not loaded retires, too.
Retired_Any(s) == draining \cup {<<op.plugin, gens[s][op.plugin]>>}

\* What _retire_generation adds to _draining_generations.
Retired(s) == draining \cup
    {g \in {<<op.plugin, gens[s][op.plugin]>>} : gens[s][op.plugin] # 0}

\* commit: the candidate is current, the previous snapshot retires.
Commit ==
    /\ op.at = "validate" /\ op.kind # "stage"
    /\ state' = [state EXCEPT ![op.cand] = "committed", ![current] = "retired"]
    /\ accepting' = [accepting EXCEPT ![op.cand] = TRUE]
    /\ current' = op.cand /\ latest' = op.cand
    /\ draining' = Retired(current)
    /\ Schedule({current}, state', leases) /\ NotifyAll
    /\ IF op.kind = "replace"
       THEN /\ phase' = [phase EXCEPT ![op.cand] = "moving"]
            /\ tx' = [tx EXCEPT ![current] = op.cand]
       ELSE UNCHANGED <<phase, tx>>
    /\ Goto("finish")
    /\ UNCHANGED <<made, gens, counts, readers, hand, begun, closed, previous,
                   early, ready, mishaps>>

\* commit_latest: the candidate may be leased, the stable pointer stays.
CommitLatest ==
    /\ op.at = "validate" /\ op.kind = "stage"
    /\ state' = [state EXCEPT ![op.cand] = "committed"]
    /\ accepting' = [accepting EXCEPT ![op.cand] = TRUE]
    /\ latest' = op.cand /\ ready' = op.cand
    /\ phase' = [phase EXCEPT ![op.cand] = "ready"]
    /\ NotifyAll /\ Raise
    /\ UNCHANGED <<made, gens, current, counts, readers, drains, previous, tx,
                   early, mishaps>>

\* The plugin whose new generation the candidate holds.
PluginOf(c) == CHOOSE p \in Plugins : gens[c][p] = c

\* switch_ready: both snapshots are sealed before anything changes hands.
Promote(endpoint) ==
    /\ op.at = "idle" /\ ready # 0 /\ latest = ready
    /\ endpoint \in EndpointChange("promote", PluginOf(ready))
    /\ Pause({ready} \cup (IF endpoint THEN {current} ELSE {}))
    /\ op' = Procedure(IF endpoint THEN "quiesce" ELSE "seal", "promote", ready,
                       PluginOf(ready), endpoint)
    /\ UNCHANGED <<made, gens, state, current, latest, counts, readers, asleep,
                   drains, journal, ready, mishaps>>

\* No lease is left on the candidate; _restore_ready_runtime and the switch follow.
Sealed ==
    /\ op.at = "seal" /\ Admitted /\ Goto("switch")
    /\ UNCHANGED <<store, readers, asleep, drains, journal, ready, mishaps>>

\* promote_latest
Promoted ==
    /\ op.at = "switch" /\ op.kind = "promote"
    /\ state' = [state EXCEPT ![current] = "retired"]
    /\ accepting' = [accepting EXCEPT ![op.cand] = TRUE, ![current] = FALSE]
    /\ current' = op.cand
    /\ draining' = Retired(current)
    /\ Schedule({current}, state', leases) /\ NotifyAll
    /\ phase' = [phase EXCEPT ![op.cand] = "moving"]
    /\ tx' = [tx EXCEPT ![current] = op.cand]
    /\ Goto("finish")
    /\ UNCHANGED <<made, gens, latest, counts, readers, hand, begun, closed,
                   previous, early, ready, mishaps>>

\* A wait, the switch, before_open or after_open fails: both are reopened.  With
\* endpoints the candidate is dropped next, else only when it was no cancellation.
PromotionFails ==
    /\ op.kind = "promote" /\ op.at \in {"quiesce", "seal", "switch"} /\ Mishap
    /\ Resume({op.cand} \cup (IF op.endpoint THEN {current} ELSE {}))
    /\ \/ phase' = phase /\ (Goto("giveup") \/ (~op.endpoint /\ Raise))
       \/ /\ op.at = "switch" /\ phase' = [phase EXCEPT ![op.cand] = "moving"]
          /\ IF op.endpoint THEN Goto("giveup") ELSE Raise
    /\ UNCHANGED <<made, gens, state, current, latest, counts, readers, drains,
                   previous, tx, early, ready>>

\* _track_reload_drain of candidate c
Track(c) ==
    /\ phase' = [phase EXCEPT ![c] = IF previous[c] \in early THEN "complete"
                                                              ELSE "draining"]
    /\ tx' = IF previous[c] \in early THEN tx ELSE [tx EXCEPT ![previous[c]] = c]
    /\ early' = early \ {previous[c]}

Tracked(p) == {k \in Snapshots : <<p, k>> \in draining}

\* The end of a publication, once commit or promote_latest has returned: by then the
\* event loop has begun the drain task they made.  A removal whose generation is
\* drained by now finds no entry and raises KeyError.
Finish ==
    /\ op.at = "finish" /\ drain[previous[op.cand]] # "made"
    /\ IF op.kind \in {"replace", "promote"} THEN Track(op.cand)
                                             ELSE UNCHANGED <<phase, tx, early>>
    /\ ready' = IF op.kind = "promote" THEN 0 ELSE ready
    /\ op' = CASE op.kind = "promote" -> Idle
               [] op.kind \in {"replace", "disable"} -> [Idle EXCEPT !.at = "reconciled"]
               [] op.kind = "remove" ->
                    IF Tracked(op.plugin) = {} THEN Idle
                    ELSE [op EXCEPT !.at = "uses", !.left = Tracked(op.plugin)]
    /\ UNCHANGED <<store, readers, asleep, drains, previous, mishaps>>

\* _drop_ready, by a command, in reconcile_changed or after a failed promotion
Drop ==
    /\ \/ op.at = "giveup"
       \/ op.at \in {"idle", "reconciled"} /\ ready # 0
    /\ phase' = [phase EXCEPT ![ready] = "discarding"]
    /\ state' = [state EXCEPT ![ready] = IF @ = "gone" THEN @ ELSE "aborted"]
    /\ accepting' = [accepting EXCEPT ![ready] = FALSE]
    /\ latest' = current
    /\ op' = Procedure("drop", IF op.at = "reconciled" THEN "reconcile" ELSE "drop",
                       ready, 0, FALSE)
    /\ UNCHANGED <<made, gens, current, counts, readers, asleep, drains, previous,
                   tx, early, ready, mishaps>>

\* The last validation lease has ended.
Dropped ==
    /\ op.at = "drop" /\ Admitted
    /\ Schedule({op.cand}, state, leases) /\ Goto("discarding")
    /\ UNCHANGED <<store, readers, asleep, hand, begun, closed, draining, journal,
                   ready, mishaps>>

\* The drain of an aborted candidate is over; discard_latest keeps a failed one ready.
CandidateGone ==
    /\ op.at \in {"aborting", "discarding"} /\ drain[op.cand] = "no"
    /\ IF op.cand \in failed THEN UNCHANGED asleep ELSE NotifyAll
    /\ IF op.at = "discarding" /\ op.cand \in failed THEN UNCHANGED <<phase, ready>>
       ELSE /\ phase' = [phase EXCEPT ![op.cand] = IF @ = "none" THEN @ ELSE "aborted"]
            /\ ready' = IF op.at = "discarding" THEN 0 ELSE ready
    /\ IF op.kind = "reconcile" /\ op.cand \notin failed THEN Continue ELSE Raise
    /\ UNCHANGED <<store, readers, drains, previous, tx, early, mishaps>>

-----------------------------------------------------------------------------
\* retry_drains and the wait for the generations of a removed plugin

Tasks(d) == {s \in Snapshots : d[s] # "no"}

\* reconcile_changed starts with retry_drains.
Reconcile ==
    /\ op.at = "idle"
    /\ op' = [Procedure("await", "reconcile", 0, 0, FALSE) EXCEPT !.awaits = Tasks(drain)]
    /\ UNCHANGED <<store, readers, asleep, drains, journal, ready, mishaps>>

\* A task that was cancelled before it ran never left the table: gather raises.
RetryRaises ==
    /\ op.at = "await" /\ \E s \in op.awaits : drain[s] = "lost"
    /\ Raise
    /\ UNCHANGED <<store, readers, asleep, drains, journal, ready, mishaps>>

\* The tasks it found are done; every retained snapshot is scheduled.
RetryDrains ==
    /\ op.at = "await" /\ \A s \in op.awaits : drain[s] = "no"
    /\ Schedule(Snapshots, state, leases)
    /\ op' = [op EXCEPT !.at = "retry", !.awaits = Tasks(drain')]
    /\ UNCHANGED <<store, readers, asleep, hand, begun, closed, draining, journal,
                   ready, mishaps>>

Succeeded == /\ op.at = "retry" /\ \A s \in op.awaits : drain[s] = "no"
             /\ op.awaits \cap failed = {}

RetryFails ==
    /\ op.at = "retry" /\ \A s \in op.awaits : drain[s] = "no"
    /\ op.awaits \cap failed # {}
    /\ Raise
    /\ UNCHANGED <<store, readers, asleep, drains, journal, ready, mishaps>>

\* The caller is cancelled: gather cancels every drain task it waits for.
RetryCancelled ==
    /\ op.at \in {"await", "retry"} /\ Mishap
    /\ drain' = [s \in Snapshots |->
                    CASE s \in op.awaits /\ drain[s] = "made" -> "lost"
                      [] s \in op.awaits /\ drain[s] = "runs" -> "stopping"
                      [] OTHER -> drain[s]]
    /\ Goto("cancelled")
    /\ UNCHANGED <<store, readers, asleep, hand, failed, begun, closed, draining,
                   journal, ready>>

CancelEnds ==
    /\ op.at = "cancelled" /\ \A s \in op.awaits : drain[s] \in {"no", "lost"}
    /\ Raise
    /\ UNCHANGED <<store, readers, asleep, drains, journal, ready, mishaps>>

Reconciled ==
    /\ Succeeded /\ op.kind = "reconcile" /\ Continue
    /\ UNCHANGED <<store, readers, asleep, drains, journal, ready, mishaps>>

\* The procedure returns.
Return ==
    /\ op.at \in {"reconciled", "removed"} /\ op' = Idle
    /\ UNCHANGED <<store, readers, asleep, drains, journal, ready, mishaps>>

\* reconcile_disabled_and_drain of a plugin that an earlier call disabled; it returns
\* at once when no generation of the plugin is tracked.
RemoveAgain(p) ==
    /\ op.at = "idle" /\ ready = 0 /\ gens[current][p] = 0 /\ Tracked(p) # {}
    /\ op' = [Procedure("uses", "remove", 0, p, FALSE) EXCEPT !.left = Tracked(p)]
    /\ UNCHANGED <<store, readers, asleep, drains, journal, ready, mishaps>>

\* wait_for_generation_drained: the generation has no lease, the drains are retried.
Unused ==
    /\ op.at = "uses" /\ Admitted
    /\ op' = [op EXCEPT !.at = "await", !.awaits = Tasks(drain)]
    /\ UNCHANGED <<store, readers, asleep, drains, journal, ready, mishaps>>

UsesCancelled ==
    /\ op.at = "uses" /\ Mishap /\ Raise /\ asleep' = asleep \ {Publisher}
    /\ UNCHANGED <<store, readers, drains, journal, ready>>

\* Mutant: the drains are not retried.
Removed_Unchecked ==
    /\ op.at \in {"await", "retry"} /\ op.kind = "remove"
    /\ LET left == op.left \ {Min(op.left)} IN
       IF left # {} THEN /\ op' = [op EXCEPT !.at = "uses", !.left = left]
                         /\ UNCHANGED draining
       ELSE /\ draining' = {g \in draining : g[1] # op.plugin}
            /\ op' = [op EXCEPT !.at = "removed", !.left = {}, !.awaits = {}]
    /\ UNCHANGED <<store, readers, asleep, drain, hand, failed, begun, closed,
                   journal, ready, mishaps>>

\* The drains are retried: on to the next generation, or the plugin is removed.
\* (The check of scope.closed in between never fails: RemovedAreClosed.)
Removed ==
    /\ Succeeded /\ op.kind = "remove"
    /\ LET left == op.left \ {Min(op.left)} IN
       IF left # {} THEN /\ op' = [op EXCEPT !.at = "uses", !.left = left]
                         /\ UNCHANGED draining
       ELSE /\ draining' = {g \in draining : g[1] # op.plugin}
            /\ op' = [op EXCEPT !.at = "removed", !.left = {}, !.awaits = {}]
    /\ UNCHANGED <<store, readers, asleep, drain, hand, failed, begun, closed,
                   journal, ready, mishaps>>

-----------------------------------------------------------------------------
\* What a procedure does to go on, as opposed to beginning and failing.
Proceeds ==
    \/ Waits \/ Quiesced \/ Begin \/ Commit \/ CommitLatest \/ Sealed \/ Promoted
    \/ Finish \/ (op.at = "giveup" /\ Drop) \/ Dropped \/ CandidateGone
    \/ RetryRaises \/ RetryDrains \/ RetryFails \/ CancelEnds \/ Reconciled
    \/ Return \/ Unused \/ Removed

Next ==
    \/ Proceeds
    \/ \E p \in Plugins :
          \/ \E kind \in {"replace", "stage", "disable", "remove"}, e \in BOOLEAN :
                Compile(kind, p, e)
          \/ RemoveAgain(p)
    \/ PublicationFails \/ Abort
    \/ \E e \in BOOLEAN : Promote(e)
    \/ PromotionFails \/ Drop
    \/ Reconcile \/ RetryCancelled \/ UsesCancelled
    \/ \E s \in Snapshots : DrainGoes(s) \/ DrainStops(s) \/ DrainFails(s)
    \/ \E h \in Holders :
          \/ \E selector \in {"stable", "latest"} : Acquire(h, selector)
          \/ Wake(h) \/ AcquireCancelled(h) \/ Release(h)
          \/ \E i \in Holders : Fork(h, i)

Spec == Init /\ [][Next]_vars

\* A started procedure, a drain task and a notified waiter are scheduled again,
\* the disposal of a generation ends, and so does every turn.
FairSpec ==
    /\ Spec
    /\ WF_vars(Proceeds)
    /\ WF_vars(\E s \in Snapshots : DrainGoes(s) \/ DrainStops(s))
    /\ WF_vars(\E h \in Holders : Wake(h))
    /\ \A h \in Holders : WF_vars(Release(h))

-----------------------------------------------------------------------------
\* The variables have their types.
TypeOK ==
    /\ made \in Snapshots /\ gens \in [Snapshots -> [Plugins -> 0 .. MaxSnapshots]]
    /\ state \in [Snapshots -> {"compiled", "validating", "committed", "retired",
                                "aborted", "gone"}]
    /\ accepting \in [Snapshots -> BOOLEAN]
    /\ leases \in [Snapshots -> Nat] /\ uses \in [Generations -> Nat]
    /\ current \in Snapshots /\ latest \in Snapshots
    /\ holder \in [Holders -> 0 .. MaxSnapshots]
    /\ want \in [Holders -> {"none", "stable", "latest"}]
    /\ asleep \subseteq Holders \cup {Publisher}
    /\ drain \in [Snapshots -> {"no", "made", "runs", "stopping", "lost"}]
    /\ hand \in [Snapshots -> 0 .. PluginCount] /\ failed \subseteq Snapshots
    /\ begun \in [Generations -> 0 .. 2]
    /\ closed \subseteq Generations /\ draining \subseteq Generations
    /\ previous \in [Snapshots -> 0 .. MaxSnapshots]
    /\ phase \in [Snapshots -> {"none", "validating", "ready", "moving", "draining",
                                "complete", "discarding", "aborted"}]
    /\ tx \in [Snapshots -> 0 .. MaxSnapshots] /\ early \subseteq Snapshots
    /\ ready \in 0 .. MaxSnapshots /\ mishaps \in 0 .. MaxMishaps
    /\ op.cand \in 0 .. MaxSnapshots /\ op.plugin \in 0 .. PluginCount
    /\ op.awaits \subseteq Snapshots /\ op.left \subseteq Snapshots

InUse(s) == leases[s] > 0 \/ s \in {current, latest}

\* No generation of a snapshot that is leased, stable or latest is ever disposed,
\* and the snapshot is retained, whatever other snapshots that share generations
\* with it drain at the same time.
NothingInUseIsDisposed ==
    \A s \in Snapshots : InUse(s) =>
        /\ state[s] \in {"committed", "retired", "aborted"}
        /\ \A g \in GenerationsOf(s) : begun[g] = 0

\* The lease counts of a snapshot and of a generation are the numbers of leases
\* that pin them, so a wait for zero cannot end early or never.
CountsMatch ==
    /\ \A s \in Snapshots : leases[s] = Cardinality({h \in Holders : holder[h] = s})
    /\ \A g \in Generations :
          uses[g] = Cardinality({h \in Holders :
                        holder[h] # 0 /\ g \in GenerationsOf(holder[h])})

\* While the endpoints of a plugin change hands nobody leases a snapshot that they
\* serve, from the wait for zero leases to the end of the switch; and whatever way a
\* procedure ends, the stable and the latest snapshot take leases again.
PauseIsExact ==
    /\ op.at = "switch" => /\ op.endpoint => leases[current] = 0
                           /\ op.kind = "promote" => leases[op.cand] = 0
    /\ op.at \in {"idle", "reconciled"} =>
          \A s \in {current, latest} : state[s] = "committed" /\ accepting[s]

\* The journal says that a publication is complete once, and only if, the snapshot
\* it replaced is drained, even if that happens before the commit is recorded.
JournalFollowsDrain ==
    \A c \in Snapshots :
        /\ phase[c] = "complete" => state[previous[c]] = "gone"
        /\ phase[c] = "draining" => /\ state[previous[c]] = "retired"
                                    /\ tx[previous[c]] = c

\* When a reconcile_disabled_and_drain that found a generation to wait for returns, no
\* scope of the plugin is open any more, also when it follows a cancelled call: the
\* code of the plugin is deleted next.
RemovedAreClosed ==
    op.at = "removed" =>
        \A k \in Snapshots :
            (\E s \in Snapshots : gens[s][op.plugin] = k /\ state[s] # "compiled")
                => <<op.plugin, k>> \in closed

\* A snapshot counts exactly the leases held of it, and takes new ones at all
\* times but while its endpoints change hands (plugins/snapshot.py, manager.py).
AdmissionIsExact == TypeOK /\ CountsMatch /\ PauseIsExact

\* What a procedure reports when it ends, a complete publication or a removed
\* plugin, is so: the replaced snapshot is drained, the scopes are closed (manager.py).
ReportsAreTrue == JournalFollowsDrain /\ RemovedAreClosed

\* No snapshot stays undrained once it is retired and without leases, unless its
\* drain failed and is on record for a retry, or its task was cancelled unrun.
Undrained == {s \in Snapshots : /\ state[s] = "retired" /\ leases[s] = 0
                                /\ s \notin failed /\ drain[s] # "lost"}
UnusedAreDrained == []<>(Undrained = {})

\* An acquire that waits for admission gets a lease or an error: nobody waits for ever.
WaitersMove == \A h \in Holders : []<>(want[h] = "none")

\* Each generation is cleaned up once: ADR 0008 says that the resources of the old
\* generation are cleaned up only once when its leases have drained.
DisposedOnce == \A g \in Generations : begun[g] <= 1
=============================================================================

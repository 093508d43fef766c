----------------------------- MODULE Deployment -----------------------------
(***************************************************************************)
(* The controller that a timer starts on the host                          *)
(* (agent/deployment/controller.py).  It stages the commit that CI moved   *)
(* deploy/stable to, drains the running service through its maintenance    *)
(* lease, moves the link current, restarts the service, waits until it is  *)
(* healthy and only then writes state.json.  Every step may fail, and the  *)
(* unit's start timeout may kill the controller between any two.           *)
(***************************************************************************)
EXTENDS Integers

CONSTANTS LastCommit  \* deployment commits are 1..LastCommit; 0 is none

VARIABLES base,     \* promotion.baseSourceCommit of each commit's artifact
          ref,      \* deploy/stable of the remote
          release,  \* releases/<commit>: how far it is staged
          current,  \* the link current
          record,   \* deploymentCommit of state.json
          service,  \* code: the release the unit runs; busy: it has running turns
          lease,    \* deployment maintenance of the service, and who asked for it
          op,       \* the run in progress: its next step, candidate, old release
          report,   \* status of the last run
          proven,   \* commits that answered the health check as current
          cut       \* a run ended between the switch and the record, or could not go back

deployVars == <<base, ref, release, current, record, service, lease, op, report, proven, cut>>

Commits == 1..LastCommit
NoOp == [at |-> "idle", new |-> 0, old |-> 0]
Down == [up |-> FALSE, code |-> 0, busy |-> FALSE]
Running(c) == [up |-> TRUE, code |-> c, busy |-> FALSE]

\* Bootstrapped with release 1, or not yet.
DeployInit ==
  /\ base \in [Commits -> 0..LastCommit] /\ \A c \in Commits : base[c] < c
  /\ current \in {0, 1} /\ record = current
  /\ ref = 1 /\ lease = "none" /\ op = NoOp /\ report = "none" /\ cut = FALSE
  /\ release = [c \in Commits |-> IF c = current THEN "ready" ELSE "none"]
  /\ service = Running(current) /\ proven = {current} \ {0}
----------------------------------------------------------------------------
(* The remote, the service and its turns *)

Promoted == \E c \in Commits : ref' = c

TurnStarts == service.up /\ lease = "none" /\ service' = [service EXCEPT !.busy = TRUE]
TurnEnds == service.busy /\ service' = [service EXCEPT !.busy = FALSE]

\* A watchdog ends a maintenance, whoever asked for it.
LeaseExpires == lease # "none" /\ lease' = "none"

\* The service dies; systemd starts whatever the link then names.
ServiceDies == service.up /\ service' = Down /\ lease' = "none"
ServiceStarts == ~service.up /\ service' = Running(current)

\* The one-time setup by the operator: current is pointed at a shadow release.
Bootstrap ==
  /\ op.at = "idle" /\ current = 0 /\ record = 0
  /\ \E c \in Commits : release[c] = "ready" /\ current' = c /\ record' = c
                        /\ service' = Running(c) /\ proven' = {c} /\ lease' = "none"
----------------------------------------------------------------------------
(* A run *)

At(step) == op.at = step
Goto(step) == op' = [op EXCEPT !.at = step]
End(status) == op' = NoOp /\ report' = status

\* Under deployment.lock, which the system drops with the process.
Begin == At("idle") /\ Goto("stage")

\* _verify_current_state
Consistent == record = current

\* stage_candidate: an existing directory is only verified again.
Fetch ==
  /\ At("stage") /\ Consistent
  /\ op' = [op EXCEPT !.new = ref,
                      !.at = IF release[ref] = "none" THEN "checkout" ELSE "venv"]
  /\ release' = [release EXCEPT ![ref] = IF @ = "none" THEN "broken" ELSE @]

Checkout == At("checkout") /\ Goto("venv") /\ release' = [release EXCEPT ![op.new] = "source"]

\* The ready marker is written last.
PrepareVenv ==
  /\ At("venv") /\ release[op.new] # "broken"
  /\ Goto("decide") /\ release' = [release EXCEPT ![op.new] = "ready"]

\* Mutant: a promotion from any base is applied.
Continuous_Any(c) == TRUE

Continuous(c) == record \in {0, c, base[c]}

Unchanged ==
  /\ At("decide") /\ record = op.new
  /\ service.up /\ lease = "none"
  /\ End("unchanged")

Shadow == At("decide") /\ record # op.new /\ Continuous(op.new) /\ End("shadow_ready")

\* _apply_candidate needs a bootstrapped host, and prepare one that is not yet held.
Prepare ==
  /\ At("decide") /\ record # op.new /\ Continuous(op.new) /\ current # 0
  /\ service.up /\ lease = "none"
  /\ op' = [op EXCEPT !.at = "drain", !.old = current] /\ lease' = "ours"

\* Mutant: the answer of prepare is not awaited.
Drained_Busy == At("drain") /\ lease = "ours" /\ Goto("switch")

Drained == At("drain") /\ lease = "ours" /\ ~service.busy /\ Goto("switch")

Switch == At("switch") /\ current' = op.new /\ Goto("restart")

Restart(next) == service' = Running(current) /\ lease' = "none" /\ Goto(next)

\* Mutant: the new service is recorded without a health check.
RestartNew_Unchecked == At("restart") /\ Restart("record")

RestartNew == At("restart") /\ Restart("health")

\* _wait_healthy asks whoever runs: ready, and no maintenance.
Healthy == service.up /\ lease = "none"
HealthyNew == At("health") /\ Healthy /\ Goto("record") /\ proven' = proven \cup {op.new}

WriteState == At("record") /\ record' = op.new /\ End("deployed")
----------------------------------------------------------------------------
(* Failures *)

Early == {"stage", "checkout", "venv", "decide", "drain"}
Applied == {"restart", "health", "record"}
Undoing == {"undo", "undo restart", "undo health", "cancel"}

\* Before the runtime is drained nothing is undone: a lease asked for runs out.
FailEarly ==
  /\ op.at \in Early /\ End("failed")
  /\ lease' = IF lease = "ours" THEN "stale" ELSE lease

FailDrained == At("switch") /\ Goto("cancel")

\* systemctl may fail or time out with the restart done or not.
Failed(step) ==
  \/ UNCHANGED <<service, lease>>
  \/ step \in {"restart", "undo restart"} /\ service' = Running(current) /\ lease' = "none"

\* Mutant: the rollback restarts without moving the link.
FailApplied_LinkStays == op.at \in Applied /\ Failed(op.at) /\ Goto("undo restart")

FailApplied == op.at \in Applied /\ Failed(op.at) /\ Goto("undo")

SwitchBack == At("undo") /\ current' = op.old /\ Goto("undo restart")
RestartOld == At("undo restart") /\ Restart("undo health")
HealthyOld == At("undo health") /\ Healthy /\ End("restored")
Cancel == At("cancel") /\ lease = "ours" /\ lease' = "none" /\ End("restored")

FailUndo ==
  /\ op.at \in Undoing /\ Failed(op.at) /\ End("not restored")
  /\ cut' = (cut \/ At("undo"))

\* The controller is killed, or interrupted, which no handler of the rollback catches.
Killed ==
  /\ op.at # "idle" /\ \E status \in {report, "failed"} : End(status)
  /\ lease' = IF lease = "ours" THEN "stale" ELSE lease
  /\ cut' = (cut \/ op.at \in Applied \cup {"undo"})
----------------------------------------------------------------------------
kept == <<base, ref>>

DeployNext ==
  \/ Promoted /\ UNCHANGED <<base, release, current, record, service, lease, op, report, proven, cut>>
  \/ (TurnStarts \/ TurnEnds \/ ServiceStarts)
     /\ UNCHANGED <<kept, release, current, record, lease, op, report, proven, cut>>
  \/ LeaseExpires /\ UNCHANGED <<kept, release, current, record, service, op, report, proven, cut>>
  \/ ServiceDies /\ UNCHANGED <<kept, release, current, record, op, report, proven, cut>>
  \/ Bootstrap /\ UNCHANGED <<kept, release, op, report, cut>>
  \/ (Begin \/ Drained \/ FailDrained)
     /\ UNCHANGED <<kept, release, current, record, service, lease, report, proven, cut>>
  \/ (Fetch \/ Checkout \/ PrepareVenv)
     /\ UNCHANGED <<kept, current, record, service, lease, report, proven, cut>>
  \/ (Unchanged \/ Shadow \/ HealthyOld)
     /\ UNCHANGED <<kept, release, current, record, service, lease, proven, cut>>
  \/ Prepare /\ UNCHANGED <<kept, release, current, record, service, report, proven, cut>>
  \/ (Switch \/ SwitchBack)
     /\ UNCHANGED <<kept, release, record, service, lease, report, proven, cut>>
  \/ (RestartNew \/ RestartOld \/ FailApplied)
     /\ UNCHANGED <<kept, release, current, record, report, proven, cut>>
  \/ HealthyNew /\ UNCHANGED <<kept, release, current, record, service, lease, report, cut>>
  \/ WriteState /\ UNCHANGED <<kept, release, current, service, lease, proven, cut>>
  \/ (FailEarly \/ Cancel) /\ UNCHANGED <<kept, release, current, record, service, proven, cut>>
  \/ FailUndo /\ UNCHANGED <<kept, release, current, record, proven>>
  \/ Killed /\ UNCHANGED <<kept, release, current, record, service, proven>>

DeploySpec == DeployInit /\ [][DeployNext]_deployVars
----------------------------------------------------------------------------
DeployTypeOK ==
  /\ ref \in Commits /\ current \in 0..LastCommit /\ record \in 0..LastCommit
  /\ release \in [Commits -> {"none", "broken", "source", "ready"}]
  /\ service \in [up : BOOLEAN, code : 0..LastCommit, busy : BOOLEAN]
  /\ lease \in {"none", "ours", "stale"}
  /\ op \in [at : {"idle", "switch"} \cup Early \cup Applied \cup Undoing,
             new : 0..LastCommit, old : 0..LastCommit]
  /\ proven \subseteq Commits /\ cut \in BOOLEAN

\* state.json names a release that answered the health check while it was current,
\* also after its run failed to undo the switch (controller.py _apply_candidate).
RecordIsProven == record # 0 => record \in proven

\* Between runs the link and state.json agree unless a run was killed between the
\* switch and the record or could not move the link back (controller.py run_once).
NothingDivergesQuietly == op.at = "idle" /\ ~cut => current = record

\* Nothing runs while the maintenance of this run lasts, from the drain to the
\* restart that ends it (controller.py _prepare_runtime).
QuietWhileOurs == lease = "ours" /\ op.at \in {"switch", "restart", "cancel"} => ~service.busy

\* A release becomes current only when it is staged to its marker or was current
\* before, and the record moves on only along the chain of promotions, also when
\* deploy/stable moves during the run (controller.py run_once, stage_candidate).
MovesAreOrderly ==
  [][/\ current' # current => release[current'] = "ready"
     /\ record' # record /\ record # 0 => base[record'] = record]_deployVars
=============================================================================

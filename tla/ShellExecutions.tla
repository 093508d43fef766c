--------------------------- MODULE ShellExecutions ---------------------------
(***************************************************************************)
(* The shell executions of the agent (agent/tools/unified_exec.py,         *)
(* ShellProcessManager).  Starting a command and cleaning up after an      *)
(* owner exclude each other through the spawn lock; the calls that wait    *)
(* for output, the one that stops an execution and its hard timeout do     *)
(* not, and each of them awaits between reading the register and removing  *)
(* the entry.  A kill may stay unconfirmed.                                *)
(***************************************************************************)
EXTENDS Integers, Sequences, FiniteSets, SequencesExt

CONSTANTS MaxStarted,      \* bound on the executions started
          MaxCalls,        \* bound on the calls in progress when one more is made
          Sessions,        \* owner_session_key
          MaxExecutions,   \* max_executions
          ProtectedRecent  \* PROTECTED_RECENT_EXECUTIONS

\* The register of executions has room for one (unified_exec.py __init__).
ASSUME RegisterHasRoom == {MaxStarted, ProtectedRecent} \subseteq Nat /\ MaxExecutions \in Nat \ {0}

VARIABLES register,    \* _executions, the least recently used first
          session,     \* the owner of each execution started
          process,     \* of each execution: "none", "alive" or "dead"
          failed,      \* executions with a failure_message
          unended,     \* those that run on without an entry, as a call of the owner has raised
          waiter,      \* the call that waits for an execution's output
          stopper,     \* terminate_execution of an execution
          quarantined, \* _quarantined_owners
          launch,      \* exec_command under the spawn lock
          sweep        \* terminate_owner or shutdown under the spawn lock

execVars == <<register, session, process, failed, unended, waiter, stopper, quarantined, launch, sweep>>

Executions == 1..MaxStarted  \* the objects: none is used twice

NoSession == "nobody"
NoLaunch == [at |-> "none", by |-> NoSession, victim |-> 0]
NoSweep == [at |-> "none", by |-> NoSession, todo |-> {}, next |-> 0, fails |-> FALSE]

ExecInit ==
  /\ register = <<>> /\ session = [e \in Executions |-> NoSession]
  /\ process = [e \in Executions |-> "none"]
  /\ failed = {} /\ unended = {} /\ quarantined = {}
  /\ waiter = [e \in Executions |-> "none"] /\ stopper = [e \in Executions |-> "none"]
  /\ launch = NoLaunch /\ sweep = NoSweep
----------------------------------------------------------------------------
Started == Cardinality({e \in Executions : process[e] # "none"})
Registered == ToSet(register)
Alive(e) == process[e] = "alive"

\* Mutant: the spawn lock excludes nobody.
SpawnLockFree_Ever == launch.at = "none"

SpawnLockFree == launch.at = "none" /\ sweep.at = "none"

\* The register without the entry of an execution.
RegisterWithout(e) ==
  IF e \in Registered THEN RemoveAt(register, CHOOSE i \in DOMAIN register : register[i] = e)
  ELSE register

Used(e) == IF e \in Registered THEN Append(RegisterWithout(e), e) ELSE register

\* _remove_execution, from the second look at the register: the object goes with its entry.
Deregister(e) == register' = RegisterWithout(e) /\ failed' = failed \ {e}

\* _terminate_confirmed: killed and waited for, or not dead when the wait ends.
Confirmed(e) == process' = [process EXCEPT ![e] = "dead"] /\ unended' = unended \ {e}
\* The process ends by itself, or after a kill that was not confirmed in time.
ProcessEnds(e) == Alive(e) /\ Confirmed(e)
----------------------------------------------------------------------------
(* exec_command *)

\* _select_prune_candidate: outside the most recently used, a dead one first.
PruneCandidate ==
  LET spare == Len(register) - ProtectedRecent
      old == 1..(IF spare > 1 THEN spare ELSE 1)
      dead == {i \in old : ~Alive(register[i])}
  IN register[Min(IF dead = {} THEN old ELSE dead)]

\* Mutant: an owner whose cleanup failed may start commands.
Launch_Quarantined(s) ==
  /\ SpawnLockFree
  /\ launch' = IF Len(register) < MaxExecutions
               THEN [at |-> "spawn", by |-> s, victim |-> 0]
               ELSE [at |-> "prune", by |-> s, victim |-> PruneCandidate]

\* _ensure_owner_admitted, then _prune_if_needed chooses.
Launch(s) == s \notin quarantined /\ Launch_Quarantined(s)

\* Mutant: the victim is dropped while it runs.
PruneKills_Unconfirmed ==
  launch.at = "prune" /\ launch' = [launch EXCEPT !.at = "drop"] /\ UNCHANGED <<process, unended>>

PruneKills ==
  /\ launch.at = "prune" /\ Confirmed(launch.victim)
  /\ launch' = [launch EXCEPT !.at = "drop"]

\* Mutant: the victim keeps its entry.
PruneDrops_Kept ==
  /\ launch.at = "drop" /\ UNCHANGED <<register, failed>>
  /\ launch' = [launch EXCEPT !.at = "spawn"]

PruneDrops ==
  /\ launch.at = "drop" /\ Deregister(launch.victim)
  /\ launch' = [launch EXCEPT !.at = "spawn"]

\* The kill is not confirmed, the group cannot be killed, the spawn fails or the
\* caller is cancelled: the lock is released and nothing is started.
LaunchEnds == launch.at # "none" /\ launch' = NoLaunch

\* The process, its entry and its tasks, before the lock is released.
Spawn ==
  /\ launch.at = "spawn" /\ launch' = NoLaunch
  /\ LET e == Started + 1 IN
       /\ e \in Executions
       /\ register' = Append(register, e) /\ session' = [session EXCEPT ![e] = launch.by]
       /\ process' = [process EXCEPT ![e] = "alive"]
       /\ waiter' = [waiter EXCEPT ![e] = "waiting"]
----------------------------------------------------------------------------
(* Waiting for output: the rest of exec_command, and write_stdin *)

\* Calls in progress.
Calls == Cardinality({e \in Executions : waiter[e] # "none"})
         + Cardinality({e \in Executions : stopper[e] # "none"})

WriteStdin(e) ==
  /\ Calls < MaxCalls /\ e \in Registered /\ waiter[e] = "none" /\ register' = Used(e)
  /\ waiter' = [waiter EXCEPT ![e] = "waiting"]

\* _build_result: what runs is kept, an end or a failure removes the entry.
WaitEnds(e) ==
  /\ waiter[e] = "waiting"
  /\ IF Alive(e) /\ e \notin failed
     THEN register' = Used(e) /\ waiter' = [waiter EXCEPT ![e] = "none"]
     ELSE UNCHANGED register /\ waiter' = [waiter EXCEPT ![e] = "removing"]

\* Mutant: the caller is not told that the kill failed.
WaiterRemoves_Silent(e) ==
  /\ waiter[e] = "removing" /\ Deregister(e)
  /\ waiter' = [waiter EXCEPT ![e] = "none"] /\ UNCHANGED unended

WaiterRemoves(e) ==
  /\ waiter[e] = "removing" /\ Deregister(e)
  /\ waiter' = [waiter EXCEPT ![e] = "none"]
  /\ unended' = unended \cup {x \in failed \cap {e} : Alive(x)}

\* The caller is cancelled, or the rest of the group cannot be killed.
WaitCut(e) == waiter[e] # "none" /\ waiter' = [waiter EXCEPT ![e] = "none"]
----------------------------------------------------------------------------
(* terminate_execution and the hard timeout *)

Stop(e) ==
  /\ Calls < MaxCalls /\ e \in Registered /\ stopper[e] = "none" /\ register' = Used(e)
  /\ stopper' = [stopper EXCEPT ![e] = "kill"]

StopKills(e) ==
  stopper[e] = "kill" /\ Confirmed(e) /\ stopper' = [stopper EXCEPT ![e] = "drop"]

StopDrops(e) ==
  stopper[e] = "drop" /\ Deregister(e) /\ stopper' = [stopper EXCEPT ![e] = "none"]

StopFails(e) == stopper[e] # "none" /\ stopper' = [stopper EXCEPT ![e] = "none"]

\* _enforce_hard_timeout: a kill that is confirmed is a ProcessEnds.
TimeoutFails(e) == e \in Registered /\ Alive(e) /\ failed' = failed \cup {e}
----------------------------------------------------------------------------
(* terminate_owner and shutdown *)

SweepBegins ==
  /\ SpawnLockFree
  /\ \E s \in Sessions \cup {NoSession} :
       sweep' = [NoSweep EXCEPT !.at = "kill", !.by = s,
                                !.todo = {e \in Registered : s \in {session[e], NoSession}}]

SweepKills ==
  /\ sweep.at = "kill"
  /\ \E e \in sweep.todo :
       /\ Confirmed(e)
       /\ sweep' = [sweep EXCEPT !.at = "drop", !.todo = @ \ {e}, !.next = e]

SweepDrops ==
  sweep.at = "drop" /\ Deregister(sweep.next) /\ sweep' = [sweep EXCEPT !.at = "kill"]

\* Mutant: a kill that is not confirmed counts as a cleanup.
SweepFails_Unnoted ==
  /\ sweep.at = "kill"
  /\ \E e \in sweep.todo : Alive(e) /\ sweep' = [sweep EXCEPT !.todo = @ \ {e}]

\* The entry of what could not be confirmed dead, or removed, stays.
SweepFails ==
  \/ /\ sweep.at = "kill"
     /\ \E e \in sweep.todo :
          Alive(e) /\ sweep' = [sweep EXCEPT !.todo = @ \ {e}, !.fails = TRUE]
  \/ sweep.at = "drop" /\ sweep' = [sweep EXCEPT !.at = "kill", !.fails = TRUE]

\* shutdown, by nobody, quarantines nobody.
SweepDone ==
  /\ sweep.at = "kill" /\ sweep.todo = {} /\ sweep' = NoSweep
  /\ quarantined' = IF sweep.fails /\ sweep.by # NoSession THEN quarantined \cup {sweep.by}
                    ELSE quarantined \ {sweep.by}

SweepCancelled == sweep.at # "none" /\ sweep' = NoSweep
----------------------------------------------------------------------------
owned == <<session, failed, unended, quarantined>>

ExecNext ==
  \/ (LaunchEnds \/ \E s \in Sessions : Launch(s))
     /\ UNCHANGED <<register, process, owned, waiter, stopper, sweep>>
  \/ PruneKills /\ UNCHANGED <<register, session, failed, quarantined, waiter, stopper, sweep>>
  \/ PruneDrops
     /\ UNCHANGED <<process, session, unended, quarantined, waiter, stopper, sweep>>
  \/ Spawn /\ UNCHANGED <<failed, unended, quarantined, stopper, sweep>>
  \/ (SweepBegins \/ SweepFails \/ SweepCancelled)
     /\ UNCHANGED <<register, process, owned, waiter, stopper, launch>>
  \/ SweepKills
     /\ UNCHANGED <<register, session, failed, quarantined, waiter, stopper, launch>>
  \/ SweepDrops
     /\ UNCHANGED <<process, session, unended, quarantined, waiter, stopper, launch>>
  \/ SweepDone
     /\ UNCHANGED <<register, session, process, failed, unended, waiter, stopper, launch>>
  \/ \E e \in Executions :
       \/ ProcessEnds(e)
          /\ UNCHANGED <<register, session, failed, quarantined, waiter, stopper, launch, sweep>>
       \/ (WriteStdin(e) \/ WaitEnds(e))
          /\ UNCHANGED <<process, owned, stopper, launch, sweep>>
       \/ WaiterRemoves(e)
          /\ UNCHANGED <<session, process, quarantined, stopper, launch, sweep>>
       \/ WaitCut(e) /\ UNCHANGED <<register, process, owned, stopper, launch, sweep>>
       \/ Stop(e) /\ UNCHANGED <<process, owned, waiter, launch, sweep>>
       \/ StopKills(e)
          /\ UNCHANGED <<register, session, failed, quarantined, waiter, launch, sweep>>
       \/ StopDrops(e)
          /\ UNCHANGED <<process, session, unended, quarantined, waiter, launch, sweep>>
       \/ StopFails(e) /\ UNCHANGED <<register, process, owned, waiter, launch, sweep>>
       \/ TimeoutFails(e)
          /\ UNCHANGED <<register, session, process, unended, quarantined, waiter, stopper, launch, sweep>>

ExecSpec == ExecInit /\ [][ExecNext]_execVars
----------------------------------------------------------------------------
ExecTypeOK ==
  /\ register \in Seq(Executions) /\ Cardinality(Registered) = Len(register)
  /\ session \in [Executions -> Sessions \cup {NoSession}]
  /\ process \in [Executions -> {"none", "alive", "dead"}]
  /\ unended \cup failed \subseteq Executions /\ quarantined \subseteq Sessions
  /\ waiter \in [Executions -> {"none", "waiting", "removing"}]
  /\ stopper \in [Executions -> {"none", "kill", "drop"}]
  /\ launch.at \in {"none", "prune", "drop", "spawn"}
  /\ sweep.at \in {"none", "kill", "drop"}

\* Pruning makes room before every start, whoever else removes entries meanwhile
\* (unified_exec.py _prune_if_needed).
RoomIsKept == Len(register) <= MaxExecutions

\* A command that runs can be found and ended through the register, unless the
\* owner was told that its hard timeout could not end it (unified_exec.py _build_result).
NothingRunsUnseen == \A e \in Executions : Alive(e) => e \in Registered \cup unended

\* When a cleanup of an owner has met no failure, nothing of that owner runs but
\* what it was told of (unified_exec.py terminate_owner).
CleanMeansClean ==
  sweep.at = "kill" /\ sweep.todo = {} /\ ~sweep.fails /\ sweep.by # NoSession
    => \A e \in Executions : Alive(e) /\ session[e] = sweep.by => e \in unended

\* While the cleanup of an owner is not confirmed, no command of it starts
\* (unified_exec.py _ensure_owner_admitted).
QuarantineHolds ==
  [][\A e \in Executions :
       session[e] = NoSession /\ session'[e] # NoSession => session'[e] \notin quarantined]_execVars

\* There is room for each start, nothing runs unseen, a cleanup without failure left
\* nothing running and a quarantined owner starts nothing (unified_exec.py).
CommandsStayOwned ==
  /\ [](ExecTypeOK /\ RoomIsKept /\ NothingRunsUnseen /\ CleanMeansClean)
  /\ QuarantineHolds
==============================================================================

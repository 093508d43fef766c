------------------------ MODULE ConversationRuntime ------------------------
(***************************************************************************)
(* The turn owner of roxy-agent: agent/control/runtime.py over the `turns` *)
(* table of session/store.py.                                              *)
(*                                                                         *)
(* One asyncio loop runs everything, so an action is what happens between  *)
(* two suspension points.  _control_admission_lock is never held across an *)
(* await, hence start_turn, reject_never_fit_turn and the locked part of   *)
(* interrupt_turn are one step each.  A turn id is a member of Turns; its  *)
(* request is abstracted to the bytes it is charged for.                   *)
(***************************************************************************)
EXTENDS Integers, FiniteSets

CONSTANTS
    Threads,        \* thread ids (SessionDB session keys)
    Turns,          \* the turn ids new_turn_id() may return
    NoTurn,         \* the absent turn: None in the code
    NoThread,       \* the thread of a row that does not exist yet
    Sizes,          \* encoded sizes of requests that fit an empty runtime
    MaxTurns,       \* max_active_turns
    MaxBytes,       \* max_active_bytes
    MaxObjects,     \* max_live_runtime_objects
    StoreMayFail    \* TRUE: a SessionStore write may raise

ASSUME NoTurnAssumption == NoTurn \notin Turns
ASSUME NoThreadAssumption == NoThread \notin Threads
ASSUME SizesAssumption == Sizes \subseteq Nat \ {0}
ASSUME LimitsAssumption ==
    /\ MaxTurns \in Nat \ {0}
    /\ MaxBytes \in Nat \ {0}
    /\ MaxObjects \in Nat \ {0}
ASSUME StoreMayFailAssumption == StoreMayFail \in BOOLEAN

VARIABLES
    \* durable: the turns table, and the transcript of the messages table
    status,       \* TurnStatus of each row, "absent" before create_turn
    thread,       \* session_key of the row
    pred,         \* metadata continuedFromTurnId
    root,         \* metadata interactionId
    rejected,     \* rows with metadata interactionRejected
    latest,       \* the newest row of each thread: list_turns(limit=1)
    finals,       \* terminal assistants appended for each interaction
    \* volatile: the fields of one ConversationRuntime
    up,           \* the process is running
    closed,       \* _closed
    accepting,    \* _accepting_turns
    owner,        \* _active_by_thread
    pc,           \* where the task in _tasks is suspended
    cancelling,   \* tasks with an undelivered task.cancel()
    reaping,      \* queued turns whose interrupter awaits gather(task)
    interruptReq, \* _interrupt_requested
    sealed,       \* _locked_turn_inputs
    future,       \* _results
    charge,       \* _active_turn_bytes, 0 where there is no entry
    activeBytes,  \* _active_admission_bytes
    liveObjects,  \* _live_runtime_objects
    \* history
    announced     \* turn/completed events published for each turn

store == <<status, thread, pred, root, rejected, latest>>
admission == <<charge, activeBytes, liveObjects>>
control == <<owner, pc, cancelling, reaping, interruptReq, sealed>>
vars == <<store, finals, up, closed, accepting, control, future, admission,
          announced>>

Terminal == {"completed", "interrupted", "failed", "cancelled"}
Status == {"absent", "queued", "in_progress"} \cup Terminal

\* "ready": the task exists, _run has not started.  "exec": inside the
\* executor.  "sealed": the reasoner called lock(), its transcript is not
\* appended.  "posted": append_messages committed.  "flush": the executor
\* returned, deltas are being published.  "dead": cancelled before it started.
TaskState == {"none", "ready", "exec", "sealed", "posted", "flush", "dead"}

\* Suspended inside _run: a cancellation is delivered at this await.
Suspended == {"exec", "sealed", "posted", "flush"}

Admitted == {t \in Turns : charge[t] > 0}

-----------------------------------------------------------------------------
Init ==
    /\ status = [t \in Turns |-> "absent"]
    /\ thread = [t \in Turns |-> NoThread]
    /\ pred = [t \in Turns |-> NoTurn]
    /\ root = [t \in Turns |-> t]
    /\ rejected = {}
    /\ latest = [th \in Threads |-> NoTurn]
    /\ finals = [t \in Turns |-> 0]
    /\ up = TRUE
    /\ closed = FALSE
    /\ accepting = TRUE
    /\ owner = [th \in Threads |-> NoTurn]
    /\ pc = [t \in Turns |-> "none"]
    /\ cancelling = {}
    /\ reaping = {}
    /\ interruptReq = {}
    /\ sealed = {}
    /\ future = [t \in Turns |-> "none"]
    /\ charge = [t \in Turns |-> 0]
    /\ activeBytes = 0
    /\ liveObjects = 0
    /\ announced = [t \in Turns |-> 0]

-----------------------------------------------------------------------------
\* Admission (runtime.py start_turn, reject_never_fit_turn).

\* _admission_can_fit
CanFit(b) ==
    /\ Cardinality(Admitted) < MaxTurns
    /\ activeBytes + b <= MaxBytes
    /\ liveObjects < MaxObjects

\* Mutant: the ThreadBusyError check is gone.
MayAdmit_BusyThread(th) == up /\ ~closed /\ accepting

\* The gates every new turn of thread th passes under the admission lock.
MayAdmit(th) ==
    /\ up
    /\ ~closed
    /\ accepting
    /\ owner[th] = NoTurn

\* Mutant: a completed attempt is continued as well.
Continues_Completed(th) ==
    /\ latest[th] # NoTurn
    /\ latest[th] \notin rejected

\* _open_interaction_attempts finds an unfinished logical interaction.
Continues(th) ==
    /\ latest[th] # NoTurn
    /\ status[latest[th]] # "completed"
    /\ latest[th] \notin rejected

\* Mutant: the interaction id is read from the predecessor's predecessor link.
CreateRow_RootOfLink(t, th, st) ==
    /\ status[t] = "absent"
    /\ status' = [status EXCEPT ![t] = st]
    /\ thread' = [thread EXCEPT ![t] = th]
    /\ latest' = [latest EXCEPT ![th] = t]
    /\ pred' = [pred EXCEPT ![t] = IF Continues(th) THEN latest[th] ELSE NoTurn]
    /\ root' = [root EXCEPT ![t] = IF Continues(th) THEN pred[latest[th]] ELSE t]

\* store.create_turn with the effective request, leaving the row in state st.
\* The error branches of the predecessor walk are unreachable: see
\* PredecessorsOpen.
CreateRow(t, th, st) ==
    /\ status[t] = "absent"
    /\ status' = [status EXCEPT ![t] = st]
    /\ thread' = [thread EXCEPT ![t] = th]
    /\ latest' = [latest EXCEPT ![th] = t]
    /\ pred' = [pred EXCEPT ![t] = IF Continues(th) THEN latest[th] ELSE NoTurn]
    /\ root' = [root EXCEPT ![t] = IF Continues(th) THEN root[latest[th]] ELSE t]

\* start_turn.  A create_turn that raises gives its reservation back within
\* the same step, so it changes nothing.
StartTurn(t, th, b) ==
    /\ MayAdmit(th)
    /\ CanFit(b)
    /\ CreateRow(t, th, "queued")
    /\ owner' = [owner EXCEPT ![th] = t]
    /\ pc' = [pc EXCEPT ![t] = "ready"]
    /\ future' = [future EXCEPT ![t] = "pending"]
    /\ charge' = [charge EXCEPT ![t] = b]
    /\ activeBytes' = activeBytes + b
    /\ liveObjects' = liveObjects + 1
    /\ UNCHANGED <<rejected, finals, up, closed, accepting, cancelling, reaping,
                   interruptReq, sealed, announced>>

\* reject_never_fit_turn: queued, in_progress and failed in one step, without
\* an owner and without a charge.
RejectNeverFit(t, th) ==
    /\ MayAdmit(th)
    /\ CreateRow(t, th, "failed")
    /\ rejected' = rejected \cup {t}
    /\ future' = [future EXCEPT ![t] = "failed"]
    /\ announced' = [announced EXCEPT ![t] = @ + 1]
    /\ UNCHANGED <<finals, up, closed, accepting, control, admission>>

\* The second or third write of reject_never_fit_turn raises (or the process
\* dies there: this step followed by Crash).  Nobody owns the row left behind.
RejectTorn(t, th, st) ==
    /\ StoreMayFail
    /\ MayAdmit(th)
    /\ CreateRow(t, th, st)
    /\ rejected' = rejected \cup {t}
    /\ future' = [future EXCEPT ![t] = "pending"]
    /\ UNCHANGED <<finals, up, closed, accepting, control, admission, announced>>

-----------------------------------------------------------------------------
\* The end of a turn.

\* Mutant: _release_admission is not called.
Release_KeepsCharge(t) ==
    /\ owner' = [owner EXCEPT ![thread[t]] = NoTurn]
    /\ pc' = [pc EXCEPT ![t] = "none"]
    /\ cancelling' = cancelling \ {t}
    /\ interruptReq' = interruptReq \ {t}
    /\ sealed' = sealed \ {t}
    /\ UNCHANGED admission

\* Mutant: the thread is still owned by the turn that ended.
Release_KeepsOwner(t) ==
    /\ pc' = [pc EXCEPT ![t] = "none"]
    /\ cancelling' = cancelling \ {t}
    /\ interruptReq' = interruptReq \ {t}
    /\ sealed' = sealed \ {t}
    /\ charge' = [charge EXCEPT ![t] = 0]
    /\ activeBytes' = activeBytes - charge[t]
    /\ liveObjects' = IF charge[t] > 0 THEN liveObjects - 1 ELSE liveObjects
    /\ UNCHANGED owner

\* _release_turn_ownership, with _release_admission
Release(t) ==
    /\ owner' = [owner EXCEPT ![thread[t]] = NoTurn]
    /\ pc' = [pc EXCEPT ![t] = "none"]
    /\ cancelling' = cancelling \ {t}
    /\ interruptReq' = interruptReq \ {t}
    /\ sealed' = sealed \ {t}
    /\ charge' = [charge EXCEPT ![t] = 0]
    /\ activeBytes' = activeBytes - charge[t]
    /\ liveObjects' = IF charge[t] > 0 THEN liveObjects - 1 ELSE liveObjects

\* A terminal row st is in the store: publish turn/completed, resolve the
\* future unless it is done, release the ownership.
Settle(t, st) ==
    /\ status' = [status EXCEPT ![t] = st]
    /\ announced' = [announced EXCEPT ![t] = @ + 1]
    /\ future' = [future EXCEPT ![t] = IF @ = "pending" THEN st ELSE @]
    /\ Release(t)
    /\ UNCHANGED <<thread, pred, root, rejected, latest, up, closed, accepting>>

\* Mutant: turn/completed is published although no terminal was written.
Abandon_Announces(t) ==
    /\ announced' = [announced EXCEPT ![t] = @ + 1]
    /\ future' = [future EXCEPT ![t] = IF @ = "pending" THEN "error" ELSE @]
    /\ Release(t)
    /\ UNCHANGED <<store, finals, up, closed, accepting, reaping>>

\* No terminal could be written: the future gets the exception, the ownership
\* is released and the row stays as it is.
Abandon(t) ==
    /\ future' = [future EXCEPT ![t] = IF @ = "pending" THEN "error" ELSE @]
    /\ Release(t)
    /\ UNCHANGED <<store, finals, up, closed, accepting, announced, reaping>>

-----------------------------------------------------------------------------
\* _run and the executor it awaits.

Runs(t, at) ==
    /\ up
    /\ pc[t] = at
    /\ t \notin cancelling

Goto(t, at) ==
    /\ pc' = [pc EXCEPT ![t] = at]
    /\ UNCHANGED <<owner, cancelling, reaping, interruptReq>>

\* _run starts: queued -> in_progress, turn/started, the executor is called.
Begin(t) ==
    /\ Runs(t, "ready")
    /\ status[t] = "queued"
    /\ status' = [status EXCEPT ![t] = "in_progress"]
    /\ Goto(t, "exec")
    /\ UNCHANGED <<thread, pred, root, rejected, latest, finals, up, closed,
                   accepting, sealed, future, admission, announced>>

\* That first transition raises with the row still queued: fatal_error.
BeginFails(t) ==
    /\ StoreMayFail
    /\ Runs(t, "ready")
    /\ Abandon(t)

\* The reasoner has its final answer and calls lock().
Seal(t) ==
    /\ Runs(t, "exec")
    /\ sealed' = sealed \cup {t}
    /\ Goto(t, "sealed")
    /\ UNCHANGED <<store, finals, up, closed, accepting, future, admission,
                   announced>>

\* append_messages: the users and the terminal assistant, in one transaction.
AppendTranscript(t) ==
    /\ Runs(t, "sealed")
    /\ finals' = [finals EXCEPT ![root[t]] = @ + 1]
    /\ Goto(t, "posted")
    /\ UNCHANGED <<store, up, closed, accepting, sealed, future, admission,
                   announced>>

\* The executor returns (a command short-circuited in "exec", or after the
\* commit) and _run seals the input before it publishes the deltas.
ExecutorReturns(t) ==
    /\ Runs(t, "exec") \/ Runs(t, "posted")
    /\ sealed' = sealed \cup {t}
    /\ Goto(t, "flush")
    /\ UNCHANGED <<store, finals, up, closed, accepting, future, admission,
                   announced>>

\* The last delta is out: in_progress -> completed.
Complete(t) ==
    /\ Runs(t, "flush")
    /\ status[t] = "in_progress"
    /\ Settle(t, "completed")
    /\ UNCHANGED <<finals, reaping>>

\* The executor, or the completing write, raises: in_progress -> failed.
Fail(t) ==
    /\ up
    /\ pc[t] \in Suspended
    /\ pc[t] = "flush" => StoreMayFail /\ t \notin cancelling
    /\ status[t] = "in_progress"
    /\ Settle(t, "failed")
    /\ UNCHANGED <<finals, reaping>>

\* task.cancel() takes effect at the await the task is suspended on.
CancelDelivered(t) ==
    /\ up
    /\ pc[t] \in Suspended
    /\ t \in cancelling
    /\ status[t] = "in_progress"
    /\ Settle(t, IF t \in interruptReq THEN "interrupted" ELSE "cancelled")
    /\ UNCHANGED <<finals, reaping>>

\* The write of the terminal raises inside the handler itself.
TerminalWriteFails(t) ==
    /\ StoreMayFail
    /\ up
    /\ pc[t] \in Suspended
    /\ Abandon(t)

\* Mutant: a task that never started gives its ownership back.
DieUnstarted_Releases(t) ==
    /\ up
    /\ pc[t] = "ready"
    /\ t \in cancelling
    /\ Release(t)
    /\ UNCHANGED <<store, finals, up, closed, accepting, reaping, future,
                   announced>>

\* A task cancelled before its first step never enters _run, nor its finally.
DieUnstarted(t) ==
    /\ up
    /\ pc[t] = "ready"
    /\ t \in cancelling
    /\ pc' = [pc EXCEPT ![t] = "dead"]
    /\ cancelling' = cancelling \ {t}
    /\ UNCHANGED <<store, finals, up, closed, accepting, owner, reaping,
                   interruptReq, sealed, future, admission, announced>>

-----------------------------------------------------------------------------
\* interrupt_turn

\* Mutant: the already_locked check is gone.
Interrupt_Sealed(t) ==
    /\ up
    /\ status[t] \in {"queued", "in_progress"}
    /\ owner[thread[t]] = t
    /\ sealed' = sealed \cup {t}
    /\ interruptReq' = IF status[t] = "in_progress"
                       THEN interruptReq \cup {t} ELSE interruptReq
    /\ reaping' = IF status[t] = "queued" THEN reaping \cup {t} ELSE reaping
    /\ cancelling' = IF pc[t] = "dead" THEN cancelling ELSE cancelling \cup {t}
    /\ UNCHANGED <<store, finals, up, closed, accepting, owner, pc, future,
                   admission, announced>>

\* Mutant: every interrupter leaves the terminal to the task, as if a
\* cancelled task always ran its handler.
Interrupt_LeavesQueued(t) ==
    /\ up
    /\ status[t] \in {"queued", "in_progress"}
    /\ owner[thread[t]] = t
    /\ t \notin sealed
    /\ sealed' = sealed \cup {t}
    /\ interruptReq' = interruptReq \cup {t}
    /\ cancelling' = IF pc[t] = "dead" THEN cancelling ELSE cancelling \cup {t}
    /\ UNCHANGED <<store, finals, up, closed, accepting, owner, pc, reaping,
                   future, admission, announced>>

\* The active turn is not sealed: seal it and cancel its task.  Only a turn
\* that runs is marked as interrupted; the interrupter of a queued one stays
\* to write its terminal.  A terminal turn or a sealed one changes nothing.
Interrupt(t) ==
    /\ up
    /\ status[t] \in {"queued", "in_progress"}
    /\ owner[thread[t]] = t
    /\ t \notin sealed
    /\ sealed' = sealed \cup {t}
    /\ interruptReq' = IF status[t] = "in_progress"
                       THEN interruptReq \cup {t} ELSE interruptReq
    /\ reaping' = IF status[t] = "queued" THEN reaping \cup {t} ELSE reaping
    /\ cancelling' = IF pc[t] = "dead" THEN cancelling ELSE cancelling \cup {t}
    /\ UNCHANGED <<store, finals, up, closed, accepting, owner, pc, future,
                   admission, announced>>

\* gather(task) returned and the future is not done: queued -> cancelled.
ReapQueued(t) ==
    /\ up
    /\ t \in reaping
    /\ pc[t] = "dead"
    /\ status[t] = "queued"
    /\ future[t] = "pending"
    /\ Settle(t, "cancelled")
    /\ reaping' = reaping \ {t}
    /\ UNCHANGED finals

\* That write raises in the interrupter: the turn keeps its ownership.
ReapFails(t) ==
    /\ StoreMayFail
    /\ up
    /\ t \in reaping
    /\ pc[t] = "dead"
    /\ reaping' = reaping \ {t}
    /\ UNCHANGED <<store, finals, up, closed, accepting, owner, pc, cancelling,
                   interruptReq, sealed, future, admission, announced>>

-----------------------------------------------------------------------------
\* The process.

\* quiesce_and_drain, prepare_deployment and quiesce_for_restart stop new
\* turns; _release_deployment and resume_after_restart_cancel let them in.
\* Who may do which is the subject of MaintenanceGate.
SetAccepting(flag) ==
    /\ up
    /\ ~closed
    /\ accepting # flag
    /\ accepting' = flag
    /\ UNCHANGED <<store, finals, up, closed, control, future, admission,
                   announced>>

\* shutdown closes the runtime (and may await a deployment's expiry task) ...
Shutdown ==
    /\ up
    /\ ~closed
    /\ closed' = TRUE
    /\ accepting' = FALSE
    /\ UNCHANGED <<store, finals, up, control, future, admission, announced>>

\* ... before it cancels every task that is still alive.
CancelTasks ==
    /\ up
    /\ closed
    /\ cancelling' = cancelling \cup {t \in Turns : pc[t] \notin {"none", "dead"}}
    /\ UNCHANGED <<store, finals, up, closed, accepting, owner, pc, reaping,
                   interruptReq, sealed, future, admission, announced>>

\* The process ends, at any point: only the store survives.
Crash ==
    /\ up
    /\ up' = FALSE
    /\ closed' = FALSE
    /\ accepting' = FALSE
    /\ owner' = [th \in Threads |-> NoTurn]
    /\ pc' = [t \in Turns |-> "none"]
    /\ cancelling' = {}
    /\ reaping' = {}
    /\ interruptReq' = {}
    /\ sealed' = {}
    /\ future' = [t \in Turns |-> "none"]
    /\ charge' = [t \in Turns |-> 0]
    /\ activeBytes' = 0
    /\ liveObjects' = 0
    /\ UNCHANGED <<store, finals, announced>>

\* The constructor runs recover_in_progress_turns in one transaction.
Boot ==
    /\ ~up
    /\ up' = TRUE
    /\ accepting' = TRUE
    /\ status' = [t \in Turns |->
                    CASE status[t] = "queued" -> "cancelled"
                      [] status[t] = "in_progress" -> "interrupted"
                      [] OTHER -> status[t]]
    /\ UNCHANGED <<thread, pred, root, rejected, latest, finals, closed, control,
                   future, admission, announced>>

-----------------------------------------------------------------------------
RunStep(t) ==
    \/ Begin(t)
    \/ Seal(t)
    \/ AppendTranscript(t)
    \/ ExecutorReturns(t)
    \/ Complete(t)
    \/ CancelDelivered(t)
    \/ DieUnstarted(t)

Next ==
    \/ \E t \in Turns, th \in Threads :
        \/ \E b \in Sizes : StartTurn(t, th, b)
        \/ RejectNeverFit(t, th)
        \/ \E st \in {"queued", "in_progress"} : RejectTorn(t, th, st)
    \/ \E t \in Turns :
        \/ RunStep(t)
        \/ Fail(t)
        \/ BeginFails(t)
        \/ TerminalWriteFails(t)
        \/ Interrupt(t)
        \/ ReapQueued(t)
        \/ ReapFails(t)
    \/ \E flag \in BOOLEAN : SetAccepting(flag)
    \/ Shutdown
    \/ CancelTasks
    \/ Crash
    \/ Boot

Spec == Init /\ [][Next]_vars

\* The loop runs every ready callback, and an executor comes to an end (its
\* provider calls and tools have timeouts).
Fairness == \A t \in Turns : WF_vars(RunStep(t)) /\ WF_vars(ReapQueued(t))

FairSpec == Spec /\ Fairness

-----------------------------------------------------------------------------
\* Properties

\* The values each variable may hold; the admission counters are naturals.
TypeOK ==
    /\ status \in [Turns -> Status]
    /\ thread \in [Turns -> Threads \cup {NoThread}]
    /\ pred \in [Turns -> Turns \cup {NoTurn}]
    /\ root \in [Turns -> Turns]
    /\ rejected \subseteq Turns
    /\ latest \in [Threads -> Turns \cup {NoTurn}]
    /\ finals \in [Turns -> Nat]
    /\ up \in BOOLEAN
    /\ closed \in BOOLEAN
    /\ accepting \in BOOLEAN
    /\ owner \in [Threads -> Turns \cup {NoTurn}]
    /\ pc \in [Turns -> TaskState]
    /\ cancelling \subseteq Turns
    /\ reaping \subseteq Turns
    /\ interruptReq \subseteq Turns
    /\ sealed \subseteq Turns
    /\ future \in [Turns -> {"none", "pending", "error"} \cup Terminal]
    /\ charge \in [Turns -> Nat]
    /\ activeBytes \in Int
    /\ liveObjects \in Int
    /\ announced \in [Turns -> Nat]

\* Two turns of one thread never have a live task at the same time, although
\* the release of one pops the thread's owner without checking whose it is
\* (runtime.py _release_turn_ownership).
OneLiveTurnPerThread ==
    \A t1, t2 \in Turns :
        pc[t1] # "none" /\ pc[t2] # "none" /\ thread[t1] = thread[t2]
            => t1 = t2

\* What a waiter is told is what the store says, it is announced exactly once,
\* and nothing is announced while the waiter still waits.
ResultAgrees ==
    \A t \in Turns :
        /\ future[t] \in Terminal => status[t] = future[t] /\ announced[t] = 1
        /\ future[t] \in {"pending", "error"} => announced[t] = 0
        /\ announced[t] <= 1

\* Capacity is charged for exactly the turns that own a thread, whichever of
\* the ways out of a turn was taken, and the limits hold.
AdmissionExact ==
    /\ Admitted = {t \in Turns : \E th \in Threads : owner[th] = t}
    /\ liveObjects = Cardinality(Admitted)
    /\ liveObjects <= MaxObjects
    /\ Cardinality(Admitted) <= MaxTurns
    /\ activeBytes <= MaxBytes

\* Every predecessor link is one the walk of _open_interaction_attempts
\* accepts: same thread, same interaction, not completed, not rejected.
PredecessorsOpen ==
    \A t \in Turns :
        pred[t] # NoTurn =>
            /\ thread[pred[t]] = thread[t]
            /\ root[pred[t]] = root[t]
            /\ status[pred[t]] \notin {"absent", "completed"}
            /\ pred[t] \notin rejected

\* While every store write succeeds, a row that is not terminal belongs to the
\* active turn of its thread, so an interrupt or a shutdown can still reach it.
NoOrphanRow ==
    ~StoreMayFail /\ up =>
        \A t \in Turns :
            status[t] \in {"queued", "in_progress"} => owner[thread[t]] = t

\* A terminal row never changes again.
TerminalIsFinal ==
    [][\A t \in Turns : status[t] \in Terminal => status'[t] = status[t]]_vars

\* A live process ends a running turn as interrupted only before its reasoner
\* sealed the input: an interrupt never discards an answer that is being
\* committed (interrupt_turn's already_locked against lock()).
InterruptBeforeSeal ==
    [][\A t \in Turns :
        up /\ status[t] = "in_progress" /\ status'[t] = "interrupted"
            => pc[t] = "exec"]_vars

\* A running turn becomes cancelled only by shutdown; a user's interrupt of a
\* running turn is always recorded as interrupted.
CancelledOnlyByShutdown ==
    [][\A t \in Turns :
        status[t] = "in_progress" /\ status'[t] = "cancelled" => closed]_vars

\* Every accepted turn is resolved unless the process shuts down or dies.
AcceptedTurnsResolve ==
    \A t \in Turns :
        future[t] = "pending" ~> future[t] # "pending" \/ closed

\* docs/projectneed.md:450: an interaction ends with "the unique terminal
\* assistant".
UniqueTerminalAssistant == \A t \in Turns : finals[t] <= 1

\* The runtime keeps the promise of TurnPromise: a queued and a running row are
\* both an outcome still open, a waiter is a future, a holder an owner.
Outcome == [t \in Turns |->
              IF status[t] \in {"queued", "in_progress"} THEN "open" ELSE status[t]]

Promise == INSTANCE TurnPromise WITH
    outcome <- Outcome, holder <- owner, told <- future, heard <- announced

\* Whatever the tasks, faults and interrupts do, the outcome of a turn, what
\* its waiter is told and the freedom of its thread change together
\* (runtime.py _run, interrupt_turn, reject_never_fit_turn and recovery).
KeepsPromise == Promise!Spec

=============================================================================

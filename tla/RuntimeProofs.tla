--------------------------- MODULE RuntimeProofs ---------------------------
(***************************************************************************)
(* Proofs about ConversationRuntime, for every set of threads and turns,   *)
(* every limit, and with or without store faults, that it implements       *)
(* TurnPromise, and that what HistoryProofs proves of compaction and of    *)
(* durable events holds in RuntimeSpec.                                    *)
(***************************************************************************)
EXTENDS MCRuntime, FiniteSetTheorems, TLAPS

\* The row and the task of a turn agree: an unstarted or dead task has a
\* queued row, a suspended one a running row, and its thread owns the turn.
TaskMatchesRow ==
    \A t \in Turns :
        /\ pc[t] \in {"ready", "dead"} => status[t] = "queued"
        /\ pc[t] \in Suspended => status[t] = "in_progress"
        /\ pc[t] # "none" =>
            /\ thread[t] \in Threads
            /\ owner[thread[t]] = t
            /\ future[t] = "pending"

\* An owner entry names a turn of that thread that has a task.
OwnerHasTask ==
    \A th \in Threads :
        owner[th] # NoTurn => thread[owner[th]] = th /\ pc[owner[th]] # "none"

\* Once the executor is past lock() the turn is in _locked_turn_inputs.
PastLockIsSealed ==
    \A t \in Turns : pc[t] \in {"sealed", "posted", "flush"} => t \in sealed

\* A cancellation is pending on a live task only; it hits a running task
\* because of an interrupt before the seal, or because of shutdown.
CancelHasCause ==
    \A t \in Turns :
        /\ t \in cancelling => pc[t] \in {"ready"} \cup Suspended
        /\ t \in interruptReq => pc[t] = "exec" /\ t \in cancelling
        /\ t \in cancelling /\ pc[t] \in Suspended => t \in interruptReq \/ closed

\* What has been told about each turn.
ToldMatchesRow ==
    \A t \in Turns :
        /\ status[t] \in {"absent", "queued", "in_progress"} => announced[t] = 0
        /\ announced[t] <= 1
        /\ future[t] \in {"pending", "error"} =>
             status[t] \in {"queued", "in_progress"}
        /\ future[t] \in Terminal => status[t] = future[t] /\ announced[t] = 1

\* A row that does not exist is named by no other row.
RowsExist ==
    /\ \A t \in Turns : status[t] = "absent" => pc[t] = "none" /\ pred[t] = NoTurn
    /\ \A t \in Turns : status[t] # "absent" => thread[t] \in Threads
    /\ \A th \in Threads :
        latest[th] # NoTurn =>
            status[latest[th]] # "absent" /\ thread[latest[th]] = th
    /\ \A t \in rejected : status[t] # "absent" /\ pc[t] = "none"

\* A predecessor is settled for good: it has no task that could complete it.
PredecessorsClosed ==
    \A t \in Turns :
        pred[t] # NoTurn =>
            /\ pred[t] \in Turns
            /\ thread[pred[t]] = thread[t]
            /\ root[pred[t]] = root[t]
            /\ status[pred[t]] \notin {"absent", "completed"}
            /\ pc[pred[t]] = "none"
            /\ pred[t] \notin rejected

\* A dead process has no volatile state.
DownIsEmpty ==
    ~up =>
        /\ \A t \in Turns : pc[t] = "none" /\ future[t] = "none"
        /\ \A th \in Threads : owner[th] = NoTurn

\* The inductive invariant.
IInv ==
    /\ TypeOK
    /\ TaskMatchesRow
    /\ OwnerHasTask
    /\ PastLockIsSealed
    /\ CancelHasCause
    /\ ToldMatchesRow
    /\ RowsExist
    /\ PredecessorsClosed
    /\ DownIsEmpty

-----------------------------------------------------------------------------
\* Used throughout: the absent turn is no turn, the limits are positive.
USE NoTurnAssumption, NoThreadAssumption, SizesAssumption, LimitsAssumption

\* Giving the ownership of a turn back keeps the control state typed.
LEMMA ReleaseType ==
  ASSUME TypeOK, NEW t \in Turns, Release(t)
  PROVE  /\ owner' \in [Threads -> Turns \cup {NoTurn}]
         /\ pc' \in [Turns -> TaskState]
         /\ cancelling' \subseteq Turns
         /\ interruptReq' \subseteq Turns
         /\ sealed' \subseteq Turns
         /\ charge' \in [Turns -> Nat]
         /\ activeBytes' \in Int
         /\ liveObjects' \in Int
<1>1. /\ owner' \in [Threads -> Turns \cup {NoTurn}]
      /\ pc' \in [Turns -> TaskState]
  BY DEF TypeOK, Release, TaskState
<1>2. cancelling' \subseteq Turns /\ interruptReq' \subseteq Turns /\ sealed' \subseteq Turns
  BY DEF TypeOK, Release
<1>3. charge' \in [Turns -> Nat] /\ activeBytes' \in Int /\ liveObjects' \in Int
  BY DEF TypeOK, Release
<1>4. QED
  BY <1>1, <1>2, <1>3

\* Writing and announcing a terminal keeps every variable in its domain.
LEMMA SettleType ==
  ASSUME TypeOK, NEW t \in Turns, NEW st \in Terminal, Settle(t, st),
         finals' = finals, reaping' \subseteq Turns
  PROVE  TypeOK'
<1>1. Release(t)
  BY DEF Settle
<1>2. status' \in [Turns -> Status]
  BY DEF TypeOK, Settle, Status
<1>3. /\ future' \in [Turns -> {"none", "pending", "error"} \cup Terminal]
      /\ announced' \in [Turns -> Nat]
  BY DEF TypeOK, Settle
<1>4. /\ thread' \in [Turns -> Threads \cup {NoThread}]
      /\ pred' \in [Turns -> Turns \cup {NoTurn}]
      /\ root' \in [Turns -> Turns]
      /\ rejected' \subseteq Turns
      /\ latest' \in [Threads -> Turns \cup {NoTurn}]
      /\ finals' \in [Turns -> Nat]
  BY DEF TypeOK, Settle
<1>5. up' \in BOOLEAN /\ closed' \in BOOLEAN /\ accepting' \in BOOLEAN
  BY DEF TypeOK, Settle
<1>6. QED
  BY <1>1, <1>2, <1>3, <1>4, <1>5, ReleaseType DEF TypeOK

\* So does abandoning a turn whose terminal could not be written.
LEMMA AbandonType ==
  ASSUME TypeOK, NEW t \in Turns, Abandon(t)
  PROVE  TypeOK'
<1>1. Release(t)
  BY DEF Abandon
<1>2. future' \in [Turns -> {"none", "pending", "error"} \cup Terminal]
  BY DEF TypeOK, Abandon
<1>3. /\ status' \in [Turns -> Status]
      /\ thread' \in [Turns -> Threads \cup {NoThread}]
      /\ pred' \in [Turns -> Turns \cup {NoTurn}]
      /\ root' \in [Turns -> Turns]
      /\ rejected' \subseteq Turns
      /\ latest' \in [Threads -> Turns \cup {NoTurn}]
      /\ finals' \in [Turns -> Nat]
      /\ announced' \in [Turns -> Nat]
      /\ reaping' \subseteq Turns
  BY DEF TypeOK, Abandon, store
<1>4. up' \in BOOLEAN /\ closed' \in BOOLEAN /\ accepting' \in BOOLEAN
  BY DEF TypeOK, Abandon
<1>5. QED
  BY <1>1, <1>2, <1>3, <1>4, ReleaseType DEF TypeOK

\* A fresh process starts from the typed empty volatile state.
LEMMA EmptyType ==
  ASSUME TRUE
  PROVE  /\ [th \in Threads |-> NoTurn] \in [Threads -> Turns \cup {NoTurn}]
         /\ [t \in Turns |-> "none"] \in [Turns -> TaskState]
         /\ [t \in Turns |-> "none"] \in
              [Turns -> {"none", "pending", "error"} \cup Terminal]
         /\ [t \in Turns |-> 0] \in [Turns -> Nat]
  BY DEF TaskState

\* Every step keeps each variable in its domain.
LEMMA TypeStep == TypeOK /\ [Next]_vars => TypeOK'
<1> SUFFICES ASSUME TypeOK, [Next]_vars PROVE TypeOK'
  OBVIOUS
<1>1. CASE UNCHANGED vars
  BY <1>1 DEF vars, store, control, admission, TypeOK, Status, Terminal, TaskState
<1>2. ASSUME NEW t \in Turns, NEW th \in Threads, NEW b \in Sizes,
             StartTurn(t, th, b)
      PROVE  TypeOK'
  BY <1>2 DEF StartTurn, CreateRow, MayAdmit, Continues, TypeOK, Status, Terminal, TaskState
<1>3. ASSUME NEW t \in Turns, NEW th \in Threads, RejectNeverFit(t, th)
      PROVE  TypeOK'
  BY <1>3 DEF RejectNeverFit, CreateRow, MayAdmit, Continues, control, admission, TypeOK, Status, Terminal, TaskState
<1>4. ASSUME NEW t \in Turns, NEW th \in Threads,
             NEW st \in {"queued", "in_progress"}, RejectTorn(t, th, st)
      PROVE  TypeOK'
  BY <1>4 DEF RejectTorn, CreateRow, MayAdmit, Continues, control, admission, TypeOK, Status, Terminal, TaskState
<1>5. ASSUME NEW t \in Turns, Begin(t) PROVE TypeOK'
  BY <1>5 DEF Begin, Runs, Goto, admission, TypeOK, Status, Terminal, TaskState
<1>6. ASSUME NEW t \in Turns, Seal(t) PROVE TypeOK'
  BY <1>6 DEF Seal, Runs, Goto, store, admission, TypeOK, Status, Terminal, TaskState
<1>7. ASSUME NEW t \in Turns, AppendTranscript(t) PROVE TypeOK'
  BY <1>7 DEF AppendTranscript, Runs, Goto, store, admission, TypeOK, Status, Terminal, TaskState
<1>8. ASSUME NEW t \in Turns, ExecutorReturns(t) PROVE TypeOK'
  BY <1>8 DEF ExecutorReturns, Runs, Goto, store, admission, TypeOK, Status, Terminal, TaskState
<1>9. ASSUME NEW t \in Turns, Complete(t) PROVE TypeOK'
  BY <1>9, SettleType DEF Complete, Terminal, TypeOK
<1>10. ASSUME NEW t \in Turns, CancelDelivered(t) PROVE TypeOK'
  BY <1>10, SettleType DEF CancelDelivered, Terminal, TypeOK
<1>11. ASSUME NEW t \in Turns, DieUnstarted(t) PROVE TypeOK'
  BY <1>11 DEF DieUnstarted, store, admission, TypeOK, Status, Terminal, TaskState
<1>12. ASSUME NEW t \in Turns, Fail(t) PROVE TypeOK'
  BY <1>12, SettleType DEF Fail, Terminal, TypeOK
<1>13. ASSUME NEW t \in Turns, BeginFails(t) PROVE TypeOK'
  BY <1>13, AbandonType DEF BeginFails
<1>14. ASSUME NEW t \in Turns, TerminalWriteFails(t) PROVE TypeOK'
  BY <1>14, AbandonType DEF TerminalWriteFails
<1>15. ASSUME NEW t \in Turns, Interrupt(t) PROVE TypeOK'
  BY <1>15 DEF Interrupt, store, admission, TypeOK, Status, Terminal, TaskState
<1>16. ASSUME NEW t \in Turns, ReapQueued(t) PROVE TypeOK'
  BY <1>16, SettleType DEF ReapQueued, Terminal, TypeOK
<1>17. ASSUME NEW t \in Turns, ReapFails(t) PROVE TypeOK'
  BY <1>17 DEF ReapFails, store, admission, TypeOK, Status, Terminal, TaskState
<1>18. ASSUME NEW flag \in BOOLEAN, SetAccepting(flag) PROVE TypeOK'
  BY <1>18 DEF SetAccepting, store, control, admission, TypeOK, Status, Terminal, TaskState
<1>19. CASE Shutdown
  BY <1>19 DEF Shutdown, store, control, admission, TypeOK, Status, Terminal, TaskState
<1>20. CASE CancelTasks
  BY <1>20 DEF CancelTasks, store, admission, TypeOK, Status, Terminal, TaskState
<1>21. CASE Crash
  <2>1. /\ status' \in [Turns -> Status]
        /\ thread' \in [Turns -> Threads \cup {NoThread}]
        /\ pred' \in [Turns -> Turns \cup {NoTurn}]
        /\ root' \in [Turns -> Turns]
        /\ rejected' \subseteq Turns
        /\ latest' \in [Threads -> Turns \cup {NoTurn}]
        /\ finals' \in [Turns -> Nat]
        /\ announced' \in [Turns -> Nat]
    BY <1>21 DEF Crash, store, TypeOK
  <2>2. up' \in BOOLEAN /\ closed' \in BOOLEAN /\ accepting' \in BOOLEAN
    BY <1>21 DEF Crash
  <2>3. cancelling' = {} /\ reaping' = {} /\ interruptReq' = {} /\ sealed' = {}
    BY <1>21 DEF Crash
  <2>4. /\ owner' \in [Threads -> Turns \cup {NoTurn}]
        /\ pc' \in [Turns -> TaskState]
        /\ future' \in [Turns -> {"none", "pending", "error"} \cup Terminal]
        /\ charge' \in [Turns -> Nat]
    BY <1>21, EmptyType DEF Crash
  <2>5. activeBytes' \in Int /\ liveObjects' \in Int
    BY <1>21 DEF Crash
  <2>6. QED
    BY <2>1, <2>2, <2>3, <2>4, <2>5 DEF TypeOK
<1>22. CASE Boot
  BY <1>22 DEF Boot, control, admission, TypeOK, Status, Terminal, TaskState
<1>23. QED
  BY <1>1, <1>2, <1>3, <1>4, <1>5, <1>6, <1>7, <1>8, <1>9, <1>10, <1>11, <1>12,
     <1>13, <1>14, <1>15, <1>16, <1>17, <1>18, <1>19, <1>20, <1>21, <1>22
     DEF Next, RunStep

\* Every variable starts in its domain.
LEMMA InitType == Init => TypeOK
<1> SUFFICES ASSUME Init PROVE TypeOK
  OBVIOUS
<1>1. /\ status \in [Turns -> Status]
      /\ thread \in [Turns -> Threads \cup {NoThread}]
      /\ pred \in [Turns -> Turns \cup {NoTurn}]
      /\ root \in [Turns -> Turns]
      /\ latest \in [Threads -> Turns \cup {NoTurn}]
  BY DEF Init, Status
<1>2. rejected = {} /\ finals \in [Turns -> Nat] /\ announced \in [Turns -> Nat]
  BY DEF Init
<1>3. up \in BOOLEAN /\ closed \in BOOLEAN /\ accepting \in BOOLEAN
  BY DEF Init
<1>4. cancelling = {} /\ reaping = {} /\ interruptReq = {} /\ sealed = {}
  BY DEF Init
<1>5. /\ owner \in [Threads -> Turns \cup {NoTurn}]
      /\ pc \in [Turns -> TaskState]
      /\ future \in [Turns -> {"none", "pending", "error"} \cup Terminal]
      /\ charge \in [Turns -> Nat]
  BY EmptyType DEF Init
<1>6. activeBytes \in Int /\ liveObjects \in Int
  BY DEF Init
<1>7. QED
  BY <1>1, <1>2, <1>3, <1>4, <1>5, <1>6 DEF TypeOK

\* Every variable of the turn owner stays in its domain, for every instance.
THEOREM TypeCorrect == Spec => []TypeOK
  BY InitType, TypeStep, PTL DEF Spec

-----------------------------------------------------------------------------
\* Writing and announcing the terminal of a turn that has a task keeps IInv:
\* the task is what makes the turn the owner of its thread.
LEMMA SettleInv ==
  ASSUME IInv, NEW t \in Turns, NEW st \in Terminal, Settle(t, st),
         pc[t] # "none", up, finals' = finals, reaping' \subseteq Turns
  PROVE  IInv'
<1>0. TypeOK'
  BY SettleType DEF IInv
<1>1. TaskMatchesRow'
  BY DEF IInv, TypeOK, TaskMatchesRow, OwnerHasTask, RowsExist, Settle,
     Release, Suspended, Terminal
<1>2. OwnerHasTask'
  BY DEF IInv, TypeOK, OwnerHasTask, TaskMatchesRow, RowsExist, Settle,
     Release, Suspended, Terminal
<1>3. PastLockIsSealed'
  BY DEF IInv, TypeOK, PastLockIsSealed, Settle, Release, Suspended, Terminal
<1>4. CancelHasCause'
  BY DEF IInv, TypeOK, CancelHasCause, TaskMatchesRow, OwnerHasTask,
     PastLockIsSealed, Settle, Release, Suspended, Terminal
<1>5. ToldMatchesRow'
  BY DEF IInv, TypeOK, ToldMatchesRow, TaskMatchesRow, DownIsEmpty, Settle,
     Release, Suspended, Terminal
<1>6. RowsExist'
  BY DEF IInv, TypeOK, RowsExist, TaskMatchesRow, OwnerHasTask, Settle,
     Release, Suspended, Terminal
<1>7. PredecessorsClosed'
  BY DEF IInv, TypeOK, PredecessorsClosed, RowsExist, TaskMatchesRow,
     OwnerHasTask, Settle, Release, Suspended, Terminal
<1>8. DownIsEmpty'
  BY DEF IInv, TypeOK, DownIsEmpty, Settle, Release, Suspended, Terminal
<1>9. QED
  BY <1>0, <1>1, <1>2, <1>3, <1>4, <1>5, <1>6, <1>7, <1>8 DEF IInv

\* Giving such a turn up without a terminal keeps it as well.
LEMMA AbandonInv ==
  ASSUME IInv, NEW t \in Turns, Abandon(t), pc[t] # "none", up
  PROVE  IInv'
<1>0. TypeOK'
  BY AbandonType DEF IInv
<1>1. TaskMatchesRow'
  BY DEF IInv, TypeOK, TaskMatchesRow, OwnerHasTask, RowsExist, Abandon,
     Release, store, Suspended, Terminal
<1>2. OwnerHasTask'
  BY DEF IInv, TypeOK, OwnerHasTask, TaskMatchesRow, RowsExist, Abandon,
     Release, store, Suspended, Terminal
<1>3. PastLockIsSealed'
  BY DEF IInv, TypeOK, PastLockIsSealed, Abandon, Release, store, Suspended,
     Terminal
<1>4. CancelHasCause'
  BY DEF IInv, TypeOK, CancelHasCause, TaskMatchesRow, OwnerHasTask,
     PastLockIsSealed, Abandon, Release, store, Suspended, Terminal
<1>5. ToldMatchesRow'
  BY DEF IInv, TypeOK, ToldMatchesRow, TaskMatchesRow, DownIsEmpty, Abandon,
     Release, store, Suspended, Terminal
<1>6. RowsExist'
  BY DEF IInv, TypeOK, RowsExist, TaskMatchesRow, OwnerHasTask, Abandon,
     Release, store, Suspended, Terminal
<1>7. PredecessorsClosed'
  BY DEF IInv, TypeOK, PredecessorsClosed, RowsExist, TaskMatchesRow,
     OwnerHasTask, Abandon, Release, store, Suspended, Terminal
<1>8. DownIsEmpty'
  BY DEF IInv, TypeOK, DownIsEmpty, Abandon, Release, store, Suspended,
     Terminal
<1>9. QED
  BY <1>0, <1>1, <1>2, <1>3, <1>4, <1>5, <1>6, <1>7, <1>8 DEF IInv

\* A thread without an owner has no live task, so its newest row is closed and
\* the new turn can own the thread.
LEMMA StartTurnInv ==
  ASSUME IInv, NEW t \in Turns, NEW th \in Threads, NEW b \in Sizes,
         StartTurn(t, th, b)
  PROVE  IInv'
<1>0. TypeOK'
  BY TypeStep DEF IInv, Next, RunStep
<1>1. TaskMatchesRow'
  BY DEF IInv, TypeOK, TaskMatchesRow, OwnerHasTask, RowsExist, StartTurn,
     CreateRow, MayAdmit, Continues, Suspended, Terminal
<1>2. OwnerHasTask'
  BY DEF IInv, TypeOK, OwnerHasTask, TaskMatchesRow, RowsExist, StartTurn,
     CreateRow, MayAdmit, Continues, Suspended, Terminal
<1>3. PastLockIsSealed'
  BY DEF IInv, TypeOK, PastLockIsSealed, StartTurn, CreateRow, MayAdmit,
     Continues, Suspended, Terminal
<1>4. CancelHasCause'
  BY DEF IInv, TypeOK, CancelHasCause, TaskMatchesRow, OwnerHasTask,
     PastLockIsSealed, StartTurn, CreateRow, MayAdmit, Continues, Suspended,
     Terminal
<1>5. ToldMatchesRow'
  BY DEF IInv, TypeOK, ToldMatchesRow, TaskMatchesRow, DownIsEmpty, StartTurn,
     CreateRow, MayAdmit, Continues, Suspended, Terminal
<1>6. RowsExist'
  BY DEF IInv, TypeOK, RowsExist, TaskMatchesRow, OwnerHasTask, StartTurn,
     CreateRow, MayAdmit, Continues, Suspended, Terminal
<1>7. PredecessorsClosed'
  BY DEF IInv, TypeOK, PredecessorsClosed, RowsExist, TaskMatchesRow,
     OwnerHasTask, StartTurn, CreateRow, MayAdmit, Continues, Suspended,
     Terminal
<1>8. DownIsEmpty'
  BY DEF IInv, TypeOK, DownIsEmpty, StartTurn, CreateRow, MayAdmit, Continues,
     Suspended, Terminal
<1>9. QED
  BY <1>0, <1>1, <1>2, <1>3, <1>4, <1>5, <1>6, <1>7, <1>8 DEF IInv

\* A rejected input is a terminal row from the start.
LEMMA RejectNeverFitInv ==
  ASSUME IInv, NEW t \in Turns, NEW th \in Threads,
         RejectNeverFit(t, th)
  PROVE  IInv'
<1>0. TypeOK'
  BY TypeStep DEF IInv, Next, RunStep
<1>1. TaskMatchesRow'
  BY DEF IInv, TypeOK, TaskMatchesRow, OwnerHasTask, RowsExist,
     RejectNeverFit, CreateRow, MayAdmit, Continues, control, admission,
     Suspended, Terminal
<1>2. OwnerHasTask'
  BY DEF IInv, TypeOK, OwnerHasTask, TaskMatchesRow, RowsExist,
     RejectNeverFit, CreateRow, MayAdmit, Continues, control, admission,
     Suspended, Terminal
<1>3. PastLockIsSealed'
  BY DEF IInv, TypeOK, PastLockIsSealed, RejectNeverFit, CreateRow, MayAdmit,
     Continues, control, admission, Suspended, Terminal
<1>4. CancelHasCause'
  BY DEF IInv, TypeOK, CancelHasCause, TaskMatchesRow, OwnerHasTask,
     PastLockIsSealed, RejectNeverFit, CreateRow, MayAdmit, Continues,
     control, admission, Suspended, Terminal
<1>5. ToldMatchesRow'
  BY DEF IInv, TypeOK, ToldMatchesRow, TaskMatchesRow, DownIsEmpty,
     RejectNeverFit, CreateRow, MayAdmit, Continues, control, admission,
     Suspended, Terminal
<1>6. RowsExist'
  BY DEF IInv, TypeOK, RowsExist, TaskMatchesRow, OwnerHasTask,
     RejectNeverFit, CreateRow, MayAdmit, Continues, control, admission,
     Suspended, Terminal
<1>7. PredecessorsClosed'
  BY DEF IInv, TypeOK, PredecessorsClosed, RowsExist, TaskMatchesRow,
     OwnerHasTask, RejectNeverFit, CreateRow, MayAdmit, Continues, control,
     admission, Suspended, Terminal
<1>8. DownIsEmpty'
  BY DEF IInv, TypeOK, DownIsEmpty, RejectNeverFit, CreateRow, MayAdmit,
     Continues, control, admission, Suspended, Terminal
<1>9. QED
  BY <1>0, <1>1, <1>2, <1>3, <1>4, <1>5, <1>6, <1>7, <1>8 DEF IInv

\* A torn rejection leaves a row without a task.
LEMMA RejectTornInv ==
  ASSUME IInv, NEW t \in Turns, NEW th \in Threads,
         NEW st \in {"queued", "in_progress"},
         RejectTorn(t, th, st)
  PROVE  IInv'
<1>0. TypeOK'
  BY TypeStep DEF IInv, Next, RunStep
<1>1. TaskMatchesRow'
  BY DEF IInv, TypeOK, TaskMatchesRow, OwnerHasTask, RowsExist, RejectTorn,
     CreateRow, MayAdmit, Continues, control, admission, Suspended, Terminal
<1>2. OwnerHasTask'
  BY DEF IInv, TypeOK, OwnerHasTask, TaskMatchesRow, RowsExist, RejectTorn,
     CreateRow, MayAdmit, Continues, control, admission, Suspended, Terminal
<1>3. PastLockIsSealed'
  BY DEF IInv, TypeOK, PastLockIsSealed, RejectTorn, CreateRow, MayAdmit,
     Continues, control, admission, Suspended, Terminal
<1>4. CancelHasCause'
  BY DEF IInv, TypeOK, CancelHasCause, TaskMatchesRow, OwnerHasTask,
     PastLockIsSealed, RejectTorn, CreateRow, MayAdmit, Continues, control,
     admission, Suspended, Terminal
<1>5. ToldMatchesRow'
  BY DEF IInv, TypeOK, ToldMatchesRow, TaskMatchesRow, DownIsEmpty,
     RejectTorn, CreateRow, MayAdmit, Continues, control, admission,
     Suspended, Terminal
<1>6. RowsExist'
  BY DEF IInv, TypeOK, RowsExist, TaskMatchesRow, OwnerHasTask, RejectTorn,
     CreateRow, MayAdmit, Continues, control, admission, Suspended, Terminal
<1>7. PredecessorsClosed'
  BY DEF IInv, TypeOK, PredecessorsClosed, RowsExist, TaskMatchesRow,
     OwnerHasTask, RejectTorn, CreateRow, MayAdmit, Continues, control,
     admission, Suspended, Terminal
<1>8. DownIsEmpty'
  BY DEF IInv, TypeOK, DownIsEmpty, RejectTorn, CreateRow, MayAdmit,
     Continues, control, admission, Suspended, Terminal
<1>9. QED
  BY <1>0, <1>1, <1>2, <1>3, <1>4, <1>5, <1>6, <1>7, <1>8 DEF IInv

\* The row of the turn moves with its task.
LEMMA BeginInv ==
  ASSUME IInv, NEW t \in Turns,
         Begin(t)
  PROVE  IInv'
<1>0. TypeOK'
  BY TypeStep DEF IInv, Next, RunStep
<1>1. TaskMatchesRow'
  BY DEF IInv, TypeOK, TaskMatchesRow, OwnerHasTask, RowsExist, Begin, Runs,
     Goto, admission, Suspended, Terminal
<1>2. OwnerHasTask'
  BY DEF IInv, TypeOK, OwnerHasTask, TaskMatchesRow, RowsExist, Begin, Runs,
     Goto, admission, Suspended, Terminal
<1>3. PastLockIsSealed'
  BY DEF IInv, TypeOK, PastLockIsSealed, Begin, Runs, Goto, admission,
     Suspended, Terminal
<1>4. CancelHasCause'
  BY DEF IInv, TypeOK, CancelHasCause, TaskMatchesRow, OwnerHasTask,
     PastLockIsSealed, Begin, Runs, Goto, admission, Suspended, Terminal
<1>5. ToldMatchesRow'
  BY DEF IInv, TypeOK, ToldMatchesRow, TaskMatchesRow, DownIsEmpty, Begin,
     Runs, Goto, admission, Suspended, Terminal
<1>6. RowsExist'
  BY DEF IInv, TypeOK, RowsExist, TaskMatchesRow, OwnerHasTask, Begin, Runs,
     Goto, admission, Suspended, Terminal
<1>7. PredecessorsClosed'
  BY DEF IInv, TypeOK, PredecessorsClosed, RowsExist, TaskMatchesRow,
     OwnerHasTask, Begin, Runs, Goto, admission, Suspended, Terminal
<1>8. DownIsEmpty'
  BY DEF IInv, TypeOK, DownIsEmpty, Begin, Runs, Goto, admission, Suspended,
     Terminal
<1>9. QED
  BY <1>0, <1>1, <1>2, <1>3, <1>4, <1>5, <1>6, <1>7, <1>8 DEF IInv

\* A task that passes the seal has no pending interrupt.
LEMMA SealInv ==
  ASSUME IInv, NEW t \in Turns,
         Seal(t)
  PROVE  IInv'
<1>0. TypeOK'
  BY TypeStep DEF IInv, Next, RunStep
<1>1. TaskMatchesRow'
  BY DEF IInv, TypeOK, TaskMatchesRow, OwnerHasTask, RowsExist, Seal, Runs,
     Goto, store, admission, Suspended, Terminal
<1>2. OwnerHasTask'
  BY DEF IInv, TypeOK, OwnerHasTask, TaskMatchesRow, RowsExist, Seal, Runs,
     Goto, store, admission, Suspended, Terminal
<1>3. PastLockIsSealed'
  BY DEF IInv, TypeOK, PastLockIsSealed, Seal, Runs, Goto, store, admission,
     Suspended, Terminal
<1>4. CancelHasCause'
  BY DEF IInv, TypeOK, CancelHasCause, TaskMatchesRow, OwnerHasTask,
     PastLockIsSealed, Seal, Runs, Goto, store, admission, Suspended, Terminal
<1>5. ToldMatchesRow'
  BY DEF IInv, TypeOK, ToldMatchesRow, TaskMatchesRow, DownIsEmpty, Seal,
     Runs, Goto, store, admission, Suspended, Terminal
<1>6. RowsExist'
  BY DEF IInv, TypeOK, RowsExist, TaskMatchesRow, OwnerHasTask, Seal, Runs,
     Goto, store, admission, Suspended, Terminal
<1>7. PredecessorsClosed'
  BY DEF IInv, TypeOK, PredecessorsClosed, RowsExist, TaskMatchesRow,
     OwnerHasTask, Seal, Runs, Goto, store, admission, Suspended, Terminal
<1>8. DownIsEmpty'
  BY DEF IInv, TypeOK, DownIsEmpty, Seal, Runs, Goto, store, admission,
     Suspended, Terminal
<1>9. QED
  BY <1>0, <1>1, <1>2, <1>3, <1>4, <1>5, <1>6, <1>7, <1>8 DEF IInv

\* The transcript is no part of the control state.
LEMMA AppendInv ==
  ASSUME IInv, NEW t \in Turns,
         AppendTranscript(t)
  PROVE  IInv'
<1>0. TypeOK'
  BY TypeStep DEF IInv, Next, RunStep
<1>1. TaskMatchesRow'
  BY DEF IInv, TypeOK, TaskMatchesRow, OwnerHasTask, RowsExist,
     AppendTranscript, Runs, Goto, store, admission, Suspended, Terminal
<1>2. OwnerHasTask'
  BY DEF IInv, TypeOK, OwnerHasTask, TaskMatchesRow, RowsExist,
     AppendTranscript, Runs, Goto, store, admission, Suspended, Terminal
<1>3. PastLockIsSealed'
  BY DEF IInv, TypeOK, PastLockIsSealed, AppendTranscript, Runs, Goto, store,
     admission, Suspended, Terminal
<1>4. CancelHasCause'
  BY DEF IInv, TypeOK, CancelHasCause, TaskMatchesRow, OwnerHasTask,
     PastLockIsSealed, AppendTranscript, Runs, Goto, store, admission,
     Suspended, Terminal
<1>5. ToldMatchesRow'
  BY DEF IInv, TypeOK, ToldMatchesRow, TaskMatchesRow, DownIsEmpty,
     AppendTranscript, Runs, Goto, store, admission, Suspended, Terminal
<1>6. RowsExist'
  BY DEF IInv, TypeOK, RowsExist, TaskMatchesRow, OwnerHasTask,
     AppendTranscript, Runs, Goto, store, admission, Suspended, Terminal
<1>7. PredecessorsClosed'
  BY DEF IInv, TypeOK, PredecessorsClosed, RowsExist, TaskMatchesRow,
     OwnerHasTask, AppendTranscript, Runs, Goto, store, admission, Suspended,
     Terminal
<1>8. DownIsEmpty'
  BY DEF IInv, TypeOK, DownIsEmpty, AppendTranscript, Runs, Goto, store,
     admission, Suspended, Terminal
<1>9. QED
  BY <1>0, <1>1, <1>2, <1>3, <1>4, <1>5, <1>6, <1>7, <1>8 DEF IInv

\* The executor's return seals the turn.
LEMMA ReturnInv ==
  ASSUME IInv, NEW t \in Turns,
         ExecutorReturns(t)
  PROVE  IInv'
<1>0. TypeOK'
  BY TypeStep DEF IInv, Next, RunStep
<1>1. TaskMatchesRow'
  BY DEF IInv, TypeOK, TaskMatchesRow, OwnerHasTask, RowsExist,
     ExecutorReturns, Runs, Goto, store, admission, Suspended, Terminal
<1>2. OwnerHasTask'
  BY DEF IInv, TypeOK, OwnerHasTask, TaskMatchesRow, RowsExist,
     ExecutorReturns, Runs, Goto, store, admission, Suspended, Terminal
<1>3. PastLockIsSealed'
  BY DEF IInv, TypeOK, PastLockIsSealed, ExecutorReturns, Runs, Goto, store,
     admission, Suspended, Terminal
<1>4. CancelHasCause'
  BY DEF IInv, TypeOK, CancelHasCause, TaskMatchesRow, OwnerHasTask,
     PastLockIsSealed, ExecutorReturns, Runs, Goto, store, admission,
     Suspended, Terminal
<1>5. ToldMatchesRow'
  BY DEF IInv, TypeOK, ToldMatchesRow, TaskMatchesRow, DownIsEmpty,
     ExecutorReturns, Runs, Goto, store, admission, Suspended, Terminal
<1>6. RowsExist'
  BY DEF IInv, TypeOK, RowsExist, TaskMatchesRow, OwnerHasTask,
     ExecutorReturns, Runs, Goto, store, admission, Suspended, Terminal
<1>7. PredecessorsClosed'
  BY DEF IInv, TypeOK, PredecessorsClosed, RowsExist, TaskMatchesRow,
     OwnerHasTask, ExecutorReturns, Runs, Goto, store, admission, Suspended,
     Terminal
<1>8. DownIsEmpty'
  BY DEF IInv, TypeOK, DownIsEmpty, ExecutorReturns, Runs, Goto, store,
     admission, Suspended, Terminal
<1>9. QED
  BY <1>0, <1>1, <1>2, <1>3, <1>4, <1>5, <1>6, <1>7, <1>8 DEF IInv

\* A task that dies unstarted still owns its thread.
LEMMA DieUnstartedInv ==
  ASSUME IInv, NEW t \in Turns,
         DieUnstarted(t)
  PROVE  IInv'
<1>0. TypeOK'
  BY TypeStep DEF IInv, Next, RunStep
<1>1. TaskMatchesRow'
  BY DEF IInv, TypeOK, TaskMatchesRow, OwnerHasTask, RowsExist, DieUnstarted,
     store, admission, Suspended, Terminal
<1>2. OwnerHasTask'
  BY DEF IInv, TypeOK, OwnerHasTask, TaskMatchesRow, RowsExist, DieUnstarted,
     store, admission, Suspended, Terminal
<1>3. PastLockIsSealed'
  BY DEF IInv, TypeOK, PastLockIsSealed, DieUnstarted, store, admission,
     Suspended, Terminal
<1>4. CancelHasCause'
  BY DEF IInv, TypeOK, CancelHasCause, TaskMatchesRow, OwnerHasTask,
     PastLockIsSealed, DieUnstarted, store, admission, Suspended, Terminal
<1>5. ToldMatchesRow'
  BY DEF IInv, TypeOK, ToldMatchesRow, TaskMatchesRow, DownIsEmpty,
     DieUnstarted, store, admission, Suspended, Terminal
<1>6. RowsExist'
  BY DEF IInv, TypeOK, RowsExist, TaskMatchesRow, OwnerHasTask, DieUnstarted,
     store, admission, Suspended, Terminal
<1>7. PredecessorsClosed'
  BY DEF IInv, TypeOK, PredecessorsClosed, RowsExist, TaskMatchesRow,
     OwnerHasTask, DieUnstarted, store, admission, Suspended, Terminal
<1>8. DownIsEmpty'
  BY DEF IInv, TypeOK, DownIsEmpty, DieUnstarted, store, admission, Suspended,
     Terminal
<1>9. QED
  BY <1>0, <1>1, <1>2, <1>3, <1>4, <1>5, <1>6, <1>7, <1>8 DEF IInv

\* A running turn that is not sealed is inside the executor, so the interrupt
\* marks it there.
LEMMA InterruptInv ==
  ASSUME IInv, NEW t \in Turns,
         Interrupt(t)
  PROVE  IInv'
<1>0. TypeOK'
  BY TypeStep DEF IInv, Next, RunStep
<1>1. TaskMatchesRow'
  BY DEF IInv, TypeOK, TaskMatchesRow, OwnerHasTask, RowsExist, Interrupt,
     store, admission, Suspended, Terminal
<1>2. OwnerHasTask'
  BY DEF IInv, TypeOK, OwnerHasTask, TaskMatchesRow, RowsExist, Interrupt,
     store, admission, Suspended, Terminal
<1>3. PastLockIsSealed'
  BY DEF IInv, TypeOK, PastLockIsSealed, Interrupt, store, admission,
     Suspended, Terminal
<1>4. CancelHasCause'
  <2>1. thread[t] \in Threads /\ pc[t] # "none"
    BY DEF Interrupt, IInv, TypeOK, RowsExist, OwnerHasTask
  <2>2. status[t] = "in_progress" => pc[t] = "exec"
    BY <2>1 DEF Interrupt, IInv, TypeOK, TaskMatchesRow, PastLockIsSealed,
       TaskState
  <2>3. status[t] = "queued" => pc[t] \in {"ready", "dead"}
    BY <2>1 DEF IInv, TypeOK, TaskMatchesRow, Suspended, TaskState
  <2>4. QED
    BY <2>2, <2>3 DEF Interrupt, IInv, TypeOK, CancelHasCause, Suspended
<1>5. ToldMatchesRow'
  BY DEF IInv, TypeOK, ToldMatchesRow, TaskMatchesRow, DownIsEmpty, Interrupt,
     store, admission, Suspended, Terminal
<1>6. RowsExist'
  BY DEF IInv, TypeOK, RowsExist, TaskMatchesRow, OwnerHasTask, Interrupt,
     store, admission, Suspended, Terminal
<1>7. PredecessorsClosed'
  BY DEF IInv, TypeOK, PredecessorsClosed, RowsExist, TaskMatchesRow,
     OwnerHasTask, Interrupt, store, admission, Suspended, Terminal
<1>8. DownIsEmpty'
  BY DEF IInv, TypeOK, DownIsEmpty, Interrupt, store, admission, Suspended,
     Terminal
<1>9. QED
  BY <1>0, <1>1, <1>2, <1>3, <1>4, <1>5, <1>6, <1>7, <1>8 DEF IInv

\* A failed reaper leaves the turn as it is.
LEMMA ReapFailsInv ==
  ASSUME IInv, NEW t \in Turns,
         ReapFails(t)
  PROVE  IInv'
<1>0. TypeOK'
  BY TypeStep DEF IInv, Next, RunStep
<1>1. TaskMatchesRow'
  BY DEF IInv, TypeOK, TaskMatchesRow, OwnerHasTask, RowsExist, ReapFails,
     store, admission, Suspended, Terminal
<1>2. OwnerHasTask'
  BY DEF IInv, TypeOK, OwnerHasTask, TaskMatchesRow, RowsExist, ReapFails,
     store, admission, Suspended, Terminal
<1>3. PastLockIsSealed'
  BY DEF IInv, TypeOK, PastLockIsSealed, ReapFails, store, admission,
     Suspended, Terminal
<1>4. CancelHasCause'
  BY DEF IInv, TypeOK, CancelHasCause, TaskMatchesRow, OwnerHasTask,
     PastLockIsSealed, ReapFails, store, admission, Suspended, Terminal
<1>5. ToldMatchesRow'
  BY DEF IInv, TypeOK, ToldMatchesRow, TaskMatchesRow, DownIsEmpty, ReapFails,
     store, admission, Suspended, Terminal
<1>6. RowsExist'
  BY DEF IInv, TypeOK, RowsExist, TaskMatchesRow, OwnerHasTask, ReapFails,
     store, admission, Suspended, Terminal
<1>7. PredecessorsClosed'
  BY DEF IInv, TypeOK, PredecessorsClosed, RowsExist, TaskMatchesRow,
     OwnerHasTask, ReapFails, store, admission, Suspended, Terminal
<1>8. DownIsEmpty'
  BY DEF IInv, TypeOK, DownIsEmpty, ReapFails, store, admission, Suspended,
     Terminal
<1>9. QED
  BY <1>0, <1>1, <1>2, <1>3, <1>4, <1>5, <1>6, <1>7, <1>8 DEF IInv

\* The admission gate is independent of the turns.
LEMMA SetAcceptingInv ==
  ASSUME IInv, NEW flag \in BOOLEAN,
         SetAccepting(flag)
  PROVE  IInv'
<1>0. TypeOK'
  BY TypeStep DEF IInv, Next, RunStep
<1>1. TaskMatchesRow'
  BY DEF IInv, TypeOK, TaskMatchesRow, OwnerHasTask, RowsExist, SetAccepting,
     store, control, admission, Suspended, Terminal
<1>2. OwnerHasTask'
  BY DEF IInv, TypeOK, OwnerHasTask, TaskMatchesRow, RowsExist, SetAccepting,
     store, control, admission, Suspended, Terminal
<1>3. PastLockIsSealed'
  BY DEF IInv, TypeOK, PastLockIsSealed, SetAccepting, store, control,
     admission, Suspended, Terminal
<1>4. CancelHasCause'
  BY DEF IInv, TypeOK, CancelHasCause, TaskMatchesRow, OwnerHasTask,
     PastLockIsSealed, SetAccepting, store, control, admission, Suspended,
     Terminal
<1>5. ToldMatchesRow'
  BY DEF IInv, TypeOK, ToldMatchesRow, TaskMatchesRow, DownIsEmpty,
     SetAccepting, store, control, admission, Suspended, Terminal
<1>6. RowsExist'
  BY DEF IInv, TypeOK, RowsExist, TaskMatchesRow, OwnerHasTask, SetAccepting,
     store, control, admission, Suspended, Terminal
<1>7. PredecessorsClosed'
  BY DEF IInv, TypeOK, PredecessorsClosed, RowsExist, TaskMatchesRow,
     OwnerHasTask, SetAccepting, store, control, admission, Suspended,
     Terminal
<1>8. DownIsEmpty'
  BY DEF IInv, TypeOK, DownIsEmpty, SetAccepting, store, control, admission,
     Suspended, Terminal
<1>9. QED
  BY <1>0, <1>1, <1>2, <1>3, <1>4, <1>5, <1>6, <1>7, <1>8 DEF IInv

\* Closing the runtime touches no turn.
LEMMA ShutdownInv ==
  ASSUME IInv, Shutdown
  PROVE  IInv'
<1>0. TypeOK'
  BY TypeStep DEF IInv, Next, RunStep
<1>1. TaskMatchesRow'
  BY DEF IInv, TypeOK, TaskMatchesRow, OwnerHasTask, RowsExist, Shutdown,
     store, control, admission, Suspended, Terminal
<1>2. OwnerHasTask'
  BY DEF IInv, TypeOK, OwnerHasTask, TaskMatchesRow, RowsExist, Shutdown,
     store, control, admission, Suspended, Terminal
<1>3. PastLockIsSealed'
  BY DEF IInv, TypeOK, PastLockIsSealed, Shutdown, store, control, admission,
     Suspended, Terminal
<1>4. CancelHasCause'
  BY DEF IInv, TypeOK, CancelHasCause, TaskMatchesRow, OwnerHasTask,
     PastLockIsSealed, Shutdown, store, control, admission, Suspended,
     Terminal
<1>5. ToldMatchesRow'
  BY DEF IInv, TypeOK, ToldMatchesRow, TaskMatchesRow, DownIsEmpty, Shutdown,
     store, control, admission, Suspended, Terminal
<1>6. RowsExist'
  BY DEF IInv, TypeOK, RowsExist, TaskMatchesRow, OwnerHasTask, Shutdown,
     store, control, admission, Suspended, Terminal
<1>7. PredecessorsClosed'
  BY DEF IInv, TypeOK, PredecessorsClosed, RowsExist, TaskMatchesRow,
     OwnerHasTask, Shutdown, store, control, admission, Suspended, Terminal
<1>8. DownIsEmpty'
  BY DEF IInv, TypeOK, DownIsEmpty, Shutdown, store, control, admission,
     Suspended, Terminal
<1>9. QED
  BY <1>0, <1>1, <1>2, <1>3, <1>4, <1>5, <1>6, <1>7, <1>8 DEF IInv

\* Shutdown is the other cause of a cancellation.
LEMMA CancelTasksInv ==
  ASSUME IInv, CancelTasks
  PROVE  IInv'
<1>0. TypeOK'
  BY TypeStep DEF IInv, Next, RunStep
<1>1. TaskMatchesRow'
  BY DEF IInv, TypeOK, TaskMatchesRow, OwnerHasTask, RowsExist, CancelTasks,
     store, admission, Suspended, Terminal
<1>2. OwnerHasTask'
  BY DEF IInv, TypeOK, OwnerHasTask, TaskMatchesRow, RowsExist, CancelTasks,
     store, admission, Suspended, Terminal
<1>3. PastLockIsSealed'
  BY DEF IInv, TypeOK, PastLockIsSealed, CancelTasks, store, admission,
     Suspended, Terminal
<1>4. CancelHasCause'
  BY DEF IInv, TypeOK, CancelHasCause, TaskMatchesRow, OwnerHasTask,
     PastLockIsSealed, CancelTasks, store, admission, Suspended, Terminal,
     TaskState
<1>5. ToldMatchesRow'
  BY DEF IInv, TypeOK, ToldMatchesRow, TaskMatchesRow, DownIsEmpty,
     CancelTasks, store, admission, Suspended, Terminal
<1>6. RowsExist'
  BY DEF IInv, TypeOK, RowsExist, TaskMatchesRow, OwnerHasTask, CancelTasks,
     store, admission, Suspended, Terminal
<1>7. PredecessorsClosed'
  BY DEF IInv, TypeOK, PredecessorsClosed, RowsExist, TaskMatchesRow,
     OwnerHasTask, CancelTasks, store, admission, Suspended, Terminal
<1>8. DownIsEmpty'
  BY DEF IInv, TypeOK, DownIsEmpty, CancelTasks, store, admission, Suspended,
     Terminal
<1>9. QED
  BY <1>0, <1>1, <1>2, <1>3, <1>4, <1>5, <1>6, <1>7, <1>8 DEF IInv

\* A crash forgets everything but the rows.
LEMMA CrashInv ==
  ASSUME IInv, Crash
  PROVE  IInv'
<1>0. TypeOK'
  BY TypeStep DEF IInv, Next, RunStep
<1>1. TaskMatchesRow'
  BY DEF IInv, TypeOK, TaskMatchesRow, OwnerHasTask, RowsExist, Crash, store,
     Suspended, Terminal
<1>2. OwnerHasTask'
  BY DEF IInv, TypeOK, OwnerHasTask, TaskMatchesRow, RowsExist, Crash, store,
     Suspended, Terminal
<1>3. PastLockIsSealed'
  BY DEF IInv, TypeOK, PastLockIsSealed, Crash, store, Suspended, Terminal
<1>4. CancelHasCause'
  BY DEF IInv, TypeOK, CancelHasCause, TaskMatchesRow, OwnerHasTask,
     PastLockIsSealed, Crash, store, Suspended, Terminal
<1>5. ToldMatchesRow'
  BY DEF IInv, TypeOK, ToldMatchesRow, TaskMatchesRow, DownIsEmpty, Crash,
     store, Suspended, Terminal
<1>6. RowsExist'
  BY DEF IInv, TypeOK, RowsExist, TaskMatchesRow, OwnerHasTask, Crash, store,
     Suspended, Terminal
<1>7. PredecessorsClosed'
  BY DEF IInv, TypeOK, PredecessorsClosed, RowsExist, TaskMatchesRow,
     OwnerHasTask, Crash, store, Suspended, Terminal
<1>8. DownIsEmpty'
  BY DEF IInv, TypeOK, DownIsEmpty, Crash, store, Suspended, Terminal
<1>9. QED
  BY <1>0, <1>1, <1>2, <1>3, <1>4, <1>5, <1>6, <1>7, <1>8 DEF IInv

\* Recovery closes the open rows, none of which has a task.
LEMMA BootInv ==
  ASSUME IInv, Boot
  PROVE  IInv'
<1>0. TypeOK'
  BY TypeStep DEF IInv, Next, RunStep
<1>1. TaskMatchesRow'
  BY DEF IInv, TypeOK, TaskMatchesRow, OwnerHasTask, RowsExist, Boot, control,
     admission, Suspended, Terminal, DownIsEmpty
<1>2. OwnerHasTask'
  BY DEF IInv, TypeOK, OwnerHasTask, TaskMatchesRow, RowsExist, Boot, control,
     admission, Suspended, Terminal
<1>3. PastLockIsSealed'
  BY DEF IInv, TypeOK, PastLockIsSealed, Boot, control, admission, Suspended,
     Terminal
<1>4. CancelHasCause'
  BY DEF IInv, TypeOK, CancelHasCause, TaskMatchesRow, OwnerHasTask,
     PastLockIsSealed, Boot, control, admission, Suspended, Terminal
<1>5. ToldMatchesRow'
  BY DEF IInv, TypeOK, ToldMatchesRow, TaskMatchesRow, DownIsEmpty, Boot,
     control, admission, Suspended, Terminal
<1>6. RowsExist'
  BY DEF IInv, TypeOK, RowsExist, TaskMatchesRow, OwnerHasTask, Boot, control,
     admission, Suspended, Terminal
<1>7. PredecessorsClosed'
  BY DEF IInv, TypeOK, PredecessorsClosed, RowsExist, TaskMatchesRow,
     OwnerHasTask, Boot, control, admission, Suspended, Terminal
<1>8. DownIsEmpty'
  BY DEF IInv, TypeOK, DownIsEmpty, Boot, control, admission, Suspended,
     Terminal
<1>9. QED
  BY <1>0, <1>1, <1>2, <1>3, <1>4, <1>5, <1>6, <1>7, <1>8 DEF IInv

-----------------------------------------------------------------------------
\* The steps above are all the steps there are.
LEMMA InvStep == IInv /\ [Next]_vars => IInv'
<1> SUFFICES ASSUME IInv, [Next]_vars PROVE IInv'
  OBVIOUS
<1>1. CASE UNCHANGED vars
  <2>1. TypeOK'
    BY <1>1, TypeStep DEF IInv
  <2>2. TaskMatchesRow' /\ OwnerHasTask' /\ PastLockIsSealed' /\ CancelHasCause'
    BY <1>1 DEF vars, store, control, admission, IInv, TaskMatchesRow,
       OwnerHasTask, PastLockIsSealed, CancelHasCause
  <2>3. ToldMatchesRow' /\ RowsExist' /\ PredecessorsClosed' /\ DownIsEmpty'
    BY <1>1 DEF vars, store, control, admission, IInv, ToldMatchesRow,
       RowsExist, PredecessorsClosed, DownIsEmpty
  <2>4. QED
    BY <2>1, <2>2, <2>3 DEF IInv
<1>2. ASSUME NEW t \in Turns, Complete(t) PROVE IInv'
  BY <1>2, SettleInv DEF Complete, Runs, Terminal, IInv, TypeOK
<1>3. ASSUME NEW t \in Turns, CancelDelivered(t) PROVE IInv'
  BY <1>3, SettleInv DEF CancelDelivered, Suspended, Terminal, IInv, TypeOK
<1>4. ASSUME NEW t \in Turns, Fail(t) PROVE IInv'
  BY <1>4, SettleInv DEF Fail, Suspended, Terminal, IInv, TypeOK
<1>5. ASSUME NEW t \in Turns, ReapQueued(t) PROVE IInv'
  BY <1>5, SettleInv DEF ReapQueued, Terminal, IInv, TypeOK
<1>6. ASSUME NEW t \in Turns, BeginFails(t) PROVE IInv'
  BY <1>6, AbandonInv DEF BeginFails, Runs
<1>7. ASSUME NEW t \in Turns, TerminalWriteFails(t) PROVE IInv'
  BY <1>7, AbandonInv DEF TerminalWriteFails, Suspended
<1>8. QED
  BY <1>1, <1>2, <1>3, <1>4, <1>5, <1>6, <1>7, StartTurnInv, RejectNeverFitInv,
     RejectTornInv, BeginInv, SealInv, AppendInv, ReturnInv, DieUnstartedInv,
     InterruptInv, ReapFailsInv, SetAcceptingInv, ShutdownInv, CancelTasksInv,
     CrashInv, BootInv
     DEF Next, RunStep

\* The empty store and the fresh runtime satisfy the invariant.
LEMMA InitInv == Init => IInv
<1> SUFFICES ASSUME Init PROVE IInv
  OBVIOUS
<1>1. TypeOK
  BY InitType
<1>2. TaskMatchesRow /\ OwnerHasTask /\ PastLockIsSealed /\ CancelHasCause
  BY DEF Init, TaskMatchesRow, OwnerHasTask, PastLockIsSealed, CancelHasCause,
     Suspended
<1>3. ToldMatchesRow /\ RowsExist /\ PredecessorsClosed /\ DownIsEmpty
  BY DEF Init, ToldMatchesRow, RowsExist, PredecessorsClosed, DownIsEmpty, Terminal
<1>4. QED
  BY <1>1, <1>2, <1>3 DEF IInv

\* The strengthened invariant holds in every behaviour.
THEOREM Invariant == Spec => []IInv
  BY InitInv, InvStep, PTL DEF Spec

\* Two turns of one thread never have a live task at the same time.
THEOREM OneLiveTurn == Spec => []OneLiveTurnPerThread
<1>1. IInv => OneLiveTurnPerThread
  BY DEF IInv, TaskMatchesRow, OneLiveTurnPerThread
<1>2. QED
  BY <1>1, Invariant, PTL

\* A waiter is told what the store says, and the turn is announced once.
THEOREM ResultsAgree == Spec => []ResultAgrees
<1>1. IInv => ResultAgrees
  BY DEF IInv, TypeOK, ToldMatchesRow, ResultAgrees, Terminal
<1>2. QED
  BY <1>1, Invariant, PTL

\* The predecessor walk never meets a row it would refuse.
THEOREM ChainsAreOpen == Spec => []PredecessorsOpen
<1>1. IInv => PredecessorsOpen
  BY DEF IInv, PredecessorsClosed, PredecessorsOpen
<1>2. QED
  BY <1>1, Invariant, PTL

-----------------------------------------------------------------------------
\* With a store that does not fail, an open row is the active turn of its thread after
\* every step: a turn leaves its thread only with a terminal in the store.
LEMMA OpenRowsOwned == IInv /\ NoOrphanRow /\ [Next]_vars => NoOrphanRow'
<1> SUFFICES ASSUME IInv, NoOrphanRow, [Next]_vars, ~StoreMayFail, up'
             PROVE  \A u \in Turns : status'[u] \in {"queued", "in_progress"} => owner'[thread'[u]] = u
  BY DEF NoOrphanRow
<1> DEFINE Owned == \A u \in Turns : status[u] \in {"queued", "in_progress"} => owner[thread[u]] = u
           OwnedNext == \A u \in Turns : status'[u] \in {"queued", "in_progress"} => owner'[thread'[u]] = u
<1> USE DEF IInv, TypeOK
<1>1. up => Owned BY DEF NoOrphanRow
<1>2. ASSUME NEW t \in Turns, NEW st \in Terminal, Settle(t, st), pc[t] # "none", up PROVE OwnedNext
  <2>1. owner[thread[t]] = t /\ thread[t] \in Threads BY <1>2 DEF TaskMatchesRow
  <2> QED BY <1>1, <1>2, <2>1 DEF Settle, Release, Terminal, RowsExist
<1>3. ASSUME NEW t \in Turns,
             \/ Complete(t) \/ Fail(t) \/ CancelDelivered(t) \/ ReapQueued(t)
      PROVE  OwnedNext
  BY <1>2, <1>3 DEF Complete, Fail, CancelDelivered, ReapQueued, Runs, Suspended, Terminal
<1>4. ASSUME NEW t \in Turns, NEW th \in Threads, NEW b \in Sizes, StartTurn(t, th, b)
      PROVE  OwnedNext
  <2>1. owner[th] = NoTurn /\ up /\ NoTurn \notin Turns BY <1>4 DEF StartTurn, MayAdmit
  <2>2. \A u \in Turns : status[u] \in {"queued", "in_progress"} => thread[u] # th
    BY <1>1, <2>1
  <2> QED BY <1>1, <1>4, <2>1, <2>2 DEF StartTurn, CreateRow, RowsExist
<1>5. ASSUME NEW t \in Turns, NEW th \in Threads, RejectNeverFit(t, th) PROVE OwnedNext
  BY <1>1, <1>5 DEF RejectNeverFit, CreateRow, MayAdmit, control
<1>6. ASSUME NEW t \in Turns, Begin(t) PROVE OwnedNext
  BY <1>1, <1>6 DEF Begin, Goto, Runs
<1>7. ASSUME NEW t \in Turns,
             \/ Seal(t) \/ AppendTranscript(t) \/ ExecutorReturns(t)
             \/ DieUnstarted(t) \/ Interrupt(t) \/ ReapFails(t)
      PROVE  OwnedNext
  BY <1>1, <1>7 DEF Seal, AppendTranscript, ExecutorReturns, DieUnstarted, Interrupt, ReapFails,
     Goto, Runs, store
<1>8. ASSUME \/ \E flag \in BOOLEAN : SetAccepting(flag)
             \/ Shutdown \/ CancelTasks \/ UNCHANGED vars
      PROVE  OwnedNext
  BY <1>1, <1>8 DEF SetAccepting, Shutdown, CancelTasks, vars, store, control
<1>9. CASE Boot BY <1>9 DEF Boot
<1>10. ~Crash BY DEF Crash
<1> QED
  BY <1>3, <1>4, <1>5, <1>6, <1>7, <1>8, <1>9, <1>10
  DEF Next, RunStep, RejectTorn, BeginFails, TerminalWriteFails

\* Every row that is not terminal belongs to the active turn of its thread as long as no
\* store write fails, so an interrupt or a shutdown of the runtime can still reach it.
THEOREM NoRowIsOrphaned == Spec => []NoOrphanRow
<1>1. Init => NoOrphanRow BY DEF Init, NoOrphanRow
<1> QED BY <1>1, OpenRowsOwned, Invariant, PTL DEF Spec

-----------------------------------------------------------------------------
\* What one step may do to the row of turn t.
RowStep(t) ==
    \/ status'[t] = status[t]
    \/ status[t] \in {"absent", "queued"}
    \/ status[t] = "in_progress" /\ status'[t] \in {"completed", "failed"}
    \/ /\ status[t] = "in_progress" /\ status'[t] = "interrupted"
       /\ up => pc[t] = "exec"
    \/ status[t] = "in_progress" /\ status'[t] = "cancelled" /\ closed

\* A cancelled task knows why it is cancelled: the row follows the cause.
LEMMA EveryRowStep == IInv /\ [Next]_vars => \A u \in Turns : RowStep(u)
<1> SUFFICES ASSUME IInv, [Next]_vars, NEW u \in Turns PROVE RowStep(u)
  OBVIOUS
<1>1. CASE UNCHANGED status
  BY <1>1 DEF RowStep
<1>2. ASSUME NEW t \in Turns, NEW th \in Threads, NEW st \in Status,
             CreateRow(t, th, st)
      PROVE  RowStep(u)
  BY <1>2 DEF CreateRow, RowStep, IInv, TypeOK
<1>3. ASSUME NEW t \in Turns, Begin(t) PROVE RowStep(u)
  BY <1>3 DEF Begin, RowStep, IInv, TypeOK
<1>4. ASSUME NEW t \in Turns, Complete(t) \/ Fail(t) PROVE RowStep(u)
  BY <1>4 DEF Complete, Fail, Settle, RowStep, IInv, TypeOK
<1>5. ASSUME NEW t \in Turns, CancelDelivered(t) PROVE RowStep(u)
  <2>1. t \in interruptReq => pc[t] = "exec"
    BY DEF IInv, CancelHasCause
  <2>2. t \notin interruptReq => closed
    BY <1>5 DEF CancelDelivered, IInv, CancelHasCause
  <2>3. QED
    BY <1>5, <2>1, <2>2 DEF CancelDelivered, Settle, RowStep, IInv, TypeOK
<1>6. ASSUME NEW t \in Turns, ReapQueued(t) PROVE RowStep(u)
  BY <1>6 DEF ReapQueued, Settle, RowStep, IInv, TypeOK
<1>7. CASE Boot
  BY <1>7 DEF Boot, RowStep, IInv, TypeOK, Status
<1>8. CASE \E t \in Turns, th \in Threads :
            \/ \E b \in Sizes : StartTurn(t, th, b)
            \/ RejectNeverFit(t, th)
            \/ \E st \in {"queued", "in_progress"} : RejectTorn(t, th, st)
  BY <1>2, <1>8 DEF StartTurn, RejectNeverFit, RejectTorn, Status, Terminal
<1>9. CASE \E t \in Turns :
            \/ Seal(t) \/ AppendTranscript(t) \/ ExecutorReturns(t)
            \/ DieUnstarted(t) \/ BeginFails(t) \/ TerminalWriteFails(t)
            \/ Interrupt(t) \/ ReapFails(t)
  BY <1>1, <1>9 DEF Seal, AppendTranscript, ExecutorReturns, DieUnstarted,
     BeginFails, TerminalWriteFails, Abandon, Interrupt, ReapFails, store
<1>10. CASE \/ \E flag \in BOOLEAN : SetAccepting(flag)
            \/ Shutdown \/ CancelTasks \/ Crash \/ UNCHANGED vars
  BY <1>1, <1>10 DEF SetAccepting, Shutdown, CancelTasks, Crash, store, vars
<1>11. QED
  BY <1>3, <1>4, <1>5, <1>6, <1>7, <1>8, <1>9, <1>10 DEF Next, RunStep

\* A terminal row never changes again.
THEOREM TerminalsAreFinal == Spec => TerminalIsFinal
<1>1. IInv /\ [Next]_vars =>
        \A t \in Turns : status[t] \in Terminal => status'[t] = status[t]
  BY EveryRowStep DEF RowStep, Terminal
<1>2. QED
  BY <1>1, Invariant, PTL DEF Spec, TerminalIsFinal

\* An interrupt never discards an answer that is being committed.
THEOREM InterruptsPrecedeSeal == Spec => InterruptBeforeSeal
<1>1. IInv /\ [Next]_vars =>
        \A t \in Turns :
          up /\ status[t] = "in_progress" /\ status'[t] = "interrupted"
            => pc[t] = "exec"
  BY EveryRowStep DEF RowStep
<1>2. QED
  BY <1>1, Invariant, PTL DEF Spec, InterruptBeforeSeal

\* Only shutdown turns a running turn into a cancelled one.
THEOREM OnlyShutdownCancels == Spec => CancelledOnlyByShutdown
<1>1. IInv /\ [Next]_vars =>
        \A t \in Turns :
          status[t] = "in_progress" /\ status'[t] = "cancelled" => closed
  BY EveryRowStep DEF RowStep
<1>2. QED
  BY <1>1, Invariant, PTL DEF Spec, CancelledOnlyByShutdown

-----------------------------------------------------------------------------
Owners == {t \in Turns : \E th \in Threads : owner[th] = t}

\* The admission counters, with what the cardinality lemmas need.
AdmissionInv == IsFiniteSet(Admitted) /\ AdmissionExact

\* Releasing an owner takes exactly its charge back.
LEMMA ReleaseAdmission ==
  ASSUME IInv, AdmissionInv, NEW t \in Turns, Release(t), pc[t] # "none"
  PROVE  AdmissionInv'
<1>1. thread[t] \in Threads /\ owner[thread[t]] = t
  BY DEF IInv, TaskMatchesRow
<1>2. t \in Admitted
  BY <1>1 DEF AdmissionInv, AdmissionExact
<1>3. Admitted' = Admitted \ {t}
  BY DEF Admitted, Release, IInv, TypeOK
<1>4. Owners' = Owners \ {t}
  BY <1>1, NoTurnAssumption DEF Owners, Release, IInv, TypeOK, OwnerHasTask
<1>5. /\ IsFiniteSet(Admitted')
      /\ Cardinality(Admitted') = Cardinality(Admitted) - 1
  BY <1>2, <1>3, FS_RemoveElement DEF AdmissionInv
<1>6. Cardinality(Admitted) \in Nat
  BY FS_CardinalityType DEF AdmissionInv
<1>7. /\ liveObjects' = liveObjects - 1
      /\ activeBytes' = activeBytes - charge[t]
      /\ charge[t] \in Nat
  BY <1>2 DEF Release, Admitted, IInv, TypeOK
<1>8. QED
  BY <1>3, <1>4, <1>5, <1>6, <1>7, LimitsAssumption
     DEF AdmissionInv, AdmissionExact, Owners, IInv, TypeOK

\* A new turn is charged only when it fits, and becomes an owner with it.
LEMMA StartAdmission ==
  ASSUME IInv, AdmissionInv, NEW t \in Turns, NEW th \in Threads,
         NEW b \in Sizes, StartTurn(t, th, b)
  PROVE  AdmissionInv'
<1>1. b \in Nat /\ b > 0
  BY SizesAssumption
<1>2. t \notin Owners
  BY DEF Owners, StartTurn, CreateRow, IInv, OwnerHasTask, RowsExist
<1>3. t \notin Admitted
  BY <1>2 DEF AdmissionInv, AdmissionExact, Owners
<1>4. Admitted' = Admitted \cup {t}
  BY <1>1 DEF Admitted, StartTurn, IInv, TypeOK
<1>5. Owners' = Owners \cup {t}
  BY NoTurnAssumption DEF Owners, StartTurn, MayAdmit, IInv, TypeOK
<1>6. /\ IsFiniteSet(Admitted')
      /\ Cardinality(Admitted') = Cardinality(Admitted) + 1
  BY <1>3, <1>4, FS_AddElement DEF AdmissionInv
<1>7. Cardinality(Admitted) \in Nat
  BY FS_CardinalityType DEF AdmissionInv
<1>8. /\ Cardinality(Admitted) + 1 <= MaxTurns
      /\ activeBytes' <= MaxBytes
      /\ liveObjects' = liveObjects + 1 /\ liveObjects + 1 <= MaxObjects
  BY <1>7, LimitsAssumption DEF StartTurn, CanFit, IInv, TypeOK
<1>9. QED
  BY <1>4, <1>5, <1>6, <1>7, <1>8
     DEF AdmissionInv, AdmissionExact, Owners, IInv, TypeOK

\* Only an admission and a release touch the counters, apart from a crash.
LEMMA AdmissionStep ==
  IInv /\ AdmissionInv /\ [Next]_vars => AdmissionInv'
<1> SUFFICES ASSUME IInv, AdmissionInv, [Next]_vars PROVE AdmissionInv'
  OBVIOUS
<1>1. CASE UNCHANGED <<owner, charge, activeBytes, liveObjects>>
  BY <1>1 DEF AdmissionInv, AdmissionExact, Admitted
<1>2. ASSUME NEW t \in Turns, NEW th \in Threads, NEW b \in Sizes,
             StartTurn(t, th, b)
      PROVE  AdmissionInv'
  BY <1>2, StartAdmission
<1>3. CASE \E t \in Turns :
            \/ Complete(t) \/ CancelDelivered(t) \/ Fail(t) \/ ReapQueued(t)
            \/ BeginFails(t) \/ TerminalWriteFails(t)
  BY <1>3, ReleaseAdmission DEF Complete, CancelDelivered, Fail, ReapQueued,
     BeginFails, TerminalWriteFails, Settle, Abandon, Runs, Suspended
<1>4. CASE \E t \in Turns :
            \/ Begin(t) \/ Seal(t) \/ AppendTranscript(t) \/ ExecutorReturns(t)
            \/ DieUnstarted(t) \/ Interrupt(t) \/ ReapFails(t)
  BY <1>1, <1>4 DEF Begin, Seal, AppendTranscript, ExecutorReturns, Goto,
     DieUnstarted, Interrupt, ReapFails, admission
<1>5. CASE \E t \in Turns, th \in Threads :
            \/ RejectNeverFit(t, th)
            \/ \E st \in {"queued", "in_progress"} : RejectTorn(t, th, st)
  BY <1>1, <1>5 DEF RejectNeverFit, RejectTorn, control, admission
<1>6. CASE \/ \E flag \in BOOLEAN : SetAccepting(flag)
           \/ Shutdown \/ CancelTasks \/ Boot \/ UNCHANGED vars
  BY <1>1, <1>6 DEF SetAccepting, Shutdown, CancelTasks, Boot, vars, control,
     admission
<1>7. CASE Crash
  <2>1. Admitted' = {} /\ Owners' = {}
    BY <1>7, NoTurnAssumption DEF Crash, Admitted, Owners
  <2>2. QED
    BY <1>7, <2>1, FS_EmptySet, LimitsAssumption
       DEF Crash, AdmissionInv, AdmissionExact, Owners
<1>8. QED
  BY <1>2, <1>3, <1>4, <1>5, <1>6, <1>7 DEF Next, RunStep

\* Capacity is charged for exactly the owners of a thread, within the limits.
THEOREM AdmissionIsExact == Spec => []AdmissionExact
<1>1. Init => AdmissionInv
  <2> SUFFICES ASSUME Init PROVE AdmissionInv
    OBVIOUS
  <2>1. Admitted = {} /\ Owners = {}
    BY NoTurnAssumption DEF Init, Admitted, Owners
  <2>2. QED
    BY <2>1, FS_EmptySet, LimitsAssumption
       DEF Init, AdmissionInv, AdmissionExact, Owners
<1>2. AdmissionInv => AdmissionExact
  BY DEF AdmissionInv
<1>3. QED
  BY <1>1, <1>2, Invariant, AdmissionStep, PTL DEF Spec

(***************************************************************************)
(* ConversationRuntime implements TurnPromise                              *)
(***************************************************************************)

Open == {"queued", "in_progress"}

\* A fresh runtime over an empty store is a fresh promise.
LEMMA PromiseInit == Init => Promise!Init
  BY DEF Init, Promise!Init, Outcome

\* A step that leaves rows between queued and running, and touches nothing a
\* caller sees, is invisible to the caller.
LEMMA Invisible ==
  ASSUME UNCHANGED <<owner, future, announced>>,
         \A t \in Turns : \/ status'[t] = status[t]
                          \/ status[t] \in Open /\ status'[t] \in Open
  PROVE  UNCHANGED Promise!vars
<1>1. Outcome' = Outcome
  BY DEF Outcome, Open
<1>2. QED
  BY <1>1 DEF Promise!vars

\* A thread that takes a turn opens its outcome and its waiter.
LEMMA StartAccepts ==
  ASSUME IInv, NEW t \in Turns, NEW th \in Threads, NEW b \in Sizes,
         StartTurn(t, th, b)
  PROVE  Promise!Accept(t, th)
<1>1. status[t] = "absent" /\ status' = [status EXCEPT ![t] = "queued"]
  BY DEF StartTurn, CreateRow
<1>2. Outcome[t] = "absent" /\ Outcome' = [Outcome EXCEPT ![t] = "open"]
  BY <1>1 DEF Outcome, IInv, TypeOK
<1>3. /\ owner[th] = NoTurn
      /\ owner' = [owner EXCEPT ![th] = t]
      /\ future' = [future EXCEPT ![t] = "pending"]
      /\ UNCHANGED announced
  BY DEF StartTurn, MayAdmit
<1>4. QED
  BY <1>2, <1>3 DEF Promise!Accept

\* A refused turn is recorded and answered in one step.
LEMMA RejectRefuses ==
  ASSUME IInv, NEW t \in Turns, NEW th \in Threads, RejectNeverFit(t, th)
  PROVE  Promise!Refuse(t)
<1>1. status[t] = "absent" /\ status' = [status EXCEPT ![t] = "failed"]
  BY DEF RejectNeverFit, CreateRow
<1>2. Outcome[t] = "absent" /\ Outcome' = [Outcome EXCEPT ![t] = "failed"]
  BY <1>1 DEF Outcome, IInv, TypeOK
<1>3. /\ UNCHANGED owner
      /\ future' = [future EXCEPT ![t] = "failed"]
      /\ announced' = [announced EXCEPT ![t] = @ + 1]
  BY DEF RejectNeverFit, control
<1>4. QED
  BY <1>2, <1>3 DEF Promise!Refuse

\* A refusal cut off by the store strands its record.
LEMMA TornStrands ==
  ASSUME IInv, NEW t \in Turns, NEW th \in Threads, NEW st \in Open,
         RejectTorn(t, th, st)
  PROVE  Promise!Strand(t)
<1>1. status[t] = "absent" /\ status' = [status EXCEPT ![t] = st]
  BY DEF RejectTorn, CreateRow
<1>2. Outcome[t] = "absent" /\ Outcome' = [Outcome EXCEPT ![t] = "open"]
  BY <1>1 DEF Outcome, Open, IInv, TypeOK
<1>3. /\ UNCHANGED <<owner, announced>>
      /\ future' = [future EXCEPT ![t] = "pending"]
  BY DEF RejectTorn, control
<1>4. QED
  BY <1>2, <1>3 DEF Promise!Strand

\* A turn with a task holds its thread, its outcome is open and its waiter
\* still waits.
LEMMA TaskHolds ==
  ASSUME IInv, NEW t \in Turns, pc[t] # "none"
  PROVE  /\ thread[t] \in Threads
         /\ owner[thread[t]] = t
         /\ Outcome[t] = "open"
         /\ future[t] = "pending"
<1>1. pc[t] \in {"ready", "dead"} \cup Suspended
  BY DEF IInv, TypeOK, TaskState, Suspended
<1>2. status[t] \in {"queued", "in_progress"}
  BY <1>1 DEF IInv, TaskMatchesRow
<1>3. QED
  BY <1>2 DEF IInv, TaskMatchesRow, Outcome

\* Settling such a turn resolves it.
LEMMA SettleResolves ==
  ASSUME IInv, NEW t \in Turns, NEW st \in Terminal, pc[t] # "none",
         Settle(t, st)
  PROVE  Promise!Resolve(t, thread[t], st)
<1>1. status' = [status EXCEPT ![t] = st]
  BY DEF Settle
<1>2. Outcome' = [Outcome EXCEPT ![t] = st]
  BY <1>1 DEF Outcome, Terminal, IInv, TypeOK
<1>3. /\ owner' = [owner EXCEPT ![thread[t]] = NoTurn]
      /\ announced' = [announced EXCEPT ![t] = @ + 1]
      /\ future' = [future EXCEPT ![t] = st]
  BY TaskHolds DEF Settle, Release, IInv, TypeOK
<1>4. QED
  BY <1>2, <1>3, TaskHolds DEF Promise!Resolve

\* Abandoning it gives it up.
LEMMA AbandonGivesUp ==
  ASSUME IInv, NEW t \in Turns, pc[t] # "none", Abandon(t)
  PROVE  Promise!GiveUp(t, thread[t])
<1>1. Outcome' = Outcome /\ UNCHANGED announced
  BY DEF Abandon, store, Outcome
<1>2. /\ owner' = [owner EXCEPT ![thread[t]] = NoTurn]
      /\ future' = [future EXCEPT ![t] = "error"]
  BY TaskHolds DEF Abandon, Release, IInv, TypeOK
<1>3. QED
  BY <1>1, <1>2, TaskHolds DEF Promise!GiveUp

\* The recovery of a new process closes the rows that ran as interrupted and
\* those that waited as cancelled, while nobody listens.
LEMMA BootRecovers ==
  ASSUME IInv, Boot
  PROVE  \E ran \in SUBSET Turns : Promise!Recover(ran)
<1> DEFINE ran == {t \in Turns : status[t] = "in_progress"}
<1>1. /\ \A t \in Turns : future[t] = "none"
      /\ \A th \in Threads : owner[th] = NoTurn
  BY DEF IInv, DownIsEmpty, Boot
<1>2. Outcome' = [t \in Turns |->
                    IF Outcome[t] # "open" THEN Outcome[t]
                    ELSE IF t \in ran THEN "interrupted" ELSE "cancelled"]
  <2> SUFFICES ASSUME NEW t \in Turns
               PROVE  Outcome'[t] = IF Outcome[t] # "open" THEN Outcome[t]
                                    ELSE IF t \in ran THEN "interrupted"
                                    ELSE "cancelled"
    BY DEF Outcome
  <2>1. status[t] \in Status
    BY DEF IInv, TypeOK
  <2>2. QED
    BY <2>1 DEF Boot, Outcome, Status, Terminal
<1>3. UNCHANGED <<owner, future, announced>>
  BY DEF Boot, control
<1>4. Promise!Recover(ran)
  BY <1>1, <1>2, <1>3 DEF Promise!Recover
<1>5. ran \in SUBSET Turns
  OBVIOUS
<1>6. QED
  BY <1>4, <1>5

\* What one step of the runtime is to its callers.
LEMMA PromiseStep == IInv /\ [Next]_vars => [Promise!Next]_(Promise!vars)
<1> SUFFICES ASSUME IInv, [Next]_vars
             PROVE  Promise!Next \/ UNCHANGED Promise!vars
  OBVIOUS
<1>1. ASSUME NEW t \in Turns, NEW th \in Threads, NEW b \in Sizes,
             StartTurn(t, th, b)
      PROVE  Promise!Next
  BY <1>1, StartAccepts DEF Promise!Next
<1>2. ASSUME NEW t \in Turns, NEW th \in Threads, RejectNeverFit(t, th)
      PROVE  Promise!Next
  BY <1>2, RejectRefuses DEF Promise!Next
<1>3. ASSUME NEW t \in Turns, NEW th \in Threads, NEW st \in Open,
             RejectTorn(t, th, st)
      PROVE  Promise!Next
  BY <1>3, TornStrands DEF Promise!Next
<1>4. ASSUME NEW t \in Turns, NEW st \in Terminal, pc[t] # "none", Settle(t, st)
      PROVE  Promise!Next
  BY <1>4, SettleResolves, TaskHolds DEF Promise!Next, Promise!Outcomes, Terminal
<1>5. ASSUME NEW t \in Turns, pc[t] # "none", Abandon(t)
      PROVE  Promise!Next
  BY <1>5, AbandonGivesUp, TaskHolds DEF Promise!Next
<1>6. ASSUME NEW t \in Turns,
             \/ Complete(t) \/ Fail(t) \/ CancelDelivered(t) \/ ReapQueued(t)
      PROVE  Promise!Next
  BY <1>6, <1>4 DEF Complete, Fail, CancelDelivered, ReapQueued, Runs, Suspended,
     Terminal
<1>7. ASSUME NEW t \in Turns, BeginFails(t) \/ TerminalWriteFails(t)
      PROVE  Promise!Next
  BY <1>7, <1>5 DEF BeginFails, TerminalWriteFails, Runs, Suspended
<1>8. CASE Crash
  <2>1. Promise!Die
    BY <1>8 DEF Crash, store, Outcome, Promise!Die
  <2>2. QED
    BY <2>1 DEF Promise!Next
<1>9. CASE Boot
  BY <1>9, BootRecovers DEF Promise!Next
<1>10. ASSUME NEW t \in Turns, Begin(t)
       PROVE  UNCHANGED Promise!vars
  BY <1>10, Invisible DEF Begin, Goto, Open, IInv, TypeOK
<1>11. ASSUME NEW t \in Turns,
              \/ Seal(t) \/ AppendTranscript(t) \/ ExecutorReturns(t)
              \/ DieUnstarted(t) \/ Interrupt(t) \/ ReapFails(t)
       PROVE  UNCHANGED Promise!vars
  BY <1>11, Invisible DEF Seal, AppendTranscript, ExecutorReturns, DieUnstarted,
     Interrupt, ReapFails, Goto, store
<1>12. ASSUME \/ \E flag \in BOOLEAN : SetAccepting(flag)
              \/ Shutdown \/ CancelTasks \/ UNCHANGED vars
       PROVE  UNCHANGED Promise!vars
  BY <1>12, Invisible DEF SetAccepting, Shutdown, CancelTasks, vars, store,
     control
<1>13. QED
  BY <1>1, <1>2, <1>3, <1>6, <1>7, <1>8, <1>9, <1>10, <1>11, <1>12
     DEF Next, RunStep, Open

\* The turn owner implements the promise: every step is a promised one or
\* invisible to the callers.
THEOREM Implements == Spec => KeepsPromise
  BY PromiseInit, PromiseStep, Invariant, PTL DEF Spec, KeepsPromise, Promise!Spec

-----------------------------------------------------------------------------
(***************************************************************************)
(* Histories and events among the parts of RuntimeSpec                     *)
(***************************************************************************)

History == INSTANCE HistoryProofs WITH link <- socket, MaxFaults <- MaxEventFaults

\* The steps of the two instances of the ledger are the same steps; the checkpoints ...
LEMMA SameCheckpoints ==
  /\ \A head, units : Compaction!Checkpoints(head, units) = History!Checkpoints(head, units)
  /\ \A c : Compaction!Valid(c) <=> History!Valid(c)
  /\ \A c : (Compaction!Persisted(c) <=> History!Persisted(c)) /\ (Compaction!Advanced(c) <=> History!Advanced(c))
  /\ Compaction!AtRest = History!AtRest /\ Compaction!NoCheckpoint = History!NoCheckpoint
<1>1. \A units : Compaction!Seqs(units) = History!Seqs(units)
  BY Zenon DEF Compaction!Seqs, History!Seqs
<1>2. ASSUME NEW head, NEW units PROVE Compaction!Checkpoints(head, units) = History!Checkpoints(head, units)
  <2> DEFINE cut(from, split) == [generation |-> head.next, parent |-> head.parent,
                                  sources |-> {u \in units : from <= u[1] /\ u[1] <= split},
                                  tail |-> {u \in units : u[1] > split}]
  <2>1. \A c : c \in Compaction!Checkpoints(head, units) <=>
                 /\ c.sources # {} /\ (head.parent = 0 \/ c.sources \cup c.tail = units)
                 /\ \E from, split \in Compaction!Seqs(units) : c = cut(from, split)
    BY DEF Compaction!Checkpoints
  <2>2. \A c : c \in History!Checkpoints(head, units) <=>
                 /\ c.sources # {} /\ (head.parent = 0 \/ c.sources \cup c.tail = units)
                 /\ \E from, split \in History!Seqs(units) : c = cut(from, split)
    BY DEF History!Checkpoints
  <2> HIDE DEF cut
  <2> QED BY <1>1, <2>1, <2>2
<1>3. \A c : Compaction!Valid(c) <=> History!Valid(c)
  BY Zenon DEF Compaction!Valid, History!Valid, Compaction!Canonical, History!Canonical, Compaction!Current, History!Current
<1>4. Compaction!AtRest = History!AtRest /\ Compaction!NoCheckpoint = History!NoCheckpoint
  BY Zenon DEF Compaction!AtRest, History!AtRest, Compaction!NoCheckpoint, History!NoCheckpoint
<1>5. \A c : (Compaction!Persisted(c) <=> History!Persisted(c)) /\ (Compaction!Advanced(c) <=> History!Advanced(c))
  BY Zenon DEF Compaction!Persisted, History!Persisted, Compaction!Advanced, History!Advanced,
               Compaction!NoCheckpoint, History!NoCheckpoint
<1> QED BY <1>2, <1>3, <1>4, <1>5

\* ... and the steps.
LEMMA SameLedgerSteps == Compaction!LedgerNext => History!LedgerNext
<1>1. Compaction!Admit => History!Admit
  BY Zenon DEF Compaction!Admit, History!Admit, Compaction!AtRest, History!AtRest
<1>2. Compaction!Recover => History!Recover
  BY Zenon
  DEF Compaction!Recover, History!Recover, Compaction!NoCheckpoint, History!NoCheckpoint, Compaction!AtRest,
      History!AtRest, Compaction!ReceiptFor, History!ReceiptFor, Compaction!Valid, History!Valid,
      Compaction!Canonical, History!Canonical, Compaction!Current, History!Current, Compaction!Persisted,
      History!Persisted
<1>3. Compaction!Project => History!Project
  BY Zenon
  DEF Compaction!Project, History!Project, Compaction!Units, History!Units, Compaction!Through, History!Through,
      Compaction!Max, History!Max, Compaction!Seqs, History!Seqs, Compaction!Current, History!Current,
      Compaction!NoCheckpoint, History!NoCheckpoint, Compaction!Head0, History!Head0
<1>4. Compaction!WriteReceipt => History!WriteReceipt
  BY Zenon
  DEF Compaction!WriteReceipt, History!WriteReceipt, Compaction!AtRest, History!AtRest, Compaction!Upset,
      History!Upset
<1>5. Compaction!Persist => History!Persist
  BY Zenon
  DEF Compaction!Persist, History!Persist, Compaction!Persisted, History!Persisted, Compaction!NoCheckpoint,
      History!NoCheckpoint, Compaction!AtRest, History!AtRest, Compaction!Valid, History!Valid,
      Compaction!Canonical, History!Canonical, Compaction!Current, History!Current, Compaction!Advanced,
      History!Advanced
<1>6. Compaction!EndTurn => History!EndTurn
  BY Zenon DEF Compaction!EndTurn, History!EndTurn, Compaction!Unit, History!Unit, Compaction!AtRest, History!AtRest
<1>7. Compaction!AppendPlain => History!AppendPlain
  BY Zenon DEF Compaction!AppendPlain, History!AppendPlain, Compaction!Unit, History!Unit
<1>8. Compaction!EditMessage => History!EditMessage
  BY Zenon
  DEF Compaction!EditMessage, History!EditMessage, Compaction!Editable, History!Editable, Compaction!NoCheckpoint,
      History!NoCheckpoint, Compaction!AtRest, History!AtRest, Compaction!Upset, History!Upset
<1>9. Compaction!DeleteMessage => History!DeleteMessage
  BY Zenon
  DEF Compaction!DeleteMessage, History!DeleteMessage, Compaction!Editable, History!Editable,
      Compaction!NoCheckpoint, History!NoCheckpoint, Compaction!AtRest, History!AtRest, Compaction!Upset,
      History!Upset
<1>10. Compaction!DeleteInteraction => History!DeleteInteraction
  BY Zenon
  DEF Compaction!DeleteInteraction, History!DeleteInteraction, Compaction!Invalid, History!Invalid, Compaction!Seqs,
      History!Seqs, Compaction!Max, History!Max, Compaction!Editable, History!Editable, Compaction!NoCheckpoint,
      History!NoCheckpoint, Compaction!AtRest, History!AtRest, Compaction!Upset, History!Upset
<1>11. Compaction!DeleteSession => History!DeleteSession
  BY Zenon
  DEF Compaction!DeleteSession, History!DeleteSession, Compaction!Editable, History!Editable,
      Compaction!NoCheckpoint, History!NoCheckpoint, Compaction!AtRest, History!AtRest, Compaction!Upset,
      History!Upset
<1>12. Compaction!Crash => History!Crash
  BY Zenon DEF Compaction!Crash, History!Crash, Compaction!AtRest, History!AtRest, Compaction!Upset, History!Upset
<1>13. Compaction!Prepare => History!Prepare
  <2> SUFFICES ASSUME Compaction!Prepare PROVE History!Prepare
    OBVIOUS
  <2>1. \E c \in History!Checkpoints(turn.head, turn.units) :
           IF History!Valid(c) THEN fence' = c /\ turn' = [turn EXCEPT !.pc = "prepared"]
           ELSE turn' = History!AtRest /\ UNCHANGED fence
    BY SameCheckpoints, SMT DEF Compaction!Prepare
  <2> QED BY <2>1, Zenon DEF Compaction!Prepare, History!Prepare
<1>14. Compaction!PersistExcluded => History!PersistExcluded
  BY SameCheckpoints DEF Compaction!PersistExcluded, History!PersistExcluded
<1> QED BY <1>1, <1>2, <1>3, <1>4, <1>5, <1>6, <1>7, <1>8, <1>9, <1>10, <1>11, <1>12, <1>13, <1>14, Zenon DEF Compaction!LedgerNext, History!LedgerNext

\* So are the steps of the two instances of the events.
LEMMA SameEventSteps == Events!EventNext => History!EventNext
<1>1. Events!PublishEvent => History!PublishEvent
  BY Zenon
  DEF Events!PublishEvent, History!PublishEvent, Events!Frame, History!Frame, Events!Append1, History!Append1,
      Events!Queued, History!Queued, Events!TakenOff, History!TakenOff, Events!Scheduled, History!Scheduled
<1>2. Events!DrainTakes => History!DrainTakes
  BY Zenon DEF Events!DrainTakes, History!DrainTakes
<1>3. Events!DrainSends => History!DrainSends
  BY Zenon
  DEF Events!DrainSends, History!DrainSends, Events!Sent, History!Sent, Events!NoFrame, History!NoFrame,
      Events!TakenOff, History!TakenOff
<1>4. Events!DrainMarks => History!DrainMarks
  BY Zenon
  DEF Events!DrainMarks, History!DrainMarks, Events!NoFrame, History!NoFrame, Events!MarkSent, History!MarkSent,
      Events!Stops, History!Stops
<1>5. Events!Resume => History!Resume
  BY Zenon
  DEF Events!Resume, History!Resume, Events!NoConn, History!NoConn, Events!NoFrame, History!NoFrame,
      Events!EventFault, History!EventFault, Events!Refused, History!Refused, Events!Reset, History!Reset,
      Events!Frame, History!Frame, Events!Window, History!Window, Events!Append1, History!Append1, Events!NoCmd,
      History!NoCmd, Events!Prepared, History!Prepared, Events!Last, History!Last, Events!After, History!After,
      Events!Rebase, History!Rebase, Events!Contiguous, History!Contiguous, Events!Cardinality, History!Cardinality,
      Events!InOrder, History!InOrder
<1>6. Events!ResumeSends => History!ResumeSends
  BY Zenon
  DEF Events!ResumeSends, History!ResumeSends, Events!Sent, History!Sent, Events!After, History!After,
      Events!InOrder, History!InOrder, Events!Cardinality, History!Cardinality
<1>7. Events!ResumeMarks => History!ResumeMarks
  BY Zenon DEF Events!ResumeMarks, History!ResumeMarks, Events!MarkSent, History!MarkSent
<1>8. Events!ResumeReady => History!ResumeReady
  BY Zenon DEF Events!ResumeReady, History!ResumeReady, Events!Scheduled, History!Scheduled
<1>9. Events!ConnectionEnds => History!ConnectionEnds
  BY Zenon
  DEF Events!ConnectionEnds, History!ConnectionEnds, Events!NoCmd, History!NoCmd, Events!NoConn, History!NoConn,
      Events!NoFrame, History!NoFrame
<1>10. Events!DeviceHandles => History!DeviceHandles
  BY Zenon DEF Events!DeviceHandles, History!DeviceHandles
<1>11. Events!CommandHandled => History!CommandHandled
  BY Zenon DEF Events!CommandHandled, History!CommandHandled, Events!NoCmd, History!NoCmd
<1>12. Events!FlushEnds => History!FlushEnds
  BY Zenon DEF Events!FlushEnds, History!FlushEnds
<1>13. Events!CommandReplies => History!CommandReplies
  BY Zenon
  DEF Events!CommandReplies, History!CommandReplies, Events!NoCmd, History!NoCmd, Events!Scheduled,
      History!Scheduled
<1>14. Events!LinkDrops => History!LinkDrops
  BY Zenon DEF Events!LinkDrops, History!LinkDrops, Events!EventFault, History!EventFault
<1>15. Events!ServerRestarts => History!ServerRestarts
  BY Zenon
  DEF Events!ServerRestarts, History!ServerRestarts, Events!NoCmd, History!NoCmd, Events!NoConn, History!NoConn,
      Events!NoFrame, History!NoFrame, Events!EventFault, History!EventFault
<1>16. Events!DeviceForgets => History!DeviceForgets
  BY Zenon DEF Events!DeviceForgets, History!DeviceForgets, Events!EventFault, History!EventFault
<1>17. Events!RowLost => History!RowLost
  BY Zenon
  DEF Events!RowLost, History!RowLost, Events!Offline, History!Offline, Events!NoConn, History!NoConn,
      Events!NoFrame, History!NoFrame, Events!EventFault, History!EventFault
<1>18. Events!RolledBack => History!RolledBack
  BY Zenon
  DEF Events!RolledBack, History!RolledBack, Events!EventFault, History!EventFault, Events!Offline, History!Offline,
      Events!NoConn, History!NoConn, Events!NoFrame, History!NoFrame
<1>19. \A seq \in 0..MaxSeq : Events!Acknowledge(seq) => History!Acknowledge(seq)
  BY Zenon DEF Events!Acknowledge, History!Acknowledge, Events!After, History!After, Events!NoCmd, History!NoCmd
<1> QED BY <1>1, <1>2, <1>3, <1>4, <1>5, <1>6, <1>7, <1>8, <1>9, <1>10, <1>11, <1>12, <1>13, <1>14, <1>15, <1>16, <1>17, <1>18, <1>19, Zenon DEF Events!EventNext, History!EventNext

\* Whatever part runs, the ledger and the events only take their own steps.
LEMMA RuntimeRunsTheHistory == RuntimeSpec => History!LedgerSpec /\ History!EventSpec
<1>1. RuntimeInit => History!LedgerInit /\ History!EventInit
  <2>1. Compaction!LedgerInit => History!LedgerInit
    BY Zenon
    DEF Compaction!LedgerInit, History!LedgerInit, Compaction!AtRest, History!AtRest, Compaction!NoCheckpoint,
        History!NoCheckpoint
  <2>2. Events!EventInit => History!EventInit
    BY Zenon
    DEF Events!EventInit, History!EventInit, Events!NoConn, History!NoConn, Events!NoFrame, History!NoFrame,
        Events!NoCmd, History!NoCmd
  <2> QED BY <2>1, <2>2 DEF RuntimeInit
<1>2. [RuntimeNext]_runtimeVars => [History!LedgerNext]_(History!ledgerVars)
  <2>1. UNCHANGED ledgerVars => UNCHANGED History!ledgerVars BY DEF ledgerVars, History!ledgerVars
  <2> QED BY <2>1, SameLedgerSteps DEF RuntimeNext, Rest, runtimeVars
<1>3. [RuntimeNext]_runtimeVars => [History!EventNext]_(History!eventVars)
  <2>1. UNCHANGED eventVars => UNCHANGED History!eventVars BY DEF eventVars, History!eventVars
  <2> QED BY <2>1, SameEventSteps DEF RuntimeNext, Rest, runtimeVars
<1> QED BY <1>1, <1>2, <1>3, PTL DEF RuntimeSpec, History!LedgerSpec, History!EventSpec

\* The ledger of a session ends at its cursor, a commit that was cut off can be
\* released or finished, and a prompt tells the history once, over any crashes, failed
\* writes and edits (session/compaction_runtime.py, session/store.py).
THEOREM LedgerStaysSound == RuntimeSpec => []LedgerStands
<1>1. History!Bounded
  BY BoundsAreNumbers DEF History!Bounded
<1>2. History!LedgerTypeOK => Compaction!LedgerTypeOK
  BY Zenon DEF Compaction!LedgerTypeOK, History!LedgerTypeOK, Compaction!NoCheckpoint, History!NoCheckpoint
<1>3. History!CursorEndsTheLine => Compaction!CursorEndsTheLine
  BY Zenon DEF Compaction!CursorEndsTheLine, History!CursorEndsTheLine, Compaction!Max, History!Max
<1>4. History!FenceCanBeCleared => Compaction!FenceCanBeCleared
  BY Zenon
  DEF Compaction!FenceCanBeCleared, History!FenceCanBeCleared, Compaction!NoCheckpoint, History!NoCheckpoint,
      Compaction!Valid, History!Valid, Compaction!Canonical, History!Canonical, Compaction!Current, History!Current,
      Compaction!ReceiptFor, History!ReceiptFor
<1>5. History!ProjectionIsExact => Compaction!ProjectionIsExact
  BY Zenon
  DEF Compaction!ProjectionIsExact, History!ProjectionIsExact, Compaction!Units, History!Units, Compaction!Through,
      History!Through, Compaction!Max, History!Max, Compaction!Seqs, History!Seqs, Compaction!Current,
      History!Current, Compaction!Summarised, History!Summarised
<1>6. /\ History!LedgerTypeOK /\ History!CursorEndsTheLine /\ History!FenceCanBeCleared
      /\ History!ProjectionIsExact
      => LedgerStands
  BY <1>2, <1>3, <1>4, <1>5 DEF LedgerStands
<1> QED BY <1>1, <1>6, RuntimeRunsTheHistory, History!LedgerInvariant, PTL

\* Over any connections, losses, restarts and rollbacks, a device misses no event
\* without being told to fetch them all, and no command waits for events that nobody
\* sends (infra/mobile_realtime: gateway.py, storage.py).
THEOREM EventsReachEveryDevice == RuntimeSpec => []EventsReachDevices
<1>1. History!EventBounds
  BY BoundsAreNumbers DEF History!EventBounds
<1>2. History!EventTypeOK => Events!EventTypeOK
  BY Zenon DEF Events!EventTypeOK, History!EventTypeOK
<1>3. History!NothingIsMissed => Events!NothingIsMissed
  BY Zenon DEF Events!NothingIsMissed, History!NothingIsMissed, Events!NothingMissed, History!NothingMissed
<1>4. History!BarrierHasATask => Events!BarrierHasATask
  BY Zenon DEF Events!BarrierHasATask, History!BarrierHasATask
<1>5. History!EventTypeOK /\ History!NothingIsMissed /\ History!BarrierHasATask => EventsReachDevices
  BY <1>2, <1>3, <1>4 DEF EventsReachDevices
<1> QED BY <1>1, <1>5, RuntimeRunsTheHistory, History!EventsInvariant, PTL
=============================================================================

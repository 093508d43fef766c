-------------------------- MODULE BackgroundProofs --------------------------
(***************************************************************************)
(* Proofs about what works behind the turns: the two durable registers of  *)
(* the background loop (the scheduled jobs and the proactive reservoir),   *)
(* the change of settings and the deployment of the agent.  The last two   *)
(* are proved as MCServices runs them: each has an inductive invariant of  *)
(* its own (SettingsInv, DeployInv) which the steps of the other services  *)
(* leave alone.                                                            *)
(***************************************************************************)
EXTENDS MCServices, SequenceTheorems, TLAPS

(***************************************************************************)
(* The register of scheduled jobs, for any set of ids, any interval, grace *)
(* period and lead, and any number of restarts and failed writes.          *)
(*                                                                         *)
(* What makes a period run once is that the time on an enabled job is past *)
(* every run of it that was committed (TimesAhead), and that a task in     *)
(* flight holds the job exactly as the register does, unless the job was   *)
(* cancelled (FlightMatches): a stale task has nothing left to move.       *)
(* Neither needs that the file is loaded before a turn adds or cancels;    *)
(* that no job is lost does (NothingForgotten), and only for the moments   *)
(* before it is loaded (LoadedForgetsCancelled).                           *)
(***************************************************************************)
Job == [fireAt : Int, trigger : {"once", "interval", "cron"}, tier : {"instant", "soft"}, on : BOOLEAN]

JobsTyped ==
  /\ clock \in Int
  /\ store \in [DOMAIN store -> Job] /\ jobs \in [DOMAIN jobs -> Job]
  /\ host \in {"starting", "running", "failing"}
  /\ \A f \in flight : f.job \in Job
  /\ cancelled \subseteq accepted /\ DOMAIN store \subseteq accepted \ cancelled
  /\ host = "starting" => jobs \in {NoJobs, store} /\ flight = {}
  /\ host # "starting" => jobs = store

FlightMatches ==
  /\ \A f, g \in flight : f.id = g.id => f = g
  /\ \A f \in flight : f.id \in accepted /\ (f.id \in DOMAIN jobs => jobs[f.id] = f.job /\ f.job.on)

TimesAhead ==
  /\ \A r \in ran : r[1] \in accepted /\ r[2] \in Int
  /\ \A r \in ran : r[1] \in DOMAIN store /\ store[r[1]].on => r[2] < store[r[1]].fireAt
  /\ \A r \in ran, f \in flight : f.id = r[1] => r[2] < f.job.fireAt

NothingForgotten == EarlyAdds = FALSE => DOMAIN store = accepted \ cancelled

SInv == JobsTyped /\ FlightMatches /\ TimesAhead /\ NothingForgotten
----------------------------------------------------------------------------
\* The next multiple of the interval is past the time it is taken from.
LEMMA NextMultiple ==
  ASSUME Interval \in Nat \ {0}, NEW a \in Int
  PROVE  (a \div Interval + 1) * Interval \in Int /\ a < (a \div Interval + 1) * Interval
<1>1. a \div Interval \in Int /\ a % Interval \in Int
  OBVIOUS
<1>2. a = Interval * (a \div Interval) + (a % Interval) /\ a % Interval < Interval
  OBVIOUS
<1>3. (a \div Interval + 1) * Interval = Interval * (a \div Interval) + Interval
  BY <1>1
<1> QED BY <1>1, <1>2, <1>3

\* A recurring job moves past the period it is at, and past the moment given
\* unless that is before it.
LEMMA AdvanceIsLater ==
  ASSUME Interval \in Nat \ {0}, NEW job \in Job, NEW after \in Int, job.fireAt <= after
  PROVE  AdvanceEvery(job, after) \in Int /\ job.fireAt < AdvanceEvery(job, after)
<1>1. job.fireAt \in Int
  BY DEF Job
<1>2. CASE job.trigger = "cron"
  <2>1. AdvanceEvery(job, after) = (after \div Interval + 1) * Interval
    BY <1>2 DEF AdvanceEvery
  <2> QED BY <1>1, <2>1, NextMultiple
<1>3. CASE job.trigger # "cron"
  <2>1. AdvanceEvery(job, after) = job.fireAt + ((after - job.fireAt) \div Interval + 1) * Interval
    BY <1>1, <1>3 DEF AdvanceEvery
  <2>2. after - job.fireAt \in Int /\ 0 <= after - job.fireAt
    BY <1>1
  <2>3. /\ ((after - job.fireAt) \div Interval + 1) * Interval \in Int
        /\ after - job.fireAt < ((after - job.fireAt) \div Interval + 1) * Interval
    BY <2>2, NextMultiple
  <2> QED BY <1>1, <2>1, <2>2, <2>3
<1> QED BY <1>2, <1>3
----------------------------------------------------------------------------
LEMMA InitSInv == SchedInit => SInv
BY DEF SchedInit, NoJobs, SInv, JobsTyped, FlightMatches, TimesAhead, NothingForgotten, Job

\* Registering a job touches no other that memory holds: its id was never used.
LEMMA AddKeeps ==
  ASSUME SInv, AddJob
  PROVE  SInv'
<1>1. PICK id \in JobIds \ accepted, job \in Job :
        jobs' = With(jobs, id, job) /\ store' = With(jobs, id, job) /\ accepted' = accepted \cup {id}
  <2>1. PICK id \in JobIds \ accepted, trigger \in {"once", "interval", "cron"},
             tier \in {"instant", "soft"}, fireAt \in (clock + 1)..MaxTime :
          /\ Commit(With(jobs, id, [fireAt |-> fireAt, trigger |-> trigger, tier |-> tier, on |-> TRUE]))
          /\ accepted' = accepted \cup {id}
    BY DEF AddJob
  <2>2. [fireAt |-> fireAt, trigger |-> trigger, tier |-> tier, on |-> TRUE] \in Job
    BY DEF Job
  <2> QED BY <2>1, <2>2 DEF Commit
<1>2. UNCHANGED <<clock, host, flight, cancelled, ran>>
  BY DEF AddJob
<1>3. /\ jobs \in [DOMAIN jobs -> Job] /\ id \notin DOMAIN jobs
      /\ DOMAIN jobs \subseteq DOMAIN store /\ \A i \in DOMAIN jobs : jobs[i] = store[i]
      /\ host = "starting" => flight = {}
      /\ host # "starting" => jobs = store
      /\ id \notin accepted /\ id \notin cancelled
  BY DEF SInv, JobsTyped, NoJobs
<1>4. /\ DOMAIN store' = DOMAIN jobs \cup {id} /\ jobs' = store'
      /\ store'[id] = job
      /\ \A i \in DOMAIN jobs : store'[i] = store[i]
  BY <1>1, <1>3 DEF With
<1>5. JobsTyped'
  <2>1. store' \in [DOMAIN store' -> Job]
    BY <1>1, <1>3 DEF With
  <2>2. DOMAIN store' \subseteq accepted' \ cancelled' /\ cancelled' \subseteq accepted'
    BY <1>1, <1>2, <1>3, <1>4 DEF SInv, JobsTyped
  <2> QED BY <1>1, <1>2, <1>4, <2>1, <2>2 DEF SInv, JobsTyped
<1>6. FlightMatches'
  BY <1>1, <1>2, <1>3, <1>4 DEF SInv, FlightMatches
<1>7. TimesAhead'
  BY <1>1, <1>2, <1>3, <1>4 DEF SInv, TimesAhead
<1>8. NothingForgotten'
  <2>1. EarlyAdds = FALSE => jobs = store BY <1>3 DEF AddJob, Open
  <2> QED BY <1>1, <1>2, <1>3, <1>4, <2>1 DEF SInv, NothingForgotten
<1> QED BY <1>5, <1>6, <1>7, <1>8 DEF SInv

\* A cancel takes out what it names, and nothing else that memory holds.
LEMMA CancelKeeps ==
  ASSUME SInv, CancelJobs
  PROVE  SInv'
<1>1. PICK ids \in (SUBSET DOMAIN jobs) \ {{}} :
        jobs' = Without(jobs, ids) /\ store' = Without(jobs, ids) /\ cancelled' = cancelled \cup ids
  BY DEF CancelJobs, Commit
<1>2. jobs = store /\ UNCHANGED <<clock, host, flight, accepted, ran>>
  <2>1. DOMAIN NoJobs = {} BY DEF NoJobs
  <2>2. jobs # NoJobs BY <1>1, <2>1
  <2>3. jobs = store BY <2>2 DEF SInv, JobsTyped
  <2> QED BY <2>3 DEF CancelJobs
<1>3. /\ DOMAIN store' = DOMAIN store \ ids
      /\ \A i \in DOMAIN store' : store'[i] = store[i]
  BY <1>1, <1>2 DEF Without
<1>4. JobsTyped'
  <2>1. store' \in [DOMAIN store' -> Job]
    BY <1>1, <1>2 DEF Without, SInv, JobsTyped
  <2> QED BY <1>1, <1>2, <1>3, <2>1 DEF SInv, JobsTyped
<1>5. FlightMatches'
  BY <1>1, <1>2, <1>3 DEF SInv, FlightMatches
<1>6. TimesAhead'
  BY <1>1, <1>2, <1>3 DEF SInv, TimesAhead
<1>7. NothingForgotten'
  BY <1>1, <1>2, <1>3 DEF SInv, NothingForgotten
<1> QED BY <1>4, <1>5, <1>6, <1>7 DEF SInv

\* A start repairs what was missed and moves no job back.
LEMMA LoadKeeps ==
  ASSUME SInv, Load, Interval \in Nat \ {0}
  PROVE  SInv'
<1>1. /\ jobs' = Recovered(store) /\ store' = Recovered(store) /\ host' = "running" /\ flight = {}
      /\ UNCHANGED <<clock, flight, accepted, cancelled, ran>>
  BY DEF Load, Commit, SInv, JobsTyped
<1>2. DOMAIN store' = DOMAIN store
  BY <1>1 DEF Recovered
<1>3. \A id \in DOMAIN store :
        store'[id] \in Job /\ (store'[id].on => store[id].on /\ store[id].fireAt <= store'[id].fireAt)
  <2> SUFFICES ASSUME NEW id \in DOMAIN store
               PROVE  store'[id] \in Job /\ (store'[id].on => store[id].on /\ store[id].fireAt <= store'[id].fireAt)
    OBVIOUS
  <2>1. store[id] \in Job /\ clock \in Int /\ store[id].fireAt \in Int
    BY DEF SInv, JobsTyped, Job
  <2>2. CASE ~store[id].on \/ store[id].fireAt > clock
    BY <1>1, <2>1, <2>2 DEF Recovered
  <2>3. CASE store[id].on /\ store[id].fireAt <= clock /\ Recurs(store[id])
    <3>1. store'[id] = [store[id] EXCEPT !.fireAt = AdvanceEvery(store[id], clock)]
      BY <1>1, <2>1, <2>3 DEF Recovered
    <3>2. AdvanceEvery(store[id], clock) \in Int /\ store[id].fireAt < AdvanceEvery(store[id], clock)
      BY <2>1, <2>3, AdvanceIsLater
    <3> QED BY <2>1, <2>3, <3>1, <3>2 DEF Job
  <2>4. CASE store[id].on /\ store[id].fireAt <= clock /\ ~Recurs(store[id])
    <3>1. store'[id] = store[id] \/ store'[id] = Off(store[id])
      BY <1>1, <2>1, <2>4 DEF Recovered
    <3>2. Off(store[id]) \in Job /\ ~Off(store[id]).on
      BY <2>1 DEF Off, Job
    <3> QED BY <2>1, <2>4, <3>1, <3>2
  <2> QED BY <2>1, <2>2, <2>3, <2>4
<1>4. store' \in [DOMAIN store' -> Job]
  BY <1>1, <1>2, <1>3 DEF Recovered
<1>5. JobsTyped'
  BY <1>1, <1>2, <1>4 DEF SInv, JobsTyped
<1>6. FlightMatches'
  BY <1>1 DEF FlightMatches
<1>7. TimesAhead'
  <2>1. \A id \in DOMAIN store : store[id].fireAt \in Int /\ store'[id].fireAt \in Int
    BY <1>3 DEF SInv, JobsTyped, Job
  <2> QED BY <1>1, <1>2, <1>3, <2>1 DEF SInv, TimesAhead
<1>8. NothingForgotten'
  BY <1>1, <1>2 DEF SInv, NothingForgotten
<1> QED BY <1>5, <1>6, <1>7, <1>8 DEF SInv

LEMMA TickKeeps ==
  ASSUME SInv, Tick
  PROVE  SInv'
<1>1. PICK due \in SUBSET (Enabled(jobs) \ {f.id : f \in flight}) :
        flight' = flight \cup {[id |-> id, job |-> jobs[id]] : id \in due}
  BY DEF Tick, Due
<1>2. UNCHANGED <<clock, store, jobs, host, accepted, cancelled, ran>> /\ jobs = store /\ host = "running"
  BY DEF Tick, SInv, JobsTyped
<1>3. \A f \in flight' : f \in flight \/ (f.id \in due /\ f.job = jobs[f.id] /\ f = [id |-> f.id, job |-> jobs[f.id]])
  BY <1>1
<1>4. \A id \in due : id \in DOMAIN jobs /\ jobs[id].on /\ \A f \in flight : f.id # id
  BY DEF Enabled
<1>5. JobsTyped'
  BY <1>1, <1>2, <1>3, <1>4 DEF SInv, JobsTyped
<1>6. FlightMatches'
  BY <1>2, <1>3, <1>4 DEF SInv, JobsTyped, FlightMatches
<1>7. TimesAhead'
  BY <1>2, <1>3, <1>4 DEF SInv, TimesAhead
<1>8. NothingForgotten'
  BY <1>2 DEF SInv, NothingForgotten
<1> QED BY <1>5, <1>6, <1>7, <1>8 DEF SInv

\* A run that ends finds its job as it read it or not at all.
LEMMA FinishKeeps ==
  ASSUME SInv, Finish, Interval \in Nat \ {0}
  PROVE  SInv'
<1>1. PICK f \in flight :
        /\ flight' = flight \ {f}
        /\ \/ /\ jobs' = Finished(f) /\ store' = Finished(f)
              /\ ran' = ran \cup {<<f.id, f.job.fireAt>>} /\ host' = host
           \/ host' = "failing" /\ UNCHANGED <<store, jobs, ran>>
  BY DEF Finish, Commit
<1>2. UNCHANGED <<clock, accepted, cancelled>>
  BY DEF Finish
<1>3. host # "starting" /\ jobs = store
  BY <1>1 DEF SInv, JobsTyped
<1>4. CASE host' = "failing" /\ UNCHANGED <<store, jobs, ran>>
  BY <1>1, <1>2, <1>3, <1>4 DEF SInv, JobsTyped, FlightMatches, TimesAhead, NothingForgotten
<1>5. CASE /\ jobs' = Finished(f) /\ store' = Finished(f)
           /\ ran' = ran \cup {<<f.id, f.job.fireAt>>} /\ host' = host
  <2>1. /\ f.job \in Job /\ f.job.fireAt \in Int /\ clock \in Int /\ f.id \in accepted
        /\ f.id \in DOMAIN store => store[f.id] = f.job /\ f.job.on
    BY <1>1, <1>3 DEF SInv, JobsTyped, FlightMatches, Job
  <2>2. /\ DOMAIN store' = DOMAIN store
        /\ \A i \in DOMAIN store \ {f.id} : store'[i] = store[i]
        /\ f.id \in DOMAIN store =>
             store'[f.id] \in Job /\ (store'[f.id].on => f.job.fireAt < store'[f.id].fireAt)
    <3>1. CASE f.id \notin DOMAIN store
      BY <1>3, <1>5, <3>1 DEF Finished, Enabled
    <3>2. CASE f.id \in DOMAIN store
      <4>1. store' = With(store, f.id,
                          IF Recurs(f.job)
                          THEN [f.job EXCEPT !.fireAt = AdvanceEvery(f.job, After(f.job))] ELSE Off(f.job))
        BY <1>3, <1>5, <2>1, <3>2 DEF Finished, Enabled
      <4>2. After(f.job) \in Int /\ f.job.fireAt <= After(f.job)
        BY <2>1 DEF After
      <4>3. AdvanceEvery(f.job, After(f.job)) \in Int /\ f.job.fireAt < AdvanceEvery(f.job, After(f.job))
        BY <2>1, <4>2, AdvanceIsLater
      <4> DEFINE next == IF Recurs(f.job)
                         THEN [f.job EXCEPT !.fireAt = AdvanceEvery(f.job, After(f.job))] ELSE Off(f.job)
      <4>4. next \in Job /\ (next.on => f.job.fireAt < next.fireAt)
        BY <2>1, <4>3 DEF Off, Job
      <4>5. /\ DOMAIN store' = DOMAIN store /\ store'[f.id] = next
            /\ \A i \in DOMAIN store \ {f.id} : store'[i] = store[i]
        BY <3>2, <4>1 DEF With
      <4> QED BY <4>4, <4>5
    <3> QED BY <3>1, <3>2
  <2>3. store' \in [DOMAIN store' -> Job]
    <3>1. store' = [i \in DOMAIN store' |-> store'[i]]
      BY <1>3, <1>5 DEF Finished, With, SInv, JobsTyped
    <3>2. \A i \in DOMAIN store' : store'[i] \in Job
      BY <2>2 DEF SInv, JobsTyped
    <3> QED BY <3>1, <3>2
  <2>4. JobsTyped'
    BY <1>1, <1>2, <1>3, <1>5, <2>2, <2>3 DEF SInv, JobsTyped
  <2>5. FlightMatches'
    BY <1>1, <1>2, <1>3, <1>5, <2>1, <2>2 DEF SInv, FlightMatches
  <2>6. TimesAhead'
    <3>1. \A r \in ran' : r \in ran \/ r = <<f.id, f.job.fireAt>>
      BY <1>5
    <3>2. \A r \in ran' : r[1] \in accepted' /\ r[2] \in Int
      BY <1>2, <2>1, <3>1 DEF SInv, TimesAhead
    <3>3. \A r \in ran' : r[1] = f.id => r[2] <= f.job.fireAt
      BY <1>1, <2>1, <3>1 DEF SInv, TimesAhead
    <3>4. \A r \in ran' : r[1] \in DOMAIN store' /\ store'[r[1]].on => r[2] < store'[r[1]].fireAt
      <4> SUFFICES ASSUME NEW r \in ran', r[1] \in DOMAIN store', store'[r[1]].on
                   PROVE  r[2] < store'[r[1]].fireAt
        OBVIOUS
      <4>1. CASE r[1] = f.id
        <5>1. r[2] <= f.job.fireAt /\ f.job.fireAt < store'[f.id].fireAt /\ store'[f.id].fireAt \in Int
          BY <2>2, <3>3, <4>1 DEF Job
        <5>2. r[2] \in Int
          BY <3>2
        <5> QED BY <2>1, <4>1, <5>1, <5>2
      <4>2. CASE r[1] # f.id
        BY <2>2, <3>1, <4>2 DEF SInv, TimesAhead
      <4> QED BY <4>1, <4>2
    <3>5. \A r \in ran', g \in flight' : g.id = r[1] => r[2] < g.job.fireAt
      BY <1>1, <3>1 DEF SInv, FlightMatches, TimesAhead
    <3> QED BY <3>2, <3>4, <3>5 DEF TimesAhead
  <2>7. NothingForgotten'
    BY <1>2, <2>2 DEF SInv, NothingForgotten
  <2> QED BY <2>4, <2>5, <2>6, <2>7 DEF SInv
<1> QED BY <1>1, <1>4, <1>5

LEMMA RestartKeeps ==
  ASSUME SInv, Restart
  PROVE  SInv'
<1>1. /\ host' = "starting" /\ jobs' = NoJobs /\ flight' = {}
      /\ UNCHANGED <<clock, store, accepted, cancelled, ran>>
  BY DEF Restart
<1>2. JobsTyped'
  BY <1>1 DEF SInv, JobsTyped, NoJobs
<1> QED BY <1>1, <1>2 DEF SInv, FlightMatches, TimesAhead, NothingForgotten

LEMMA NextSInv ==
  ASSUME SInv, [SchedNext]_schedVars, Interval \in Nat \ {0}
  PROVE  SInv'
<1>1. CASE TimePasses
  BY <1>1 DEF TimePasses, SInv, JobsTyped, FlightMatches, TimesAhead, NothingForgotten
<1>2. CASE UNCHANGED schedVars
  BY <1>2 DEF schedVars, SInv, JobsTyped, FlightMatches, TimesAhead, NothingForgotten
<1> QED
  BY <1>1, <1>2, AddKeeps, CancelKeeps, LoadKeeps, TickKeeps, FinishKeeps, RestartKeeps DEF SchedNext
----------------------------------------------------------------------------
\* The whole invariant holds in every behaviour, whether or not a turn adds or cancels a
\* job before the scheduler has loaded its file.
THEOREM RegisterInvariant ==
  ASSUME Interval \in Nat \ {0}
  PROVE  SchedSpec => []SInv
<1>1. SInv /\ [SchedNext]_schedVars => SInv'
  BY NextSInv
<1> QED BY <1>1, InitSInv, PTL DEF SchedSpec

\* A period whose run is committed is never run again (scheduler.py:690).
THEOREM PeriodsRunOnce ==
  ASSUME Interval \in Nat \ {0}
  PROVE  SchedSpec => []PeriodRunsOnce
<1>1. SInv => PeriodRunsOnce
  <2> SUFFICES ASSUME SInv, NEW f \in flight, <<f.id, f.job.fireAt>> \in ran PROVE FALSE
    BY Zenon DEF PeriodRunsOnce
  <2>1. f.job.fireAt < f.job.fireAt /\ f.job.fireAt \in Int
    BY DEF SInv, TimesAhead
  <2> QED BY <2>1
<1> QED BY <1>1, RegisterInvariant, PTL

\* If no turn adds or cancels a job before the scheduler has loaded its file, only a cancel
\* takes a job out of the register, and for good.  The code does not ensure that condition:
\* Scheduler_early.cfg shows what is lost without it.
THEOREM CancelsRemove ==
  ASSUME Interval \in Nat \ {0}, EarlyAdds = FALSE
  PROVE  SchedSpec => []OnlyCancelRemoves
<1>1. SInv => OnlyCancelRemoves
  BY DEF SInv, NothingForgotten, OnlyCancelRemoves
<1> QED BY <1>1, RegisterInvariant, PTL

\* Without that condition: what was cancelled never comes back, and a scheduler that has
\* loaded its file forgets no job but the cancelled ones.
CancelledStayOut == DOMAIN store \cap cancelled = {}
LoadedForgetsCancelled ==
  [][host # "starting" => DOMAIN store \ DOMAIN store' \subseteq cancelled']_schedVars

\* A commit, a recovery and the end of a run leave every job in the file; only a cancel
\* does not, once the file is loaded, and none of them brings a cancelled job back
\* (scheduler.py add_job, load_and_recover, _execute_and_reschedule).
THEOREM OnlyCancelsForget ==
  ASSUME Interval \in Nat \ {0}
  PROVE  SchedSpec => []CancelledStayOut /\ LoadedForgetsCancelled
<1>1. SInv => CancelledStayOut
  BY DEF SInv, JobsTyped, CancelledStayOut
<1>2. ASSUME SInv, [SchedNext]_schedVars
      PROVE  [host # "starting" => DOMAIN store \ DOMAIN store' \subseteq cancelled']_schedVars
  <2> SUFFICES ASSUME host # "starting", SchedNext
               PROVE  DOMAIN store \ DOMAIN store' \subseteq cancelled'
    BY <1>2
  <2>0. jobs = store BY <1>2 DEF SInv, JobsTyped
  <2>1. CASE AddJob
    BY <2>0, <2>1 DEF AddJob, Commit, With
  <2>2. CASE CancelJobs
    BY <2>0, <2>2 DEF CancelJobs, Commit, Without
  <2>3. CASE Finish
    <3>1. PICK f \in flight : store' = Finished(f) \/ store' = store
      BY <2>3 DEF Finish, Commit
    <3>2. DOMAIN store \subseteq DOMAIN store'
      BY <2>0, <3>1 DEF Finished, With
    <3> QED BY <3>2
  <2>4. CASE Load \/ Tick \/ Restart \/ TimePasses
    BY <2>4 DEF Load, Tick, Restart, TimePasses
  <2> QED BY <2>1, <2>2, <2>3, <2>4 DEF SchedNext
<1> QED BY <1>1, <1>2, RegisterInvariant, PTL DEF SchedSpec, LoadedForgetsCancelled

----------------------------------------------------------------------------
(***************************************************************************)
(* The reservoir of proactive events, for every set of alerts and content  *)
(* and any number of deaths and lost answers.                              *)
(*                                                                         *)
(* The two properties rest on where an item's row is once it was sent or   *)
(* let go (WInv): a sent one stays "consumed"; one that was let go stays   *)
(* "pending_expiry" until its tombstone stands for it.  So ingest finds    *)
(* one or the other whenever a source offers it again.                     *)
(***************************************************************************)
ItemsTyped ==
  /\ row \in [Items -> {"none", "unread", "consumed", "pending_expiry"}]
  /\ pending \in [Items -> {"none", "consume", "expire"}]
  /\ pc \in {"flush", "fetch", "stored", "decide", "expired", "choose", "send", "sent", "consumed"}
  /\ tomb \subseteq Items /\ page \subseteq Items
  /\ told \subseteq Items /\ settled \subseteq Items /\ given \subseteq Items

\* What is being sent is unread, and nothing is while the loop does another thing.
PageUnread ==
  /\ page # {} => pc \in {"send", "sent"}
  /\ \A i \in page : row[i] = "unread"

\* The list of acknowledgements and the rows agree.
ListMatches ==
  \A i \in Items :
    /\ row[i] = "pending_expiry" <=> pending[i] = "expire"
    /\ pending[i] = "expire" => i \in given
    /\ pending[i] = "consume" => i \in settled

\* Where the row of a settled item is.
RowsRemember ==
  /\ \A i \in settled : row[i] = "consumed"
  /\ \A i \in given : row[i] = "pending_expiry" \/ (row[i] = "none" /\ i \in tomb)

WInv == ItemsTyped /\ PageUnread /\ ListMatches /\ RowsRemember /\ SourcesHearOfAll
----------------------------------------------------------------------------
LEMMA InitWInv == WakeInit => WInv
BY DEF WakeInit, WInv, ItemsTyped, PageUnread, ListMatches, RowsRemember, SourcesHearOfAll, Owed

\* A flush, whichever sources answer, keeps all of the invariant but for where
\* the loop is.
LEMMA FlushedKeeps ==
  ASSUME WInv, Flushed, page = {}, page' = page, settled' = settled, given' = given,
         pc' \in {"fetch", "decide", "choose", "flush"}
  PROVE  WInv'
<1>a. PICK answered \in SUBSET Owed :
        \E lost \in SUBSET (Owed \ answered) :
          told' = told \cup answered \cup lost /\ Acknowledged(answered)
  BY DEF Flushed
<1>b. PICK lost \in SUBSET (Owed \ answered) :
        told' = told \cup answered \cup lost /\ Acknowledged(answered)
  BY <1>a
<1> DEFINE expired == {i \in answered : pending[i] = "expire"}
<1>1. /\ tomb' = tomb \cup expired
      /\ row' = [i \in Items |-> IF i \in expired /\ row[i] = "pending_expiry" THEN "none" ELSE row[i]]
      /\ pending' = [i \in Items |-> IF i \in answered THEN "none" ELSE pending[i]]
  BY <1>b DEF Acknowledged
<1>2. answered \subseteq Owed /\ lost \subseteq Owed /\ Owed \subseteq Items
  BY DEF Owed
<1>3. Owed \subseteq settled \cup given
  BY DEF WInv, ItemsTyped, ListMatches, Owed
<1>4. ItemsTyped'
  BY <1>1, <1>2, <1>b DEF WInv, ItemsTyped
<1>5. PageUnread'
  BY DEF PageUnread
<1>6. ListMatches'
  BY <1>1, <1>2 DEF WInv, ItemsTyped, ListMatches
<1>7. RowsRemember'
  BY <1>1, <1>2 DEF WInv, ItemsTyped, ListMatches, RowsRemember
<1>8. SourcesHearOfAll'
  <2>1. told' \subseteq settled' \cup given'
    BY <1>2, <1>3, <1>b DEF WInv, SourcesHearOfAll
  <2>2. \A i \in Owed \ answered : i \in Owed'
    BY <1>1, <1>2 DEF WInv, ItemsTyped, Owed
  <2>3. settled' \cup given' \subseteq told' \cup Owed'
    BY <2>2, <1>b DEF WInv, SourcesHearOfAll
  <2> QED BY <2>1, <2>3 DEF SourcesHearOfAll
<1> QED BY <1>4, <1>5, <1>6, <1>7, <1>8 DEF WInv

LEMMA NextWInv == WInv /\ [WakeNext]_wakeVars => WInv'
<1> SUFFICES ASSUME WInv, [WakeNext]_wakeVars PROVE WInv'
  OBVIOUS
<1>1. CASE Flush
  <2>1. page = {}
    BY <1>1 DEF Flush, WInv, PageUnread
  <2>2. Flushed /\ pc' \in {"fetch", "decide"} /\ UNCHANGED <<page, settled, given>>
    BY <1>1 DEF Flush
  <2> QED BY <2>1, <2>2, FlushedKeeps
<1>2. CASE Ingest
  <2>1. page = {}
    BY <1>2 DEF Ingest, WInv, PageUnread
  <2>2. PICK offered \in SUBSET Items :
          row' = [i \in Items |-> IF i \in offered \ tomb THEN Kept(i) ELSE row[i]]
    BY <1>2 DEF Ingest
  <2>3. /\ pc' = "stored"
        /\ UNCHANGED <<pending, tomb, page, told, settled, given>>
    BY <1>2 DEF Ingest
  <2>4. ItemsTyped'
    BY <2>2, <2>3 DEF WInv, ItemsTyped, Kept
  <2>5. \A i \in Items : row[i] # "none" \/ i \in tomb => row'[i] = row[i]
    BY <2>2 DEF WInv, ItemsTyped, Kept
  <2>6. \A i \in Items : row'[i] # row[i] => row'[i] = "unread" /\ row[i] = "none"
    BY <2>2 DEF WInv, ItemsTyped, Kept
  <2>7. ListMatches'
    BY <2>3, <2>5, <2>6 DEF WInv, ItemsTyped, ListMatches
  <2>8. RowsRemember'
    BY <2>3, <2>5 DEF WInv, ItemsTyped, RowsRemember
  <2>9. PageUnread'
    BY <2>1, <2>3 DEF PageUnread
  <2>10. SourcesHearOfAll'
    BY <2>3 DEF WInv, SourcesHearOfAll, Owed
  <2> QED BY <2>4, <2>7, <2>8, <2>9, <2>10 DEF WInv
<1>3. CASE FetchFails
  BY <1>3 DEF FetchFails, WInv, ItemsTyped, PageUnread, ListMatches, RowsRemember, SourcesHearOfAll, Owed
<1>4. CASE DecideAlert
  BY <1>4 DEF DecideAlert, WInv, ItemsTyped, PageUnread, ListMatches, RowsRemember, SourcesHearOfAll, Owed,
              Unread, Items
<1>5. CASE Expire
  <2>1. page = {}
    BY <1>5 DEF Expire, WInv, PageUnread
  <2>2. PICK old \in SUBSET Unread(Contents) :
          /\ row' = [i \in Items |-> IF i \in old THEN "pending_expiry" ELSE row[i]]
          /\ pending' = Queued("expire", old)
          /\ given' = given \cup old
    BY <1>5 DEF Expire
  <2>3. /\ pc' = "expired"
        /\ UNCHANGED <<tomb, page, told, settled>>
    BY <1>5 DEF Expire
  <2>4. old \subseteq Items /\ \A i \in old : row[i] = "unread"
    BY <2>2 DEF Unread, Items
  <2>5. pending' = [i \in Items |-> IF i \in old THEN "expire" ELSE pending[i]]
    BY <2>2, <2>4 DEF Queued, WInv, ItemsTyped
  <2>6. ItemsTyped'
    BY <2>2, <2>3, <2>4, <2>5 DEF WInv, ItemsTyped
  <2>7. ListMatches'
    BY <2>2, <2>3, <2>4, <2>5 DEF WInv, ItemsTyped, ListMatches
  <2>8. RowsRemember'
    BY <2>2, <2>3, <2>4 DEF WInv, ItemsTyped, RowsRemember
  <2>9. PageUnread'
    BY <2>1, <2>3 DEF PageUnread
  <2>10. Owed' = Owed \cup old
    BY <2>4, <2>5 DEF Owed, WInv, ItemsTyped
  <2>11. SourcesHearOfAll'
    BY <2>2, <2>3, <2>10 DEF WInv, SourcesHearOfAll
  <2> QED BY <2>6, <2>7, <2>8, <2>9, <2>11 DEF WInv
<1>6. CASE FlushExpired
  <2>1. page = {}
    BY <1>6 DEF FlushExpired, WInv, PageUnread
  <2>2. Flushed /\ pc' = "choose" /\ UNCHANGED <<page, settled, given>>
    BY <1>6 DEF FlushExpired
  <2> QED BY <2>1, <2>2, FlushedKeeps
<1>7. CASE DecideContent
  <2>1. page' = page \/ (pc' = "send" /\ page' \subseteq Unread(Contents))
    BY <1>7 DEF DecideContent
  <2>2. page = {}
    BY <1>7 DEF DecideContent, WInv, PageUnread
  <2>3. pc' \in {"flush", "send"} /\ UNCHANGED <<row, pending, tomb, told, settled, given>>
    BY <1>7 DEF DecideContent
  <2> QED
    BY <2>1, <2>2, <2>3 DEF WInv, ItemsTyped, PageUnread, ListMatches, RowsRemember, SourcesHearOfAll, Owed,
                            Unread, Items
<1>8. CASE Send
  BY <1>8 DEF Send, WInv, ItemsTyped, PageUnread, ListMatches, RowsRemember, SourcesHearOfAll, Owed
<1>9. CASE Consume
  <2>1. page' = {} /\ UNCHANGED <<tomb, told, given>> /\ pc' \in {"consumed", "flush"}
    BY <1>9 DEF Consume
  <2>2. CASE UNCHANGED <<row, pending, settled>>
    BY <2>1, <2>2 DEF WInv, ItemsTyped, PageUnread, ListMatches, RowsRemember, SourcesHearOfAll, Owed
  <2>3. CASE /\ row' = [i \in Items |-> IF i \in page /\ row[i] # "pending_expiry" THEN "consumed" ELSE row[i]]
             /\ pending' = [i \in Items |-> IF i \in page /\ pending[i] = "none" THEN "consume" ELSE pending[i]]
             /\ settled' = settled \cup page
    <3>1. \A i \in page : i \in Items /\ row[i] = "unread"
      BY DEF WInv, ItemsTyped, PageUnread
    <3>2. \A i \in page : pending[i] = "none"
      BY <3>1 DEF WInv, ItemsTyped, ListMatches, RowsRemember
    <3>3. /\ row' = [i \in Items |-> IF i \in page THEN "consumed" ELSE row[i]]
          /\ pending' = [i \in Items |-> IF i \in page THEN "consume" ELSE pending[i]]
      BY <2>3, <3>1, <3>2
    <3>4. ItemsTyped'
      BY <2>1, <2>3, <3>3 DEF WInv, ItemsTyped
    <3>5. ListMatches'
      BY <2>1, <2>3, <3>1, <3>2, <3>3 DEF WInv, ItemsTyped, ListMatches
    <3>6. RowsRemember'
      BY <2>1, <2>3, <3>1, <3>3 DEF WInv, ItemsTyped, RowsRemember
    <3>7. PageUnread'
      BY <2>1 DEF PageUnread
    <3>8. Owed' = Owed \cup page
      BY <3>1, <3>3 DEF Owed, WInv, ItemsTyped
    <3>9. SourcesHearOfAll'
      BY <2>1, <2>3, <3>8 DEF WInv, SourcesHearOfAll
    <3> QED BY <3>4, <3>5, <3>6, <3>7, <3>9 DEF WInv
  <2> QED BY <1>9, <2>2, <2>3 DEF Consume
<1>10. CASE FlushConsumed
  <2>1. page = {}
    BY <1>10 DEF FlushConsumed, WInv, PageUnread
  <2>2. Flushed /\ pc' = "flush" /\ UNCHANGED <<page, settled, given>>
    BY <1>10 DEF FlushConsumed
  <2> QED BY <2>1, <2>2, FlushedKeeps
<1>11. CASE Die
  BY <1>11 DEF Die, WInv, ItemsTyped, PageUnread, ListMatches, RowsRemember, SourcesHearOfAll, Owed
<1>12. CASE UNCHANGED wakeVars
  BY <1>12 DEF wakeVars, WInv, ItemsTyped, PageUnread, ListMatches, RowsRemember, SourcesHearOfAll, Owed
<1> QED
  BY <1>1, <1>2, <1>3, <1>4, <1>5, <1>6, <1>7, <1>8, <1>9, <1>10, <1>11, <1>12 DEF WakeNext
----------------------------------------------------------------------------
\* The whole invariant holds in every behaviour of the reservoir.
THEOREM ReservoirInvariant == WakeSpec => []WInv
<1>1. WInv /\ UNCHANGED wakeVars => WInv'
  BY NextWInv
<1> QED BY InitWInv, NextWInv, PTL DEF WakeSpec

\* An item that was sent or let go is never part of a later message, however
\* often its source offers it and wherever the loop is cut off.
THEOREM NeverToldTwice == WakeSpec => []NothingIsToldTwice
<1>1. WInv => NothingIsToldTwice
  BY DEF WInv, ItemsTyped, PageUnread, RowsRemember, NothingIsToldTwice
<1> QED BY <1>1, ReservoirInvariant, PTL

\* A source hears of what was sent or let go and of nothing else, and what it has
\* not taken yet is still on the list.
THEOREM SourcesAreTold == WakeSpec => []SourcesHearOfAll
<1>1. WInv => SourcesHearOfAll
  BY DEF WInv
<1> QED BY <1>1, ReservoirInvariant, PTL

(***************************************************************************)
(* The change of settings, for any configurations and any number of        *)
(* requests and boots.                                                     *)
(*                                                                         *)
(* Answers carry no number.  That the file is loaded in the end follows    *)
(* from what the gateway read last (LastReadIsFile); that an answer is     *)
(* about the request it is credited to, from there being one reading at a  *)
(* time (OneReading) - unless a request that was given up lost its         *)
(* generation (Lost), and then the property excepts it for good.           *)
(***************************************************************************)
AnswerKinds == {"none", "accepted", "refused"}
Frames == {"ready", "accepted", "refused"}
ApiStates == [pc : {"apply", "rollback"}, before : Configs \cup {NoConfig}, generation : Nat]
BridgeStates == [next : Nat, requested : Nat, event : BOOLEAN, completed : Seq(AnswerKinds)]
SupStates == [pc : {"boot", "await_first", "starting", "ready", "await_rollback", "exited"},
              generation : Nat, report : Nat]
GatewayStates == [state : {"none", "starting", "ready", "dead"},
                  loaded : Configs \cup {NoConfig, "restart", "crash"}, usr1 : BOOLEAN,
                  busy : Configs \cup {NoConfig}]

\* The types of the settings thread, the bridge, the supervisor and the gateway.
SettingsTyped ==
  /\ file \in Configs \cup {NoConfig}
  /\ api \in ApiStates \cup {Settings!Idle}
  /\ bridge \in BridgeStates
  /\ sup \in SupStates
  /\ gateway \in GatewayStates
  /\ pipe \in Seq(Frames)
  /\ boots \in 0..MaxBoots

\* Requests are numbered in order, and the thread waits for the last of them.
RequestsFit ==
  /\ bridge.requested = bridge.next /\ Len(bridge.completed) = bridge.next
  /\ bridge.next <= MaxRequests + 1
  /\ api # Settings!Idle => api.generation = bridge.next /\ bridge.next > 0 /\ file # NoConfig
  /\ api.pc = "apply" => bridge.next <= MaxRequests

\* A generation the supervisor holds is not answered; it is the last one exactly when
\* no request waits to be taken, and one that waits is not answered either.
Holds(g) == g # 0 /\ g \in {sup.generation, sup.report}
HeldFit ==
  /\ {sup.generation, sup.report} \subseteq 0..bridge.next
  /\ sup.pc # "exited" =>
       /\ sup.pc # "ready" => sup.generation = 0
       /\ sup.pc = "ready" => sup.report = 0
       /\ bridge.event => bridge.next > 0 /\ bridge.completed[bridge.next] = "none"
       /\ \A g \in 1..bridge.next : Holds(g) =>
            bridge.completed[g] = "none" /\ (bridge.event <=> g # bridge.next)

\* The process and what it wrote fit the phase the supervisor is in.
ProcessFits ==
  /\ sup.pc \notin {"starting", "ready"} => gateway = Settings!NoGateway
  /\ sup.pc = "starting" =>
       /\ gateway.state \in {"starting", "ready", "dead"}
       /\ ~gateway.usr1 /\ gateway.busy = NoConfig /\ pipe \in {<<>>, <<"ready">>}
  /\ sup.pc = "ready" => gateway.state \in {"ready", "dead"}
  /\ gateway.state = "starting" => pipe = <<>>

\* Once no request waits to be taken, the last thing the gateway read is the file: it
\* has a signal to read it, is loading it, runs with it or has refused it.
LastRefused ==
  IF pipe = <<>> THEN bridge.next > 0 /\ bridge.completed[bridge.next] = "refused"
  ELSE pipe[Len(pipe)] = "refused"
LastReadIsFile ==
  ~bridge.event /\ file # NoConfig =>
    /\ gateway.state = "starting" => gateway.loaded \in {NoConfig, file}
    /\ gateway.state = "ready" /\ ~gateway.usr1 =>
         IF gateway.busy # NoConfig THEN gateway.busy = file
         ELSE LastRefused \/ gateway.loaded = file

\* A request that was given up and will never be answered.
Lost == \E g \in 1..bridge.next : g # bridge.next /\ bridge.completed[g] = "none" /\ ~Holds(g)

\* Unless one was lost, at most one reading is under way, and for a generation held.
OneReading ==
  gateway.state = "ready" /\ ~Lost =>
    /\ gateway.usr1 \/ gateway.busy # NoConfig \/ Settings!Results(pipe) # {} => sup.generation # 0
    /\ gateway.busy # NoConfig => ~gateway.usr1
    /\ Settings!Results(pipe) # {} => ~gateway.usr1 /\ gateway.busy = NoConfig

SettingsInv ==
  SettingsTyped /\ RequestsFit /\ HeldFit /\ ProcessFits /\ LastReadIsFile /\ OneReading

\* The parts of the state, each of its type.
LEMMA SettingsParts ==
  ASSUME SettingsTyped
  PROVE  /\ file \in Configs \cup {NoConfig} /\ boots \in 0..MaxBoots
         /\ bridge.next \in Nat /\ bridge.requested \in Nat /\ bridge.event \in BOOLEAN
         /\ bridge.completed \in Seq(AnswerKinds) /\ Len(bridge.completed) \in Nat
         /\ sup.generation \in Nat /\ sup.report \in Nat
         /\ sup.pc \in {"boot", "await_first", "starting", "ready", "await_rollback", "exited"}
         /\ gateway.state \in {"none", "starting", "ready", "dead"} /\ gateway.usr1 \in BOOLEAN
         /\ gateway.loaded \in Configs \cup {NoConfig, "restart", "crash"}
         /\ gateway.busy \in Configs \cup {NoConfig}
         /\ pipe \in Seq(Frames) /\ Len(pipe) \in Nat
BY DEF SettingsTyped, BridgeStates, SupStates, GatewayStates

\* The settings thread rests, or waits with the file it would restore.
LEMMA ApiParts ==
  ASSUME SettingsTyped
  PROVE  /\ api # Settings!Idle =>
              /\ api.pc \in {"apply", "rollback"} /\ api.generation \in Nat
              /\ api.before \in Configs \cup {NoConfig}
         /\ api = Settings!Idle => api.pc = "idle"
         /\ api.pc = "apply" => api # Settings!Idle
BY DEF SettingsTyped, ApiStates, Settings!Idle

\* A request that is handed out.
LEMMA RequestedIs ==
  ASSUME bridge \in BridgeStates, Len(bridge.completed) = bridge.next,
         bridge' = Settings!Requested(bridge)
  PROVE  /\ bridge' \in BridgeStates /\ Len(bridge'.completed) = bridge'.next
         /\ bridge'.next = bridge.next + 1 /\ bridge'.requested = bridge'.next
         /\ bridge'.event = TRUE
         /\ bridge'.completed[bridge'.next] = "none"
         /\ \A g \in 1..bridge.next : bridge'.completed[g] = bridge.completed[g]
<1>1. bridge' = [next |-> bridge.next + 1, requested |-> bridge.next + 1, event |-> TRUE,
                 completed |-> Append(bridge.completed, "none")]
  BY DEF Settings!Requested, BridgeStates
<1>2. bridge.completed \in Seq(AnswerKinds) /\ bridge.next \in Nat /\ "none" \in AnswerKinds
  BY DEF BridgeStates, AnswerKinds
<1>3. /\ Append(bridge.completed, "none") \in Seq(AnswerKinds)
      /\ Len(Append(bridge.completed, "none")) = bridge.next + 1
      /\ Append(bridge.completed, "none")[bridge.next + 1] = "none"
      /\ \A g \in 1..bridge.next : Append(bridge.completed, "none")[g] = bridge.completed[g]
  BY <1>2
<1> QED BY <1>1, <1>2, <1>3 DEF BridgeStates

\* An answer that is credited to a generation, or to none.
LEMMA CompleteIs ==
  ASSUME bridge \in BridgeStates, Len(bridge.completed) = bridge.next,
         NEW g \in 0..bridge.next, NEW answer \in AnswerKinds,
         bridge' = Settings!Complete(bridge, g, answer)
  PROVE  /\ bridge' \in BridgeStates /\ Len(bridge'.completed) = bridge'.next
         /\ bridge'.next = bridge.next /\ bridge'.requested = bridge.requested
         /\ bridge'.event = bridge.event
         /\ g # 0 => bridge'.completed[g] = answer
         /\ \A h \in 1..bridge.next : h # g => bridge'.completed[h] = bridge.completed[h]
<1>1. CASE g = 0 BY <1>1 DEF Settings!Complete
<1>2. CASE g # 0
  <2>1. bridge.completed \in Seq(AnswerKinds) /\ bridge.next \in Nat BY DEF BridgeStates
  <2>2. g \in 1..Len(bridge.completed) BY <1>2, <2>1
  <2>3. bridge' = [bridge EXCEPT !.completed[g] = answer] BY <1>2 DEF Settings!Complete
  <2>4. bridge' = [next |-> bridge.next, requested |-> bridge.requested, event |-> bridge.event,
                   completed |-> [bridge.completed EXCEPT ![g] = answer]]
    BY <2>3 DEF BridgeStates
  <2>5. /\ [bridge.completed EXCEPT ![g] = answer] \in Seq(AnswerKinds)
        /\ Len([bridge.completed EXCEPT ![g] = answer]) = Len(bridge.completed)
    BY <2>1, <2>2
  <2>6. /\ [bridge.completed EXCEPT ![g] = answer][g] = answer
        /\ \A h \in 1..bridge.next : h # g =>
             [bridge.completed EXCEPT ![g] = answer][h] = bridge.completed[h]
    BY <2>1, <2>2
  <2> QED BY <2>1, <2>4, <2>5, <2>6 DEF BridgeStates
<1> QED BY <1>1, <1>2

\* A request that is taken.
LEMMA TakenIs ==
  ASSUME bridge \in BridgeStates, bridge' = Settings!Taken(bridge)
  PROVE  /\ bridge' \in BridgeStates /\ bridge'.completed = bridge.completed
         /\ bridge'.next = bridge.next /\ bridge'.requested = bridge.requested
         /\ bridge'.event = FALSE
BY DEF Settings!Taken, BridgeStates

\* A frame that is written.
LEMMA WrittenIs ==
  ASSUME pipe \in Seq(Frames), NEW frame \in Frames, pipe' = Append(pipe, frame)
  PROVE  /\ pipe' \in Seq(Frames) /\ pipe' # <<>> /\ pipe'[Len(pipe')] = frame
         /\ pipe = <<>> => pipe' = <<frame>>
         /\ frame = "ready" /\ Settings!Results(pipe) = {} => Settings!Results(pipe') = {}
<1>1. /\ pipe' \in Seq(Frames) /\ Len(pipe') = Len(pipe) + 1 /\ Len(pipe) \in Nat
      /\ pipe'[Len(pipe')] = frame /\ DOMAIN pipe = 1..Len(pipe) /\ DOMAIN pipe' = 1..(Len(pipe) + 1)
      /\ \A i \in 1..Len(pipe) : pipe'[i] = pipe[i]
  OBVIOUS
<1>2. pipe' # <<>> /\ (pipe = <<>> => pipe' = <<frame>>)
  <2>1. pipe' # <<>> BY <1>1
  <2>2. pipe = <<>> => pipe' = <<frame>> OBVIOUS
  <2> QED BY <2>1, <2>2
<1>3. ASSUME frame = "ready", Settings!Results(pipe) = {} PROVE Settings!Results(pipe') = {}
  <2>1. \A i \in 1..Len(pipe) : pipe[i] = "ready" BY <1>1, <1>3 DEF Settings!Results
  <2>2. \A i \in 1..(Len(pipe) + 1) : pipe'[i] = "ready"
    <3> TAKE i \in 1..(Len(pipe) + 1)
    <3>1. i \in 1..Len(pipe) \/ i = Len(pipe) + 1 BY <1>1
    <3> QED BY <3>1, <2>1, <1>1, <1>3
  <2> QED BY <2>2, <1>1 DEF Settings!Results
<1> QED BY <1>1, <1>2, <1>3

\* An empty pipe holds no answer.
LEMMA EmptyHolds ==
  ASSUME pipe = <<>>
  PROVE  Settings!Results(pipe) = {}
BY DEF Settings!Results

\* The host is first booted with a configuration or without one.
LEMMA SettingsFirst ==
  ASSUME Settings!Init
  PROVE  SettingsInv
<1>1. /\ api = [pc |-> "idle"] /\ sup = [pc |-> "boot", generation |-> 0, report |-> 0]
      /\ bridge = [next |-> 0, requested |-> 0, event |-> FALSE, completed |-> <<>>]
      /\ gateway = Settings!NoGateway /\ pipe = <<>> /\ boots = 0
      /\ file \in Configs \cup {NoConfig}
  BY DEF Settings!Init, Settings!Idle
<1>2. SettingsTyped
  <2>1. bridge \in BridgeStates BY <1>1 DEF BridgeStates
  <2>2. sup \in SupStates BY <1>1 DEF SupStates
  <2>3. gateway \in GatewayStates BY <1>1 DEF GatewayStates, Settings!NoGateway
  <2> QED BY <1>1, <2>1, <2>2, <2>3, NoFileIsNoConfig DEF SettingsTyped, Settings!Idle
<1>3. RequestsFit BY <1>1, NoFileIsNoConfig DEF RequestsFit, Settings!Idle
<1>4. HeldFit BY <1>1 DEF HeldFit, Holds
<1>5. ProcessFits BY <1>1 DEF ProcessFits, Settings!NoGateway
<1>6. LastReadIsFile /\ OneReading
  BY <1>1 DEF LastReadIsFile, OneReading, Settings!NoGateway
<1> QED BY <1>2, <1>3, <1>4, <1>5, <1>6 DEF SettingsInv

\* The steps of the gateway leave the requests and what is held of them alone.
LEMMA GatewayAlone ==
  ASSUME SettingsInv, UNCHANGED <<file, api, bridge, sup, boots>>
  PROVE  RequestsFit' /\ HeldFit' /\ (Lost' <=> Lost)
<1>1. RequestsFit' BY DEF SettingsInv, RequestsFit
<1>2. HeldFit' BY DEF SettingsInv, HeldFit, Holds
<1>3. Lost' <=> Lost BY DEF Lost, Holds
<1> QED BY <1>1, <1>2, <1>3

\* The gateway starts with the file there is.
LEMMA GatewayLoadsStep ==
  ASSUME SettingsInv, Settings!GatewayLoads
  PROVE  SettingsInv'
<1>0. UNCHANGED <<file, api, bridge, sup, pipe, boots>> BY DEF Settings!GatewayLoads
<1>1. SettingsTyped /\ ProcessFits /\ LastReadIsFile BY DEF SettingsInv
<1>2. gateway \in GatewayStates /\ gateway.state = "starting" /\ pipe = <<>>
  BY <1>1 DEF SettingsTyped, ProcessFits, Settings!GatewayLoads
<1>3. /\ gateway' \in GatewayStates /\ gateway'.usr1 = gateway.usr1 /\ gateway'.busy = gateway.busy
      /\ \/ file = NoConfig /\ gateway'.state = "dead"
         \/ file # NoConfig /\ gateway'.state = "starting" /\ gateway'.loaded = file
  <2>1. CASE file = NoConfig
    <3>1. gateway' = [gateway EXCEPT !.state = "dead", !.loaded = "crash"]
      BY <2>1 DEF Settings!GatewayLoads
    <3> QED BY <1>2, <2>1, <3>1 DEF GatewayStates
  <2>2. CASE file # NoConfig
    <3>1. gateway' = [gateway EXCEPT !.loaded = file] /\ file \in Configs
      BY <1>1, <2>2 DEF Settings!GatewayLoads, SettingsTyped
    <3> QED BY <1>2, <2>2, <3>1 DEF GatewayStates
  <2> QED BY <2>1, <2>2
<1>4. SettingsTyped' BY <1>0, <1>1, <1>3 DEF SettingsTyped
<1>5. ProcessFits'
  BY <1>0, <1>1, <1>2, <1>3, SettingsParts DEF ProcessFits, Settings!NoGateway
<1>6. LastReadIsFile' BY <1>0, <1>3 DEF LastReadIsFile
<1>7. OneReading' BY <1>3 DEF OneReading
<1> QED BY <1>0, <1>4, <1>5, <1>6, <1>7, GatewayAlone DEF SettingsInv

\* It becomes ready and says so.
LEMMA GatewayReadyStep ==
  ASSUME SettingsInv, Settings!GatewayReady
  PROVE  SettingsInv'
<1>0. UNCHANGED <<file, api, bridge, sup, boots>> BY DEF Settings!GatewayReady
<1>1. SettingsTyped /\ ProcessFits /\ LastReadIsFile BY DEF SettingsInv
<1>2. /\ gateway \in GatewayStates /\ gateway.state = "starting" /\ pipe = <<>>
      /\ gateway.loaded # NoConfig /\ pipe \in Seq(Frames)
  BY <1>1 DEF SettingsTyped, ProcessFits, Settings!GatewayReady
<1>3. /\ gateway' \in GatewayStates /\ gateway'.usr1 = gateway.usr1 /\ gateway'.busy = gateway.busy
      /\ gateway'.state = "ready" /\ gateway'.loaded = gateway.loaded
  BY <1>2 DEF Settings!GatewayReady, GatewayStates
<1>4. pipe' \in Seq(Frames) /\ pipe' = <<"ready">> /\ Settings!Results(pipe') = {}
  BY <1>2, WrittenIs, EmptyHolds DEF Settings!GatewayReady, Frames
<1>5. sup.pc = "starting" /\ ~gateway.usr1 /\ gateway.busy = NoConfig
  BY <1>1, <1>2, SettingsParts DEF ProcessFits, Settings!NoGateway
<1>6. SettingsTyped' BY <1>0, <1>1, <1>3, <1>4 DEF SettingsTyped
<1>7. ProcessFits' BY <1>0, <1>3, <1>4, <1>5 DEF ProcessFits
<1>8. LastReadIsFile' BY <1>0, <1>1, <1>2, <1>3, <1>5 DEF LastReadIsFile
<1>9. OneReading' BY <1>3, <1>4, <1>5 DEF OneReading
<1> QED BY <1>0, <1>6, <1>7, <1>8, <1>9, GatewayAlone DEF SettingsInv

\* It clears its event and reads the file.
LEMMA GatewayReadsStep ==
  ASSUME SettingsInv, Settings!GatewayReads
  PROVE  SettingsInv'
<1>0. UNCHANGED <<file, api, bridge, sup, boots>> BY DEF Settings!GatewayReads
<1>1. SettingsTyped /\ ProcessFits /\ LastReadIsFile /\ OneReading BY DEF SettingsInv
<1>2. /\ gateway \in GatewayStates /\ gateway.state = "ready" /\ gateway.usr1
      /\ gateway.busy = NoConfig /\ file \in Configs \cup {NoConfig} /\ pipe \in Seq(Frames)
  BY <1>1 DEF SettingsTyped, Settings!GatewayReads
<1>3. /\ gateway' \in GatewayStates /\ gateway'.usr1 = FALSE /\ gateway'.busy = file
      /\ gateway'.state = "ready" /\ gateway'.loaded = gateway.loaded
      /\ pipe' = IF file = NoConfig THEN Append(pipe, "refused") ELSE pipe
  BY <1>2 DEF Settings!GatewayReads, GatewayStates
<1>4. /\ pipe' \in Seq(Frames)
      /\ file = NoConfig => pipe' # <<>> /\ pipe'[Len(pipe')] = "refused"
  BY <1>2, <1>3, WrittenIs DEF Frames
<1>5. sup.pc = "ready"
  BY <1>1, <1>2, SettingsParts DEF ProcessFits, Settings!NoGateway
<1>6. SettingsTyped' BY <1>0, <1>1, <1>3, <1>4 DEF SettingsTyped
<1>7. ProcessFits' BY <1>0, <1>3, <1>5 DEF ProcessFits
<1>8. LastReadIsFile' BY <1>0, <1>3, <1>4 DEF LastReadIsFile, LastRefused
<1>9. OneReading'
  <2>1. Lost' <=> Lost BY <1>0, GatewayAlone
  <2>2. ~Lost => sup.generation # 0 /\ Settings!Results(pipe) = {} BY <1>1, <1>2 DEF OneReading
  <2> QED BY <1>0, <1>3, <2>1, <2>2 DEF OneReading
<1> QED BY <1>0, <1>6, <1>7, <1>8, <1>9, GatewayAlone DEF SettingsInv

\* It loads what it read or keeps what it had, and answers.
LEMMA GatewayReloadsStep ==
  ASSUME SettingsInv, Settings!GatewayReloads
  PROVE  SettingsInv'
<1>0. UNCHANGED <<file, api, bridge, sup, boots>> BY DEF Settings!GatewayReloads
<1>1. SettingsTyped /\ ProcessFits /\ LastReadIsFile /\ OneReading BY DEF SettingsInv
<1>2. /\ gateway \in GatewayStates /\ gateway.state = "ready" /\ gateway.busy # NoConfig
      /\ pipe \in Seq(Frames)
  BY <1>1 DEF SettingsTyped, Settings!GatewayReloads
<1>3. /\ gateway' \in GatewayStates /\ gateway'.usr1 = gateway.usr1 /\ gateway'.busy = NoConfig
      /\ gateway'.state = "ready"
      /\ \/ gateway'.loaded = gateway.busy /\ pipe' = Append(pipe, "accepted")
         \/ pipe' = Append(pipe, "refused")
  BY <1>2 DEF Settings!GatewayReloads, GatewayStates
<1>4. /\ pipe' \in Seq(Frames) /\ pipe' # <<>>
      /\ gateway'.loaded = gateway.busy \/ pipe'[Len(pipe')] = "refused"
  BY <1>2, <1>3, WrittenIs DEF Frames
<1>5. sup.pc = "ready"
  BY <1>1, <1>2, SettingsParts DEF ProcessFits, Settings!NoGateway
<1>6. SettingsTyped' BY <1>0, <1>1, <1>3, <1>4 DEF SettingsTyped
<1>7. ProcessFits' BY <1>0, <1>3, <1>5 DEF ProcessFits
<1>8. LastReadIsFile'
  BY <1>0, <1>1, <1>2, <1>3, <1>4 DEF LastReadIsFile, LastRefused
<1>9. OneReading'
  <2>1. Lost' <=> Lost BY <1>0, GatewayAlone
  <2>2. ~Lost => sup.generation # 0 /\ ~gateway.usr1 BY <1>1, <1>2 DEF OneReading
  <2> QED BY <1>0, <1>3, <2>1, <2>2 DEF OneReading
<1> QED BY <1>0, <1>6, <1>7, <1>8, <1>9, GatewayAlone DEF SettingsInv

\* The process ends.
LEMMA GatewayEndsStep ==
  ASSUME SettingsInv, NEW code \in {"crash", "restart"}, Settings!GatewayEnds(code)
  PROVE  SettingsInv'
<1>0. UNCHANGED <<file, api, bridge, sup, pipe, boots>> BY DEF Settings!GatewayEnds
<1>1. SettingsTyped /\ ProcessFits BY DEF SettingsInv
<1>2. gateway.state \in {"starting", "ready"} BY DEF Settings!GatewayEnds
<1>3. /\ gateway' \in GatewayStates /\ gateway'.usr1 = FALSE /\ gateway'.busy = NoConfig
      /\ gateway'.state = "dead"
  BY DEF Settings!GatewayEnds, GatewayStates, Settings!NoGateway
<1>4. sup.pc \in {"starting", "ready"}
  BY <1>1, <1>2, SettingsParts DEF ProcessFits, Settings!NoGateway
<1>5. SettingsTyped' BY <1>0, <1>1, <1>3 DEF SettingsTyped
<1>6. ProcessFits' BY <1>0, <1>1, <1>3, <1>4 DEF ProcessFits
<1>7. LastReadIsFile' /\ OneReading' BY <1>3 DEF LastReadIsFile, OneReading
<1> QED BY <1>0, <1>5, <1>6, <1>7, GatewayAlone DEF SettingsInv

\* Every way to make a request: a save, or a rollback.
LEMMA RequestStep ==
  ASSUME SettingsInv, UNCHANGED <<sup, gateway, pipe, boots>>,
         bridge' = Settings!Requested(bridge), file' \in Configs,
         api' \in ApiStates, api'.generation = bridge.next + 1, bridge.next <= MaxRequests,
         api'.pc = "apply" => bridge.next < MaxRequests
  PROVE  SettingsInv'
<1>1. SettingsTyped /\ RequestsFit /\ HeldFit /\ ProcessFits /\ OneReading BY DEF SettingsInv
<1>2. bridge \in BridgeStates /\ bridge.next \in Nat /\ Len(bridge.completed) = bridge.next
      /\ sup.generation \in 0..bridge.next /\ sup.report \in 0..bridge.next
  BY <1>1, SettingsParts DEF SettingsTyped, RequestsFit, HeldFit
<1>3. /\ bridge' \in BridgeStates /\ Len(bridge'.completed) = bridge'.next
      /\ bridge'.next = bridge.next + 1 /\ bridge'.requested = bridge'.next /\ bridge'.event = TRUE
      /\ bridge'.completed[bridge'.next] = "none"
      /\ \A g \in 1..bridge.next : bridge'.completed[g] = bridge.completed[g]
  BY <1>2, RequestedIs
<1>4. SettingsTyped' BY <1>1, <1>3 DEF SettingsTyped
<1>5. RequestsFit'
  BY <1>2, <1>3, NoFileIsNoConfig DEF RequestsFit
<1>6. HeldFit'
  <2>1. {sup.generation, sup.report} \subseteq 0..(bridge.next + 1) BY <1>2
  <2>2. ASSUME sup.pc # "exited", NEW g \in 1..(bridge.next + 1), Holds(g)
        PROVE  bridge'.completed[g] = "none" /\ g # bridge.next + 1
    <3>1. g \in 1..bridge.next BY <1>2, <2>2 DEF Holds
    <3> QED BY <1>1, <1>2, <1>3, <2>2, <3>1 DEF HeldFit
  <2> QED BY <1>1, <1>2, <1>3, <2>1, <2>2 DEF HeldFit, Holds
<1>7. ProcessFits' BY <1>1 DEF ProcessFits
<1>8. LastReadIsFile' BY <1>3 DEF LastReadIsFile
<1>9. OneReading'
  <2>1. Lost => Lost'
    <3> SUFFICES ASSUME NEW g \in 1..bridge.next, g # bridge.next, bridge.completed[g] = "none",
                        ~Holds(g)
                 PROVE  Lost'
      BY DEF Lost
    <3>1. g \in 1..bridge'.next /\ g # bridge'.next /\ bridge'.completed[g] = "none" /\ ~Holds(g)'
      BY <1>2, <1>3 DEF Holds
    <3> QED BY <3>1 DEF Lost
  <2> QED BY <1>1, <2>1 DEF OneReading
<1> QED BY <1>4, <1>5, <1>6, <1>7, <1>8, <1>9 DEF SettingsInv

\* The thread is done: the file stays, or there is none again.
LEMMA DoneStep ==
  ASSUME SettingsInv, UNCHANGED <<bridge, sup, gateway, pipe, boots>>,
         api' = Settings!Idle, file' \in {file, NoConfig}
  PROVE  SettingsInv'
<1>1. SettingsTyped /\ RequestsFit /\ HeldFit /\ ProcessFits /\ OneReading /\ LastReadIsFile
  BY DEF SettingsInv
<1>2. SettingsTyped' BY <1>1 DEF SettingsTyped
<1>3. RequestsFit'
  <2>1. api'.pc = "idle" BY DEF Settings!Idle
  <2> QED BY <1>1, <2>1 DEF RequestsFit, Settings!Idle
<1>4. HeldFit' BY <1>1 DEF HeldFit, Holds
<1>5. ProcessFits' BY <1>1 DEF ProcessFits
<1>6. LastReadIsFile' BY <1>1 DEF LastReadIsFile, LastRefused
<1>7. OneReading' BY <1>1 DEF OneReading, Lost, Holds
<1> QED BY <1>2, <1>3, <1>4, <1>5, <1>6, <1>7 DEF SettingsInv

\* A save.
LEMMA ApplyStep ==
  ASSUME SettingsInv, NEW c \in Configs, Settings!Apply(c)
  PROVE  SettingsInv'
<1>1. SettingsTyped BY DEF SettingsInv
<1>2. bridge.next \in Nat /\ file \in Configs \cup {NoConfig} BY <1>1, SettingsParts
<1>3. /\ bridge' = Settings!Requested(bridge) /\ file' = c
      /\ UNCHANGED <<sup, gateway, pipe, boots>> /\ bridge.next < MaxRequests
      /\ api' = [pc |-> "apply", before |-> file, generation |-> bridge.next + 1]
  BY DEF Settings!Apply
<1>4. api' \in ApiStates /\ api'.generation = bridge.next + 1
  BY <1>2, <1>3 DEF ApiStates
<1>5. bridge.next <= MaxRequests BY <1>2, <1>3, NoFileIsNoConfig
<1> QED BY <1>3, <1>4, <1>5, RequestStep

\* A rollback, or the end of it where there is nothing to go back to.
LEMMA RollBackStep ==
  ASSUME SettingsInv, api.pc = "apply", Settings!RollBack, UNCHANGED <<sup, gateway, pipe, boots>>
  PROVE  SettingsInv'
<1>1. SettingsTyped /\ RequestsFit BY DEF SettingsInv
<1>2. bridge.next \in Nat /\ api.before \in Configs \cup {NoConfig} /\ bridge.next <= MaxRequests
  BY <1>1, SettingsParts, ApiParts DEF RequestsFit
<1>3. CASE api.before = NoConfig
  BY <1>3, DoneStep DEF Settings!RollBack
<1>4. CASE api.before # NoConfig
  <2>1. /\ bridge' = Settings!Requested(bridge) /\ file' \in Configs
        /\ api' = [pc |-> "rollback", before |-> api.before, generation |-> bridge.next + 1]
    BY <1>2, <1>4 DEF Settings!RollBack
  <2>2. api' \in ApiStates /\ api'.generation = bridge.next + 1 /\ api'.pc = "rollback"
    BY <1>2, <2>1 DEF ApiStates
  <2> QED BY <1>2, <2>1, <2>2, RequestStep
<1> QED BY <1>3, <1>4

\* The thread hears of its request, or stops waiting for it.
LEMMA AnsweredStep ==
  ASSUME SettingsInv, Settings!ApiAnswered \/ Settings!ApiTimeout
  PROVE  SettingsInv'
<1>1. CASE api.pc = "apply" /\ Settings!RollBack /\ UNCHANGED <<sup, gateway, pipe, boots>>
  BY <1>1, RollBackStep
<1>2. CASE api' = Settings!Idle /\ UNCHANGED <<file, bridge, sup, gateway, pipe, boots>>
  BY <1>2, DoneStep
<1> QED BY <1>1, <1>2 DEF Settings!ApiAnswered, Settings!ApiTimeout

\* Without a gateway nothing is read.
LEMMA NobodyReads ==
  ASSUME gateway' = Settings!NoGateway
  PROVE  LastReadIsFile' /\ OneReading'
BY DEF LastReadIsFile, OneReading, Settings!NoGateway

\* There is none until the supervisor starts one.
LEMMA NoneYet ==
  ASSUME NoConfig \notin Configs
  PROVE  Settings!NoGateway \in GatewayStates
BY DEF Settings!NoGateway, GatewayStates

\* The supervisor waits for a first configuration, takes the request that brings it, or
\* after a crash the one that brings the old one back.
LEMMA WaitsStep ==
  ASSUME SettingsInv,
         Settings!FindsNoConfig \/ Settings!AwaitFirstRequest \/ Settings!TakeRollback
  PROVE  SettingsInv'
<1>1. SettingsTyped /\ RequestsFit /\ HeldFit /\ ProcessFits BY DEF SettingsInv
<1>2. /\ bridge \in BridgeStates /\ sup \in SupStates /\ bridge.next \in Nat
      /\ sup.pc \in {"boot", "await_first", "await_rollback"}
      /\ UNCHANGED <<file, api, gateway, pipe, boots>>
  BY <1>1, SettingsParts DEF SettingsTyped, Settings!FindsNoConfig, Settings!AwaitFirstRequest,
     Settings!TakeRollback
<1>3. gateway' = Settings!NoGateway BY <1>1, <1>2 DEF ProcessFits
<1>4. CASE UNCHANGED bridge /\ sup' = [sup EXCEPT !.pc = sup'.pc]
           /\ sup'.pc \in {"await_first", "exited"}
  <2>1. sup'.generation = sup.generation /\ sup'.report = sup.report /\ sup' \in SupStates
    BY <1>2, <1>4 DEF SupStates
  <2>2. SettingsTyped' BY <1>1, <1>2, <1>4, <2>1 DEF SettingsTyped
  <2>3. RequestsFit' BY <1>1, <1>2, <1>4 DEF RequestsFit
  <2>4. HeldFit' BY <1>1, <1>2, <1>4, <2>1 DEF HeldFit, Holds
  <2>5. ProcessFits' BY <1>3, <1>4 DEF ProcessFits, Settings!NoGateway
  <2> QED BY <1>3, <2>2, <2>3, <2>4, <2>5, NobodyReads DEF SettingsInv
<1>5. CASE /\ bridge.event /\ bridge' = Settings!Taken(bridge)
           /\ sup'.pc = "boot" /\ sup'.generation = 0 /\ sup'.report = bridge.requested
           /\ sup' \in SupStates
  <2>1. /\ bridge' \in BridgeStates /\ bridge'.completed = bridge.completed
        /\ bridge'.next = bridge.next /\ bridge'.requested = bridge.requested
        /\ bridge'.event = FALSE
    BY <1>2, <1>5, TakenIs
  <2>2. SettingsTyped' BY <1>1, <1>2, <1>5, <2>1 DEF SettingsTyped
  <2>3. RequestsFit' BY <1>1, <1>2, <2>1 DEF RequestsFit
  <2>4. HeldFit'
    <3>1. bridge.next > 0 /\ bridge.completed[bridge.next] = "none"
      BY <1>1, <1>2, <1>5 DEF HeldFit
    <3> QED BY <1>1, <1>2, <1>5, <2>1, <3>1 DEF HeldFit, Holds, RequestsFit
  <2>5. ProcessFits' BY <1>3, <1>5 DEF ProcessFits, Settings!NoGateway
  <2> QED BY <1>3, <2>2, <2>3, <2>4, <2>5, NobodyReads DEF SettingsInv
<1>6. ASSUME Settings!FindsNoConfig
      PROVE  UNCHANGED bridge /\ sup' = [sup EXCEPT !.pc = sup'.pc]
             /\ sup'.pc \in {"await_first", "exited"}
  BY <1>2, <1>6 DEF Settings!FindsNoConfig, SupStates
<1>7. ASSUME Settings!TakeRollback, ~bridge.event
      PROVE  UNCHANGED bridge /\ sup' = [sup EXCEPT !.pc = sup'.pc]
             /\ sup'.pc \in {"await_first", "exited"}
  BY <1>2, <1>7 DEF Settings!TakeRollback, Settings!Dies, SupStates
<1>8. ASSUME Settings!AwaitFirstRequest \/ (Settings!TakeRollback /\ bridge.event)
      PROVE  /\ bridge.event /\ bridge' = Settings!Taken(bridge)
             /\ sup'.pc = "boot" /\ sup'.generation = 0 /\ sup'.report = bridge.requested
             /\ sup' \in SupStates
  <2>1. bridge.requested \in Nat BY <1>2 DEF BridgeStates
  <2>2. sup.generation = 0 BY <1>1, <1>2 DEF HeldFit
  <2>3. CASE Settings!AwaitFirstRequest
    BY <1>2, <2>1, <2>2, <2>3 DEF Settings!AwaitFirstRequest, SupStates
  <2>4. CASE Settings!TakeRollback /\ bridge.event
    <3>1. /\ sup' = [pc |-> "boot", generation |-> 0, report |-> bridge.requested]
          /\ bridge' = Settings!Taken(bridge)
      BY <2>4 DEF Settings!TakeRollback
    <3> QED BY <2>1, <2>4, <3>1 DEF SupStates
  <2> QED BY <1>8, <2>3, <2>4
<1> QED BY <1>4, <1>5, <1>6, <1>7, <1>8

\* The supervisor starts a gateway.
LEMMA StartStep ==
  ASSUME SettingsInv, Settings!Spawn
  PROVE  SettingsInv'
<1>1. SettingsTyped /\ RequestsFit /\ HeldFit /\ ProcessFits BY DEF SettingsInv
<1>2. /\ sup \in SupStates /\ sup.pc = "boot" /\ sup.generation = 0 /\ boots \in 0..MaxBoots
      /\ UNCHANGED <<file, api, bridge>> /\ pipe' = <<>> /\ boots < MaxBoots /\ boots' = boots + 1
  BY <1>1, SettingsParts DEF SettingsTyped, HeldFit, Settings!Spawn
<1>3. /\ sup' \in SupStates /\ sup'.pc = "starting" /\ sup'.generation = 0
      /\ sup'.report = sup.report
  BY <1>2 DEF SupStates, Settings!Spawn
<1>4. /\ gateway' \in GatewayStates /\ gateway'.state = "starting" /\ gateway'.usr1 = FALSE
      /\ gateway'.busy = NoConfig /\ gateway'.loaded = NoConfig
  BY DEF Settings!Spawn, Settings!NoGateway, GatewayStates
<1>5. SettingsTyped'
  <2>1. boots' \in 0..MaxBoots BY <1>2, NoFileIsNoConfig
  <2> QED BY <1>1, <1>2, <1>3, <1>4, <2>1 DEF SettingsTyped
<1>6. RequestsFit' BY <1>1, <1>2 DEF RequestsFit
<1>7. HeldFit' BY <1>1, <1>2, <1>3 DEF HeldFit, Holds
<1>8. ProcessFits' BY <1>2, <1>3, <1>4 DEF ProcessFits
<1>9. LastReadIsFile' /\ OneReading' BY <1>4 DEF LastReadIsFile, OneReading
<1> QED BY <1>5, <1>6, <1>7, <1>8, <1>9 DEF SettingsInv

\* It gives up, or reads a frame it cannot credit: the gateway is stopped.
LEMMA DiesStep ==
  ASSUME SettingsInv, UNCHANGED <<file, api, boots>>, sup' = Settings!Dies(sup),
         gateway' = Settings!NoGateway, pipe' = <<>>,
         \/ UNCHANGED bridge
         \/ bridge' = Settings!Complete(bridge, sup.report, "refused")
  PROVE  SettingsInv'
<1>1. SettingsTyped /\ RequestsFit /\ HeldFit BY DEF SettingsInv
<1>2. /\ sup \in SupStates /\ bridge \in BridgeStates /\ Len(bridge.completed) = bridge.next
      /\ sup.report \in 0..bridge.next
  BY <1>1 DEF SettingsTyped, RequestsFit, HeldFit
<1>3. /\ sup' \in SupStates /\ sup'.pc = "exited" /\ sup'.generation = sup.generation
      /\ sup'.report = sup.report
  BY <1>2 DEF SupStates, Settings!Dies
<1>4. /\ bridge' \in BridgeStates /\ Len(bridge'.completed) = bridge'.next
      /\ bridge'.next = bridge.next /\ bridge'.requested = bridge.requested
  BY <1>2, CompleteIs DEF AnswerKinds
<1>5. SettingsTyped' BY <1>1, <1>3, <1>4, NoneYet, NoFileIsNoConfig DEF SettingsTyped
<1>6. RequestsFit' BY <1>1, <1>4 DEF RequestsFit
<1>7. HeldFit' BY <1>1, <1>3, <1>4 DEF HeldFit
<1>8. ProcessFits' BY <1>3 DEF ProcessFits, Settings!NoGateway
<1> QED BY <1>5, <1>6, <1>7, <1>8, NobodyReads DEF SettingsInv

\* The gateway was not ready in time.
LEMMA BootTimeoutStep ==
  ASSUME SettingsInv, Settings!BootTimeout
  PROVE  SettingsInv'
BY DiesStep DEF Settings!BootTimeout

\* A generation the supervisor holds and answers; no other is answered, and it holds none
\* then.
LEMMA CreditIs ==
  ASSUME SettingsInv, sup.pc # "exited", NEW g \in {sup.generation, sup.report},
         NEW answer \in AnswerKinds, bridge' = Settings!Complete(bridge, g, answer),
         UNCHANGED <<file, api>>,
         sup'.generation \in {0, sup.generation}, sup'.report \in {0, sup.report},
         g # 0 => ~Holds(g)', \A h \in 1..bridge.next : Holds(h) /\ h # g => Holds(h)',
         sup' \in SupStates, sup'.pc # "ready" => sup'.generation = 0,
         sup'.pc = "ready" => sup'.report = 0
  PROVE  /\ RequestsFit' /\ HeldFit' /\ (Lost => Lost') /\ bridge' \in BridgeStates
         /\ bridge'.event = bridge.event /\ bridge'.next = bridge.next
         /\ g # 0 => bridge'.completed[g] = answer /\ g \in 1..bridge.next
<1>1. SettingsTyped /\ RequestsFit /\ HeldFit BY DEF SettingsInv
<1>2. /\ bridge \in BridgeStates /\ Len(bridge.completed) = bridge.next
      /\ g \in 0..bridge.next /\ bridge.next \in Nat
  BY <1>1, SettingsParts DEF SettingsTyped, RequestsFit, HeldFit
<1>3. /\ bridge' \in BridgeStates /\ Len(bridge'.completed) = bridge'.next
      /\ bridge'.next = bridge.next /\ bridge'.requested = bridge.requested
      /\ bridge'.event = bridge.event
      /\ g # 0 => bridge'.completed[g] = answer
      /\ \A h \in 1..bridge.next : h # g => bridge'.completed[h] = bridge.completed[h]
  BY <1>2, CompleteIs
<1>4. RequestsFit' BY <1>1, <1>3 DEF RequestsFit
<1>5. g # 0 => Holds(g) /\ g \in 1..bridge.next BY <1>2 DEF Holds
<1>6. \A h \in 1..bridge.next : Holds(h)' => Holds(h) /\ h # g
  BY DEF Holds
<1>7. HeldFit'
  <2>1. {sup'.generation, sup'.report} \subseteq 0..bridge'.next BY <1>1, <1>2, <1>3 DEF HeldFit
  <2>2. bridge'.event => bridge'.next > 0 /\ bridge'.completed[bridge'.next] = "none"
    <3> SUFFICES ASSUME bridge.event
                 PROVE  bridge.next > 0 /\ bridge'.completed[bridge.next] = "none"
      BY <1>3
    <3>1. bridge.next > 0 /\ bridge.completed[bridge.next] = "none" BY <1>1 DEF HeldFit
    <3>2. g # bridge.next BY <1>1, <1>5, <3>1 DEF HeldFit
    <3> QED BY <1>2, <1>3, <3>1, <3>2
  <2>3. \A h \in 1..bridge'.next : Holds(h)' =>
          bridge'.completed[h] = "none" /\ (bridge'.event <=> h # bridge'.next)
    BY <1>1, <1>3, <1>6 DEF HeldFit
  <2> QED BY <2>1, <2>2, <2>3 DEF HeldFit
<1>8. Lost => Lost'
  <2> SUFFICES ASSUME NEW h \in 1..bridge.next, h # bridge.next, bridge.completed[h] = "none",
                      ~Holds(h)
               PROVE  Lost'
    BY DEF Lost
  <2>1. h # g /\ ~Holds(h)' BY <1>5, <1>6, <1>2
  <2> QED BY <1>3, <2>1 DEF Lost
<1> QED BY <1>3, <1>4, <1>5, <1>7, <1>8

\* The gateway is gone: it is started again with what is to be reported, or what is held
\* is refused.
LEMMA GoneStep ==
  ASSUME SettingsInv, Settings!Restarted \/ Settings!Crashed
  PROVE  SettingsInv'
<1>1. SettingsTyped /\ RequestsFit /\ HeldFit BY DEF SettingsInv
<1>2. /\ sup.pc \in {"starting", "ready"} /\ gateway' = Settings!NoGateway /\ pipe' = <<>>
      /\ UNCHANGED <<file, api, boots>> /\ sup.generation \in Nat /\ sup.report \in Nat
      /\ bridge.next \in Nat
  BY <1>1, SettingsParts DEF Settings!Restarted, Settings!Crashed, Settings!ChildGone
<1>3. DEFINE held == Settings!Held
<1>4. /\ held \in {sup.generation, sup.report}
      /\ held # 0 <=> Holds(held)
      /\ \A g : Holds(g) => g = held
  BY <1>1, <1>2 DEF Settings!Held, Holds, HeldFit
<1>5. CASE Settings!Restarted
  <2>1. sup' = [pc |-> "boot", generation |-> 0, report |-> held] /\ UNCHANGED bridge
    BY <1>5 DEF Settings!Restarted
  <2>2. sup' \in SupStates BY <1>2, <1>4, <2>1 DEF SupStates
  <2>3. SettingsTyped' BY <1>1, <1>2, <2>1, <2>2, NoneYet, NoFileIsNoConfig DEF SettingsTyped
  <2>4. RequestsFit' BY <1>1, <1>2, <2>1 DEF RequestsFit
  <2>5. HeldFit'
    <3>1. \A g : Holds(g)' => Holds(g) BY <1>4, <2>1 DEF Holds
    <3> QED BY <1>1, <1>2, <1>4, <2>1, <3>1 DEF HeldFit
  <2>6. ProcessFits' BY <1>2, <2>1 DEF ProcessFits, Settings!NoGateway
  <2> QED BY <1>2, <2>3, <2>4, <2>5, <2>6, NobodyReads DEF SettingsInv
<1>6. CASE Settings!Crashed
  <2>1. /\ sup'.pc \in {"exited", "await_rollback"} /\ sup'.generation = 0 /\ sup'.report = 0
        /\ sup' \in SupStates /\ bridge' = Settings!Complete(bridge, held, "refused")
    BY <1>6 DEF Settings!Crashed, SupStates
  <2>2. \A g : ~Holds(g)' BY <2>1 DEF Holds
  <2>3. RequestsFit' /\ HeldFit' /\ bridge' \in BridgeStates
    BY <1>2, <1>4, <2>1, <2>2, CreditIs DEF AnswerKinds
  <2>4. SettingsTyped' BY <1>1, <1>2, <2>1, <2>3, NoneYet, NoFileIsNoConfig DEF SettingsTyped
  <2>5. ProcessFits' BY <1>2, <2>1 DEF ProcessFits, Settings!NoGateway
  <2> QED BY <1>2, <2>3, <2>4, <2>5, NobodyReads DEF SettingsInv
<1> QED BY <1>5, <1>6

\* The supervisor takes the request that waits and signals the gateway.
LEMMA TakeRequestStep ==
  ASSUME SettingsInv, Settings!TakeRequest
  PROVE  SettingsInv'
<1>1. SettingsTyped /\ RequestsFit /\ HeldFit /\ ProcessFits /\ OneReading BY DEF SettingsInv
<1>2. /\ sup \in SupStates /\ bridge \in BridgeStates /\ gateway \in GatewayStates
      /\ sup.pc = "ready" /\ bridge.event /\ UNCHANGED <<file, api, pipe, boots>>
      /\ bridge.next \in Nat /\ bridge.requested = bridge.next /\ sup.report = 0
  BY <1>1, SettingsParts DEF SettingsTyped, RequestsFit, HeldFit, Settings!TakeRequest
<1>3. /\ sup' \in SupStates /\ sup'.pc = "ready" /\ sup'.generation = bridge.next
      /\ sup'.report = 0
  BY <1>2 DEF SupStates, Settings!TakeRequest
<1>4. /\ bridge' \in BridgeStates /\ bridge'.completed = bridge.completed
      /\ bridge'.next = bridge.next /\ bridge'.requested = bridge.requested
      /\ bridge'.event = FALSE
  BY <1>2, TakenIs DEF Settings!TakeRequest
<1>5. /\ gateway' \in GatewayStates /\ gateway'.state = gateway.state
      /\ gateway'.busy = gateway.busy /\ gateway'.loaded = gateway.loaded
      /\ gateway.state = "ready" => gateway'.usr1 = TRUE
  BY <1>2 DEF Settings!TakeRequest, GatewayStates
<1>6. bridge.next > 0 /\ bridge.completed[bridge.next] = "none"
  BY <1>1, <1>2 DEF HeldFit
<1>7. SettingsTyped' BY <1>1, <1>2, <1>3, <1>4, <1>5 DEF SettingsTyped
<1>8. RequestsFit' BY <1>1, <1>2, <1>4 DEF RequestsFit
<1>9. HeldFit' BY <1>1, <1>2, <1>3, <1>4, <1>6 DEF HeldFit, Holds
<1>10. ProcessFits' BY <1>1, <1>2, <1>3, <1>5 DEF ProcessFits
<1>11. LastReadIsFile'
  BY <1>1, <1>2, <1>5 DEF LastReadIsFile, ProcessFits
<1>12. OneReading'
  <2> SUFFICES ASSUME gateway.state = "ready", ~Lost'
               PROVE  /\ gateway.busy = NoConfig /\ Settings!Results(pipe) = {}
    BY <1>2, <1>3, <1>5, <1>6 DEF OneReading
  <2>1. \A g \in 1..bridge.next : Holds(g)' <=> g = bridge.next
    BY <1>2, <1>3, <1>6 DEF Holds
  <2>2. ~Lost
    <3> SUFFICES ASSUME NEW g \in 1..bridge.next, g # bridge.next, bridge.completed[g] = "none"
                 PROVE  Lost'
      BY DEF Lost
    <3> QED BY <1>4, <2>1 DEF Lost
  <2>3. sup.generation = 0
    <3> SUFFICES ASSUME sup.generation # 0 PROVE Lost'
      OBVIOUS
    <3>1. sup.generation \in 1..bridge.next BY <1>1, <1>2 DEF HeldFit, SupStates
    <3>2. bridge.completed[sup.generation] = "none" /\ sup.generation # bridge.next
      BY <1>1, <1>2, <3>1 DEF HeldFit, Holds
    <3> QED BY <1>4, <2>1, <3>1, <3>2 DEF Lost
  <2> QED BY <1>1, <2>2, <2>3 DEF OneReading
<1> QED BY <1>7, <1>8, <1>9, <1>10, <1>11, <1>12 DEF SettingsInv

\* An answer is read and credited to the generation held.
LEMMA ResultStep ==
  ASSUME SettingsInv, sup.pc \in {"starting", "ready"}, gateway.state # "dead", pipe # <<>>,
         UNCHANGED <<file, api, boots, gateway>>, pipe' = <<>>, sup.generation # 0,
         NEW i \in Settings!Results(pipe), Settings!Results(pipe) = {i},
         bridge' = Settings!Complete(bridge, sup.generation, pipe[i]),
         NEW r \in {0, sup.report},
         sup' = [pc |-> "ready", generation |-> 0, report |-> r]
  PROVE  SettingsInv'
<1>1. SettingsTyped /\ RequestsFit /\ HeldFit /\ ProcessFits /\ OneReading /\ LastReadIsFile
  BY DEF SettingsInv
<1>2. /\ sup.pc = "ready" /\ sup.report = 0 /\ r = 0 /\ sup.generation \in 1..bridge.next
      /\ bridge.next \in Nat /\ gateway.state = "ready"
  <2>1. sup.pc = "ready" BY <1>1 DEF HeldFit
  <2>2. sup.report = 0 BY <1>1, <2>1 DEF HeldFit
  <2> QED BY <1>1, <2>1, <2>2, SettingsParts DEF HeldFit, ProcessFits
<1>3. /\ pipe \in Seq(Frames) /\ i \in 1..Len(pipe) /\ pipe[i] \in {"accepted", "refused"}
      /\ \A j \in 1..Len(pipe) : pipe[j] = "ready" \/ j = i
      /\ Len(pipe) \in 1..Len(pipe)
  <2>1. pipe \in Seq(Frames) BY <1>1, SettingsParts
  <2>2. DOMAIN pipe = 1..Len(pipe) /\ Len(pipe) \in Nat /\ Len(pipe) # 0 BY <2>1
  <2> QED BY <2>1, <2>2 DEF Settings!Results, Frames
<1>4. sup' \in SupStates BY <1>2 DEF SupStates
<1>5. \A g : ~Holds(g)' BY <1>2 DEF Holds
<1>6. /\ RequestsFit' /\ HeldFit' /\ (Lost => Lost') /\ bridge' \in BridgeStates
      /\ bridge'.event = bridge.event /\ bridge'.next = bridge.next
      /\ bridge'.completed[sup.generation] = pipe[i]
  <2>1. \A h \in 1..bridge.next : Holds(h) /\ h # sup.generation => Holds(h)'
    BY <1>2 DEF Holds
  <2> QED BY <1>2, <1>3, <1>4, <1>5, <2>1, CreditIs DEF AnswerKinds
<1>7. SettingsTyped' BY <1>1, <1>4, <1>6 DEF SettingsTyped
<1>8. ProcessFits' BY <1>2 DEF ProcessFits
<1>9. LastReadIsFile'
  <2> SUFFICES ASSUME ~bridge.event, file # NoConfig, ~gateway.usr1, gateway.busy = NoConfig,
                      gateway.loaded # file
               PROVE  bridge.next > 0 /\ bridge'.completed[bridge.next] = "refused"
    BY <1>1, <1>2, <1>6 DEF LastReadIsFile, LastRefused
  <2>1. pipe[Len(pipe)] = "refused" BY <1>1, <1>2 DEF LastReadIsFile, LastRefused
  <2>2. sup.generation = bridge.next BY <1>1, <1>2 DEF HeldFit, Holds
  <2> QED BY <1>2, <1>3, <1>6, <2>1, <2>2
<1>10. OneReading'
  BY <1>1, <1>2, <1>6, EmptyHolds DEF OneReading, Settings!Results
<1> QED BY <1>6, <1>7, <1>8, <1>9, <1>10 DEF SettingsInv

\* The gateway is heard to be ready: what is to be reported is accepted.
LEMMA ReadyStep ==
  ASSUME SettingsInv, sup.pc \in {"starting", "ready"}, gateway.state # "dead", pipe # <<>>,
         UNCHANGED <<file, api, boots, gateway>>, pipe' = <<>>,
         Settings!Results(pipe) = {},
         bridge' = Settings!Complete(bridge, sup.report, "accepted"),
         sup' = [pc |-> "ready", generation |-> sup.generation, report |-> 0]
  PROVE  SettingsInv'
<1>1. SettingsTyped /\ RequestsFit /\ HeldFit /\ ProcessFits /\ OneReading /\ LastReadIsFile
  BY DEF SettingsInv
<1>2. /\ bridge.next \in Nat /\ gateway.state = "ready" /\ sup.generation \in Nat
      /\ sup.generation \in 0..bridge.next /\ sup.report \in 0..bridge.next
  BY <1>1, SettingsParts DEF HeldFit, ProcessFits
<1>3. pipe[Len(pipe)] = "ready"
  <2>1. pipe \in Seq(Frames) BY <1>1, SettingsParts
  <2>2. DOMAIN pipe = 1..Len(pipe) /\ Len(pipe) \in 1..Len(pipe) BY <2>1
  <2> QED BY <2>2 DEF Settings!Results
<1>4. sup' \in SupStates BY <1>2 DEF SupStates
<1>5. sup.report # 0 => sup.generation = 0 BY <1>1 DEF HeldFit
<1>6. /\ RequestsFit' /\ HeldFit' /\ (Lost => Lost') /\ bridge' \in BridgeStates
      /\ bridge'.event = bridge.event /\ bridge'.next = bridge.next
  <2>1. \A h \in 1..bridge.next : Holds(h) /\ h # sup.report => Holds(h)'
    BY DEF Holds
  <2>2. \A h : h = sup.report /\ h # 0 => ~Holds(h)' BY <1>5 DEF Holds
  <2>3. /\ sup'.generation = sup.generation /\ sup'.report = 0 /\ sup'.pc = "ready"
        /\ "accepted" \in AnswerKinds
    BY DEF AnswerKinds
  <2> QED BY <1>4, <2>1, <2>2, <2>3, CreditIs
<1>7. SettingsTyped' BY <1>1, <1>4, <1>6 DEF SettingsTyped
<1>8. ProcessFits' BY <1>2 DEF ProcessFits
<1>9. LastReadIsFile'
  BY <1>1, <1>2, <1>3, <1>6 DEF LastReadIsFile, LastRefused
<1>10. OneReading'
  <2>1. Settings!Results(pipe') = {} BY DEF Settings!Results
  <2> QED BY <1>1, <1>2, <1>6, <2>1 DEF OneReading
<1> QED BY <1>6, <1>7, <1>8, <1>9, <1>10 DEF SettingsInv

\* What a read of the pipe does.
LEMMA ReadLifecycleStep ==
  ASSUME SettingsInv, Settings!ReadLifecycle
  PROVE  SettingsInv'
<1>1. /\ sup.pc \in {"starting", "ready"} /\ gateway.state # "dead" /\ pipe # <<>>
      /\ UNCHANGED <<file, api, boots>> /\ pipe' = <<>>
  BY DEF Settings!ReadLifecycle
<1>2. CASE /\ Settings!Results(pipe) # {}
           /\ \/ sup.generation = 0
              \/ \A i \in Settings!Results(pipe) : Settings!Results(pipe) # {i}
  BY <1>1, <1>2, DiesStep DEF Settings!ReadLifecycle
<1>3. ASSUME sup.generation # 0, NEW i \in Settings!Results(pipe), Settings!Results(pipe) = {i}
      PROVE  SettingsInv'
  <2>1. (CHOOSE j \in Settings!Results(pipe) : TRUE) = i BY <1>3
  <2>2. /\ bridge' = Settings!Complete(bridge, sup.generation, pipe[i]) /\ gateway' = gateway
        /\ sup' = [pc |-> "ready", generation |-> 0,
                   report |-> IF Settings!IsReady(pipe) THEN 0 ELSE sup.report]
    BY <1>3, <2>1 DEF Settings!ReadLifecycle
  <2> QED BY <1>1, <1>3, <2>2, ResultStep
<1>4. CASE Settings!Results(pipe) = {}
  <2>1. Settings!IsReady(pipe)
    <3>1. pipe \in Seq(Frames) BY SettingsParts DEF SettingsInv
    <3>2. DOMAIN pipe = 1..Len(pipe) /\ Len(pipe) \in 1..Len(pipe) BY <1>1, <3>1
    <3> QED BY <1>4, <3>2 DEF Settings!Results, Settings!IsReady
  <2>2. /\ bridge' = Settings!Complete(bridge, sup.report, "accepted") /\ gateway' = gateway
        /\ sup' = [pc |-> "ready", generation |-> sup.generation, report |-> 0]
    BY <1>4, <2>1 DEF Settings!ReadLifecycle
  <2> QED BY <1>1, <1>4, <2>2, ReadyStep
<1> QED BY <1>2, <1>3, <1>4

\* Every step of the change of settings.
LEMMA SettingsStep ==
  ASSUME SettingsInv, Settings!Next
  PROVE  SettingsInv'
<1>1. CASE \E c \in Configs : Settings!Apply(c) BY <1>1, ApplyStep
<1>2. CASE Settings!ApiAnswered \/ Settings!ApiTimeout BY <1>2, AnsweredStep
<1>3. CASE Settings!FindsNoConfig \/ Settings!AwaitFirstRequest \/ Settings!TakeRollback
  BY <1>3, WaitsStep
<1>4. CASE Settings!Spawn \/ Settings!ReadLifecycle \/ Settings!TakeRequest
  BY <1>4, StartStep, ReadLifecycleStep, TakeRequestStep
<1>5. CASE Settings!BootTimeout \/ Settings!Restarted \/ Settings!Crashed
  BY <1>5, BootTimeoutStep, GoneStep
<1>6. CASE \/ Settings!GatewayLoads \/ Settings!GatewayReady \/ Settings!GatewayReads
           \/ Settings!GatewayReloads
  BY <1>6, GatewayLoadsStep, GatewayReadyStep, GatewayReadsStep, GatewayReloadsStep
<1>7. CASE Settings!GatewayEnds("crash") \/ Settings!GatewayEnds("restart")
  BY <1>7, GatewayEndsStep
<1> QED BY <1>1, <1>2, <1>3, <1>4, <1>5, <1>6, <1>7 DEF Settings!Next

\* The rest of the services leave the settings alone.
LEMMA SettingsRest ==
  ASSUME SettingsInv, UNCHANGED settingsVars
  PROVE  SettingsInv'
<1>u. UNCHANGED <<file, api, bridge, sup, gateway, pipe, boots>> BY DEF settingsVars
<1>1. SettingsTyped' /\ RequestsFit' BY <1>u DEF SettingsInv, SettingsTyped, RequestsFit
<1>2. HeldFit' /\ ProcessFits' BY <1>u DEF SettingsInv, HeldFit, Holds, ProcessFits
<1>3. LastReadIsFile' BY <1>u DEF SettingsInv, LastReadIsFile, LastRefused
<1>4. OneReading' BY <1>u DEF SettingsInv, OneReading, Lost, Holds
<1> QED BY <1>1, <1>2, <1>3, <1>4 DEF SettingsInv

\* The invariant holds whichever part of the services runs.
THEOREM SettingsInvariant == ServiceSpec => []SettingsInv
<1>1. ServiceInit => SettingsInv BY SettingsFirst DEF ServiceInit
<1>2. ASSUME SettingsInv, [ServiceNext]_serviceVars PROVE SettingsInv'
  <2>1. CASE ServiceNext
    BY <1>2, <2>1, SettingsStep, SettingsRest DEF ServiceNext
  <2>2. CASE UNCHANGED serviceVars
    BY <1>2, <2>2, SettingsRest DEF serviceVars
  <2> QED BY <1>2, <2>1, <2>2
<1> QED BY <1>1, <1>2, PTL DEF ServiceSpec

\* It gives what the settings promise.
LEMMA SettingsPromises ==
  ASSUME SettingsInv
  PROVE  Settings!TypeOK /\ Settings!AnswerIsFreshUnlessLate /\ Settings!SettledMeansLoaded
<1>1. SettingsTyped /\ RequestsFit /\ HeldFit /\ ProcessFits /\ OneReading /\ LastReadIsFile
  BY DEF SettingsInv
<1>2. Settings!TypeOK
  BY <1>1, SettingsParts, NoFileIsNoConfig DEF Settings!TypeOK, RequestsFit, HeldFit
<1>3. Settings!SettledMeansLoaded
  BY <1>1, SettingsParts DEF Settings!SettledMeansLoaded, Settings!Running, LastReadIsFile,
     LastRefused
<1>4. Settings!AnswerIsFreshUnlessLate
  <2> SUFFICES ASSUME \A g \in 1..bridge.next : bridge.completed[g] = "none" =>
                        api # Settings!Idle /\ g = api.generation,
                      api # Settings!Idle, bridge.completed[api.generation] = "accepted",
                      sup.pc = "ready", gateway.state = "ready"
               PROVE  gateway.loaded = file
    BY DEF Settings!AnswerIsFreshUnlessLate, Settings!AnswerIsFresh, Settings!Answer,
       Settings!Running
  <2>1. api.generation = bridge.next /\ bridge.next > 0 /\ file # NoConfig /\ bridge.next \in Nat
    BY <1>1, SettingsParts DEF RequestsFit
  <2>2. \A g \in 1..bridge.next : bridge.completed[g] # "none" BY <2>1
  <2>3. ~Lost BY <2>2 DEF Lost
  <2>4. ~bridge.event BY <1>1, <2>1, <2>2 DEF HeldFit
  <2>5. sup.generation = 0 BY <1>1, <2>1, <2>2, SettingsParts DEF HeldFit, Holds
  <2>6. /\ ~gateway.usr1 /\ gateway.busy = NoConfig /\ Settings!Results(pipe) = {}
    BY <1>1, <2>3, <2>5 DEF OneReading
  <2>7. ~LastRefused
    <3>1. pipe \in Seq(Frames) BY <1>1, SettingsParts
    <3>2. pipe # <<>> => Len(pipe) \in DOMAIN pipe BY <3>1
    <3> QED BY <2>1, <2>6, <3>2 DEF LastRefused, Settings!Results
  <2> QED BY <1>1, <2>1, <2>4, <2>6, <2>7 DEF LastReadIsFile
<1> QED BY <1>2, <1>3, <1>4

\* For any configurations and any number of requests and boots: an accepted answer means
\* that the gateway runs with the file as it was when the request was made, unless an
\* earlier request was given up, and once all is settled the gateway runs with the
\* published file (ReloadsAreHonest; settings_api.py, supervisor.py, main.py).
THEOREM ReloadsStayHonest == ServiceSpec => []ReloadsAreHonest
<1>1. SettingsInv => ReloadsAreHonest BY SettingsPromises DEF ReloadsAreHonest
<1> QED BY <1>1, SettingsInvariant, PTL

(***************************************************************************)
(* The deployment, for any number of commits and any promotions.           *)
(*                                                                         *)
(* Link and record agree whenever a run has passed its first check, but    *)
(* between the switch and the record or the way back (LinkFits); a run     *)
(* that ends there is cut.                                                 *)
(***************************************************************************)
DeployCommits == Deploy!Commits
Releases == {"none", "broken", "source", "ready"}
Steps == {"idle", "stage", "checkout", "venv", "decide", "drain", "switch", "restart", "health",
          "record", "undo", "undo restart", "undo health", "cancel"}

OpStates == [at : Steps, new : 0..LastCommit, old : 0..LastCommit]
ServiceStates == [up : BOOLEAN, code : 0..LastCommit, busy : BOOLEAN]

\* The types of the host's and the remote's state.
DeployTyped ==
  /\ base \in [DeployCommits -> 0..LastCommit]
  /\ ref \in DeployCommits /\ current \in 0..LastCommit /\ record \in 0..LastCommit
  /\ release \in [DeployCommits -> Releases]
  /\ service \in ServiceStates
  /\ lease \in {"none", "ours", "stale"}
  /\ deploy \in OpStates
  /\ proven \subseteq DeployCommits /\ cut \in BOOLEAN

\* The candidate of a run exists from its fetch on; it is staged before it is decided on.
CandidateFits ==
  /\ deploy.at \notin {"idle", "stage"} => deploy.new \in DeployCommits
  /\ deploy.at = "checkout" => release[deploy.new] = "broken"
  /\ deploy.at \in {"decide", "drain", "switch"} => release[deploy.new] = "ready"

\* The link names a staged release.  A run that got past its first check has the record
\* and the link agree, but for the stretch from the switch to the record or the way back;
\* there the link names the candidate, and the record what the link named before.
LinkFits ==
  /\ current # 0 => release[current] = "ready"
  /\ deploy.at \in {"idle", "stage"} /\ ~cut => current = record
  /\ deploy.at \in {"checkout", "venv", "decide", "drain", "switch", "cancel", "undo restart",
                     "undo health"} => current = record
  /\ deploy.at \in {"restart", "health", "record", "undo"} => current = deploy.new
  /\ deploy.at \in {"drain", "switch", "cancel", "restart", "health", "record", "undo"} =>
       deploy.old = record /\ record # 0 /\ release[record] = "ready"

\* The record follows the promotions and the health checks.
RecordFits ==
  /\ record # 0 => record \in proven
  /\ deploy.at = "record" => deploy.new \in proven
  /\ deploy.at \in {"drain", "switch", "restart", "health", "record"} =>
       base[deploy.new] = record

\* A drained service stays idle while the lease of the run lasts.
QuietFits == lease = "ours" /\ deploy.at \in {"switch", "restart", "cancel"} => ~service.busy

DeployInv == DeployTyped /\ CandidateFits /\ LinkFits /\ RecordFits /\ QuietFits

\* What a step of a run does to its state.
LEMMA GotoIs ==
  ASSUME NEW s \in Steps, deploy \in OpStates, Deploy!Goto(s)
  PROVE  deploy' \in OpStates /\ deploy'.at = s /\ deploy'.new = deploy.new
  /\ deploy'.old = deploy.old
BY DEF Deploy!Goto, OpStates

\* The end of a run.
LEMMA EndIs ==
  ASSUME NEW status, Deploy!End(status)
  PROVE  deploy' \in OpStates /\ deploy'.at = "idle" /\ deploy'.new = 0 /\ deploy'.old = 0
BY CommitsAreNumbered DEF Deploy!End, OpStates, Deploy!NoOp, Steps

\* The parts of the state of a run.
LEMMA OpIs ==
  ASSUME deploy \in OpStates
  PROVE  deploy.at \in Steps /\ deploy.new \in 0..LastCommit /\ deploy.old \in 0..LastCommit
BY DEF OpStates

\* A service that was just started, or is down, runs no turn.
LEMMA ServiceIs ==
  ASSUME NEW c \in 0..LastCommit
  PROVE  /\ Deploy!Running(c) \in ServiceStates /\ Deploy!Running(c).busy = FALSE
         /\ Deploy!Down \in ServiceStates /\ Deploy!Down.busy = FALSE
BY CommitsAreNumbered DEF Deploy!Running, Deploy!Down, ServiceStates

\* A first state is one of a host that is bootstrapped with release 1, or not yet.
LEMMA DeployFirst ==
  ASSUME Deploy!DeployInit
  PROVE  DeployInv
<1>1. 1 \in DeployCommits BY CommitsAreNumbered DEF DeployCommits, Deploy!Commits
<1>2. DeployTyped
  <2>1. current \in 0..LastCommit BY <1>1 DEF Deploy!DeployInit, DeployCommits, Deploy!Commits
  <2>2. deploy \in OpStates
    BY CommitsAreNumbered DEF Deploy!DeployInit, OpStates, Deploy!NoOp, Steps
  <2> QED
    BY <1>1, <2>1, <2>2, ServiceIs DEF Deploy!DeployInit, DeployTyped, DeployCommits,
       Deploy!Commits, Releases
<1>3. CandidateFits /\ LinkFits /\ RecordFits /\ QuietFits
  BY <1>1 DEF Deploy!DeployInit, CandidateFits, LinkFits, RecordFits, QuietFits, DeployCommits,
     Deploy!Commits, Deploy!NoOp, Deploy!Running
<1> QED BY <1>2, <1>3 DEF DeployInv

\* The remote, the service, its turns and the watchdog of a lease.
LEMMA WorldStep ==
  ASSUME DeployInv,
         \/ Deploy!Promoted
            /\ UNCHANGED <<base, release, current, record, service, lease, deploy, report, proven,
                           cut>>
         \/ Deploy!TurnStarts
            /\ UNCHANGED <<base, ref, release, current, record, lease, deploy, report, proven, cut>>
         \/ Deploy!TurnEnds
            /\ UNCHANGED <<base, ref, release, current, record, lease, deploy, report, proven, cut>>
         \/ Deploy!ServiceStarts
            /\ UNCHANGED <<base, ref, release, current, record, lease, deploy, report, proven, cut>>
         \/ Deploy!LeaseExpires
            /\ UNCHANGED <<base, ref, release, current, record, service, deploy, report, proven,
                           cut>>
         \/ Deploy!ServiceDies
            /\ UNCHANGED <<base, ref, release, current, record, deploy, report, proven, cut>>
         \/ Deploy!Bootstrap /\ UNCHANGED <<base, ref, release, deploy, report, cut>>
  PROVE  DeployInv'
<1>1. CASE Deploy!Promoted
           /\ UNCHANGED <<base, release, current, record, service, lease, deploy, report, proven,
                          cut>>
  <2>0. deploy' = deploy
    BY <1>1
  <2>1. DeployTyped'
    BY <1>1, <2>0, OpIs, CommitsAreNumbered DEF DeployInv, DeployTyped, CandidateFits, Releases,
       DeployCommits, Deploy!Commits, Deploy!Promoted
  <2>2. CandidateFits'
    BY <1>1, <2>0, OpIs DEF DeployInv, DeployTyped, CandidateFits, Steps, Releases, DeployCommits,
       Deploy!Commits, Deploy!Promoted
  <2>3. LinkFits'
    BY <1>1, <2>0, OpIs DEF DeployInv, DeployTyped, CandidateFits, LinkFits, Steps, Releases,
       DeployCommits, Deploy!Commits, Deploy!Promoted
  <2>4. RecordFits'
    BY <1>1, <2>0, OpIs DEF DeployInv, DeployTyped, CandidateFits, LinkFits, RecordFits, Steps,
       DeployCommits, Deploy!Commits, Deploy!Promoted
  <2>5. QuietFits'
    BY <1>1, <2>0, OpIs DEF DeployInv, DeployTyped, QuietFits, Steps, Deploy!Promoted
  <2> QED BY <2>1, <2>2, <2>3, <2>4, <2>5 DEF DeployInv
<1>2. CASE Deploy!TurnStarts
           /\ UNCHANGED <<base, ref, release, current, record, lease, deploy, report, proven, cut>>
  <2>0. deploy' = deploy
    BY <1>2
  <2>s. service' \in ServiceStates
    BY <1>2, ServiceIs, CommitsAreNumbered DEF DeployInv, DeployTyped, DeployCommits,
       Deploy!Commits, ServiceStates, Deploy!TurnStarts
  <2>1. DeployTyped'
    BY <1>2, <2>0, OpIs, <2>s, CommitsAreNumbered DEF DeployInv, DeployTyped, CandidateFits,
       Releases, DeployCommits, Deploy!Commits, Deploy!TurnStarts
  <2>2. CandidateFits'
    BY <1>2, <2>0, OpIs DEF DeployInv, CandidateFits, Deploy!TurnStarts
  <2>3. LinkFits'
    BY <1>2, <2>0, OpIs DEF DeployInv, DeployTyped, CandidateFits, LinkFits, Steps, Releases,
       DeployCommits, Deploy!Commits, Deploy!TurnStarts
  <2>4. RecordFits'
    BY <1>2, <2>0, OpIs DEF DeployInv, DeployTyped, CandidateFits, LinkFits, RecordFits, Steps,
       DeployCommits, Deploy!Commits, Deploy!TurnStarts
  <2>5. QuietFits'
    BY <1>2, <2>0, OpIs, ServiceIs DEF DeployInv, DeployTyped, QuietFits, Steps, DeployCommits,
       Deploy!Commits, ServiceStates, Deploy!TurnStarts
  <2> QED BY <2>1, <2>2, <2>3, <2>4, <2>5 DEF DeployInv
<1>3. CASE Deploy!TurnEnds
           /\ UNCHANGED <<base, ref, release, current, record, lease, deploy, report, proven, cut>>
  <2>0. deploy' = deploy
    BY <1>3
  <2>s. service' \in ServiceStates
    BY <1>3, ServiceIs, CommitsAreNumbered DEF DeployInv, DeployTyped, DeployCommits,
       Deploy!Commits, ServiceStates, Deploy!TurnEnds
  <2>1. DeployTyped'
    BY <1>3, <2>0, OpIs, <2>s, CommitsAreNumbered DEF DeployInv, DeployTyped, CandidateFits,
       Releases, DeployCommits, Deploy!Commits, Deploy!TurnEnds
  <2>2. CandidateFits'
    BY <1>3, <2>0, OpIs DEF DeployInv, CandidateFits, Deploy!TurnEnds
  <2>3. LinkFits'
    BY <1>3, <2>0, OpIs DEF DeployInv, DeployTyped, CandidateFits, LinkFits, Steps, Releases,
       DeployCommits, Deploy!Commits, Deploy!TurnEnds
  <2>4. RecordFits'
    BY <1>3, <2>0, OpIs DEF DeployInv, DeployTyped, CandidateFits, LinkFits, RecordFits, Steps,
       DeployCommits, Deploy!Commits, Deploy!TurnEnds
  <2>5. QuietFits'
    BY <1>3, <2>0, OpIs, ServiceIs DEF DeployInv, DeployTyped, QuietFits, Steps, DeployCommits,
       Deploy!Commits, ServiceStates, Deploy!TurnEnds
  <2> QED BY <2>1, <2>2, <2>3, <2>4, <2>5 DEF DeployInv
<1>4. CASE Deploy!ServiceStarts
           /\ UNCHANGED <<base, ref, release, current, record, lease, deploy, report, proven, cut>>
  <2>0. deploy' = deploy
    BY <1>4
  <2>s. service' \in ServiceStates
    BY <1>4, ServiceIs, CommitsAreNumbered DEF DeployInv, DeployTyped, DeployCommits,
       Deploy!Commits, Deploy!ServiceStarts
  <2>1. DeployTyped'
    BY <1>4, <2>0, OpIs, <2>s, CommitsAreNumbered DEF DeployInv, DeployTyped, CandidateFits,
       Releases, DeployCommits, Deploy!Commits, Deploy!ServiceStarts
  <2>2. CandidateFits'
    BY <1>4, <2>0, OpIs DEF DeployInv, CandidateFits, Deploy!ServiceStarts
  <2>3. LinkFits'
    BY <1>4, <2>0, OpIs DEF DeployInv, DeployTyped, CandidateFits, LinkFits, Steps, Releases,
       DeployCommits, Deploy!Commits, Deploy!ServiceStarts
  <2>4. RecordFits'
    BY <1>4, <2>0, OpIs DEF DeployInv, DeployTyped, CandidateFits, LinkFits, RecordFits, Steps,
       DeployCommits, Deploy!Commits, Deploy!ServiceStarts
  <2>5. QuietFits'
    BY <1>4, <2>0, OpIs, ServiceIs DEF DeployInv, DeployTyped, QuietFits, Steps, DeployCommits,
       Deploy!Commits, ServiceStates, Deploy!ServiceStarts
  <2> QED BY <2>1, <2>2, <2>3, <2>4, <2>5 DEF DeployInv
<1>5. CASE Deploy!LeaseExpires
           /\ UNCHANGED <<base, ref, release, current, record, service, deploy, report, proven,
                          cut>>
  <2>0. deploy' = deploy
    BY <1>5
  <2>1. DeployTyped'
    BY <1>5, <2>0, OpIs, CommitsAreNumbered DEF DeployInv, DeployTyped, CandidateFits, Releases,
       DeployCommits, Deploy!Commits, Deploy!LeaseExpires
  <2>2. CandidateFits'
    BY <1>5, <2>0, OpIs DEF DeployInv, CandidateFits, Deploy!LeaseExpires
  <2>3. LinkFits'
    BY <1>5, <2>0, OpIs DEF DeployInv, DeployTyped, CandidateFits, LinkFits, Steps, Releases,
       DeployCommits, Deploy!Commits, Deploy!LeaseExpires
  <2>4. RecordFits'
    BY <1>5, <2>0, OpIs DEF DeployInv, DeployTyped, CandidateFits, LinkFits, RecordFits, Steps,
       DeployCommits, Deploy!Commits, Deploy!LeaseExpires
  <2>5. QuietFits'
    BY <1>5, <2>0, OpIs DEF DeployInv, DeployTyped, QuietFits, Steps, Deploy!LeaseExpires
  <2> QED BY <2>1, <2>2, <2>3, <2>4, <2>5 DEF DeployInv
<1>6. CASE Deploy!ServiceDies
           /\ UNCHANGED <<base, ref, release, current, record, deploy, report, proven, cut>>
  <2>0. deploy' = deploy
    BY <1>6
  <2>s. service' \in ServiceStates
    BY <1>6, ServiceIs, CommitsAreNumbered DEF DeployInv, DeployTyped, DeployCommits,
       Deploy!Commits, Deploy!ServiceDies
  <2>1. DeployTyped'
    BY <1>6, <2>0, OpIs, <2>s, CommitsAreNumbered DEF DeployInv, DeployTyped, CandidateFits,
       Releases, DeployCommits, Deploy!Commits, Deploy!ServiceDies
  <2>2. CandidateFits'
    BY <1>6, <2>0, OpIs DEF DeployInv, CandidateFits, Deploy!ServiceDies
  <2>3. LinkFits'
    BY <1>6, <2>0, OpIs DEF DeployInv, DeployTyped, CandidateFits, LinkFits, Steps, Releases,
       DeployCommits, Deploy!Commits, Deploy!ServiceDies
  <2>4. RecordFits'
    BY <1>6, <2>0, OpIs DEF DeployInv, DeployTyped, CandidateFits, LinkFits, RecordFits, Steps,
       DeployCommits, Deploy!Commits, Deploy!ServiceDies
  <2>5. QuietFits'
    BY <1>6, <2>0, OpIs, ServiceIs DEF DeployInv, DeployTyped, QuietFits, Steps, DeployCommits,
       Deploy!Commits, ServiceStates, Deploy!ServiceDies
  <2> QED BY <2>1, <2>2, <2>3, <2>4, <2>5 DEF DeployInv
<1>7. CASE Deploy!Bootstrap /\ UNCHANGED <<base, ref, release, deploy, report, cut>>
  <2>0. deploy' = deploy
    BY <1>7 DEF Deploy!Bootstrap
  <2>s. service' \in ServiceStates
    <3>1. PICK c \in DeployCommits : service' = Deploy!Running(c)
      BY <1>7 DEF Deploy!Bootstrap, DeployCommits
    <3>2. c \in 0..LastCommit BY <3>1, CommitsAreNumbered DEF DeployCommits, Deploy!Commits
    <3> QED BY <3>1, <3>2, ServiceIs
  <2>1. DeployTyped'
    BY <1>7, <2>0, OpIs, <2>s, CommitsAreNumbered DEF DeployInv, DeployTyped, CandidateFits,
       Releases, DeployCommits, Deploy!Commits, Deploy!Bootstrap
  <2>2. CandidateFits'
    BY <1>7, <2>0, OpIs DEF DeployInv, CandidateFits, Deploy!Bootstrap
  <2>3. LinkFits'
    BY <1>7, <2>0, OpIs DEF DeployInv, DeployTyped, CandidateFits, LinkFits, Steps, Releases,
       DeployCommits, Deploy!Commits, Deploy!Bootstrap
  <2>4. RecordFits'
    BY <1>7, <2>0, OpIs DEF DeployInv, DeployTyped, CandidateFits, LinkFits, RecordFits, Steps,
       DeployCommits, Deploy!Commits, Deploy!Bootstrap
  <2>5. QuietFits'
    BY <1>7, <2>0, OpIs, ServiceIs DEF DeployInv, DeployTyped, QuietFits, Steps, DeployCommits,
       Deploy!Commits, ServiceStates, Deploy!Bootstrap
  <2> QED BY <2>1, <2>2, <2>3, <2>4, <2>5 DEF DeployInv
<1> QED BY <1>1, <1>2, <1>3, <1>4, <1>5, <1>6, <1>7

\* A run up to the drain.
LEMMA StageStep ==
  ASSUME DeployInv,
         \/ Deploy!Begin
            /\ UNCHANGED <<base, ref, release, current, record, service, lease, report, proven,
                           cut>>
         \/ Deploy!Fetch
            /\ UNCHANGED <<base, ref, current, record, service, lease, report, proven, cut>>
         \/ Deploy!Checkout
            /\ UNCHANGED <<base, ref, current, record, service, lease, report, proven, cut>>
         \/ Deploy!PrepareVenv
            /\ UNCHANGED <<base, ref, current, record, service, lease, report, proven, cut>>
         \/ Deploy!Unchanged
            /\ UNCHANGED <<base, ref, release, current, record, service, lease, proven, cut>>
         \/ Deploy!Shadow
            /\ UNCHANGED <<base, ref, release, current, record, service, lease, proven, cut>>
         \/ Deploy!Prepare
            /\ UNCHANGED <<base, ref, release, current, record, service, report, proven, cut>>
  PROVE  DeployInv'
<1>1. CASE Deploy!Begin
           /\ UNCHANGED <<base, ref, release, current, record, service, lease, report, proven, cut>>
  <2>0. deploy' \in OpStates /\ deploy'.at = "stage" /\ deploy'.new = deploy.new
        /\ deploy'.old = deploy.old
    BY <1>1, GotoIs DEF DeployInv, DeployTyped, Steps, Deploy!Begin, Deploy!At
  <2>1. DeployTyped'
    BY <1>1, <2>0, OpIs, CommitsAreNumbered DEF DeployInv, DeployTyped, CandidateFits, Releases,
       DeployCommits, Deploy!Commits, Deploy!Begin, Deploy!At
  <2>2. CandidateFits'
    BY <1>1, <2>0, OpIs DEF DeployInv, DeployTyped, CandidateFits, Steps, Releases, DeployCommits,
       Deploy!Commits, Deploy!Begin, Deploy!At
  <2>3. LinkFits'
    BY <1>1, <2>0, OpIs DEF DeployInv, DeployTyped, CandidateFits, LinkFits, Steps, Releases,
       DeployCommits, Deploy!Commits, Deploy!Begin, Deploy!At
  <2>4. RecordFits'
    BY <1>1, <2>0, OpIs DEF DeployInv, DeployTyped, CandidateFits, LinkFits, RecordFits, Steps,
       DeployCommits, Deploy!Commits, Deploy!Begin, Deploy!At
  <2>5. QuietFits'
    BY <1>1, <2>0, OpIs DEF DeployInv, DeployTyped, QuietFits, Steps, Deploy!Begin, Deploy!At
  <2> QED BY <2>1, <2>2, <2>3, <2>4, <2>5 DEF DeployInv
<1>2. CASE Deploy!Fetch
           /\ UNCHANGED <<base, ref, current, record, service, lease, report, proven, cut>>
  <2>0. deploy' \in OpStates /\ deploy'.new = ref /\ deploy'.at \in {"checkout", "venv"}
        /\ deploy'.old = deploy.old
    <3>1. ref \in 0..LastCommit /\ deploy \in OpStates
      BY CommitsAreNumbered DEF DeployInv, DeployTyped, DeployCommits, Deploy!Commits
    <3>2. PICK step \in {"checkout", "venv"} : deploy' = [deploy EXCEPT !.new = ref, !.at = step]
      BY <1>2 DEF Deploy!Fetch
    <3> QED BY <3>1, <3>2 DEF OpStates, Steps
  <2>1. DeployTyped'
    BY <1>2, <2>0, OpIs, CommitsAreNumbered DEF DeployInv, DeployTyped, CandidateFits, Releases,
       DeployCommits, Deploy!Commits, Deploy!Fetch, Deploy!At, Deploy!Consistent
  <2>2. CandidateFits'
    BY <1>2, <2>0, OpIs DEF DeployInv, DeployTyped, CandidateFits, Steps, Releases, DeployCommits,
       Deploy!Commits, Deploy!Fetch, Deploy!At, Deploy!Consistent
  <2>3. LinkFits'
    BY <1>2, <2>0, OpIs DEF DeployInv, DeployTyped, CandidateFits, LinkFits, Steps, Releases,
       DeployCommits, Deploy!Commits, Deploy!Fetch, Deploy!At, Deploy!Consistent
  <2>4. RecordFits'
    BY <1>2, <2>0, OpIs DEF DeployInv, DeployTyped, CandidateFits, LinkFits, RecordFits, Steps,
       DeployCommits, Deploy!Commits, Deploy!Fetch, Deploy!At, Deploy!Consistent
  <2>5. QuietFits'
    BY <1>2, <2>0, OpIs DEF DeployInv, DeployTyped, QuietFits, Steps, Deploy!Fetch, Deploy!At,
       Deploy!Consistent
  <2> QED BY <2>1, <2>2, <2>3, <2>4, <2>5 DEF DeployInv
<1>3. CASE Deploy!Checkout
           /\ UNCHANGED <<base, ref, current, record, service, lease, report, proven, cut>>
  <2>0. deploy' \in OpStates /\ deploy'.at = "venv" /\ deploy'.new = deploy.new
        /\ deploy'.old = deploy.old
    BY <1>3, GotoIs DEF DeployInv, DeployTyped, Steps, Deploy!Checkout, Deploy!At
  <2>1. DeployTyped'
    BY <1>3, <2>0, OpIs, CommitsAreNumbered DEF DeployInv, DeployTyped, CandidateFits, Releases,
       DeployCommits, Deploy!Commits, Deploy!Checkout, Deploy!At
  <2>2. CandidateFits'
    BY <1>3, <2>0, OpIs DEF DeployInv, DeployTyped, CandidateFits, Steps, Releases, DeployCommits,
       Deploy!Commits, Deploy!Checkout, Deploy!At
  <2>3. LinkFits'
    BY <1>3, <2>0, OpIs DEF DeployInv, DeployTyped, CandidateFits, LinkFits, Steps, Releases,
       DeployCommits, Deploy!Commits, Deploy!Checkout, Deploy!At
  <2>4. RecordFits'
    BY <1>3, <2>0, OpIs DEF DeployInv, DeployTyped, CandidateFits, LinkFits, RecordFits, Steps,
       DeployCommits, Deploy!Commits, Deploy!Checkout, Deploy!At
  <2>5. QuietFits'
    BY <1>3, <2>0, OpIs DEF DeployInv, DeployTyped, QuietFits, Steps, Deploy!Checkout, Deploy!At
  <2> QED BY <2>1, <2>2, <2>3, <2>4, <2>5 DEF DeployInv
<1>4. CASE Deploy!PrepareVenv
           /\ UNCHANGED <<base, ref, current, record, service, lease, report, proven, cut>>
  <2>0. deploy' \in OpStates /\ deploy'.at = "decide" /\ deploy'.new = deploy.new
        /\ deploy'.old = deploy.old
    BY <1>4, GotoIs DEF DeployInv, DeployTyped, Steps, Deploy!PrepareVenv, Deploy!At
  <2>1. DeployTyped'
    BY <1>4, <2>0, OpIs, CommitsAreNumbered DEF DeployInv, DeployTyped, CandidateFits, Releases,
       DeployCommits, Deploy!Commits, Deploy!PrepareVenv, Deploy!At
  <2>2. CandidateFits'
    BY <1>4, <2>0, OpIs DEF DeployInv, DeployTyped, CandidateFits, Steps, Releases, DeployCommits,
       Deploy!Commits, Deploy!PrepareVenv, Deploy!At
  <2>3. LinkFits'
    BY <1>4, <2>0, OpIs DEF DeployInv, DeployTyped, CandidateFits, LinkFits, Steps, Releases,
       DeployCommits, Deploy!Commits, Deploy!PrepareVenv, Deploy!At
  <2>4. RecordFits'
    BY <1>4, <2>0, OpIs DEF DeployInv, DeployTyped, CandidateFits, LinkFits, RecordFits, Steps,
       DeployCommits, Deploy!Commits, Deploy!PrepareVenv, Deploy!At
  <2>5. QuietFits'
    BY <1>4, <2>0, OpIs DEF DeployInv, DeployTyped, QuietFits, Steps, Deploy!PrepareVenv,
       Deploy!At
  <2> QED BY <2>1, <2>2, <2>3, <2>4, <2>5 DEF DeployInv
<1>5. CASE Deploy!Unchanged
           /\ UNCHANGED <<base, ref, release, current, record, service, lease, proven, cut>>
  <2>0. deploy' \in OpStates /\ deploy'.at = "idle" /\ deploy'.new = 0 /\ deploy'.old = 0
    BY <1>5, EndIs DEF Deploy!Unchanged, Deploy!At
  <2>1. DeployTyped'
    BY <1>5, <2>0, OpIs, CommitsAreNumbered DEF DeployInv, DeployTyped, CandidateFits, Releases,
       DeployCommits, Deploy!Commits, Deploy!Unchanged, Deploy!At
  <2>2. CandidateFits'
    BY <1>5, <2>0, OpIs DEF DeployInv, DeployTyped, CandidateFits, Steps, Releases, DeployCommits,
       Deploy!Commits, Deploy!Unchanged, Deploy!At
  <2>3. LinkFits'
    BY <1>5, <2>0, OpIs DEF DeployInv, DeployTyped, CandidateFits, LinkFits, Steps, Releases,
       DeployCommits, Deploy!Commits, Deploy!Unchanged, Deploy!At
  <2>4. RecordFits'
    BY <1>5, <2>0, OpIs DEF DeployInv, DeployTyped, CandidateFits, LinkFits, RecordFits, Steps,
       DeployCommits, Deploy!Commits, Deploy!Unchanged, Deploy!At
  <2>5. QuietFits'
    BY <1>5, <2>0, OpIs DEF DeployInv, DeployTyped, QuietFits, Steps, Deploy!Unchanged, Deploy!At
  <2> QED BY <2>1, <2>2, <2>3, <2>4, <2>5 DEF DeployInv
<1>6. CASE Deploy!Shadow
           /\ UNCHANGED <<base, ref, release, current, record, service, lease, proven, cut>>
  <2>0. deploy' \in OpStates /\ deploy'.at = "idle" /\ deploy'.new = 0 /\ deploy'.old = 0
    BY <1>6, EndIs DEF Deploy!Shadow, Deploy!At, Deploy!Continuous
  <2>1. DeployTyped'
    BY <1>6, <2>0, OpIs, CommitsAreNumbered DEF DeployInv, DeployTyped, CandidateFits, Releases,
       DeployCommits, Deploy!Commits, Deploy!Shadow, Deploy!At, Deploy!Continuous
  <2>2. CandidateFits'
    BY <1>6, <2>0, OpIs DEF DeployInv, DeployTyped, CandidateFits, Steps, Releases, DeployCommits,
       Deploy!Commits, Deploy!Shadow, Deploy!At, Deploy!Continuous
  <2>3. LinkFits'
    BY <1>6, <2>0, OpIs DEF DeployInv, DeployTyped, CandidateFits, LinkFits, Steps, Releases,
       DeployCommits, Deploy!Commits, Deploy!Shadow, Deploy!At, Deploy!Continuous
  <2>4. RecordFits'
    BY <1>6, <2>0, OpIs DEF DeployInv, DeployTyped, CandidateFits, LinkFits, RecordFits, Steps,
       DeployCommits, Deploy!Commits, Deploy!Shadow, Deploy!At, Deploy!Continuous
  <2>5. QuietFits'
    BY <1>6, <2>0, OpIs DEF DeployInv, DeployTyped, QuietFits, Steps, Deploy!Shadow, Deploy!At,
       Deploy!Continuous
  <2> QED BY <2>1, <2>2, <2>3, <2>4, <2>5 DEF DeployInv
<1>7. CASE Deploy!Prepare
           /\ UNCHANGED <<base, ref, release, current, record, service, report, proven, cut>>
  <2>0. deploy' \in OpStates /\ deploy'.at = "drain" /\ deploy'.new = deploy.new
        /\ deploy'.old = current
    BY <1>7 DEF DeployInv, DeployTyped, OpStates, Steps, DeployCommits, Deploy!Commits,
       Deploy!Prepare, Deploy!At, Deploy!Continuous
  <2>1. DeployTyped'
    BY <1>7, <2>0, OpIs, CommitsAreNumbered DEF DeployInv, DeployTyped, CandidateFits, Releases,
       DeployCommits, Deploy!Commits, Deploy!Prepare, Deploy!At, Deploy!Continuous
  <2>2. CandidateFits'
    BY <1>7, <2>0, OpIs DEF DeployInv, DeployTyped, CandidateFits, Steps, Releases, DeployCommits,
       Deploy!Commits, Deploy!Prepare, Deploy!At, Deploy!Continuous
  <2>3. LinkFits'
    BY <1>7, <2>0, OpIs DEF DeployInv, DeployTyped, CandidateFits, LinkFits, Steps, Releases,
       DeployCommits, Deploy!Commits, Deploy!Prepare, Deploy!At, Deploy!Continuous
  <2>4. RecordFits'
    BY <1>7, <2>0, OpIs DEF DeployInv, DeployTyped, CandidateFits, LinkFits, RecordFits, Steps,
       DeployCommits, Deploy!Commits, Deploy!Prepare, Deploy!At, Deploy!Continuous
  <2>5. QuietFits'
    BY <1>7, <2>0, OpIs DEF DeployInv, DeployTyped, QuietFits, Steps, Deploy!Prepare, Deploy!At,
       Deploy!Continuous
  <2> QED BY <2>1, <2>2, <2>3, <2>4, <2>5 DEF DeployInv
<1> QED BY <1>1, <1>2, <1>3, <1>4, <1>5, <1>6, <1>7

\* The drain, the switch, the check and the record.
LEMMA SwitchStep ==
  ASSUME DeployInv,
         \/ Deploy!Drained
            /\ UNCHANGED <<base, ref, release, current, record, service, lease, report, proven,
                           cut>>
         \/ Deploy!Switch
            /\ UNCHANGED <<base, ref, release, record, service, lease, report, proven, cut>>
         \/ Deploy!RestartNew
            /\ UNCHANGED <<base, ref, release, current, record, report, proven, cut>>
         \/ Deploy!HealthyNew
            /\ UNCHANGED <<base, ref, release, current, record, service, lease, report, cut>>
         \/ Deploy!WriteState
            /\ UNCHANGED <<base, ref, release, current, service, lease, proven, cut>>
  PROVE  DeployInv'
<1>1. CASE Deploy!Drained
           /\ UNCHANGED <<base, ref, release, current, record, service, lease, report, proven, cut>>
  <2>0. deploy' \in OpStates /\ deploy'.at = "switch" /\ deploy'.new = deploy.new
        /\ deploy'.old = deploy.old
    BY <1>1, GotoIs DEF DeployInv, DeployTyped, Steps, Deploy!Drained, Deploy!At
  <2>1. DeployTyped'
    BY <1>1, <2>0, OpIs, CommitsAreNumbered DEF DeployInv, DeployTyped, CandidateFits, Releases,
       DeployCommits, Deploy!Commits, Deploy!Drained, Deploy!At
  <2>2. CandidateFits'
    BY <1>1, <2>0, OpIs DEF DeployInv, DeployTyped, CandidateFits, Steps, Releases, DeployCommits,
       Deploy!Commits, Deploy!Drained, Deploy!At
  <2>3. LinkFits'
    BY <1>1, <2>0, OpIs DEF DeployInv, DeployTyped, CandidateFits, LinkFits, Steps, Releases,
       DeployCommits, Deploy!Commits, Deploy!Drained, Deploy!At
  <2>4. RecordFits'
    BY <1>1, <2>0, OpIs DEF DeployInv, DeployTyped, CandidateFits, LinkFits, RecordFits, Steps,
       DeployCommits, Deploy!Commits, Deploy!Drained, Deploy!At
  <2>5. QuietFits'
    BY <1>1, <2>0, OpIs DEF DeployInv, DeployTyped, QuietFits, Steps, Deploy!Drained, Deploy!At
  <2> QED BY <2>1, <2>2, <2>3, <2>4, <2>5 DEF DeployInv
<1>2. CASE Deploy!Switch
           /\ UNCHANGED <<base, ref, release, record, service, lease, report, proven, cut>>
  <2>0. deploy' \in OpStates /\ deploy'.at = "restart" /\ deploy'.new = deploy.new
        /\ deploy'.old = deploy.old
    BY <1>2, GotoIs DEF DeployInv, DeployTyped, Steps, Deploy!Switch, Deploy!At
  <2>1. DeployTyped'
    BY <1>2, <2>0, OpIs, CommitsAreNumbered DEF DeployInv, DeployTyped, CandidateFits, Releases,
       DeployCommits, Deploy!Commits, Deploy!Switch, Deploy!At
  <2>2. CandidateFits'
    BY <1>2, <2>0, OpIs DEF DeployInv, DeployTyped, CandidateFits, Steps, Releases, DeployCommits,
       Deploy!Commits, Deploy!Switch, Deploy!At
  <2>3. LinkFits'
    BY <1>2, <2>0, OpIs DEF DeployInv, DeployTyped, CandidateFits, LinkFits, Steps, Releases,
       DeployCommits, Deploy!Commits, Deploy!Switch, Deploy!At
  <2>4. RecordFits'
    BY <1>2, <2>0, OpIs DEF DeployInv, DeployTyped, CandidateFits, LinkFits, RecordFits, Steps,
       DeployCommits, Deploy!Commits, Deploy!Switch, Deploy!At
  <2>5. QuietFits'
    BY <1>2, <2>0, OpIs DEF DeployInv, DeployTyped, QuietFits, Steps, Deploy!Switch, Deploy!At
  <2> QED BY <2>1, <2>2, <2>3, <2>4, <2>5 DEF DeployInv
<1>3. CASE Deploy!RestartNew
           /\ UNCHANGED <<base, ref, release, current, record, report, proven, cut>>
  <2>0. deploy' \in OpStates /\ deploy'.at = "health" /\ deploy'.new = deploy.new
        /\ deploy'.old = deploy.old
    BY <1>3, GotoIs DEF DeployInv, DeployTyped, Steps, Deploy!RestartNew, Deploy!At,
       Deploy!Restart
  <2>s. service' \in ServiceStates
    BY <1>3, ServiceIs, CommitsAreNumbered DEF DeployInv, DeployTyped, DeployCommits,
       Deploy!Commits, Deploy!RestartNew, Deploy!At, Deploy!Restart
  <2>1. DeployTyped'
    BY <1>3, <2>0, OpIs, <2>s, CommitsAreNumbered DEF DeployInv, DeployTyped, CandidateFits,
       Releases, DeployCommits, Deploy!Commits, Deploy!RestartNew, Deploy!At, Deploy!Restart
  <2>2. CandidateFits'
    BY <1>3, <2>0, OpIs DEF DeployInv, DeployTyped, CandidateFits, Steps, Releases, DeployCommits,
       Deploy!Commits, Deploy!RestartNew, Deploy!At, Deploy!Restart
  <2>3. LinkFits'
    BY <1>3, <2>0, OpIs DEF DeployInv, DeployTyped, CandidateFits, LinkFits, Steps, Releases,
       DeployCommits, Deploy!Commits, Deploy!RestartNew, Deploy!At, Deploy!Restart
  <2>4. RecordFits'
    BY <1>3, <2>0, OpIs DEF DeployInv, DeployTyped, CandidateFits, LinkFits, RecordFits, Steps,
       DeployCommits, Deploy!Commits, Deploy!RestartNew, Deploy!At, Deploy!Restart
  <2>5. QuietFits'
    BY <1>3, <2>0, OpIs, ServiceIs DEF DeployInv, DeployTyped, QuietFits, Steps, DeployCommits,
       Deploy!Commits, ServiceStates, Deploy!RestartNew, Deploy!At, Deploy!Restart
  <2> QED BY <2>1, <2>2, <2>3, <2>4, <2>5 DEF DeployInv
<1>4. CASE Deploy!HealthyNew
           /\ UNCHANGED <<base, ref, release, current, record, service, lease, report, cut>>
  <2>0. deploy' \in OpStates /\ deploy'.at = "record" /\ deploy'.new = deploy.new
        /\ deploy'.old = deploy.old
    BY <1>4, GotoIs DEF DeployInv, DeployTyped, Steps, Deploy!HealthyNew, Deploy!At,
       Deploy!Healthy
  <2>1. DeployTyped'
    BY <1>4, <2>0, OpIs, CommitsAreNumbered DEF DeployInv, DeployTyped, CandidateFits, Releases,
       DeployCommits, Deploy!Commits, Deploy!HealthyNew, Deploy!At, Deploy!Healthy
  <2>2. CandidateFits'
    BY <1>4, <2>0, OpIs DEF DeployInv, DeployTyped, CandidateFits, Steps, Releases, DeployCommits,
       Deploy!Commits, Deploy!HealthyNew, Deploy!At, Deploy!Healthy
  <2>3. LinkFits'
    BY <1>4, <2>0, OpIs DEF DeployInv, DeployTyped, CandidateFits, LinkFits, Steps, Releases,
       DeployCommits, Deploy!Commits, Deploy!HealthyNew, Deploy!At, Deploy!Healthy
  <2>4. RecordFits'
    BY <1>4, <2>0, OpIs DEF DeployInv, DeployTyped, CandidateFits, LinkFits, RecordFits, Steps,
       DeployCommits, Deploy!Commits, Deploy!HealthyNew, Deploy!At, Deploy!Healthy
  <2>5. QuietFits'
    BY <1>4, <2>0, OpIs DEF DeployInv, DeployTyped, QuietFits, Steps, Deploy!HealthyNew,
       Deploy!At, Deploy!Healthy
  <2> QED BY <2>1, <2>2, <2>3, <2>4, <2>5 DEF DeployInv
<1>5. CASE Deploy!WriteState
           /\ UNCHANGED <<base, ref, release, current, service, lease, proven, cut>>
  <2>0. deploy' \in OpStates /\ deploy'.at = "idle" /\ deploy'.new = 0 /\ deploy'.old = 0
    BY <1>5, EndIs DEF Deploy!WriteState, Deploy!At
  <2>1. DeployTyped'
    BY <1>5, <2>0, OpIs, CommitsAreNumbered DEF DeployInv, DeployTyped, CandidateFits, Releases,
       DeployCommits, Deploy!Commits, Deploy!WriteState, Deploy!At
  <2>2. CandidateFits'
    BY <1>5, <2>0, OpIs DEF DeployInv, DeployTyped, CandidateFits, Steps, Releases, DeployCommits,
       Deploy!Commits, Deploy!WriteState, Deploy!At
  <2>3. LinkFits'
    BY <1>5, <2>0, OpIs DEF DeployInv, DeployTyped, CandidateFits, LinkFits, Steps, Releases,
       DeployCommits, Deploy!Commits, Deploy!WriteState, Deploy!At
  <2>4. RecordFits'
    BY <1>5, <2>0, OpIs DEF DeployInv, DeployTyped, CandidateFits, LinkFits, RecordFits, Steps,
       DeployCommits, Deploy!Commits, Deploy!WriteState, Deploy!At
  <2>5. QuietFits'
    BY <1>5, <2>0, OpIs DEF DeployInv, DeployTyped, QuietFits, Steps, Deploy!WriteState, Deploy!At
  <2> QED BY <2>1, <2>2, <2>3, <2>4, <2>5 DEF DeployInv
<1> QED BY <1>1, <1>2, <1>3, <1>4, <1>5

\* A run that fails, goes back or is killed.
LEMMA UndoStep ==
  ASSUME DeployInv,
         \/ Deploy!FailEarly
            /\ UNCHANGED <<base, ref, release, current, record, service, proven, cut>>
         \/ Deploy!FailDrained
            /\ UNCHANGED <<base, ref, release, current, record, service, lease, report, proven,
                           cut>>
         \/ Deploy!FailApplied
            /\ UNCHANGED <<base, ref, release, current, record, report, proven, cut>>
         \/ Deploy!SwitchBack
            /\ UNCHANGED <<base, ref, release, record, service, lease, report, proven, cut>>
         \/ Deploy!RestartOld
            /\ UNCHANGED <<base, ref, release, current, record, report, proven, cut>>
         \/ Deploy!HealthyOld
            /\ UNCHANGED <<base, ref, release, current, record, service, lease, proven, cut>>
         \/ Deploy!Cancel
            /\ UNCHANGED <<base, ref, release, current, record, service, proven, cut>>
         \/ Deploy!FailUndo /\ UNCHANGED <<base, ref, release, current, record, proven>>
         \/ Deploy!Killed /\ UNCHANGED <<base, ref, release, current, record, service, proven>>
  PROVE  DeployInv'
<1>1. CASE Deploy!FailEarly
           /\ UNCHANGED <<base, ref, release, current, record, service, proven, cut>>
  <2>0. deploy' \in OpStates /\ deploy'.at = "idle" /\ deploy'.new = 0 /\ deploy'.old = 0
    BY <1>1, EndIs DEF Deploy!FailEarly, Deploy!Early
  <2>1. DeployTyped'
    BY <1>1, <2>0, OpIs, CommitsAreNumbered DEF DeployInv, DeployTyped, CandidateFits, Releases,
       DeployCommits, Deploy!Commits, Deploy!FailEarly, Deploy!Early
  <2>2. CandidateFits'
    BY <1>1, <2>0, OpIs DEF DeployInv, DeployTyped, CandidateFits, Steps, Releases, DeployCommits,
       Deploy!Commits, Deploy!FailEarly, Deploy!Early
  <2>3. LinkFits'
    BY <1>1, <2>0, OpIs DEF DeployInv, DeployTyped, CandidateFits, LinkFits, Steps, Releases,
       DeployCommits, Deploy!Commits, Deploy!FailEarly, Deploy!Early
  <2>4. RecordFits'
    BY <1>1, <2>0, OpIs DEF DeployInv, DeployTyped, CandidateFits, LinkFits, RecordFits, Steps,
       DeployCommits, Deploy!Commits, Deploy!FailEarly, Deploy!Early
  <2>5. QuietFits'
    BY <1>1, <2>0, OpIs DEF DeployInv, DeployTyped, QuietFits, Steps, Deploy!FailEarly,
       Deploy!Early
  <2> QED BY <2>1, <2>2, <2>3, <2>4, <2>5 DEF DeployInv
<1>2. CASE Deploy!FailDrained
           /\ UNCHANGED <<base, ref, release, current, record, service, lease, report, proven, cut>>
  <2>0. deploy' \in OpStates /\ deploy'.at = "cancel" /\ deploy'.new = deploy.new
        /\ deploy'.old = deploy.old
    BY <1>2, GotoIs DEF DeployInv, DeployTyped, Steps, Deploy!FailDrained, Deploy!At
  <2>1. DeployTyped'
    BY <1>2, <2>0, OpIs, CommitsAreNumbered DEF DeployInv, DeployTyped, CandidateFits, Releases,
       DeployCommits, Deploy!Commits, Deploy!FailDrained, Deploy!At
  <2>2. CandidateFits'
    BY <1>2, <2>0, OpIs DEF DeployInv, DeployTyped, CandidateFits, Steps, Releases, DeployCommits,
       Deploy!Commits, Deploy!FailDrained, Deploy!At
  <2>3. LinkFits'
    BY <1>2, <2>0, OpIs DEF DeployInv, DeployTyped, CandidateFits, LinkFits, Steps, Releases,
       DeployCommits, Deploy!Commits, Deploy!FailDrained, Deploy!At
  <2>4. RecordFits'
    BY <1>2, <2>0, OpIs DEF DeployInv, DeployTyped, CandidateFits, LinkFits, RecordFits, Steps,
       DeployCommits, Deploy!Commits, Deploy!FailDrained, Deploy!At
  <2>5. QuietFits'
    BY <1>2, <2>0, OpIs DEF DeployInv, DeployTyped, QuietFits, Steps, Deploy!FailDrained,
       Deploy!At
  <2> QED BY <2>1, <2>2, <2>3, <2>4, <2>5 DEF DeployInv
<1>3. CASE Deploy!FailApplied
           /\ UNCHANGED <<base, ref, release, current, record, report, proven, cut>>
  <2>0. deploy' \in OpStates /\ deploy'.at = "undo" /\ deploy'.new = deploy.new
        /\ deploy'.old = deploy.old
    BY <1>3, GotoIs DEF DeployInv, DeployTyped, Steps, Deploy!FailApplied, Deploy!Applied,
       Deploy!Failed
  <2>s. service' \in ServiceStates
    BY <1>3, ServiceIs, CommitsAreNumbered DEF DeployInv, DeployTyped, DeployCommits,
       Deploy!Commits, Deploy!FailApplied, Deploy!Applied, Deploy!Failed
  <2>1. DeployTyped'
    BY <1>3, <2>0, OpIs, <2>s, CommitsAreNumbered DEF DeployInv, DeployTyped, CandidateFits,
       Releases, DeployCommits, Deploy!Commits, Deploy!FailApplied, Deploy!Applied, Deploy!Failed
  <2>2. CandidateFits'
    BY <1>3, <2>0, OpIs DEF DeployInv, DeployTyped, CandidateFits, Steps, Releases, DeployCommits,
       Deploy!Commits, Deploy!FailApplied, Deploy!Applied, Deploy!Failed
  <2>3. LinkFits'
    BY <1>3, <2>0, OpIs DEF DeployInv, DeployTyped, CandidateFits, LinkFits, Steps, Releases,
       DeployCommits, Deploy!Commits, Deploy!FailApplied, Deploy!Applied, Deploy!Failed
  <2>4. RecordFits'
    BY <1>3, <2>0, OpIs DEF DeployInv, DeployTyped, CandidateFits, LinkFits, RecordFits, Steps,
       DeployCommits, Deploy!Commits, Deploy!FailApplied, Deploy!Applied, Deploy!Failed
  <2>5. QuietFits'
    BY <1>3, <2>0, OpIs, ServiceIs DEF DeployInv, DeployTyped, QuietFits, Steps, DeployCommits,
       Deploy!Commits, ServiceStates, Deploy!FailApplied, Deploy!Applied, Deploy!Failed
  <2> QED BY <2>1, <2>2, <2>3, <2>4, <2>5 DEF DeployInv
<1>4. CASE Deploy!SwitchBack
           /\ UNCHANGED <<base, ref, release, record, service, lease, report, proven, cut>>
  <2>0. deploy' \in OpStates /\ deploy'.at = "undo restart" /\ deploy'.new = deploy.new
        /\ deploy'.old = deploy.old
    BY <1>4, GotoIs DEF DeployInv, DeployTyped, Steps, Deploy!SwitchBack, Deploy!At
  <2>1. DeployTyped'
    BY <1>4, <2>0, OpIs, CommitsAreNumbered DEF DeployInv, DeployTyped, CandidateFits, Releases,
       DeployCommits, Deploy!Commits, Deploy!SwitchBack, Deploy!At
  <2>2. CandidateFits'
    BY <1>4, <2>0, OpIs DEF DeployInv, DeployTyped, CandidateFits, Steps, Releases, DeployCommits,
       Deploy!Commits, Deploy!SwitchBack, Deploy!At
  <2>3. LinkFits'
    BY <1>4, <2>0, OpIs DEF DeployInv, DeployTyped, CandidateFits, LinkFits, Steps, Releases,
       DeployCommits, Deploy!Commits, Deploy!SwitchBack, Deploy!At
  <2>4. RecordFits'
    BY <1>4, <2>0, OpIs DEF DeployInv, DeployTyped, CandidateFits, LinkFits, RecordFits, Steps,
       DeployCommits, Deploy!Commits, Deploy!SwitchBack, Deploy!At
  <2>5. QuietFits'
    BY <1>4, <2>0, OpIs DEF DeployInv, DeployTyped, QuietFits, Steps, Deploy!SwitchBack, Deploy!At
  <2> QED BY <2>1, <2>2, <2>3, <2>4, <2>5 DEF DeployInv
<1>5. CASE Deploy!RestartOld
           /\ UNCHANGED <<base, ref, release, current, record, report, proven, cut>>
  <2>0. deploy' \in OpStates /\ deploy'.at = "undo health" /\ deploy'.new = deploy.new
        /\ deploy'.old = deploy.old
    BY <1>5, GotoIs DEF DeployInv, DeployTyped, Steps, Deploy!RestartOld, Deploy!At,
       Deploy!Restart
  <2>s. service' \in ServiceStates
    BY <1>5, ServiceIs, CommitsAreNumbered DEF DeployInv, DeployTyped, DeployCommits,
       Deploy!Commits, Deploy!RestartOld, Deploy!At, Deploy!Restart
  <2>1. DeployTyped'
    BY <1>5, <2>0, OpIs, <2>s, CommitsAreNumbered DEF DeployInv, DeployTyped, CandidateFits,
       Releases, DeployCommits, Deploy!Commits, Deploy!RestartOld, Deploy!At, Deploy!Restart
  <2>2. CandidateFits'
    BY <1>5, <2>0, OpIs DEF DeployInv, DeployTyped, CandidateFits, Steps, Releases, DeployCommits,
       Deploy!Commits, Deploy!RestartOld, Deploy!At, Deploy!Restart
  <2>3. LinkFits'
    BY <1>5, <2>0, OpIs DEF DeployInv, DeployTyped, CandidateFits, LinkFits, Steps, Releases,
       DeployCommits, Deploy!Commits, Deploy!RestartOld, Deploy!At, Deploy!Restart
  <2>4. RecordFits'
    BY <1>5, <2>0, OpIs DEF DeployInv, DeployTyped, CandidateFits, LinkFits, RecordFits, Steps,
       DeployCommits, Deploy!Commits, Deploy!RestartOld, Deploy!At, Deploy!Restart
  <2>5. QuietFits'
    BY <1>5, <2>0, OpIs, ServiceIs DEF DeployInv, DeployTyped, QuietFits, Steps, DeployCommits,
       Deploy!Commits, ServiceStates, Deploy!RestartOld, Deploy!At, Deploy!Restart
  <2> QED BY <2>1, <2>2, <2>3, <2>4, <2>5 DEF DeployInv
<1>6. CASE Deploy!HealthyOld
           /\ UNCHANGED <<base, ref, release, current, record, service, lease, proven, cut>>
  <2>0. deploy' \in OpStates /\ deploy'.at = "idle" /\ deploy'.new = 0 /\ deploy'.old = 0
    BY <1>6, EndIs DEF Deploy!HealthyOld, Deploy!At, Deploy!Healthy
  <2>1. DeployTyped'
    BY <1>6, <2>0, OpIs, CommitsAreNumbered DEF DeployInv, DeployTyped, CandidateFits, Releases,
       DeployCommits, Deploy!Commits, Deploy!HealthyOld, Deploy!At, Deploy!Healthy
  <2>2. CandidateFits'
    BY <1>6, <2>0, OpIs DEF DeployInv, DeployTyped, CandidateFits, Steps, Releases, DeployCommits,
       Deploy!Commits, Deploy!HealthyOld, Deploy!At, Deploy!Healthy
  <2>3. LinkFits'
    BY <1>6, <2>0, OpIs DEF DeployInv, DeployTyped, CandidateFits, LinkFits, Steps, Releases,
       DeployCommits, Deploy!Commits, Deploy!HealthyOld, Deploy!At, Deploy!Healthy
  <2>4. RecordFits'
    BY <1>6, <2>0, OpIs DEF DeployInv, DeployTyped, CandidateFits, LinkFits, RecordFits, Steps,
       DeployCommits, Deploy!Commits, Deploy!HealthyOld, Deploy!At, Deploy!Healthy
  <2>5. QuietFits'
    BY <1>6, <2>0, OpIs DEF DeployInv, DeployTyped, QuietFits, Steps, Deploy!HealthyOld,
       Deploy!At, Deploy!Healthy
  <2> QED BY <2>1, <2>2, <2>3, <2>4, <2>5 DEF DeployInv
<1>7. CASE Deploy!Cancel
           /\ UNCHANGED <<base, ref, release, current, record, service, proven, cut>>
  <2>0. deploy' \in OpStates /\ deploy'.at = "idle" /\ deploy'.new = 0 /\ deploy'.old = 0
    BY <1>7, EndIs DEF Deploy!Cancel, Deploy!At
  <2>1. DeployTyped'
    BY <1>7, <2>0, OpIs, CommitsAreNumbered DEF DeployInv, DeployTyped, CandidateFits, Releases,
       DeployCommits, Deploy!Commits, Deploy!Cancel, Deploy!At
  <2>2. CandidateFits'
    BY <1>7, <2>0, OpIs DEF DeployInv, DeployTyped, CandidateFits, Steps, Releases, DeployCommits,
       Deploy!Commits, Deploy!Cancel, Deploy!At
  <2>3. LinkFits'
    BY <1>7, <2>0, OpIs DEF DeployInv, DeployTyped, CandidateFits, LinkFits, Steps, Releases,
       DeployCommits, Deploy!Commits, Deploy!Cancel, Deploy!At
  <2>4. RecordFits'
    BY <1>7, <2>0, OpIs DEF DeployInv, DeployTyped, CandidateFits, LinkFits, RecordFits, Steps,
       DeployCommits, Deploy!Commits, Deploy!Cancel, Deploy!At
  <2>5. QuietFits'
    BY <1>7, <2>0, OpIs DEF DeployInv, DeployTyped, QuietFits, Steps, Deploy!Cancel, Deploy!At
  <2> QED BY <2>1, <2>2, <2>3, <2>4, <2>5 DEF DeployInv
<1>8. CASE Deploy!FailUndo /\ UNCHANGED <<base, ref, release, current, record, proven>>
  <2>0. deploy' \in OpStates /\ deploy'.at = "idle" /\ deploy'.new = 0 /\ deploy'.old = 0
    BY <1>8, EndIs DEF Deploy!FailUndo, Deploy!Undoing, Deploy!Failed, Deploy!At
  <2>s. service' \in ServiceStates
    BY <1>8, ServiceIs, CommitsAreNumbered DEF DeployInv, DeployTyped, DeployCommits,
       Deploy!Commits, Deploy!FailUndo, Deploy!Undoing, Deploy!Failed, Deploy!At
  <2>1. DeployTyped'
    BY <1>8, <2>0, OpIs, <2>s, CommitsAreNumbered DEF DeployInv, DeployTyped, CandidateFits,
       Releases, DeployCommits, Deploy!Commits, Deploy!FailUndo, Deploy!Undoing, Deploy!Failed,
       Deploy!At
  <2>2. CandidateFits'
    BY <1>8, <2>0, OpIs DEF DeployInv, DeployTyped, CandidateFits, Steps, Releases, DeployCommits,
       Deploy!Commits, Deploy!FailUndo, Deploy!Undoing, Deploy!Failed, Deploy!At
  <2>3. LinkFits'
    BY <1>8, <2>0, OpIs DEF DeployInv, DeployTyped, CandidateFits, LinkFits, Steps, Releases,
       DeployCommits, Deploy!Commits, Deploy!FailUndo, Deploy!Undoing, Deploy!Failed, Deploy!At
  <2>4. RecordFits'
    BY <1>8, <2>0, OpIs DEF DeployInv, DeployTyped, CandidateFits, LinkFits, RecordFits, Steps,
       DeployCommits, Deploy!Commits, Deploy!FailUndo, Deploy!Undoing, Deploy!Failed, Deploy!At
  <2>5. QuietFits'
    BY <1>8, <2>0, OpIs, ServiceIs DEF DeployInv, DeployTyped, QuietFits, Steps, DeployCommits,
       Deploy!Commits, ServiceStates, Deploy!FailUndo, Deploy!Undoing, Deploy!Failed, Deploy!At
  <2> QED BY <2>1, <2>2, <2>3, <2>4, <2>5 DEF DeployInv
<1>9. CASE Deploy!Killed /\ UNCHANGED <<base, ref, release, current, record, service, proven>>
  <2>0. deploy' \in OpStates /\ deploy'.at = "idle" /\ deploy'.new = 0 /\ deploy'.old = 0
    BY <1>9, EndIs DEF Deploy!Killed, Deploy!Applied
  <2>1. DeployTyped'
    BY <1>9, <2>0, OpIs, CommitsAreNumbered DEF DeployInv, DeployTyped, CandidateFits, Releases,
       DeployCommits, Deploy!Commits, Deploy!Killed, Deploy!Applied
  <2>2. CandidateFits'
    BY <1>9, <2>0, OpIs DEF DeployInv, DeployTyped, CandidateFits, Steps, Releases, DeployCommits,
       Deploy!Commits, Deploy!Killed, Deploy!Applied
  <2>3. LinkFits'
    BY <1>9, <2>0, OpIs DEF DeployInv, DeployTyped, CandidateFits, LinkFits, Steps, Releases,
       DeployCommits, Deploy!Commits, Deploy!Killed, Deploy!Applied
  <2>4. RecordFits'
    BY <1>9, <2>0, OpIs DEF DeployInv, DeployTyped, CandidateFits, LinkFits, RecordFits, Steps,
       DeployCommits, Deploy!Commits, Deploy!Killed, Deploy!Applied
  <2>5. QuietFits'
    BY <1>9, <2>0, OpIs DEF DeployInv, DeployTyped, QuietFits, Steps, Deploy!Killed,
       Deploy!Applied
  <2> QED BY <2>1, <2>2, <2>3, <2>4, <2>5 DEF DeployInv
<1> QED BY <1>1, <1>2, <1>3, <1>4, <1>5, <1>6, <1>7, <1>8, <1>9

\* Every step of the deployment.
LEMMA DeployStep ==
  ASSUME DeployInv, Deploy!DeployNext
  PROVE  DeployInv'
BY WorldStep, StageStep, SwitchStep, UndoStep DEF Deploy!DeployNext, Deploy!kept

\* The rest of the services leave the deployment alone.
LEMMA DeployRests ==
  ASSUME DeployInv, UNCHANGED deploymentVars
  PROVE  DeployInv'
<1>u. UNCHANGED <<base, ref, release, current, record, service, lease, deploy, proven, cut>>
  BY DEF deploymentVars
<1>1. DeployTyped' BY <1>u DEF DeployInv, DeployTyped, DeployCommits, Deploy!Commits
<1>2. CandidateFits' BY <1>u DEF DeployInv, CandidateFits, DeployCommits, Deploy!Commits
<1>3. LinkFits' BY <1>u DEF DeployInv, LinkFits
<1>4. RecordFits' /\ QuietFits' BY <1>u DEF DeployInv, RecordFits, QuietFits
<1> QED BY <1>1, <1>2, <1>3, <1>4 DEF DeployInv

\* The invariant holds whichever part of the services runs.
THEOREM DeployInvariant == ServiceSpec => []DeployInv
<1>1. ServiceInit => DeployInv BY DeployFirst DEF ServiceInit
<1>2. ASSUME DeployInv, [ServiceNext]_serviceVars PROVE DeployInv'
  <2>1. CASE ServiceNext
    BY <1>2, <2>1, DeployStep, DeployRests DEF ServiceNext
  <2>2. CASE UNCHANGED serviceVars
    BY <1>2, <2>2, DeployRests DEF serviceVars
  <2> QED BY <1>2, <2>1, <2>2
<1> QED BY <1>1, <1>2, PTL DEF ServiceSpec

\* What the link and the record may do in one step.
OrderlyMove ==
  /\ current' # current => release[current'] = "ready"
  /\ record' # record /\ record # 0 => base[record'] = record

\* The link moves to what is staged, and the record along the promotions.
LEMMA DeployMoves ==
  ASSUME DeployInv, Deploy!DeployNext
  PROVE  OrderlyMove
<1>1. CASE UNCHANGED <<current, record>> BY <1>1 DEF OrderlyMove
<1>2. CASE Deploy!Bootstrap
  BY <1>2 DEF Deploy!Bootstrap, OrderlyMove
<1>3. CASE Deploy!Switch /\ UNCHANGED record
  BY <1>3 DEF Deploy!Switch, Deploy!At, DeployInv, CandidateFits, OrderlyMove
<1>4. CASE Deploy!SwitchBack /\ UNCHANGED record
  BY <1>4 DEF Deploy!SwitchBack, Deploy!At, DeployInv, LinkFits, OrderlyMove
<1>5. CASE Deploy!WriteState /\ UNCHANGED current
  BY <1>5 DEF Deploy!WriteState, Deploy!At, DeployInv, RecordFits, OrderlyMove
<1> QED BY <1>1, <1>2, <1>3, <1>4, <1>5 DEF Deploy!DeployNext, Deploy!kept

\* The invariant gives the promises of the controller.
LEMMA DeployPromises ==
  ASSUME DeployInv
  PROVE  /\ Deploy!DeployTypeOK /\ Deploy!RecordIsProven
         /\ Deploy!NothingDivergesQuietly /\ Deploy!QuietWhileOurs
<1>1. Deploy!DeployTypeOK
  BY DEF Deploy!DeployTypeOK, DeployInv, DeployTyped, DeployCommits, Releases, ServiceStates,
     OpStates, Steps, Deploy!Early, Deploy!Applied, Deploy!Undoing
<1> QED
  BY <1>1 DEF DeployInv, LinkFits, RecordFits, QuietFits, Deploy!RecordIsProven,
     Deploy!NothingDivergesQuietly, Deploy!QuietWhileOurs, Deploy!At

\* For any number of deployment commits and any promotions among them: what is recorded
\* answered its health check while it was current, link and record part only in a run
\* that was cut short, nothing runs in a drained service, the link moves to staged
\* releases and the record along the chain of promotions (DeploymentsAreHonest;
\* deployment/controller.py).
THEOREM DeploymentsStayHonest == ServiceSpec => DeploymentsAreHonest
<1>1. DeployInv => (part = "deployment" =>
        /\ Deploy!DeployTypeOK /\ Deploy!RecordIsProven
        /\ Deploy!NothingDivergesQuietly /\ Deploy!QuietWhileOurs)
  BY DeployPromises
<1>2. ASSUME DeployInv, [ServiceNext]_serviceVars
      PROVE  [OrderlyMove]_deploymentVars
  BY <1>2, DeployMoves DEF ServiceNext, serviceVars
<1>3. [OrderlyMove]_deploymentVars =>
        [/\ current' # current => release[current'] = "ready"
         /\ record' # record /\ record # 0 => base[record'] = record]_Deploy!deployVars
  BY DEF OrderlyMove, deploymentVars, Deploy!deployVars
<1> QED
  BY <1>1, <1>2, <1>3, DeployInvariant, PTL DEF ServiceSpec, DeploymentsAreHonest,
     Deploy!MovesAreOrderly
=============================================================================

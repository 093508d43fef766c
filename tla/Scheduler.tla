------------------------------ MODULE Scheduler ------------------------------
(***************************************************************************)
(* Scheduled jobs (agent/scheduler.py).  The register of jobs is a file    *)
(* rewritten whole by every commit, before memory changes.  A tick starts  *)
(* a task for each due job; the task runs across awaits, during which the  *)
(* user adds and cancels jobs, and then disables a one-shot or moves a     *)
(* recurring job on.  A process that starts again reads the file and       *)
(* repairs what it missed.                                                 *)
(***************************************************************************)
EXTENDS Integers, FiniteSets

CONSTANTS JobIds,    \* job ids; an id is never used twice
          Interval,  \* of a recurring job, from its first run or on the clock
          Grace,     \* GRACE_SECONDS
          Capacity,  \* MAX_ACTIVE_JOBS
          MaxLead,   \* bound on the learned lead of a soft job
          MaxTime,   \* bound on the clock
          MaxStops,  \* bound on process deaths and failed writes
          EarlyAdds  \* whether turns run before the scheduler has loaded

VARIABLES clock,
          store,     \* schedules.json: jobs by id
          jobs,      \* _persisted_jobs and _jobs, the enabled ones of it
          host,      \* where the process is with run()
          flight,    \* tasks: the id and the job a tick read
          accepted,  \* ids the user was told are registered
          cancelled, \* ids the user was told are cancelled
          ran,       \* <<id, fire_at>> of the runs whose outcome is committed
          stops

schedVars == <<clock, store, jobs, host, flight, accepted, cancelled, ran, stops>>

NoJobs == [id \in {} |-> 0]

SchedInit ==
  /\ clock = 0 /\ store = NoJobs /\ jobs = NoJobs /\ host = "starting"
  /\ flight = {} /\ accepted = {} /\ cancelled = {} /\ ran = {} /\ stops = 0
----------------------------------------------------------------------------
Enabled(js) == {id \in DOMAIN js : js[id].on}

\* _commit_jobs: the file, then memory.
Commit(js) == store' = js /\ jobs' = js

With(js, id, job) == [i \in DOMAIN js \cup {id} |-> IF i = id THEN job ELSE js[i]]
Without(js, ids) == [i \in DOMAIN js \ ids |-> js[i]]

Recurs(job) == job.trigger \in {"interval", "cron"}

\* _advance_every: a cron job takes the next time of its calendar after the
\* moment given, an interval job keeps its phase.
AdvanceEvery(job, after) ==
  CASE job.trigger = "cron" -> (after \div Interval + 1) * Interval
    [] job.trigger = "interval" /\ after < job.fireAt -> job.fireAt + Interval
    [] OTHER -> job.fireAt + ((after - job.fireAt) \div Interval + 1) * Interval

Off(job) == [job EXCEPT !.on = FALSE]
----------------------------------------------------------------------------
(* The schedule tools, called by turns *)

Open == host # "starting" \/ EarlyAdds

AddJob ==
  /\ Open
  /\ \E id \in JobIds \ accepted, trigger \in {"once", "interval", "cron"},
        tier \in {"instant", "soft"}, fireAt \in (clock + 1)..MaxTime :
       LET job == [fireAt |-> fireAt, trigger |-> trigger, tier |-> tier, on |-> TRUE] IN
       /\ trigger = "cron" => fireAt = AdvanceEvery(job, clock)
       /\ Cardinality(Enabled(With(jobs, id, job))) <= Capacity
       /\ Commit(With(jobs, id, job))
       /\ accepted' = accepted \cup {id}
  /\ UNCHANGED <<clock, host, flight, cancelled, ran, stops>>

\* cancel_job and cancel_job_by_name: one job, or all those of a name.
CancelJobs ==
  /\ Open
  /\ \E ids \in (SUBSET DOMAIN jobs) \ {{}} :
       Commit(Without(jobs, ids)) /\ cancelled' = cancelled \cup ids
  /\ UNCHANGED <<clock, host, flight, accepted, ran, stops>>
----------------------------------------------------------------------------
(* run() *)

Recovered_DropsOld(js) ==
  [id \in {i \in Enabled(js) : Recurs(js[i]) \/ clock - js[i].fireAt <= Grace} |->
     IF js[id].fireAt <= clock /\ Recurs(js[id])
     THEN [js[id] EXCEPT !.fireAt = AdvanceEvery(js[id], clock)] ELSE js[id]]

\* load_and_recover: a missed recurring job moves on, a missed one-shot is kept
\* for the next tick within the grace period and disabled after it.
Recovered(js) ==
  [id \in DOMAIN js |->
     CASE ~js[id].on \/ js[id].fireAt > clock -> js[id]
       [] js[id].on /\ js[id].fireAt <= clock /\ Recurs(js[id]) ->
            [js[id] EXCEPT !.fireAt = AdvanceEvery(js[id], clock)]
       [] OTHER -> IF clock - js[id].fireAt <= Grace THEN js[id] ELSE Off(js[id])]

Load ==
  /\ host = "starting" /\ host' = "running"
  /\ Commit(Recovered(store))
  /\ UNCHANGED <<clock, flight, accepted, cancelled, ran, stops>>

\* compute_actual_trigger: a soft job starts its learned lead early.
Due(lead) ==
  {id \in Enabled(jobs) \ {f.id : f \in flight} :
     jobs[id].fireAt - (IF jobs[id].tier = "soft" THEN lead ELSE 0) <= clock}

Tick ==
  /\ host = "running"
  /\ \E lead \in 0..MaxLead :
       /\ Due(lead) # {}
       /\ flight' = flight \cup {[id |-> id, job |-> jobs[id]] : id \in Due(lead)}
  /\ UNCHANGED <<clock, store, jobs, host, accepted, cancelled, ran, stops>>

After_Now(job) == clock

\* The next period is later than now and than the one just run, which a soft
\* job may have run before its time.
After(job) == IF clock < job.fireAt THEN job.fireAt ELSE clock

Finished_NoMatch(f) ==
  With(jobs, f.id, IF Recurs(f.job)
                   THEN [f.job EXCEPT !.fireAt = AdvanceEvery(f.job, After(f.job))] ELSE Off(f.job))

\* The commit of a run touches the job only if it is still the one it started.
Finished(f) ==
  IF f.id \notin Enabled(jobs) \/ jobs[f.id] # f.job THEN jobs
  ELSE With(jobs, f.id, IF Recurs(f.job)
                        THEN [f.job EXCEPT !.fireAt = AdvanceEvery(f.job, After(f.job))] ELSE Off(f.job))

\* _execute_and_reschedule ends, whether the run succeeded or raised.
Finish ==
  /\ \E f \in flight :
       /\ flight' = flight \ {f}
       /\ \/ /\ Commit(Finished(f))
             /\ ran' = ran \cup {<<f.id, f.job.fireAt>>}
             /\ UNCHANGED <<host, stops>>
          \/ \* the write fails: run() raises it before it ticks again
             /\ stops < MaxStops /\ stops' = stops + 1
             /\ host' = "failing"
             /\ UNCHANGED <<store, jobs, ran>>
  /\ UNCHANGED <<clock, accepted, cancelled>>

\* The process ends with its tasks, by a shutdown or a crash, and another starts.
Restart ==
  /\ \/ host = "failing" /\ UNCHANGED stops
     \/ host = "running" /\ stops < MaxStops /\ stops' = stops + 1
  /\ host' = "starting" /\ jobs' = NoJobs /\ flight' = {}
  /\ UNCHANGED <<clock, store, accepted, cancelled, ran>>

TimePasses ==
  /\ clock < MaxTime /\ clock' = clock + 1
  /\ UNCHANGED <<store, jobs, host, flight, accepted, cancelled, ran, stops>>

SchedNext ==
  AddJob \/ CancelJobs \/ Load \/ Tick \/ Finish \/ Restart \/ TimePasses

SchedSpec == SchedInit /\ [][SchedNext]_schedVars
----------------------------------------------------------------------------
(* Properties *)

SchedTypeOK ==
  /\ clock \in 0..MaxTime /\ stops \in 0..MaxStops
  /\ host \in {"starting", "running", "failing"}
  /\ host # "starting" => jobs = store
  /\ \A f, g \in flight : f.id = g.id => f = g

\* A period of a job whose run is committed is never run again: not when the
\* job ran ahead of its time, not after a restart, not by a task that outlived
\* a change of the register (scheduler.py:690).
PeriodRunsOnce == \A f \in flight : <<f.id, f.job.fireAt>> \notin ran

\* Only a cancel takes a job out of the register, and a cancelled job never comes
\* back, whatever was in flight (docs/design/persistence-state-map.md:92, and
\* security-scan-edge-cases.md:69).
OnlyCancelRemoves == DOMAIN store = accepted \ cancelled
=============================================================================

----------------------------- MODULE Scheduler ------------------------------
(***************************************************************************)
(* MemoryEngine with its scheduler (InProcessScheduler, CronScheduler):    *)
(* APScheduler's job calls consolidate(), and every consolidate() ends     *)
(* with trigger_now().  The job runs in at most one instance; it is added  *)
(* with next_run_time=None, which APScheduler 3 takes for "paused".        *)
(***************************************************************************)
EXTENDS Mnema

CONSTANT JobRun  \* the consolidate() that the job calls, without a user_id

ASSUME SchedulerAssumption == JobRun \in Runs /\ None \in Scopes

VARIABLES
  job,      \* paused; waiting for its next run time; or due
  faulted   \* history: a call has raised or the process has died

schedulerVars == <<vars, job, faulted>>

\* Bound: one explicit call at a time, so that none keeps the job from starting.
OneExplicit == Active \subseteq {JobRun}

-----------------------------------------------------------------------------
\* trigger_now() makes the job due when consolidate() ends.  If it is the job that
\* ends, its instance is not yet released when the scheduler looks: this firing is
\* skipped, and the job waits for its interval.
Trigger(c) ==
  job' = IF runs'[c].pc # "idle" THEN job
         ELSE IF c = JobRun THEN "waiting" ELSE "due"

CallConsolidate(c, s) ==
  /\ c # JobRun /\ OneExplicit
  /\ StartRun(c, s)
  /\ Trigger(c)
  /\ UNCHANGED faulted

RunGoesOn(c) == Consolidate(c) /\ Trigger(c) /\ UNCHANGED faulted
RunRaises(c) == ConsolidateFails(c) /\ Trigger(c) /\ faulted' = TRUE

\* Mutation: the job is removed once it has fired.
FireOnce ==
  /\ job = "due" /\ ~ Running(JobRun)
  /\ StartRun(JobRun, None)
  /\ job' = "paused"
  /\ UNCHANGED faulted

Fire ==
  /\ job = "due" /\ ~ Running(JobRun)
  /\ StartRun(JobRun, None)
  /\ job' = "waiting"
  /\ UNCHANGED faulted

\* max_instances is 1, and a firing that is later than misfire_grace_time is missed.
SkipFiring ==
  /\ job = "due"
  /\ job' = "waiting"
  /\ UNCHANGED <<vars, faulted>>

\* The interval has elapsed, or the cron expression matches.
Tick ==
  /\ job = "waiting"
  /\ job' = "due"
  /\ UNCHANGED <<vars, faulted>>

\* build_engine adds the job again, to a new scheduler.
Restart == Crash /\ job' = "paused" /\ faulted' = TRUE

\* The steps the scheduler has no part in.
Aside(step) == step /\ UNCHANGED <<job, faulted>>
Call(step) == OneExplicit /\ Aside(step)

ScheduledInit == Init /\ job = "paused" /\ faulted = FALSE

ScheduledNext ==
  \/ \E t \in Turns : Aside(Remember(t))
  \/ \E c \in Runs : RunGoesOn(c) \/ RunRaises(c)
  \/ \E c \in Runs, s \in Scopes : CallConsolidate(c, s)
  \/ \E k \in Calls, u \in Users, r \in Records : Call(StartForget(k, u, r))
  \/ \E k \in Calls, u \in Users : Call(StartEvict(k, u))
  \/ \E k \in Evictors : Aside(EvictStep(k))
  \/ \E k \in Calls : CallFails(k) /\ faulted' = TRUE /\ UNCHANGED job
  \/ Fire \/ SkipFiring \/ Tick \/ Restart

ScheduledSpec == ScheduledInit /\ [][ScheduledNext]_schedulerVars

(***************************************************************************)
(* The event loop resumes every coroutine that can go on, the clock runs,  *)
(* and not every firing is late.  Nobody has to call remember, consolidate,*)
(* forget or evict.                                                        *)
(***************************************************************************)
SchedulerFairness ==
  /\ \A t \in Turns : WF_schedulerVars(Aside(Remember(t)) /\ write[t] # "new")
  /\ \A c \in Runs : WF_schedulerVars(RunGoesOn(c))
  /\ \A k \in Evictors : WF_schedulerVars(Aside(EvictStep(k)))
  /\ WF_schedulerVars(Tick)
  /\ SF_schedulerVars(Fire)

FairScheduledSpec == ScheduledSpec /\ SchedulerFairness

-----------------------------------------------------------------------------
(***************************************************************************)
(* With fairness.                                                          *)
(***************************************************************************)
Calm == [](~ faulted)

\* build_engine: "automatic consolidation is immediately active (CR-03)": every
\* staged turn is consolidated.
StagedIsProcessed == \A t \in Turns : (write[t] = "done") ~> (t \in processed)

\* If consolidate() is ever called, and nothing raises, every staged turn is
\* consolidated, whether it was staged before, during or after that call and whatever
\* the job's firings overlap with.  This is for Scopes = {None}: a consolidate() of one
\* user would drop the turns of the others (scoped_drain).
ArmedIsProcessed == Calm /\ <>(job # "paused") => StagedIsProcessed

\* If consolidate() is called in the last process, no turn stays staged: whatever has
\* raised, it is consolidated or was lost with the run or the process that had it.
QueueDrains ==
  <>[](job # "paused") =>
    \A t \in Turns : (write[t] = "done") ~> (t \in processed \/ Places(t) = {})

\* If nothing raises, every record that leaves the live table without a successor is
\* archived and audited.
EvictionCompletes ==
  Calm => \A r \in Records :
    (t1[r].status = "retired" /\ t1[r].by = None) ~> (r \in archived \cap audited)
=============================================================================

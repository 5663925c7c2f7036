---------------------------- MODULE CronScheduler ----------------------------
(***************************************************************************)
(* The process that runs the maintenance jobs: scripts/cron/scheduler.py   *)
(* with the wrapper run_cron_job of agent_obs/storage/maintenance.py.  One *)
(* loop, one job at a time.  The calendar is a small one that repeats; the *)
(* clock counts its minutes.                                               *)
(***************************************************************************)
EXTENDS Integers, Sequences, FiniteSetsExt, SequencesExt

CONSTANTS
  JobList,     \* the job names, in the order of build_jobs()
  Fields,      \* per job: the parts of the minute, hour, day and weekday fields
  Retrying,    \* jobs that retry inline (_migration_job)
  Unwrapped,   \* jobs that no run_cron_job wraps: calibration, export, golden evaluation
  Broken,      \* jobs that await what their store's close() returns
  MigrationAttempts, RetryMinutes,
  MinutesPerHour, HoursPerDay, DaysPerMonth, DaysPerWeek,
  Period,      \* minutes after which the calendar repeats
  LongestRun   \* bound: minutes a job may take

Jobs == Range(JobList)

ASSUME CronAssumption ==
  /\ JobList \in Seq(STRING) \ {<<>>}
  /\ {MigrationAttempts, MinutesPerHour, HoursPerDay, DaysPerMonth, DaysPerWeek, Period} \subseteq Nat \ {0}
  /\ {RetryMinutes, LongestRun} \subseteq Nat
  /\ \A d \in {DaysPerMonth, DaysPerWeek} : Period % (MinutesPerHour * HoursPerDay * d) = 0

VARIABLES
  clock,     \* the present minute
  cron,      \* the loop: where it stands, its job, the attempt, minutes left to wait
  stop,      \* the event that the signal handlers set
  started,   \* history: jobs that ran in the present minute; all, in the one the process began in
  missed,    \* history: jobs due in the last minute that did not start in it
  crowded,   \* history: what kept the loop busy in the last minute
  fell       \* history: the job whose exception ended the process

cronVars == <<clock, cron, stop, started, missed, crowded, fell>>

-----------------------------------------------------------------------------
(* Cron expressions.                                                        *)

\* One part of a comma list: "*" has no bounds of its own.
PartOK(p, low, high) == p.step >= 1 /\ (p.star \/ (p.from >= low /\ p.to <= high /\ p.from <= p.to))
PartValues(p, low, high) ==
  LET from == IF p.star THEN low ELSE p.from
      to == IF p.star THEN high ELSE p.to
  IN  {v \in from .. to : (v - from) % p.step = 0}

ParseField(parts, low, high) == UNION {PartValues(p, low, high) : p \in Range(parts)}

\* Both spellings of Sunday are one day.
ParseWeekday(parts) == {v % DaysPerWeek : v \in ParseField(parts, 0, DaysPerWeek)}

MinutesOf(j)  == ParseField(Fields[j].minute, 0, MinutesPerHour - 1)
HoursOf(j)    == ParseField(Fields[j].hour, 0, HoursPerDay - 1)
DaysOf(j)     == ParseField(Fields[j].day, 1, DaysPerMonth)
WeekdaysOf(j) == ParseWeekday(Fields[j].weekday)

\* validate_cron_spec, before any job is run.
ValidSpec(j) ==
  /\ \A p \in Range(Fields[j].minute) : PartOK(p, 0, MinutesPerHour - 1)
  /\ \A p \in Range(Fields[j].hour) : PartOK(p, 0, HoursPerDay - 1)
  /\ \A p \in Range(Fields[j].day) : PartOK(p, 1, DaysPerMonth)
  /\ \A p \in Range(Fields[j].weekday) : PartOK(p, 0, DaysPerWeek)

\* Two restricted day fields are alternatives.
MatchesDay(j, dom, dow) ==
  LET inDom == dom \in DaysOf(j)  inDow == dow \in WeekdaysOf(j)
  IN  IF DaysOf(j) # 1 .. DaysPerMonth /\ WeekdaysOf(j) # 0 .. DaysPerWeek - 1
      THEN inDom \/ inDow
      ELSE inDom /\ inDow

Matches(j, t) ==
  LET days == t \div (MinutesPerHour * HoursPerDay)
  IN  /\ t % MinutesPerHour \in MinutesOf(j)
      /\ (t \div MinutesPerHour) % HoursPerDay \in HoursOf(j)
      /\ MatchesDay(j, 1 + (days % DaysPerMonth), days % DaysPerWeek)

\* next_run_at: how many minutes after the present one; none within the
\* search horizon raises ValueError.
Ahead(j) == {k \in 1 .. Period : Matches(j, clock + k)}
NeverMatches == {j \in Jobs : ~ValidSpec(j) \/ Ahead(j) = {}}

\* Mutant of WaitFor: the search begins one minute too late.
WaitForLate(j) == Min(Ahead(j) \ {1})

WaitFor(j) == Min(Ahead(j))

-----------------------------------------------------------------------------
(* The loop.                                                                *)

At(pc, j, attempt, left) == [pc |-> pc, job |-> j, attempt |-> attempt, left |-> left, boot |-> cron.boot]

\* serve() with and without --no-run-on-boot.
CronInit ==
  /\ clock = 0 /\ stop = FALSE /\ started = Jobs /\ missed = {} /\ crowded = {} /\ fell = "none"
  /\ \E boot \in BOOLEAN :
       cron = [pc |-> IF boot THEN "start" ELSE "pick", job |-> JobList[1], attempt |-> 1, left |-> 0, boot |-> boot]

\* run_once on boot: the jobs one after the other, in the order of the list.
After(j) ==
  LET later == {i \in DOMAIN JobList : \E k \in DOMAIN JobList : JobList[k] = j /\ k < i}
  IN  IF cron.boot /\ later # {} THEN At("start", JobList[Min(later)], 1, 0)
      ELSE [At("pick", j, 1, 0) EXCEPT !.boot = FALSE]

Starts ==
  /\ cron.pc = "start"
  /\ cron' = At("run", cron.job, cron.attempt, LongestRun)
  /\ started' = started \cup {cron.job}
  /\ UNCHANGED <<clock, stop, missed, crowded, fell>>

\* The job that is due first; of several, the first in the list.
Soonest ==
  LET first == Min({WaitFor(j) : j \in Jobs})
      i == Min({i \in DOMAIN JobList : WaitFor(JobList[i]) = first})
  IN  At("sleep", JobList[i], 1, first)

Picks ==
  /\ cron.pc = "pick"
  /\ cron' = IF stop \/ NeverMatches # {} THEN At("down", cron.job, 1, 0) ELSE Soonest
  /\ fell' = IF ~stop /\ NeverMatches # {} THEN "schedule" ELSE fell
  /\ UNCHANGED <<clock, stop, started, missed, crowded>>

\* The wait for the stop event times out.
Fires ==
  /\ cron.pc = "sleep" /\ cron.left = 0
  /\ cron' = At("start", cron.job, 1, 0)
  /\ UNCHANGED <<clock, stop, started, missed, crowded, fell>>

StopWakes ==
  /\ cron.pc = "sleep" /\ stop
  /\ cron' = At("down", cron.job, 1, 0)
  /\ UNCHANGED <<clock, stop, started, missed, crowded, fell>>

\* run_cron_job never raises; what is not wrapped, or fails after it, does.
Escapes(j, failed) == (failed /\ j \in Unwrapped) \/ j \in Broken

\* The job ends, well or not.  A failed migration sleeps and tries again.
Finishes ==
  /\ cron.pc = "run"
  /\ \E failed \in BOOLEAN :
       IF failed /\ cron.job \in Retrying /\ cron.attempt < MigrationAttempts
       THEN cron' = At("retry", cron.job, cron.attempt + 1, RetryMinutes) /\ UNCHANGED fell
       ELSE IF Escapes(cron.job, failed)
       THEN cron' = At("down", cron.job, 1, 0) /\ fell' = cron.job
       ELSE cron' = After(cron.job) /\ UNCHANGED fell
  /\ UNCHANGED <<clock, stop, started, missed, crowded>>

Retries ==
  /\ cron.pc = "retry" /\ cron.left = 0
  /\ cron' = At("start", cron.job, cron.attempt, 0)
  /\ UNCHANGED <<clock, stop, started, missed, crowded, fell>>

\* A minute passes.  Timers fire in their minute; a job takes at most
\* LongestRun minutes.
CronTick ==
  /\ cron.pc \in {"sleep", "run", "retry"} /\ cron.left > 0
  /\ clock' = (clock + 1) % Period
  /\ cron' = [cron EXCEPT !.left = @ - 1]
  /\ missed' = {j \in Jobs : Matches(j, clock)} \ started
  /\ crowded' = started
  /\ started' = IF cron.pc = "sleep" THEN {} ELSE {cron.job}
  /\ UNCHANGED <<stop, fell>>

StopSignal == /\ ~stop /\ stop' = TRUE
              /\ UNCHANGED <<clock, cron, started, missed, crowded, fell>>

CronLoop == Starts \/ Picks \/ Fires \/ StopWakes \/ Finishes \/ Retries \/ CronTick
CronNext == CronLoop \/ StopSignal

CronSpec == CronInit /\ [][CronNext]_cronVars

-----------------------------------------------------------------------------
(* Properties.                                                              *)

CronTypeOK ==
  /\ clock \in 0 .. Period - 1 /\ {started, missed, crowded} \subseteq SUBSET Jobs
  /\ cron.pc \in {"start", "pick", "sleep", "run", "retry", "down"} /\ cron.job \in Jobs
  /\ cron.attempt \in 1 .. MigrationAttempts /\ cron.left \in 0 .. Max({Period, LongestRun, RetryMinutes})

\* A job misses a minute in which it is due only because another one ran in
\* that minute: no due minute falls between two computations of the next run.
SlotMissExplained == cron.pc # "down" /\ missed # {} => crowded # {}

\* "Never raises: a failing job must not kill the scheduler loop"
\* (maintenance.py:217): without a signal the loop ends only through the jobs
\* that nothing wraps and the one whose cleanup raises.
LoopSurvives == cron.pc = "down" => stop \/ fell \in Unwrapped \cup Broken \/ (fell = "schedule" /\ NeverMatches # {})

\* Refuted: the table gives every job its cadence (build_jobs).  A job whose
\* minutes are all minutes of an earlier job in the list never runs.
EveryJobRuns == \A j \in Jobs : []<>((cron.pc = "run" /\ cron.job = j) \/ stop \/ cron.pc = "down")

\* The loop is one task that always goes on: sleeps end, jobs end.
CronFair == WF_cronVars(CronLoop)

\* The schedule: a job misses a minute in which it is due only because another one
\* ran in that minute, and without a signal the loop ends only through the jobs that
\* nothing wraps and the one whose cleanup raises (scheduler.py serve).
ScheduleSafe == SlotMissExplained /\ LoopSurvives
=============================================================================

----------------------------- MODULE Scheduler -----------------------------
(***************************************************************************)
(* The in-process scheduler of `serve` (scheduler/scheduler.py): the daily *)
(* cron job, the periodic catch-up poll, the catch-up submitted at start   *)
(* and the manual POST /api/runs requests, which all go through            *)
(* _run_locked, and PUT /api/config, which moves the cron job.             *)
(*                                                                         *)
(* One process; RunCycle has the interplay of several.  Of the runs table  *)
(* the scheduler reads two facts: whether a row is 'running' (owners,      *)
(* orphan) and how long ago the last completed run finished (age, which    *)
(* says no more once it reaches the catch-up threshold of a day; it starts *)
(* there, because no run has completed).  Time passes in hours, and a day  *)
(* has DayLength of them.                                                  *)
(*                                                                         *)
(* APScheduler itself is external: a job runs on a pool thread, never two  *)
(* instances of one job at once, and a cron job may be missed while the    *)
(* machine sleeps.                                                         *)
(***************************************************************************)
EXTENDS Integers

CONSTANTS
  Daily, Poll, Startup,   \* the threads of the three scheduled jobs
  Clicks,                 \* threads that serve POST /api/runs
  Writers,                \* threads that serve PUT /api/config
  Free,                   \* nobody holds the lock
  DayLength,              \* hours of a day, and CATCH_UP_THRESHOLD
  MaxFaults               \* bound on cycles that fail before they start

Threads == {Daily, Poll, Startup} \cup Clicks
Hours == 0..(DayLength - 1)

ASSUME ThreadsAssumption ==
  /\ Daily # Poll /\ Daily # Startup /\ Poll # Startup
  /\ {Daily, Poll, Startup} \cap Clicks = {}
  /\ Free \notin Threads

ASSUME DayAssumption == DayLength \in Nat \ {0} /\ MaxFaults \in Nat

VARIABLES
  phase,      \* the process: "down", "up", or "stopping"
  hour,       \* hour of the day
  age,        \* hours since the last completed run, up to DayLength
  config,     \* the config row: run_hour_local, catch_up_on_startup
  cron,       \* the hour the daily job is registered for
  fireable,   \* the daily job is due and within its misfire grace
  lock,       \* the process-local lock
  owners,     \* threads whose run row is 'running'
  orphan,     \* a 'running' row whose cycle is gone
  pc,         \* where each thread stands
  put,        \* each config request: the config it read, what it saves
  faults      \* history: cycles failed before their start

clock == <<hour, age>>
table == <<owners, orphan>>
vars == <<phase, hour, age, config, cron, fireable, lock, owners, orphan, pc,
          put, faults>>

Config == [hour : Hours, catch_up : BOOLEAN]

NoPut == [at |-> "idle"]
Put == [at : {"read", "saved"}, read : Config, form : Config]

(* "due": about to call _run_locked; in InLock it holds the lock. *)
InLock == {"locked", "clear", "cycle", "release"}
Steps == {"idle", "boot", "due"} \cup InLock

TypeOK ==
  /\ phase \in {"down", "up", "stopping"}
  /\ hour \in Hours
  /\ age \in 0..DayLength
  /\ config \in Config
  /\ cron \in Hours
  /\ fireable \in BOOLEAN
  /\ lock \in Threads \cup {Free}
  /\ owners \subseteq Threads
  /\ orphan \in BOOLEAN
  /\ pc \in [Threads -> Steps]
  /\ put \in [Writers -> Put \cup {NoPut}]
  /\ faults \in Nat

Init ==
  /\ phase = "down"
  /\ hour \in Hours
  /\ age = DayLength
  /\ config \in Config
  /\ cron = config.hour
  /\ fireable = FALSE
  /\ lock = Free
  /\ owners = {}
  /\ orphan = FALSE
  /\ pc = [t \in Threads |-> "idle"]
  /\ put = [w \in Writers |-> NoPut]
  /\ faults = 0

Goto(t, from, to) == pc[t] = from /\ pc' = [pc EXCEPT ![t] = to]

Serving == phase = "up" /\ pc[Startup] # "boot"

----------------------------------------------------------------------------
(* What makes a cycle due *)

(* start: the cron job is registered for the stored hour, orphaned runs    *)
(* are reconciled, and the pool is running before catch_up_on_startup.     *)
StartScheduler ==
  /\ phase = "down"
  /\ phase' = "up"
  /\ cron' = config.hour
  /\ fireable' = FALSE
  /\ orphan' = FALSE
  /\ pc' = [pc EXCEPT ![Startup] = "boot"]
  /\ UNCHANGED <<clock, config, lock, owners, put, faults>>

_is_catch_up_due == config.catch_up /\ age = DayLength

CheckAtStartOnly(t) ==
  /\ phase = "up"
  /\ t = Startup
  /\ Goto(t, "boot", IF _is_catch_up_due THEN "due" ELSE "idle")
  /\ UNCHANGED <<phase, clock, config, cron, fireable, lock, table, put, faults>>

(* catch_up_on_startup, and _catch_up_if_due on every poll (the first one  *)
(* an interval after the start).  The check reads the database before, and *)
(* outside, the lock.                                                      *)
CatchUpCheck(t) ==
  /\ phase = "up"
  /\ \/ t = Startup /\ Goto(t, "boot", IF _is_catch_up_due THEN "due" ELSE "idle")
     \/ t = Poll /\ Serving /\ Goto(t, "idle", IF _is_catch_up_due THEN "due" ELSE "idle")
  /\ UNCHANGED <<phase, clock, config, cron, fireable, lock, table, put, faults>>

DailyFires ==
  /\ phase = "up"
  /\ fireable
  /\ fireable' = FALSE
  /\ Goto(Daily, "idle", "due")
  /\ UNCHANGED <<phase, clock, config, cron, lock, table, put, faults>>

(* POST /api/runs: trigger_now *)
Click(c) ==
  /\ Serving
  /\ Goto(c, "idle", "due")
  /\ UNCHANGED <<phase, clock, config, cron, fireable, lock, table, put, faults>>

----------------------------------------------------------------------------
(* _run_locked *)

AcquireAnyway(t) ==
  /\ Goto(t, "due", "locked")
  /\ lock' = t
  /\ UNCHANGED <<phase, clock, config, cron, fireable, table, put, faults>>

Acquire(t) ==
  /\ Goto(t, "due", "locked")
  /\ lock = Free
  /\ lock' = t
  /\ UNCHANGED <<phase, clock, config, cron, fireable, table, put, faults>>

(* The lock is not waited for: the caller is told "busy". *)
SkipBusy(t) ==
  /\ Goto(t, "due", "idle")
  /\ lock # Free
  /\ UNCHANGED <<phase, clock, config, cron, fireable, lock, table, put, faults>>

NoneRunning == owners = {} /\ ~orphan

CheckDbKeepingLock(t) ==
  /\ Goto(t, "locked", IF NoneRunning THEN "clear" ELSE "idle")
  /\ UNCHANGED <<phase, clock, config, cron, fireable, lock, table, put, faults>>

CheckDb(t) ==
  /\ Goto(t, "locked", IF NoneRunning THEN "clear" ELSE "release")
  /\ UNCHANGED <<phase, clock, config, cron, fireable, lock, table, put, faults>>

(* load_effective_config or run_cycle raises before there is a run row. *)
FailBeforeRun(t) ==
  /\ faults < MaxFaults
  /\ Goto(t, "clear", "release")
  /\ faults' = faults + 1
  /\ UNCHANGED <<phase, clock, config, cron, fireable, lock, table, put>>

StartCycle(t) ==
  /\ Goto(t, "clear", "cycle")
  /\ owners' = owners \cup {t}
  /\ UNCHANGED <<phase, clock, config, cron, fireable, lock, orphan, put, faults>>

(* run_cycle returns or re-raises with its row finalised.  Only a success  *)
(* or partial run counts as completed.                                     *)
FinishCycle(t) ==
  /\ Goto(t, "cycle", "release")
  /\ owners' = owners \ {t}
  /\ \E status \in {"success", "partial", "failed"} :
       age' = IF status = "failed" THEN age ELSE 0
  /\ UNCHANGED <<phase, hour, config, cron, fireable, lock, orphan, put, faults>>

(* run_cycle re-raises and could not finalise its row. *)
LoseRun(t) ==
  /\ Goto(t, "cycle", "release")
  /\ owners' = owners \ {t}
  /\ orphan' = TRUE
  /\ UNCHANGED <<phase, clock, config, cron, fireable, lock, put, faults>>

(* The finally clause.  That closing the connection could raise, before    *)
(* the lock is given back, is not modelled.                                *)
Release(t) ==
  /\ Goto(t, "release", "idle")
  /\ lock' = Free
  /\ UNCHANGED <<phase, clock, config, cron, fireable, table, put, faults>>

----------------------------------------------------------------------------
(* PUT /api/config *)

(* The form overlays the config the request has just read: it may set or   *)
(* leave each field.                                                       *)
PutRead(w) ==
  /\ Serving
  /\ put[w] = NoPut
  /\ \E form \in Config :
       put' = [put EXCEPT ![w] = [at |-> "read", read |-> config, form |-> form]]
  /\ UNCHANGED <<phase, clock, config, cron, fireable, lock, table, pc, faults>>

PutSave(w) ==
  /\ put[w].at = "read"
  /\ put' = [put EXCEPT ![w].at = "saved"]
  /\ config' = put[w].form
  /\ UNCHANGED <<phase, clock, cron, fireable, lock, table, pc, faults>>

PutWithoutReschedule(w) ==
  /\ put[w].at = "saved"
  /\ put' = [put EXCEPT ![w] = NoPut]
  /\ UNCHANGED <<phase, clock, config, cron, fireable, lock, table, pc, faults>>

(* reschedule_daily, when the hour differs from the one the request read,  *)
(* is a no-op unless the scheduler is running.  The job's next run is      *)
(* computed anew, so an hour that has already begun does not fire.         *)
PutReschedule(w) ==
  /\ put[w].at = "saved"
  /\ put' = [put EXCEPT ![w] = NoPut]
  /\ IF put[w].form.hour # put[w].read.hour /\ phase = "up"
     THEN cron' = put[w].form.hour /\ fireable' = FALSE
     ELSE UNCHANGED <<cron, fireable>>
  /\ UNCHANGED <<phase, clock, config, lock, table, pc, faults>>

----------------------------------------------------------------------------
(* Time and the process *)

(* The cron job is due when its hour begins; one that is not picked up     *)
(* within the hour is a misfire and is dropped.                            *)
Tick ==
  /\ hour' = (hour + 1) % DayLength
  /\ age' = IF age < DayLength THEN age + 1 ELSE age
  /\ fireable' = (phase = "up" /\ hour' = cron)
  /\ UNCHANGED <<phase, config, cron, lock, table, pc, put, faults>>

(* stop: no job fires any more, running ones are not waited for. *)
StopScheduler ==
  /\ Serving
  /\ phase' = "stopping"
  /\ fireable' = FALSE
  /\ UNCHANGED <<clock, config, cron, lock, table, pc, put, faults>>

(* The process ends, after stop or killed at any point. *)
Exit ==
  /\ phase # "down"
  /\ phase' = "down"
  /\ fireable' = FALSE
  /\ lock' = Free
  /\ owners' = {}
  /\ orphan' = (orphan \/ owners # {})
  /\ pc' = [t \in Threads |-> "idle"]
  /\ put' = [w \in Writers |-> NoPut]
  /\ UNCHANGED <<clock, config, cron, faults>>

----------------------------------------------------------------------------
RunLocked(t) ==
  \/ Acquire(t)
  \/ SkipBusy(t)
  \/ CheckDb(t)
  \/ StartCycle(t)
  \/ FinishCycle(t)
  \/ Release(t)

Next ==
  \/ StartScheduler
  \/ \E t \in {Startup, Poll} : CatchUpCheck(t)
  \/ DailyFires
  \/ \E c \in Clicks : Click(c)
  \/ \E t \in Threads : RunLocked(t) \/ FailBeforeRun(t) \/ LoseRun(t)
  \/ \E w \in Writers : PutRead(w) \/ PutSave(w) \/ PutReschedule(w)
  \/ Tick
  \/ StopScheduler
  \/ Exit

Spec == Init /\ [][Next]_vars

(* A thread that has begun goes on, a cycle comes to an end (every fetch   *)
(* has a timeout), and the poll keeps its interval.  The cron job, clicks, *)
(* config changes and time are not owed.                                   *)
FairSpec ==
  /\ Spec
  /\ WF_vars(CatchUpCheck(Poll))
  /\ WF_vars(CatchUpCheck(Startup))
  /\ \A t \in Threads : WF_vars(RunLocked(t))

----------------------------------------------------------------------------
(* Properties *)

(* Who is inside _run_locked is who holds the lock, who runs a cycle is    *)
(* who owns a 'running' row, and no thread outlives the process.  What     *)
(* makes OneCycleAtATime hold.                                             *)
LockInv ==
  /\ phase = "down" => \A t \in Threads : pc[t] = "idle"
  /\ \A t \in Threads : pc[t] \in InLock <=> lock = t
  /\ owners = {t \in Threads : pc[t] = "cycle"}
  /\ \A t \in Threads : pc[t] \in {"clear", "cycle"} => ~orphan

(* "Only one cycle runs at a time", although the database check and the    *)
(* insert of the run row are two steps: cron, poll, startup catch-up and   *)
(* clicks never have two 'running' rows, not even beside an orphan.        *)
OneCycleAtATime ==
  \A t \in Threads : t \in owners => owners = {t} /\ ~orphan

(* The lock is free again after every outcome of _run_locked, busy, failed *)
(* and crashed ones included.                                              *)
LockFreed == lock # Free ~> lock = Free

(* Overdue: nothing completed for a day, catch-up is on, nothing runs and  *)
(* no orphan blocks the table.                                             *)
Overdue == phase = "up" /\ _is_catch_up_due /\ NoneRunning

(* The safety net for a machine that slept through the cron hour: the      *)
(* process does not stay overdue without starting a cycle.                 *)
CatchesUp == Overdue ~> ~Overdue

(* A changed run hour reaches the cron job: it does not "silently wait for *)
(* a restart".  (One request at a time.)                                   *)
CronFollowsConfig ==
  phase = "up" /\ (\A w \in Writers : put[w] = NoPut) => cron = config.hour

(* The poll "can never double-fetch": a catch-up cycle starts only when a  *)
(* fetch is overdue.                                                       *)
NeverDoubleFetches ==
  [][\A t \in {Poll, Startup} : StartCycle(t) => age = DayLength]_vars
=============================================================================

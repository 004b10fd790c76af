-------------------------- MODULE SchedulerProofs --------------------------
(***************************************************************************)
(* Theorems of Scheduler, for any number of manual requests and any length *)
(* of a day; the one about the configuration is for one writer.            *)
(***************************************************************************)
EXTENDS Scheduler, TLAPS

USE DEF clock, table, vars, Serving

(* Daily, Poll and Startup are threads. *)
LEMMA ScheduledThreads == {Daily, Poll, Startup} \cup Clicks = Threads
  BY DEF Threads

----------------------------------------------------------------------------
(* Type correctness *)

(* The hour of the day wraps around. *)
LEMMA HourType ==
  ASSUME NEW h \in Hours
  PROVE  (h + 1) % DayLength \in Hours
  BY DayAssumption DEF Hours

(* Every step of the scheduler, the requests, time and the process keeps   *)
(* the variables well typed.                                               *)
LEMMA TypeStep == TypeOK /\ [Next]_vars => TypeOK'
<1> SUFFICES ASSUME TypeOK, [Next]_vars PROVE TypeOK'
  OBVIOUS
<1> USE DEF TypeOK, Steps, InLock
<1>0. CASE UNCHANGED vars
  BY <1>0
<1>1. CASE StartScheduler
  <2>1. fireable' \in BOOLEAN /\ orphan' \in BOOLEAN
    BY <1>1 DEF StartScheduler
  <2>2. pc' \in [Threads -> Steps]
    BY <1>1 DEF StartScheduler
  <2>3. cron' \in Hours
    BY <1>1 DEF StartScheduler, Config
  <2> QED
    BY <1>1, <2>1, <2>2, <2>3 DEF StartScheduler
<1>2. ASSUME NEW t \in {Startup, Poll}, CatchUpCheck(t) PROVE TypeOK'
  <2>1. t \in Threads
    BY ScheduledThreads
  <2> QED
    BY <1>2, <2>1 DEF CatchUpCheck, Goto
<1>3. CASE DailyFires
  BY <1>3, ScheduledThreads DEF DailyFires, Goto
<1>4. ASSUME NEW c \in Clicks, Click(c) PROVE TypeOK'
  BY <1>4, ScheduledThreads DEF Click, Goto
<1>5. ASSUME NEW t \in Threads, RunLocked(t) \/ FailBeforeRun(t) \/ LoseRun(t)
      PROVE  TypeOK'
  <2>1. CASE Acquire(t) \/ SkipBusy(t) \/ CheckDb(t) \/ Release(t)
    BY <2>1 DEF Acquire, SkipBusy, CheckDb, Release, Goto
  <2>2. CASE StartCycle(t) \/ FailBeforeRun(t)
    BY <2>2 DEF StartCycle, FailBeforeRun, Goto
  <2>4. CASE LoseRun(t)
    <3>1. orphan' \in BOOLEAN
      BY <2>4 DEF LoseRun
    <3> QED
      BY <2>4, <3>1 DEF LoseRun, Goto
  <2>3. CASE FinishCycle(t)
    <3>1. age' \in 0..DayLength
      BY <2>3, DayAssumption DEF FinishCycle
    <3> QED
      BY <2>3, <3>1 DEF FinishCycle, Goto
  <2> QED
    BY <1>5, <2>1, <2>2, <2>3, <2>4 DEF RunLocked
<1>6. ASSUME NEW w \in Writers, PutRead(w) \/ PutSave(w) \/ PutReschedule(w)
      PROVE  TypeOK'
  <2>1. CASE PutRead(w)
    BY <2>1 DEF PutRead, Put, NoPut
  <2>2. ASSUME put[w].at # "idle" PROVE put[w] \in Put
    BY <2>2 DEF NoPut
  <2>3. CASE PutSave(w)
    BY <2>2, <2>3 DEF PutSave, Put
  <2>4. CASE PutReschedule(w)
    BY <2>2, <2>4 DEF PutReschedule, Put, Config
  <2> QED
    BY <1>6, <2>1, <2>3, <2>4
<1>7. CASE Tick
  <2>1. hour' \in Hours
    BY <1>7, HourType DEF Tick
  <2>2. age' \in 0..DayLength
    BY <1>7, DayAssumption DEF Tick
  <2> QED
    BY <1>7, <2>1, <2>2 DEF Tick
<1>8. CASE StopScheduler
  BY <1>8 DEF StopScheduler
<1>9. CASE Exit
  BY <1>9 DEF Exit
<1> QED
  BY <1>0, <1>1, <1>2, <1>3, <1>4, <1>5, <1>6, <1>7, <1>8, <1>9 DEF Next

(* The variables of the scheduler keep their types. *)
THEOREM TypeCorrect == Spec => []TypeOK
<1>1. Init => TypeOK
  <2> SUFFICES ASSUME Init PROVE TypeOK
    OBVIOUS
  <2>1. fireable \in BOOLEAN /\ orphan \in BOOLEAN
    BY DEF Init
  <2>2. hour \in Hours /\ config \in Config /\ cron \in Hours
    BY DEF Init, Config
  <2>3. age \in 0..DayLength /\ faults \in Nat
    BY DayAssumption DEF Init
  <2> QED
    BY <2>1, <2>2, <2>3 DEF Init, TypeOK, Steps
<1> QED
  BY <1>1, TypeStep, PTL DEF Spec

----------------------------------------------------------------------------
(* Mutual exclusion *)

(* A step that only moves a thread which does not hold the lock, outside   *)
(* of _run_locked, keeps the lock invariant.                               *)
LEMMA OutsideStep ==
  ASSUME TypeOK, LockInv, NEW t \in Threads, NEW from, NEW to, Goto(t, from, to),
         from \notin InLock, to \notin InLock, phase # "down", phase' = phase,
         UNCHANGED <<lock, owners, orphan>>
  PROVE  LockInv'
  BY DEF LockInv, TypeOK, Goto, InLock

(* Every step keeps the lock invariant. *)
LEMMA LockStep == TypeOK /\ LockInv /\ [Next]_vars => LockInv'
<1> SUFFICES ASSUME TypeOK, LockInv, [Next]_vars PROVE LockInv'
  OBVIOUS
<1>0. CASE UNCHANGED vars
  BY <1>0 DEF LockInv
<1>1. CASE StartScheduler
  BY <1>1, ScheduledThreads DEF StartScheduler, LockInv, InLock, TypeOK
<1>2. ASSUME NEW t \in {Startup, Poll}, CatchUpCheck(t) PROVE LockInv'
  <2>1. t \in Threads
    BY ScheduledThreads
  <2> QED
    BY <1>2, <2>1, OutsideStep DEF CatchUpCheck, InLock
<1>3. CASE DailyFires
  <2>1. Daily \in Threads
    BY ScheduledThreads
  <2> QED
    BY <1>3, <2>1, OutsideStep DEF DailyFires, InLock
<1>4. ASSUME NEW c \in Clicks, Click(c) PROVE LockInv'
  <2>1. c \in Threads
    BY ScheduledThreads
  <2> QED
    BY <1>4, <2>1, OutsideStep DEF Click, InLock
<1>5. ASSUME NEW t \in Threads, RunLocked(t) \/ FailBeforeRun(t) \/ LoseRun(t)
      PROVE  LockInv'
  <2> USE DEF LockInv, Goto, InLock, TypeOK
  <2>0. Free # t
    BY ThreadsAssumption
  <2>1. CASE Acquire(t)
    BY <2>0, <2>1, ThreadsAssumption DEF Acquire
  <2>2. CASE SkipBusy(t)
    BY <2>2 DEF SkipBusy
  <2>3. CASE CheckDb(t)
    BY <2>3 DEF CheckDb, NoneRunning
  <2>4. CASE StartCycle(t)
    BY <2>4 DEF StartCycle
  <2>5. CASE FinishCycle(t)
    BY <2>5 DEF FinishCycle
  <2>6. CASE Release(t)
    BY <2>0, <2>6, ThreadsAssumption DEF Release
  <2>7. CASE FailBeforeRun(t)
    BY <2>7 DEF FailBeforeRun
  <2>8. CASE LoseRun(t)
    BY <2>8 DEF LoseRun
  <2> QED
    BY <1>5, <2>1, <2>2, <2>3, <2>4, <2>5, <2>6, <2>7, <2>8 DEF RunLocked
<1>6. ASSUME NEW w \in Writers, PutRead(w) \/ PutSave(w) \/ PutReschedule(w)
      PROVE  LockInv'
  BY <1>6 DEF PutRead, PutSave, PutReschedule, LockInv
<1>7. CASE Tick
  BY <1>7 DEF Tick, LockInv
<1>8. CASE StopScheduler
  BY <1>8 DEF StopScheduler, LockInv
<1>9. CASE Exit
  BY <1>9, ThreadsAssumption DEF Exit, LockInv, InLock
<1> QED
  BY <1>0, <1>1, <1>2, <1>3, <1>4, <1>5, <1>6, <1>7, <1>8, <1>9 DEF Next

(* Who is in _run_locked holds the lock, whatever thread called it and     *)
(* whatever the cycle does.                                                *)
THEOREM LockInvHolds == Spec => []LockInv
<1>1. Init => LockInv
  BY ThreadsAssumption DEF Init, LockInv, InLock
<1> QED
  BY <1>1, LockStep, TypeCorrect, PTL DEF Spec

(* The daily job, the poll, the startup catch-up and any number of manual  *)
(* requests never run two cycles at a time in one process.                 *)
THEOREM OneCycleAtATimeHolds == Spec => []OneCycleAtATime
<1>1. LockInv => OneCycleAtATime
  BY DEF LockInv, OneCycleAtATime, InLock
<1> QED
  BY <1>1, LockInvHolds, PTL

----------------------------------------------------------------------------
(* The cron job follows the configuration *)

(* With one writer: while its request is under way the configuration is    *)
(* what it read, or what it saved, and the cron job is still registered    *)
(* for the hour it read.                                                   *)
OnePutInv ==
  /\ phase = "down" => \A w \in Writers : put[w] = NoPut
  /\ phase = "up" =>
       \A w \in Writers :
         /\ put[w] = NoPut => cron = config.hour
         /\ put[w].at = "read" => put[w].read = config /\ cron = config.hour
         /\ put[w].at = "saved" => put[w].form = config /\ cron = put[w].read.hour
  /\ phase = "up" /\ Writers = {} => cron = config.hour

(* With at most one writer, every step keeps that invariant. *)
LEMMA OnePutStep ==
  ASSUME \A v, w \in Writers : v = w
  PROVE  TypeOK /\ OnePutInv /\ [Next]_vars => OnePutInv'
<1> SUFFICES ASSUME TypeOK, OnePutInv, [Next]_vars PROVE OnePutInv'
  OBVIOUS
<1>0. CASE UNCHANGED <<phase, config, cron, put>>
  BY <1>0 DEF OnePutInv
<1>1. CASE StartScheduler
  BY <1>1 DEF StartScheduler, OnePutInv, NoPut
<1>2. ASSUME NEW w \in Writers, PutRead(w) PROVE OnePutInv'
  BY <1>2 DEF PutRead, OnePutInv, NoPut, TypeOK
<1>3. ASSUME NEW w \in Writers, PutSave(w) PROVE OnePutInv'
  <2>1. put[w] \in Put
    BY <1>3 DEF PutSave, TypeOK, NoPut
  <2> QED
    BY <1>3, <2>1 DEF PutSave, OnePutInv, NoPut, TypeOK, Put
<1>4. ASSUME NEW w \in Writers, PutReschedule(w) PROVE OnePutInv'
  <2>1. put[w] \in Put
    BY <1>4 DEF PutReschedule, TypeOK, NoPut
  <2> QED
    BY <1>4, <2>1 DEF PutReschedule, OnePutInv, NoPut, TypeOK, Put
<1>5. CASE StopScheduler \/ Exit
  BY <1>5 DEF StopScheduler, Exit, OnePutInv, NoPut
<1>6. ASSUME NEW t \in Threads, RunLocked(t) \/ FailBeforeRun(t) \/ LoseRun(t)
      PROVE  UNCHANGED <<phase, config, cron, put>>
  BY <1>6 DEF RunLocked, Acquire, SkipBusy, CheckDb, StartCycle, FinishCycle,
              Release, FailBeforeRun, LoseRun
<1>7. ASSUME NEW t, CatchUpCheck(t) \/ Click(t)
      PROVE  UNCHANGED <<phase, config, cron, put>>
  BY <1>7 DEF CatchUpCheck, Click
<1>8. CASE DailyFires \/ Tick
  BY <1>0, <1>8 DEF DailyFires, Tick
<1> QED
  BY <1>0, <1>1, <1>2, <1>3, <1>4, <1>5, <1>6, <1>7, <1>8 DEF Next

(* When configuration changes do not overlap, a changed run hour reaches   *)
(* the cron job without a restart; two that overlap may leave it behind.   *)
THEOREM CronFollowsConfigHolds ==
  ASSUME \A v, w \in Writers : v = w
  PROVE  Spec => []CronFollowsConfig
<1>1. Init => OnePutInv
  BY DEF Init, OnePutInv, NoPut
<1>2. TypeOK /\ OnePutInv /\ [Next]_vars => OnePutInv'
  BY OnePutStep
<1>3. OnePutInv => CronFollowsConfig
  BY DEF OnePutInv, CronFollowsConfig
<1> QED
  BY <1>1, <1>2, <1>3, TypeCorrect, PTL DEF Spec
=============================================================================

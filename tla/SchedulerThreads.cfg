\* Cron, poll, startup catch-up, a manual run and a config change in one process.
CONSTANTS
  Daily = daily
  Poll = poll
  Startup = startup
  Clicks = {click}
  Writers = {w1}
  Free = free
  DayLength = 2
  MaxFaults = 1
SPECIFICATION FairSpec
INVARIANTS LockInv OneCycleAtATime CronFollowsConfig
PROPERTIES LockFreed CatchesUp

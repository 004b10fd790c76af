\* The poll's due check is stale by the time it holds the lock.
CONSTANTS
  Daily = daily
  Poll = poll
  Startup = startup
  Clicks = {click}
  Writers = {w1}
  Free = free
  DayLength = 2
  MaxFaults = 0
SPECIFICATION Spec
PROPERTY NeverDoubleFetches

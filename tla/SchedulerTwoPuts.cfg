\* Two config changes at once leave the cron job on the other's hour.
CONSTANTS
  Daily = daily
  Poll = poll
  Startup = startup
  Clicks = {click}
  Writers = {w1, w2}
  Free = free
  DayLength = 2
  MaxFaults = 0
SPECIFICATION Spec
INVARIANT CronFollowsConfig

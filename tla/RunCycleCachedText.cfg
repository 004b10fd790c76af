\* The dashboard caches the page of a link that a cycle has just replaced.
CONSTANTS
  serve = serve
  cli = cli
  a = a
  b = b
  j1 = j1
  a1 = a1
  ax = ax
  b1 = b1
  NoDate = NoDate
  NoPosting = NoPosting
  NoJob = NoJob
  Runners = {serve}
  Cli = {}
  Unscheduled = {}
  Jobs = {j1}
  Sources = {a}
  Postings = {a1, ax}
  JobOf <- JobOfAll
  SourceOf <- SourceOfAll
  PostedOn <- PostedOnAll
  Rank <- RankAll
  Coverage <- CoverageAll
  Checkable = {a}
  PageSources = {a}
  GraceDays = 1
  WindowDays = 1
  MaxDay = 0
  MaxRuns = 2
  MaxCrashes = 0
SPECIFICATION Spec
CHECK_DEADLOCK FALSE
INVARIANT CachedTextIsOfLink

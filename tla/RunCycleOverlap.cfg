\* serve and a run command that reconciles and overlaps it.
CONSTANTS
  serve = serve
  cli = cli
  a = a
  b = b
  j1 = j1
  a1 = a1
  ax = ax
  b1 = b1
  NoDate = NoDate
  NoPosting = NoPosting
  NoJob = NoJob
  Runners = {serve, cli}
  Cli = {cli}
  Unscheduled = {serve}
  Jobs = {j1}
  Sources = {a}
  Postings = {a1, ax}
  JobOf <- JobOfAll
  SourceOf <- SourceOfAll
  PostedOn <- PostedOnAll
  Rank <- RankAll
  Coverage <- CoverageAll
  Checkable = {}
  PageSources = {}
  GraceDays = 1
  WindowDays = 1
  MaxDay = 2
  MaxRuns = 2
  MaxCrashes = 1
SPECIFICATION Spec
CHECK_DEADLOCK FALSE
INVARIANTS AnnouncedOnce AnnouncementInv
PROPERTIES ImplementsLedger

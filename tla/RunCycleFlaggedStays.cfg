\* A flagged row lapses.
CONSTANTS
  serve = serve
  cli = cli
  a = a
  b = b
  j1 = j1
  a1 = a1
  ax = ax
  b1 = b1
  NoDate = NoDate
  NoPosting = NoPosting
  NoJob = NoJob
  Runners = {serve}
  Cli = {}
  Unscheduled = {}
  Jobs = {j1}
  Sources = {a}
  Postings = {a1}
  JobOf <- JobOfAll
  SourceOf <- SourceOfAll
  PostedOn <- PostedOnAll
  Rank <- RankAll
  Coverage <- CoverageAll
  Checkable = {}
  PageSources = {}
  GraceDays = 1
  WindowDays = 1
  MaxDay = 2
  MaxRuns = 2
  MaxCrashes = 0
SPECIFICATION Spec
CHECK_DEADLOCK FALSE
PROPERTY FlaggedNeverDisappears

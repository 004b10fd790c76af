\* What surrounds the cycle: starts, resumes, apply agents.
CONSTANTS
  Procs = {"serve", "run"}
  OldRows = {"trainee", "clerk"}
  NewRows = {"intern"}
  Interns = {"trainee", "intern"}
  MaxCrashes = 1
  Projects <- ProjectsCase
  Skills <- SkillsCase
  Postings <- PostingsCase
  Replies <- RepliesCase
  Used = {"SQLite", "Postgres", "PostGIS", "Go", "Kubernetes", "Oracle", "Rust"}
  MaxProjects = 2
  MaxBullets = 3
  MaxGroups = 2
  MaxSkills = 2
  MinProjects = 1
  MaxRequests = 2
  Pids = {101, 102}
  PidsOf <- PidsCase
  MaxLaunches = 2
  MaxTrouble = 2
  Runs = {1, 2, 3}
  Uids = {"u", "v"}
  JobOf <- JobCase
  Sites = {"s"}
  SiteOf <- SiteCase
  MaxDisk = 1
SPECIFICATION DesksSpec
\* A desk at its bound stops.
CHECK_DEADLOCK FALSE
INVARIANTS
  DesksTypeOK
  StopReachesEveryAgent
  NoTickBeforeReview
  SessionIsWhole
  StampedIsMigrated
  NothingInvented
  AnswerIsThePdf
PROPERTIES
  OnlyAgentsSignalled
  ReviewedFillIsRecorded
  EveryStartSucceeds

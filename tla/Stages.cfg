\* The stages of a run around its database work.
CONSTANTS
  Ads = {1, 2, 3, 4, 5}
  Feeds <- FeedsCase
  Old = {1}
  Blank = {2}
  OffType = {1}
  Hidden = {3}
  Enabled = {"jobspy", "remoteok", "himalayas", "jobicy", "adzuna", "jooble", "internshala", "unstop", "greenhouse", "lever", "ashby", "smartrecruiters"}
  WalksOf <- WalksCase
  PageSize = 2
  MaxPages = 2
  MaxRetries = 1
  Offers <- OfferCases
  Configs <- ConfigCases
  InternWord = "intern"
  NoText <- Silence
  Rest <- RestCase
  PaidOverride = 3
  MinRealAmount = 2
  MaxMonths = 24
  MinAnnualUsd = 12
  MonthlyCeiling = 50
  MaxRuns = 2
  Rows = {"a", "b", "c"}
  SiteOf <- SiteCase
  Requestable = {"a", "b"}
  ClickedRows = {"a"}
  Limit = 2
  RecheckDays = 1
  OpenDays = 1
  MaxTrouble = 1
  Jobs = {"i", "j"}
  Settings <- SettingCases
  MAX_TELEGRAM_JOBS = 2
  Fits = 1
  MaxItems = 1
  Hidable = {"i"}
  MaxCycles = 2
SPECIFICATION StagesSpec
\* A finished fetch, and a stage at its bound, stops.
CHECK_DEADLOCK FALSE
INVARIANTS
  StagesTypeOK
  ExhaustiveMeansComplete
  FeedMatchesConfig
  TextDoesNotRekey
  SilenceIsKept
  PayConvertedOnce
  AnnouncedOnce
  FeedIsWhole
PROPERTIES
  PagesReadAreKept
  FetchEnds
  OnlyClosedRowsGo
  EveryDueRowIsReached
  EveryChannelCalled

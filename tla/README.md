# JobAggregator: TLA+ models, checks and proofs

JobAggregator is a self-hosted job feed.  A daily *cycle* fetches postings from
some fifteen sources, merges them by a content hash into one SQLite table,
retires what is gone, and notifies the owner of what is new.  A dashboard shows
the feed and writes to the same table.  Paths below are relative to
`src/src/job_aggregator/` unless they name another directory.

## Inventory

| Component | State | Operations | Meets |
|---|---|---|---|
| Jobs table (`storage/jobs_repo.py`, `schema.sql`) | one row per job_uid: status, source, link, dates, last_seen_cycle, the owner's flags, cached text | upsert, retire, flag, select new | cycle, sweep, dashboard |
| Runs table (`storage/runs_repo.py`) | one row per cycle, `running` or an outcome; source_runs | start, finish, current, reconcile, last completed | cycle, scheduler, CLI |
| Cycle (`pipeline/runner.py`) | results in memory, run_id | fetch, upsert, retire, expire, sweep, notify, finish | everything |
| Stale expiry (`pipeline/stale.py`) | none | two UPDATEs per succeeded source | jobs table |
| Closure checks (`sources/closure.py`) | snapshot of rows, blocked sites, budget | open a page, record a verdict | cycle, dashboard |
| Scheduler (`scheduler/scheduler.py`) | lock, registered jobs | cron, poll, startup catch-up, trigger, reschedule, stop | runs table, configuration |
| Configuration (`config/store.py`, `dashboard/routes_config.py`) | one JSON row | load, overlay, save, reschedule | scheduler |
| Dashboard (`dashboard/routes_*.py`, `app.py`) | per request | flags, detail, runs, apply, tailor | jobs table, scheduler, apply |
| Source contract and HTTP (`sources/base.py`, `_http.py`, `registry.py`) | per fetch | retry, page, suspicious-empty rule, per-company results | cycle |
| Adapters (`sources/*.py`) | per fetch | walk a site, map fields | source contract |
| Ingest pipeline (`filters.py`, `salary.py`, `dedup.py`, `normalize.py`, `signals.py`) | none | pure functions | cycle |
| Notifications (`notify/`) | RSS file | digest per channel | cycle |
| Apply agent (`apply/`) | PID file, session markers | launch, stop, drive a browser | dashboard, CLI |
| Résumé tailoring (`resume/`), profile (`profile/`) | files | generate, render, edit | dashboard |
| Schema and migration (`storage/db.py`) | user_version | init, migrate | CLI, dashboard |

Components talk through the SQLite file: every statement group commits on its
own, there is no transaction around a cycle, and the dashboard's thread pool,
the scheduler's threads and the `run` command of an OS timer write the same
rows between any two of them.

What is hard here, and what correctness means:

- *Jobs table and cycle*: rows read by one step and written by a later one
  (retire pass, sweep, opened posting) while the owner clicks; several postings
  of one job in one run; crashes and exceptions between commits; overlapping
  cycles.  Correct: no job is announced twice, absence counts only where the
  cycle looked, a flagged row is not taken away and keeps its link, and links
  and texts never mix jobs or sources.
- *Runs table*: the run lock is a row, read and written in two statements, and
  released by a reconciliation that cannot tell a dead cycle from a live one.
  Correct: no run stays `running`, no outcome is rewritten.
- *Scheduler*: four kinds of threads, one non-blocking lock, a due check before
  the lock.  Correct: one cycle at a time, the lock always comes back, a missed
  day is caught up, the registered hour is the stored hour.
- *Fetch*: pages read one by one from a list that grows and shrinks meanwhile,
  retries, caps, sites that block.  Correct: what a source calls a complete view
  is one, since absence from it retires rows; pages read are not lost.
- *Ingest*: the same facts read from fields at ingest and from texts at every
  later run, under a configuration that changes.  Correct: the feed matches the
  configuration after a run, silence is no reason to drop, pay is converted
  once, and a better reading never gives a posting a second identity.
- *Closure checks*: a budget of requests, blocked sites, stamps that order the
  next run's work, verdicts that arrive after the row has moved on.  Correct:
  only closed postings go, and every row gets its turn.
- *Digests*: channels that raise, runs that die between two sends, a file that
  readers poll.  Correct: once and never again, and a whole feed.
- *Migration*: every ALTER TABLE commits by itself; processes die between them
  and start side by side.  Correct: the version tells the truth, and the next
  start gets further.
- *Kill switch*: a file of PIDs that polls, stops and launches read and rewrite
  without a lock, over PIDs the system reuses.  Correct: a stop ends every agent
  it could know, and never kills a process that took over a PID.
- *Apply run*: minutes of a person's work between the read and the write of
  session and job.  Correct: no mark before a window handed over has been
  closed, no such closing without its mark, no torn session.  (Whether anything
  was filled or submitted behind that window the code does not ask; see the
  Observations.)
- *Tailoring*: a language model that may answer anything, and a loop that
  rebuilds until the page fits.  Correct: nothing invented, and the preview is
  the file.

`PROJECT.json` lists the hazards line by line with the properties that cover
each.

## Modules

| Module | Models | Role |
|---|---|---|
| `JobRows` | `jobs_repo.py`, `stale.py`, `closure.record_verdict`, flag and text writes | pure operators on one row, one per SQL statement |
| `RunCycle` | `runner.run_cycle`, `runs_repo.py`, `cmd_run`, `_lifespan`, `job_action`, `job_detail` | state machine over the tables |
| `JobLedger` | what the store promises its owner | abstract specification |
| `Scheduler` | `scheduler.py`, `put_config`, `POST /api/runs` | state machine of one process |
| `SourceFetch` | `sources/_http.py`, `base.py`, `registry.py`, the walks of the twelve adapters | state machine of one source's fetch |
| `Ingest` | the adapters' `_map`, `signals.py`, `salary.py`, `filters.py`, `dedup.py`, ingest and refilter of `runner.py` | functions of a posting, and the runs and clicks that apply them |
| `ClosureSweep` | `sources/closure.py`, the check in `job_detail` | state machine over days and runs |
| `Digest` | `notify/`, `_notify` and `_notify_run_summary` of `runner.py` | state machine of the last steps of runs |
| `Migration` | `storage/db.py`, `seed_from_yaml` | state machine of starting processes |
| `Tailor` | `resume/tailor.py`, `build_pdf` of `resume/render.py` | guards as functions, and the build loop |
| `KillSwitch` | `apply/procs.py`, the apply routes of `routes_jobs.py` | state machine over the registry file and the process table |
| `ApplyRun` | `cmd_apply`, `apply/agent.py`, `apply/session.py`, `fill_form` of both drivers | state machine of apply agents |
| `Selection` | sorting and filtering of lists, as `resume/tailor.py` and `closure.py` do | operators other modules use |
| `MCRunCycle`, `MCScheduler` | | instances for TLC |
| `MCStages` | | composes `SourceFetch`, `Ingest`, `ClosureSweep`, `Digest` |
| `MCDesk` | | composes `Migration`, `Tailor`, `KillSwitch`, `ApplyRun` |
| `DataLemmas` | | lemmas on finite sets, sorting and filtering |
| `RunCycleProofs`, `SchedulerProofs`, `SourceFetchProofs`, `IngestProofs`, `TailorProofs` | | theorems about the module each is named after |
| `StagesProofs` | | theorems about `ClosureSweep` and `Digest`, and about the composition `MCStages` |
| `DeskProofs` | | theorems about `Migration`, `KillSwitch` and `ApplyRun`, and about the composition `MCDesk` |

### JobRows and RunCycle

A row's `flagged` is `applied OR bookmarked`, which the code always tests
together.  `link` is the posting the row points to: a posting is one
advertisement at one source under one id, or one url where the source has no
ids, which is just what the relink condition of the upsert compares.  Several
postings hash to one job (`JobOf`).  `full_description` is the posting whose
page text is cached.

Each action of `RunCycle` is one committed statement or one read, in the order
of `run_cycle`: `FindIdle` (current_run), `StartRun`, `FetchAll`, `UpsertNext`
for each accepted posting in registry order (upsert_job commits each), then
`Refilter`/`Retire`, `Expire`, `SweepRead`/`SweepCheck`/`SweepDone`, `Notify`,
`FinishRun`.  `RaiseInCycle` is the `except` branch from any of these steps.
An exception in the middle of the retire pass or of the expiry leaves UPDATEs in
the open transaction, and the commit of the failed run makes them durable: any
part of them (`KeepPart`).  `RaiseUnfinalised` is the same exception when the
UPDATE of the run row raises too, and the transaction is rolled back; `Crash`
loses the process memory and keeps the tables.  `Runners` are operating-system processes:
a scheduled `serve`, a `serve` without its scheduler (`Unscheduled`, which
reconciles nothing at its start), and the `run` command (`Cli`).  One process
runs one cycle at a time: that is what `Scheduler` shows of its threads.
`job_detail` is three actions, because a page fetch lies between its read of
the row and its writes.

Abstracted: fetching and the ingest filters are one choice per source, failed
or a set of accepted postings seen exhaustively or through a window; today's
filter verdict on a stored row, a page's verdict, and which rows a sweep gets
to within its budget are nondeterministic.  Days stand for instants.  Two open
listings of one posting id are one posting.  The existence check of upsert_job
is one step with its INSERT (it only feeds the count n_new).

### JobLedger

A job is unknown, listed, stale or gone.  It enters once, is announced at most
once and only while listed, and becomes gone by lapsing (not sighted for more
than the grace period) or, unflagged, by being dropped.  `RunCycle` maps its
rows and its history of announcements to entries and implements it
(`ImplementsLedger`), crashes and overlapping cycles included.

### Scheduler

Threads are the daily job, the poll, the startup catch-up (one instance each,
as APScheduler's `max_instances=1` grants) and the thread-pool threads of
`POST /api/runs`.  `_run_locked` is one action per step: acquire or be refused,
look for a `running` row, fail before there is a row, start, finish, lose the
row, release.  The runs table is what the scheduler reads of it: owners of
`running` rows, an orphan, and hours since the last completed run up to the
catch-up threshold.  `put_config` is load, save and reschedule.

That `conn.close()` in the `finally` clause of `_run_locked` could itself raise,
which would keep the lock, is not modelled.

APScheduler is external: the cron job becomes due when its hour begins and is
dropped when its misfire grace of an hour has passed; moving the job computes
its next run anew.

### SourceFetch

A fetch is a sequence of walks, one per query, slug, company, or site and term
(`WalksOf`), each reporting to a unit: the source, a company of an ATS, or a
JobSpy site.  A walk is `BeginWalk` followed by one action per request, whose
answer is that adapter's next page of the feed (`TurnPage`, `UnstopPage`,
`OneAnswer`, `JobicyFetch`, `SmartRecruitersBoard`), by `Retry` while attempts are left, and
by `KeepPages`, `FailWalk` or `Raise` when they are not: pages already read are
kept, a first page is not.  `Report` is what `base.py` and each adapter make of
the endings, the suspicious-empty rule included.  The site publishes ads at
the front of the list and withdraws ads between any two requests, and may go dark;
that it moves a listed ad to another place between two pages is not modelled.  An ad is one posting
with its fields; `Old`, `Blank`, `OffType` and `Hidden` are those an adapter
leaves out.  The adapters' differences that matter to a verdict are kept: which
page proves the end, which failures are fatal, which caps exist.

### Ingest

One posting of one site, which may edit it between runs.  `Adapted` chooses the
adapter's `_map`: pay, place, remote flag, internship stamp and the identity
that is hashed.  `score_and_filter` is the order of the gates,
`filter_and_upsert` the ingest of a run, `read_candidates` and `retire_jobs` the
refilter of stored rows, with clicks, cached texts and configuration changes
between them.  Regular expressions are abstracted to the facts they find:
a text is the amounts, years, spans and words it states.  Years, pay and months
are facts of the description; the code reads them off the title too, and here a
title names words only.  An optional value is a
set of at most one element, which makes "unknown" the empty set everywhere.
`IngestAssumption` says what the records of the adapters, the signals of a text
and a validated configuration are: figures are natural numbers, INR has the rate
1, a month is the unit of pay, and a missing text states nothing.

### ClosureSweep

`SweepBegin` takes the snapshot in the order of its SQL; each further step
handles the first pending row: `SkipBlocked`, `StampUnrequestable`, or a
`Request` with its `Answer`, on which `record_verdict` deletes, stamps, or
leaves the row and blocks the site.  The modal's check is `OpenPosting` and
`RecordOpened`.  Sites close postings and runs list and relink rows between any
two steps (a closed posting that is still listed included), and days pass.  `RunCycle` leaves open which rows a sweep
reaches and with which verdicts; this module models that choice.

### Digest

A run stores jobs, reads both payloads, calls the notifiers in their order, and
sends a summary if it was quiet.  The feed file is written to a temporary file
and moved; the process may die in between and while writing.  Messages carry
the jobs they show; a digest too long for Telegram is refused by its API.
Runs follow one another: two processes whose cycles overlap, as `RunCycle` allows
them, would write through one `feed.xml.tmp` (`rss.py:110`), and `FeedIsWhole`
does not speak of that.

### Migration

One action per committing statement of `init_db` and `migrate`, from every
older version: the version read, `PRAGMA table_info`, one `ALTER TABLE` per
missing column, the title read and the backfill, the stamp, and the seed of the
configuration.  `Procs` start side by side, may die between two statements, and
are refused when they lose a race (the column, or the configuration row, is
there already).

### Tailor

`tailor_resume` on a reply is a function: `_parse_rewrite`, the header rule,
`_guard_bullets` and `_guard_skills`; without a usable reply `select_projects`
and `select_skills` rank by keywords.  A bullet is the numbers it states and the
technologies it names.  `Compile`, `Trim` and `Answer` are the loop of
`build_pdf`.  The model and the engine answer anything; the engine may also time
out, which no handler catches.  One request builds the file of a job at a time: a
route and an apply agent, or two threads of the server, that write one
`resume_path` at once are not modelled.  Of two skill groups with one category
name the guards know the last, as the code's dict does; the fallback that takes a
reply without headers for the only candidate is left out, as the instances have
two projects or more.  The names of a
profile's projects are taken to be distinct (`ProfileAssumption`): the code looks
projects up by name in a dict, where the later of two of one name would take the
place of the earlier.

### KillSwitch

The process table maps agents to PIDs the system may reuse; the file is a
sequence of PIDs that a rewrite empties first.  `Launch` and `register_pid` are
the two halves of a launch; a call (`status` or `stop`) reads, checks identities,
empties and rewrites the file, and a stop then signals, waits, kills and clears,
each a step of its own.  `lost` is history: agents whose PID met a call in
progress.  Of concurrent calls, one poll and one stop meet; two polls or two stops
at once are not modelled.  An agent is one process together with its group: the
look before SIGKILL is at the leader alone (`procs.py:99`), so a child that
outlives its leader is outside `StopReachesEveryAgent`.

### ApplyRun

An agent tailors, loads the site's session, has the form filled, waits for the
person to close the browser, saves the session through one temporary file per
site, and marks the job.  It may be stopped at any step; a write may fail.

`fill_form` ends in the place `handed`: the window is handed over to the person.
What the session placed in the form is left out because no later step of the code
depends on it.  A session that met a login wall, one whose result is flagged as an
error (only logged, `agentic.py:302`), one whose report is empty or cannot be
parsed, and one that filled everything are the same step here and go the same way
there.  `NoTickBeforeReview` therefore says when a mark may be set, namely after a
window was handed over and closed, and not that the job was applied to.

## Runs

| Run | Specification | What it shows | Distinct states |
|---|---|---|---|
| `cycle_one_process` | Spec | TypeOK, LinkProvenance, SoleNewJobsAnnounced, ExpiredOnlyIfLookedAndMissed, FlaggedGoneOnlyOverdue, FlaggedRecordKept, ImplementsLedger hold with one process, also for a pass an exception breaks off | 1.9 million |
| `cycle_overlap` | Spec | AnnouncedOnce, AnnouncementInv, ImplementsLedger hold when a timer's `run` overlaps a dashboard cycle | 2.4 million |
| `cycle_liveness` | FairSpec | EveryRunEnds, RunOutcomeFinal with two crashes or lost finalisations | 2 thousand |
| `scheduler_threads` | FairSpec | LockInv, OneCycleAtATime, CronFollowsConfig (one request at a time), LockFreed, CatchesUp | 250 thousand |
| `stages` | StagesSpec | fetch: ExhaustiveMeansComplete, PagesReadAreKept, FetchEnds; ingest: FeedMatchesConfig, TextDoesNotRekey, SilenceIsKept, PayConvertedOnce; closure: OnlyClosedRowsGo, EveryDueRowIsReached; digests: AnnouncedOnce, FeedIsWhole, EveryChannelCalled | 309 thousand |
| `desk` | DesksSpec | start: StampedIsMigrated, EveryStartSucceeds; tailoring: NothingInvented, AnswerIsThePdf; kill switch: StopReachesEveryAgent, OnlyAgentsSignalled; agents: NoTickBeforeReview, ReviewedFillIsRecorded, SessionIsWhole | 224 thousand |
| `new_announced` | Spec | NewJobsAnnounced fails | |
| `flagged_stays` | Spec | FlaggedNeverDisappears fails | |
| `reconcile_live` | Spec | ReconciledWereAbandoned fails | |
| `cached_text` | Spec | CachedTextIsOfLink fails | |
| `double_fetch` | Spec | NeverDoubleFetches fails | |
| `two_puts` | Spec | CronFollowsConfig fails with two overlapping requests | |

The failing six are disagreements between the code and what its comments or
documents say; `PROJECT.json` quotes each line.

Bounds.  One job with three postings (two at an exhaustive source, one at a
windowed one) has every relation the upsert distinguishes: same posting, repost
at the same source, listing elsewhere.  Jobs do not interact except through the
run, and the theorems are for any number of them.  Two cycles are what it takes
for a row to be missed by a later one; grace and window are one day and the
clock passes both (`MaxDay = 2`).  `cycle_overlap` has two processes and no
page checks, since a row's history there is about run ids.  `MaxCrashes` bounds
crashes and lost finalisations together.  In `Scheduler` a day has two hours:
enough to tell the hours of a configuration change apart, and for the age of
the last run to grow and to reach the threshold.  `MaxFaults` bounds cycles
that fail before they start, which would otherwise let every due poll fail.

In `stages` and `desk` each behaviour follows one of four components, which
share no variables; each also has its type invariant there.  A fetch lists up to
four ads and may gain a fifth, on pages of two with a cap of two: a full page, a
short one, an empty one, a walk cut by the cap, an ad that moves across a page
break, and, with one retry, a request that fails for good all occur, for each of
the twelve adapters.  Two walks are what it takes for a unit to have one good
and one bad ending.  Ingest runs twice, so a row is judged by a run that listed
it and by one that did not, under each of two configurations, over offers that
touch every gate and every adapter's reading of pay.  The sweep has three rows
on two sites with a budget of two: a blocked site, a row without a safe link and
a row left over all occur.  Two jobs and two runs suffice for a repetition,
and a digest of both exceeds a message.  Migration starts
from every version with two processes and one crash.  The kill switch has two
launches and two PIDs, so a PID is reused by another agent and by a stranger.
Three agents work on two jobs of one site, since races are about one session
file.  Tailoring has three projects, of three, two and one bullets, and 450
replies that mix true, borrowed, inflated and foreign lines.

Deadlock is not checked for `RunCycle`: once `MaxRuns` and `MaxDay` are used up
and no request is open, a model without clicks has nothing left to do; nor for `stages` and `desk`, where
a fetch ends and the others stop at their bounds.  The scheduler is checked for
it.

Fairness.  `RunCycle`: a process that is down is started again (systemd, the
timer), a started one reconciles, a cycle's next step is not postponed for ever
(every fetch has a timeout, SQLite has a busy timeout).  Nothing obliges anyone
to start a cycle, raise, crash or click.  The first half of
`EveryRunEnds` therefore has an escape: when even the UPDATE that marks a run
failed is lost, only a restart reconciles it, and no one owes a restart of a
process that lives.  The second half has none: once a process restarts, every
run ends.
`Scheduler`: the poll keeps its interval, the startup check is made, a thread
inside `_run_locked` goes on.  The cron job is *not* fair, so `CatchesUp` holds
by the poll alone, which is what the poll is for.
`stages`: a source's own thread goes on (requests time out and retries are
counted), and the sweep's steps go on as runs drive them; sites owe nothing.
`desk`: the user starts a process again that did not come up, and an agent goes
on; the person at the browser owes nothing, nor does the system when it stops an
agent.

Where a property excepts a case, its comment says which and why the code has it;
"Observations" below collects these cases.

## Proofs

`RunCycleProofs` proves, for any jobs, postings, sources, processes (where not
said otherwise) and any bounds:

- `TypeCorrect`.  `TypeOK` alone is not inductive: a sweep or a detail request
  writes a row it read earlier, which is a row only if it still exists.
  `TypeInv` adds `ReadRowsExist`, which holds as no statement removes a row.
- `RowStep` is the lemma the others cite: whatever step is taken, each row
  makes one of seven moves.  A property of rows is then proved once per move
  and not once per action.
- `LinkProvenanceHolds`, with the open request as strengthening
  (`ViewProvenance`): the text it will write belongs to the row's job and
  source because a row's source never changes.
- `FlaggedGoneOnlyOverdueHolds`, `FlaggedRecordKeptHolds`: from `RowStep` and
  the guards repeated inside the UPDATEs.
- `AnnouncementInvHolds`, `AnnouncedOnceHolds`.  A row is announced while it is
  'new' under the announcing cycle's run_id.  Live cycles hold distinct run
  ids (`RunIdsDistinct`, from AUTOINCREMENT), a row is last seen in a run that
  has started (`SeenInStartedRun`), and an announced row still 'new' is last
  seen in a run that no live cycle is about to announce from
  (`AnnouncedIsSettled`).  None of it needs the run lock.
- `LedgerImplemented`: every step maps to a ledger step.
- For one process (`Alone`): `RunOutcomeFinalHolds`, as the run a cycle writes is
  open (`RunOpen`); `ExpiredOnlyIfLookedAndMissedHolds`, as a job with a posting
  among the upserted ones carries the run's stamp, which nobody else changes
  (`Stamped`), so that any part of the expiry spares its row (`PartOfExpiry`); `SoleNewJobsAnnouncedHolds`, as a job whose one posting has been
  upserted is met by no further upsert and so stays 'new' (`FreshStaysNew`).

`SchedulerProofs` proves, for any day length and any number of manual requests,
`TypeCorrect`, `LockInvHolds` and `OneCycleAtATimeHolds` (the lock invariant
says who is where, and that nobody passes the database check beside an orphan),
and, for at most one writer, `CronFollowsConfigHolds` (strengthened by what the
request has read and saved).

`SourceFetchProofs` proves, for any ads, feeds, walks, page sizes, caps and
retries, type correctness, `ExhaustiveMeansCompleteHolds` and
`PagesReadAreKeptHolds`.  The invariant `Promise` says where an ad is that a walk
owes: among the jobs, read, still ahead in the feed, or lost with a walk whose
report tells of it.  What is ahead stays ahead when ads are published, as they
push it back; only a withdrawal pulls it over a page break (`shrunk`).
`Reported` and `Darkness` tie the units' outcomes to the endings of the walks.

`IngestProofs` proves, for any postings, texts, configurations and rates, the
four properties of the ingest and its type invariant.  The module is mostly case
tables, so most of the proof is about its operators: what each of the twelve maps
makes of a posting (`Maps`), that a text's figures stay figures through every
choice among them, and that converting an amount already in INR a month does
nothing.  The inductive invariant `IngestInv` has a part per property:

- `StoredRows`: every row is under the one uid its adapter's map gives the
  posting (`UidOf`), and a parsed pay is made of `Honest` figures: converted
  once, stated by a text, or zero.  `TextDoesNotRekeyHolds` and
  `PayConvertedOnceHolds` follow.
- `Judged`: once the pass has read its candidates, a visible unflagged row that
  nobody touched passes all gates under the run's configuration (`Passes`), or is
  among those to be retired.  `FeedMatchesConfigHolds` follows, `failing` being
  empty when the run is over (`Retiring`), from `PassesAcceptable`: what the
  order of gates, early returns and optional stamps lets through is all that the
  property asks for.
- `SilentStays`: a wanted silent posting has a row that still reads as that
  posting (`ReadsAs`) and is not among those to go.  "Is visible" would not be
  inductive: the refilter judges what is stored, not what was offered.
  `SilenceIsKeptHolds` follows.

`TailorProofs` proves, for any profile, postings, replies and caps,
`NothingInventedHolds` and `AnswerIsThePdfHolds`.  Three chains of lemmas lead to
`TailorResumeFacts`: a reply is a list of sections, each a list of lines
(`ParseFacts`); what `_guard_bullets` keeps of any lines is sound, as are the
originals that take their place (`GuardBulletsFacts`); what `_guard_skills` and
the keyword selection show is backed by the profile (`GuardSkillsFacts`,
`SelectSkillsFacts`).  `TailorInv` carries this through the trims: the projects
shown are a `Shortened` form of those chosen.  `AnswerIsThePdf` speaks of answers
only, so the invariant must follow every trim from the choice on: a trim drops a
middle bullet of three or more, or the last project where more than the minimum
are left (`TrimFacts`).

`StagesProofs` proves of the closure checks `OnlyClosedRowsGoHolds`, for any
rows, budget and delays.  A verdict 'closed' in flight was true when it was given
(`VerdictHolds`), and a posting once closed opens only by being relinked, which
changes the link the modal remembers.  Of the digests it proves
`AnnouncedOnceHolds`, `FeedIsWholeHolds` and `EveryChannelCalledHolds`, for any
jobs, runs and settings: an announced job is not 'new' in a later run, as a stored
job that is listed again leaves 'new' and one that is not is not of that run; and
the channels tried and those still to call always make up the enabled ones
(`ToCall`).  `StagesTypeHolds` puts the four stages together: one moves, the
others rest, and each keeps its own invariant.

`DeskProofs` proves `StampedIsMigratedHolds` for any rows, processes and
crashes.  The invariant says of each process which columns are there by where it
is (`PassedColumns`), what it read (`HasRead`) and that the backfill is done or
still before it (`PassedBackfill`); it holds beside any other process because
columns and backfilled rows are only ever added.

It proves `StopReachesEveryAgentHolds` and `OnlyAgentsSignalledHolds` for any
PIDs and number of launches.  An agent that is not `lost` is always somewhere: in
the file, or in what the call that emptied the file is about to write
(`Somewhere`); a stop that looked has found it (`FoundThem`) and after the kill
none of those is left (`NoneLeft`).

It proves `NoTickBeforeReviewHolds` and `SessionIsWholeHolds` for any agents, jobs and
sites: the agent that replaces a session file has written the temporary file
alone (`SavedAlone`), and one that is past the window handed over has had
it closed (`ReviewedBefore`).  `DesksTypeHolds` puts the four desks together.

`DataLemmas` holds what these proofs need to know of data.  The induction
theorems of the library take an operator, which the provers cannot instantiate,
but what fails for some number fails for a least one, and a least member is a
fact about a set (`LeastMember`): by it a recursive function or a finite set can
still be reasoned about where a proof needs it.  The provers cannot look into
`SelectSeq` and `SortSeq` either; the modules proved about use `Selection`, whose
`InOrder` and `Picked` are plain functions: the k-th item of an order has k - 1
items ahead of it (`InOrderFacts`), and what is picked are items at the places
asked for, as many as there are places (`PickedFacts`).

The assumptions are those the modules name: postings belong to jobs and
sources, scheduled threads are distinct, `Free` is no thread, page sources are
checkable, the jobs of a digest, the rows of a sweep and the PIDs are finite
sets, the feeds list ads, a page holds at least one ad and a walk has at least
one page, the old and new rows of a migration are different, every agent has a
job and every job a site, the records an ingest reads and the profile a resume is
made of have the shapes their schemas give them, project names are distinct, and
bounds are natural numbers.  The compositions also assume that the values the
resting parts are given in `MCStages` are values of their constants
(`RestAssumption`).

Every invariant and every safety property that a passing run checks is thus a
theorem; those of a component are theorems of the component's own specification,
which a behaviour of `stages` or `desk` follows while the other parts rest.  Only
model-checked:

- the liveness properties (EveryRunEnds, LockFreed, CatchesUp, FetchEnds,
  EveryDueRowIsReached, EveryStartSucceeds, ReviewedFillIsRecorded), which need
  fairness and ENABLED;
- the six violations, which are counterexamples.

## Not modelled

- Browser driving: which field gets which value, how a form is found and
  submitted (`apply/driver.py` and `apply/agentic.py` beyond the order of their
  steps, `apply/cookies.py`, `detector.py`, `grounding.py`), and the prompts.
  Their state is a page of another site.
- The text of a résumé: LaTeX escaping and templates, the preservation figure.
- Recognition: the regular expressions of `signals.py` and `closure.py`, date
  parsing, HTML cards, canonical URLs, fuzzy titles, match scores.  The models
  take what is recognised as given.
- The queries of the feed (sorting, filters, paging), page templates, the
  profile editor, `show-config`: they read, or write one file at once.
- Validation of profile and configuration (`profile/`, `config/schema.py`).
- Counts, `source_runs`, notes, logs: nothing decides on them.
- SQLite, APScheduler, jobspy, Telegram, SMTP, the language model, the LaTeX
  engine and the browser are external and taken as the code uses them.

## Observations

Found on the way; no run is about them, except that the properties named above
leave them out.

- Runs.  A cycle that ends `failed` completes nothing, so the poll repeats it
  every half hour, while `scheduler.py:49` says "at most once/day".
  `runs_repo.py:110` and `TROUBLESHOOTING.md` say that a partial run triggers a
  catch-up, while the code asks `last_completed_run`, for which a partial run
  counts.
- Fetch.  SmartRecruiters reads one page of 100 and calls the board exhaustive.
  An ad withdrawn between two pages can hide a live one behind the page break.
  A page that goes dark in mid-walk ends the walk as complete.  Nor is it known what a
  site does to the order of its list between two pages: an ad moved across the page
  break would be missed.  Without a count in the answer Unstop falls back to the
  short page as the end (`unstop.py:184`), which a page with hidden ads may be
  before the list ends.  In `run_ats` an
  unexpected exception in one company's payload fails all companies.
- Ingest.  The refilter lets pay a text states as 0 override a positive stored
  figure, though `filters.py` lets a positive field outrank the text.  Most
  adapters do not read pay from the text at ingest, but the refilter does.  A
  listed posting whose new text fails the gates keeps its stored row, with the
  old text, until it lapses.  Changed exchange rates never reach stored pay.
- Closure.  A posting that is closed but still listed is revived by the upsert
  until its next check.  A verdict the modal records on a row relinked meanwhile
  deletes the new posting (`routes_jobs.py:488`).
- Overlap.  Two processes whose cycles overlap write the feed through one
  `feed.xml.tmp` (`rss.py:110`): one may move away what the other is still writing.
- Digests.  A Telegram message is cut at 4096 characters inside its HTML, which
  the API refuses; its jobs are never announced again.  `notify.on` is unused.
- Kill switch.  A poll or a stop that reads the PID file while another call has
  just emptied it writes it back empty: a running, registered agent is out of
  reach and Stop answers that no agent is running.  A launch that registers
  between another call's read and write loses its PID; so does a dashboard that
  dies between starting and registering a child.  `procs.py:12` says that survivors
  of SIGTERM are killed, but only the leader is looked at again: a child that
  ignores SIGTERM and outlives its leader is left running.  Between a look at
  `/proc` and the signal after it a PID may still change hands, though
  `procs.py:13` says that a reused PID is never signalled.
- Apply.  Two agents of one site that save at once share a temporary file: the
  session may be torn, or the loser's `FileNotFoundError` loses the mark of a
  reviewed fill.  `cmd_apply` takes any disconnection of the browser after the
  fill for a review.  The comment at `cli.py:243` says that the mark is set when "the
  fill completed and the human reviewed it", but `cli.py:247` sets it whatever
  `result.filled` and `result.needs_login` say, and `agentic.py:301-329` returns
  normally when the model's session ended in an error, met a login wall or reported
  nothing.  A person who closes such a window because there is nothing to review
  gets a phantom tick, the very thing the comment is about.  A timeout of the agentic driver says that the browser
  stays open, and closes it.
- Tailoring.  Requests for one job build in one place: two at once may answer with
  each other's file.  A timeout of the LaTeX engine is not a `RenderError` and ends
  the request in an error page.  The originals that replace a project's rejected bullets are not
  capped.  A build that fails after an over-long one leaves the over-long PDF on
  disk (the answer says it is not ready).
- Migration.  Of two processes that start on an old database at once, one may be
  refused (duplicate column, or a second configuration row) and must be started
  again.

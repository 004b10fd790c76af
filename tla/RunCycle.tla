------------------------------ MODULE RunCycle ------------------------------
(***************************************************************************)
(* The aggregation cycle (pipeline/runner.py, run_cycle) over the jobs and *)
(* runs tables, with the processes that may run it and the dashboard that  *)
(* writes the same rows.                                                   *)
(*                                                                         *)
(* Every action is one committed statement or one read of the database, so *)
(* other processes, a crash or an exception may come between any two.      *)
(* Runners are operating-system processes: the long-lived `serve`, and a   *)
(* `run` command (members of Cli), which exits after its cycle.            *)
(*                                                                         *)
(* Abstractions.  Fetching and the ingest filters are one choice: for each *)
(* source, failed or the set of postings it listed that passed the         *)
(* filters.  The verdict of today's filters on a stored row, the content   *)
(* of a posting's page, and which stored rows are due for a closure check  *)
(* (closure_checked_at, hidden and the budget) are nondeterministic.  The  *)
(* source_runs rows are written and never read by the cycle, so they are   *)
(* left out.  Days pass at any time, also inside a cycle.                  *)
(***************************************************************************)
EXTENDS JobRows, Sequences, FiniteSets

CONSTANTS
  Runners,        \* processes that may call run_cycle
  Cli,            \* those that are a `run` command
  Unscheduled,    \* a `serve` with JOBAGG_DISABLE_SCHEDULER
  Rank,           \* the registry's order of the sources
  Coverage,       \* how a succeeded source may see: "exhaustive", "windowed"
  Checkable,      \* closure.CHECKABLE_SOURCES
  PageSources,    \* sources whose page holds the full text (internshala)
  NoJob,
  MaxDay, MaxRuns, MaxCrashes   \* bounds on what is explored

ASSUME RunnersAssumption ==
  Cli \subseteq Runners /\ Unscheduled \subseteq Runners \ Cli

ASSUME SourcesAssumption ==
  /\ Rank \in [Sources -> Int]
  /\ Coverage \in [Sources -> SUBSET {"exhaustive", "windowed"}]
  /\ PageSources \subseteq Checkable
  /\ Checkable \subseteq Sources
  /\ NoJob \notin Jobs

ASSUME BoundsAssumption == MaxDay \in Int /\ MaxRuns \in Int /\ MaxCrashes \in Int

VARIABLES
  rows,       \* the jobs table
  runs,       \* the runs table: runs[i] is the status of run_id i
  day,        \* clock.now()
  pc,         \* where each process stands
  run,        \* run_id of its cycle
  fetched,    \* results: outcome and accepted postings of each source
  todo,       \* accepted postings still to upsert, by source
  fresh,      \* jobs its upserts reported "new" (n_new counts them)
  chosen,     \* job_uids read by refilter_candidates or by the sweep
  viewer,     \* the dashboard's open job_detail request
  announced,  \* history: how often a job was in a new-only notification
  crashes     \* history: crashes and lost finalisations so far (bounded)

tables == <<rows, runs>>
memory == <<run, fetched, todo, fresh, chosen>>   \* lost with the process
history == <<announced, crashes>>
vars == <<rows, runs, day, pc, run, fetched, todo, fresh, chosen, viewer,
          announced, crashes>>

(* Where a process stands.  In CycleSteps it holds a run_id and an         *)
(* exception is caught by run_cycle; "start" is after its current_run      *)
(* check and before its INSERT.                                            *)
CycleSteps == {"fetch", "upsert", "refilter", "retire", "expire", "sweep",
               "check", "notify", "finish"}
Steps == {"down", "boot", "ready", "start"} \cup CycleSteps

RunStatuses == {"running", "success", "partial", "failed"}

Outcomes == {"failed", "exhaustive", "windowed"}
Result == [outcome : Outcomes, accepted : SUBSET Postings]

(* A failed source's jobs are never ingested (_filter_and_upsert).         *)
ResultsOf(s) ==
  {[outcome |-> "failed", accepted |-> {}]} \cup
  {[outcome |-> o, accepted |-> A] : o \in Coverage[s], A \in SUBSET PostingsOf(s)}

NoResult == [outcome |-> "failed", accepted |-> {}]

NoView == [job |-> NoJob]
Views == [job : Jobs, page : Postings, caches : BOOLEAN,
          verdict : Verdicts \cup {"unread"}]

TypeOK ==
  /\ rows \in [Jobs -> Row \cup {NoRow}]
  /\ runs \in Seq(RunStatuses)
  /\ day \in Int
  /\ pc \in [Runners -> Steps]
  /\ run \in [Runners -> Nat]
  /\ fetched \in [Runners -> [Sources -> Result]]
  /\ todo \in [Runners -> [Sources -> SUBSET Postings]]
  /\ fresh \in [Runners -> SUBSET Jobs]
  /\ chosen \in [Runners -> SUBSET Jobs]
  /\ viewer \in Views \cup {NoView}
  /\ announced \in [Jobs -> Nat]
  /\ crashes \in Nat

Init ==
  /\ rows = [j \in Jobs |-> NoRow]
  /\ runs = <<>>
  /\ day = 0
  /\ pc = [r \in Runners |-> "down"]
  /\ run = [r \in Runners |-> 0]
  /\ fetched = [r \in Runners |-> [s \in Sources |-> NoResult]]
  /\ todo = [r \in Runners |-> [s \in Sources |-> {}]]
  /\ fresh = [r \in Runners |-> {}]
  /\ chosen = [r \in Runners |-> {}]
  /\ viewer = NoView
  /\ announced = [j \in Jobs |-> 0]
  /\ crashes = 0

Goto(r, from, to) == pc[r] = from /\ pc' = [pc EXCEPT ![r] = to]

----------------------------------------------------------------------------
(* Process life and the run lock *)

Launch(r) ==
  /\ Goto(r, "down", "boot")
  /\ UNCHANGED <<tables, day, memory, viewer, history>>

ReconcileNothing(r) ==
  /\ r \notin Unscheduled
  /\ Goto(r, "boot", "ready")
  /\ UNCHANGED <<tables, day, memory, viewer, history>>

ReconcileEveryRun(r) ==
  /\ r \notin Unscheduled
  /\ Goto(r, "boot", "ready")
  /\ runs' = [i \in DOMAIN runs |-> "failed"]
  /\ UNCHANGED <<rows, day, memory, viewer, history>>

(* reconcile_orphan_runs, at the start of the scheduler and of every       *)
(* `run` command: every 'running' row is declared failed.                  *)
Reconcile(r) ==
  /\ r \notin Unscheduled
  /\ Goto(r, "boot", "ready")
  /\ runs' = [i \in DOMAIN runs |-> IF runs[i] = "running" THEN "failed" ELSE runs[i]]
  /\ UNCHANGED <<rows, day, memory, viewer, history>>

(* _lifespan without the scheduler; POST /api/runs still starts cycles. *)
SkipScheduler(r) ==
  /\ r \in Unscheduled
  /\ Goto(r, "boot", "ready")
  /\ UNCHANGED <<tables, day, memory, viewer, history>>

RunInProgress == \E i \in DOMAIN runs : runs[i] = "running"

(* current_run finds no 'running' row. *)
FindIdle(r) ==
  /\ Goto(r, "ready", "start")
  /\ ~RunInProgress
  /\ Len(runs) < MaxRuns
  /\ UNCHANGED <<tables, day, memory, viewer, history>>

(* RunInProgressError ends a `run` command; `serve` answers busy. *)
Refuse(r) ==
  /\ r \in Cli
  /\ Goto(r, "ready", "down")
  /\ RunInProgress
  /\ UNCHANGED <<tables, day, memory, viewer, history>>

StartRun(r) ==
  /\ Goto(r, "start", "fetch")
  /\ Len(runs) < MaxRuns
  /\ runs' = Append(runs, "running")
  /\ run' = [run EXCEPT ![r] = Len(runs) + 1]
  /\ fresh' = [fresh EXCEPT ![r] = {}]
  /\ UNCHANGED <<rows, day, fetched, todo, chosen, viewer, history>>

----------------------------------------------------------------------------
(* The cycle *)

(* _fetch_all and _record_source_runs *)
FetchAll(r) ==
  /\ Goto(r, "fetch", "upsert")
  /\ \E res \in [Sources -> UNION {ResultsOf(s) : s \in Sources}] :
       /\ \A s \in Sources : res[s] \in ResultsOf(s)
       /\ fetched' = [fetched EXCEPT ![r] = res]
       /\ todo' = [todo EXCEPT ![r] = [s \in Sources |-> res[s].accepted]]
  /\ UNCHANGED <<tables, day, run, fresh, chosen, viewer, history>>

(* One iteration of _filter_and_upsert, sources in registry order. *)
UpsertNext(r) ==
  /\ pc[r] = "upsert"
  /\ \E s \in Sources : \E p \in todo[r][s] :
       /\ \A t \in Sources : Rank[t] < Rank[s] => todo[r][t] = {}
       /\ todo' = [todo EXCEPT ![r][s] = @ \ {p}]
       /\ rows' = [rows EXCEPT ![JobOf[p]] = upsert_job(@, p, run[r], day)]
       /\ fresh' = IF rows[JobOf[p]].status = "absent"
                   THEN [fresh EXCEPT ![r] = @ \cup {JobOf[p]}]
                   ELSE fresh
  /\ UNCHANGED <<runs, day, pc, run, fetched, chosen, viewer, history>>

UpsertsDone(r) ==
  /\ Goto(r, "upsert", "refilter")
  /\ \A s \in Sources : todo[r][s] = {}
  /\ UNCHANGED <<tables, day, memory, viewer, history>>

(* _retire_failing_jobs reads its candidates and judges them ...           *)
Refilter(r) ==
  /\ Goto(r, "refilter", "retire")
  /\ \E failing \in SUBSET {j \in Jobs : Retirable(rows[j])} :
       chosen' = [chosen EXCEPT ![r] = failing]
  /\ UNCHANGED <<tables, day, run, fetched, todo, fresh, viewer, history>>

RetireAll(r, retired(_)) ==
  /\ Goto(r, "retire", "expire")
  /\ rows' = [j \in Jobs |-> IF j \in chosen[r] THEN retired(rows[j]) ELSE rows[j]]
  /\ chosen' = [chosen EXCEPT ![r] = {}]
  /\ UNCHANGED <<runs, day, run, fetched, todo, fresh, viewer, history>>

(* ... and retires the failing ones in one transaction, later. *)
Retire(r) == RetireAll(r, retire_jobs)

ExpireAnySource(r) ==
  /\ Goto(r, "expire", "sweep")
  /\ rows' = [j \in Jobs |->
       IF rows[j].status = "absent" THEN rows[j]
       ELSE expire_stale(rows[j], run[r],
                         fetched[r][rows[j].source].outcome = "windowed", day)]
  /\ UNCHANGED <<runs, day, memory, viewer, history>>

(* expire_stale, one commit for all sources that succeeded.                *)
Expire(r) ==
  /\ Goto(r, "expire", "sweep")
  /\ rows' = [j \in Jobs |->
       IF \/ rows[j].status = "absent"
          \/ fetched[r][rows[j].source].outcome = "failed"
       THEN rows[j]
       ELSE expire_stale(rows[j], run[r],
                         fetched[r][rows[j].source].outcome = "windowed", day)]
  /\ UNCHANGED <<runs, day, memory, viewer, history>>

(* The closure sweep reads its rows once ... *)
SweepRead(r) ==
  /\ Goto(r, "sweep", "check")
  /\ chosen' = [chosen EXCEPT ![r] =
       {j \in Jobs : /\ rows[j].status \notin {"absent", "deleted"}
                     /\ rows[j].source \in Checkable}]
  /\ UNCHANGED <<tables, day, run, fetched, todo, fresh, viewer, history>>

SweepRecord(r, recorded(_, _)) ==
  /\ pc[r] = "check"
  /\ \E j \in chosen[r], verdict \in Verdicts :
       /\ rows' = [rows EXCEPT ![j] = recorded(@, verdict)]
       /\ chosen' = [chosen EXCEPT ![r] = @ \ {j}]
  /\ UNCHANGED <<runs, day, pc, run, fetched, todo, fresh, viewer, history>>

(* ... opens one page after another and records each verdict ... *)
SweepCheck(r) == SweepRecord(r, record_verdict)

(* ... until the budget is spent, every site blocks, or it raises. *)
SweepDone(r) ==
  /\ Goto(r, "check", "notify")
  /\ chosen' = [chosen EXCEPT ![r] = {}]
  /\ UNCHANGED <<tables, day, run, fetched, todo, fresh, viewer, history>>

AllNewRows(r) == {j \in Jobs : rows[j].status = "new"}

jobs_new_in_run(r) ==
  {j \in Jobs : rows[j].status = "new" /\ rows[j].last_seen_cycle = run[r]}

Notify(r) ==
  /\ Goto(r, "notify", "finish")
  /\ announced' = [j \in Jobs |->
       IF j \in jobs_new_in_run(r) THEN announced[j] + 1 ELSE announced[j]]
  /\ UNCHANGED <<tables, day, memory, viewer, crashes>>

run_status(results) ==
  LET ok  == {s \in Sources : results[s].outcome # "failed"}
      err == Sources \ ok
  IN CASE ok = {} /\ err = {} -> "success"
       [] ok = {} /\ err # {} -> "failed"
       [] ok # {} /\ err # {} -> "partial"
       [] OTHER -> "success"

Exit(r) == IF r \in Cli THEN "down" ELSE "ready"

(* The result of a cycle is forgotten with its stack frame. *)
Forget(r) ==
  /\ run' = [run EXCEPT ![r] = 0]
  /\ fetched' = [fetched EXCEPT ![r] = [s \in Sources |-> NoResult]]
  /\ todo' = [todo EXCEPT ![r] = [s \in Sources |-> {}]]
  /\ fresh' = [fresh EXCEPT ![r] = {}]
  /\ chosen' = [chosen EXCEPT ![r] = {}]

FinishRun(r) ==
  /\ Goto(r, "finish", Exit(r))
  /\ runs' = [runs EXCEPT ![run[r]] = run_status(fetched[r])]
  /\ Forget(r)
  /\ UNCHANGED <<rows, day, viewer, history>>

Looked(r) == {s \in Sources : fetched[r][s].outcome # "failed"}

(* What an exception leaves of the transaction it breaks off: some of the  *)
(* rows to retire, or some of the sources, one more perhaps with only the  *)
(* first of its two UPDATEs.  Which source comes first is left open.       *)
KeepPart(r) ==
  \/ UNCHANGED rows
  \/ /\ pc[r] = "retire"
     /\ \E part \in SUBSET chosen[r] :
          rows' = [j \in Jobs |->
            IF j \in part THEN retire_jobs(rows[j]) ELSE rows[j]]
  \/ /\ pc[r] = "expire"
     /\ \E part \in SUBSET Looked(r), last \in Looked(r) :
          rows' = [j \in Jobs |->
            IF rows[j].status = "absent" \/ rows[j].source \notin part \cup {last}
            THEN rows[j]
            ELSE LET windowed == fetched[r][rows[j].source].outcome = "windowed" IN
                 IF rows[j].source \in part
                 THEN expire_stale(rows[j], run[r], windowed, day)
                 ELSE Softened(rows[j], run[r], windowed, day)]

(* An exception in the cycle, for example a locked database: run_cycle     *)
(* finalises the run as failed and re-raises.  Its commit makes durable    *)
(* what a broken off retire_jobs or expire_stale had written.              *)
RaiseInCycle(r) ==
  /\ pc[r] \in CycleSteps
  /\ pc' = [pc EXCEPT ![r] = Exit(r)]
  /\ runs' = [runs EXCEPT ![run[r]] = "failed"]
  /\ Forget(r)
  /\ KeepPart(r)
  /\ UNCHANGED <<day, viewer, history>>

(* The same, when the UPDATE raises too ("could not finalize failed run"): *)
(* the process lives on, the row stays 'running', and a transaction broken *)
(* off is rolled back with the connection.                                 *)
RaiseUnfinalised(r) ==
  /\ pc[r] \in CycleSteps
  /\ crashes < MaxCrashes
  /\ crashes' = crashes + 1
  /\ pc' = [pc EXCEPT ![r] = Exit(r)]
  /\ Forget(r)
  /\ UNCHANGED <<tables, day, viewer, announced>>

(* The process is killed: the tables keep what was committed. *)
Crash(r) ==
  /\ pc[r] # "down"
  /\ crashes < MaxCrashes
  /\ crashes' = crashes + 1
  /\ pc' = [pc EXCEPT ![r] = "down"]
  /\ Forget(r)
  /\ UNCHANGED <<tables, day, viewer, announced>>

----------------------------------------------------------------------------
(* The dashboard and time *)

(* job_action: apply, unapply, bookmark, unbookmark. *)
JobAction(j, value) ==
  /\ rows[j].status # "absent"
  /\ rows[j].flagged # value
  /\ rows' = [rows EXCEPT ![j] = FlagRow(@, value)]
  /\ UNCHANGED <<runs, day, pc, memory, viewer, history>>

(* job_detail reads the row, ... *)
OpenDetail(j) ==
  /\ viewer = NoView
  /\ rows[j].status # "absent"
  /\ rows[j].source \in Checkable
  /\ viewer' = [job     |-> j,
                page    |-> rows[j].link,
                caches  |-> /\ rows[j].source \in PageSources
                            /\ rows[j].full_description = NoPosting,
                verdict |-> "unread"]
  /\ UNCHANGED <<tables, day, pc, memory, history>>

(* ... opens the page of the posting it read, caches its text when it is   *)
(* an Internshala page that parses, ...                                    *)
ReadPage ==
  /\ viewer # NoView
  /\ viewer.verdict = "unread"
  /\ \E verdict \in Verdicts, parsed \in BOOLEAN :
       /\ viewer' = [viewer EXCEPT !.verdict = verdict]
       /\ rows' = IF viewer.caches /\ parsed
                  THEN [rows EXCEPT ![viewer.job] = CacheText(@, viewer.page)]
                  ELSE rows
  /\ UNCHANGED <<runs, day, pc, memory, history>>

(* ... and records the verdict it read from it. *)
RecordDetail ==
  /\ viewer # NoView
  /\ viewer.verdict # "unread"
  /\ rows' = [rows EXCEPT ![viewer.job] = record_verdict(@, viewer.verdict)]
  /\ viewer' = NoView
  /\ UNCHANGED <<runs, day, pc, memory, history>>

Tick ==
  /\ day < MaxDay
  /\ day' = day + 1
  /\ UNCHANGED <<tables, pc, memory, viewer, history>>

----------------------------------------------------------------------------
CycleStep(r) ==
  \/ StartRun(r)
  \/ FetchAll(r)
  \/ UpsertNext(r)
  \/ UpsertsDone(r)
  \/ Refilter(r)
  \/ Retire(r)
  \/ Expire(r)
  \/ SweepRead(r)
  \/ SweepCheck(r)
  \/ SweepDone(r)
  \/ Notify(r)
  \/ FinishRun(r)

Next ==
  \/ \E r \in Runners :
       \/ Launch(r)
       \/ Reconcile(r)
       \/ SkipScheduler(r)
       \/ FindIdle(r)
       \/ Refuse(r)
       \/ CycleStep(r)
       \/ RaiseInCycle(r)
       \/ RaiseUnfinalised(r)
       \/ Crash(r)
  \/ \E j \in Jobs : \E value \in BOOLEAN : JobAction(j, value)
  \/ \E j \in Jobs : OpenDetail(j)
  \/ ReadPage
  \/ RecordDetail
  \/ Tick

Spec == Init /\ [][Next]_vars

(* A process that runs keeps running: its statements are not postponed for *)
(* ever, and a process that died is started again (systemd, the timer).    *)
(* Nobody has to trigger a cycle, raise, crash, or click.                  *)
FairSpec ==
  /\ Spec
  /\ \A r \in Runners :
       WF_vars(Launch(r)) /\ WF_vars(Reconcile(r)) /\ WF_vars(CycleStep(r))

----------------------------------------------------------------------------
(* Properties *)

Present(j) == rows[j].status # "absent"

(* Rows are never removed, so what a sweep, a refilter or a detail request *)
(* read earlier still names a row.                                         *)
ReadRowsExist ==
  /\ \A r \in Runners : \A j \in chosen[r] : Present(j)
  /\ viewer # NoView => Present(viewer.job)

(* A row's link, and the text cached for it, are a posting of that job at  *)
(* the source the row credits: the relink CASE of the upsert never moves a *)
(* row to another source's posting, and job_detail, which writes the text  *)
(* of the link it read earlier, never writes one of another source.        *)
LinkProvenance ==
  \A j \in Jobs : Present(j) =>
    \A p \in {rows[j].link, rows[j].full_description} \ {NoPosting} :
      JobOf[p] = j /\ SourceOf[p] = rows[j].source

(* The open detail request holds a posting of the row's job and source,    *)
(* although the row may have moved on since.                               *)
ViewProvenance ==
  viewer # NoView =>
    /\ Present(viewer.job)
    /\ JobOf[viewer.page] = viewer.job
    /\ SourceOf[viewer.page] = rows[viewer.job].source

(* "Notify once, never again": no job is in the new-only payload of two    *)
(* runs, whatever crashes, revives it after a deletion, or overlaps.       *)
AnnouncedOnce == \A j \in Jobs : announced[j] <= 1

(* Why AnnouncedOnce holds.  Live cycles hold different run_ids; a row was *)
(* last seen in a run that has started; and an announced row that is still *)
(* 'new' belongs to no live cycle that has yet to notify.                  *)
RunIdsDistinct ==
  \A r \in Runners : pc[r] \in CycleSteps =>
    /\ run[r] \in 1..Len(runs)
    /\ \A q \in Runners : pc[q] \in CycleSteps /\ run[q] = run[r] => q = r

SeenInStartedRun ==
  \A j \in Jobs : Present(j) => rows[j].last_seen_cycle \in 1..Len(runs)

AnnouncedIsSettled ==
  \A j \in Jobs : announced[j] = 0 \/
    /\ announced[j] = 1
    /\ Present(j)
    /\ rows[j].status = "new" =>
         \A r \in Runners : pc[r] \in CycleSteps \ {"finish"}
                              => run[r] # rows[j].last_seen_cycle

AnnouncementInv == RunIdsDistinct /\ SeenInStartedRun /\ AnnouncedIsSettled

(* The accepted postings of a job in the results of r's cycle. *)
Listings(r, j) == {p \in UNION {fetched[r][s].accepted : s \in Sources} : JobOf[p] = j}

(* A new job that one posting of the run accounts for reaches the payload  *)
(* of the run, unless the run has retired it: nothing between its insert   *)
(* and the notification, in one process, may move it out of the selection  *)
(* of jobs_new_in_run.                                                     *)
SoleNewJobsAnnounced ==
  [][\A r \in Runners : Notify(r) =>
       \A j \in fresh[r] :
         rows[j].status \in Visible /\ Cardinality(Listings(r, j)) = 1
           => announced'[j] = announced[j] + 1]_vars

(* "Jobs that became 'new' in THIS run" are what the notifier gets: every  *)
(* job this run inserted and left visible is in the payload.               *)
NewJobsAnnounced ==
  [][\A r \in Runners : Notify(r) =>
       \A j \in fresh[r] :
         rows[j].status \in Visible => announced'[j] = announced[j] + 1]_vars

(* Absence is evidence only where the cycle looked: a visible row is       *)
(* expired only when its source succeeded in that run, the run accepted no *)
(* posting of the job from any source, and a windowed source's posting is  *)
(* old enough, also when an exception breaks the expiry off and keeps a    *)
(* part of it.  (One process: a second one may be mid-cycle.)              *)
ExpiredOnlyIfLookedAndMissed ==
  [][\A r \in Runners : pc[r] = "expire" /\ pc'[r] # "expire" =>
       \A j \in Jobs :
         rows[j].status \in Visible /\ rows'[j].status # rows[j].status =>
           LET result == fetched[r][rows[j].source] IN
           /\ result.outcome # "failed"
           /\ Listings(r, j) = {}
           /\ result.outcome = "windowed" => DatedAt(rows[j]) + WindowDays < day]_vars

(* A row the owner flagged is deleted only by lapsing, when more days than *)
(* the grace period have passed since it was seen, never by a retire pass  *)
(* or a closure verdict, although both read their rows before he may have  *)
(* clicked.                                                                *)
FlaggedGoneOnlyOverdue ==
  [][\A j \in Jobs :
       Present(j) /\ rows[j].flagged /\ rows[j].status # "deleted"
       /\ rows'[j].status = "deleted" => rows[j].last_seen_at + GraceDays < day]_vars

(* "A flagged row must never disappear." *)
FlaggedNeverDisappears ==
  [][\A j \in Jobs :
       Present(j) /\ rows[j].flagged => rows'[j].status \in {rows[j].status, "active", "stale"}]_vars

(* While a row is flagged its link and a text already cached stay: they    *)
(* are "the only record of the posting he acted on".                       *)
FlaggedRecordKept ==
  [][\A j \in Jobs :
       Present(j) /\ rows[j].flagged =>
         /\ rows'[j].link = rows[j].link
         /\ rows[j].full_description # NoPosting
              => rows'[j].full_description # NoPosting]_vars

(* The cached text is dropped when the link changes, so it is the text of  *)
(* the posting the row links to.                                           *)
CachedTextIsOfLink ==
  \A j \in Jobs : Present(j) => rows[j].full_description \in {NoPosting, rows[j].link}

(* "A 'running' row at boot is by definition abandoned": reconciling never *)
(* fails the run of a cycle that is still alive in another process.        *)
ReconciledWereAbandoned ==
  [][\A r, q \in Runners :
       Reconcile(r) /\ pc[q] \in CycleSteps => runs'[run[q]] = runs[run[q]]]_vars

(* What the dashboard shows as a run's outcome is final: a finished run is *)
(* not rewritten, by its own cycle or by the reconciliation at a restart.  *)
(* (One process: a `run` command reconciles the rows of a live `serve`.)   *)
RunOutcomeFinal ==
  [][\A i \in DOMAIN runs :
       runs[i] # "running" => runs'[i] = runs[i]]_vars

Unfinished(i) == i \in DOMAIN runs /\ runs[i] = "running"

(* A process that reconciles when it starts is down or starting. *)
Restarting == \E r \in Runners \ Unscheduled : pc[r] \in {"down", "boot"}

(* Every process is up and idle: only a restart or a `run` command would   *)
(* reconcile a run that is still 'running' now.                            *)
AwaitsRestart == \A r \in Runners : pc[r] = "ready"

(* A run does not stay 'running', which would refuse every later cycle:    *)
(* its cycle finalises it, unless even the UPDATE that marks it failed was *)
(* lost, and a process that restarts ends every run it finds 'running'.    *)
EveryRunEnds ==
  \A i \in 1..MaxRuns :
    /\ Unfinished(i) ~> (~Unfinished(i) \/ AwaitsRestart)
    /\ Unfinished(i) /\ Restarting ~> ~Unfinished(i)

(* The ledger the cycle, its crashes and the dashboard implement. *)
EntryOf(j) ==
  LET row == rows[j] IN
  IF row.status = "absent" THEN [life |-> "unknown"]
  ELSE [life    |-> CASE row.status \in Visible -> "listed"
                      [] row.status = "stale" -> "stale"
                      [] row.status = "deleted" -> "gone",
        flagged |-> row.flagged,
        sighted |-> row.last_seen_at,
        told    |-> announced[j]]

ledgerBar == [j \in Jobs |-> EntryOf(j)]

Ledger == INSTANCE JobLedger WITH ledger <- ledgerBar, today <- day

(* Every step of every process is a ledger step: jobs are listed when      *)
(* sighted, told at most once, and dropped only when unflagged or lapsed.  *)
ImplementsLedger == Ledger!Spec
=============================================================================

------------------------------ MODULE JobRows ------------------------------
(***************************************************************************)
(* The rows of the jobs table (storage/schema.sql) and the statements that *)
(* change one row: the upsert of storage/jobs_repo.py, the two expiry      *)
(* UPDATEs of pipeline/stale.py, the retire UPDATE, the closure verdict of *)
(* sources/closure.py and the dashboard's flag and cached-text writes.     *)
(* No state lives here: RunCycle applies these operators to its table.     *)
(*                                                                         *)
(* A posting is one advertisement at one source under one id or link       *)
(* (source_native_id, or the url where a source has no id).  Several       *)
(* postings may hash to one job_uid: other sources list the same job, and  *)
(* a source may repost it under a new id.  Days are integers.              *)
(***************************************************************************)
EXTENDS Integers

CONSTANTS
  Jobs,        \* job_uids
  Sources,     \* (sub-)source names, as source_runs records them
  Postings,    \* postings the sources may list
  JobOf,       \* the job_uid a posting hashes to (pipeline/dedup.py)
  SourceOf,    \* the source that lists a posting
  PostedOn,    \* posted_at of a posting, or NoDate
  NoDate,
  NoPosting,   \* "no cached full_description"
  GraceDays,   \* schedule.grace_days
  WindowDays   \* schedule.windowed_retire_days

ASSUME PostingsAssumption ==
  /\ JobOf \in [Postings -> Jobs]
  /\ SourceOf \in [Postings -> Sources]
  /\ PostedOn \in [Postings -> Int \cup {NoDate}]
  /\ NoDate \notin Int
  /\ NoPosting \notin Postings

ASSUME DaysAssumption == GraceDays \in Int /\ WindowDays \in Int

Visible == {"new", "active"}
Statuses == Visible \cup {"stale", "deleted"}

(* flagged stands for applied = 1 OR bookmarked = 1, which the code always *)
(* reads together.  link stands for the pair url, source_native_id.        *)
(* full_description is the posting whose text is cached.                   *)
Row == [status           : Statuses,
        source           : Sources,
        link             : Postings,
        posted_at        : Int \cup {NoDate},
        first_seen_at    : Int,
        last_seen_at     : Int,
        last_seen_cycle  : Int,
        flagged          : BOOLEAN,
        full_description : Postings \cup {NoPosting}]

NoRow == [status |-> "absent"]

PostingsOf(s) == {p \in Postings : SourceOf[p] = s}

----------------------------------------------------------------------------
(* INSERT ... ON CONFLICT(job_uid) DO UPDATE *)

InsertedUnstamped(p, run, now) ==
  [status           |-> "new",
   source           |-> SourceOf[p],
   link             |-> p,
   posted_at        |-> PostedOn[p],
   first_seen_at    |-> now,
   last_seen_at     |-> now,
   last_seen_cycle  |-> 0,
   flagged          |-> FALSE,
   full_description |-> NoPosting]

Inserted(p, run, now) ==
  [status           |-> "new",
   source           |-> SourceOf[p],
   link             |-> p,
   posted_at        |-> PostedOn[p],
   first_seen_at    |-> now,
   last_seen_at     |-> now,
   last_seen_cycle  |-> run,
   flagged          |-> FALSE,
   full_description |-> NoPosting]

RelinkedWhenFlagged(row, p, run) ==
  /\ SourceOf[p] = row.source
  /\ row.last_seen_cycle # run
  /\ p # row.link

RelinkedAcrossSources(row, p, run) ==
  /\ ~row.flagged
  /\ row.last_seen_cycle # run
  /\ p # row.link

Relinked(row, p, run) ==
  /\ SourceOf[p] = row.source
  /\ ~row.flagged
  /\ row.last_seen_cycle # run
  /\ p # row.link

Refreshed(row, p, run, now) ==
  LET moved == Relinked(row, p, run) IN
  [row EXCEPT !.status = "active",
              !.posted_at = PostedOn[p],
              !.last_seen_at = now,
              !.last_seen_cycle = run,
              !.link = IF moved THEN p ELSE @,
              !.full_description = IF moved THEN NoPosting ELSE @]

UpsertAsNew(row, p, run, now) ==
  IF row.status = "absent" THEN Inserted(p, run, now)
  ELSE [Refreshed(row, p, run, now) EXCEPT !.status = "new"]

UpsertReplacing(row, p, run, now) == Inserted(p, run, now)

upsert_job(row, p, run, now) ==
  IF row.status = "absent" THEN Inserted(p, run, now)
  ELSE Refreshed(row, p, run, now)

----------------------------------------------------------------------------
(* The two UPDATEs of expire_stale, for a row whose source succeeded *)

DatedAt(row) ==
  IF row.posted_at = NoDate THEN row.first_seen_at ELSE row.posted_at

MissedBy(row, run, windowed, now) ==
  /\ row.status \in Visible
  /\ row.last_seen_cycle < run
  /\ windowed => DatedAt(row) + WindowDays < now

Overdue(row, now) == row.last_seen_at + GraceDays < now

SoftenedAsExpired(row, run, windowed, now) ==
  IF MissedBy(row, run, windowed, now) THEN [row EXCEPT !.status = "expired"]
  ELSE row

Softened(row, run, windowed, now) ==
  IF MissedBy(row, run, windowed, now) THEN [row EXCEPT !.status = "stale"]
  ELSE row

expire_stale(row, run, windowed, now) ==
  LET soft == Softened(row, run, windowed, now) IN
  IF soft.status = "stale" /\ Overdue(soft, now)
  THEN [soft EXCEPT !.status = "deleted"]
  ELSE soft

----------------------------------------------------------------------------
(* Retiring, closure verdicts and the dashboard's writes *)

(* refilter_candidates selects these rows, and retire_jobs repeats the     *)
(* same guard in its UPDATE.                                               *)
Retirable(row) ==
  /\ row.status \notin {"absent", "deleted"}
  /\ ~row.flagged

RetireUnguarded(row) == [row EXCEPT !.status = "deleted"]

retire_jobs(row) ==
  IF Retirable(row) THEN [row EXCEPT !.status = "deleted"] ELSE row

Verdicts == {"closed", "open", "unknown"}

RecordUnguarded(row, verdict) ==
  IF verdict = "closed" THEN [row EXCEPT !.status = "deleted"] ELSE row

record_verdict(row, verdict) ==
  IF verdict = "closed" /\ ~row.flagged THEN [row EXCEPT !.status = "deleted"]
  ELSE row

FlagRow(row, value) == [row EXCEPT !.flagged = value]

CacheText(row, p) == [row EXCEPT !.full_description = p]
=============================================================================

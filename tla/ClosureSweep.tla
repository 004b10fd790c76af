---------------------------- MODULE ClosureSweep ----------------------------
(***************************************************************************)
(* Closed-application checks: the sweep at the end of a run and the modal  *)
(* of the dashboard (sources/closure.py, job_detail of routes_jobs.py),    *)
(* over rows whose posting the sites close, and which runs list again and  *)
(* relink.                                                                 *)
(*                                                                         *)
(* Every row is of a checkable source, and a source is one site.  order is *)
(* the sweep's ORDER BY: COALESCE(closure_checked_at, first_seen_at), the  *)
(* oldest first; ties by score are an initial choice.  since counts the    *)
(* days since the last check.  A hidden row is one that is not visible.    *)
(***************************************************************************)
EXTENDS Integers, Sequences, FiniteSets, SequencesExt, Selection

CONSTANTS
  Rows,
  SiteOf,       \* the source of a row
  Requestable,  \* rows a safe URL can be built for (_target_url)
  Limit,        \* schedule.closure_checks_per_run
  RecheckDays,  \* SWEEP_RECHECK
  OpenDays,     \* _OPEN_RECHECK
  ClickedRows,  \* rows the user opens and flags
  MaxTrouble    \* bound: relinks by later runs, and sweeps that raise

Sites == {SiteOf[r] : r \in Rows}
Verdicts == {"closed", "open", "unknown"}
NoRow == "none"

ASSUME SweepAssumption ==
  /\ IsFiniteSet(Rows) /\ NoRow \notin Rows
  /\ Requestable \subseteq Rows
  /\ ClickedRows \subseteq Rows
  /\ MaxTrouble \in Nat
  /\ Limit \in Nat \ {0}
  /\ RecheckDays \in Nat \ {0}
  /\ OpenDays \in 1..RecheckDays

VARIABLES
  visible,   \* rows that are not deleted
  flagged,   \* rows the user applied to or bookmarked
  shows,      \* what the posting a row links to shows: "open" or "closed"
  link,      \* which posting a row links to
  order,     \* the rows, the one of the oldest knowledge first
  since,     \* days since closure_checked_at; RecheckDays if more, or never
  sweeping,
  pending,   \* the rows the sweep selected and has not reached
  asked,     \* the row whose page is being read
  blocked,   \* sites that gave an answer without a marker
  checks,    \* requests of this sweep
  modal,     \* the dashboard's check: [row, link, verdict]
  trouble    \* relinks and raises so far

table == <<visible, flagged, shows, link, order, since>>
locals == <<sweeping, pending, asked, blocked, checks>>
sweepVars == <<table, locals, modal, trouble>>

NoModal == [row |-> NoRow]

SweepTypeOK ==
  /\ visible \subseteq Rows
  /\ flagged \subseteq Rows
  /\ shows \in [Rows -> {"open", "closed"}]
  /\ link \in [Rows -> Nat]
  /\ order \in Seq(Rows)
  /\ since \in [Rows -> 0..RecheckDays]
  /\ sweeping \in BOOLEAN
  /\ pending \in Seq(Rows)
  /\ asked \in Rows \cup {NoRow}
  /\ blocked \subseteq Sites
  /\ checks \in 0..Limit
  /\ modal = NoModal \/ modal \in [row : Rows, link : Nat, verdict : Verdicts]
  /\ trouble \in 0..MaxTrouble
  /\ asked # NoRow => sweeping /\ checks > 0

SweepInit ==
  /\ visible = Rows
  /\ flagged \in SUBSET ClickedRows
  /\ shows = [r \in Rows |-> "open"]
  /\ link = [r \in Rows |-> 1]
  /\ order \in SetToSeqs(Rows)
  /\ since = [r \in Rows |-> RecheckDays]
  /\ sweeping = FALSE
  /\ pending = <<>>
  /\ asked = NoRow
  /\ blocked = {}
  /\ checks = 0
  /\ modal = NoModal
  /\ trouble = 0

----------------------------------------------------------------------------
(* What the page of a row answers: the state it shows, or something without*)
(* a marker (a block, a redirect, a timeout, a redesign).                  *)
check_posting(r) == IF r \in Requestable THEN {shows[r], "unknown"} ELSE {"unknown"}

RecordAllButOpen(r, verdict) ==
  /\ visible' = IF verdict # "open" /\ r \notin flagged THEN visible \ {r} ELSE visible
  /\ since' = [since EXCEPT ![r] = 0]
  /\ order' = Append(Picked(order, {i \in DOMAIN order : order[i] # r}), r)
  /\ UNCHANGED <<flagged, shows, link>>

RecordUnstamped(r, verdict) ==
  /\ visible' = IF verdict = "closed" /\ r \notin flagged THEN visible \ {r} ELSE visible
  /\ UNCHANGED <<flagged, shows, link, order, since>>

(* record_verdict stamps closure_checked_at and deletes a closed row. *)
record_verdict(r, verdict) ==
  /\ visible' = IF verdict = "closed" /\ r \notin flagged THEN visible \ {r} ELSE visible
  /\ since' = [since EXCEPT ![r] = 0]
  /\ order' = Append(Picked(order, {i \in DOMAIN order : order[i] # r}), r)
  /\ UNCHANGED <<flagged, shows, link>>

----------------------------------------------------------------------------
(* sweep, one row at a time *)

Due(r) == r \in visible /\ since[r] >= RecheckDays

(* The snapshot of rows to check, the oldest knowledge first. *)
SweepBegin ==
  /\ ~sweeping
  /\ sweeping' = TRUE
  /\ pending' = Picked(order, {i \in DOMAIN order : Due(order[i])})
  /\ blocked' = {}
  /\ checks' = 0
  /\ UNCHANGED <<table, asked, modal, trouble>>

Exhausted == pending = <<>> \/ checks >= Limit \/ blocked = Sites

Reached == sweeping /\ asked = NoRow /\ ~Exhausted

(* A blocked site's row is neither stamped nor counted. *)
SkipBlocked ==
  /\ Reached
  /\ SiteOf[Head(pending)] \in blocked
  /\ pending' = Tail(pending)
  /\ UNCHANGED <<table, sweeping, asked, blocked, checks, modal, trouble>>

(* A row no request can be made for is stamped without one. *)
StampUnrequestable ==
  /\ Reached
  /\ Head(pending) \notin Requestable
  /\ SiteOf[Head(pending)] \notin blocked
  /\ record_verdict(Head(pending), "unknown")
  /\ pending' = Tail(pending)
  /\ UNCHANGED <<sweeping, asked, blocked, checks, modal, trouble>>

Request ==
  /\ Reached
  /\ Head(pending) \in Requestable
  /\ SiteOf[Head(pending)] \notin blocked
  /\ asked' = Head(pending)
  /\ checks' = checks + 1
  /\ pending' = Tail(pending)
  /\ UNCHANGED <<table, sweeping, blocked, modal, trouble>>

(* An answer without a marker blocks the site for the rest of the sweep.   *)
Answer ==
  /\ asked # NoRow
  /\ \E verdict \in check_posting(asked) :
       /\ record_verdict(asked, verdict)
       /\ IF verdict = "unknown"
          THEN blocked' = blocked \cup {SiteOf[asked]}
          ELSE UNCHANGED blocked
  /\ asked' = NoRow
  /\ UNCHANGED <<sweeping, pending, checks, modal, trouble>>

SweepOver ==
  /\ sweeping' = FALSE
  /\ pending' = <<>>
  /\ asked' = NoRow
  /\ blocked' = {}
  /\ checks' = 0
  /\ UNCHANGED <<table, modal>>

SweepEnd ==
  /\ sweeping
  /\ asked = NoRow
  /\ Exhausted
  /\ SweepOver
  /\ UNCHANGED trouble

(* An exception costs only this sweep. *)
SweepRaises ==
  /\ sweeping
  /\ trouble < MaxTrouble
  /\ SweepOver
  /\ trouble' = trouble + 1

----------------------------------------------------------------------------
(* The dashboard: job_detail reads the row and the page, then records  *)

OpenDue(r) == since[r] >= OpenDays

(* Internshala's page is fetched for its text anyway, until that is cached.*)
OpenPosting ==
  /\ modal = NoModal
  /\ \E r \in ClickedRows, v \in Verdicts :
       /\ OpenDue(r) \/ SiteOf[r] = "internshala"
       /\ v \in check_posting(r)
       /\ modal' = [row |-> r, link |-> link[r], verdict |-> v]
  /\ UNCHANGED <<table, locals, trouble>>

RecordOpened ==
  /\ modal # NoModal
  /\ record_verdict(modal.row, modal.verdict)
  /\ modal' = NoModal
  /\ UNCHANGED <<locals, trouble>>

----------------------------------------------------------------------------
(* The world: sites close postings, days pass, runs list rows again *)

SiteCloses ==
  /\ \E r \in Rows :
       /\ shows[r] = "open"
       /\ shows' = [shows EXCEPT ![r] = "closed"]
  /\ UNCHANGED <<visible, flagged, link, order, since, locals, modal, trouble>>

NextDay ==
  /\ ~sweeping
  /\ \E r \in Rows : since[r] < RecheckDays
  /\ since' = [r \in Rows |-> IF since[r] < RecheckDays THEN since[r] + 1 ELSE since[r]]
  /\ UNCHANGED <<visible, flagged, shows, link, order, locals, modal, trouble>>

(* The upsert of a run, before its sweep, makes a listed row active again, *)
(* also one whose posting is closed and still listed.                      *)
ListAgain ==
  /\ ~sweeping
  /\ \E r \in Rows \ visible : visible' = visible \cup {r}
  /\ UNCHANGED <<flagged, shows, link, order, since, locals, modal, trouble>>

(* A repost takes the row over: the check is forgotten, and the row sorts  *)
(* by first_seen_at again, which is no later than its last check.          *)
Relink ==
  /\ ~sweeping
  /\ trouble < MaxTrouble
  /\ trouble' = trouble + 1
  /\ \E i \in DOMAIN order : \E j \in 1..i :
       LET r == order[i] IN
       /\ r \notin flagged
       /\ link' = [link EXCEPT ![r] = @ + 1]
       /\ shows' = [shows EXCEPT ![r] = "open"]
       /\ since' = [since EXCEPT ![r] = RecheckDays]
       /\ visible' = visible \cup {r}
       /\ order' = InsertAt(RemoveAt(order, i), j, r)
  /\ UNCHANGED <<flagged, locals, modal>>

ToggleSweptFlag ==
  /\ \E r \in ClickedRows : flagged' = IF r \in flagged THEN flagged \ {r} ELSE flagged \cup {r}
  /\ UNCHANGED <<visible, shows, link, order, since, locals, modal, trouble>>

----------------------------------------------------------------------------
SweepStep ==
  SweepBegin \/ SkipBlocked \/ StampUnrequestable \/ Request \/ Answer \/ SweepEnd

SweepNext ==
  \/ SweepStep \/ SweepRaises
  \/ OpenPosting \/ RecordOpened
  \/ SiteCloses \/ NextDay \/ ListAgain \/ Relink \/ ToggleSweptFlag

SweepSpec == SweepInit /\ [][SweepNext]_sweepVars

----------------------------------------------------------------------------
(* Properties *)

(* "Never closed": a row leaves the feed only when its posting is closed.  *)
(* The one exception is the modal: when a run relinks the row between the  *)
(* page the modal read and the verdict it records, the new, open posting is*)
(* deleted for the old one's sake.                                         *)
OnlyClosedRowsGo ==
  [][\A r \in visible \ visible' :
       \/ shows[r] = "closed"
       \/ modal.row = r /\ modal.link # link[r]]_sweepVars

(* "25 checks a run still reach rows that were never checked": every row   *)
(* that is due is checked or gone in the end, although the budget is small,*)
(* sites block, and rows of blocked sites keep their place.                *)
EveryDueRowIsReached == \A r \in Rows : Due(r) ~> ~Due(r)
=============================================================================

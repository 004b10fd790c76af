----------------------------- MODULE StagesProofs -----------------------------
(***************************************************************************)
(* The stages of a run around its database work: the closure checks and the*)
(* end of a run (its digests), each for any rows, jobs, limits and delays; *)
(* and that in the instance the runs check, where one stage moves while the*)
(* others rest, the state of every stage stays well-formed.                *)
(***************************************************************************)
EXTENDS MCStages, SourceFetchProofs, IngestProofs

----------------------------------------------------------------------------
(* Closure checks.  A row leaves the feed only when its posting is closed, *)
(* but for the one that was relinked under an open modal: the invariant    *)
(* carries a verdict from the page it was read on to the row it is recorded*)
(* on.                                                                     *)

(* What the verdict of the modal says of the row's posting, or of the one  *)
(* the row linked to.                                                      *)
VerdictHolds ==
  modal # NoModal =>
    /\ modal.link <= link[modal.row]
    /\ modal.verdict = "closed" =>
         \/ shows[modal.row] = "closed"
         \/ modal.link # link[modal.row]

SweepInv == SweepTypeOK /\ VerdictHolds

(* At first no modal is open. *)
LEMMA InitSweep == SweepInit => SweepInv
<1> SUFFICES ASSUME SweepInit PROVE SweepInv
  OBVIOUS
<1>1. order \in Seq(Rows)
  <2>1. Cardinality(Rows) \in Nat
    BY SweepAssumption, FS_CardinalityType
  <2>2. order \in [1..Cardinality(Rows) -> Rows]
    BY DEF SweepInit, SetToSeqs
  <2> QED BY <2>1, <2>2
<1>2. VerdictHolds
  BY DEF SweepInit, VerdictHolds
<1>3. SweepTypeOK
  <2>1. /\ visible \subseteq Rows /\ flagged \subseteq Rows
        /\ shows \in [Rows -> {"open", "closed"}]
        /\ link \in [Rows -> Nat]
        /\ since \in [Rows -> 0..RecheckDays]
    BY SweepAssumption DEF SweepInit
  <2>2. pending \in Seq(Rows) /\ checks \in 0..Limit /\ trouble \in 0..MaxTrouble
    BY SweepAssumption DEF SweepInit
  <2>3. sweeping \in BOOLEAN /\ asked = NoRow /\ blocked \subseteq Sites /\ modal = NoModal
    BY DEF SweepInit
  <2> QED BY <1>1, <2>1, <2>2, <2>3 DEF SweepTypeOK
<1> QED BY <1>2, <1>3 DEF SweepInv

(* What is left of the order or of a snapshot is a list of rows. *)
LEMMA RowLists ==
  ASSUME NEW rowsOf, NEW s \in Seq(rowsOf)
  PROVE  /\ \A r \in rowsOf : Append(Picked(s, {i \in DOMAIN s : s[i] # r}), r) \in Seq(rowsOf)
         /\ \A places \in SUBSET DOMAIN s : Picked(s, places) \in Seq(rowsOf)
         /\ s # <<>> => Head(s) \in rowsOf /\ Tail(s) \in Seq(rowsOf)
         /\ \A i \in DOMAIN s : \A j \in 1..i : InsertAt(RemoveAt(s, i), j, s[i]) \in Seq(rowsOf)
<1>1. \A places \in SUBSET DOMAIN s : Picked(s, places) \in Seq(rowsOf)
  BY PickedFacts
<1>2. \A r \in rowsOf : Append(Picked(s, {i \in DOMAIN s : s[i] # r}), r) \in Seq(rowsOf)
  <2> TAKE r \in rowsOf
  <2>1. Picked(s, {i \in DOMAIN s : s[i] # r}) \in Seq(rowsOf)
    BY <1>1
  <2> HIDE DEF Picked
  <2> QED BY <2>1
<1>3. \A t, u \in Seq(rowsOf) : t \o u \in Seq(rowsOf) /\ Len(t \o u) = Len(t) + Len(u)
  OBVIOUS
<1>4. ASSUME NEW t \in Seq(rowsOf), NEW m \in Nat, NEW n \in Nat, n <= Len(t), 1 <= m
      PROVE  /\ SubSeq(t, m, n) \in Seq(rowsOf)
             /\ Len(SubSeq(t, m, n)) = IF m <= n THEN n - m + 1 ELSE 0
  BY <1>4
<1>5. ASSUME NEW i \in DOMAIN s, NEW j \in 1..i
      PROVE  InsertAt(RemoveAt(s, i), j, s[i]) \in Seq(rowsOf)
  <2>1. i \in Nat /\ i >= 1 /\ i <= Len(s) /\ Len(s) \in Nat /\ j \in Nat /\ j >= 1 /\ j <= i
    OBVIOUS
  <2>2. SubSeq(s, 1, i - 1) \in Seq(rowsOf) /\ Len(SubSeq(s, 1, i - 1)) = i - 1
    BY <2>1, <1>4
  <2>3. SubSeq(s, i + 1, Len(s)) \in Seq(rowsOf) /\ Len(SubSeq(s, i + 1, Len(s))) = Len(s) - i
    BY <2>1, <1>4
  <2> DEFINE t == RemoveAt(s, i)
  <2>4. t \in Seq(rowsOf) /\ Len(t) = Len(s) - 1
    <3>1. t = SubSeq(s, 1, i - 1) \o SubSeq(s, i + 1, Len(s))
      BY DEF RemoveAt
    <3>2. t \in Seq(rowsOf) /\ Len(t) = (i - 1) + (Len(s) - i)
      BY <2>2, <2>3, <3>1, <1>3
    <3> QED BY <2>1, <3>2
  <2> HIDE DEF t
  <2>5. j - 1 <= Len(t) /\ j - 1 \in Nat /\ Len(t) \in Nat
    BY <2>1, <2>4
  <2>6. SubSeq(t, 1, j - 1) \in Seq(rowsOf) /\ SubSeq(t, j, Len(t)) \in Seq(rowsOf)
    BY <2>1, <2>4, <2>5, <1>4
  <2>7. <<s[i]>> \in Seq(rowsOf)
    BY <2>1
  <2>8. InsertAt(t, j, s[i]) \in Seq(rowsOf)
    BY <2>6, <2>7, <1>3 DEF InsertAt
  <2> QED BY <2>8 DEF t
<1>6. s # <<>> => Head(s) \in rowsOf /\ Tail(s) \in Seq(rowsOf)
  OBVIOUS
<1> QED BY <1>1, <1>2, <1>5, <1>6

(* Recording a verdict on a row leaves the table well-formed. *)
LEMMA RecordedType ==
  ASSUME SweepTypeOK, NEW r \in Rows, NEW v, record_verdict(r, v)
  PROVE  /\ visible' \subseteq Rows
         /\ since' \in [Rows -> 0..RecheckDays]
         /\ order' \in Seq(Rows)
         /\ UNCHANGED <<flagged, shows, link>>
<1>1. order' \in Seq(Rows)
  BY RowLists DEF record_verdict, SweepTypeOK
<1>2. since' \in [Rows -> 0..RecheckDays]
  BY SweepAssumption DEF record_verdict, SweepTypeOK
<1> QED BY <1>1, <1>2 DEF record_verdict, SweepTypeOK

(* A step of a sweep keeps the types: no more checks than the limit, and a *)
(* page is read only in a sweep that counted it.                           *)
LEMMA SweepingType ==
  ASSUME SweepTypeOK, SweepStep \/ SweepRaises
  PROVE  SweepTypeOK'
<1> USE SweepAssumption
<1>1. CASE SweepBegin
  <2>1. pending' \in Seq(Rows)
    BY <1>1, RowLists DEF SweepBegin, SweepTypeOK
  <2> QED BY <1>1, <2>1 DEF SweepBegin, SweepTypeOK, table
<1>2. CASE SkipBlocked
  <2>1. pending' \in Seq(Rows)
    BY <1>2 DEF SkipBlocked, SweepTypeOK, Reached, Exhausted
  <2> QED BY <1>2, <2>1 DEF SkipBlocked, SweepTypeOK, table
<1>3. CASE StampUnrequestable
  <2>1. pending' \in Seq(Rows) /\ Head(pending) \in Rows
    BY <1>3 DEF StampUnrequestable, SweepTypeOK, Reached, Exhausted
  <2>2. record_verdict(Head(pending), "unknown")
    BY <1>3 DEF StampUnrequestable
  <2>3. /\ visible' \subseteq Rows /\ since' \in [Rows -> 0..RecheckDays]
        /\ order' \in Seq(Rows) /\ UNCHANGED <<flagged, shows, link>>
    BY <2>1, <2>2, RecordedType
  <2>4. UNCHANGED <<sweeping, asked, blocked, checks, modal, trouble>>
    BY <1>3 DEF StampUnrequestable
  <2> QED BY <2>1, <2>3, <2>4 DEF SweepTypeOK
<1>4. CASE Request
  <2>1. pending' \in Seq(Rows) /\ Head(pending) \in Rows
    BY <1>4 DEF Request, SweepTypeOK, Reached, Exhausted
  <2>2. checks' \in 0..Limit /\ checks' > 0 /\ sweeping /\ sweeping' = sweeping
    BY <1>4 DEF Request, SweepTypeOK, Reached, Exhausted
  <2>3. asked' \in Rows /\ UNCHANGED <<table, sweeping, blocked, modal, trouble>>
    BY <1>4, <2>1 DEF Request
  <2> QED BY <2>1, <2>2, <2>3 DEF SweepTypeOK, table
<1>5. CASE Answer
  <2>1. asked \in Rows
    BY <1>5 DEF Answer, SweepTypeOK
  <2>2. PICK v \in check_posting(asked) :
          record_verdict(asked, v) /\ (blocked' = blocked \cup {SiteOf[asked]} \/ blocked' = blocked)
    BY <1>5 DEF Answer
  <2>3. /\ visible' \subseteq Rows /\ since' \in [Rows -> 0..RecheckDays]
        /\ order' \in Seq(Rows) /\ UNCHANGED <<flagged, shows, link>>
    BY <2>1, <2>2, RecordedType
  <2>4. blocked' \subseteq Sites
    BY <2>1, <2>2 DEF SweepTypeOK, Sites
  <2>5. asked' = NoRow /\ UNCHANGED <<sweeping, pending, checks, modal, trouble>>
    BY <1>5 DEF Answer
  <2> QED BY <2>3, <2>4, <2>5 DEF SweepTypeOK
<1>6. CASE SweepEnd \/ SweepRaises
  <2>1. SweepOver /\ trouble' \in 0..MaxTrouble
    BY <1>6 DEF SweepEnd, SweepRaises, SweepTypeOK
  <2>2. pending' \in Seq(Rows) /\ checks' \in 0..Limit /\ blocked' \subseteq Sites
    BY <2>1 DEF SweepOver
  <2>3. asked' = NoRow /\ sweeping' = FALSE /\ UNCHANGED <<table, modal>>
    BY <2>1 DEF SweepOver
  <2> QED BY <2>1, <2>2, <2>3 DEF SweepTypeOK, table
<1> QED BY <1>1, <1>2, <1>3, <1>4, <1>5, <1>6 DEF SweepStep

(* So do the modal, the sites, the days and the runs. *)
LEMMA AroundTheSweepType ==
  ASSUME SweepTypeOK,
         \/ OpenPosting \/ RecordOpened
         \/ SiteCloses \/ NextDay \/ ListAgain \/ Relink \/ ToggleSweptFlag
  PROVE  SweepTypeOK'
<1> USE SweepAssumption
<1>1. CASE OpenPosting
  <2>1. PICK r \in ClickedRows, v \in Verdicts : modal' = [row |-> r, link |-> link[r], verdict |-> v]
    BY <1>1 DEF OpenPosting
  <2>2. modal' \in [row : Rows, link : Nat, verdict : Verdicts]
    BY <2>1 DEF SweepTypeOK
  <2> QED BY <1>1, <2>2 DEF OpenPosting, SweepTypeOK, table, locals
<1>2. CASE RecordOpened
  <2>1. modal.row \in Rows /\ record_verdict(modal.row, modal.verdict)
    BY <1>2 DEF RecordOpened, SweepTypeOK
  <2>2. /\ visible' \subseteq Rows /\ since' \in [Rows -> 0..RecheckDays]
        /\ order' \in Seq(Rows) /\ UNCHANGED <<flagged, shows, link>>
    BY <2>1, RecordedType
  <2>3. modal' = NoModal /\ UNCHANGED <<locals, trouble>>
    BY <1>2 DEF RecordOpened
  <2> QED BY <2>2, <2>3 DEF SweepTypeOK, locals
<1>3. CASE SiteCloses
  BY <1>3 DEF SiteCloses, SweepTypeOK, locals
<1>4. CASE NextDay
  <2>1. since' \in [Rows -> 0..RecheckDays]
    BY <1>4 DEF NextDay, SweepTypeOK
  <2> QED BY <1>4, <2>1 DEF NextDay, SweepTypeOK, locals
<1>5. CASE ListAgain
  BY <1>5 DEF ListAgain, SweepTypeOK, locals
<1>6. CASE Relink
  <2>1. PICK i \in DOMAIN order : \E j \in 1..i :
          /\ link' = [link EXCEPT ![order[i]] = @ + 1]
          /\ shows' = [shows EXCEPT ![order[i]] = "open"]
          /\ since' = [since EXCEPT ![order[i]] = RecheckDays]
          /\ visible' = visible \cup {order[i]}
          /\ order' = InsertAt(RemoveAt(order, i), j, order[i])
    BY <1>6 DEF Relink
  <2>2. order' \in Seq(Rows)
    BY <2>1, RowLists DEF SweepTypeOK
  <2>3. order[i] \in Rows
    BY DEF SweepTypeOK
  <2>4. link' \in [Rows -> Nat]
    <3>1. link \in [Rows -> Nat] /\ link[order[i]] + 1 \in Nat
      BY <2>3 DEF SweepTypeOK
    <3> QED BY <3>1, <2>1
  <2>5. /\ shows' \in [Rows -> {"open", "closed"}]
        /\ since' \in [Rows -> 0..RecheckDays]
        /\ visible' \subseteq Rows
    BY <2>1, <2>3 DEF SweepTypeOK
  <2>6. trouble' \in 0..MaxTrouble /\ UNCHANGED <<flagged, locals, modal>>
    BY <1>6 DEF Relink, SweepTypeOK
  <2> QED BY <2>2, <2>4, <2>5, <2>6 DEF SweepTypeOK, locals
<1>7. CASE ToggleSweptFlag
  BY <1>7 DEF ToggleSweptFlag, SweepTypeOK, locals
<1> QED BY <1>1, <1>2, <1>3, <1>4, <1>5, <1>6, <1>7

(* While the posting of a row is not replaced, what was read of it holds: a*)
(* closed posting is not opened again.                                     *)
LEMMA SamePosting ==
  ASSUME SweepInv, UNCHANGED <<modal, link>>,
         \A r \in Rows : shows[r] = "closed" => shows'[r] = "closed"
  PROVE  VerdictHolds'
<1>1. modal # NoModal => modal.row \in Rows
  BY DEF SweepInv, SweepTypeOK
<1> QED BY <1>1 DEF SweepInv, VerdictHolds

(* The modal reads the row and its page, and later records what it read.   *)
LEMMA ModalKeeps ==
  ASSUME SweepInv, OpenPosting \/ RecordOpened
  PROVE  VerdictHolds'
<1>1. CASE OpenPosting
  <2>1. PICK r \in ClickedRows, v \in Verdicts :
          v \in check_posting(r) /\ modal' = [row |-> r, link |-> link[r], verdict |-> v]
    BY <1>1 DEF OpenPosting
  <2>2. r \in Rows
    BY SweepAssumption
  <2>3. UNCHANGED <<link, shows>> /\ link[r] \in Nat
    BY <1>1, <2>2 DEF OpenPosting, table, SweepInv, SweepTypeOK
  <2>4. v = "closed" => shows[r] = "closed"
    BY <2>1 DEF check_posting
  <2> QED BY <2>1, <2>3, <2>4 DEF VerdictHolds
<1>2. CASE RecordOpened
  BY <1>2 DEF RecordOpened, VerdictHolds
<1> QED BY <1>1, <1>2

(* A relinked row has a link the modal did not read. *)
LEMMA RelinkKeeps ==
  ASSUME SweepInv, Relink
  PROVE  VerdictHolds'
<1>1. PICK i \in DOMAIN order :
        /\ link' = [link EXCEPT ![order[i]] = @ + 1]
        /\ shows' = [shows EXCEPT ![order[i]] = "open"]
  BY DEF Relink
<1> DEFINE r == order[i]
<1>2. UNCHANGED modal
  BY DEF Relink
<1> SUFFICES ASSUME modal # NoModal PROVE VerdictHolds'
  BY <1>2 DEF VerdictHolds
<1>3. /\ modal.link <= link[modal.row] /\ modal.link \in Nat /\ modal.row \in Rows
      /\ link[modal.row] \in Nat
  BY DEF SweepInv, VerdictHolds, SweepTypeOK
<1>4. CASE r = modal.row
  <2>1. link'[modal.row] = link[modal.row] + 1
    BY <1>1, <1>3, <1>4 DEF SweepInv, SweepTypeOK
  <2> QED BY <1>2, <1>3, <2>1 DEF VerdictHolds
<1>5. CASE r # modal.row
  <2>1. link'[modal.row] = link[modal.row] /\ shows'[modal.row] = shows[modal.row]
    BY <1>1, <1>3, <1>5 DEF SweepInv, SweepTypeOK
  <2> QED BY <1>2, <2>1 DEF SweepInv, VerdictHolds
<1> QED BY <1>4, <1>5

(* Every step keeps the invariant. *)
LEMMA NextSweep == SweepInv /\ [SweepNext]_sweepVars => SweepInv'
<1> SUFFICES ASSUME SweepInv, [SweepNext]_sweepVars PROVE SweepInv'
  OBVIOUS
<1>1. CASE SweepStep \/ SweepRaises
  <2>1. UNCHANGED <<modal, link, shows>>
    BY <1>1 DEF SweepStep, SweepBegin, SkipBlocked, StampUnrequestable, Request, Answer, SweepEnd,
       SweepRaises, SweepOver, record_verdict, table
  <2> QED BY <1>1, <2>1, SamePosting, SweepingType DEF SweepInv
<1>2. CASE OpenPosting \/ RecordOpened
  BY <1>2, ModalKeeps, AroundTheSweepType DEF SweepInv
<1>3. CASE SiteCloses
  <2>1. UNCHANGED <<modal, link>> /\ \A r \in Rows : shows[r] = "closed" => shows'[r] = "closed"
    BY <1>3 DEF SiteCloses, SweepInv, SweepTypeOK
  <2> QED BY <1>3, <2>1, SamePosting, AroundTheSweepType DEF SweepInv
<1>4. CASE NextDay \/ ListAgain \/ ToggleSweptFlag
  <2>1. UNCHANGED <<modal, link, shows>>
    BY <1>4 DEF NextDay, ListAgain, ToggleSweptFlag
  <2> QED BY <1>4, <2>1, SamePosting, AroundTheSweepType DEF SweepInv
<1>5. CASE Relink
  BY <1>5, RelinkKeeps, AroundTheSweepType DEF SweepInv
<1>6. CASE UNCHANGED sweepVars
  BY <1>6 DEF sweepVars, table, locals, SweepInv, SweepTypeOK, VerdictHolds
<1> QED BY <1>1, <1>2, <1>3, <1>4, <1>5, <1>6 DEF SweepNext

(* Every verdict still open in a modal was true of the posting it was read *)
(* on.                                                                     *)
THEOREM SweepInvHolds == SweepSpec => []SweepInv
<1>1. SweepInit => SweepInv
  BY InitSweep
<1>2. SweepInv /\ [SweepNext]_sweepVars => SweepInv'
  BY NextSweep
<1> QED BY <1>1, <1>2, PTL DEF SweepSpec

(* A row leaves the feed only when its posting is closed, or when the modal*)
(* records on it what it read of the posting before.                       *)
THEOREM OnlyClosedRowsGoHolds == SweepSpec => OnlyClosedRowsGo
<1>1. SweepInv /\ [SweepNext]_sweepVars
        => [\A r \in visible \ visible' :
              \/ shows[r] = "closed"
              \/ modal.row = r /\ modal.link # link[r]]_sweepVars
  <2> SUFFICES ASSUME SweepInv, SweepNext, NEW r \in visible \ visible'
               PROVE  shows[r] = "closed" \/ (modal.row = r /\ modal.link # link[r])
    OBVIOUS
  <2>1. CASE Answer
    <3>1. PICK verdict \in check_posting(asked) : record_verdict(asked, verdict)
      BY <2>1 DEF Answer
    <3>2. r = asked /\ verdict = "closed"
      BY <3>1 DEF record_verdict
    <3> QED BY <3>1, <3>2 DEF check_posting
  <2>2. CASE RecordOpened
    <3>1. r = modal.row /\ modal.verdict = "closed" /\ modal # NoModal
      BY <2>2 DEF RecordOpened, record_verdict
    <3> QED BY <3>1 DEF SweepInv, VerdictHolds
  <2>3. CASE StampUnrequestable
    BY <2>3 DEF StampUnrequestable, record_verdict
  <2>4. CASE SweepBegin \/ SkipBlocked \/ Request \/ SweepEnd \/ SweepRaises
    BY <2>4 DEF SweepBegin, SkipBlocked, Request, SweepEnd, SweepRaises, SweepOver, table
  <2>5. CASE OpenPosting \/ SiteCloses \/ NextDay \/ ListAgain \/ Relink \/ ToggleSweptFlag
    BY <2>5 DEF OpenPosting, SiteCloses, NextDay, ListAgain, Relink, ToggleSweptFlag, table
  <2> QED BY <2>1, <2>2, <2>3, <2>4, <2>5 DEF SweepNext, SweepStep
<1> QED BY <1>1, SweepInvHolds, PTL DEF SweepSpec, OnlyClosedRowsGo

----------------------------------------------------------------------------
(* The end of a run.  No channel announces a job twice, the feed file is   *)
(* never a torn one, and a run that did not die called every channel.  What*)
(* carries the first is that an announced job can only leave 'new' for     *)
(* 'active'; the last, that an enabled channel not called yet is still to  *)
(* be called.                                                              *)

(* An announced job is not new in any other run. *)
Announced(j, c) == status[j] = "active" \/ (status[j] = "new" /\ seen[j] = c)

Sent(box) == \A m \in box : m.jobs \subseteq Jobs /\ \A j \in m.jobs : Announced(j, m.cycle)

Payloads == step = "notify" => newJobs \subseteq jobs_new_in_run

Announcing == Sent(chat) /\ Sent(mail) /\ Payloads /\ AnnouncedOnce /\ FeedIsWhole

(* A run has a number. *)
Numbered == step # "idle" => cycle \in 1..MaxCycles

ToCall ==
  /\ step = "notify" => set.enabled \subseteq tried \cup ToSet(todo)
  /\ step = "summary" =>
       /\ set.enabled \subseteq tried
       /\ "telegram" \in set.enabled => "summary" \in tried \/ todo # <<>>

DigestInv == DigestTypeOK /\ Numbered /\ ToCall /\ Announcing

(* A feed is a list of jobs, which a torn file is not. *)
LEMMA FeedFacts ==
  /\ \A s \in recent_active_jobs : s \in Seq(Jobs) /\ Len(s) <= MaxItems
  /\ Torn \notin Seq(Jobs)
  /\ NoFile # Torn
<1>1. Torn \notin Seq(Jobs)
  <2>1. \A s \in Seq(Jobs) : Len(s) = 1 => s[1] \in Jobs
    OBVIOUS
  <2>2. Len(Torn) = 1 /\ Torn[1] = "torn"
    BY DEF Torn
  <2> QED BY <2>1, <2>2, DigestAssumption
<1>2. NoFile # Torn
  BY DEF NoFile, Torn
<1>3. ASSUME NEW x \in recent_active_jobs PROVE x \in Seq(Jobs) /\ Len(x) <= MaxItems
  <2> DEFINE listed == {j \in Jobs : status[j] \in {"new", "active"} /\ j \notin hidden}
             n(s) == IF Len(s) < MaxItems THEN Len(s) ELSE MaxItems
  <2>1. PICK s \in SetToSeqs(listed) : x = SubSeq(s, 1, n(s))
    BY DEF recent_active_jobs
  <2>2. Cardinality(listed) \in Nat
    BY DigestAssumption, FS_Subset, FS_CardinalityType
  <2>3. s \in [1..Cardinality(listed) -> Jobs]
    BY DEF SetToSeqs
  <2> HIDE DEF n, listed
  <2>4. s \in Seq(Jobs) /\ Len(s) \in Nat
    BY <2>2, <2>3
  <2>5. n(s) \in Nat /\ n(s) <= Len(s) /\ n(s) <= MaxItems
    BY <2>4, DigestAssumption DEF n
  <2>6. SubSeq(s, 1, n(s)) \in Seq(Jobs) /\ Len(SubSeq(s, 1, n(s))) = n(s)
    BY <2>4, <2>5
  <2> QED BY <2>1, <2>5, <2>6
<1> QED BY <1>1, <1>2, <1>3

(* The notifiers built are the enabled ones. *)
LEMMA NotifiersFacts ==
  ASSUME NEW s, s.enabled \subseteq Channels
  PROVE  build_notifiers(s) \in Seq(Channels) /\ s.enabled \subseteq ToSet(build_notifiers(s))
<1> DEFINE t == IF "telegram" \in s.enabled THEN <<"telegram">> ELSE <<>>
           e == IF "email" \in s.enabled THEN <<"email">> ELSE <<>>
           r == IF "rss" \in s.enabled THEN <<"rss">> ELSE <<>>
<1>1. /\ t \in Seq(Channels) /\ e \in Seq(Channels) /\ r \in Seq(Channels)
      /\ "telegram" \in s.enabled => "telegram" \in ToSet(t)
      /\ "email" \in s.enabled => "email" \in ToSet(e)
      /\ "rss" \in s.enabled => "rss" \in ToSet(r)
  <2>1. \A c \in Channels : <<c>> \in Seq(Channels) /\ c \in ToSet(<<c>>)
    BY DEF ToSet
  <2>2. {"telegram", "email", "rss"} \subseteq Channels /\ <<>> \in Seq(Channels)
    BY DEF Channels
  <2> QED BY <2>1, <2>2
<1>2. \A u, v \in Seq(Channels) :
        u \o v \in Seq(Channels) /\ ToSet(u) \subseteq ToSet(u \o v) /\ ToSet(v) \subseteq ToSet(u \o v)
  <2> SUFFICES ASSUME NEW u \in Seq(Channels), NEW v \in Seq(Channels)
               PROVE  /\ u \o v \in Seq(Channels)
                      /\ ToSet(u) \subseteq ToSet(u \o v)
                      /\ ToSet(v) \subseteq ToSet(u \o v)
    OBVIOUS
  <2>1. u \o v \in Seq(Channels) /\ Len(u \o v) = Len(u) + Len(v)
    OBVIOUS
  <2>2. \A k \in DOMAIN u : k \in DOMAIN (u \o v) /\ (u \o v)[k] = u[k]
    OBVIOUS
  <2>3. \A k \in DOMAIN v : k + Len(u) \in DOMAIN (u \o v) /\ (u \o v)[k + Len(u)] = v[k]
    OBVIOUS
  <2> QED BY <2>1, <2>2, <2>3 DEF ToSet
<1>3. build_notifiers(s) = t \o e \o r
  BY DEF build_notifiers
<1> HIDE DEF t, e, r
<1>4. /\ t \o e \o r \in Seq(Channels)
      /\ ToSet(t) \subseteq ToSet(t \o e \o r)
      /\ ToSet(e) \subseteq ToSet(t \o e \o r)
      /\ ToSet(r) \subseteq ToSet(t \o e \o r)
  <2>1. t \o e \in Seq(Channels) /\ ToSet(t) \subseteq ToSet(t \o e) /\ ToSet(e) \subseteq ToSet(t \o e)
    BY <1>1, <1>2
  <2> QED BY <1>1, <1>2, <2>1
<1> QED BY <1>1, <1>3, <1>4 DEF Channels

(* Of a list that is not empty, the first item and the others are all.     *)
LEMMA HeadAndTail ==
  ASSUME NEW T, NEW s \in Seq(T), s # <<>>
  PROVE  Head(s) \in T /\ Tail(s) \in Seq(T) /\ ToSet(s) \subseteq {Head(s)} \cup ToSet(Tail(s))
<1>1. Head(s) \in T /\ Tail(s) \in Seq(T) /\ Len(s) \in Nat \ {0} /\ Head(s) = s[1]
  OBVIOUS
<1>2. Len(Tail(s)) = Len(s) - 1 /\ \A k \in 1..(Len(s) - 1) : Tail(s)[k] = s[k + 1]
  OBVIOUS
<1>3. \A k \in DOMAIN s : k = 1 \/ (k - 1 \in DOMAIN Tail(s) /\ Tail(s)[k - 1] = s[k])
  <2> SUFFICES ASSUME NEW k \in DOMAIN s, k # 1 PROVE k - 1 \in DOMAIN Tail(s) /\ Tail(s)[k - 1] = s[k]
    OBVIOUS
  <2>1. k \in 1..Len(s) /\ k \in Nat
    OBVIOUS
  <2>2. k - 1 \in 1..(Len(s) - 1) /\ (k - 1) + 1 = k
    BY <2>1, <1>1
  <2>3. DOMAIN Tail(s) = 1..(Len(s) - 1)
    BY <1>1, <1>2
  <2> QED BY <1>2, <2>2, <2>3
<1> QED BY <1>1, <1>3 DEF ToSet

(* At first nothing was sent. *)
LEMMA InitDigest == DigestInit => DigestInv
<1> SUFFICES ASSUME DigestInit PROVE DigestInv
  OBVIOUS
<1>1. /\ status \in [Jobs -> {"absent", "new", "active"}] /\ seen \in [Jobs -> 0..MaxCycles]
      /\ cycle \in 0..MaxCycles
  BY DigestAssumption DEF DigestInit
<1>2. todo \in Seq(Channels) /\ recent \in Seq(Jobs) /\ Len(recent) <= MaxItems
  BY DigestAssumption DEF DigestInit
<1>3. DigestTypeOK
  BY <1>1, <1>2 DEF DigestInit, DigestTypeOK
<1>4. Announcing /\ Numbered /\ ToCall
  BY FeedFacts DEF DigestInit, Announcing, Sent, Payloads, AnnouncedOnce, FeedIsWhole, Numbered, ToCall
<1> QED BY <1>3, <1>4 DEF DigestInv

----------------------------------------------------------------------------
(* Types and calls *)

(* The payloads read, and what is made of them, have their types. *)
LEMMA DigestTypeKept ==
  ASSUME DigestInv, DigestNext
  PROVE  DigestTypeOK'
<1> USE DigestAssumption
<1>1. DigestTypeOK /\ Numbered
  BY DEF DigestInv
<1>2. set \in Settings /\ set.enabled \subseteq Channels
  BY <1>1 DEF DigestTypeOK
<1>3. todo # <<>> => Tail(todo) \in Seq(Channels) /\ Head(todo) \in Channels
  BY <1>1 DEF DigestTypeOK
<1>4. CASE StoreRun
  <2>1. PICK listed \in SUBSET Jobs :
          /\ status' = [j \in Jobs |->
               IF j \notin listed THEN status[j]
               ELSE IF status[j] = "absent" THEN "new" ELSE "active"]
          /\ seen' = [j \in Jobs |-> IF j \in listed THEN cycle + 1 ELSE seen[j]]
    BY <1>4 DEF StoreRun
  <2>2. cycle' = cycle + 1 /\ cycle' \in 0..MaxCycles
    BY <1>1, <1>4 DEF StoreRun, DigestTypeOK
  <2>3. status' \in [Jobs -> {"absent", "new", "active"}] /\ seen' \in [Jobs -> 0..MaxCycles]
    BY <1>1, <2>1, <2>2 DEF DigestTypeOK
  <2> QED BY <1>1, <1>4, <2>2, <2>3 DEF StoreRun, DigestTypeOK
<1>5. CASE ReadPayloads
  <2>1. todo' \in Seq(Channels)
    BY <1>2, <1>5, NotifiersFacts DEF ReadPayloads
  <2>2. recent' \in Seq(Jobs) /\ Len(recent') <= MaxItems /\ newJobs' \subseteq Jobs
    BY <1>5, FeedFacts DEF ReadPayloads, jobs_new_in_run
  <2> QED BY <1>1, <1>5, <2>1, <2>2 DEF ReadPayloads, DigestTypeOK, digestTable
<1>6. CASE NotifyTelegram
  <2>1. /\ todo' = Tail(todo) /\ todo # <<>> /\ tried' = tried \cup {"telegram"} /\ step = "notify"
        /\ UNCHANGED <<digestTable, cycle, step, set, newJobs, recent, tmp, feed_xml, mail>>
    BY <1>6 DEF NotifyTelegram, Calling, Called
  <2>2. chat' \subseteq [cycle : 1..MaxCycles, kind : {"digest", "summary"}, jobs : SUBSET Jobs]
    <3>1. CASE UNCHANGED chat
      BY <1>1, <3>1 DEF DigestTypeOK
    <3>2. CASE chat' # chat
      <4>1. PICK shown \in build_digest(newJobs) :
              chat' = chat \cup {[cycle |-> cycle, kind |-> "digest", jobs |-> shown]}
        BY <1>6, <3>2 DEF NotifyTelegram
      <4>2. shown \in SUBSET Jobs /\ cycle \in 1..MaxCycles
        BY <1>1, <2>1 DEF build_digest, DigestTypeOK, Numbered
      <4> QED BY <1>1, <4>1, <4>2 DEF DigestTypeOK
    <3> QED BY <3>1, <3>2
  <2>3. tried' \subseteq Channels \cup {"summary"}
    BY <1>1, <2>1 DEF DigestTypeOK, Channels
  <2> QED BY <1>1, <1>3, <2>1, <2>2, <2>3 DEF DigestTypeOK, digestTable
<1>7. CASE NotifyEmail
  <2>1. /\ todo' = Tail(todo) /\ todo # <<>> /\ tried' = tried \cup {"email"} /\ step = "notify"
        /\ UNCHANGED <<digestTable, cycle, step, set, newJobs, recent, tmp, feed_xml, chat>>
    BY <1>7 DEF NotifyEmail, Calling, Called
  <2>2. mail' \subseteq [cycle : 1..MaxCycles, jobs : SUBSET Jobs]
    <3>1. cycle \in 1..MaxCycles /\ newJobs \in SUBSET Jobs
      BY <1>1, <2>1 DEF DigestTypeOK, Numbered
    <3>2. mail' = mail \/ mail' = mail \cup {[cycle |-> cycle, jobs |-> newJobs]}
      BY <1>7 DEF NotifyEmail
    <3> QED BY <1>1, <3>1, <3>2 DEF DigestTypeOK
  <2>3. tried' \subseteq Channels \cup {"summary"}
    BY <1>1, <2>1 DEF DigestTypeOK, Channels
  <2> QED BY <1>1, <1>3, <2>1, <2>2, <2>3 DEF DigestTypeOK, digestTable
<1>8. CASE WriteFeed
  BY <1>1, <1>8 DEF WriteFeed, DigestTypeOK, digestTable, digestLocals
<1>9. CASE ReplaceFeed
  <2>1. /\ todo' = Tail(todo) /\ todo # <<>> /\ tried' = tried \cup {"rss"}
        /\ UNCHANGED <<digestTable, cycle, step, set, newJobs, recent, chat, mail>>
        /\ feed_xml' = recent /\ tmp' = NoFile
    BY <1>9 DEF ReplaceFeed, Calling, Called
  <2>2. tried' \subseteq Channels \cup {"summary"}
    BY <1>1, <2>1 DEF DigestTypeOK, Channels
  <2> QED BY <1>1, <1>3, <2>1, <2>2 DEF DigestTypeOK, digestTable
<1>10. CASE ChannelRaises
  BY <1>1, <1>3, <1>10 DEF ChannelRaises, Called, DigestTypeOK, digestTable
<1>11. CASE StartSummary
  <2>1. todo' \in Seq(Channels)
    <3>1. <<"telegram">> \in Seq(Channels) /\ <<>> \in Seq(Channels)
      BY DEF Channels
    <3> QED BY <3>1, <1>11 DEF StartSummary
  <2> QED BY <1>1, <1>11, <2>1 DEF StartSummary, DigestTypeOK, digestTable
<1>12. CASE SendSummary
  <2>1. chat' \subseteq [cycle : 1..MaxCycles, kind : {"digest", "summary"}, jobs : SUBSET Jobs]
    <3>1. cycle \in 1..MaxCycles
      BY <1>1, <1>12 DEF SendSummary, Numbered
    <3>2. chat' = chat \/ chat' = chat \cup {[cycle |-> cycle, kind |-> "summary", jobs |-> {}]}
      BY <1>12 DEF SendSummary
    <3> QED BY <1>1, <3>1, <3>2 DEF DigestTypeOK
  <2> QED BY <1>1, <1>3, <1>12, <2>1 DEF SendSummary, DigestTypeOK, digestTable
<1>13. CASE EndRun \/ Die
  <2>1. /\ todo' \in {todo, <<>>} /\ newJobs' = {} /\ recent' = <<>> /\ tried' = {} /\ step' = "idle"
        /\ UNCHANGED <<digestTable, cycle, set, tmp, feed_xml, chat, mail>>
    BY <1>13 DEF EndRun, Die
  <2>2. todo' \in Seq(Channels) /\ recent' \in Seq(Jobs) /\ Len(recent') <= MaxItems
    <3>1. <<>> \in Seq(Channels) /\ <<>> \in Seq(Jobs) /\ Len(<<>>) <= MaxItems
      OBVIOUS
    <3> QED BY <1>1, <2>1, <3>1 DEF DigestTypeOK
  <2> QED BY <1>1, <2>1, <2>2 DEF DigestTypeOK, digestTable
<1>14. CASE Hide
  BY <1>1, <1>14 DEF Hide, DigestTypeOK, digestLocals
<1> QED BY <1>4, <1>5, <1>6, <1>7, <1>8, <1>9, <1>10, <1>11, <1>12, <1>13, <1>14 DEF DigestNext

(* A channel leaves the list of those to call only by being called.        *)
LEMMA ToCallKept ==
  ASSUME DigestInv, DigestNext
  PROVE  Numbered' /\ ToCall'
<1>1. DigestTypeOK /\ ToCall /\ Numbered
  BY DEF DigestInv
<1>2. todo # <<>> => ToSet(todo) \subseteq {Head(todo)} \cup ToSet(Tail(todo))
  BY <1>1, HeadAndTail DEF DigestTypeOK
<1>3. CASE StoreRun
  BY <1>1, <1>3, DigestAssumption DEF StoreRun, Numbered, ToCall, DigestTypeOK
<1>4. CASE ReadPayloads
  <2>1. set.enabled \subseteq Channels /\ set' = set
    BY <1>1, <1>4, DigestAssumption DEF ReadPayloads, DigestTypeOK
  <2> QED BY <1>1, <1>4, <2>1, NotifiersFacts DEF ReadPayloads, Numbered, ToCall
<1>5. CASE NotifyTelegram \/ NotifyEmail \/ ReplaceFeed \/ ChannelRaises
  <2>1. /\ step = "notify" /\ todo # <<>> /\ todo' = Tail(todo) /\ tried' = tried \cup {Head(todo)}
        /\ UNCHANGED <<cycle, step, set>>
    BY <1>5 DEF NotifyTelegram, NotifyEmail, ReplaceFeed, ChannelRaises, Calling, Called
  <2> QED BY <1>1, <1>2, <2>1 DEF Numbered, ToCall
<1>6. CASE WriteFeed \/ Hide
  <2>1. UNCHANGED <<todo, tried, cycle, step, set>>
    BY <1>6 DEF WriteFeed, Hide, digestLocals
  <2> QED BY <1>1, <2>1 DEF Numbered, ToCall
<1>7. CASE StartSummary
  <2>1. ToSet(todo) = {}
    BY <1>7 DEF StartSummary, ToSet
  <2>2. <<"telegram">> # <<>>
    OBVIOUS
  <2> QED BY <1>1, <1>7, <2>1, <2>2 DEF StartSummary, Numbered, ToCall
<1>8. CASE SendSummary
  BY <1>1, <1>8 DEF SendSummary, Numbered, ToCall
<1>9. CASE EndRun \/ Die
  BY <1>9 DEF EndRun, Die, Numbered, ToCall
<1> QED BY <1>3, <1>4, <1>5, <1>6, <1>7, <1>8, <1>9 DEF DigestNext

----------------------------------------------------------------------------
(* What was announced *)

(* While neither the table nor what was sent changes, the same holds.      *)
LEMMA NothingSent ==
  ASSUME DigestInv, UNCHANGED <<status, seen, cycle, chat, mail>>, Payloads', FeedIsWhole'
  PROVE  Announcing'
<1>1. AnnouncedOnce'
  BY DEF DigestInv, Announcing, AnnouncedOnce
<1>2. Sent(chat)' /\ Sent(mail)'
  BY DEF DigestInv, Announcing, Sent, Announced
<1> QED BY <1>1, <1>2 DEF Announcing

(* A run makes new what it did not have, and active what it lists again.   *)
LEMMA StoreKeeps ==
  ASSUME DigestInv, StoreRun
  PROVE  Announcing'
<1>1. PICK listed \in SUBSET Jobs :
        /\ status' = [j \in Jobs |->
             IF j \notin listed THEN status[j]
             ELSE IF status[j] = "absent" THEN "new" ELSE "active"]
        /\ seen' = [j \in Jobs |-> IF j \in listed THEN cycle + 1 ELSE seen[j]]
  BY DEF StoreRun
<1>2. cycle' = cycle + 1 /\ step' = "payload" /\ UNCHANGED <<chat, mail, feed_xml>>
  BY DEF StoreRun
<1>3. \A j \in Jobs : \A c : Announced(j, c) => Announced(j, c)'
  BY <1>1 DEF Announced
<1>4. Sent(chat)' /\ Sent(mail)'
  BY <1>2, <1>3 DEF DigestInv, Announcing, Sent
<1>5. Payloads' /\ AnnouncedOnce' /\ FeedIsWhole'
  BY <1>2 DEF DigestInv, Announcing, Payloads, AnnouncedOnce, FeedIsWhole
<1> QED BY <1>4, <1>5 DEF Announcing

(* What is new in this run was in no other run's message. *)
LEMMA SendKeeps ==
  ASSUME NEW box, Sent(box), NEW c, NEW shown \in SUBSET {j \in Jobs : status[j] = "new" /\ seen[j] = c},
         NEW msg, msg.cycle = c, msg.jobs = shown,
         \A m, n \in box : m.cycle # n.cycle => m.jobs \cap n.jobs = {}
  PROVE  /\ Sent(box \cup {msg})
         /\ \A m, n \in box \cup {msg} : m.cycle # n.cycle => m.jobs \cap n.jobs = {}
<1>1. Sent(box \cup {msg})
  BY DEF Sent, Announced
<1>2. \A m \in box : m.cycle # c => m.jobs \cap shown = {}
  BY DEF Sent, Announced
<1> QED BY <1>1, <1>2

(* A digest goes to the chat, or to the mail server. *)
LEMMA DigestsKeep ==
  ASSUME DigestInv, NotifyTelegram \/ NotifyEmail
  PROVE  Announcing'
<1>1. /\ step = "notify" /\ newJobs \subseteq {j \in Jobs : status[j] = "new" /\ seen[j] = cycle}
      /\ UNCHANGED <<status, seen, cycle, step, newJobs, recent, feed_xml>>
  BY DEF NotifyTelegram, NotifyEmail, Calling, Called, digestTable, DigestInv, Announcing, Payloads, jobs_new_in_run
<1>2. Payloads' /\ FeedIsWhole'
  BY <1>1 DEF DigestInv, Announcing, Payloads, FeedIsWhole, jobs_new_in_run
<1>3. \A box : Sent(box) <=> Sent(box)'
  BY <1>1 DEF Sent, Announced
<1>5. CASE UNCHANGED <<chat, mail>>
  BY <1>1, <1>2, <1>5, NothingSent
<1>6. CASE NotifyTelegram /\ chat' # chat
  <2>1. PICK shown \in build_digest(newJobs) :
          chat' = chat \cup {[cycle |-> cycle, kind |-> "digest", jobs |-> shown]}
    BY <1>6 DEF NotifyTelegram
  <2>2. shown \subseteq {j \in Jobs : status[j] = "new" /\ seen[j] = cycle}
    BY <1>1 DEF build_digest
  <2> DEFINE msg == [cycle |-> cycle, kind |-> "digest", jobs |-> shown]
  <2>3. msg.cycle = cycle /\ msg.jobs = shown
    OBVIOUS
  <2>4. mail' = mail
    BY <1>6 DEF NotifyTelegram
  <2> HIDE DEF msg
  <2>5. /\ Sent(chat \cup {msg})
        /\ \A m, n \in chat \cup {msg} : m.cycle # n.cycle => m.jobs \cap n.jobs = {}
    <3>1. Sent(chat) /\ \A m, n \in chat : m.cycle # n.cycle => m.jobs \cap n.jobs = {}
      BY DEF DigestInv, Announcing, AnnouncedOnce
    <3>2. shown \in SUBSET {j \in Jobs : status[j] = "new" /\ seen[j] = cycle}
      BY <2>2
    <3> QED BY <2>3, <3>1, <3>2, SendKeeps
  <2>6. chat' = chat \cup {msg}
    BY <2>1 DEF msg
  <2>7. Sent(chat)' /\ Sent(mail)'
    BY <1>1, <2>4, <2>5, <2>6 DEF DigestInv, Announcing, Sent, Announced
  <2> QED BY <1>2, <2>4, <2>5, <2>6, <2>7 DEF DigestInv, Announcing, AnnouncedOnce
<1>7. CASE NotifyEmail /\ mail' # mail
  <2> DEFINE msg == [cycle |-> cycle, jobs |-> newJobs]
  <2>1. mail' = mail \cup {msg} /\ chat' = chat
    BY <1>7 DEF NotifyEmail
  <2>2. msg.cycle = cycle /\ msg.jobs = newJobs
    OBVIOUS
  <2> HIDE DEF msg
  <2>3. /\ Sent(mail \cup {msg})
        /\ \A m, n \in mail \cup {msg} : m.cycle # n.cycle => m.jobs \cap n.jobs = {}
    <3>1. Sent(mail) /\ \A m, n \in mail : m.cycle # n.cycle => m.jobs \cap n.jobs = {}
      BY DEF DigestInv, Announcing, AnnouncedOnce
    <3>2. newJobs \in SUBSET {j \in Jobs : status[j] = "new" /\ seen[j] = cycle}
      BY <1>1
    <3> QED BY <2>2, <3>1, <3>2, SendKeeps
  <2>4. Sent(chat)' /\ Sent(mail)'
    BY <1>1, <2>1, <2>3 DEF DigestInv, Announcing, Sent, Announced
  <2> QED BY <1>2, <2>1, <2>3, <2>4 DEF DigestInv, Announcing, AnnouncedOnce
<1> QED BY <1>5, <1>6, <1>7 DEF NotifyTelegram, NotifyEmail

(* A summary announces nothing. *)
LEMMA SummaryKeeps ==
  ASSUME DigestInv, SendSummary
  PROVE  Announcing'
<1>1. step = "summary" /\ UNCHANGED <<status, seen, cycle, step, mail, feed_xml>>
  BY DEF SendSummary, digestTable
<1>2. Payloads' /\ FeedIsWhole'
  BY <1>1 DEF DigestInv, Announcing, Payloads, FeedIsWhole
<1>3. CASE chat' = chat
  BY <1>1, <1>2, <1>3, NothingSent
<1>4. CASE chat' # chat
  <2> DEFINE msg == [cycle |-> cycle, kind |-> "summary", jobs |-> {}]
  <2>1. chat' = chat \cup {msg}
    BY <1>4 DEF SendSummary
  <2>2. msg.jobs = {}
    OBVIOUS
  <2> HIDE DEF msg
  <2>3. \A m, n \in chat' : m.cycle # n.cycle => m.jobs \cap n.jobs = {}
    BY <2>1, <2>2 DEF DigestInv, Announcing, AnnouncedOnce
  <2>4. Sent(chat)' /\ Sent(mail)'
    BY <1>1, <2>1, <2>2 DEF DigestInv, Announcing, Sent, Announced
  <2> QED BY <1>1, <1>2, <2>3, <2>4 DEF DigestInv, Announcing, AnnouncedOnce
<1> QED BY <1>3, <1>4

(* The feed file is replaced by a whole feed, and nothing else writes to it*)
LEMMA RestKeeps ==
  ASSUME DigestInv,
         \/ ReadPayloads \/ WriteFeed \/ ReplaceFeed \/ ChannelRaises
         \/ StartSummary \/ EndRun \/ Die \/ Hide
  PROVE  Announcing'
<1>1. UNCHANGED <<status, seen, cycle, chat, mail>>
  BY DEF ReadPayloads, WriteFeed, ReplaceFeed, ChannelRaises, StartSummary, EndRun, Die, Hide, Called,
     digestTable
<1>2. Payloads'
  <2>1. CASE ReadPayloads
    BY <2>1, FeedFacts DEF ReadPayloads, Payloads, jobs_new_in_run, digestTable
  <2>2. CASE \/ WriteFeed \/ ReplaceFeed \/ ChannelRaises \/ Hide
    <3>1. UNCHANGED <<step, newJobs, recent>>
      BY <2>2 DEF WriteFeed, ReplaceFeed, ChannelRaises, Hide, Called, digestLocals
    <3> QED BY <3>1, <1>1 DEF DigestInv, Announcing, Payloads, jobs_new_in_run
  <2>3. CASE StartSummary \/ EndRun \/ Die
    BY <2>3 DEF StartSummary, EndRun, Die, Payloads
  <2> QED BY <2>1, <2>2, <2>3
<1>3. FeedIsWhole'
  <2>1. CASE ReplaceFeed
    <3>1. feed_xml' = recent /\ step = "notify"
      BY <2>1 DEF ReplaceFeed, Calling
    <3> QED BY <3>1, FeedFacts DEF DigestInv, DigestTypeOK, FeedIsWhole
  <2>2. CASE ~ReplaceFeed
    BY <2>2 DEF ReadPayloads, WriteFeed, ChannelRaises, StartSummary, EndRun, Die, Hide, Called,
       DigestInv, Announcing, FeedIsWhole
  <2> QED BY <2>1, <2>2
<1> QED BY <1>1, <1>2, <1>3, NothingSent

(* Every step keeps the invariant. *)
LEMMA NextDigest == DigestInv /\ [DigestNext]_digestVars => DigestInv'
<1> SUFFICES ASSUME DigestInv, [DigestNext]_digestVars PROVE DigestInv'
  OBVIOUS
<1>1. CASE UNCHANGED digestVars
  <2>1. UNCHANGED <<status, seen, hidden, cycle, todo, step, set, newJobs, recent, tmp, feed_xml, chat, mail, tried>>
    BY <1>1 DEF digestVars, digestTable, digestLocals
  <2>2. Announcing'
    BY <2>1, NothingSent DEF DigestInv, Announcing, Payloads, FeedIsWhole, jobs_new_in_run
  <2>3. DigestTypeOK' /\ Numbered' /\ ToCall'
    BY <2>1 DEF DigestInv, DigestTypeOK, Numbered, ToCall
  <2> QED BY <2>2, <2>3 DEF DigestInv
<1>2. CASE DigestNext
  <2>1. Announcing'
    BY <1>2, StoreKeeps, DigestsKeep, SummaryKeeps, RestKeeps DEF DigestNext
  <2> QED BY <1>2, <2>1, DigestTypeKept, ToCallKept DEF DigestInv
<1> QED BY <1>1, <1>2

(* The invariant holds in every reachable state. *)
THEOREM DigestInvHolds == DigestSpec => []DigestInv
<1>1. DigestInit => DigestInv
  BY InitDigest
<1>2. DigestInv /\ [DigestNext]_digestVars => DigestInv'
  BY NextDigest
<1> QED BY <1>1, <1>2, PTL DEF DigestSpec

(* No job is in the digests of two runs, by chat or by mail. *)
THEOREM AnnouncedOnceHolds == DigestSpec => []AnnouncedOnce
<1>1. DigestInv => AnnouncedOnce
  BY DEF DigestInv, Announcing
<1> QED BY <1>1, DigestInvHolds, PTL

(* Wherever the process dies, the feed file is whole. *)
THEOREM FeedIsWholeHolds == DigestSpec => []FeedIsWhole
<1>1. DigestInv => FeedIsWhole
  BY DEF DigestInv, Announcing
<1> QED BY <1>1, DigestInvHolds, PTL

(* Whatever channels raise, a run whose summary is over has called all that*)
(* are enabled, and Telegram for the summary too.                          *)
THEOREM EveryChannelCalledHolds == DigestSpec => EveryChannelCalled
<1>1. DigestInv /\ [DigestNext]_digestVars
        => [/\ step = "summary" /\ todo = <<>> /\ step' = "idle"
            => /\ set.enabled \subseteq tried
               /\ "telegram" \in set.enabled => "summary" \in tried]_digestVars
  BY DEF DigestInv, ToCall
<1> QED BY <1>1, DigestInvHolds, PTL DEF DigestSpec, EveryChannelCalled

----------------------------------------------------------------------------
(* The stages together: a stage that rests is in a state its own steps     *)
(* could have left it in, so what holds of each alone holds of all four.   *)

StagesInv == FetchInv /\ IngestInv /\ SweepInv /\ DigestInv

(* A fetch that shows nothing rests after failing. *)
LEMMA RestingFetch == FetchRests => FetchInv
<1> SUFFICES ASSUME FetchRests PROVE FetchInv
  OBVIOUS
<1> USE RestAssumption, LimitsAssumption DEF FetchRests
<1>1. FetchTypeOK
  <2>1. outcome \in [UnitsOf(source) -> Reports]
    BY DEF Reports
  <2>2. feed \in Seq(Ads) /\ ended \in Seq(Endings)
    OBVIOUS
  <2>3. page \in 1..MaxPages /\ attempt \in 0..MaxRetries
    OBVIOUS
  <2> QED BY <2>1, <2>2, <2>3 DEF FetchTypeOK
<1>2. Promise /\ Darkness /\ OnePage
  BY DEF Promise, Believable, Darkness, OnePage
<1>3. Reported
  BY DEF Reported, AllFailed
<1> QED BY <1>1, <1>2, <1>3 DEF FetchInv

(* Ingest rests before its first run, as it may begin. *)
LEMMA RestingIngest == IngestRests => IngestInv
<1>1. IngestRests => IngestInit
  BY RestAssumption DEF IngestRests, IngestInit
<1> QED BY <1>1, InitIngest

(* The sweep rests with an empty table, no snapshot and no modal. *)
LEMMA RestingSweep == SweepRests => SweepInv
<1> SUFFICES ASSUME SweepRests PROVE SweepInv
  OBVIOUS
<1>1. SweepTypeOK
  <2>1. /\ shows \in [Rows -> {"open", "closed"}] /\ link \in [Rows -> Nat]
        /\ since \in [Rows -> 0..RecheckDays]
    BY SweepAssumption DEF SweepRests
  <2>2. sweeping = FALSE /\ order = <<>> /\ pending = <<>> /\ <<>> \in Seq(Rows)
    BY DEF SweepRests
  <2>3. checks \in 0..Limit /\ trouble \in 0..MaxTrouble
    BY SweepAssumption DEF SweepRests
  <2>4. visible = {} /\ flagged = {} /\ asked = NoRow /\ blocked = {} /\ modal = NoModal
    BY DEF SweepRests
  <2>5. order \in Seq(Rows) /\ pending \in Seq(Rows)
    BY <2>2
  <2> QED BY <2>1, <2>2, <2>3, <2>4, <2>5 DEF SweepTypeOK
<1>2. VerdictHolds
  BY DEF SweepRests, VerdictHolds
<1> QED BY <1>1, <1>2 DEF SweepInv

(* The digests rest before the first run, as they may begin. *)
LEMMA RestingDigest == DigestRests => DigestInv
<1>1. DigestRests => DigestInit
  BY RestAssumption DEF DigestRests, DigestInit
<1> QED BY <1>1, InitDigest

(* Each stage begins in its own way while the others rest. *)
LEMMA InitStages == StagesInit => StagesInv
BY InitFetch, InitIngest, InitSweep, InitDigest, RestingFetch, RestingIngest, RestingSweep, RestingDigest
   DEF StagesInit, StagesInv

(* A step is one stage's, and leaves the variables of the others alone.    *)
LEMMA NextStages == StagesInv /\ [StagesNext]_stageVars => StagesInv'
<1> SUFFICES ASSUME StagesInv, [StagesNext]_stageVars PROVE StagesInv'
  OBVIOUS
<1>1. /\ [FetchNext]_fetchVars /\ [IngestNext]_ingestVars
      /\ [SweepNext]_sweepVars /\ [DigestNext]_digestVars
  BY DEF StagesNext, stageVars
<1> QED BY <1>1, NextFetch, NextIngest, NextSweep, NextDigest DEF StagesInv

(* Type correctness of all four: every stage's state is well-formed, the   *)
(* one that moves and those that rest.                                     *)
THEOREM StagesTypeHolds == StagesSpec => []StagesTypeOK
<1>1. StagesInit => StagesInv
  BY InitStages
<1>2. StagesInv /\ [StagesNext]_stageVars => StagesInv'
  BY NextStages
<1>3. StagesInv => StagesTypeOK
  BY IngestTypes DEF StagesInv, StagesTypeOK, FetchInv, SweepInv, DigestInv
<1> QED BY <1>1, <1>2, <1>3, PTL DEF StagesSpec
===============================================================================

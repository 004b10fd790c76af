--------------------------- MODULE RunCycleProofs ---------------------------
(***************************************************************************)
(* Theorems of RunCycle, for any number of processes, jobs, postings and   *)
(* runs.                                                                   *)
(***************************************************************************)
EXTENDS RunCycle, SequenceTheorems, FiniteSetTheorems, TLAPS

USE DEF Visible, Statuses

----------------------------------------------------------------------------
(* The row operators *)

(* A stored row is not the absent one. *)
LEMMA RowIsPresent == \A row \in Row : row.status # "absent" /\ row # NoRow
  BY DEF Row, NoRow

(* An entry of the jobs table whose status is not "absent" is a row. *)
LEMMA PresentIsRow ==
  ASSUME NEW row \in Row \cup {NoRow}, row.status # "absent"
  PROVE  row \in Row
  BY DEF NoRow

(* The upsert makes a row out of whatever was stored. *)
LEMMA UpsertType ==
  ASSUME NEW row \in Row \cup {NoRow}, NEW p \in Postings,
         NEW n \in Int, NEW now \in Int
  PROVE  upsert_job(row, p, n, now) \in Row
<1>1. SourceOf[p] \in Sources /\ PostedOn[p] \in Int \cup {NoDate}
  BY PostingsAssumption
<1>2. CASE row.status = "absent"
  BY <1>1, <1>2 DEF upsert_job, Inserted, Row
<1>3. CASE row.status # "absent"
  <2>1. row \in Row
    BY <1>3, PresentIsRow
  <2> QED
    BY <1>1, <1>3, <2>1 DEF upsert_job, Refreshed, Row
<1> QED
  BY <1>2, <1>3

(* Every other statement keeps a row a row. *)
LEMMA ExpireType ==
  ASSUME NEW row \in Row, NEW n, NEW w, NEW now
  PROVE  expire_stale(row, n, w, now) \in Row /\ Softened(row, n, w, now) \in Row
  BY DEF expire_stale, Softened, Row

(* A retire pass keeps an entry of the table an entry, absent ones too.    *)
LEMMA RetireType ==
  ASSUME NEW row \in Row \cup {NoRow}
  PROVE  retire_jobs(row) \in Row \cup {NoRow}
  BY PresentIsRow DEF retire_jobs, Retirable, Row

(* Recording a closure verdict keeps a row a row.                          *)
LEMMA VerdictType ==
  ASSUME NEW row \in Row, NEW v
  PROVE  record_verdict(row, v) \in Row
  BY DEF record_verdict, Row

(* So does a click on apply or bookmark.                                   *)
LEMMA FlagType ==
  ASSUME NEW row \in Row, NEW v \in BOOLEAN
  PROVE  FlagRow(row, v) \in Row
  BY DEF FlagRow, Row

(* So does caching a page's text.                                          *)
LEMMA CacheType ==
  ASSUME NEW row \in Row, NEW p \in Postings
  PROVE  CacheText(row, p) \in Row
  BY DEF CacheText, Row

----------------------------------------------------------------------------
(* Type correctness *)

USE DEF tables, memory, history, vars

TypeInv == TypeOK /\ ReadRowsExist

(* The empty database, with every process down, is well typed.             *)
LEMMA TypeInit == Init => TypeInv
<1> SUFFICES ASSUME Init PROVE TypeInv
  OBVIOUS
<1>1. rows \in [Jobs -> Row \cup {NoRow}] /\ announced \in [Jobs -> Nat]
  BY DEF Init
<1>2. pc \in [Runners -> Steps] /\ run \in [Runners -> Nat]
  BY DEF Init, Steps
<1>3. fetched \in [Runners -> [Sources -> Result]]
  BY DEF Init, NoResult, Result, Outcomes
<1>4. todo \in [Runners -> [Sources -> SUBSET Postings]]
  BY DEF Init
<1>5. /\ runs \in Seq(RunStatuses)
      /\ day \in Int
      /\ crashes \in Nat
      /\ viewer \in Views \cup {NoView}
      /\ fresh \in [Runners -> SUBSET Jobs]
      /\ chosen \in [Runners -> SUBSET Jobs]
  BY DEF Init
<1>6. ReadRowsExist
  BY DEF Init, ReadRowsExist
<1> QED
  BY <1>1, <1>2, <1>3, <1>4, <1>5, <1>6 DEF TypeOK, TypeInv

(* Dropping the results of a cycle keeps the process memory well typed. *)
LEMMA ForgetType ==
  ASSUME TypeOK, NEW r \in Runners, Forget(r)
  PROVE  /\ run' \in [Runners -> Nat]
         /\ fetched' \in [Runners -> [Sources -> Result]]
         /\ todo' \in [Runners -> [Sources -> SUBSET Postings]]
         /\ fresh' \in [Runners -> SUBSET Jobs]
         /\ chosen' \in [Runners -> SUBSET Jobs]
<1>1. [s \in Sources |-> NoResult] \in [Sources -> Result]
  BY DEF NoResult, Result, Outcomes
<1>2. [s \in Sources |-> {}] \in [Sources -> SUBSET Postings]
  OBVIOUS
<1> QED
  BY <1>1, <1>2 DEF Forget, TypeOK

(* Moving a process between steps keeps pc well typed. *)
LEMMA PcType ==
  ASSUME TypeOK, NEW r \in Runners, NEW to \in Steps,
         pc' = [pc EXCEPT ![r] = to]
  PROVE  pc' \in [Runners -> Steps]
  BY DEF TypeOK

(* Replacing the status of one run keeps the runs table well typed. *)
LEMMA RunsType ==
  ASSUME TypeOK, NEW i, NEW st \in RunStatuses, runs' = [runs EXCEPT ![i] = st]
  PROVE  runs' \in Seq(RunStatuses)
<1>1. runs \in [1..Len(runs) -> RunStatuses] /\ Len(runs) \in Nat
  BY DEF TypeOK
<1>2. runs' \in [1..Len(runs) -> RunStatuses]
  BY <1>1
<1> QED
  BY <1>1, <1>2, SeqDef

(* Of the expiry an exception keeps, for each row, what a source that was  *)
(* read leaves of it after both UPDATEs or after the first.                *)
LEMMA PartOfExpiry ==
  ASSUME TypeOK, NEW r \in Runners, KeepPart(r), pc[r] = "expire", NEW j \in Jobs
  PROVE  \/ rows'[j] = rows[j]
         \/ /\ rows[j].status # "absent"
            /\ fetched[r][rows[j].source].outcome # "failed"
            /\ LET windowed == fetched[r][rows[j].source].outcome = "windowed" IN
                 \/ rows'[j] = expire_stale(rows[j], run[r], windowed, day)
                 \/ rows'[j] = Softened(rows[j], run[r], windowed, day)
BY DEF KeepPart, Looked

(* Whatever it keeps, of a retire pass too, is a table of rows.            *)
LEMMA KeepPartType ==
  ASSUME TypeOK, NEW r \in Runners, KeepPart(r)
  PROVE  rows' \in [Jobs -> Row \cup {NoRow}]
<1>1. CASE UNCHANGED rows
  BY <1>1 DEF TypeOK
<1>2. ASSUME NEW part,
             rows' = [j \in Jobs |-> IF j \in part THEN retire_jobs(rows[j]) ELSE rows[j]]
      PROVE  rows' \in [Jobs -> Row \cup {NoRow}]
  BY <1>2, RetireType DEF TypeOK
<1>3. CASE pc[r] = "expire" /\ ~ UNCHANGED rows
  <2>1. ASSUME NEW j \in Jobs PROVE rows'[j] \in Row \cup {NoRow}
    <3>1. rows[j] \in Row \cup {NoRow}
      BY DEF TypeOK
    <3>2. CASE rows'[j] = rows[j]
      BY <3>1, <3>2
    <3>3. CASE rows'[j] # rows[j]
      <4>1. rows[j] \in Row
        BY <1>3, <3>1, <3>3, PartOfExpiry, PresentIsRow
      <4> QED BY <1>3, <3>3, <4>1, PartOfExpiry, ExpireType
    <3> QED BY <3>2, <3>3
  <2>2. rows' = [j \in Jobs |-> rows'[j]]
    BY <1>3 DEF KeepPart
  <2> QED BY <2>1, <2>2
<1> QED
  BY <1>1, <1>2, <1>3 DEF KeepPart

(* Every step keeps the variables well typed; the row statements need the  *)
(* rows they name to exist, which ReadRowsExist says.                      *)
LEMMA TypeStep == TypeInv /\ [Next]_vars => TypeOK'
<1> SUFFICES ASSUME TypeOK, ReadRowsExist, [Next]_vars PROVE TypeOK'
  BY DEF TypeInv
<1>0. ASSUME UNCHANGED vars PROVE TypeOK'
  BY <1>0 DEF TypeOK
<1>1. ASSUME NEW r \in Runners, Launch(r) PROVE TypeOK'
  BY <1>1, PcType DEF Launch, Goto, Steps, TypeOK
<1>2. ASSUME NEW r \in Runners, Reconcile(r) PROVE TypeOK'
  <2>1. runs \in [1..Len(runs) -> RunStatuses] /\ Len(runs) \in Nat
    BY DEF TypeOK
  <2>2. runs' \in [1..Len(runs) -> RunStatuses]
    BY <1>2, <2>1 DEF Reconcile, RunStatuses
  <2>3. runs' \in Seq(RunStatuses)
    BY <2>1, <2>2, SeqDef
  <2> QED
    BY <1>2, <2>3, PcType DEF Reconcile, Goto, Steps, TypeOK
<1>3. ASSUME NEW r \in Runners, SkipScheduler(r) PROVE TypeOK'
  BY <1>3, PcType DEF SkipScheduler, Goto, Steps, TypeOK
<1>4. ASSUME NEW r \in Runners, FindIdle(r) PROVE TypeOK'
  BY <1>4, PcType DEF FindIdle, Goto, Steps, TypeOK
<1>5. ASSUME NEW r \in Runners, Refuse(r) PROVE TypeOK'
  BY <1>5, PcType DEF Refuse, Goto, Steps, TypeOK
<1>6. ASSUME NEW r \in Runners, StartRun(r) PROVE TypeOK'
  <2>1. runs' \in Seq(RunStatuses) /\ Len(runs) \in Nat
    BY <1>6 DEF StartRun, TypeOK, RunStatuses
  <2>2. run' \in [Runners -> Nat] /\ fresh' \in [Runners -> SUBSET Jobs]
    BY <1>6, <2>1 DEF StartRun, TypeOK
  <2>3. pc' \in [Runners -> Steps]
    BY <1>6, PcType DEF StartRun, Goto, Steps, CycleSteps
  <2> QED
    BY <1>6, <2>1, <2>2, <2>3 DEF StartRun, TypeOK
<1>7. ASSUME NEW r \in Runners, FetchAll(r) PROVE TypeOK'
  <2>1. PICK res \in [Sources -> UNION {ResultsOf(s) : s \in Sources}] :
          /\ \A s \in Sources : res[s] \in ResultsOf(s)
          /\ fetched' = [fetched EXCEPT ![r] = res]
          /\ todo' = [todo EXCEPT ![r] = [s \in Sources |-> res[s].accepted]]
    BY <1>7 DEF FetchAll
  <2>2. \A s \in Sources : ResultsOf(s) \subseteq Result
    BY SourcesAssumption DEF ResultsOf, Result, Outcomes, PostingsOf
  <2>3. \A s \in Sources : res[s] \in Result /\ res[s].accepted \in SUBSET Postings
    BY <2>1, <2>2 DEF Result
  <2>4. fetched' \in [Runners -> [Sources -> Result]]
    BY <2>1, <2>3 DEF TypeOK
  <2>5. todo' \in [Runners -> [Sources -> SUBSET Postings]]
    BY <2>1, <2>3 DEF TypeOK
  <2> QED
    BY <1>7, <2>4, <2>5, PcType DEF FetchAll, Goto, Steps, CycleSteps, TypeOK
<1>8. ASSUME NEW r \in Runners, UpsertNext(r) PROVE TypeOK'
  <2>0. PICK s \in Sources : \E p \in todo[r][s] :
          /\ todo' = [todo EXCEPT ![r][s] = @ \ {p}]
          /\ rows' = [rows EXCEPT ![JobOf[p]] = upsert_job(@, p, run[r], day)]
          /\ fresh' = IF rows[JobOf[p]].status = "absent"
                      THEN [fresh EXCEPT ![r] = @ \cup {JobOf[p]}]
                      ELSE fresh
    BY <1>8 DEF UpsertNext
  <2>1. PICK p \in todo[r][s] :
          /\ todo' = [todo EXCEPT ![r][s] = @ \ {p}]
          /\ rows' = [rows EXCEPT ![JobOf[p]] = upsert_job(@, p, run[r], day)]
          /\ fresh' = IF rows[JobOf[p]].status = "absent"
                      THEN [fresh EXCEPT ![r] = @ \cup {JobOf[p]}]
                      ELSE fresh
    BY <2>0
  <2>2. p \in Postings /\ JobOf[p] \in Jobs
    BY <2>1, PostingsAssumption DEF TypeOK
  <2>3. rows[JobOf[p]] \in Row \cup {NoRow} /\ run[r] \in Int /\ day \in Int
    BY <2>2 DEF TypeOK
  <2>a. upsert_job(rows[JobOf[p]], p, run[r], day) \in Row
    BY <2>2, <2>3, UpsertType
  <2>4. rows' \in [Jobs -> Row \cup {NoRow}]
    BY <2>1, <2>2, <2>a DEF TypeOK
  <2>5. todo' \in [Runners -> [Sources -> SUBSET Postings]]
    BY <2>1 DEF TypeOK
  <2>6. fresh' \in [Runners -> SUBSET Jobs]
    BY <2>1, <2>2 DEF TypeOK
  <2> QED
    BY <1>8, <2>4, <2>5, <2>6 DEF UpsertNext, TypeOK
<1>9. ASSUME NEW r \in Runners, UpsertsDone(r) PROVE TypeOK'
  BY <1>9, PcType DEF UpsertsDone, Goto, Steps, CycleSteps, TypeOK
<1>10. ASSUME NEW r \in Runners, Refilter(r) PROVE TypeOK'
  <2>1. chosen' \in [Runners -> SUBSET Jobs]
    BY <1>10 DEF Refilter, TypeOK
  <2> QED
    BY <1>10, <2>1, PcType DEF Refilter, Goto, Steps, CycleSteps, TypeOK
<1>11. ASSUME NEW r \in Runners, Retire(r) PROVE TypeOK'
  <2>1. rows' \in [Jobs -> Row \cup {NoRow}]
    BY <1>11, RetireType DEF Retire, RetireAll, TypeOK
  <2> QED
    BY <1>11, <2>1, PcType DEF Retire, RetireAll, Goto, Steps, CycleSteps, TypeOK
<1>12. ASSUME NEW r \in Runners, Expire(r) PROVE TypeOK'
  <2>1. rows' \in [Jobs -> Row \cup {NoRow}]
    BY <1>12, ExpireType, PresentIsRow DEF Expire, TypeOK
  <2> QED
    BY <1>12, <2>1, PcType DEF Expire, Goto, Steps, CycleSteps, TypeOK
<1>13. ASSUME NEW r \in Runners, SweepRead(r) PROVE TypeOK'
  <2>1. chosen' \in [Runners -> SUBSET Jobs]
    BY <1>13 DEF SweepRead, TypeOK
  <2> QED
    BY <1>13, <2>1, PcType DEF SweepRead, Goto, Steps, CycleSteps, TypeOK
<1>14. ASSUME NEW r \in Runners, SweepCheck(r) PROVE TypeOK'
  <2>1. \E j \in chosen[r], verdict \in Verdicts :
          /\ rows' = [rows EXCEPT ![j] = record_verdict(@, verdict)]
          /\ chosen' = [chosen EXCEPT ![r] = @ \ {j}]
    BY <1>14 DEF SweepCheck, SweepRecord
  <2>2. \A j \in chosen[r] : j \in Jobs /\ rows[j] \in Row
    BY PresentIsRow DEF TypeOK, ReadRowsExist, Present
  <2>3. rows' \in [Jobs -> Row \cup {NoRow}]
    BY <2>1, <2>2, VerdictType DEF TypeOK
  <2>4. chosen' \in [Runners -> SUBSET Jobs]
    BY <2>1 DEF TypeOK
  <2> QED
    BY <1>14, <2>3, <2>4 DEF SweepCheck, SweepRecord, TypeOK
<1>15. ASSUME NEW r \in Runners, SweepDone(r) PROVE TypeOK'
  BY <1>15, PcType DEF SweepDone, Goto, Steps, CycleSteps, TypeOK
<1>16. ASSUME NEW r \in Runners, Notify(r) PROVE TypeOK'
  <2>1. announced' \in [Jobs -> Nat]
    BY <1>16 DEF Notify, TypeOK
  <2> QED
    BY <1>16, <2>1, PcType DEF Notify, Goto, Steps, CycleSteps, TypeOK
<1>17. ASSUME NEW r \in Runners, FinishRun(r) PROVE TypeOK'
  <2>1. run_status(fetched[r]) \in RunStatuses
    BY DEF run_status, RunStatuses
  <2>2. runs' \in Seq(RunStatuses)
    BY <1>17, <2>1, RunsType DEF FinishRun
  <2>3. pc' \in [Runners -> Steps]
    BY <1>17, PcType DEF FinishRun, Goto, Exit, Steps
  <2> QED
    BY <1>17, <2>2, <2>3, ForgetType DEF FinishRun, TypeOK
<1>18. ASSUME NEW r \in Runners, RaiseInCycle(r) PROVE TypeOK'
  <2>1. runs' \in Seq(RunStatuses)
    BY <1>18, RunsType DEF RaiseInCycle, RunStatuses
  <2>2. pc' \in [Runners -> Steps]
    BY <1>18, PcType DEF RaiseInCycle, Exit, Steps
  <2> QED
    BY <1>18, <2>1, <2>2, ForgetType, KeepPartType DEF RaiseInCycle, TypeOK
<1>19. ASSUME NEW r \in Runners, RaiseUnfinalised(r) PROVE TypeOK'
  <2>1. pc' \in [Runners -> Steps]
    BY <1>19, PcType DEF RaiseUnfinalised, Exit, Steps
  <2> QED
    BY <1>19, <2>1, ForgetType DEF RaiseUnfinalised, TypeOK
<1>20. ASSUME NEW r \in Runners, Crash(r) PROVE TypeOK'
  <2>1. pc' \in [Runners -> Steps]
    BY <1>20, PcType DEF Crash, Steps
  <2> QED
    BY <1>20, <2>1, ForgetType DEF Crash, TypeOK
<1>21. ASSUME NEW j \in Jobs, NEW value \in BOOLEAN, JobAction(j, value) PROVE TypeOK'
  <2>1. rows[j] \in Row
    BY <1>21, PresentIsRow DEF JobAction, TypeOK
  <2>2. rows' \in [Jobs -> Row \cup {NoRow}]
    BY <1>21, <2>1, FlagType DEF JobAction, TypeOK
  <2> QED
    BY <1>21, <2>2 DEF JobAction, TypeOK
<1>22. ASSUME NEW j \in Jobs, OpenDetail(j) PROVE TypeOK'
  <2>1. rows[j] \in Row
    BY <1>22, PresentIsRow DEF OpenDetail, TypeOK
  <2>2. viewer' \in Views
    BY <1>22, <2>1 DEF OpenDetail, Views, Row
  <2> QED
    BY <1>22, <2>2 DEF OpenDetail, TypeOK
<1>23. ASSUME ReadPage PROVE TypeOK'
  <2>1. viewer \in Views /\ viewer.job \in Jobs /\ viewer.page \in Postings
    BY <1>23 DEF ReadPage, TypeOK, Views
  <2>2. rows[viewer.job] \in Row
    BY <1>23, <2>1, PresentIsRow DEF ReadPage, TypeOK, ReadRowsExist, Present
  <2>3. rows' \in [Jobs -> Row \cup {NoRow}]
    BY <1>23, <2>1, <2>2, CacheType DEF ReadPage, TypeOK
  <2>4. viewer' \in Views
    BY <1>23, <2>1 DEF ReadPage, Views
  <2> QED
    BY <1>23, <2>3, <2>4 DEF ReadPage, TypeOK
<1>24. ASSUME RecordDetail PROVE TypeOK'
  <2>1. viewer.job \in Jobs
    BY <1>24 DEF RecordDetail, TypeOK, Views
  <2>2. rows[viewer.job] \in Row
    BY <1>24, <2>1, PresentIsRow DEF RecordDetail, TypeOK, ReadRowsExist, Present
  <2>3. rows' \in [Jobs -> Row \cup {NoRow}]
    BY <1>24, <2>1, <2>2, VerdictType DEF RecordDetail, TypeOK
  <2> QED
    BY <1>24, <2>3 DEF RecordDetail, TypeOK
<1>25. ASSUME Tick PROVE TypeOK'
  BY <1>25 DEF Tick, TypeOK
<1> QED
  BY <1>0, <1>1, <1>2, <1>3, <1>4, <1>5, <1>6, <1>7, <1>8, <1>9, <1>10, <1>11,
     <1>12, <1>13, <1>14, <1>15, <1>16, <1>17, <1>18, <1>19, <1>20, <1>21,
     <1>22, <1>23, <1>24, <1>25 DEF Next, CycleStep

----------------------------------------------------------------------------
(* What a step may do to a row *)

RowMove(j) ==
  \/ rows'[j] = rows[j]
  \/ \E r \in Runners, p \in Postings :
       /\ pc[r] = "upsert"
       /\ \E s \in Sources : p \in todo[r][s]
       /\ JobOf[p] = j
       /\ rows'[j] = upsert_job(rows[j], p, run[r], day)
  \/ rows'[j] = retire_jobs(rows[j])
  \/ /\ Present(j)
     /\ \E r \in Runners, windowed \in BOOLEAN :
          \/ rows'[j] = expire_stale(rows[j], run[r], windowed, day)
          \/ rows'[j] = Softened(rows[j], run[r], windowed, day)
  \/ /\ Present(j)
     /\ \E verdict \in Verdicts : rows'[j] = record_verdict(rows[j], verdict)
  \/ /\ Present(j)
     /\ rows'[j] = FlagRow(rows[j], ~rows[j].flagged)
  \/ /\ viewer # NoView
     /\ viewer.job = j
     /\ rows'[j] = CacheText(rows[j], viewer.page)

(* The actions that write a row.                                           *)
LEMMA RowWriters ==
  ASSUME [Next]_vars
  PROVE  \/ UNCHANGED rows
         \/ \E r \in Runners : \/ UpsertNext(r) \/ Retire(r) \/ Expire(r)
                              \/ SweepCheck(r) \/ RaiseInCycle(r)
         \/ \E j \in Jobs, value \in BOOLEAN : JobAction(j, value)
         \/ ReadPage
         \/ RecordDetail
<1>1. CASE UNCHANGED vars
  BY <1>1
<1>2. CASE \E r \in Runners : Launch(r) \/ Reconcile(r) \/ SkipScheduler(r)
                              \/ FindIdle(r) \/ Refuse(r)
  BY <1>2 DEF Launch, Reconcile, SkipScheduler, FindIdle, Refuse
<1>3. CASE \E r \in Runners : RaiseInCycle(r) \/ RaiseUnfinalised(r) \/ Crash(r)
  BY <1>3 DEF RaiseUnfinalised, Crash
<1>4. CASE \E r \in Runners : StartRun(r) \/ FetchAll(r) \/ UpsertsDone(r)
                              \/ Refilter(r) \/ SweepRead(r) \/ SweepDone(r)
                              \/ Notify(r) \/ FinishRun(r)
  BY <1>4 DEF StartRun, FetchAll, UpsertsDone, Refilter, SweepRead, SweepDone,
              Notify, FinishRun
<1>5. CASE \E r \in Runners : UpsertNext(r) \/ Retire(r) \/ Expire(r) \/ SweepCheck(r)
  BY <1>5
<1>6. CASE \/ \E j \in Jobs, value \in BOOLEAN : JobAction(j, value)
           \/ ReadPage
           \/ RecordDetail
  BY <1>6
<1>7. CASE Tick \/ \E j \in Jobs : OpenDetail(j)
  BY <1>7 DEF Tick, OpenDetail
<1> QED
  BY <1>1, <1>2, <1>3, <1>4, <1>5, <1>6, <1>7 DEF Next, CycleStep

(* Every step moves every row by one of those statements, or not at all.   *)
LEMMA RowStep == TypeInv /\ [Next]_vars => \A j \in Jobs : RowMove(j)
<1> SUFFICES ASSUME TypeOK, ReadRowsExist, [Next]_vars, NEW j \in Jobs
             PROVE  RowMove(j)
  BY DEF TypeInv
<1>1. CASE UNCHANGED rows
  BY <1>1 DEF RowMove
<1>2. ASSUME NEW r \in Runners, UpsertNext(r) PROVE RowMove(j)
  <2>1. PICK s \in Sources : \E p \in todo[r][s] :
          rows' = [rows EXCEPT ![JobOf[p]] = upsert_job(@, p, run[r], day)]
    BY <1>2 DEF UpsertNext
  <2>2. PICK p \in todo[r][s] :
          rows' = [rows EXCEPT ![JobOf[p]] = upsert_job(@, p, run[r], day)]
    BY <2>1
  <2>3. p \in Postings
    BY <2>2 DEF TypeOK
  <2>4. CASE JobOf[p] = j
    <3>1. rows'[j] = upsert_job(rows[j], p, run[r], day)
      BY <2>2, <2>4 DEF TypeOK
    <3> QED
      BY <1>2, <2>3, <2>4, <3>1 DEF RowMove, UpsertNext
  <2>5. CASE JobOf[p] # j
    BY <2>2, <2>5 DEF RowMove, TypeOK
  <2> QED
    BY <2>4, <2>5
<1>3. ASSUME NEW r \in Runners, Retire(r) PROVE RowMove(j)
  BY <1>3 DEF Retire, RetireAll, RowMove
<1>4. ASSUME NEW r \in Runners, Expire(r) PROVE RowMove(j)
  <2>1. rows'[j] = rows[j] \/
        /\ rows[j].status # "absent"
        /\ rows'[j] = expire_stale(rows[j], run[r],
                         fetched[r][rows[j].source].outcome = "windowed", day)
    BY <1>4 DEF Expire
  <2> QED
    BY <2>1 DEF RowMove, Present
<1>5. ASSUME NEW r \in Runners, SweepCheck(r) PROVE RowMove(j)
  <2>1. PICK i \in chosen[r] : \E verdict \in Verdicts :
          rows' = [rows EXCEPT ![i] = record_verdict(@, verdict)]
    BY <1>5 DEF SweepCheck, SweepRecord
  <2>2. CASE i = j
    <3>1. \E verdict \in Verdicts : rows'[j] = record_verdict(rows[j], verdict)
      BY <2>1, <2>2 DEF TypeOK
    <3>2. Present(j)
      BY <2>2 DEF ReadRowsExist
    <3> QED
      BY <3>1, <3>2 DEF RowMove
  <2>3. CASE i # j
    BY <2>1, <2>3 DEF RowMove, TypeOK
  <2> QED
    BY <2>2, <2>3
<1>6. ASSUME NEW i \in Jobs, NEW value \in BOOLEAN, JobAction(i, value)
      PROVE  RowMove(j)
  <2>1. CASE i = j
    <3>1. rows[j] \in Row
      BY <1>6, <2>1, PresentIsRow DEF JobAction, TypeOK
    <3>2. value = ~rows[j].flagged
      BY <1>6, <2>1, <3>1 DEF JobAction, Row
    <3> QED
      BY <1>6, <2>1, <3>2 DEF RowMove, JobAction, Present, TypeOK
  <2>2. CASE i # j
    BY <1>6, <2>2 DEF RowMove, JobAction, TypeOK
  <2> QED
    BY <2>1, <2>2
<1>7. ASSUME ReadPage PROVE RowMove(j)
  BY <1>7 DEF RowMove, ReadPage, TypeOK
<1>8. ASSUME RecordDetail PROVE RowMove(j)
  <2>1. CASE viewer.job = j
    <3>1. viewer.verdict \in Verdicts
      BY <1>8 DEF RecordDetail, TypeOK, Views
    <3>2. rows'[j] = record_verdict(rows[j], viewer.verdict)
      BY <1>8, <2>1 DEF RecordDetail, TypeOK
    <3>3. Present(j)
      BY <1>8, <2>1 DEF RecordDetail, ReadRowsExist
    <3> QED
      BY <3>1, <3>2, <3>3 DEF RowMove
  <2>2. CASE viewer.job # j
    BY <1>8, <2>2 DEF RowMove, RecordDetail, TypeOK
  <2> QED
    BY <2>1, <2>2
<1>9. ASSUME NEW r \in Runners, RaiseInCycle(r) PROVE RowMove(j)
  <2>1. CASE UNCHANGED rows
    BY <2>1 DEF RowMove
  <2>2. CASE pc[r] = "expire"
    BY <1>9, <2>2, PartOfExpiry DEF RaiseInCycle, RowMove, Present
  <2>3. CASE pc[r] = "retire"
    BY <1>9, <2>3 DEF RaiseInCycle, KeepPart, RowMove
  <2> QED
    BY <1>9, <2>1, <2>2, <2>3 DEF RaiseInCycle, KeepPart
<1> QED
  BY <1>1, <1>2, <1>3, <1>4, <1>5, <1>6, <1>7, <1>8, <1>9, RowWriters

(* No move removes a row or credits it to another source. *)
LEMMA MoveKeepsRow ==
  ASSUME TypeOK, NEW j \in Jobs, Present(j), RowMove(j)
  PROVE  rows'[j].status # "absent" /\ rows'[j].source = rows[j].source
<1>1. rows[j] \in Row
  BY PresentIsRow DEF TypeOK, Present
<1>2. \A p, n, now : /\ upsert_job(rows[j], p, n, now).status # "absent"
                     /\ upsert_job(rows[j], p, n, now).source = rows[j].source
  BY <1>1 DEF upsert_job, Refreshed, Row
<1>3. \A n, w, now : /\ expire_stale(rows[j], n, w, now).status # "absent"
                     /\ expire_stale(rows[j], n, w, now).source = rows[j].source
                     /\ Softened(rows[j], n, w, now).status # "absent"
                     /\ Softened(rows[j], n, w, now).source = rows[j].source
  BY <1>1 DEF expire_stale, Softened, Row
<1>4. /\ retire_jobs(rows[j]).status # "absent"
      /\ retire_jobs(rows[j]).source = rows[j].source
  BY <1>1 DEF retire_jobs, Row
<1>5. \A v : /\ record_verdict(rows[j], v).status # "absent"
             /\ record_verdict(rows[j], v).source = rows[j].source
  BY <1>1 DEF record_verdict, Row
<1>6. \A v : /\ FlagRow(rows[j], v).status # "absent"
             /\ FlagRow(rows[j], v).source = rows[j].source
             /\ CacheText(rows[j], v).status # "absent"
             /\ CacheText(rows[j], v).source = rows[j].source
  BY <1>1 DEF FlagRow, CacheText, Row
<1>7. rows[j].status # "absent"
  BY DEF Present
<1> QED
  BY <1>2, <1>3, <1>4, <1>5, <1>6, <1>7 DEF RowMove

(* No step removes a row: the code has no DELETE FROM jobs.                *)
LEMMA PresentStays ==
  TypeInv /\ [Next]_vars => \A j \in Jobs : Present(j) => Present(j)'
  BY RowStep, MoveKeepsRow DEF Present, TypeInv

(* A process reads only rows that exist, ... *)
LEMMA ChosenStep ==
  ASSUME TypeOK, [Next]_vars, NEW r \in Runners
  PROVE  \A j \in chosen'[r] : j \in chosen[r] \/ Present(j)
<1>1. CASE UNCHANGED chosen
  BY <1>1
<1>2. ASSUME NEW q \in Runners,
             RaiseInCycle(q) \/ RaiseUnfinalised(q) \/ Crash(q) \/ FinishRun(q)
      PROVE  \A j \in chosen'[r] : j \in chosen[r]
  BY <1>2 DEF RaiseInCycle, RaiseUnfinalised, Crash, FinishRun, Forget, TypeOK
<1>3. ASSUME NEW q \in Runners,
             Retire(q) \/ SweepCheck(q) \/ SweepDone(q)
      PROVE  \A j \in chosen'[r] : j \in chosen[r]
  BY <1>3 DEF Retire, RetireAll, SweepCheck, SweepRecord, SweepDone, TypeOK
<1>4. ASSUME NEW q \in Runners, Refilter(q) \/ SweepRead(q)
      PROVE  \A j \in chosen'[r] : j \in chosen[r] \/ Present(j)
  <2>1. CASE Refilter(q)
    BY <2>1 DEF Refilter, Retirable, Present, TypeOK
  <2>2. CASE SweepRead(q)
    BY <2>2 DEF SweepRead, Present, TypeOK
  <2> QED BY <1>4, <2>1, <2>2
<1>5. ASSUME NEW q \in Runners,
             \/ Launch(q) \/ Reconcile(q) \/ SkipScheduler(q) \/ FindIdle(q)
             \/ Refuse(q) \/ StartRun(q) \/ FetchAll(q) \/ UpsertNext(q)
             \/ UpsertsDone(q) \/ Expire(q) \/ Notify(q)
      PROVE  UNCHANGED chosen
  BY <1>5 DEF Launch, Reconcile, SkipScheduler, FindIdle, Refuse, StartRun, FetchAll,
              UpsertNext, UpsertsDone, Expire, Notify
<1>6. CASE \/ \E j \in Jobs, value \in BOOLEAN : JobAction(j, value)
           \/ \E j \in Jobs : OpenDetail(j)
           \/ ReadPage \/ RecordDetail \/ Tick
  BY <1>6 DEF JobAction, OpenDetail, ReadPage, RecordDetail, Tick
<1>7. CASE UNCHANGED vars
  BY <1>7
<1> QED
  BY <1>1, <1>2, <1>3, <1>4, <1>5, <1>6, <1>7 DEF Next, CycleStep

(* ... and so does the dashboard, which then holds on to what it read. *)
LEMMA ViewerStep ==
  ASSUME [Next]_vars, viewer' # NoView
  PROVE  \/ /\ viewer # NoView
            /\ viewer'.job = viewer.job
            /\ viewer'.page = viewer.page
         \/ \E j \in Jobs : OpenDetail(j)
<1>1. CASE UNCHANGED viewer
  BY <1>1
<1>2. CASE ReadPage
  <2>1. viewer # NoView /\ \E v : viewer' = [viewer EXCEPT !.verdict = v]
    BY <1>2 DEF ReadPage
  <2> QED
    BY <2>1
<1>3. CASE RecordDetail
  BY <1>3 DEF RecordDetail
<1>4. CASE \E j \in Jobs : OpenDetail(j)
  BY <1>4
<1>5. ASSUME NEW r \in Runners,
             \/ Launch(r) \/ Reconcile(r) \/ SkipScheduler(r) \/ FindIdle(r)
             \/ Refuse(r) \/ RaiseInCycle(r) \/ RaiseUnfinalised(r) \/ Crash(r)
      PROVE  UNCHANGED viewer
  BY <1>5 DEF Launch, Reconcile, SkipScheduler, FindIdle, Refuse, RaiseInCycle,
              RaiseUnfinalised, Crash
<1>6. ASSUME NEW r \in Runners, CycleStep(r) PROVE UNCHANGED viewer
  BY <1>6 DEF CycleStep, StartRun, FetchAll, UpsertNext, UpsertsDone, Refilter, Retire,
              RetireAll, Expire, SweepRead, SweepCheck, SweepRecord, SweepDone, Notify,
              FinishRun
<1>7. CASE Tick \/ \E j \in Jobs, value \in BOOLEAN : JobAction(j, value)
  BY <1>7 DEF Tick, JobAction
<1> QED
  BY <1>1, <1>2, <1>3, <1>4, <1>5, <1>6, <1>7 DEF Next

(* Every step keeps what was read earlier naming rows that exist.          *)
LEMMA ReadRowsStep == TypeInv /\ [Next]_vars => ReadRowsExist'
<1> SUFFICES ASSUME TypeOK, ReadRowsExist, [Next]_vars PROVE ReadRowsExist'
  BY DEF TypeInv
<1>1. \A j \in Jobs : Present(j) => Present(j)'
  BY PresentStays DEF TypeInv
<1>2. TypeOK'
  BY TypeStep DEF TypeInv
<1>3. ASSUME NEW r \in Runners, NEW j \in chosen'[r] PROVE Present(j)'
  <2>1. Present(j)
    BY <1>3, ChosenStep DEF ReadRowsExist
  <2>2. j \in Jobs
    BY <1>2, <1>3 DEF TypeOK
  <2> QED
    BY <1>1, <2>1, <2>2
<1>4. ASSUME viewer' # NoView PROVE Present(viewer.job)'
  <2>1. viewer'.job \in Jobs
    BY <1>2, <1>4 DEF TypeOK, Views
  <2>2. Present(viewer'.job)
    BY <1>4, ViewerStep DEF ReadRowsExist, OpenDetail, Present
  <2>3. rows'[viewer'.job].status # "absent"
    BY <1>1, <2>1, <2>2 DEF Present
  <2> QED
    BY <2>3 DEF Present
<1> QED
  BY <1>3, <1>4 DEF ReadRowsExist

(* The type invariant and the existence of what was read, which are only   *)
(* inductive together.                                                     *)
THEOREM TypeInvHolds == Spec => []TypeInv
<1>1. Init => TypeInv
  BY TypeInit
<1>2. TypeInv /\ [Next]_vars => TypeInv'
  BY TypeStep, ReadRowsStep DEF TypeInv
<1> QED
  BY <1>1, <1>2, PTL DEF Spec

(* Every table, every process memory and every open request is well typed, *)
(* and whatever was read earlier still names a row of the jobs table.      *)
THEOREM TypeCorrect == Spec => []TypeOK
<1>1. TypeInv => TypeOK
  BY DEF TypeInv
<1> QED
  BY <1>1, TypeInvHolds, PTL

----------------------------------------------------------------------------
(* Provenance *)

(* A row comes into being by an insert only. *)
LEMMA MoveOfAbsent ==
  ASSUME TypeOK, ReadRowsExist, NEW j \in Jobs, ~Present(j), RowMove(j)
  PROVE  \/ rows'[j] = rows[j]
         \/ \E r \in Runners, p \in Postings :
              /\ pc[r] = "upsert"
              /\ JobOf[p] = j
              /\ rows'[j] = Inserted(p, run[r], day)
<1>1. rows[j].status = "absent"
  BY DEF Present
<1>2. retire_jobs(rows[j]) = rows[j]
  BY <1>1 DEF retire_jobs, Retirable
<1>3. ~(viewer # NoView /\ viewer.job = j)
  BY DEF ReadRowsExist
<1> QED
  BY <1>1, <1>2, <1>3 DEF RowMove, upsert_job

(* A stored row's link and text change only to a posting the same source   *)
(* lists for the job, to the page an open request holds, or to nothing.    *)
LEMMA MoveOfLink ==
  ASSUME TypeOK, NEW j \in Jobs, Present(j), RowMove(j)
  PROVE  /\ \/ rows'[j].link = rows[j].link
            \/ /\ ~rows[j].flagged
               /\ rows'[j].link \in Postings
               /\ JobOf[rows'[j].link] = j
               /\ SourceOf[rows'[j].link] = rows[j].source
         /\ \/ rows'[j].full_description = rows[j].full_description
            \/ ~rows[j].flagged /\ rows'[j].full_description = NoPosting
            \/ /\ viewer # NoView
               /\ viewer.job = j
               /\ rows'[j].full_description = viewer.page
<1> DEFINE Same(row) == /\ row.link = rows[j].link
                        /\ row.full_description = rows[j].full_description
<1>1. rows[j] \in Row /\ rows[j].status # "absent"
  BY PresentIsRow DEF TypeOK, Present
<1>2. /\ Same(retire_jobs(rows[j]))
      /\ \A n, w, now : /\ Same(expire_stale(rows[j], n, w, now))
                        /\ Same(Softened(rows[j], n, w, now))
      /\ \A v : Same(record_verdict(rows[j], v))
      /\ \A v : Same(FlagRow(rows[j], v))
  BY <1>1 DEF Row, retire_jobs, expire_stale, Softened, record_verdict, FlagRow
<1>3. ASSUME NEW p \in Postings, NEW n, NEW now, JobOf[p] = j,
             rows'[j] = upsert_job(rows[j], p, n, now)
      PROVE  \/ Same(rows'[j])
             \/ /\ ~rows[j].flagged
                /\ rows'[j].link = p
                /\ SourceOf[p] = rows[j].source
                /\ rows'[j].full_description = NoPosting
  BY <1>1, <1>3 DEF upsert_job, Refreshed, Relinked, Row
<1>4. \A p : /\ CacheText(rows[j], p).link = rows[j].link
             /\ CacheText(rows[j], p).full_description = p
  BY <1>1 DEF CacheText, Row
<1>5. CASE \E r \in Runners, p \in Postings :
             JobOf[p] = j /\ rows'[j] = upsert_job(rows[j], p, run[r], day)
  BY <1>3, <1>5
<1>6. CASE Same(rows'[j])
  BY <1>6
<1>7. CASE viewer # NoView /\ viewer.job = j /\ rows'[j] = CacheText(rows[j], viewer.page)
  BY <1>4, <1>7
<1> QED
  <2>1. \/ Same(rows'[j])
        \/ \E r \in Runners, p \in Postings :
             JobOf[p] = j /\ rows'[j] = upsert_job(rows[j], p, run[r], day)
        \/ viewer # NoView /\ viewer.job = j /\ rows'[j] = CacheText(rows[j], viewer.page)
    BY <1>2 DEF RowMove
  <2> QED
    BY <2>1, <1>5, <1>6, <1>7

Provenance == LinkProvenance /\ ViewProvenance

(* Every step keeps links, cached texts and open requests within one job   *)
(* and one source.                                                         *)
LEMMA ProvenanceStep == TypeInv /\ Provenance /\ [Next]_vars => Provenance'
<1> SUFFICES ASSUME TypeOK, ReadRowsExist, LinkProvenance, ViewProvenance, [Next]_vars
             PROVE  LinkProvenance' /\ ViewProvenance'
  BY DEF TypeInv, Provenance
<1>0. TypeOK' /\ ReadRowsExist'
  BY TypeStep, ReadRowsStep DEF TypeInv
<1>1. ASSUME NEW j \in Jobs PROVE RowMove(j)
  BY RowStep DEF TypeInv
<1>2. ASSUME NEW j \in Jobs, Present(j) PROVE rows'[j].source = rows[j].source
  BY <1>1, <1>2, MoveKeepsRow
<1>3. ASSUME NEW j \in Jobs, Present(j)',
             NEW p \in {rows'[j].link, rows'[j].full_description} \ {NoPosting}
      PROVE  JobOf[p] = j /\ SourceOf[p] = rows'[j].source
  <2>1. CASE Present(j)
    BY <1>1, <1>2, <1>3, <2>1, MoveOfLink DEF LinkProvenance, ViewProvenance
  <2>2. CASE ~Present(j)
    <3>1. rows'[j] # rows[j]
      BY <1>3, <2>2 DEF Present
    <3>2. PICK r \in Runners, q \in Postings :
            JobOf[q] = j /\ rows'[j] = Inserted(q, run[r], day)
      BY <1>1, <2>2, <3>1, MoveOfAbsent
    <3>3. /\ rows'[j].link = q
          /\ rows'[j].full_description = NoPosting
          /\ rows'[j].source = SourceOf[q]
      BY <3>2 DEF Inserted
    <3> QED
      BY <1>3, <3>2, <3>3
  <2> QED
    BY <2>1, <2>2
<1>4. ASSUME viewer' # NoView
      PROVE  /\ Present(viewer.job)'
             /\ JobOf[viewer'.page] = viewer'.job
             /\ SourceOf[viewer'.page] = rows'[viewer'.job].source
  <2>1. viewer'.job \in Jobs /\ Present(viewer.job)'
    BY <1>0, <1>4 DEF TypeOK, Views, ReadRowsExist
  <2>2. /\ Present(viewer'.job)
        /\ JobOf[viewer'.page] = viewer'.job
        /\ SourceOf[viewer'.page] = rows[viewer'.job].source
    <3>1. CASE /\ viewer # NoView
               /\ viewer'.job = viewer.job
               /\ viewer'.page = viewer.page
      BY <3>1 DEF ViewProvenance
    <3>2. ASSUME NEW j \in Jobs, OpenDetail(j)
          PROVE  /\ Present(viewer'.job)
                 /\ JobOf[viewer'.page] = viewer'.job
                 /\ SourceOf[viewer'.page] = rows[viewer'.job].source
      <4>1. viewer'.job = j /\ viewer'.page = rows[j].link /\ Present(j)
        BY <3>2 DEF OpenDetail, Present
      <4>2. rows[j].link # NoPosting
        BY <4>1, PresentIsRow, PostingsAssumption DEF Present, TypeOK, Row
      <4> QED
        BY <4>1, <4>2 DEF LinkProvenance
    <3> QED
      BY <1>4, <3>1, <3>2, ViewerStep
  <2> QED
    BY <1>2, <2>1, <2>2
<1>5. LinkProvenance'
  BY <1>3 DEF LinkProvenance
<1>6. ViewProvenance'
  BY <1>4 DEF ViewProvenance
<1> QED
  BY <1>5, <1>6

(* Rows and the open request hold postings of their own job and source.    *)
THEOREM ProvenanceHolds == Spec => []Provenance
<1>1. Init => Provenance
  BY DEF Init, Provenance, LinkProvenance, ViewProvenance, Present, NoRow
<1> QED
  BY <1>1, ProvenanceStep, TypeInvHolds, PTL DEF Spec

(* Link provenance, for any postings, sources, processes and requests. *)
THEOREM LinkProvenanceHolds == Spec => []LinkProvenance
<1>1. Provenance => LinkProvenance
  BY DEF Provenance
<1> QED
  BY <1>1, ProvenanceHolds, PTL

----------------------------------------------------------------------------
(* What the owner flagged *)

(* How a stored row may come to be deleted. *)
LEMMA MoveToDeleted ==
  ASSUME TypeOK, NEW j \in Jobs, Present(j), RowMove(j),
         rows[j].status # "deleted", rows'[j].status = "deleted"
  PROVE  ~rows[j].flagged \/ rows[j].last_seen_at + GraceDays < day
<1>1. rows[j] \in Row /\ rows[j].status # "absent"
  BY PresentIsRow DEF TypeOK, Present
<1>2. \A p, n, now : upsert_job(rows[j], p, n, now).status = "active"
  BY <1>1 DEF upsert_job, Refreshed, Row
<1>3. retire_jobs(rows[j]).status = "deleted" => ~rows[j].flagged
  BY <1>1 DEF retire_jobs, Retirable, Row
<1>4. \A n, w : /\ expire_stale(rows[j], n, w, day).status = "deleted"
                      => rows[j].last_seen_at + GraceDays < day
                /\ Softened(rows[j], n, w, day).status # "deleted"
  BY <1>1 DEF expire_stale, Softened, Overdue, Row
<1>5. \A v : record_verdict(rows[j], v).status = "deleted" => ~rows[j].flagged
  BY <1>1 DEF record_verdict, Row
<1>6. \A v : /\ FlagRow(rows[j], v).status # "deleted"
             /\ CacheText(rows[j], v).status # "deleted"
  BY <1>1 DEF FlagRow, CacheText, Row
<1> QED
  BY <1>2, <1>3, <1>4, <1>5, <1>6 DEF RowMove

(* No interleaving of a click with a retire pass, a closure sweep, a       *)
(* detail request or another process deletes a flagged row: only the grace *)
(* period does.                                                            *)
THEOREM FlaggedGoneOnlyOverdueHolds == Spec => FlaggedGoneOnlyOverdue
<1> DEFINE A == \A j \in Jobs :
       Present(j) /\ rows[j].flagged /\ rows[j].status # "deleted"
       /\ rows'[j].status = "deleted" => rows[j].last_seen_at + GraceDays < day
<1>1. TypeInv /\ [Next]_vars => [A]_vars
  BY RowStep, MoveToDeleted DEF TypeInv
<1> QED
  BY <1>1, TypeInvHolds, PTL DEF Spec, FlaggedGoneOnlyOverdue

(* The link of a flagged row, and that a text is cached for it, survive    *)
(* every cycle.                                                            *)
THEOREM FlaggedRecordKeptHolds == Spec => FlaggedRecordKept
<1> DEFINE A == \A j \in Jobs :
       Present(j) /\ rows[j].flagged =>
         /\ rows'[j].link = rows[j].link
         /\ rows[j].full_description # NoPosting
              => rows'[j].full_description # NoPosting
<1>1. TypeInv /\ [Next]_vars => [A]_vars
  <2> SUFFICES ASSUME TypeInv, [Next]_vars, NEW j \in Jobs, Present(j), rows[j].flagged
               PROVE  /\ rows'[j].link = rows[j].link
                      /\ rows[j].full_description # NoPosting
                           => rows'[j].full_description # NoPosting
    OBVIOUS
  <2>1. RowMove(j)
    BY RowStep
  <2>2. viewer # NoView => viewer.page # NoPosting
    BY PostingsAssumption DEF TypeInv, TypeOK, Views
  <2> QED
    BY <2>1, <2>2, MoveOfLink DEF TypeInv
<1> QED
  BY <1>1, TypeInvHolds, PTL DEF Spec, FlaggedRecordKept

----------------------------------------------------------------------------
(* Announcements *)

(* A process in its cycle was in it before, under the same run_id and not  *)
(* further on, or is just starting it.                                     *)
LEMMA PcStep ==
  ASSUME TypeOK, [Next]_vars, NEW r \in Runners, pc'[r] \in CycleSteps, ~StartRun(r)
  PROVE  /\ pc[r] \in CycleSteps
         /\ run'[r] = run[r]
         /\ pc[r] = "finish" => pc'[r] = "finish"
         /\ Notify(r) => pc'[r] = "finish"
<1>1. CASE UNCHANGED <<pc, run>>
  BY <1>1 DEF Notify, Goto, TypeOK
<1>2. ASSUME NEW q \in Runners,
             \/ Launch(q) \/ Reconcile(q) \/ SkipScheduler(q) \/ FindIdle(q) \/ Refuse(q)
      PROVE  pc[r] = pc'[r] /\ run' = run /\ ~Notify(r)
  BY <1>2 DEF Launch, Reconcile, SkipScheduler, FindIdle, Refuse, Goto, CycleSteps,
              Notify, TypeOK
<1>3. ASSUME NEW q \in Runners,
             RaiseInCycle(q) \/ RaiseUnfinalised(q) \/ Crash(q) \/ FinishRun(q)
      PROVE  pc[r] = pc'[r] /\ run'[r] = run[r] /\ ~Notify(r)
  BY <1>3 DEF RaiseInCycle, RaiseUnfinalised, Crash, FinishRun, Forget, Exit, Goto,
              CycleSteps, Notify, TypeOK
<1>4. ASSUME NEW q \in Runners, StartRun(q)
      PROVE  pc[r] = pc'[r] /\ run'[r] = run[r] /\ ~Notify(r)
  <2>1. q # r
    BY <1>4
  <2> QED
    BY <1>4, <2>1 DEF StartRun, Goto, Notify, TypeOK
<1>5. ASSUME NEW q \in Runners, NEW from \in CycleSteps \ {"finish"},
             NEW to \in CycleSteps, Goto(q, from, to), UNCHANGED run
      PROVE  /\ pc[r] \in CycleSteps
             /\ run'[r] = run[r]
             /\ pc[r] = "finish" => pc'[r] = "finish"
             /\ Notify(r) => pc'[r] = "finish"
  BY <1>5 DEF Goto, Notify, TypeOK
<1>6. ASSUME NEW q \in Runners,
             \/ FetchAll(q) \/ UpsertsDone(q) \/ Refilter(q) \/ Retire(q) \/ Expire(q)
             \/ SweepRead(q) \/ SweepDone(q) \/ Notify(q)
      PROVE  UNCHANGED run /\ \E from \in CycleSteps \ {"finish"}, to \in CycleSteps :
                                Goto(q, from, to)
  BY <1>6 DEF FetchAll, UpsertsDone, Refilter, Retire, RetireAll, Expire, SweepRead,
              SweepDone, Notify, CycleSteps
<1>7. ASSUME NEW q \in Runners, UpsertNext(q) \/ SweepCheck(q)
      PROVE  UNCHANGED <<pc, run>>
  BY <1>7 DEF UpsertNext, SweepCheck, SweepRecord
<1>8. CASE \/ \E j \in Jobs, value \in BOOLEAN : JobAction(j, value)
           \/ \E j \in Jobs : OpenDetail(j)
           \/ ReadPage \/ RecordDetail \/ Tick
  BY <1>1, <1>8 DEF JobAction, OpenDetail, ReadPage, RecordDetail, Tick
<1>9. CASE UNCHANGED vars
  BY <1>1, <1>9
<1> QED
  BY <1>1, <1>2, <1>3, <1>4, <1>5, <1>6, <1>7, <1>8, <1>9 DEF Next, CycleStep

(* Only an insert makes a row 'new', and only an upsert restamps it. *)
LEMMA MoveOfCycle ==
  ASSUME TypeOK, NEW j \in Jobs, Present(j), RowMove(j)
  PROVE  /\ rows'[j].status = "new" =>
              /\ rows[j].status = "new"
              /\ rows'[j].last_seen_cycle = rows[j].last_seen_cycle
         /\ \/ rows'[j].last_seen_cycle = rows[j].last_seen_cycle
            \/ \E r \in Runners : /\ pc[r] = "upsert"
                                  /\ rows'[j].last_seen_cycle = run[r]
<1> DEFINE Same(row) == /\ row.last_seen_cycle = rows[j].last_seen_cycle
                        /\ row.status = "new" => rows[j].status = "new"
<1>1. rows[j] \in Row /\ rows[j].status # "absent"
  BY PresentIsRow DEF TypeOK, Present
<1>2. /\ Same(retire_jobs(rows[j]))
      /\ \A n, w, now : /\ Same(expire_stale(rows[j], n, w, now))
                        /\ Same(Softened(rows[j], n, w, now))
      /\ \A v : Same(record_verdict(rows[j], v))
      /\ \A v : Same(FlagRow(rows[j], v))
      /\ \A v : Same(CacheText(rows[j], v))
  BY <1>1 DEF Row, retire_jobs, expire_stale, Softened, record_verdict, FlagRow, CacheText
<1>3. \A p, n, now : /\ upsert_job(rows[j], p, n, now).last_seen_cycle = n
                     /\ upsert_job(rows[j], p, n, now).status = "active"
  BY <1>1 DEF upsert_job, Refreshed, Row
<1> HIDE DEF Same
<1>4. \/ Same(rows'[j])
      \/ \E r \in Runners : /\ pc[r] = "upsert"
                            /\ rows'[j].last_seen_cycle = run[r]
                            /\ rows'[j].status = "active"
  <2>1. CASE rows'[j] = rows[j]
    BY <2>1 DEF Same
  <2> QED
    BY <1>2, <1>3, <2>1 DEF RowMove
<1> QED
  BY <1>4 DEF Same

(* Four actions write the runs table. *)
LEMMA RunsWriters ==
  ASSUME [Next]_vars
  PROVE  \/ UNCHANGED runs
         \/ \E r \in Runners : \/ Reconcile(r) \/ StartRun(r)
                              \/ FinishRun(r) \/ RaiseInCycle(r)
<1>1. ASSUME NEW r \in Runners,
             \/ Launch(r) \/ SkipScheduler(r) \/ FindIdle(r) \/ Refuse(r)
             \/ RaiseUnfinalised(r) \/ Crash(r)
      PROVE  UNCHANGED runs
  BY <1>1 DEF Launch, SkipScheduler, FindIdle, Refuse, RaiseUnfinalised, Crash
<1>2. ASSUME NEW r \in Runners, CycleStep(r), ~StartRun(r), ~FinishRun(r)
      PROVE  UNCHANGED runs
  BY <1>2 DEF CycleStep, FetchAll, UpsertNext, UpsertsDone, Refilter, Retire,
              RetireAll, Expire, SweepRead, SweepCheck, SweepRecord, SweepDone, Notify
<1>3. CASE \/ \E j \in Jobs, value \in BOOLEAN : JobAction(j, value)
           \/ \E j \in Jobs : OpenDetail(j)
           \/ ReadPage \/ RecordDetail \/ Tick
  BY <1>3 DEF JobAction, OpenDetail, ReadPage, RecordDetail, Tick
<1>4. CASE UNCHANGED vars
  BY <1>4
<1> QED
  BY <1>1, <1>2, <1>3, <1>4 DEF Next

(* Run ids are handed out in order, one per StartRun. *)
LEMMA RunsStep ==
  ASSUME TypeInv, [Next]_vars
  PROVE  \/ Len(runs') = Len(runs)
         \/ \E r \in Runners : StartRun(r) /\ Len(runs') = Len(runs) + 1
<1>0. runs \in Seq(RunStatuses) /\ runs' \in Seq(RunStatuses)
  BY TypeStep DEF TypeInv, TypeOK
<1>1. ASSUME DOMAIN runs' = DOMAIN runs PROVE Len(runs') = Len(runs)
  <2>1. /\ Len(runs) \in Nat /\ DOMAIN runs = 1..Len(runs)
        /\ Len(runs') \in Nat /\ DOMAIN runs' = 1..Len(runs')
    BY <1>0, LenProperties
  <2> QED
    BY <1>1, <2>1
<1>2. CASE UNCHANGED runs
  BY <1>1, <1>2
<1>3. ASSUME NEW r \in Runners, StartRun(r)
      PROVE  Len(runs') = Len(runs) + 1
  BY <1>0, <1>3 DEF StartRun, RunStatuses
<1>4. ASSUME NEW r \in Runners, Reconcile(r) \/ FinishRun(r) \/ RaiseInCycle(r)
      PROVE  DOMAIN runs' = DOMAIN runs
  BY <1>4 DEF Reconcile, FinishRun, RaiseInCycle
<1> QED
  BY <1>1, <1>2, <1>3, <1>4, RunsWriters

(* Only the two actions below change the announcement counters or the day. *)
LEMMA AnnouncedStep ==
  ASSUME [Next]_vars
  PROVE  /\ announced' = announced \/ \E r \in Runners : Notify(r)
         /\ day' = day \/ Tick
<1>1. ASSUME NEW r \in Runners,
             \/ Launch(r) \/ Reconcile(r) \/ SkipScheduler(r) \/ FindIdle(r) \/ Refuse(r)
             \/ RaiseInCycle(r) \/ RaiseUnfinalised(r) \/ Crash(r)
      PROVE  UNCHANGED <<announced, day>>
  BY <1>1 DEF Launch, Reconcile, SkipScheduler, FindIdle, Refuse, RaiseInCycle,
              RaiseUnfinalised, Crash
<1>2. ASSUME NEW r \in Runners, CycleStep(r)
      PROVE  UNCHANGED day /\ (UNCHANGED announced \/ Notify(r))
  BY <1>2 DEF CycleStep, StartRun, FetchAll, UpsertNext, UpsertsDone, Refilter, Retire,
              RetireAll, Expire, SweepRead, SweepCheck, SweepRecord, SweepDone, Notify,
              FinishRun
<1>3. CASE \/ \E j \in Jobs, value \in BOOLEAN : JobAction(j, value)
           \/ \E j \in Jobs : OpenDetail(j)
           \/ ReadPage \/ RecordDetail
  BY <1>3 DEF JobAction, OpenDetail, ReadPage, RecordDetail
<1>4. CASE Tick
  BY <1>4 DEF Tick
<1>5. CASE UNCHANGED vars
  BY <1>5
<1> QED
  BY <1>1, <1>2, <1>3, <1>4, <1>5 DEF Next

(* Every step keeps the run_ids of live cycles distinct and handed out.    *)
LEMMA RunIdsStep == TypeInv /\ RunIdsDistinct /\ [Next]_vars => RunIdsDistinct'
<1> SUFFICES ASSUME TypeInv, RunIdsDistinct, [Next]_vars, NEW r \in Runners,
                    pc'[r] \in CycleSteps
             PROVE  /\ run'[r] \in 1..Len(runs')
                    /\ \A q \in Runners : pc'[q] \in CycleSteps /\ run'[q] = run'[r] => q = r
  BY DEF RunIdsDistinct
<1>0. TypeOK /\ Len(runs) \in Nat
  BY DEF TypeInv, TypeOK
<1>1. CASE \A q \in Runners : ~StartRun(q)
  <2>1. Len(runs') = Len(runs)
    BY <1>1, RunsStep
  <2>2. \A q \in Runners : pc'[q] \in CycleSteps =>
                            pc[q] \in CycleSteps /\ run'[q] = run[q]
    BY <1>0, <1>1, PcStep
  <2> QED
    BY <2>1, <2>2 DEF RunIdsDistinct
<1>2. ASSUME NEW p \in Runners, StartRun(p)
      PROVE  /\ run'[r] \in 1..Len(runs')
             /\ \A q \in Runners : pc'[q] \in CycleSteps /\ run'[q] = run'[r] => q = r
  <2>1. Len(runs') = Len(runs) + 1 /\ run'[p] = Len(runs) + 1
    BY <1>0, <1>2 DEF StartRun, TypeOK, RunStatuses
  <2>2. \A q \in Runners : q # p /\ pc'[q] \in CycleSteps =>
                            pc[q] \in CycleSteps /\ run'[q] = run[q]
    BY <1>0, <1>2 DEF StartRun, Goto, TypeOK
  <2>3. \A q \in Runners : q # p /\ pc'[q] \in CycleSteps =>
                            run'[q] \in 1..Len(runs) /\ run'[q] # Len(runs) + 1
    BY <1>0, <2>2 DEF RunIdsDistinct
  <2> QED
    BY <1>0, <2>1, <2>2, <2>3 DEF RunIdsDistinct
<1> QED
  BY <1>1, <1>2

(* Every step keeps last_seen_cycle a run_id that has been handed out.     *)
LEMMA SeenStep ==
  TypeInv /\ RunIdsDistinct /\ SeenInStartedRun /\ [Next]_vars => SeenInStartedRun'
<1> SUFFICES ASSUME TypeInv, RunIdsDistinct, SeenInStartedRun, [Next]_vars,
                    NEW j \in Jobs, Present(j)'
             PROVE  rows'[j].last_seen_cycle \in 1..Len(runs')
  BY DEF SeenInStartedRun
<1>0. TypeOK /\ ReadRowsExist /\ Len(runs) \in Nat
  BY DEF TypeInv, TypeOK
<1>1. 1..Len(runs) \subseteq 1..Len(runs')
  BY <1>0, RunsStep
<1>2. RowMove(j)
  BY RowStep
<1>3. \A r \in Runners : pc[r] = "upsert" => run[r] \in 1..Len(runs)
  BY DEF RunIdsDistinct, CycleSteps
<1>4. CASE Present(j)
  BY <1>0, <1>1, <1>2, <1>3, <1>4, MoveOfCycle DEF SeenInStartedRun
<1>5. CASE ~Present(j)
  <2>1. rows'[j] # rows[j]
    BY <1>5 DEF Present
  <2>2. PICK r \in Runners, p \in Postings :
          pc[r] = "upsert" /\ rows'[j] = Inserted(p, run[r], day)
    BY <1>0, <1>2, <1>5, <2>1, MoveOfAbsent
  <2> QED
    BY <1>1, <1>3, <2>2 DEF Inserted
<1> QED
  BY <1>4, <1>5

(* Every step keeps an announced row out of the later payloads: it is no   *)
(* longer 'new', or its run has notified.                                  *)
LEMMA SettledStep ==
  TypeInv /\ AnnouncementInv /\ [Next]_vars => AnnouncedIsSettled'
<1> SUFFICES ASSUME TypeInv, RunIdsDistinct, SeenInStartedRun, AnnouncedIsSettled,
                    [Next]_vars, NEW j \in Jobs, announced'[j] # 0
             PROVE  /\ announced'[j] = 1
                    /\ Present(j)'
                    /\ rows'[j].status = "new" =>
                         \A r \in Runners : pc'[r] \in CycleSteps \ {"finish"}
                                              => run'[r] # rows'[j].last_seen_cycle
  BY DEF AnnouncementInv, AnnouncedIsSettled
<1>0. TypeOK /\ Len(runs) \in Nat
  BY DEF TypeInv, TypeOK
<1>1. RowMove(j) /\ (Present(j) => Present(j)')
  BY RowStep, PresentStays
<1>2. CASE announced'[j] = announced[j]
  <2>1. /\ announced[j] = 1
        /\ Present(j)
        /\ rows[j].status = "new" =>
             \A r \in Runners : pc[r] \in CycleSteps \ {"finish"}
                                  => run[r] # rows[j].last_seen_cycle
    BY <1>2 DEF AnnouncedIsSettled
  <2>2. ASSUME rows'[j].status = "new", NEW r \in Runners,
               pc'[r] \in CycleSteps \ {"finish"}
        PROVE  run'[r] # rows'[j].last_seen_cycle
    <3>1. /\ rows[j].status = "new"
          /\ rows'[j].last_seen_cycle = rows[j].last_seen_cycle
      BY <1>0, <1>1, <2>1, <2>2, MoveOfCycle
    <3>2. CASE StartRun(r)
      <4>1. run'[r] = Len(runs) + 1
        BY <1>0, <3>2 DEF StartRun, TypeOK
      <4>2. rows[j].last_seen_cycle \in 1..Len(runs)
        BY <2>1 DEF SeenInStartedRun
      <4> QED
        BY <1>0, <3>1, <4>1, <4>2
    <3>3. CASE ~StartRun(r)
      BY <1>0, <2>1, <2>2, <3>1, <3>3, PcStep
    <3> QED
      BY <3>2, <3>3
  <2> QED
    BY <1>1, <1>2, <2>1, <2>2
<1>3. CASE announced'[j] # announced[j]
  <2>1. PICK q \in Runners : Notify(q)
    BY <1>3, AnnouncedStep
  <2>2. /\ pc[q] = "notify"
        /\ announced'[j] = announced[j] + 1
        /\ rows[j].status = "new"
        /\ rows[j].last_seen_cycle = run[q]
        /\ UNCHANGED <<rows, run>>
    BY <1>0, <1>3, <2>1 DEF Notify, Goto, jobs_new_in_run, TypeOK
  <2>3. pc[q] \in CycleSteps \ {"finish"}
    BY <2>2 DEF CycleSteps
  <2>4. announced[j] = 0
    BY <2>2, <2>3 DEF AnnouncedIsSettled
  <2>5. ASSUME NEW r \in Runners, pc'[r] \in CycleSteps \ {"finish"}
        PROVE  run'[r] # rows'[j].last_seen_cycle
    <3>1. pc[r] \in CycleSteps /\ r # q
      BY <1>0, <2>1, <2>5 DEF Notify, Goto, CycleSteps, TypeOK
    <3> QED
      BY <2>2, <2>3, <3>1 DEF RunIdsDistinct
  <2> QED
    BY <1>1, <2>2, <2>4, <2>5 DEF Present
<1> QED
  BY <1>2, <1>3

(* Why no job is announced twice: distinct run_ids, rows seen in started   *)
(* runs, and announced rows that no live cycle will select again.          *)
THEOREM AnnouncementInvHolds == Spec => []AnnouncementInv
<1>1. Init => AnnouncementInv
  <2> SUFFICES ASSUME Init PROVE AnnouncementInv
    OBVIOUS
  <2>1. RunIdsDistinct
    BY DEF Init, RunIdsDistinct, CycleSteps
  <2>2. SeenInStartedRun /\ AnnouncedIsSettled
    BY DEF Init, SeenInStartedRun, AnnouncedIsSettled, Present, NoRow
  <2> QED
    BY <2>1, <2>2 DEF AnnouncementInv
<1>2. TypeInv /\ AnnouncementInv /\ [Next]_vars => AnnouncementInv'
  BY RunIdsStep, SeenStep, SettledStep DEF AnnouncementInv
<1> QED
  BY <1>1, <1>2, TypeInvHolds, PTL DEF Spec

(* No job is announced twice, whatever number of processes run overlapping *)
(* cycles, crash, or revive deleted jobs.                                  *)
THEOREM AnnouncedOnceHolds == Spec => []AnnouncedOnce
<1>1. AnnouncementInv => AnnouncedOnce
  <2> SUFFICES ASSUME AnnouncementInv, NEW j \in Jobs PROVE announced[j] <= 1
    BY DEF AnnouncedOnce
  <2>1. announced[j] = 0 \/ announced[j] = 1
    BY DEF AnnouncementInv, AnnouncedIsSettled
  <2> QED
    BY <2>1
<1> QED
  BY <1>1, AnnouncementInvHolds, PTL

----------------------------------------------------------------------------
(* Refinement of the ledger *)

(* The entry of a stored row. *)
LEMMA EntryOfRow ==
  ASSUME NEW j \in Jobs, rows[j] \in Row
  PROVE  EntryOf(j) = [life    |-> CASE rows[j].status \in Visible -> "listed"
                                     [] rows[j].status = "stale" -> "stale"
                                     [] rows[j].status = "deleted" -> "gone",
                       flagged |-> rows[j].flagged,
                       sighted |-> rows[j].last_seen_at,
                       told    |-> announced[j]]
  BY RowIsPresent DEF EntryOf

(* Sighting an entry replaces two of its fields. *)
LEMMA SightedEntry ==
  ASSUME NEW old, NEW life, NEW flagged, NEW sighted, NEW told,
         old = [life |-> life, flagged |-> flagged, sighted |-> sighted, told |-> told],
         old # Ledger!Unknown,
         NEW new, new = [life |-> "listed", flagged |-> flagged, sighted |-> day, told |-> told]
  PROVE  Ledger!Sight(old, new)
<1> DEFINE f == [life |-> "listed", flagged |-> flagged, sighted |-> sighted, told |-> told]
<1>1. [old EXCEPT !.life = "listed"] = f
  OBVIOUS
<1>2. [f EXCEPT !.sighted = day] = new
  OBVIOUS
<1>3. [old EXCEPT !.life = "listed", !.sighted = day]
        = [[old EXCEPT !.life = "listed"] EXCEPT !.sighted = day]
  OBVIOUS
<1> HIDE DEF f
<1>4. new = [old EXCEPT !.life = "listed", !.sighted = day]
  BY <1>1, <1>2, <1>3
<1> QED
  BY <1>4 DEF Ledger!Sight

(* A move of a row that is not announced in the same step moves its entry. *)
LEMMA RowMovesEntry ==
  ASSUME TypeOK, ReadRowsExist, AnnouncedIsSettled, NEW j \in Jobs, RowMove(j),
         announced' = announced
  PROVE  Ledger!Move(EntryOf(j), EntryOf(j)')
<1>1. CASE rows'[j] = rows[j]
  BY <1>1 DEF EntryOf, Ledger!Move
<1>2. CASE ~Present(j) /\ rows'[j] # rows[j]
  <2>1. PICK p \in Postings : \E n : rows'[j] = Inserted(p, n, day)
    BY <1>2, MoveOfAbsent
  <2>2. announced[j] = 0
    BY <1>2 DEF AnnouncedIsSettled
  <2>3. EntryOf(j) = Ledger!Unknown
    BY <1>2 DEF EntryOf, Present, Ledger!Unknown
  <2>4. EntryOf(j)' = [life |-> "listed", flagged |-> FALSE, sighted |-> day, told |-> 0]
    BY <2>1, <2>2 DEF EntryOf, Inserted
  <2> QED
    BY <2>3, <2>4 DEF Ledger!Move, Ledger!Enter
<1>3. CASE Present(j)
  <2> DEFINE old == EntryOf(j)
             new == EntryOf(j)'
  <2>1. rows[j] \in Row /\ rows[j].status # "absent"
    BY <1>3, PresentIsRow DEF TypeOK, Present
  <2>2. old # Ledger!Unknown
    BY <2>1 DEF EntryOf, Ledger!Unknown
  <2>3. ASSUME NEW p, NEW n, rows'[j] = upsert_job(rows[j], p, n, day)
        PROVE  Ledger!Sight(old, new)
    <3>1. /\ rows'[j].status = "active"
          /\ rows'[j].last_seen_at = day
          /\ rows'[j].flagged = rows[j].flagged
      BY <2>1, <2>3 DEF upsert_job, Refreshed, Row
    <3>2. new = [life |-> "listed", flagged |-> rows[j].flagged,
                 sighted |-> day, told |-> announced[j]]
      BY <3>1 DEF EntryOf
    <3>3. PICK l : old = [life |-> l, flagged |-> rows[j].flagged,
                         sighted |-> rows[j].last_seen_at, told |-> announced[j]]
      BY <2>1, EntryOfRow
    <3> HIDE DEF old, new
    <3> QED
      BY <2>2, <3>2, <3>3, SightedEntry
  <2>4. ASSUME rows'[j] = retire_jobs(rows[j])
        PROVE  new = old \/ Ledger!Drop(old, new)
    BY <2>1, <2>4 DEF EntryOf, Ledger!Drop, retire_jobs, Retirable, Row
  <2>5. ASSUME NEW n, NEW w,
               \/ rows'[j] = expire_stale(rows[j], n, w, day)
               \/ rows'[j] = Softened(rows[j], n, w, day)
        PROVE  new = old \/ Ledger!Miss(old, new) \/ Ledger!Lapse(old, new)
    BY <2>1, <2>5 DEF EntryOf, Ledger!Miss, Ledger!Lapse, expire_stale, Softened,
                      Overdue, MissedBy, Row
  <2>6. ASSUME NEW v, rows'[j] = record_verdict(rows[j], v)
        PROVE  new = old \/ Ledger!Drop(old, new)
    BY <2>1, <2>6 DEF EntryOf, Ledger!Drop, record_verdict, Row
  <2>7. ASSUME rows'[j] = FlagRow(rows[j], ~rows[j].flagged)
        PROVE  Ledger!Flag(old, new)
    BY <2>1, <2>2, <2>7 DEF EntryOf, Ledger!Flag, FlagRow, Row
  <2>8. ASSUME NEW p, rows'[j] = CacheText(rows[j], p)
        PROVE  new = old
    BY <2>1, <2>8 DEF EntryOf, CacheText, Row
  <2>9. ASSUME rows'[j] = rows[j] PROVE new = old
    BY <2>9 DEF EntryOf
  <2> HIDE DEF old, new
  <2>10. \/ new = old
        \/ Ledger!Sight(old, new) \/ Ledger!Drop(old, new) \/ Ledger!Miss(old, new)
        \/ Ledger!Lapse(old, new) \/ Ledger!Flag(old, new)
    BY <2>3, <2>4, <2>5, <2>6, <2>7, <2>8, <2>9 DEF RowMove
  <2> QED
    BY <2>10 DEF Ledger!Move, old, new
<1> QED
  BY <1>1, <1>2, <1>3

(* Every step maps to a ledger step: a move of every entry, a day that     *)
(* passes, or nothing.                                                     *)
LEMMA LedgerStep ==
  TypeInv /\ AnnouncementInv /\ [Next]_vars => [Ledger!Next]_<<ledgerBar, day>>
<1> SUFFICES ASSUME TypeInv, AnnouncementInv, [Next]_vars
             PROVE  [Ledger!Next]_<<ledgerBar, day>>
  OBVIOUS
<1>0. TypeOK /\ ReadRowsExist /\ AnnouncedIsSettled
  BY DEF TypeInv, AnnouncementInv
<1>1. ASSUME \A j \in Jobs : Ledger!Move(EntryOf(j), EntryOf(j)'), day' = day
      PROVE  Ledger!Next
  BY <1>1 DEF Ledger!Next, Ledger!MoveJobs, ledgerBar
<1>2. CASE Tick
  <2>1. day' = day + 1 /\ UNCHANGED <<rows, announced>>
    BY <1>2 DEF Tick
  <2>2. \A j \in Jobs : EntryOf(j)' = EntryOf(j)
    BY <2>1 DEF EntryOf
  <2> QED
    BY <2>1, <2>2 DEF Ledger!Next, Ledger!PassDay, ledgerBar
<1>3. ASSUME NEW r \in Runners, Notify(r) PROVE Ledger!Next
  <2>1. UNCHANGED <<rows, day>>
    BY <1>3 DEF Notify
  <2>2. ASSUME NEW j \in Jobs PROVE Ledger!Move(EntryOf(j), EntryOf(j)')
    <3>1. CASE j \notin jobs_new_in_run(r)
      BY <1>3, <2>1, <3>1 DEF Notify, EntryOf, Ledger!Move, TypeOK
    <3>2. CASE j \in jobs_new_in_run(r)
      <4>1. rows[j].status = "new" /\ rows[j].last_seen_cycle = run[r]
        BY <3>2 DEF jobs_new_in_run
      <4>2. pc[r] \in CycleSteps \ {"finish"}
        BY <1>3 DEF Notify, Goto, CycleSteps
      <4>3. announced[j] = 0 /\ announced'[j] = 1
        BY <1>0, <1>3, <3>2, <4>1, <4>2 DEF AnnouncedIsSettled, Notify, TypeOK
      <4>4. /\ EntryOf(j) = [life |-> "listed", flagged |-> rows[j].flagged,
                             sighted |-> rows[j].last_seen_at, told |-> 0]
            /\ EntryOf(j)' = [life |-> "listed", flagged |-> rows[j].flagged,
                              sighted |-> rows[j].last_seen_at, told |-> 1]
        BY <2>1, <4>1, <4>3 DEF EntryOf
      <4>5. Ledger!Announce(EntryOf(j), EntryOf(j)')
        BY <4>4 DEF Ledger!Announce
      <4> QED
        BY <4>5 DEF Ledger!Move
    <3> QED
      BY <3>1, <3>2
  <2> QED
    BY <1>1, <2>1, <2>2
<1>4. CASE announced' = announced /\ day' = day
  BY <1>0, <1>1, <1>4, RowStep, RowMovesEntry
<1> QED
  <2>1. CASE announced' = announced
    BY <1>2, <1>4, <2>1, AnnouncedStep
  <2>2. CASE announced' # announced
    BY <1>3, <2>2, AnnouncedStep
  <2> QED
    BY <2>1, <2>2

(* The cycle, with its crashes, overlaps and the dashboard, implements the *)
(* ledger: a job enters once, is told once and while listed, and is gone   *)
(* only by lapsing or, unflagged, by being dropped.                        *)
THEOREM LedgerImplemented == Spec => ImplementsLedger
<1>1. Init => Ledger!Init
  BY DEF Init, Ledger!Init, ledgerBar, EntryOf, NoRow, Ledger!Unknown
<1> QED
  BY <1>1, LedgerStep, TypeInvHolds, AnnouncementInvHolds, PTL
     DEF Spec, ImplementsLedger, Ledger!Spec
----------------------------------------------------------------------------
(* One process.  Its cycle is then the only one that restamps rows and the *)
(* only one whose run may be open.                                         *)

Alone == \A q, r \in Runners : q = r

Working == CycleSteps \ {"fetch"}
Settled == CycleSteps \ {"fetch", "upsert"}

(* The run of a cycle is still open. *)
RunOpen ==
  \A r \in Runners : pc[r] \in CycleSteps =>
    run[r] \in DOMAIN runs /\ runs[run[r]] = "running"

(* Whoever writes the runs table leaves finished runs alone, and a cycle   *)
(* that goes on its own run.                                               *)
LEMMA RunOpenStep ==
  ASSUME Alone, TypeInv, RunOpen, [Next]_vars
  PROVE  /\ RunOpen'
         /\ \A i \in DOMAIN runs : runs[i] # "running" => runs'[i] = runs[i]
<1>0. TypeOK
  BY DEF TypeInv
<1>1. ASSUME UNCHANGED runs PROVE RunOpen'
  <2> SUFFICES ASSUME NEW r \in Runners, pc'[r] \in CycleSteps
               PROVE  run[r] \in DOMAIN runs /\ runs[run[r]] = "running" /\ run'[r] = run[r]
    BY <1>1 DEF RunOpen
  <2>1. ~StartRun(r)
    <3>1. runs # Append(runs, "running")
      BY <1>0 DEF TypeOK, RunStatuses
    <3> QED
      BY <1>1, <3>1 DEF StartRun
  <2> QED
    BY <1>0, <2>1, PcStep DEF RunOpen
<1>2. ASSUME NEW r \in Runners, Reconcile(r) \/ FinishRun(r) \/ RaiseInCycle(r)
      PROVE  RunOpen'
  <2>1. pc'[r] \notin CycleSteps
    BY <1>0, <1>2 DEF Reconcile, FinishRun, RaiseInCycle, Goto, Exit, CycleSteps, TypeOK
  <2> QED
    BY <2>1 DEF RunOpen, Alone
<1>3. ASSUME NEW r \in Runners, StartRun(r)
      PROVE  RunOpen' /\ \A i \in DOMAIN runs : runs'[i] = runs[i]
  <2>1. /\ run'[r] = Len(runs) + 1
        /\ runs' = Append(runs, "running")
    BY <1>0, <1>3 DEF StartRun, TypeOK
  <2>2. runs \in Seq(RunStatuses) /\ "running" \in RunStatuses
    BY <1>0 DEF TypeOK, RunStatuses
  <2>3. /\ run'[r] \in DOMAIN runs'
        /\ runs'[run'[r]] = "running"
        /\ \A i \in DOMAIN runs : runs'[i] = runs[i]
    BY <2>1, <2>2
  <2> QED
    BY <2>3 DEF RunOpen, Alone
<1>4. ASSUME NEW r \in Runners, FinishRun(r) \/ RaiseInCycle(r), NEW i \in DOMAIN runs,
             runs[i] # "running"
      PROVE  runs'[i] = runs[i]
  <2>1. pc[r] \in CycleSteps
    BY <1>4 DEF FinishRun, RaiseInCycle, Goto, CycleSteps
  <2>2. i # run[r]
    BY <1>4, <2>1 DEF RunOpen
  <2> QED
    BY <1>4, <2>2 DEF FinishRun, RaiseInCycle
<1>5. ASSUME NEW r \in Runners, Reconcile(r), NEW i \in DOMAIN runs, runs[i] # "running"
      PROVE  runs'[i] = runs[i]
  BY <1>5 DEF Reconcile
<1> QED
  BY <1>1, <1>2, <1>3, <1>4, <1>5, RunsWriters

(* With one process, what the dashboard shows as a run's outcome is final: *)
(* the run a cycle writes is open until then, whoever crashed before.      *)
THEOREM RunOutcomeFinalHolds == Alone /\ Spec => RunOutcomeFinal
<1> DEFINE A == \A i \in DOMAIN runs : runs[i] # "running" => runs'[i] = runs[i]
<1>1. ASSUME Alone PROVE TypeInv /\ RunOpen /\ [Next]_vars => RunOpen' /\ [A]_vars
  BY <1>1, RunOpenStep
<1>2. Init => RunOpen
  BY DEF Init, RunOpen, CycleSteps
<1>3. ASSUME Alone PROVE Spec => [][A]_vars
  <2>1. TypeInv /\ RunOpen /\ [Next]_vars => RunOpen' /\ [A]_vars
    BY <1>1, <1>3
  <2> QED
    BY <1>2, <2>1, TypeInvHolds, PTL DEF Spec
<1> QED
  BY <1>3 DEF RunOutcomeFinal

(* What a step does to the results a process holds in memory. *)
LEMMA ResultsStep ==
  ASSUME TypeOK, [Next]_vars, NEW r \in Runners
  PROVE  \/ fetched'[r] = fetched[r] /\ todo'[r] = todo[r] /\ fresh'[r] = fresh[r]
         \/ pc'[r] \notin CycleSteps /\ Forget(r)
         \/ StartRun(r) \/ FetchAll(r) \/ UpsertNext(r)
<1>1. CASE UNCHANGED <<fetched, todo, fresh>>
  BY <1>1
<1>2. ASSUME NEW q \in Runners,
             RaiseInCycle(q) \/ RaiseUnfinalised(q) \/ Crash(q) \/ FinishRun(q)
      PROVE  Forget(q) /\ pc'[q] \notin CycleSteps
  BY <1>2 DEF RaiseInCycle, RaiseUnfinalised, Crash, FinishRun, Exit, Goto, CycleSteps, TypeOK
<1>3. ASSUME NEW q \in Runners, q # r,
             Forget(q) \/ StartRun(q) \/ FetchAll(q) \/ UpsertNext(q)
      PROVE  fetched'[r] = fetched[r] /\ todo'[r] = todo[r] /\ fresh'[r] = fresh[r]
  BY <1>3 DEF Forget, StartRun, FetchAll, UpsertNext, TypeOK
<1>4. ASSUME NEW q \in Runners,
             \/ Launch(q) \/ Reconcile(q) \/ SkipScheduler(q) \/ FindIdle(q) \/ Refuse(q)
             \/ UpsertsDone(q) \/ Refilter(q) \/ Retire(q) \/ Expire(q)
             \/ SweepRead(q) \/ SweepCheck(q) \/ SweepDone(q) \/ Notify(q)
      PROVE  UNCHANGED <<fetched, todo, fresh>>
  BY <1>4 DEF Launch, Reconcile, SkipScheduler, FindIdle, Refuse, UpsertsDone, Refilter,
              Retire, RetireAll, Expire, SweepRead, SweepCheck, SweepRecord, SweepDone, Notify
<1>5. CASE \/ \E j \in Jobs, value \in BOOLEAN : JobAction(j, value)
           \/ \E j \in Jobs : OpenDetail(j)
           \/ ReadPage \/ RecordDetail \/ Tick
  BY <1>1, <1>5 DEF JobAction, OpenDetail, ReadPage, RecordDetail, Tick
<1>6. CASE UNCHANGED vars
  BY <1>1, <1>6
<1> QED
  BY <1>1, <1>2, <1>3, <1>4, <1>5, <1>6 DEF Next, CycleStep

(* A process comes to the upserts by FetchAll and behind them by emptying  *)
(* its list.                                                               *)
LEMMA StageStep ==
  ASSUME TypeOK, [Next]_vars, NEW r \in Runners, ~StartRun(r), ~FetchAll(r)
  PROVE  /\ pc'[r] = "fetch" => pc[r] = "fetch"
         /\ pc'[r] \in Working => pc[r] \in Working
         /\ pc'[r] \in Settled => pc[r] \in Settled \/ UpsertsDone(r)
<1>1. CASE pc'[r] = pc[r]
  BY <1>1
<1>2. ASSUME NEW q \in Runners,
             \/ Launch(q) \/ Reconcile(q) \/ SkipScheduler(q) \/ FindIdle(q) \/ Refuse(q)
             \/ RaiseInCycle(q) \/ RaiseUnfinalised(q) \/ Crash(q) \/ FinishRun(q)
      PROVE  pc'[r] = pc[r] \/ pc'[r] \notin CycleSteps
  BY <1>2 DEF Launch, Reconcile, SkipScheduler, FindIdle, Refuse, RaiseInCycle,
              RaiseUnfinalised, Crash, FinishRun, Exit, Goto, CycleSteps, TypeOK
<1>3. ASSUME NEW q \in Runners,
             \/ Refilter(q) \/ Retire(q) \/ Expire(q) \/ SweepRead(q) \/ SweepDone(q)
             \/ Notify(q)
      PROVE  pc'[r] = pc[r] \/ (pc[r] \in Settled /\ pc'[r] # "fetch")
  BY <1>3 DEF Refilter, Retire, RetireAll, Expire, SweepRead, SweepDone, Notify, Goto,
              Settled, CycleSteps, TypeOK
<1>4. ASSUME NEW q \in Runners, UpsertNext(q) \/ SweepCheck(q)
      PROVE  pc'[r] = pc[r]
  BY <1>4 DEF UpsertNext, SweepCheck, SweepRecord
<1>5. ASSUME NEW q \in Runners, q # r, StartRun(q) \/ FetchAll(q) \/ UpsertsDone(q)
      PROVE  pc'[r] = pc[r]
  BY <1>5 DEF StartRun, FetchAll, UpsertsDone, Goto, TypeOK
<1>6. CASE UpsertsDone(r)
  BY <1>6 DEF UpsertsDone, Goto, Working, CycleSteps, TypeOK
<1>7. CASE \/ \E j \in Jobs, value \in BOOLEAN : JobAction(j, value)
           \/ \E j \in Jobs : OpenDetail(j)
           \/ ReadPage \/ RecordDetail \/ Tick
  BY <1>1, <1>7 DEF JobAction, OpenDetail, ReadPage, RecordDetail, Tick
<1>8. CASE UNCHANGED vars
  BY <1>1, <1>8
<1> QED
  BY <1>1, <1>2, <1>3, <1>4, <1>5, <1>6, <1>7, <1>8
     DEF Next, CycleStep, Working, Settled, CycleSteps

(* Every posting a cycle has upserted stamps its row with the cycle's run, *)
(* and behind the upserts that is every posting it accepted.               *)
Stamped ==
  \A r \in Runners :
    /\ pc[r] \in Settled => \A s \in Sources : todo[r][s] = {}
    /\ pc[r] \in Working =>
         \A s \in Sources : \A p \in fetched[r][s].accepted \ todo[r][s] :
           Present(JobOf[p]) /\ rows[JobOf[p]].last_seen_cycle = run[r]

(* A row stamped with the run keeps that stamp: only an upsert stamps, and *)
(* only this cycle upserts.                                                *)
LEMMA StampStays ==
  ASSUME Alone, TypeInv, [Next]_vars, NEW r \in Runners, NEW j \in Jobs,
         Present(j), rows[j].last_seen_cycle = run[r]
  PROVE  Present(j)' /\ rows'[j].last_seen_cycle = run[r]
<1>1. TypeOK /\ RowMove(j) /\ Present(j)'
  BY RowStep, PresentStays DEF TypeInv
<1> QED
  BY <1>1, MoveOfCycle DEF Alone

(* The upsert of a posting stamps its row. *)
LEMMA UpsertStamps ==
  ASSUME NEW row \in Row \cup {NoRow}, NEW p \in Postings,
         NEW n \in Int, NEW now \in Int
  PROVE  /\ upsert_job(row, p, n, now).status # "absent"
         /\ upsert_job(row, p, n, now).last_seen_cycle = n
<1>1. CASE row.status = "absent"
  BY <1>1 DEF upsert_job, Inserted
<1>2. CASE row.status # "absent"
  <2>1. row \in Row
    BY <1>2, PresentIsRow
  <2> QED
    BY <1>2, <2>1 DEF upsert_job, Refreshed, Row
<1> QED
  BY <1>1, <1>2

(* Every step keeps the stamps. *)
LEMMA StampedStep ==
  ASSUME Alone, TypeInv, Stamped, [Next]_vars
  PROVE  Stamped'
<1> SUFFICES ASSUME NEW r \in Runners
             PROVE  /\ pc'[r] \in Settled => \A s \in Sources : todo'[r][s] = {}
                    /\ pc'[r] \in Working =>
                         \A s \in Sources : \A p \in fetched'[r][s].accepted \ todo'[r][s] :
                           Present(JobOf[p])' /\ rows'[JobOf[p]].last_seen_cycle = run'[r]
  BY DEF Stamped
<1>0. TypeOK /\ TypeOK'
  BY TypeStep DEF TypeInv
<1>1. CASE StartRun(r)
  BY <1>0, <1>1 DEF StartRun, Goto, Settled, Working, TypeOK
<1>2. CASE FetchAll(r)
  <2>1. pc'[r] = "upsert"
    BY <1>0, <1>2 DEF FetchAll, Goto, TypeOK
  <2>2. \A s \in Sources : fetched'[r][s].accepted = todo'[r][s]
    BY <1>0, <1>2 DEF FetchAll, TypeOK
  <2> QED
    BY <2>1, <2>2 DEF Settled
<1>3. CASE pc'[r] \notin CycleSteps
  BY <1>3 DEF Settled, Working
<1>4. CASE UpsertNext(r)
  <2>0. pc[r] = "upsert" /\ pc'[r] = "upsert" /\ run'[r] = run[r]
        /\ fetched'[r] = fetched[r]
    BY <1>4 DEF UpsertNext
  <2>1. PICK t \in Sources : \E q \in todo[r][t] :
          /\ todo' = [todo EXCEPT ![r][t] = @ \ {q}]
          /\ rows' = [rows EXCEPT ![JobOf[q]] = upsert_job(@, q, run[r], day)]
    BY <1>4 DEF UpsertNext
  <2>2. PICK q \in todo[r][t] :
          /\ todo' = [todo EXCEPT ![r][t] = @ \ {q}]
          /\ rows' = [rows EXCEPT ![JobOf[q]] = upsert_job(@, q, run[r], day)]
    BY <2>1
  <2>3. q \in Postings /\ JobOf[q] \in Jobs
    BY <1>0, <2>2, PostingsAssumption DEF TypeOK
  <2>4. Present(JobOf[q])' /\ rows'[JobOf[q]].last_seen_cycle = run[r]
    <3>1. rows[JobOf[q]] \in Row \cup {NoRow} /\ run[r] \in Int /\ day \in Int
      BY <1>0, <2>3 DEF TypeOK
    <3>2. rows'[JobOf[q]] = upsert_job(rows[JobOf[q]], q, run[r], day)
      BY <1>0, <2>2, <2>3 DEF TypeOK
    <3>3. /\ upsert_job(rows[JobOf[q]], q, run[r], day).status # "absent"
          /\ upsert_job(rows[JobOf[q]], q, run[r], day).last_seen_cycle = run[r]
      BY <2>3, <3>1, UpsertStamps
    <3> QED
      BY <3>2, <3>3 DEF Present
  <2>5. ASSUME NEW s \in Sources, NEW p \in fetched[r][s].accepted, p \notin todo'[r][s]
        PROVE  Present(JobOf[p])' /\ rows'[JobOf[p]].last_seen_cycle = run[r]
    <3>1. CASE p = q
      BY <2>4, <3>1
    <3>2. CASE p # q
      <4>1. p \notin todo[r][s]
        BY <1>0, <2>2, <2>5, <3>2 DEF TypeOK
      <4>2. Present(JobOf[p]) /\ rows[JobOf[p]].last_seen_cycle = run[r]
        BY <2>0, <2>5, <4>1 DEF Stamped, Working, CycleSteps
      <4>3. JobOf[p] \in Jobs
        BY <1>0, <2>5, PostingsAssumption DEF TypeOK, Result
      <4> QED
        BY <4>2, <4>3, StampStays
    <3> QED
      BY <3>1, <3>2
  <2> QED
    BY <2>0, <2>5 DEF Settled
<1>5. CASE /\ fetched'[r] = fetched[r] /\ todo'[r] = todo[r]
           /\ pc'[r] \in CycleSteps /\ ~StartRun(r) /\ ~FetchAll(r)
  <2>1. run'[r] = run[r]
    BY <1>0, <1>5, PcStep
  <2>2. pc'[r] \in Settled => \A s \in Sources : todo[r][s] = {}
    BY <1>0, <1>5, StageStep DEF Stamped, UpsertsDone
  <2>3. ASSUME pc'[r] \in Working, NEW s \in Sources,
               NEW p \in fetched[r][s].accepted \ todo[r][s]
        PROVE  Present(JobOf[p])' /\ rows'[JobOf[p]].last_seen_cycle = run[r]
    <3>1. Present(JobOf[p]) /\ rows[JobOf[p]].last_seen_cycle = run[r]
      BY <1>0, <1>5, <2>3, StageStep DEF Stamped
    <3>2. JobOf[p] \in Jobs
      BY <1>0, <2>3, PostingsAssumption DEF TypeOK, Result
    <3> QED
      BY <3>1, <3>2, StampStays
  <2> QED
    BY <1>5, <2>1, <2>2, <2>3
<1> QED
  BY <1>0, <1>1, <1>2, <1>3, <1>4, <1>5, ResultsStep

(* With one process, a posting accepted by the run is seen by the time the *)
(* run expires rows.                                                       *)
THEOREM StampedHolds == Alone /\ Spec => []Stamped
<1>1. ASSUME Alone PROVE Spec => []Stamped
  <2>1. TypeInv /\ Stamped /\ [Next]_vars => Stamped'
    BY <1>1, StampedStep
  <2>2. Init => Stamped
    BY DEF Init, Stamped, Settled, Working, CycleSteps
  <2> QED
    BY <2>1, <2>2, TypeInvHolds, PTL DEF Spec
<1> QED
  BY <1>1

(* A step that leaves the expiry is Expire, an exception that may keep a   *)
(* part of it, or one that writes no row.                                  *)
LEMMA FromExpiry ==
  ASSUME TypeOK, [Next]_vars, NEW r \in Runners, pc[r] = "expire", pc'[r] # "expire"
  PROVE  Expire(r) \/ RaiseInCycle(r) \/ UNCHANGED rows
<1>1. ASSUME NEW q \in Runners,
             \/ Launch(q) \/ Reconcile(q) \/ SkipScheduler(q) \/ FindIdle(q) \/ Refuse(q)
             \/ RaiseUnfinalised(q) \/ Crash(q) \/ FinishRun(q)
      PROVE  UNCHANGED rows
  BY <1>1 DEF Launch, Reconcile, SkipScheduler, FindIdle, Refuse,
              RaiseUnfinalised, Crash, FinishRun
<1>2. ASSUME NEW q \in Runners,
             \/ StartRun(q) \/ FetchAll(q) \/ UpsertNext(q) \/ UpsertsDone(q) \/ Refilter(q)
             \/ Retire(q) \/ SweepRead(q) \/ SweepCheck(q) \/ SweepDone(q) \/ Notify(q)
      PROVE  FALSE
  BY <1>2 DEF StartRun, FetchAll, UpsertNext, UpsertsDone, Refilter, Retire, RetireAll,
              SweepRead, SweepCheck, SweepRecord, SweepDone, Notify, Goto, TypeOK
<1>3. ASSUME NEW q \in Runners, Expire(q) \/ RaiseInCycle(q) PROVE q = r
  BY <1>3 DEF Expire, RaiseInCycle, Goto, TypeOK
<1>4. ASSUME \/ \E j \in Jobs, value \in BOOLEAN : JobAction(j, value)
             \/ \E j \in Jobs : OpenDetail(j)
             \/ ReadPage \/ RecordDetail \/ Tick \/ UNCHANGED vars
      PROVE  FALSE
  BY <1>4 DEF JobAction, OpenDetail, ReadPage, RecordDetail, Tick
<1> QED
  BY <1>1, <1>2, <1>3, <1>4 DEF Next, CycleStep

(* With one process, a row expires only if its source was read, the run    *)
(* accepted no posting of its job, and a windowed source's posting is old: *)
(* a job with an accepted posting carries the run's stamp, and MissedBy    *)
(* passes over it.                                                         *)
THEOREM ExpiredOnlyIfLookedAndMissedHolds == Alone /\ Spec => ExpiredOnlyIfLookedAndMissed
<1> DEFINE A == \A r \in Runners : pc[r] = "expire" /\ pc'[r] # "expire" =>
                  \A j \in Jobs :
                    rows[j].status \in Visible /\ rows'[j].status # rows[j].status =>
                      LET result == fetched[r][rows[j].source] IN
                      /\ result.outcome # "failed"
                      /\ Listings(r, j) = {}
                      /\ result.outcome = "windowed" => DatedAt(rows[j]) + WindowDays < day
<1>1. TypeInv /\ Stamped /\ [Next]_vars => A
  <2> SUFFICES ASSUME TypeInv, Stamped, [Next]_vars, NEW r \in Runners, pc[r] = "expire",
                      pc'[r] # "expire", NEW j \in Jobs, rows[j].status \in Visible,
                      rows'[j].status # rows[j].status
               PROVE  /\ fetched[r][rows[j].source].outcome # "failed"
                      /\ Listings(r, j) = {}
                      /\ fetched[r][rows[j].source].outcome = "windowed"
                           => DatedAt(rows[j]) + WindowDays < day
    OBVIOUS
  <2> DEFINE windowed == fetched[r][rows[j].source].outcome = "windowed"
  <2>0. TypeOK
    BY DEF TypeInv
  <2>1. Expire(r) \/ RaiseInCycle(r)
    BY <2>0, FromExpiry
  <2>2. /\ fetched[r][rows[j].source].outcome # "failed"
        /\ \/ rows'[j] = expire_stale(rows[j], run[r], windowed, day)
           \/ rows'[j] = Softened(rows[j], run[r], windowed, day)
    <3>1. CASE Expire(r)
      BY <3>1 DEF Expire
    <3>2. CASE RaiseInCycle(r)
      BY <2>0, <3>2, PartOfExpiry DEF RaiseInCycle
    <3> QED BY <2>1, <3>1, <3>2
  <2>3. MissedBy(rows[j], run[r], windowed, day)
    <3> SUFFICES ASSUME ~MissedBy(rows[j], run[r], windowed, day)
                 PROVE  /\ expire_stale(rows[j], run[r], windowed, day) = rows[j]
                        /\ Softened(rows[j], run[r], windowed, day) = rows[j]
      BY <2>2
    <3> QED
      BY DEF expire_stale, Softened
  <2>4. rows[j].last_seen_cycle < run[r] /\ (windowed => DatedAt(rows[j]) + WindowDays < day)
    BY <2>3 DEF MissedBy
  <2>5. rows[j].last_seen_cycle # run[r]
    BY <2>0, <2>4 DEF TypeOK
  <2>6. Listings(r, j) = {}
    <3> SUFFICES ASSUME NEW s \in Sources, NEW p \in fetched[r][s].accepted, JobOf[p] = j
                 PROVE  FALSE
      BY DEF Listings
    <3>1. p \notin todo[r][s]
      BY DEF Stamped, Settled, CycleSteps
    <3> QED
      BY <2>5, <3>1 DEF Stamped, Working, CycleSteps
  <2> QED
    BY <2>2, <2>4, <2>6
<1>2. ASSUME Alone PROVE Spec => [][A]_vars
  <2>1. Spec => []Stamped
    BY <1>2, StampedHolds
  <2> QED
    BY <1>1, <2>1, TypeInvHolds, PTL DEF Spec
<1> QED
  BY <1>2 DEF ExpiredOnlyIfLookedAndMissed

(* What is still to upsert was accepted, from the source that lists it. *)
Accepted ==
  \A r \in Runners, s \in Sources :
    /\ todo[r][s] \subseteq fetched[r][s].accepted
    /\ fetched[r][s].accepted \subseteq PostingsOf(s)

(* Every step keeps the list of upserts within the results. *)
LEMMA AcceptedStep == TypeInv /\ Accepted /\ [Next]_vars => Accepted'
<1> SUFFICES ASSUME TypeInv, Accepted, [Next]_vars, NEW r \in Runners, NEW s \in Sources
             PROVE  /\ todo'[r][s] \subseteq fetched'[r][s].accepted
                    /\ fetched'[r][s].accepted \subseteq PostingsOf(s)
  BY DEF Accepted
<1>0. TypeOK
  BY DEF TypeInv
<1>1. CASE fetched'[r] = fetched[r] /\ todo'[r] = todo[r]
  BY <1>1 DEF Accepted
<1>2. CASE Forget(r)
  BY <1>0, <1>2 DEF Forget, NoResult, TypeOK
<1>3. CASE StartRun(r)
  BY <1>1, <1>3 DEF StartRun
<1>4. CASE FetchAll(r)
  <2>1. PICK res \in [Sources -> UNION {ResultsOf(t) : t \in Sources}] :
          /\ \A t \in Sources : res[t] \in ResultsOf(t)
          /\ fetched' = [fetched EXCEPT ![r] = res]
          /\ todo' = [todo EXCEPT ![r] = [t \in Sources |-> res[t].accepted]]
    BY <1>4 DEF FetchAll
  <2>2. res[s].accepted \subseteq PostingsOf(s)
    BY <2>1 DEF ResultsOf
  <2> QED
    BY <1>0, <2>1, <2>2 DEF TypeOK
<1>5. CASE UpsertNext(r)
  <2>1. fetched' = fetched /\ todo'[r][s] \subseteq todo[r][s]
    BY <1>0, <1>5 DEF UpsertNext, TypeOK
  <2> QED
    BY <2>1 DEF Accepted
<1> QED
  BY <1>0, <1>1, <1>2, <1>3, <1>4, <1>5, ResultsStep

(* One posting of the run accounts for the job. *)
Sole(r, j) == \E p \in Postings : Listings(r, j) = {p}

(* A job the cycle inserted, whose one posting is then done with, is 'new' *)
(* and of this run while it is visible.                                    *)
FreshStaysNew ==
  \A r \in Runners :
    /\ pc[r] = "fetch" => fresh[r] = {}
    /\ pc[r] \in Working => \A j \in fresh[r] :
         /\ Present(j)
         /\ Sole(r, j) =>
              /\ \A s \in Sources : \A p \in todo[r][s] : JobOf[p] # j
              /\ rows[j].status \in Visible =>
                   rows[j].status = "new" /\ rows[j].last_seen_cycle = run[r]

(* A row none of whose postings is to upsert keeps its stamp, and its      *)
(* status unless it leaves the feed.                                       *)
LEMMA QuietMove ==
  ASSUME TypeOK, NEW j \in Jobs, Present(j), RowMove(j),
         \A r \in Runners, s \in Sources : \A p \in todo[r][s] : JobOf[p] # j
  PROVE  /\ rows'[j].last_seen_cycle = rows[j].last_seen_cycle
         /\ rows'[j].status \in Visible => rows'[j].status = rows[j].status
<1> DEFINE Same(row) == /\ row.last_seen_cycle = rows[j].last_seen_cycle
                        /\ row.status \in Visible => row.status = rows[j].status
<1>1. rows[j] \in Row /\ rows[j].status # "absent"
  BY PresentIsRow DEF TypeOK, Present
<1>2. /\ Same(rows[j])
      /\ Same(retire_jobs(rows[j]))
      /\ \A n, w, now : /\ Same(expire_stale(rows[j], n, w, now))
                        /\ Same(Softened(rows[j], n, w, now))
      /\ \A v : Same(record_verdict(rows[j], v))
      /\ \A v : Same(FlagRow(rows[j], v))
      /\ \A v : Same(CacheText(rows[j], v))
  BY <1>1 DEF Row, retire_jobs, expire_stale, Softened, record_verdict, FlagRow, CacheText
<1> HIDE DEF Same
<1>3. Same(rows'[j])
  BY <1>2 DEF RowMove
<1> QED
  BY <1>3 DEF Same

(* Every step keeps a fresh job 'new' until something retires it. *)
LEMMA FreshStep ==
  ASSUME Alone, TypeInv, Accepted, FreshStaysNew, [Next]_vars
  PROVE  FreshStaysNew'
<1> SUFFICES ASSUME NEW r \in Runners
             PROVE  /\ pc'[r] = "fetch" => fresh'[r] = {}
                    /\ pc'[r] \in Working => \A j \in fresh'[r] :
                         /\ Present(j)'
                         /\ Sole(r, j)' =>
                              /\ \A s \in Sources : \A p \in todo'[r][s] : JobOf[p] # j
                              /\ rows'[j].status \in Visible =>
                                   /\ rows'[j].status = "new"
                                   /\ rows'[j].last_seen_cycle = run'[r]
  BY DEF FreshStaysNew
<1>0. TypeOK /\ TypeOK'
  BY TypeStep DEF TypeInv
<1>1. CASE StartRun(r)
  BY <1>0, <1>1 DEF StartRun, Goto, Working, TypeOK
<1>2. CASE FetchAll(r)
  BY <1>0, <1>2 DEF FetchAll, Goto, Working, FreshStaysNew, TypeOK
<1>3. CASE pc'[r] \notin CycleSteps
  BY <1>3 DEF Working, CycleSteps
<1>4. ASSUME NEW j \in fresh[r], pc[r] \in Working, run'[r] = run[r],
             fetched'[r] = fetched[r], \A s \in Sources : todo'[r][s] \subseteq todo[r][s]
      PROVE  /\ Present(j)'
             /\ Sole(r, j)' =>
                  /\ \A s \in Sources : \A p \in todo'[r][s] : JobOf[p] # j
                  /\ rows'[j].status \in Visible =>
                       rows'[j].status = "new" /\ rows'[j].last_seen_cycle = run'[r]
  <2>1. j \in Jobs /\ Present(j) /\ Present(j)' /\ RowMove(j)
    BY <1>0, <1>4, RowStep, PresentStays DEF FreshStaysNew, TypeOK
  <2>2. ASSUME Sole(r, j)'
        PROVE  /\ \A s \in Sources : \A p \in todo[r][s] : JobOf[p] # j
               /\ rows[j].status \in Visible =>
                    rows[j].status = "new" /\ rows[j].last_seen_cycle = run[r]
    <3>1. Sole(r, j)
      BY <1>4, <2>2 DEF Sole, Listings
    <3> QED
      BY <1>4, <3>1 DEF FreshStaysNew
  <2>3. ASSUME Sole(r, j)'
        PROVE  /\ rows'[j].last_seen_cycle = rows[j].last_seen_cycle
               /\ rows'[j].status \in Visible => rows'[j].status = rows[j].status
    <3>1. \A q \in Runners, s \in Sources : \A p \in todo[q][s] : JobOf[p] # j
      BY <2>2, <2>3 DEF Alone
    <3> QED
      BY <1>0, <2>1, <3>1, QuietMove
  <2> QED
    BY <1>4, <2>1, <2>2, <2>3
<1>5. CASE /\ fetched'[r] = fetched[r] /\ todo'[r] = todo[r] /\ fresh'[r] = fresh[r]
           /\ pc'[r] \in CycleSteps /\ ~StartRun(r) /\ ~FetchAll(r)
  <2>1. /\ pc'[r] = "fetch" => pc[r] = "fetch"
        /\ pc'[r] \in Working => pc[r] \in Working
        /\ run'[r] = run[r]
    BY <1>0, <1>5, StageStep, PcStep
  <2> QED
    BY <1>4, <1>5, <2>1 DEF FreshStaysNew
<1>6. CASE UpsertNext(r)
  <2>0. /\ pc[r] = "upsert" /\ pc'[r] = "upsert" /\ run'[r] = run[r]
        /\ fetched'[r] = fetched[r]
    BY <1>6 DEF UpsertNext
  <2>1. PICK t \in Sources : \E q \in todo[r][t] :
          /\ todo' = [todo EXCEPT ![r][t] = @ \ {q}]
          /\ rows' = [rows EXCEPT ![JobOf[q]] = upsert_job(@, q, run[r], day)]
          /\ fresh' = IF rows[JobOf[q]].status = "absent"
                      THEN [fresh EXCEPT ![r] = @ \cup {JobOf[q]}] ELSE fresh
    BY <1>6 DEF UpsertNext
  <2>2. PICK q \in todo[r][t] :
          /\ todo' = [todo EXCEPT ![r][t] = @ \ {q}]
          /\ rows' = [rows EXCEPT ![JobOf[q]] = upsert_job(@, q, run[r], day)]
          /\ fresh' = IF rows[JobOf[q]].status = "absent"
                      THEN [fresh EXCEPT ![r] = @ \cup {JobOf[q]}] ELSE fresh
    BY <2>1
  <2>3. /\ \A s \in Sources : todo'[r][s] \subseteq todo[r][s]
        /\ todo'[r][t] = todo[r][t] \ {q}
        /\ q \in Postings /\ JobOf[q] \in Jobs
    BY <1>0, <2>2, PostingsAssumption DEF TypeOK
  <2>4. CASE rows[JobOf[q]].status = "absent"
    <3> DEFINE j == JobOf[q]
    <3>1. rows'[j] = Inserted(q, run[r], day)
      BY <1>0, <2>2, <2>3, <2>4 DEF upsert_job, TypeOK
    <3>2. ASSUME Sole(r, j)', NEW s \in Sources, NEW p \in todo'[r][s], JobOf[p] = j
          PROVE  FALSE
      <4>1. p \in Listings(r, j) /\ q \in Listings(r, j)
        BY <2>2, <2>3, <3>2 DEF Accepted, Listings
      <4>2. p = q
        BY <2>0, <3>2, <4>1 DEF Sole, Listings
      <4>3. s = t
        BY <2>2, <2>3, <3>2, <4>2 DEF Accepted, PostingsOf
      <4> QED
        BY <2>3, <3>2, <4>2, <4>3
    <3>3. /\ Present(j)'
          /\ rows'[j].status = "new" /\ rows'[j].last_seen_cycle = run'[r]
      BY <2>0, <3>1 DEF Inserted, Present
    <3>4. \A i \in fresh'[r] : i \in fresh[r] \/ i = j
      BY <1>0, <2>2, <2>4 DEF TypeOK
    <3> QED
      BY <1>4, <2>0, <2>3, <3>2, <3>3, <3>4 DEF Working, CycleSteps
  <2>5. CASE rows[JobOf[q]].status # "absent"
    BY <1>4, <2>0, <2>2, <2>3, <2>5 DEF Working, CycleSteps
  <2> QED
    BY <2>4, <2>5
<1> QED
  BY <1>0, <1>1, <1>2, <1>3, <1>5, <1>6, ResultsStep

(* With one process and finitely many postings, a job the run inserted     *)
(* from one posting, and did not retire, is in the run's payload.          *)
THEOREM SoleNewJobsAnnouncedHolds ==
  Alone /\ IsFiniteSet(Postings) /\ Spec => SoleNewJobsAnnounced
<1> DEFINE A == \A r \in Runners : Notify(r) =>
                  \A j \in fresh[r] :
                    rows[j].status \in Visible /\ Cardinality(Listings(r, j)) = 1
                      => announced'[j] = announced[j] + 1
<1>1. ASSUME IsFiniteSet(Postings) PROVE TypeInv /\ FreshStaysNew => A
  <2> SUFFICES ASSUME TypeInv, FreshStaysNew, NEW r \in Runners, Notify(r), NEW j \in fresh[r],
                      rows[j].status \in Visible, Cardinality(Listings(r, j)) = 1
               PROVE  announced'[j] = announced[j] + 1
    OBVIOUS
  <2>1. TypeOK /\ j \in Jobs
    BY DEF TypeInv, TypeOK
  <2>2. Listings(r, j) \subseteq Postings
    BY <2>1 DEF Listings, TypeOK, Result
  <2>3. IsFiniteSet(Listings(r, j))
    BY <1>1, <2>2, FS_Subset
  <2>4. Sole(r, j)
    BY <2>2, <2>3, FS_Singleton DEF Sole
  <2>5. rows[j].status = "new" /\ rows[j].last_seen_cycle = run[r]
    BY <2>4 DEF FreshStaysNew, Notify, Goto, Working, CycleSteps
  <2> QED
    BY <2>1, <2>5 DEF Notify, jobs_new_in_run
<1>2. Init => Accepted /\ FreshStaysNew
  BY DEF Init, Accepted, FreshStaysNew, NoResult, Working, CycleSteps
<1>3. ASSUME Alone, IsFiniteSet(Postings) PROVE Spec => [][A]_vars
  <2>1. TypeInv /\ Accepted /\ FreshStaysNew /\ [Next]_vars => Accepted' /\ FreshStaysNew'
    BY <1>3, AcceptedStep, FreshStep
  <2>2. TypeInv /\ FreshStaysNew => A
    BY <1>1, <1>3
  <2> QED
    BY <1>2, <2>1, <2>2, TypeInvHolds, PTL DEF Spec
<1> QED
  BY <1>3 DEF SoleNewJobsAnnounced
=============================================================================

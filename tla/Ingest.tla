------------------------------- MODULE Ingest -------------------------------
(***************************************************************************)
(* From a source's record to a row of the feed: the adapters' _map         *)
(* functions (sources/), the facts a text states (pipeline/signals.py),    *)
(* pay (salary.py), the gates (filters.py), and the two places of          *)
(* runner.py that apply them: to what was fetched, and to what is stored.  *)
(*                                                                         *)
(* Postings of different job_uids do not meet here, so there is one posting*)
(* p, which its site may edit between runs.  Abstractions: a title and a   *)
(* description are sets of Words and the facts the regular expressions     *)
(* find in them; a location is the set of places it names; a match score,  *)
(* which no gate reads, is left out.  An optional value is a set of at     *)
(* most one element.                                                       *)
(***************************************************************************)
EXTENDS Integers, FiniteSets

CONSTANTS
  Offers,         \* <<p, t>>: a site lists posting p, which says t
  Configs,        \* configurations the user may save
  InternWord,     \* the word of a title that names an internship
  NoText,         \* an empty description
  Rest,           \* a pay period's length: <<num, den>> in months
  PaidOverride,   \* _PAID_OVERRIDE_AMOUNT
  MinRealAmount,  \* _MIN_REAL_AMOUNT
  MaxMonths,      \* _MAX_PLAUSIBLE_MONTHS
  MinAnnualUsd,   \* remoteok._MIN_ANNUAL_USD
  MonthlyCeiling, \* adzuna._MONTHLY_PAY_CEILING
  MaxRuns

Postings == {o[1] : o \in Offers}
Texts == {NoText} \cup {o[2] : o \in Offers}

AdapterNames ==
  {"unstop", "internshala", "adzuna", "jooble", "remoteok", "himalayas",
   "jobicy", "greenhouse", "lever", "ashby", "smartrecruiters", "jobspy"}

Figures(S) == S \subseteq Nat /\ IsFiniteSet(S)

(* What the records of the adapters, the signals of a text and the         *)
(* validated configuration are; INR has the rate 1 and a month is the unit.*)
ASSUME IngestAssumption ==
  /\ MaxRuns \in Nat
  /\ \A p \in Postings :
       /\ p.adapter \in AdapterNames
       /\ p.remote \in {{}, {TRUE}, {FALSE}}
       /\ p.unpaid \in BOOLEAN /\ p.disclosed \in BOOLEAN
       /\ Figures(p.min) /\ Figures(p.max)
       /\ p.period \subseteq DOMAIN Rest
  /\ \A t \in Texts :
       /\ t.unpaid \in BOOLEAN /\ t.perTask \in BOOLEAN
       /\ \A S \in {t.amounts, t.years, t.spans, t.programs} : Figures(S)
  /\ NoText.words = {} /\ NoText.amounts = {} /\ ~NoText.unpaid
  /\ NoText.years = {} /\ NoText.spans = {} /\ NoText.programs = {}
  /\ \A c \in Configs :
       /\ \A f \in {c.min_internship, c.min_remote, c.min_in_office,
                     c.max_experience_years, c.max_internship_months} : f \in Nat
       /\ \A cur \in DOMAIN c.rates : c.rates[cur] \in Nat
       /\ "INR" \in DOMAIN c.rates /\ c.rates["INR"] = 1
       /\ c.on_missing \in {"flag", "drop"}
  /\ \A period \in DOMAIN Rest : Rest[period] \in Nat \X (Nat \ {0})
  /\ {"year", "month"} \subseteq DOMAIN Rest /\ Rest["month"] = <<1, 1>>

VARIABLES
  saved,     \* the configuration on disk
  cfg,       \* the one the current run read
  offer,     \* what the source lists in this run (a set of at most one)
  posting,   \* the posting this behaviour is about
  rows,      \* the jobs table: a function from job_uids to rows
  run,       \* "idle", "fetched", "stored", "read", "done"
  failing,   \* _retire_failing_jobs: the uids to retire
  runs,      \* runs started
  touched    \* history: rows the user changed since the candidates were read

ingestVars == <<saved, cfg, offer, posting, rows, run, failing, runs, touched>>

----------------------------------------------------------------------------
(* signals.py *)

Largest(S) == CHOOSE v \in S : \A w \in S : w <= v
Optional(S) == IF S = {} THEN {} ELSE {Largest(S)}

stated_amounts(t, least) == {v \in t.amounts : v >= least}

says_unpaid(t) == t.unpaid /\ stated_amounts(t, PaidOverride) = {}

stated_monthly_pay_inr(t) ==
  IF says_unpaid(t) THEN {0} ELSE Optional(stated_amounts(t, MinRealAmount))

Spans(S) == {m \in S : m <= MaxMonths}

internship_months(t) ==
  Optional(IF Spans(t.spans) # {} THEN Spans(t.spans) ELSE Spans(t.programs))

work_mode(says) ==
  IF {"remote", "onsite"} \subseteq says THEN {}
  ELSE IF "remote" \in says
       THEN {IF "hybrid" \in says THEN "remote_or_hybrid" ELSE "remote"}
  ELSE IF "hybrid" \in says THEN {"hybrid"} ELSE says

remote_flag(mode) == {m \in {"remote", "remote_or_hybrid"} : m \in mode} # {}

stated_remote(says) ==
  IF work_mode(says) = {} THEN {} ELSE {remote_flag(work_mode(says))}

----------------------------------------------------------------------------
(* salary.py *)

to_inr_month(v, c, currency, period) ==
  (v * c.rates[currency] * Rest[period][1]) \div Rest[period][2]

Known(pay, c) ==
  /\ pay.period # {}
  /\ pay.currency # {}
  /\ pay.currency \subseteq DOMAIN c.rates

InInr(S, pay, c) ==
  {to_inr_month(v, c, cur, per) : v \in S, cur \in pay.currency, per \in pay.period}

Pay(min, max, currency, period) ==
  [min |-> min, max |-> max, currency |-> currency, period |-> period,
   parsed |-> min \cup max # {}]

NoPay == Pay({}, {}, {}, {})
Monthly(min, max) == Pay(min, max, {"INR"}, {"month"})

convert_bounds(pay, c) ==
  IF Known(pay, c)
  THEN Monthly(InInr(pay.min, pay, c), InInr(pay.max, pay, c))
  ELSE [pay EXCEPT !.parsed = FALSE]

representative_inr(pay) == IF pay.max # {} THEN pay.max ELSE pay.min

floor_of(job, c) ==
  IF job.is_internship THEN c.min_internship
  ELSE IF TRUE \in job.is_remote THEN c.min_remote ELSE c.min_in_office

salary_bucket(job, c) ==
  IF ~job.pay.parsed \/ representative_inr(job.pay) = {} THEN "unknown"
  ELSE IF \A v \in representative_inr(job.pay) : v >= floor_of(job, c)
       THEN "pass" ELSE "fail"

----------------------------------------------------------------------------
(* The adapters' _map: what a Job takes from the site's record and text *)

Positive(S) == S \ {0}
FieldPay(p) == Pay(Positive(p.min), Positive(p.max), p.currency, p.period)

Job(p, t, place, hashed, is_remote, pay) ==
  [title |-> p.title, description |-> t, location |-> place, job_uid |-> hashed,
   is_remote |-> is_remote, pay |-> pay, is_internship |-> FALSE, bucket |-> "unset"]

unstop_map(p, t) ==
  Job(p, t, p.location, {},
      IF p.remote # {} THEN p.remote ELSE stated_remote(t.says),
      IF p.unpaid THEN Monthly({0}, {0})
      ELSE IF p.disclosed THEN FieldPay(p) ELSE NoPay)

internshala_map(p, t) ==
  [Job(p, t, p.location, p.location, p.remote,
       IF p.unpaid THEN Monthly({0}, {0})
       ELSE IF p.min = {} THEN NoPay
       ELSE Monthly(p.min, IF p.max = {} THEN p.min ELSE p.max))
   EXCEPT !.title = @ \cup {InternWord}]

adzuna_pay(p, t) ==
  LET top   == Largest({0} \cup p.min \cup p.max)
      lone  == p.max = {} /\ p.currency = {"INR"} /\ top < MonthlyCeiling
      said  == IF top > 0 THEN {} ELSE stated_monthly_pay_inr(t)
  IN IF said # {} THEN Monthly(said \cap {0}, said)
     ELSE Pay(Positive(p.min), Positive(p.max), p.currency,
              {IF lone THEN "month" ELSE "year"})

AdzunaShownHashed(p, t) ==
  LET shown == IF t.setup = {} THEN p.location
               ELSE (CHOOSE s \in t.setup : TRUE).place
  IN Job(p, t, shown, shown, stated_remote(t.says), adzuna_pay(p, t))

adzuna_map(p, t) ==
  IF t.setup = {}
  THEN Job(p, t, p.location, p.location, stated_remote(t.says), adzuna_pay(p, t))
  ELSE LET line == CHOOSE s \in t.setup : TRUE IN
       Job(p, t, line.place, p.location,
           IF line.place = {} THEN {TRUE} ELSE stated_remote(line.says) \ {TRUE},
           adzuna_pay(p, t))

jooble_map(p, t) == Job(p, t, p.location, p.location, {}, NoPay)

remoteok_map(p, t) ==
  Job(p, t, p.location, p.location,
      IF p.location = {} THEN {TRUE} ELSE {},
      IF Largest({0} \cup p.min \cup p.max) < MinAnnualUsd THEN NoPay
      ELSE Pay(Positive(p.min), Positive(p.max), {"USD"}, {"year"}))

himalayas_map(p, t) ==
  Job(p, t, p.location, p.location, {TRUE}, IF t.perTask THEN NoPay ELSE FieldPay(p))

jobicy_map(p, t) == Job(p, t, p.location, p.location, {TRUE}, FieldPay(p))

greenhouse_map(p, t) ==
  Job(p, t, p.location, p.location, p.remote \ {FALSE}, NoPay)

lever_map(p, t) == Job(p, t, p.location, p.location, p.remote, FieldPay(p))

ashby_map(p, t) == Job(p, t, p.location, p.location, {p.remote = {TRUE}}, FieldPay(p))

(* Its list call returns no description. *)
smartrecruiters_map(p, t) ==
  Job(p, NoText, p.location, p.location, {p.remote = {TRUE}}, NoPay)

JobspyPayKept(p, t, c) ==
  LET field == Pay(p.min, p.max, p.currency, p.period) IN
  IF Known(field, c) /\ field.parsed
  THEN [convert_bounds(field, c) EXCEPT !.currency = p.currency, !.period = p.period]
  ELSE LET said == stated_monthly_pay_inr(t) IN
       IF said # {} THEN Monthly(said, said) ELSE NoPay

(* JobSpy rows are converted by the adapter already, and by the runner once*)
(* more.  The base currency is INR, as everywhere else in the program.     *)
jobspy_pay(p, t, c) ==
  LET field == Pay(p.min, p.max, p.currency, p.period) IN
  IF Known(field, c) /\ field.parsed THEN convert_bounds(field, c)
  ELSE LET said == stated_monthly_pay_inr(t) IN
       IF said # {} THEN Monthly(said, said) ELSE NoPay

jobspy_map(p, t, c) ==
  Job(p, t, p.location, p.location, stated_remote(t.says), jobspy_pay(p, t, c))

Adapted(p, t, c) ==
  CASE p.adapter = "unstop"          -> unstop_map(p, t)
    [] p.adapter = "internshala"     -> internshala_map(p, t)
    [] p.adapter = "adzuna"          -> adzuna_map(p, t)
    [] p.adapter = "jooble"          -> jooble_map(p, t)
    [] p.adapter = "remoteok"        -> remoteok_map(p, t)
    [] p.adapter = "himalayas"       -> himalayas_map(p, t)
    [] p.adapter = "jobicy"          -> jobicy_map(p, t)
    [] p.adapter = "greenhouse"      -> greenhouse_map(p, t)
    [] p.adapter = "lever"           -> lever_map(p, t)
    [] p.adapter = "ashby"           -> ashby_map(p, t)
    [] p.adapter = "smartrecruiters" -> smartrecruiters_map(p, t)
    [] p.adapter = "jobspy"          -> jobspy_map(p, t, c)

----------------------------------------------------------------------------
(* filters.py *)

detect_internship(title) == InternWord \in title

required_years(t) == Optional(t.years)

location_ok(job, c) ==
  \/ TRUE \in job.is_remote /\ c.remote_preferred
  \/ job.location = {}
  \/ job.location \cap c.locations # {}

(* The code reads years, pay and months off the title and the description  *)
(* together; here a title names words only, and states none of them.       *)
Unpaid(job) ==
  /\ \A v \in representative_inr(job.pay) : v = 0
  /\ says_unpaid(job.description)

(* One disjunct per gate.  Titles decide the excludes, the whole text the  *)
(* other words; an internship needs no role if it names a wanted skill.    *)
hard_drop(job, c) ==
  LET hay      == job.title \cup job.description.words
      anchored == c.must_have \cap hay # {}
  IN \/ c.exclude \cap job.title # {}
     \/ c.require_level /\ c.level_required \cap hay = {}
     \/ c.roles \cap hay = {} /\ ~(job.is_internship /\ anchored)
     \/ c.must_have # {} /\ ~anchored
     \/ /\ ~job.is_internship
        /\ c.max_experience_years > 0
        /\ \E y \in required_years(job.description) : y > c.max_experience_years
     \/ Unpaid(job)
     \/ /\ job.is_internship
        /\ c.max_internship_months > 0
        /\ \E m \in internship_months(job.description) : m > c.max_internship_months
     \/ ~location_ok(job, c)

UnknownFails(job, c) ==
  /\ ~hard_drop(job, c)
  /\ job.bucket = "pass"

score_and_filter(job, c) ==
  /\ ~hard_drop(job, c)
  /\ job.bucket # "fail"
  /\ job.bucket = "unknown" => c.on_missing = "flag"

----------------------------------------------------------------------------
(* runner.py: the stamps in their order *)

Stamped(job, c) ==
  LET named  == [job EXCEPT !.is_internship = detect_internship(job.title)]
      paid   == [named EXCEPT !.pay = convert_bounds(named.pay, c)]
  IN [paid EXCEPT !.bucket = salary_bucket(paid, c)]

(* A cached full text replaces the listing's, and where no pay is known the*)
(* text fills it.  Stored pay is not converted again.                      *)
Text(row) ==
  IF row.full_description = {} THEN row.description
  ELSE CHOOSE t \in row.full_description : TRUE

RestampedListing(row, c) ==
  LET named == [row EXCEPT !.is_internship = detect_internship(row.title)]
  IN [named EXCEPT !.bucket = salary_bucket(named, c)]

Restamped(row, c) ==
  LET named == [row EXCEPT !.description = Text(row),
                           !.is_internship = detect_internship(row.title)]
      said  == stated_monthly_pay_inr(named.description)
      paid  == IF salary_bucket(named, c) = "unknown" /\ said # {}
               THEN [named EXCEPT !.pay = Monthly(said, said)] ELSE named
  IN [paid EXCEPT !.bucket = salary_bucket(paid, c)]

Columns(job) ==
  [title |-> job.title, description |-> job.description, location |-> job.location,
   is_remote |-> job.is_remote, pay |-> job.pay, is_internship |-> job.is_internship,
   bucket |-> job.bucket, full_description |-> {}, deleted |-> FALSE, flagged |-> FALSE]

(* upsert_job: the content is refreshed and a deleted row comes back; the  *)
(* user's flags and the cached text stay.                                  *)
Upserted(job) ==
  LET uid == job.job_uid
      row == IF uid \in DOMAIN rows
             THEN [Columns(job) EXCEPT !.full_description = rows[uid].full_description,
                                       !.flagged = rows[uid].flagged]
             ELSE Columns(job)
  IN [u \in DOMAIN rows \cup {uid} |-> IF u = uid THEN row ELSE rows[u]]

refilter_candidates == {u \in DOMAIN rows : ~rows[u].deleted /\ ~rows[u].flagged}

----------------------------------------------------------------------------
IngestInit ==
  /\ saved \in Configs
  /\ cfg = saved
  /\ posting \in Postings
  /\ offer = {}
  /\ rows = [u \in {} |-> NoPay]
  /\ run = "idle"
  /\ failing = {}
  /\ runs = 0
  /\ touched = {}

(* A run reads the configuration once; its source lists the posting, as it *)
(* reads by then, or does not.                                             *)
StartRun ==
  /\ run \in {"idle", "done"}
  /\ runs < MaxRuns
  /\ runs' = runs + 1
  /\ cfg' = saved
  /\ offer' \in {{}} \cup {{o} : o \in {o \in Offers : o[1] = posting}}
  /\ run' = "fetched"
  /\ touched' = {}
  /\ UNCHANGED <<saved, posting, rows, failing>>

filter_and_upsert ==
  /\ run = "fetched"
  /\ run' = "stored"
  /\ LET jobs == {Stamped(Adapted(o[1], o[2], cfg), cfg) : o \in offer}
         kept == {job \in jobs : score_and_filter(job, cfg)}
     IN rows' = IF kept = {} THEN rows ELSE Upserted(CHOOSE job \in kept : TRUE)
  /\ UNCHANGED <<saved, cfg, offer, posting, failing, runs, touched>>

read_candidates ==
  /\ run = "stored"
  /\ run' = "read"
  /\ failing' = {u \in refilter_candidates :
                   ~score_and_filter(Restamped(rows[u], cfg), cfg)}
  /\ touched' = {}
  /\ UNCHANGED <<saved, cfg, offer, posting, rows, runs>>

retire_jobs ==
  /\ run = "read"
  /\ run' = "done"
  /\ rows' = [u \in DOMAIN rows |->
                IF u \in failing /\ ~rows[u].flagged
                THEN [rows[u] EXCEPT !.deleted = TRUE] ELSE rows[u]]
  /\ failing' = {}
  /\ UNCHANGED <<saved, cfg, offer, posting, runs, touched>>

(* The dashboard, at any moment: a click on applied or bookmarked, a full  *)
(* text pasted or fetched, and a configuration saved.                      *)
ToggleFlag ==
  /\ \E u \in DOMAIN rows :
       /\ rows' = [rows EXCEPT ![u].flagged = ~@]
       /\ touched' = touched \cup {u}
  /\ UNCHANGED <<saved, cfg, offer, posting, run, failing, runs>>

CacheText ==
  /\ \E u \in DOMAIN rows, o \in Offers :
       /\ o[1] = posting
       /\ rows[u].full_description = {}
       /\ rows' = [rows EXCEPT ![u].full_description = {o[2]}]
       /\ touched' = touched \cup {u}
  /\ UNCHANGED <<saved, cfg, offer, posting, run, failing, runs>>

SaveConfig ==
  /\ saved' \in Configs \ {saved}
  /\ UNCHANGED <<cfg, offer, posting, rows, run, failing, runs, touched>>

IngestNext ==
  \/ StartRun \/ filter_and_upsert \/ read_candidates \/ retire_jobs
  \/ ToggleFlag \/ CacheText \/ SaveConfig

IngestSpec == IngestInit /\ [][IngestNext]_ingestVars

----------------------------------------------------------------------------
(* Properties *)

IngestTypeOK ==
  /\ saved \in Configs
  /\ cfg \in Configs
  /\ posting \in Postings
  /\ offer \subseteq Offers
  /\ run \in {"idle", "fetched", "stored", "read", "done"}
  /\ runs \in 0..MaxRuns
  /\ failing \subseteq DOMAIN rows
  /\ touched \subseteq DOMAIN rows
  /\ \A u \in DOMAIN rows :
       /\ rows[u].deleted \in BOOLEAN
       /\ rows[u].flagged \in BOOLEAN
       /\ rows[u].full_description \subseteq Texts
       /\ rows[u].pay.parsed => rows[u].pay.currency = {"INR"} /\ rows[u].pay.period = {"month"}

Visible(u) == ~rows[u].deleted

(* What is known of a row's pay: its columns, or else what its text says.  *)
KnownPay(row) ==
  IF row.pay.parsed THEN representative_inr(row.pay)
  ELSE stated_monthly_pay_inr(Text(row))

(* The promise of keywords and salary in the configuration, put as a       *)
(* statement about a stored row rather than as a sequence of gates.        *)
Acceptable(row, c) ==
  LET words   == row.title \cup Text(row).words
      intern  == InternWord \in row.title
      least   == IF intern THEN c.min_internship
                 ELSE IF row.is_remote = {TRUE} THEN c.min_remote ELSE c.min_in_office
  IN /\ row.title \cap c.exclude = {}
     /\ c.must_have = {} \/ words \cap c.must_have # {}
     /\ \A v \in KnownPay(row) : v >= least
     /\ c.on_missing = "drop" => KnownPay(row) # {}
     /\ intern /\ c.max_internship_months > 0 =>
          \A m \in internship_months(Text(row)) : m <= c.max_internship_months
     /\ ~intern /\ c.max_experience_years > 0 =>
          \A y \in Text(row).years : y <= c.max_experience_years
     /\ row.location \subseteq {} \/ row.location \cap c.locations # {}
          \/ (row.is_remote = {TRUE} /\ c.remote_preferred)

(* "So the feed matches the config after one run": whatever the user saved *)
(* before the run, whatever the site edited, and whether the row was listed*)
(* by this run or not, a visible row without a flag is acceptable when the *)
(* run is over, unless the user changed it while the run was retiring.     *)
FeedMatchesConfig ==
  run = "done" =>
    \A u \in DOMAIN rows \ touched :
      Visible(u) /\ ~rows[u].flagged => Acceptable(rows[u], cfg)

(* "An adapter that starts reading a better location keeps hashing the old *)
(* one": a text the site edits never gives the posting a second job_uid,   *)
(* which would lose the user's marks and announce the job again.           *)
TextDoesNotRekey == Cardinality(DOMAIN rows) <= 1

(* "Silence is never read as a no": a posting of a wanted role and skill   *)
(* that says nothing of pay, place, experience and duration is in the feed *)
(* after the run that listed it, if the user keeps jobs of unknown pay and *)
(* does not exclude what Internshala is for.                               *)
Silent(o) ==
  /\ o[2].words = {} /\ o[2].amounts = {} /\ ~o[2].unpaid /\ o[2].setup = {}
  /\ o[2].years = {} /\ o[2].spans = {} /\ o[2].programs = {}
  /\ o[1].min = {} /\ o[1].max = {} /\ ~o[1].unpaid /\ o[1].location = {}

SilenceIsKept ==
  run = "done" /\ cfg.on_missing = "flag" /\ ~cfg.require_level =>
    \A o \in offer :
      /\ Silent(o)
      /\ o[1].title \cap cfg.exclude = {}
      /\ o[1].adapter = "internshala" => InternWord \notin cfg.exclude
      /\ o[1].title \cap cfg.roles # {}
      /\ o[1].title \cap cfg.must_have # {}
      /\ \A u \in DOMAIN rows : rows[u].full_description = {}
      => \E u \in DOMAIN rows : Visible(u)

(* What a posting pays, in INR a month by any configuration. *)
GivenIn(p) ==
  [currency |-> CASE p.adapter = "remoteok" -> {"USD"}
                  [] p.adapter = "internshala" -> {"INR"}
                  [] OTHER -> p.currency,
   period |-> CASE p.adapter \in {"adzuna", "remoteok"} -> {"year", "month"}
                [] p.adapter = "internshala" -> {"month"}
                [] OTHER -> p.period]

GivenPay(p) == UNION {InInr(p.min \cup p.max, GivenIn(p), c) : c \in Configs}

(* "Idempotent": the pay of a row is a figure of its site converted once,  *)
(* although the JobSpy adapter converts and the runner converts again, or  *)
(* a figure its text states.                                               *)
PayConvertedOnce ==
  \A u \in DOMAIN rows :
    rows[u].pay.parsed =>
      rows[u].pay.min \cup rows[u].pay.max \subseteq
        {0} \cup (UNION {t.amounts : t \in Texts}) \cup GivenPay(posting)
=============================================================================

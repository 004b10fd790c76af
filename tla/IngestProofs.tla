------------------------------ MODULE IngestProofs ------------------------------
(***************************************************************************)
(* For any postings, texts, configurations and rates: the feed matches the *)
(* configuration after one run, a posting never has a second job_uid, a    *)
(* silent posting is kept, and pay is converted once.                      *)
(***************************************************************************)
EXTENDS Ingest, DataLemmas

----------------------------------------------------------------------------
(* Signals *)

(* The largest of a text's figures is one of them, and bounds them all.    *)
LEMMA LargestFacts ==
  ASSUME NEW S, Figures(S), S # {}
  PROVE  Largest(S) \in S /\ Largest(S) \in Nat /\ \A w \in S : w <= Largest(S)
<1>1. \E v \in S : \A w \in S : w <= v
  BY LargestMember DEF Figures
<1> QED BY <1>1 DEF Largest, Figures

(* A selection of a text's figures is a set of figures. *)
LEMMA FewerFigures ==
  ASSUME NEW S, Figures(S), NEW T \in SUBSET S
  PROVE  Figures(T)
BY FS_Subset DEF Figures

(* Of a set of figures, at most the largest is taken. *)
LEMMA OptionalFacts ==
  ASSUME NEW S, Figures(S)
  PROVE  /\ Optional(S) \subseteq S
         /\ S = {} => Optional(S) = {}
         /\ S # {} => Optional(S) = {Largest(S)}
BY LargestFacts DEF Optional

(* What a text states of pay is one of its amounts, or nothing at all. *)
LEMMA StatedPay ==
  ASSUME NEW t \in Texts
  PROVE  /\ stated_monthly_pay_inr(t) \subseteq {0} \cup t.amounts
         /\ stated_monthly_pay_inr(t) \subseteq Nat
         /\ ~t.unpaid /\ t.amounts = {} => stated_monthly_pay_inr(t) = {}
<1>1. Figures(t.amounts)
  BY IngestAssumption
<1>2. Figures(stated_amounts(t, MinRealAmount))
  BY <1>1, FewerFigures DEF stated_amounts
<1>3. stated_amounts(t, MinRealAmount) \subseteq t.amounts /\ t.amounts \subseteq Nat
  BY <1>1 DEF stated_amounts, Figures
<1> QED BY <1>2, <1>3, OptionalFacts DEF stated_monthly_pay_inr, says_unpaid

(* A stated duration is a number. *)
LEMMA StatedMonths ==
  ASSUME NEW t \in Texts
  PROVE  /\ internship_months(t) \subseteq Nat
         /\ t.spans = {} /\ t.programs = {} => internship_months(t) = {}
<1>1. Figures(t.spans) /\ Figures(t.programs)
  BY IngestAssumption
<1>2. /\ Figures(Spans(t.spans)) /\ Figures(Spans(t.programs))
      /\ Spans(t.spans) \subseteq Nat /\ Spans(t.programs) \subseteq Nat
      /\ t.programs = {} => Spans(t.programs) = {}
      /\ t.spans = {} => Spans(t.spans) = {}
  BY <1>1, FewerFigures DEF Spans, Figures
<1> QED BY <1>2, OptionalFacts DEF internship_months

(* What a text says of remote work is a flag, or nothing. *)
LEMMA StatedRemote ==
  ASSUME NEW says
  PROVE  stated_remote(says) \in {{}, {TRUE}, {FALSE}}
BY DEF stated_remote, remote_flag

----------------------------------------------------------------------------
(* Pay *)

Flags == {{}, {TRUE}, {FALSE}}

PayShape(pay) ==
  /\ pay = [min |-> pay.min, max |-> pay.max, currency |-> pay.currency,
            period |-> pay.period, parsed |-> pay.parsed]
  /\ pay.min \subseteq Nat /\ pay.max \subseteq Nat
  /\ pay.parsed \in BOOLEAN
  /\ pay.parsed => pay.min \cup pay.max # {}
  /\ pay.period \subseteq DOMAIN Rest

(* Converting a number gives a number. *)
LEMMA ConvertsToNat ==
  ASSUME NEW v \in Nat, NEW c \in Configs, NEW cur \in DOMAIN c.rates, NEW per \in DOMAIN Rest
  PROVE  to_inr_month(v, c, cur, per) \in Nat
<1>1. c.rates[cur] \in Nat /\ Rest[per][1] \in Nat /\ Rest[per][2] \in Nat \ {0}
  BY IngestAssumption
<1>2. \A x, y \in Nat : x * y \in Nat
  OBVIOUS
<1>3. v * c.rates[cur] * Rest[per][1] \in Nat
  BY <1>1, <1>2
<1>4. \A x \in Nat, y \in Nat \ {0} : x \div y \in Nat
  OBVIOUS
<1> QED BY <1>1, <1>3, <1>4 DEF to_inr_month

(* Monthly rupees are not changed by a conversion, however often. *)
LEMMA MonthlyStays ==
  ASSUME NEW S \in SUBSET Nat, NEW pay, pay.currency = {"INR"}, pay.period = {"month"},
         NEW c \in Configs
  PROVE  InInr(S, pay, c) = S
<1>1. c.rates["INR"] = 1 /\ Rest["month"] = <<1, 1>>
  BY IngestAssumption
<1>2. ASSUME NEW v \in Nat PROVE to_inr_month(v, c, "INR", "month") = v
  BY <1>1 DEF to_inr_month
<1>3. InInr(S, pay, c) = {to_inr_month(v, c, "INR", "month") : v \in S}
  BY DEF InInr
<1> QED BY <1>2, <1>3

(* The amounts a site gives, converted, are what the posting pays. *)
LEMMA GivenConverts ==
  ASSUME NEW p \in Postings, NEW c \in Configs, NEW S \in SUBSET (p.min \cup p.max),
         NEW pay, pay.currency \subseteq GivenIn(p).currency,
         pay.period \subseteq GivenIn(p).period
  PROVE  InInr(S, pay, c) \subseteq GivenPay(p)
BY DEF InInr, GivenPay

(* What the runner stores of an adapter's pay is pay again, in rupees a    *)
(* month if it is known, and of no more figures than the adapter gave.     *)
LEMMA ConvertBounds ==
  ASSUME NEW pay, PayShape(pay), NEW c \in Configs
  PROVE  LET conv == convert_bounds(pay, c) IN
         /\ PayShape(conv)
         /\ conv.parsed => /\ conv.currency = {"INR"} /\ conv.period = {"month"}
                           /\ conv.min = InInr(pay.min, pay, c)
                           /\ conv.max = InInr(pay.max, pay, c)
         /\ pay.min = {} /\ pay.max = {} =>
              conv.min = {} /\ conv.max = {} /\ ~conv.parsed
<1> DEFINE conv == convert_bounds(pay, c)
<1>1. CASE Known(pay, c)
  <2>1. conv = Monthly(InInr(pay.min, pay, c), InInr(pay.max, pay, c))
    BY <1>1 DEF convert_bounds
  <2>2. /\ conv.min = InInr(pay.min, pay, c) /\ conv.max = InInr(pay.max, pay, c)
        /\ conv.currency = {"INR"} /\ conv.period = {"month"}
        /\ conv.parsed = (conv.min \cup conv.max # {})
        /\ conv = [min |-> conv.min, max |-> conv.max, currency |-> conv.currency,
                   period |-> conv.period, parsed |-> conv.parsed]
    BY <2>1 DEF Monthly, Pay
  <2>3. ASSUME NEW S \in SUBSET Nat
        PROVE  InInr(S, pay, c) \in SUBSET Nat
    <3>1. pay.currency \subseteq DOMAIN c.rates /\ pay.period \subseteq DOMAIN Rest
      BY <1>1 DEF Known, PayShape
    <3> QED BY <3>1, ConvertsToNat DEF InInr
  <2>4. {"month"} \subseteq DOMAIN Rest
    BY IngestAssumption
  <2>5. pay.min \in SUBSET Nat /\ pay.max \in SUBSET Nat
    BY DEF PayShape
  <2>6. PayShape(conv)
    BY <2>2, <2>3, <2>4, <2>5 DEF PayShape
  <2>7. InInr({}, pay, c) = {}
    BY DEF InInr
  <2> QED BY <2>2, <2>6, <2>7
<1>2. CASE ~Known(pay, c)
  <2>1. conv = [pay EXCEPT !.parsed = FALSE]
    BY <1>2 DEF convert_bounds
  <2>2. /\ conv.min = pay.min /\ conv.max = pay.max /\ conv.currency = pay.currency
        /\ conv.period = pay.period /\ conv.parsed = FALSE
        /\ conv = [min |-> conv.min, max |-> conv.max, currency |-> conv.currency,
                   period |-> conv.period, parsed |-> conv.parsed]
    BY <2>1 DEF PayShape
  <2> QED BY <2>2 DEF PayShape
<1> QED BY <1>1, <1>2

----------------------------------------------------------------------------
(* Adapters *)

(* Every figure a row of this posting may show. *)
Honest(p) == {0} \cup (UNION {t.amounts : t \in Texts}) \cup GivenPay(p)

Pays(p, t, c, pay) ==
  /\ PayShape(pay)
  /\ Known(pay, c) => InInr(pay.min, pay, c) \cup InInr(pay.max, pay, c) \subseteq Honest(p)
  /\ p.min = {} /\ p.max = {} /\ ~p.unpaid /\ ~t.unpaid /\ t.amounts = {}
       => pay.min = {} /\ pay.max = {}

(* The shapes of pay an adapter gives: none; rupees a month that a text    *)
(* states, or none for an unpaid posting; and amounts of the site.         *)
LEMMA NonePays ==
  ASSUME NEW p \in Postings, NEW t \in Texts, NEW c \in Configs
  PROVE  Pays(p, t, c, NoPay)
BY DEF Pays, PayShape, NoPay, Pay, Known

(* Monthly rupees a text states, or the nothing of an unpaid posting.    *)
LEMMA MonthlyPays ==
  ASSUME NEW p \in Postings, NEW t \in Texts, NEW c \in Configs,
         NEW min \in SUBSET Nat, NEW max \in SUBSET Nat,
         min \cup max \subseteq Honest(p),
         p.min = {} /\ p.max = {} /\ ~p.unpaid /\ ~t.unpaid /\ t.amounts = {}
           => min = {} /\ max = {}
  PROVE  Pays(p, t, c, Monthly(min, max))
<1> DEFINE pay == Monthly(min, max)
<1>1. /\ pay.min = min /\ pay.max = max /\ pay.currency = {"INR"} /\ pay.period = {"month"}
      /\ pay.parsed = (min \cup max # {})
      /\ pay = [min |-> pay.min, max |-> pay.max, currency |-> pay.currency,
                period |-> pay.period, parsed |-> pay.parsed]
  BY DEF Monthly, Pay
<1>2. PayShape(pay)
  BY <1>1, IngestAssumption DEF PayShape
<1>3. InInr(pay.min, pay, c) = min /\ InInr(pay.max, pay, c) = max
  BY <1>1, MonthlyStays
<1> QED BY <1>1, <1>2, <1>3 DEF Pays

(* Amounts of the site, in its currency and for its period.              *)
LEMMA GivenPays ==
  ASSUME NEW p \in Postings, NEW t \in Texts, NEW c \in Configs,
         NEW min \in SUBSET (p.min \cup p.max), NEW max \in SUBSET (p.min \cup p.max),
         NEW currency \in SUBSET GivenIn(p).currency,
         NEW period \in SUBSET GivenIn(p).period, period \subseteq DOMAIN Rest
  PROVE  Pays(p, t, c, Pay(min, max, currency, period))
<1> DEFINE pay == Pay(min, max, currency, period)
<1>1. /\ pay.min = min /\ pay.max = max /\ pay.currency = currency /\ pay.period = period
      /\ pay.parsed = (min \cup max # {})
      /\ pay = [min |-> pay.min, max |-> pay.max, currency |-> pay.currency,
                period |-> pay.period, parsed |-> pay.parsed]
  BY DEF Pay
<1>2. p.min \subseteq Nat /\ p.max \subseteq Nat
  BY IngestAssumption DEF Figures
<1>3. PayShape(pay)
  BY <1>1, <1>2 DEF PayShape
<1> HIDE DEF pay
<1>4. InInr(min, pay, c) \subseteq GivenPay(p) /\ InInr(max, pay, c) \subseteq GivenPay(p)
  BY <1>1, GivenConverts
<1>5. GivenPay(p) \subseteq Honest(p)
  BY DEF Honest
<1>6. p.min = {} /\ p.max = {} => min = {} /\ max = {}
  OBVIOUS
<1>7. Pays(p, t, c, pay)
  BY <1>1, <1>3, <1>4, <1>5, <1>6 DEF Pays
<1> QED BY <1>7 DEF pay

(* The pay a text states, as a range that begins where it is nothing. *)
LEMMA TextPays ==
  ASSUME NEW p \in Postings, NEW t \in Texts, NEW c \in Configs
  PROVE  LET said == stated_monthly_pay_inr(t) IN
         /\ Pays(p, t, c, Monthly(said, said))
         /\ Pays(p, t, c, Monthly(said \cap {0}, said))
<1> DEFINE said == stated_monthly_pay_inr(t)
<1>1. said \in SUBSET Nat /\ said \subseteq Honest(p) /\ said \cap {0} \in SUBSET Nat
  BY StatedPay DEF Honest
<1>2. ~t.unpaid /\ t.amounts = {} => said = {} /\ said \cap {0} = {}
  BY StatedPay
<1> HIDE DEF said
<1>3. Pays(p, t, c, Monthly(said, said))
  BY <1>1, <1>2, MonthlyPays
<1>4. (said \cap {0}) \cup said \subseteq Honest(p)
  BY <1>1
<1>5. Pays(p, t, c, Monthly(said \cap {0}, said))
  BY <1>1, <1>2, <1>4, MonthlyPays
<1> QED BY <1>3, <1>5 DEF said

(* A job_uid is of the posting alone, whatever its text says. *)
UidOf(p) == IF p.adapter = "unstop" THEN {} ELSE p.location

JobShape(job) ==
  /\ job = [title |-> job.title, description |-> job.description,
            location |-> job.location, job_uid |-> job.job_uid,
            is_remote |-> job.is_remote, pay |-> job.pay,
            is_internship |-> job.is_internship, bucket |-> job.bucket]
  /\ job.is_remote \in Flags
  /\ PayShape(job.pay)

(* What every adapter makes of a posting and its text. *)
Maps(p, t, c, job) ==
  /\ JobShape(job)
  /\ job.job_uid = UidOf(p)
  /\ job.title \in {p.title, p.title \cup {InternWord}}
  /\ job.title = p.title \/ p.adapter = "internshala"
  /\ job.description \in {t, NoText}
  /\ t.setup = {} => job.location = p.location
  /\ Pays(p, t, c, job.pay)

(* A map is what it should be once its place, its remote flag and its pay*)
(* are: it hashes what the text does not change.                         *)
LEMMA JobFacts ==
  ASSUME NEW p \in Postings, NEW t \in Texts, NEW c \in Configs,
         NEW says \in {t, NoText}, NEW place, t.setup = {} => place = p.location,
         NEW is_remote \in Flags, NEW pay, Pays(p, t, c, pay)
  PROVE  Maps(p, t, c, Job(p, says, place, UidOf(p), is_remote, pay))
<1> DEFINE job == Job(p, says, place, UidOf(p), is_remote, pay)
<1>1. /\ job.title = p.title /\ job.description = says /\ job.location = place
      /\ job.job_uid = UidOf(p) /\ job.is_remote = is_remote /\ job.pay = pay
      /\ job = [title |-> job.title, description |-> job.description,
                location |-> job.location, job_uid |-> job.job_uid,
                is_remote |-> job.is_remote, pay |-> job.pay,
                is_internship |-> job.is_internship, bucket |-> job.bucket]
  BY DEF Job
<1> HIDE DEF job
<1>2. Maps(p, t, c, job)
  BY <1>1 DEF Maps, JobShape, Pays
<1> QED BY <1>2 DEF job

(* The field pay of most sites. *)
LEMMA FieldPays ==
  ASSUME NEW p \in Postings, NEW t \in Texts, NEW c \in Configs,
         p.adapter \notin {"adzuna", "remoteok", "internshala"}
  PROVE  Pays(p, t, c, FieldPay(p))
<1>1. GivenIn(p).currency = p.currency /\ GivenIn(p).period = p.period
  BY DEF GivenIn
<1>2. Positive(p.min) \in SUBSET (p.min \cup p.max) /\ Positive(p.max) \in SUBSET (p.min \cup p.max)
  BY DEF Positive
<1>3. p.period \subseteq DOMAIN Rest
  BY IngestAssumption
<1> QED BY <1>1, <1>2, <1>3, GivenPays DEF FieldPay

(* A posting that says it is unpaid pays nothing. *)
LEMMA UnpaidPays ==
  ASSUME NEW p \in Postings, NEW t \in Texts, NEW c \in Configs, p.unpaid
  PROVE  Pays(p, t, c, Monthly({0}, {0}))
<1>1. {0} \in SUBSET Nat /\ {0} \cup {0} \subseteq Honest(p)
  BY DEF Honest
<1> QED BY <1>1, MonthlyPays

(* Each of the twelve. *)
LEMMA UnstopMaps ==
  ASSUME NEW p \in Postings, NEW t \in Texts, NEW c \in Configs, p.adapter = "unstop"
  PROVE  Maps(p, t, c, unstop_map(p, t))
<1> DEFINE remote == IF p.remote # {} THEN p.remote ELSE stated_remote(t.says)
           pay == IF p.unpaid THEN Monthly({0}, {0})
                  ELSE IF p.disclosed THEN FieldPay(p) ELSE NoPay
<1>1. remote \in Flags
  BY StatedRemote, IngestAssumption DEF Flags
<1>2. Pays(p, t, c, pay)
  BY UnpaidPays, FieldPays, NonePays
<1>3. UidOf(p) = {}
  BY DEF UidOf
<1> HIDE DEF remote, pay
<1>4. Maps(p, t, c, Job(p, t, p.location, UidOf(p), remote, pay))
  BY <1>1, <1>2, JobFacts
<1> QED BY <1>3, <1>4 DEF unstop_map, remote, pay

(* internshala: rupees a month, and a stamp of its own for internships.  *)
LEMMA InternshalaMaps ==
  ASSUME NEW p \in Postings, NEW t \in Texts, NEW c \in Configs, p.adapter = "internshala"
  PROVE  Maps(p, t, c, internshala_map(p, t))
<1> DEFINE pay == IF p.unpaid THEN Monthly({0}, {0})
                  ELSE IF p.min = {} THEN NoPay
                  ELSE Monthly(p.min, IF p.max = {} THEN p.min ELSE p.max)
           job == Job(p, t, p.location, UidOf(p), p.remote, pay)
<1>1. p.remote \in Flags
  BY IngestAssumption DEF Flags
<1>2. Pays(p, t, c, pay)
  <2>1. GivenIn(p).currency = {"INR"} /\ GivenIn(p).period = {"month"}
    BY DEF GivenIn
  <2>2. {"month"} \subseteq DOMAIN Rest
    BY IngestAssumption
  <2>3. \A max \in SUBSET (p.min \cup p.max) : Pays(p, t, c, Monthly(p.min, max))
    BY <2>1, <2>2, GivenPays DEF Monthly
  <2>4. (IF p.max = {} THEN p.min ELSE p.max) \in SUBSET (p.min \cup p.max)
    OBVIOUS
  <2> QED BY <2>3, <2>4, UnpaidPays, NonePays
<1> HIDE DEF pay
<1>3. Maps(p, t, c, job)
  BY <1>1, <1>2, JobFacts
<1>4. internshala_map(p, t) = [job EXCEPT !.title = @ \cup {InternWord}]
  BY DEF internshala_map, UidOf, pay
<1>5. job.title = p.title
  BY DEF Job
<1> HIDE DEF job
<1> QED BY <1>3, <1>4, <1>5 DEF Maps, JobShape

(* adzuna: a line of the text may give the place, the field is hashed.   *)
LEMMA AdzunaMaps ==
  ASSUME NEW p \in Postings, NEW t \in Texts, NEW c \in Configs, p.adapter = "adzuna"
  PROVE  Maps(p, t, c, adzuna_map(p, t))
<1> DEFINE line == CHOOSE s \in t.setup : TRUE
           place == IF t.setup = {} THEN p.location ELSE line.place
           remote == IF t.setup = {} THEN stated_remote(t.says)
                     ELSE IF line.place = {} THEN {TRUE} ELSE stated_remote(line.says) \ {TRUE}
<1>1. remote \in Flags
  BY StatedRemote DEF Flags
<1>2. Pays(p, t, c, adzuna_pay(p, t))
  <2> DEFINE stated == stated_monthly_pay_inr(t)
             top == Largest({0} \cup p.min \cup p.max)
             lone == p.max = {} /\ p.currency = {"INR"} /\ top < MonthlyCeiling
             period == {IF lone THEN "month" ELSE "year"}
             field == Pay(Positive(p.min), Positive(p.max), p.currency, period)
  <2>1. Pays(p, t, c, Monthly(stated \cap {0}, stated))
    BY TextPays
  <2>2. Pays(p, t, c, field)
    <3>1. GivenIn(p).currency = p.currency /\ GivenIn(p).period = {"year", "month"}
      BY DEF GivenIn
    <3>2. period \in SUBSET GivenIn(p).period /\ period \subseteq DOMAIN Rest
      BY <3>1, IngestAssumption
    <3>3. /\ Positive(p.min) \in SUBSET (p.min \cup p.max)
          /\ Positive(p.max) \in SUBSET (p.min \cup p.max)
      BY DEF Positive
    <3> HIDE DEF period
    <3> QED BY <3>1, <3>2, <3>3, GivenPays
  <2>3. adzuna_pay(p, t) \in {Monthly(stated \cap {0}, stated), field}
    BY DEF adzuna_pay
  <2> QED BY <2>1, <2>2, <2>3
<1>3. t.setup = {} => place = p.location
  OBVIOUS
<1>4. adzuna_map(p, t) = Job(p, t, place, UidOf(p), remote, adzuna_pay(p, t))
  BY DEF adzuna_map, UidOf
<1> HIDE DEF place, remote
<1> QED BY <1>1, <1>2, <1>3, <1>4, JobFacts

(* remoteok: dollars a year, and none below the least that is believed.  *)
LEMMA RemoteokMaps ==
  ASSUME NEW p \in Postings, NEW t \in Texts, NEW c \in Configs, p.adapter = "remoteok"
  PROVE  Maps(p, t, c, remoteok_map(p, t))
<1> DEFINE remote == IF p.location = {} THEN {TRUE} ELSE {}
           field == Pay(Positive(p.min), Positive(p.max), {"USD"}, {"year"})
           pay == IF Largest({0} \cup p.min \cup p.max) < MinAnnualUsd THEN NoPay ELSE field
<1>1. remote \in Flags
  BY DEF Flags
<1>2. Pays(p, t, c, pay)
  <2>1. GivenIn(p).currency = {"USD"} /\ GivenIn(p).period = {"year", "month"}
    BY DEF GivenIn
  <2>2. {"year"} \subseteq DOMAIN Rest
    BY IngestAssumption
  <2>3. /\ Positive(p.min) \in SUBSET (p.min \cup p.max)
        /\ Positive(p.max) \in SUBSET (p.min \cup p.max)
    BY DEF Positive
  <2>4. Pays(p, t, c, field)
    BY <2>1, <2>2, <2>3, GivenPays
  <2> HIDE DEF field
  <2> QED BY <2>4, NonePays
<1>3. remoteok_map(p, t) = Job(p, t, p.location, UidOf(p), remote, pay)
  BY DEF remoteok_map, UidOf
<1> HIDE DEF remote, pay
<1> QED BY <1>1, <1>2, <1>3, JobFacts

(* jobspy: the adapter converts before the runner does, and takes a text's*)
(* pay where the fields give none.                                       *)
LEMMA JobspyMaps ==
  ASSUME NEW p \in Postings, NEW t \in Texts, NEW c \in Configs, p.adapter = "jobspy"
  PROVE  Maps(p, t, c, jobspy_map(p, t, c))
<1> DEFINE field == Pay(p.min, p.max, p.currency, p.period)
           said == stated_monthly_pay_inr(t)
<1>1. GivenIn(p).currency = p.currency /\ GivenIn(p).period = p.period
  BY DEF GivenIn
<1>2. Pays(p, t, c, Monthly(said, said)) /\ Pays(p, t, c, NoPay)
  BY TextPays, NonePays
<1>3. Pays(p, t, c, field)
  <2>1. p.period \subseteq DOMAIN Rest
    BY IngestAssumption
  <2> QED BY <1>1, <2>1, GivenPays
<1>4. field.min = p.min /\ field.max = p.max
  BY DEF Pay
<1>5. ASSUME Known(field, c)
      PROVE  Pays(p, t, c, convert_bounds(field, c))
  <2> DEFINE min == InInr(field.min, field, c)
             max == InInr(field.max, field, c)
  <2>1. convert_bounds(field, c) = Monthly(min, max)
    BY <1>5 DEF convert_bounds
  <2>2. min \cup max \subseteq Honest(p)
    BY <1>3, <1>5 DEF Pays
  <2>3. p.min = {} /\ p.max = {} => min = {} /\ max = {}
    BY <1>4 DEF InInr
  <2>4. min \in SUBSET Nat /\ max \in SUBSET Nat
    <3>1. /\ field.currency \subseteq DOMAIN c.rates /\ field.period \subseteq DOMAIN Rest
          /\ field.min \subseteq Nat /\ field.max \subseteq Nat
      BY <1>3, <1>5 DEF Known, Pays, PayShape
    <3> QED BY <3>1, ConvertsToNat DEF InInr
  <2> HIDE DEF min, max
  <2> QED BY <2>1, <2>2, <2>3, <2>4, MonthlyPays
<1>6. \/ jobspy_pay(p, t, c) = Monthly(said, said)
      \/ jobspy_pay(p, t, c) = NoPay
      \/ Known(field, c) /\ jobspy_pay(p, t, c) = convert_bounds(field, c)
  BY DEF jobspy_pay
<1>7. Pays(p, t, c, jobspy_pay(p, t, c))
  BY <1>2, <1>5, <1>6
<1>8. stated_remote(t.says) \in Flags
  BY StatedRemote DEF Flags
<1> QED BY <1>7, <1>8, JobFacts DEF jobspy_map, UidOf

(* The seven that read pay, place and remote flag from fields or the text.*)
LEMMA OtherMaps ==
  ASSUME NEW p \in Postings, NEW t \in Texts, NEW c \in Configs
  PROVE  /\ p.adapter = "jooble" => Maps(p, t, c, jooble_map(p, t))
         /\ p.adapter = "himalayas" => Maps(p, t, c, himalayas_map(p, t))
         /\ p.adapter = "jobicy" => Maps(p, t, c, jobicy_map(p, t))
         /\ p.adapter = "greenhouse" => Maps(p, t, c, greenhouse_map(p, t))
         /\ p.adapter = "lever" => Maps(p, t, c, lever_map(p, t))
         /\ p.adapter = "ashby" => Maps(p, t, c, ashby_map(p, t))
         /\ p.adapter = "smartrecruiters" => Maps(p, t, c, smartrecruiters_map(p, t))
<1>1. p.remote \in Flags /\ p.remote \ {FALSE} \in Flags
  BY IngestAssumption DEF Flags
<1>2. {} \in Flags /\ {TRUE} \in Flags /\ {p.remote = {TRUE}} \in Flags
  BY DEF Flags
<1>3. /\ Pays(p, t, c, NoPay)
      /\ p.adapter \notin {"adzuna", "remoteok", "internshala"} => Pays(p, t, c, FieldPay(p))
  BY NonePays, FieldPays
<1>4. ASSUME NEW says \in {t, NoText}, NEW is_remote \in Flags, NEW pay, Pays(p, t, c, pay),
             p.adapter # "unstop"
      PROVE  Maps(p, t, c, Job(p, says, p.location, p.location, is_remote, pay))
  <2>1. UidOf(p) = p.location
    BY <1>4 DEF UidOf
  <2> QED BY <1>4, <2>1, JobFacts
<1>5. ASSUME p.adapter = "himalayas" PROVE Maps(p, t, c, himalayas_map(p, t))
  <2>1. Pays(p, t, c, IF t.perTask THEN NoPay ELSE FieldPay(p))
    BY <1>3, <1>5
  <2> QED BY <1>2, <1>4, <1>5, <2>1 DEF himalayas_map
<1>6. p.adapter = "jooble" => Maps(p, t, c, jooble_map(p, t))
  BY <1>2, <1>3, <1>4 DEF jooble_map
<1>7. p.adapter = "jobicy" => Maps(p, t, c, jobicy_map(p, t))
  BY <1>2, <1>3, <1>4 DEF jobicy_map
<1>8. p.adapter = "greenhouse" => Maps(p, t, c, greenhouse_map(p, t))
  BY <1>1, <1>3, <1>4 DEF greenhouse_map
<1>9. p.adapter = "lever" => Maps(p, t, c, lever_map(p, t))
  BY <1>1, <1>3, <1>4 DEF lever_map
<1>10. p.adapter = "ashby" => Maps(p, t, c, ashby_map(p, t))
  BY <1>2, <1>3, <1>4 DEF ashby_map
<1>11. p.adapter = "smartrecruiters" => Maps(p, t, c, smartrecruiters_map(p, t))
  BY <1>2, <1>3, <1>4 DEF smartrecruiters_map
<1> QED BY <1>5, <1>6, <1>7, <1>8, <1>9, <1>10, <1>11

(* Whatever the adapter. *)
LEMMA AdaptedMaps ==
  ASSUME NEW p \in Postings, NEW t \in Texts, NEW c \in Configs
  PROVE  Maps(p, t, c, Adapted(p, t, c))
<1>1. p.adapter \in AdapterNames
  BY IngestAssumption
<1> QED BY <1>1, UnstopMaps, InternshalaMaps, AdzunaMaps, RemoteokMaps, JobspyMaps, OtherMaps
        DEF Adapted, AdapterNames

----------------------------------------------------------------------------
(* Rows *)

RowShape(row) ==
  /\ row = [title |-> row.title, description |-> row.description,
            location |-> row.location, is_remote |-> row.is_remote, pay |-> row.pay,
            is_internship |-> row.is_internship, bucket |-> row.bucket,
            full_description |-> row.full_description, deleted |-> row.deleted,
            flagged |-> row.flagged]
  /\ row.description \in Texts
  /\ row.full_description \subseteq Texts
  /\ row.is_remote \in Flags
  /\ PayShape(row.pay)
  /\ row.pay.parsed => row.pay.currency = {"INR"} /\ row.pay.period = {"month"}
  /\ row.deleted \in BOOLEAN /\ row.flagged \in BOOLEAN

(* The stamps leave what the adapter read, and convert its pay. *)
LEMMA StampedFacts ==
  ASSUME NEW job, JobShape(job), NEW c \in Configs
  PROVE  LET new == Stamped(job, c) IN
         /\ new.title = job.title /\ new.description = job.description
         /\ new.location = job.location /\ new.job_uid = job.job_uid
         /\ new.is_remote = job.is_remote
         /\ new.pay = convert_bounds(job.pay, c)
         /\ new.is_internship = (InternWord \in job.title)
         /\ representative_inr(new.pay) = {} => new.bucket = "unknown"
<1> DEFINE named == [job EXCEPT !.is_internship = detect_internship(job.title)]
           paid == [named EXCEPT !.pay = convert_bounds(named.pay, c)]
           new == [paid EXCEPT !.bucket = salary_bucket(paid, c)]
<1>1. /\ named.title = job.title /\ named.description = job.description
      /\ named.location = job.location /\ named.job_uid = job.job_uid
      /\ named.is_remote = job.is_remote /\ named.pay = job.pay
      /\ named.is_internship = (InternWord \in job.title) /\ named.bucket = job.bucket
      /\ DOMAIN named = DOMAIN job
  BY DEF JobShape, detect_internship
<1>2. DOMAIN job = {"title", "description", "location", "job_uid", "is_remote", "pay",
                    "is_internship", "bucket"}
  BY DEF JobShape
<1> HIDE DEF named
<1>3. /\ paid.title = job.title /\ paid.description = job.description
      /\ paid.location = job.location /\ paid.job_uid = job.job_uid
      /\ paid.is_remote = job.is_remote /\ paid.pay = convert_bounds(job.pay, c)
      /\ paid.is_internship = (InternWord \in job.title)
      /\ DOMAIN paid = DOMAIN job
  BY <1>1, <1>2
<1> HIDE DEF paid
<1>4. /\ new.title = job.title /\ new.description = job.description
      /\ new.location = job.location /\ new.job_uid = job.job_uid
      /\ new.is_remote = job.is_remote /\ new.pay = convert_bounds(job.pay, c)
      /\ new.is_internship = (InternWord \in job.title)
      /\ new.bucket = salary_bucket(paid, c)
  BY <1>2, <1>3
<1>5. representative_inr(paid.pay) = {} => salary_bucket(paid, c) = "unknown"
  BY DEF salary_bucket
<1>6. Stamped(job, c) = new
  BY DEF Stamped, named, paid
<1> HIDE DEF new
<1> QED BY <1>3, <1>4, <1>5, <1>6

(* A refilter judges the row by its full text, and by the pay it states if *)
(* the row has none.                                                       *)
LEMMA RestampedFacts ==
  ASSUME NEW row, RowShape(row), NEW c \in Configs
  PROVE  LET new  == Restamped(row, c)
             said == stated_monthly_pay_inr(Text(row))
         IN
         /\ Text(row) \in Texts
         /\ new.title = row.title /\ new.description = Text(row)
         /\ new.location = row.location /\ new.is_remote = row.is_remote
         /\ new.is_internship = (InternWord \in row.title)
         /\ new.pay = IF ~row.pay.parsed /\ said # {} THEN Monthly(said, said) ELSE row.pay
         /\ new.bucket = salary_bucket(new, c)
<1> DEFINE said == stated_monthly_pay_inr(Text(row))
           named == [row EXCEPT !.description = Text(row),
                                !.is_internship = detect_internship(row.title)]
           paid == IF salary_bucket(named, c) = "unknown" /\ said # {}
                   THEN [named EXCEPT !.pay = Monthly(said, said)] ELSE named
           new == [paid EXCEPT !.bucket = salary_bucket(paid, c)]
<1>1. DOMAIN row = {"title", "description", "location", "is_remote", "pay", "is_internship",
                    "bucket", "full_description", "deleted", "flagged"}
  BY DEF RowShape
<1>2. /\ named.title = row.title /\ named.description = Text(row)
      /\ named.location = row.location /\ named.is_remote = row.is_remote
      /\ named.pay = row.pay /\ named.is_internship = (InternWord \in row.title)
      /\ DOMAIN named = DOMAIN row
  BY <1>1 DEF detect_internship
<1>3. salary_bucket(named, c) = "unknown" <=> ~row.pay.parsed
  <2>1. row.pay.parsed => representative_inr(row.pay) # {}
    BY DEF RowShape, PayShape, representative_inr
  <2> QED BY <1>2, <2>1 DEF salary_bucket
<1> HIDE DEF named
<1>4. /\ paid.title = row.title /\ paid.description = Text(row)
      /\ paid.location = row.location /\ paid.is_remote = row.is_remote
      /\ paid.pay = IF ~row.pay.parsed /\ said # {} THEN Monthly(said, said) ELSE row.pay
      /\ paid.is_internship = (InternWord \in row.title)
      /\ DOMAIN paid = DOMAIN row
  BY <1>1, <1>2, <1>3
<1>5. Restamped(row, c) = new
  BY <1>2 DEF Restamped, named
<1> HIDE DEF paid
<1>6. /\ new.title = row.title /\ new.description = Text(row)
      /\ new.location = row.location /\ new.is_remote = row.is_remote
      /\ new.pay = paid.pay /\ new.is_internship = (InternWord \in row.title)
      /\ new.bucket = salary_bucket(paid, c)
  BY <1>1, <1>4
<1>7. salary_bucket(paid, c) = salary_bucket(new, c)
  BY <1>4, <1>6 DEF salary_bucket, floor_of
<1>8. Text(row) \in Texts
  BY DEF Text, RowShape
<1> HIDE DEF new
<1> QED BY <1>4, <1>5, <1>6, <1>7, <1>8

Passes(row, c) == score_and_filter(Restamped(row, c), c)

(* What the gates let through is what the configuration promises. *)
LEMMA PassesAcceptable ==
  ASSUME NEW row, RowShape(row), NEW c \in Configs, Passes(row, c)
  PROVE  Acceptable(row, c)
<1> DEFINE new == Restamped(row, c)
           text == Text(row)
           words == row.title \cup text.words
           intern == InternWord \in row.title
           least == IF intern THEN c.min_internship
                    ELSE IF row.is_remote = {TRUE} THEN c.min_remote ELSE c.min_in_office
           said == stated_monthly_pay_inr(text)
<1>1. /\ text \in Texts
      /\ new.title = row.title /\ new.description = text
      /\ new.location = row.location /\ new.is_remote = row.is_remote
      /\ new.is_internship = intern
      /\ new.pay = IF ~row.pay.parsed /\ said # {} THEN Monthly(said, said) ELSE row.pay
      /\ new.bucket = salary_bucket(new, c)
  BY RestampedFacts
<1>2. /\ ~hard_drop(new, c)
      /\ new.bucket # "fail"
      /\ new.bucket = "unknown" => c.on_missing = "flag"
  BY DEF Passes, score_and_filter
<1>3. Figures(text.years) /\ internship_months(text) \subseteq Nat
  BY <1>1, IngestAssumption, StatedMonths
<1>4. c.max_experience_years \in Nat /\ c.max_internship_months \in Nat
  BY IngestAssumption
<1>5. (TRUE \in row.is_remote) <=> row.is_remote = {TRUE}
  BY DEF RowShape, Flags
<1> HIDE DEF new
<1>6. row.title \cap c.exclude = {} /\ (c.must_have = {} \/ words \cap c.must_have # {})
  BY <1>1, <1>2 DEF hard_drop
<1>7. \A v \in KnownPay(row) : v >= least
  <2>1. new.pay.parsed /\ representative_inr(new.pay) # {} =>
          \A v \in representative_inr(new.pay) : v >= floor_of(new, c)
    BY <1>1, <1>2 DEF salary_bucket
  <2>2. floor_of(new, c) = least
    BY <1>1, <1>5 DEF floor_of
  <2>3. CASE row.pay.parsed
    <3>1. KnownPay(row) = representative_inr(row.pay) /\ new.pay = row.pay
      BY <1>1, <2>3 DEF KnownPay
    <3> QED BY <2>1, <2>2, <2>3, <3>1
  <2>4. CASE ~row.pay.parsed /\ said # {}
    <3>1. KnownPay(row) = said /\ new.pay = Monthly(said, said)
      BY <1>1, <2>4 DEF KnownPay
    <3>2. Monthly(said, said).parsed /\ representative_inr(Monthly(said, said)) = said
      BY <2>4 DEF Monthly, Pay, representative_inr
    <3> QED BY <2>1, <2>2, <2>4, <3>1, <3>2
  <2>5. CASE ~row.pay.parsed /\ said = {}
    BY <2>5 DEF KnownPay
  <2> QED BY <2>3, <2>4, <2>5
<1>8. c.on_missing = "drop" => KnownPay(row) # {}
  <2>1. SUFFICES ASSUME KnownPay(row) = {} PROVE c.on_missing = "flag"
    OBVIOUS
  <2>2. row.pay.parsed => representative_inr(row.pay) # {}
    BY DEF RowShape, PayShape, representative_inr
  <2>3. ~row.pay.parsed /\ said = {}
    BY <2>1, <2>2 DEF KnownPay
  <2>4. new.bucket = "unknown"
    BY <1>1, <2>3 DEF salary_bucket
  <2> QED BY <1>2, <2>4
<1>9. intern /\ c.max_internship_months > 0 =>
        \A m \in internship_months(text) : m <= c.max_internship_months
  <2>1. intern /\ c.max_internship_months > 0 =>
          \A m \in internship_months(text) : ~(m > c.max_internship_months)
    BY <1>1, <1>2 DEF hard_drop
  <2> QED BY <2>1, <1>3, <1>4
<1>10. ~intern /\ c.max_experience_years > 0 =>
         \A y \in text.years : y <= c.max_experience_years
  <2>1. ~intern /\ c.max_experience_years > 0 =>
          \A y \in Optional(text.years) : ~(y > c.max_experience_years)
    BY <1>1, <1>2 DEF hard_drop, required_years
  <2>2. text.years # {} => /\ Optional(text.years) = {Largest(text.years)}
                           /\ Largest(text.years) \in Nat
                           /\ \A y \in text.years : y \in Nat /\ y <= Largest(text.years)
    BY <1>3, OptionalFacts, LargestFacts DEF Figures
  <2>3. ASSUME NEW y \in text.years, ~intern, c.max_experience_years > 0
        PROVE  y <= c.max_experience_years
    <3>1. /\ Largest(text.years) \in Nat /\ y \in Nat /\ y <= Largest(text.years)
          /\ ~(Largest(text.years) > c.max_experience_years)
      BY <2>1, <2>2, <2>3
    <3> QED BY <3>1, <1>4
  <2> QED BY <2>3
<1>11. \/ row.location \subseteq {} \/ row.location \cap c.locations # {}
       \/ (row.is_remote = {TRUE} /\ c.remote_preferred)
  BY <1>1, <1>2, <1>5 DEF hard_drop, location_ok
<1> QED BY <1>6, <1>7, <1>8, <1>9, <1>10, <1>11 DEF Acceptable

(* A job of a wanted role and skill of which nothing else is known passes. *)
LEMMA QuietPasses ==
  ASSUME NEW job, NEW c,
         job.title \cap c.exclude = {}, job.title \cap c.roles # {},
         job.title \cap c.must_have # {}, ~c.require_level, c.on_missing = "flag",
         job.location = {}, job.bucket = "unknown",
         job.description \in Texts, ~job.description.unpaid,
         job.description.years = {}, job.description.spans = {},
         job.description.programs = {}
  PROVE  score_and_filter(job, c)
<1>1. required_years(job.description) = {} /\ internship_months(job.description) = {}
  BY StatedMonths DEF required_years, Optional
<1>2. ~Unpaid(job) /\ location_ok(job, c)
  BY DEF Unpaid, says_unpaid, location_ok
<1>3. ~hard_drop(job, c)
  BY <1>1, <1>2 DEF hard_drop
<1> QED BY <1>3 DEF score_and_filter

(* An offer of which SilenceIsKept says that it is in the feed. *)
Wanted(o, c) ==
  /\ Silent(o)
  /\ c.on_missing = "flag" /\ ~c.require_level
  /\ o[1].title \cap c.exclude = {}
  /\ o[1].adapter = "internshala" => InternWord \notin c.exclude
  /\ o[1].title \cap c.roles # {}
  /\ o[1].title \cap c.must_have # {}

(* A row, or a stamped job, that reads as a silent offer. *)
ReadsAs(row, o) ==
  /\ row.title \in {o[1].title, o[1].title \cup {InternWord}}
  /\ row.title = o[1].title \/ o[1].adapter = "internshala"
  /\ row.location = {}
  /\ row.description \in {o[2], NoText}
  /\ row.pay.min = {} /\ row.pay.max = {}

(* Such a row passes the gates again, as long as it has no other text. *)
LEMMA SilentRowPasses ==
  ASSUME NEW o \in Offers, NEW c \in Configs, Wanted(o, c),
         NEW row, RowShape(row), ReadsAs(row, o), row.full_description = {}
  PROVE  Passes(row, c)
<1> DEFINE new == Restamped(row, c)
           said == stated_monthly_pay_inr(Text(row))
<1>1. /\ Text(row) \in Texts
      /\ new.title = row.title /\ new.description = Text(row)
      /\ new.location = row.location
      /\ new.pay = IF ~row.pay.parsed /\ said # {} THEN Monthly(said, said) ELSE row.pay
      /\ new.bucket = salary_bucket(new, c)
  BY RestampedFacts
<1>2. Text(row) = row.description
  BY DEF Text
<1>3. /\ ~Text(row).unpaid /\ Text(row).amounts = {} /\ Text(row).years = {}
      /\ Text(row).spans = {} /\ Text(row).programs = {}
  BY <1>2, IngestAssumption DEF Wanted, Silent, ReadsAs
<1>4. said = {}
  BY <1>1, <1>3, StatedPay
<1>5. new.bucket = "unknown"
  BY <1>1, <1>4 DEF ReadsAs, salary_bucket, representative_inr
<1>6. /\ row.title \cap c.exclude = {} /\ row.title \cap c.roles # {}
      /\ row.title \cap c.must_have # {} /\ row.location = {}
  BY DEF Wanted, ReadsAs
<1> HIDE DEF new, said
<1>7. score_and_filter(new, c)
  BY <1>1, <1>3, <1>5, <1>6, QuietPasses DEF Wanted
<1> QED BY <1>7 DEF Passes, new

(* The job the runner makes of an offer. *)
Listing(o, c) == Stamped(Adapted(o[1], o[2], c), c)

(* It is stored under the uid of its posting, with honest pay, and if it is*)
(* a wanted silent one it reads as such and passes.                      *)
LEMMA ListingFacts ==
  ASSUME NEW o \in Offers, NEW c \in Configs
  PROVE  LET job == Listing(o, c) IN
         /\ job.job_uid = UidOf(o[1])
         /\ RowShape(Columns(job))
         /\ job.pay.parsed => job.pay.min \cup job.pay.max \subseteq Honest(o[1])
         /\ Wanted(o, c) => ReadsAs(job, o) /\ score_and_filter(job, c)
<1> DEFINE p == o[1]
           t == o[2]
           raw == Adapted(p, t, c)
           job == Listing(o, c)
<1>1. p \in Postings /\ t \in Texts
  BY DEF Postings, Texts
<1> HIDE DEF p, t
<1>2. Maps(p, t, c, raw)
  BY <1>1, AdaptedMaps
<1> HIDE DEF raw
<1>3. JobShape(raw) /\ raw.description \in Texts /\ PayShape(raw.pay) /\ raw.is_remote \in Flags
  BY <1>1, <1>2 DEF Maps, JobShape, Texts
<1>4. /\ job.title = raw.title /\ job.description = raw.description
      /\ job.location = raw.location /\ job.job_uid = raw.job_uid
      /\ job.is_remote = raw.is_remote
      /\ job.pay = convert_bounds(raw.pay, c)
      /\ job.is_internship = (InternWord \in raw.title)
      /\ representative_inr(job.pay) = {} => job.bucket = "unknown"
  BY <1>3, StampedFacts DEF Listing, raw, p, t
<1>5. /\ PayShape(job.pay)
      /\ job.pay.parsed => /\ job.pay.currency = {"INR"} /\ job.pay.period = {"month"}
                           /\ job.pay.min = InInr(raw.pay.min, raw.pay, c)
                           /\ job.pay.max = InInr(raw.pay.max, raw.pay, c)
                           /\ Known(raw.pay, c)
      /\ raw.pay.min = {} /\ raw.pay.max = {} => job.pay.min = {} /\ job.pay.max = {}
  <2>1. ~Known(raw.pay, c) => ~convert_bounds(raw.pay, c).parsed
    BY <1>3 DEF convert_bounds, PayShape
  <2> QED BY <1>3, <1>4, <2>1, ConvertBounds
<1> HIDE DEF job
<1>6. RowShape(Columns(job))
  BY <1>3, <1>4, <1>5 DEF RowShape, Columns
<1>7. job.pay.parsed => job.pay.min \cup job.pay.max \subseteq Honest(p)
  BY <1>2, <1>5 DEF Maps, Pays
<1>8. job.job_uid = UidOf(p)
  BY <1>2, <1>4 DEF Maps
<1>9. ASSUME Wanted(o, c)
      PROVE  ReadsAs(job, o) /\ score_and_filter(job, c)
  <2>1. /\ p.min = {} /\ p.max = {} /\ ~p.unpaid /\ ~t.unpaid /\ t.amounts = {}
        /\ t.setup = {} /\ p.location = {}
    BY <1>9 DEF Wanted, Silent, p, t
  <2>2. job.pay.min = {} /\ job.pay.max = {} /\ job.location = {}
    BY <1>2, <1>4, <1>5, <2>1 DEF Maps, Pays
  <2>3. ReadsAs(job, o)
    BY <1>2, <1>4, <2>2 DEF ReadsAs, Maps, p, t
  <2>4. job.bucket = "unknown"
    BY <1>4, <2>2 DEF representative_inr
  <2>5. /\ job.title \cap c.exclude = {} /\ job.title \cap c.roles # {}
        /\ job.title \cap c.must_have # {} /\ c.on_missing = "flag" /\ ~c.require_level
    BY <1>9, <2>3 DEF Wanted, ReadsAs
  <2>6. /\ job.description \in Texts /\ ~job.description.unpaid
        /\ job.description.years = {} /\ job.description.spans = {}
        /\ job.description.programs = {}
    BY <1>3, <1>4, <1>9, <2>3, IngestAssumption DEF ReadsAs, Wanted, Silent
  <2> QED BY <2>2, <2>3, <2>4, <2>5, <2>6, QuietPasses
<1> QED BY <1>6, <1>7, <1>8, <1>9 DEF job, p

----------------------------------------------------------------------------
(* The runs *)

RunState ==
  /\ saved \in Configs /\ cfg \in Configs /\ posting \in Postings
  /\ run \in {"idle", "fetched", "stored", "read", "done"}
  /\ runs \in 0..MaxRuns
  /\ offer \subseteq {o \in Offers : o[1] = posting}
  /\ \A o, q \in offer : o = q

StoredRows ==
  /\ DOMAIN rows \subseteq {UidOf(posting)}
  /\ \A u \in DOMAIN rows :
       /\ RowShape(rows[u])
       /\ rows[u].pay.parsed =>
            rows[u].pay.min \cup rows[u].pay.max \subseteq Honest(posting)

(* failing holds the rows to retire while they are being retired.          *)
Retiring ==
  /\ failing \subseteq DOMAIN rows /\ touched \subseteq DOMAIN rows
  /\ run # "read" => failing = {}

(* A row that nobody changed since it was judged passes, or is to go.      *)
Judged ==
  run \in {"read", "done"} =>
    \A u \in DOMAIN rows \ (touched \cup failing) :
      ~rows[u].deleted /\ ~rows[u].flagged => Passes(rows[u], cfg)

SilentStays ==
  run \in {"stored", "read", "done"} =>
    \A o \in offer :
      /\ Wanted(o, cfg)
      /\ \A u \in DOMAIN rows : rows[u].full_description = {}
      => \E u \in DOMAIN rows \ failing : ~rows[u].deleted /\ ReadsAs(rows[u], o)

IngestInv == RunState /\ StoredRows /\ Retiring /\ Judged /\ SilentStays

(* It holds of an empty table. *)
LEMMA InitIngest == IngestInit => IngestInv
<1> SUFFICES ASSUME IngestInit PROVE IngestInv
  OBVIOUS
<1>1. DOMAIN rows = {}
  BY DEF IngestInit
<1>2. RunState
  BY IngestAssumption DEF IngestInit, RunState
<1> QED BY <1>1, <1>2 DEF IngestInit, IngestInv, StoredRows, Retiring, Judged, SilentStays

(* Starting a run leaves the table. *)
LEMMA StartKeeps == IngestInv /\ StartRun => IngestInv'
<1> SUFFICES ASSUME IngestInv, StartRun PROVE IngestInv'
  OBVIOUS
<1> USE DEF IngestInv
<1>1. RunState'
  BY IngestAssumption DEF StartRun, RunState
<1>2. StoredRows'
  BY DEF StartRun, StoredRows
<1>3. Retiring' /\ Judged' /\ SilentStays'
  BY DEF StartRun, Retiring, Judged, SilentStays
<1> QED BY <1>1, <1>2, <1>3

(* Ingest stores what passes, under the uid of the posting. *)
LEMMA UpsertKeeps == IngestInv /\ filter_and_upsert => IngestInv'
<1> SUFFICES ASSUME IngestInv, filter_and_upsert PROVE IngestInv'
  OBVIOUS
<1> USE DEF IngestInv
<1> DEFINE jobs == {Listing(o, cfg) : o \in offer}
           kept == {job \in jobs : score_and_filter(job, cfg)}
           new == CHOOSE job \in kept : TRUE
<1>1. /\ run = "fetched" /\ run' = "stored"
      /\ UNCHANGED <<saved, cfg, offer, posting, failing, runs, touched>>
      /\ rows' = IF kept = {} THEN rows ELSE Upserted(new)
  BY DEF filter_and_upsert, Listing
<1>2. RunState'
  BY <1>1 DEF RunState
<1>3. failing' = {} /\ cfg \in Configs
  BY <1>1 DEF Retiring, RunState
<1>4. \A o \in offer : o \in Offers /\ o[1] = posting /\ \A q \in offer : q = o
  BY DEF RunState
<1>5. CASE kept = {}
  <2>1. rows' = rows
    BY <1>1, <1>5
  <2>2. \A o \in offer : ~Wanted(o, cfg)
    BY <1>3, <1>4, <1>5, ListingFacts
  <2>3. StoredRows' /\ Retiring' /\ Judged' /\ SilentStays'
    BY <1>1, <1>3, <2>1, <2>2 DEF StoredRows, Retiring, Judged, SilentStays
  <2> QED BY <1>2, <2>3
<1>6. CASE kept # {}
  <2>1. PICK o \in offer : new = Listing(o, cfg)
    BY <1>6
  <2> DEFINE uid == UidOf(posting)
             row == rows'[uid]
  <2>2. /\ new.job_uid = uid
        /\ RowShape(Columns(new))
        /\ new.pay.parsed => new.pay.min \cup new.pay.max \subseteq Honest(posting)
        /\ Wanted(o, cfg) => ReadsAs(new, o)
    BY <1>3, <1>4, <2>1, ListingFacts
  <2> HIDE DEF new, kept, jobs
  <2>3. rows' = Upserted(new)
    BY <1>1, <1>6
  <2>4. DOMAIN rows' = {uid}
    BY <2>2, <2>3 DEF Upserted, StoredRows
  <2>5. /\ RowShape(row)
        /\ row.title = new.title /\ row.description = new.description
        /\ row.location = new.location /\ row.pay = new.pay
        /\ ~row.deleted
    <3>1. CASE uid \notin DOMAIN rows
      <4>1. row = Columns(new)
        BY <2>2, <2>3, <3>1 DEF Upserted
      <4> QED BY <2>2, <4>1 DEF Columns
    <3>2. CASE uid \in DOMAIN rows
      <4>1. row = [Columns(new) EXCEPT !.full_description = rows[uid].full_description,
                                       !.flagged = rows[uid].flagged]
        BY <2>2, <2>3, <3>2 DEF Upserted
      <4>2. rows[uid].full_description \subseteq Texts /\ rows[uid].flagged \in BOOLEAN
        BY <3>2 DEF StoredRows, RowShape
      <4>3. /\ Columns(new).title = new.title /\ Columns(new).description = new.description
            /\ Columns(new).location = new.location /\ Columns(new).pay = new.pay
            /\ ~Columns(new).deleted
        BY DEF Columns
      <4> HIDE DEF row
      <4> QED BY <2>2, <4>1, <4>2, <4>3 DEF RowShape
    <3> QED BY <3>1, <3>2
  <2> HIDE DEF row
  <2>6. \A u \in DOMAIN rows' : rows'[u] = row
    BY <2>4 DEF row
  <2>7. StoredRows'
    BY <1>1, <2>2, <2>4, <2>5, <2>6 DEF StoredRows
  <2>8. Retiring' /\ Judged'
    BY <1>1, <1>3, <2>2, <2>3 DEF Retiring, Judged, Upserted
  <2>9. SilentStays'
    <3>1. Wanted(o, cfg) => ReadsAs(row, o)
      BY <2>2, <2>5 DEF ReadsAs
    <3>2. offer' = {o}
      BY <1>1, <1>4
    <3> QED BY <1>1, <1>3, <2>4, <2>5, <2>6, <3>1, <3>2 DEF SilentStays
  <2> QED BY <1>2, <2>7, <2>8, <2>9
<1> QED BY <1>5, <1>6

(* The refilter marks the unflagged rows that no longer pass. *)
LEMMA ReadKeeps == IngestInv /\ read_candidates => IngestInv'
<1> SUFFICES ASSUME IngestInv, read_candidates PROVE IngestInv'
  OBVIOUS
<1> USE DEF IngestInv
<1>1. /\ run = "stored" /\ run' = "read"
      /\ UNCHANGED <<saved, cfg, offer, posting, rows, runs>>
      /\ touched' = {}
      /\ failing' = {u \in DOMAIN rows : /\ ~rows[u].deleted /\ ~rows[u].flagged
                                         /\ ~Passes(rows[u], cfg)}
  BY DEF read_candidates, refilter_candidates, Passes
<1>2. RunState' /\ StoredRows'
  BY <1>1 DEF RunState, StoredRows
<1>3. Retiring' /\ Judged'
  BY <1>1 DEF Retiring, Judged
<1>4. SilentStays'
  <2>1. SUFFICES ASSUME NEW o \in offer, Wanted(o, cfg),
                        \A u \in DOMAIN rows : rows[u].full_description = {}
                 PROVE  \E u \in DOMAIN rows \ failing' : ~rows[u].deleted /\ ReadsAs(rows[u], o)
    BY <1>1 DEF SilentStays
  <2>2. PICK u \in DOMAIN rows : ~rows[u].deleted /\ ReadsAs(rows[u], o)
    BY <1>1, <2>1 DEF SilentStays
  <2>3. Passes(rows[u], cfg)
    BY <2>1, <2>2, SilentRowPasses DEF RunState, StoredRows
  <2> QED BY <1>1, <2>2, <2>3
<1> QED BY <1>2, <1>3, <1>4

(* Retiring deletes the rows that fail and were not flagged meanwhile.     *)
LEMMA RetireKeeps == IngestInv /\ retire_jobs => IngestInv'
<1> SUFFICES ASSUME IngestInv, retire_jobs PROVE IngestInv'
  OBVIOUS
<1> USE DEF IngestInv
<1>1. /\ run = "read" /\ run' = "done" /\ failing' = {}
      /\ UNCHANGED <<saved, cfg, offer, posting, runs, touched>>
      /\ DOMAIN rows' = DOMAIN rows
      /\ \A u \in DOMAIN rows :
           rows'[u] = IF u \in failing /\ ~rows[u].flagged
                      THEN [rows[u] EXCEPT !.deleted = TRUE] ELSE rows[u]
  BY DEF retire_jobs
<1>2. ASSUME NEW u \in DOMAIN rows, u \in failing, ~rows[u].flagged
      PROVE  /\ RowShape(rows'[u]) /\ rows'[u].deleted
             /\ rows'[u].pay = rows[u].pay
             /\ rows'[u].full_description = rows[u].full_description
  <2>1. RowShape(rows[u]) /\ rows'[u] = [rows[u] EXCEPT !.deleted = TRUE]
    BY <1>1, <1>2 DEF StoredRows
  <2> QED BY <2>1 DEF RowShape
<1>3. ASSUME NEW u \in DOMAIN rows, ~(u \in failing /\ ~rows[u].flagged)
      PROVE  rows'[u] = rows[u]
  BY <1>1, <1>3
<1>4. RunState'
  BY <1>1 DEF RunState
<1>5. StoredRows'
  BY <1>1, <1>2, <1>3 DEF StoredRows
<1>6. Retiring'
  BY <1>1 DEF Retiring
<1>7. Judged'
  BY <1>1, <1>2, <1>3 DEF Judged
<1>8. SilentStays'
  <2>1. SUFFICES ASSUME NEW o \in offer, Wanted(o, cfg),
                        \A u \in DOMAIN rows : rows[u].full_description = {}
                 PROVE  \E u \in DOMAIN rows : ~rows'[u].deleted /\ ReadsAs(rows'[u], o)
    <3>1. \A u \in DOMAIN rows : rows'[u].full_description = rows[u].full_description
      BY <1>2, <1>3
    <3> QED BY <1>1, <3>1 DEF SilentStays
  <2>2. PICK u \in DOMAIN rows \ failing : ~rows[u].deleted /\ ReadsAs(rows[u], o)
    BY <1>1, <2>1 DEF SilentStays
  <2> QED BY <1>3, <2>2
<1> QED BY <1>4, <1>5, <1>6, <1>7, <1>8

(* A click changes a flag of a row, and makes the row the user's. *)
LEMMA ToggleKeeps == IngestInv /\ ToggleFlag => IngestInv'
<1> SUFFICES ASSUME IngestInv, ToggleFlag PROVE IngestInv'
  OBVIOUS
<1> USE DEF IngestInv
<1>1. UNCHANGED <<saved, cfg, offer, posting, run, failing, runs>>
  BY DEF ToggleFlag
<1>2. PICK u \in DOMAIN rows : /\ rows' = [rows EXCEPT ![u].flagged = ~@]
                               /\ touched' = touched \cup {u}
  BY DEF ToggleFlag
<1>3. /\ DOMAIN rows' = DOMAIN rows
      /\ \A v \in DOMAIN rows \ {u} : rows'[v] = rows[v]
      /\ rows'[u] = [rows[u] EXCEPT !.flagged = ~@]
  BY <1>2
<1>4. RowShape(rows[u])
  BY DEF StoredRows
<1>5. /\ RowShape(rows'[u])
      /\ rows'[u].pay = rows[u].pay /\ rows'[u].deleted = rows[u].deleted
      /\ rows'[u].title = rows[u].title /\ rows'[u].location = rows[u].location
      /\ rows'[u].description = rows[u].description
      /\ rows'[u].full_description = rows[u].full_description
  BY <1>3, <1>4 DEF RowShape
<1>6. RunState' /\ Retiring'
  BY <1>1, <1>2, <1>3 DEF RunState, Retiring
<1>7. StoredRows'
  BY <1>1, <1>3, <1>5 DEF StoredRows
<1>8. Judged'
  BY <1>1, <1>2, <1>3 DEF Judged
<1>9. SilentStays'
  <2>1. \A v \in DOMAIN rows : /\ rows'[v].full_description = rows[v].full_description
                               /\ rows'[v].deleted = rows[v].deleted
                               /\ \A o \in offer : ReadsAs(rows[v], o) => ReadsAs(rows'[v], o)
    BY <1>3, <1>5 DEF ReadsAs
  <2> QED BY <1>1, <1>3, <2>1 DEF SilentStays
<1> QED BY <1>6, <1>7, <1>8, <1>9

(* A cached text is a text, and makes the row the user's. *)
LEMMA CacheKeeps == IngestInv /\ CacheText => IngestInv'
<1> SUFFICES ASSUME IngestInv, CacheText PROVE IngestInv'
  OBVIOUS
<1> USE DEF IngestInv
<1>1. UNCHANGED <<saved, cfg, offer, posting, run, failing, runs>>
  BY DEF CacheText
<1>2. PICK u \in DOMAIN rows, o \in Offers :
        /\ rows' = [rows EXCEPT ![u].full_description = {o[2]}]
        /\ touched' = touched \cup {u}
  BY DEF CacheText
<1>3. /\ DOMAIN rows' = DOMAIN rows
      /\ \A v \in DOMAIN rows \ {u} : rows'[v] = rows[v]
      /\ rows'[u] = [rows[u] EXCEPT !.full_description = {o[2]}]
  BY <1>2
<1>4. RowShape(rows[u]) /\ o[2] \in Texts
  BY DEF StoredRows, Texts
<1>5. /\ RowShape(rows'[u])
      /\ rows'[u].pay = rows[u].pay
      /\ rows'[u].full_description # {}
  BY <1>3, <1>4 DEF RowShape
<1>6. RunState' /\ Retiring'
  BY <1>1, <1>2, <1>3 DEF RunState, Retiring
<1>7. StoredRows'
  BY <1>1, <1>3, <1>5 DEF StoredRows
<1>8. Judged'
  BY <1>1, <1>2, <1>3 DEF Judged
<1>9. SilentStays'
  BY <1>1, <1>3, <1>5 DEF SilentStays
<1> QED BY <1>6, <1>7, <1>8, <1>9

(* Every step keeps the invariant. *)
LEMMA NextIngest == IngestInv /\ [IngestNext]_ingestVars => IngestInv'
<1> SUFFICES ASSUME IngestInv, [IngestNext]_ingestVars PROVE IngestInv'
  OBVIOUS
<1>1. CASE SaveConfig
  BY <1>1 DEF SaveConfig, IngestInv, RunState, StoredRows, Retiring, Judged, SilentStays
<1>2. CASE UNCHANGED ingestVars
  BY <1>2 DEF ingestVars, IngestInv, RunState, StoredRows, Retiring, Judged, SilentStays
<1> QED BY <1>1, <1>2, StartKeeps, UpsertKeeps, ReadKeeps, RetireKeeps, ToggleKeeps, CacheKeeps
        DEF IngestNext

(* The state of a run and its table, for any postings and configurations.  *)
THEOREM IngestInvHolds == IngestSpec => []IngestInv
<1>1. IngestInit => IngestInv
  BY InitIngest
<1>2. IngestInv /\ [IngestNext]_ingestVars => IngestInv'
  BY NextIngest
<1> QED BY <1>1, <1>2, PTL DEF IngestSpec

(* Stored pay that counts as parsed is in rupees a month, and what is being*)
(* retired is in the table.                                                *)
LEMMA IngestTypes == IngestInv => IngestTypeOK
<1> SUFFICES ASSUME IngestInv PROVE IngestTypeOK
  OBVIOUS
<1>1. offer \subseteq Offers
  BY DEF IngestInv, RunState
<1>2. \A u \in DOMAIN rows :
        /\ rows[u].deleted \in BOOLEAN
        /\ rows[u].flagged \in BOOLEAN
        /\ rows[u].full_description \subseteq Texts
        /\ rows[u].pay.parsed =>
             rows[u].pay.currency = {"INR"} /\ rows[u].pay.period = {"month"}
  BY DEF IngestInv, StoredRows, RowShape
<1> QED BY <1>1, <1>2 DEF IngestTypeOK, IngestInv, RunState, Retiring

(* Type correctness of the ingest: pay in rupees a month, rows with a text *)
(* of the postings'.                                                       *)
THEOREM IngestTypeHolds == IngestSpec => []IngestTypeOK
BY IngestTypes, IngestInvHolds, PTL

(* FeedMatchesConfig, of runner.py's ingest and refilter: whatever the user*)
(* saved before the run and whatever the sites edited, a visible unflagged *)
(* row is acceptable when the run is over, unless it was changed meanwhile.*)
THEOREM FeedMatchesConfigHolds == IngestSpec => []FeedMatchesConfig
<1>1. IngestInv => FeedMatchesConfig
  <2> SUFFICES ASSUME IngestInv, run = "done", NEW u \in DOMAIN rows \ touched,
                      Visible(u), ~rows[u].flagged
               PROVE  Acceptable(rows[u], cfg)
    BY DEF FeedMatchesConfig
  <2>1. Passes(rows[u], cfg)
    BY DEF IngestInv, Judged, Retiring, Visible
  <2> QED BY <2>1, PassesAcceptable DEF IngestInv, StoredRows, RunState
<1> QED BY <1>1, IngestInvHolds, PTL

(* TextDoesNotRekey, of the adapters' hashing: no text ever gives a posting*)
(* a second job_uid.                                                       *)
THEOREM TextDoesNotRekeyHolds == IngestSpec => []TextDoesNotRekey
<1>1. IngestInv => TextDoesNotRekey
  <2> SUFFICES ASSUME IngestInv PROVE TextDoesNotRekey
    OBVIOUS
  <2>1. DOMAIN rows = {} \/ DOMAIN rows = {UidOf(posting)}
    BY DEF IngestInv, StoredRows
  <2>2. Cardinality(DOMAIN rows) \in {0, 1}
    BY <2>1, FS_EmptySet, FS_Singleton
  <2> QED BY <2>2 DEF TextDoesNotRekey
<1> QED BY <1>1, IngestInvHolds, PTL

(* SilenceIsKept, of the gates: a wanted posting that says nothing of pay, *)
(* place, experience and duration is in the feed after the run.            *)
THEOREM SilenceIsKeptHolds == IngestSpec => []SilenceIsKept
<1>1. IngestInv => SilenceIsKept
  <2> SUFFICES ASSUME IngestInv, run = "done", cfg.on_missing = "flag", ~cfg.require_level,
                      NEW o \in offer, Silent(o),
                      o[1].title \cap cfg.exclude = {},
                      o[1].adapter = "internshala" => InternWord \notin cfg.exclude,
                      o[1].title \cap cfg.roles # {}, o[1].title \cap cfg.must_have # {},
                      \A u \in DOMAIN rows : rows[u].full_description = {}
               PROVE  \E u \in DOMAIN rows : Visible(u)
    BY DEF SilenceIsKept
  <2>1. Wanted(o, cfg)
    BY DEF Wanted
  <2> QED BY <2>1 DEF IngestInv, SilentStays, Visible
<1> QED BY <1>1, IngestInvHolds, PTL

(* PayConvertedOnce, of the two conversions: a stored figure is one of the *)
(* site's own converted once, or one its text states.                      *)
THEOREM PayConvertedOnceHolds == IngestSpec => []PayConvertedOnce
<1>1. IngestInv => PayConvertedOnce
  BY DEF IngestInv, StoredRows, PayConvertedOnce, Honest
<1> QED BY <1>1, IngestInvHolds, PTL
=============================================================================

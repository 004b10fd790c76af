------------------------------ MODULE MCStages ------------------------------
(***************************************************************************)
(* An instance of the four stages of a run around its database work: one   *)
(* source's fetch, one posting's way into the feed, the closure checks of  *)
(* one site pair, and the digests.  They meet only in the rows, which      *)
(* RunCycle models, so a behaviour follows one stage while the others rest.*)
(***************************************************************************)
EXTENDS SourceFetch, Ingest, ClosureSweep, Digest

VARIABLE stage

stageVars == <<stage, fetchVars, ingestVars, sweepVars, digestVars>>

----------------------------------------------------------------------------
(* Fetch *)

FeedsCase == {<<>>, <<1>>, <<2, 1>>, <<3, 2, 1>>, <<4, 3, 2, 1>>}

WalksCase ==
  [a \in Enabled |-> CASE a = "jobspy" -> <<1, 1, 2>>
                       [] a \in Boards -> <<1, 2>>
                       [] a \in Paged  -> <<1, 1>>
                       [] OTHER        -> <<1>>]

----------------------------------------------------------------------------
(* Ingest *)

Silence ==
  [words |-> {}, amounts |-> {}, unpaid |-> FALSE, perTask |-> FALSE, years |-> {},
   spans |-> {}, programs |-> {}, says |-> {}, setup |-> {}]

TextCases ==
  {Silence,
   [Silence EXCEPT !.unpaid = TRUE, !.amounts = {30}],
   [Silence EXCEPT !.amounts = {5, 1}, !.perTask = TRUE],
   [Silence EXCEPT !.years = {1, 5}, !.says = {"remote"}],
   [Silence EXCEPT !.programs = {6, 36}, !.says = {"remote", "hybrid"}],
   [Silence EXCEPT !.setup = {[place |-> {"india"}, says |-> {"hybrid"}]}]}

Plain(a) ==
  [adapter |-> a, title |-> {"dev", "java"}, location |-> {}, remote |-> {},
   min |-> {}, max |-> {}, currency |-> {}, period |-> {},
   unpaid |-> FALSE, disclosed |-> TRUE]

Intern(p) == [p EXCEPT !.title = {"intern", "java"}]

Paid(p, min, max, currency, period) ==
  [p EXCEPT !.min = min, !.max = max, !.currency = {currency}, !.period = {period}]

FieldCases(p) ==
  {[p EXCEPT !.title = {"dev", "java", "sales"}],
   [p EXCEPT !.location = {"india"}, !.remote = {FALSE}],
   [p EXCEPT !.location = {"us"}, !.remote = {TRUE}],
   Paid(p, {5}, {}, "INR", "month"),
   Paid(Intern(p), {5}, {12}, "INR", "month"),
   Paid(p, {24}, {240}, "USD", "year"),
   [Paid(p, {}, {1}, "USD", "hour") EXCEPT !.disclosed = FALSE],
   Paid(p, {40}, {}, "PKR", "month"),
   [Intern(p) EXCEPT !.unpaid = TRUE]}

OfferCases ==
  (UNION {FieldCases(Plain(a)) \X {Silence} : a \in Enabled})
  \cup (UNION {{Plain(a), Intern(Plain(a))} \X {Silence, [Silence EXCEPT !.unpaid = TRUE]}
                 : a \in Enabled})
  \cup {Plain("adzuna"), Intern(Plain("adzuna"))} \X TextCases
  \cup {Plain("jobspy")} \X {t \in TextCases : t.amounts # {}}

Config ==
  [exclude |-> {"sales"}, require_level |-> FALSE, level_required |-> {"intern"},
   roles |-> {"dev"}, must_have |-> {"java"}, max_experience_years |-> 2,
   max_internship_months |-> 4, remote_preferred |-> TRUE, locations |-> {"india"},
   rates |-> [c \in {"INR", "USD"} |-> IF c = "INR" THEN 1 ELSE 2],
   min_internship |-> 10, min_remote |-> 25, min_in_office |-> 20, on_missing |-> "flag"]

ConfigCases ==
  {Config,
   [Config EXCEPT !.min_internship = 0, !.min_remote = 4, !.max_internship_months = 6,
                  !.max_experience_years = 0, !.on_missing = "drop",
                  !.remote_preferred = FALSE]}

RestCase ==
  [p \in {"year", "month", "hour"} |->
     CASE p = "year" -> <<1, 12>> [] p = "month" -> <<1, 1>> [] OTHER -> <<173, 1>>]

----------------------------------------------------------------------------
(* Sweep and digest *)

SiteCase == [r \in Rows |-> IF r = "c" THEN "internshala" ELSE "jobspy_linkedin"]

SettingCases ==
  {[enabled |-> Channels, token |-> TRUE, recipient |-> TRUE],
   [enabled |-> {"telegram", "rss"}, token |-> FALSE, recipient |-> FALSE]}

----------------------------------------------------------------------------
(* The values a stage rests at are values of the instance. *)
ASSUME RestAssumption ==
  /\ "himalayas" \in Enabled
  /\ Config \in Configs
  /\ Plain("jobicy") \in Postings
  /\ [enabled |-> Channels, token |-> TRUE, recipient |-> TRUE] \in Settings

FetchRests ==
  /\ source = "himalayas" /\ dark = TRUE /\ at = "done" /\ feed = <<>> /\ page = 1
  /\ attempt = 0 /\ read = {} /\ ended = <<>> /\ items = {} /\ answered = {}
  /\ outcome = [u \in UnitsOf(source) |-> "failed"] /\ owed = {} /\ shrunk = FALSE

IngestRests ==
  /\ saved = Config /\ cfg = Config /\ posting = Plain("jobicy") /\ offer = {}
  /\ rows = [u \in {} |-> NoPay] /\ run = "idle" /\ failing = {} /\ runs = 0
  /\ touched = {}

SweepRests ==
  /\ visible = {} /\ flagged = {} /\ shows = [r \in Rows |-> "open"]
  /\ link = [r \in Rows |-> 1] /\ order = <<>> /\ since = [r \in Rows |-> 0]
  /\ sweeping = FALSE /\ pending = <<>> /\ asked = NoRow /\ blocked = {}
  /\ checks = 0 /\ modal = NoModal /\ trouble = 0

DigestRests ==
  /\ status = [j \in Jobs |-> "absent"] /\ seen = [j \in Jobs |-> 0] /\ hidden = {}
  /\ cycle = 0 /\ todo = <<>> /\ step = "idle"
  /\ set = [enabled |-> Channels, token |-> TRUE, recipient |-> TRUE]
  /\ newJobs = {} /\ recent = <<>> /\ tmp = NoFile /\ feed_xml = NoFile
  /\ chat = {} /\ mail = {} /\ tried = {}

StagesInit ==
  \/ stage = "fetch" /\ FetchInit /\ IngestRests /\ SweepRests /\ DigestRests
  \/ stage = "ingest" /\ FetchRests /\ IngestInit /\ SweepRests /\ DigestRests
  \/ stage = "sweep" /\ FetchRests /\ IngestRests /\ SweepInit /\ DigestRests
  \/ stage = "digest" /\ FetchRests /\ IngestRests /\ SweepRests /\ DigestInit

(* The state of every stage is well-formed. *)
StagesTypeOK == FetchTypeOK /\ IngestTypeOK /\ SweepTypeOK /\ DigestTypeOK

StagesNext ==
  /\ UNCHANGED stage
  /\ \/ /\ stage = "fetch"
        /\ FetchNext
        /\ UNCHANGED <<ingestVars, sweepVars, digestVars>>
     \/ /\ stage = "ingest"
        /\ IngestNext
        /\ UNCHANGED <<fetchVars, sweepVars, digestVars>>
     \/ /\ stage = "sweep"
        /\ SweepNext
        /\ UNCHANGED <<fetchVars, ingestVars, digestVars>>
     \/ /\ stage = "digest"
        /\ DigestNext
        /\ UNCHANGED <<fetchVars, ingestVars, sweepVars>>

(* A source's own thread goes on, and a sweep is driven by the runs.       *)
StagesSpec ==
  /\ StagesInit /\ [][StagesNext]_stageVars
  /\ WF_stageVars(stage = "fetch" /\ FetchStep /\ UNCHANGED <<stage, ingestVars, sweepVars, digestVars>>)
  /\ WF_stageVars(stage = "sweep" /\ SweepStep /\ UNCHANGED <<stage, fetchVars, ingestVars, digestVars>>)
=============================================================================

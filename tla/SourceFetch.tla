---------------------------- MODULE SourceFetch ----------------------------
(***************************************************************************)
(* One source's fetch (sources/): retries and paging (_http.py), the walks *)
(* of each adapter, and the SourceResult it hands to the cycle (base.py).  *)
(*                                                                         *)
(* An adapter makes one walk per query, slug, (opportunity, term), company *)
(* or (site, term), and reports an outcome per unit: itself, a company of  *)
(* an ATS, or a JobSpy site.  A site's answer to a walk is its feed, newest*)
(* first, which the site may change between two pages.  Sources are        *)
(* fetched without regard to each other, so the model fetches one.         *)
(*                                                                         *)
(* Abstractions.  An ad stands for one posting with its fields; those the  *)
(* adapters drop by a field are members of Old, Blank or OffType, those a  *)
(* site leaves out of a page are members of Hidden.  Limits on the number  *)
(* of results of one request are all PageSize.  jobspy is external: a call *)
(* lists the newest ads or raises.                                         *)
(***************************************************************************)
EXTENDS Integers, Sequences

CONSTANTS
  Ads,
  Feeds,        \* what a walk may find listed when it begins
  Old,          \* posted before the adapter's cutoff, or registration over
  Blank,        \* without a title, company or link
  OffType,      \* not of the configured job type
  Hidden,       \* filtered by Unstop after paging, or unlisted at Ashby
  Enabled,      \* the adapters build_enabled_sources may build
  WalksOf,      \* the walks of an adapter: a sequence of the units they serve
  PageSize,     \* _PER_PAGE, _CARDS_PER_PAGE, _RESULTS_PER_PAGE, _RESULT_LIMIT
  MaxPages,     \* max_pages, or the adapter's own cap
  MaxRetries    \* DEFAULT_MAX_RETRIES

Boards == {"greenhouse", "lever", "ashby", "smartrecruiters"}
Paged == {"adzuna", "jooble", "internshala", "unstop"}
Adapters == {"jobspy", "remoteok", "himalayas", "jobicy"} \cup Paged \cup Boards

ASSUME FeedsAssumption == Feeds \subseteq Seq(Ads)

ASSUME WalksAssumption ==
  /\ Enabled \subseteq Adapters
  /\ WalksOf \in [Enabled -> Seq(Nat)]

ASSUME LimitsAssumption ==
  PageSize \in Nat \ {0} /\ MaxPages \in Nat \ {0} /\ MaxRetries \in Nat

VARIABLES
  source,     \* the adapter that fetches
  dark,       \* the site answers, but shows no posting (redesign, soft block)
  at,         \* "begin" a walk, "request" a page, "done"
  feed,       \* what the site lists for the current walk
  page,       \* number of the page it asks for next
  attempt,    \* failed attempts at that page
  read,       \* ads of the pages this walk has read
  ended,      \* how the walks so far ended
  items,      \* <<unit, ad>> the mapper turned into jobs
  answered,   \* units that showed a real posting
  outcome,    \* the verdict on each unit
  owed,       \* history: listed when its walk began, and not withdrawn
  shrunk      \* history: an ad was withdrawn between two pages

walking == <<feed, page, attempt, read>>
result == <<ended, items, answered, outcome>>
fetchVars == <<source, dark, at, walking, result, owed, shrunk>>

Endings == {"failed", "complete", "cut"}
Reports == {"pending", "failed", "exhaustive", "windowed"}

UnitsOf(a) == {WalksOf[a][w] : w \in DOMAIN WalksOf[a]}
walk == Len(ended) + 1
unit == WalksOf[source][walk]

FetchTypeOK ==
  /\ source \in Enabled
  /\ dark \in BOOLEAN
  /\ at \in {"begin", "request", "done"}
  /\ feed \in Seq(Ads)
  /\ page \in 1..MaxPages
  /\ attempt \in 0..MaxRetries
  /\ read \subseteq Ads
  /\ ended \in Seq(Endings)
  /\ items \subseteq UnitsOf(source) \X Ads
  /\ answered \subseteq UnitsOf(source)
  /\ outcome \in [UnitsOf(source) -> Reports]
  /\ owed \subseteq UnitsOf(source) \X Ads
  /\ shrunk \in BOOLEAN
  /\ at = "request" => walk \in DOMAIN WalksOf[source]

FetchInit ==
  /\ source \in Enabled
  /\ dark \in BOOLEAN
  /\ at = "begin"
  /\ feed = <<>>
  /\ page = 1
  /\ attempt = 0
  /\ read = {}
  /\ ended = <<>>
  /\ items = {}
  /\ answered = {}
  /\ outcome = [u \in UnitsOf(source) |-> "pending"]
  /\ owed = {}
  /\ shrunk = FALSE

----------------------------------------------------------------------------
(* What an adapter makes of the ads it has read *)

(* Postings that prove the source answered: noise is stripped first. *)
Real(a, A) == IF a \in {"remoteok", "jobspy"} THEN A \ Blank ELSE A

Mapped(a, A) ==
  CASE a = "unstop"      -> A \ Old
    [] a = "remoteok"    -> A \ (Old \cup Blank)
    [] a = "jobspy"      -> A \ (Old \cup Blank)
    [] a = "internshala" -> A \ Blank
    [] a = "jobicy"      -> A \ OffType
    [] OTHER             -> A

(* The SourceResult: build_result with its suspicious-empty rule, run_ats, *)
(* and the _SiteStat of each JobSpy site.                                  *)
Report(u, endings, shown) ==
  CASE source \in Boards ->
         IF \E w \in DOMAIN endings : WalksOf[source][w] = u /\ endings[w] = "failed"
         THEN "failed" ELSE "exhaustive"
    [] source \notin Boards /\ u \notin shown -> "failed"
    [] source \in {"jobspy", "himalayas"} /\ u \in shown -> "windowed"
    [] OTHER ->
         IF \A w \in DOMAIN endings : endings[w] = "complete"
         THEN "exhaustive" ELSE "windowed"

(* The walk ends: its ads join those of the other walks, each once. *)
EndWalk(kept, ending) ==
  LET shown == IF Real(source, kept) = {} THEN answered ELSE answered \cup {unit}
      last  == walk = Len(WalksOf[source])
  IN /\ ended' = Append(ended, ending)
     /\ items' = items \cup {<<unit, ad>> : ad \in Mapped(source, kept)}
     /\ answered' = shown
     /\ at' = IF last THEN "done" ELSE "begin"
     /\ outcome' = IF last THEN [u \in UnitsOf(source) |-> Report(u, ended', shown)]
                   ELSE outcome

(* SourceResult.failed: nothing of this fetch is ingested. *)
FailSource ==
  /\ at' = "done"
  /\ items' = {}
  /\ outcome' = [u \in UnitsOf(source) |-> "failed"]
  /\ UNCHANGED <<ended, answered>>

----------------------------------------------------------------------------
(* Pages *)

Span(p) == {i \in DOMAIN feed : (p - 1) * PageSize < i /\ i <= p * PageSize}
Listed(p) == {feed[i] : i \in Span(p)}
AllListed == {feed[i] : i \in DOMAIN feed}

(* The page shows fewer ads than a full one, the last of them included. *)
Short(p) == Len(feed) < p * PageSize
Empty(p) == Len(feed) <= (p - 1) * PageSize

BeginWalk ==
  /\ at = "begin"
  /\ walk \in DOMAIN WalksOf[source]
  /\ at' = "request"
  /\ \E f \in Feeds :
       /\ feed' = IF dark THEN <<>> ELSE f
       /\ owed' = owed \cup {<<unit, f[i]>> : i \in DOMAIN f}
  /\ page' = 1
  /\ attempt' = 0
  /\ read' = {}
  /\ UNCHANGED <<source, dark, result, shrunk>>

(* A walk goes on until the site says it is over or the cap is reached.    *)
PageRead(batch, over) ==
  LET kept == read \cup batch IN
  IF over \/ page = MaxPages
  THEN /\ EndWalk(kept, IF over THEN "complete" ELSE "cut")
       /\ read' = kept
       /\ UNCHANGED <<page, attempt>>
  ELSE /\ read' = kept
       /\ page' = page + 1
       /\ attempt' = 0
       /\ UNCHANGED <<at, result>>

TurnPage(over) ==
  /\ at = "request"
  /\ PageRead(Listed(page), over)
  /\ UNCHANGED <<source, dark, feed, owed, shrunk>>

(* paginate_until_empty: an empty page, or a short one where the page size *)
(* is known, ends the walk.                                                *)
AdzunaPage == source = "adzuna" /\ TurnPage(Empty(page) \/ Short(page))

InternshalaPage == source = "internshala" /\ TurnPage(Empty(page) \/ Short(page))

(* Jooble advertises no page size. *)
JooblePage == source = "jooble" /\ TurnPage(Empty(page))

ReadUntilShort ==
  /\ at = "request"
  /\ source = "unstop"
  /\ PageRead(Listed(page) \ Hidden, Short(page) \/ Listed(page) \cap Hidden # {})
  /\ UNCHANGED <<source, dark, feed, owed, shrunk>>

(* Unstop's _walk: pages may come back short, only the page count ends it. *)
(* A payload without a count is one that does not filter after paging.     *)
UnstopPage ==
  /\ at = "request"
  /\ source = "unstop"
  /\ \E counted \in BOOLEAN :
       /\ counted \/ AllListed \cap Hidden = {}
       /\ PageRead(Listed(page) \ Hidden,
                   IF counted THEN Len(feed) <= page * PageSize ELSE Short(page))
  /\ UNCHANGED <<source, dark, feed, owed, shrunk>>

(* The adapters of one request get the whole board or its newest ads. *)
OneAnswer(ads, ending) ==
  /\ at = "request"
  /\ EndWalk(ads, ending)
  /\ UNCHANGED <<source, dark, walking, owed, shrunk>>

RemoteokFetch == source = "remoteok" /\ OneAnswer(AllListed, "complete")

HimalayasFetch == source = "himalayas" /\ OneAnswer(Listed(1), "complete")

(* Jobicy knows that a full answer is a window. *)
JobicyFetch ==
  source = "jobicy" /\ OneAnswer(Listed(1), IF Short(1) THEN "complete" ELSE "cut")

JobspyScrape == source = "jobspy" /\ OneAnswer(Listed(1), "complete")

GreenhouseBoard == source = "greenhouse" /\ OneAnswer(AllListed, "complete")

LeverBoard == source = "lever" /\ OneAnswer(AllListed, "complete")

AshbyBoard == source = "ashby" /\ OneAnswer(AllListed \ Hidden, "complete")

(* One page of results, taken for the whole board. *)
SmartRecruitersBoard ==
  source = "smartrecruiters" /\ OneAnswer(Listed(1), "complete")

----------------------------------------------------------------------------
(* Requests that fail *)

RetryForEver ==
  /\ at = "request"
  /\ source # "jobspy"
  /\ attempt' = (attempt + 1) % (MaxRetries + 1)
  /\ UNCHANGED <<source, dark, at, feed, page, read, result, owed, shrunk>>

RetryOnceMore ==
  /\ at = "request"
  /\ source # "jobspy"
  /\ attempt <= MaxRetries
  /\ attempt' = attempt + 1
  /\ UNCHANGED <<source, dark, at, feed, page, read, result, owed, shrunk>>

(* A connect or read error, 429 or 5xx is tried again after a pause. *)
Retry ==
  /\ at = "request"
  /\ source # "jobspy"
  /\ attempt < MaxRetries
  /\ attempt' = attempt + 1
  /\ UNCHANGED <<source, dark, at, feed, page, read, result, owed, shrunk>>

DropPages ==
  /\ at = "request"
  /\ source # "jobspy"
  /\ page > 1
  /\ EndWalk({}, "failed")
  /\ UNCHANGED <<source, dark, walking, owed, shrunk>>

(* SourceError on a later page: the pages already read are kept. *)
KeepPages ==
  /\ at = "request"
  /\ source # "jobspy"
  /\ page > 1
  /\ EndWalk(read, "cut")
  /\ UNCHANGED <<source, dark, walking, owed, shrunk>>

(* On a first page the walk has failed.  For Adzuna and Jooble that is     *)
(* systemic as long as no walk has read anything; a source of one request  *)
(* has then failed; every other adapter goes on with its next walk.        *)
FailWalk ==
  /\ at = "request"
  /\ page = 1
  /\ IF source \in {"adzuna", "jooble"} /\ answered = {}
     THEN FailSource
     ELSE EndWalk({}, "failed")
  /\ UNCHANGED <<source, dark, walking, owed, shrunk>>

(* Any other exception (a payload of another shape, a protocol error) ends *)
(* the adapter, and _fetch_one records it as failed.  JobSpy catches what  *)
(* its call raises, but not what the mapping of the rows raises.           *)
Raise ==
  /\ at = "request"
  /\ FailSource
  /\ UNCHANGED <<source, dark, walking, owed, shrunk>>

----------------------------------------------------------------------------
(* The site, between two pages: it publishes ads and withdraws one.  That  *)
(* it lists one elsewhere (a bumped ad) is not modelled.                   *)

Publish ==
  /\ at = "request"
  /\ page > 1
  /\ \E ad \in Ads :
       /\ ad \notin AllListed \cup read
       /\ <<unit, ad>> \notin owed
       /\ feed' = <<ad>> \o feed
  /\ UNCHANGED <<source, dark, at, page, attempt, read, result, owed, shrunk>>

Withdraw ==
  /\ at = "request"
  /\ page > 1
  /\ ~shrunk
  /\ shrunk' = TRUE
  /\ \E i \in DOMAIN feed :
       /\ feed' = SubSeq(feed, 1, i - 1) \o SubSeq(feed, i + 1, Len(feed))
       /\ owed' = owed \ {<<unit, feed[i]>>}
  /\ UNCHANGED <<source, dark, at, page, attempt, read, result>>

----------------------------------------------------------------------------
FetchStep ==
  \/ BeginWalk
  \/ AdzunaPage \/ InternshalaPage \/ JooblePage \/ UnstopPage
  \/ RemoteokFetch \/ HimalayasFetch \/ JobicyFetch \/ JobspyScrape
  \/ GreenhouseBoard \/ LeverBoard \/ AshbyBoard \/ SmartRecruitersBoard
  \/ Retry
  \/ KeepPages
  \/ FailWalk
  \/ Raise

FetchNext == FetchStep \/ Publish \/ Withdraw

FetchSpec == FetchInit /\ [][FetchNext]_fetchVars

----------------------------------------------------------------------------
(* Properties *)

(* What absence from an exhaustive fetch may be taken for: every ad that   *)
(* was listed when its walk began, and still is, came back as a job, over  *)
(* all walks, retries, caps, lost pages, postings published meanwhile, and *)
(* sites that suddenly show nothing.  Three cases are outside: an ad       *)
(* withdrawn between two pages pulls another one onto the page already     *)
(* read, a company's empty board is believed, and SmartRecruiters' one     *)
(* page of results counts as the whole board.                              *)
ExhaustiveMeansComplete ==
  \A u \in DOMAIN outcome :
    /\ outcome[u] = "exhaustive"
    /\ ~shrunk
    /\ source \in Boards => ~dark /\ source # "smartrecruiters"
    => \A ad \in Mapped(source, Ads \ Hidden) :
         <<u, ad>> \in owed => <<u, ad>> \in items

(* "A mid-run rate-limit shouldn't discard good data": what a walk has     *)
(* read is among the jobs when the walk ends, unless the source failed.    *)
PagesReadAreKept ==
  [][at = "request" /\ Len(ended') > Len(ended) =>
       \A ad \in read \cap Mapped(source, Ads) : <<unit, ad>> \in items']_fetchVars

(* Every fetch ends, although sites may fail for ever and publish for ever.*)
FetchEnds == <>(at = "done")
=============================================================================

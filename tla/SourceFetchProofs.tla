--------------------------- MODULE SourceFetchProofs ---------------------------
(***************************************************************************)
(* For any adapter, walks, feeds, page size, caps and retries: a unit that *)
(* reports an exhaustive fetch has returned every ad it was to return.  The*)
(* invariant says where such an ad is: among the jobs, read on this walk,  *)
(* further down the feed than the pages read, or lost with a walk that was *)
(* cut or failed, which the report of its unit then says.                  *)
(***************************************************************************)
EXTENDS SourceFetch, TLAPS

(* A fetch whose report may be believed as far as the site goes.           *)
Believable == ~shrunk /\ ~dark /\ source \notin {"jobspy", "himalayas", "smartrecruiters"}

(* An ad the fetch owes for a unit. *)
Owing(u, ad) == <<u, ad>> \in owed /\ ad \in Mapped(source, Ads \ Hidden)

Ahead(ad) == \E i \in DOMAIN feed : (page - 1) * PageSize < i /\ feed[i] = ad

Coming(u, ad) == at = "request" /\ u = unit /\ (ad \in read \/ Ahead(ad))

Lost(u) == \E w \in DOMAIN ended : WalksOf[source][w] = u /\ ended[w] # "complete"

AllFailed == at = "done" /\ \A u \in UnitsOf(source) : outcome[u] = "failed"

Promise ==
  Believable => \A u \in UnitsOf(source), ad \in Ads :
    Owing(u, ad) => <<u, ad>> \in items \/ Coming(u, ad) \/ Lost(u) \/ AllFailed

(* A site that shows nothing has shown nothing so far. *)
Darkness == dark => page = 1 /\ read = {} /\ feed = <<>> /\ answered = {}

(* Adapters that turn no pages keep none; a board comes or fails. *)
OnePage ==
  /\ source \notin Paged => page = 1 /\ read = {}
  /\ source \in Boards => \A w \in DOMAIN ended : ended[w] # "cut"

Reported ==
  /\ at # "done" => \A u \in UnitsOf(source) : outcome[u] = "pending"
  /\ at = "done" => AllFailed \/ \A u \in UnitsOf(source) : outcome[u] = Report(u, ended, answered)

FetchInv == FetchTypeOK /\ Promise /\ Darkness /\ OnePage /\ Reported

----------------------------------------------------------------------------
(* An adapter drops ads one by one, for a field of theirs. *)
LEMMA MappedFacts ==
  ASSUME NEW a, NEW A, NEW B, NEW ad \in A, ad \in Mapped(a, B)
  PROVE  ad \in Mapped(a, A) /\ ad \in B
BY DEF Mapped

(* What it makes of some ads is some of them, and nothing of nothing.      *)
LEMMA MappedPart ==
  ASSUME NEW a, NEW A
  PROVE  Mapped(a, A) \subseteq A /\ Real(a, {}) = {}
BY DEF Mapped, Real

(* Pages follow each other. *)
LEMMA PageFacts ==
  /\ (1 - 1) * PageSize = 0
  /\ \A p \in Nat : ((p + 1) - 1) * PageSize = p * PageSize
BY LimitsAssumption

(* What a page shows is listed. *)
LEMMA ListedFacts ==
  ASSUME FetchInv
  PROVE  /\ AllListed \subseteq Ads
         /\ \A p : Listed(p) \subseteq AllListed
         /\ dark => AllListed = {}
BY DEF FetchInv, FetchTypeOK, Darkness, AllListed, Listed, Span

(* The unit of a walk under way is one of the adapter's. *)
LEMMA UnitFacts ==
  ASSUME FetchInv, at = "request"
  PROVE  walk \in DOMAIN WalksOf[source] /\ unit \in UnitsOf(source)
BY DEF FetchInv, FetchTypeOK, unit, UnitsOf

(* A verdict is one of the reports. *)
LEMMA ReportFacts ==
  ASSUME NEW u, NEW e, NEW s
  PROVE  Report(u, e, s) \in Reports
BY DEF Report, Reports

(* The report of a unit says when a walk of it was lost. *)
LEMMA ExhaustiveFacts ==
  ASSUME FetchInv, NEW u \in UnitsOf(source), Report(u, ended, answered) = "exhaustive"
  PROVE  /\ ~ Lost(u)
         /\ source \notin {"jobspy", "himalayas"}
         /\ source \notin Boards => ~dark
<1>1. CASE source \in Boards
  <2>1. \A w \in DOMAIN ended : WalksOf[source][w] = u => ended[w] # "failed"
    BY <1>1 DEF Report
  <2>2. \A w \in DOMAIN ended : ended[w] \in Endings /\ ended[w] # "cut"
    BY <1>1 DEF FetchInv, FetchTypeOK, OnePage
  <2> QED BY <1>1, <2>1, <2>2 DEF Lost, Endings, Boards
<1>2. CASE source \notin Boards
  <2>1. u \in answered /\ source \notin {"jobspy", "himalayas"}
        /\ \A w \in DOMAIN ended : ended[w] = "complete"
    BY <1>2 DEF Report
  <2> QED BY <2>1 DEF Lost, FetchInv, Darkness
<1> QED BY <1>1, <1>2

----------------------------------------------------------------------------
(* At first nothing is owed. *)
LEMMA InitFetch == FetchInit => FetchInv
<1> SUFFICES ASSUME FetchInit PROVE FetchInv
  OBVIOUS
<1>1. <<>> \in Seq(Ads) /\ <<>> \in Seq(Endings)
  OBVIOUS
<1>2. FetchTypeOK
  <2>1. outcome \in [UnitsOf(source) -> Reports]
    BY DEF FetchInit, Reports
  <2>2. page \in 1..MaxPages /\ attempt \in 0..MaxRetries
    BY LimitsAssumption DEF FetchInit
  <2> QED BY <1>1, <2>1, <2>2 DEF FetchInit, FetchTypeOK
<1>3. Promise
  BY DEF FetchInit, Promise, Owing
<1>4. Darkness /\ OnePage /\ Reported
  BY DEF FetchInit, Darkness, OnePage, Reported
<1> QED BY <1>2, <1>3, <1>4 DEF FetchInv

(* A walk that ends complete has kept every ad that was still coming.      *)
LEMMA EndWalkKeeps ==
  ASSUME FetchInv, at = "request", NEW kept \in SUBSET Ads, NEW ending \in Endings,
         EndWalk(kept, ending), UNCHANGED <<source, dark, feed, page, attempt, owed, shrunk>>,
         read' \subseteq Ads, dark \/ source \notin Paged => read' = {}, dark => kept = {},
         source \in Boards => ending # "cut",
         Believable /\ ending = "complete"
           => \A ad \in Ads : Owing(unit, ad) /\ Coming(unit, ad) => ad \in kept
  PROVE  FetchInv'
<1> DEFINE shown == IF Real(source, kept) = {} THEN answered ELSE answered \cup {unit}
           last == walk = Len(WalksOf[source])
<1>1. /\ ended' = Append(ended, ending)
      /\ items' = items \cup {<<unit, ad>> : ad \in Mapped(source, kept)}
      /\ answered' = shown
      /\ at' = IF last THEN "done" ELSE "begin"
      /\ outcome' = IF last THEN [u \in UnitsOf(source) |-> Report(u, ended', shown)] ELSE outcome
  BY DEF EndWalk
<1>2. walk \in DOMAIN WalksOf[source] /\ unit \in UnitsOf(source)
  BY UnitFacts
<1>3. ended \in Seq(Endings) /\ walk = Len(ended) + 1
  BY DEF FetchInv, FetchTypeOK, walk
<1>4. /\ ended' \in Seq(Endings)
      /\ DOMAIN ended' = DOMAIN ended \cup {walk}
      /\ \A w \in DOMAIN ended : ended'[w] = ended[w]
      /\ ended'[walk] = ending
  BY <1>1, <1>3
<1>5. UnitsOf(source)' = UnitsOf(source)
  BY DEF UnitsOf
<1>6. FetchTypeOK'
  <2>1. items' \subseteq UnitsOf(source) \X Ads
    BY <1>1, <1>2, MappedPart DEF FetchInv, FetchTypeOK
  <2>2. answered' \subseteq UnitsOf(source)
    BY <1>1, <1>2 DEF FetchInv, FetchTypeOK
  <2>3. outcome' \in [UnitsOf(source) -> Reports]
    BY <1>1, ReportFacts DEF FetchInv, FetchTypeOK
  <2>4. at' \in {"begin", "done"}
    BY <1>1
  <2> QED BY <2>1, <2>2, <2>3, <2>4, <1>4, <1>5 DEF FetchInv, FetchTypeOK
<1>7. Promise'
  <2> SUFFICES ASSUME Believable', NEW u \in UnitsOf(source), NEW ad \in Ads, Owing(u, ad)'
               PROVE  <<u, ad>> \in items' \/ Lost(u)' \/ AllFailed'
    BY <1>5 DEF Promise
  <2>1. Believable /\ Owing(u, ad)
    BY DEF Believable, Owing, Mapped
  <2>2. <<u, ad>> \in items \/ Coming(u, ad) \/ Lost(u)
    BY <2>1 DEF FetchInv, Promise, AllFailed
  <2>3. CASE <<u, ad>> \in items
    BY <2>3, <1>1
  <2>4. CASE Lost(u)
    BY <2>4, <1>4 DEF Lost
  <2>5. CASE Coming(u, ad) /\ ending # "complete"
    <3>1. u = WalksOf[source][walk]
      BY <2>5 DEF Coming, unit
    <3> QED BY <2>5, <3>1, <1>4 DEF Lost
  <2>6. CASE Coming(u, ad) /\ ending = "complete"
    <3>1. u = unit /\ ad \in kept
      BY <2>6, <2>1 DEF Coming
    <3>2. ad \in Mapped(source, kept)
      BY <3>1, <2>1, MappedFacts DEF Owing
    <3> QED BY <3>1, <3>2, <1>1
  <2> QED BY <2>2, <2>3, <2>4, <2>5, <2>6
<1>8. Darkness'
  BY <1>1, MappedPart DEF FetchInv, Darkness
<1>9. OnePage'
  BY <1>4 DEF FetchInv, OnePage
<1>10. Reported'
  <2>1. CASE last
    <3>1. \A u \in UnitsOf(source) : outcome'[u] = Report(u, ended', answered')
      BY <2>1, <1>1
    <3>2. \A u : Report(u, ended, answered)' = Report(u, ended', answered')
      BY DEF Report
    <3>3. at' = "done"
      BY <2>1, <1>1
    <3> QED BY <3>1, <3>2, <3>3, <1>5 DEF Reported
  <2>2. CASE ~last
    BY <2>2, <1>1, <1>5 DEF FetchInv, Reported
  <2> QED BY <2>1, <2>2
<1> QED BY <1>6, <1>7, <1>8, <1>9, <1>10 DEF FetchInv

(* A source that failed reports nothing else. *)
LEMMA FailSourceKeeps ==
  ASSUME FetchInv, FailSource, UNCHANGED <<source, dark, feed, page, attempt, read, owed, shrunk>>
  PROVE  FetchInv'
<1>1. /\ at' = "done" /\ items' = {} /\ UNCHANGED <<ended, answered>>
      /\ outcome' = [u \in UnitsOf(source) |-> "failed"]
      /\ UnitsOf(source)' = UnitsOf(source)
  BY DEF FailSource, UnitsOf
<1>2. AllFailed'
  BY <1>1 DEF AllFailed
<1>3. FetchTypeOK'
  BY <1>1 DEF FetchInv, FetchTypeOK, Reports
<1> QED BY <1>1, <1>2, <1>3 DEF FetchInv, Promise, Darkness, OnePage, Reported

----------------------------------------------------------------------------
(* A walk begins before its feed: all of it is ahead. *)
LEMMA BeginKeeps ==
  ASSUME FetchInv, BeginWalk
  PROVE  FetchInv'
<1>1. PICK f \in Feeds : /\ feed' = IF dark THEN <<>> ELSE f
                         /\ owed' = owed \cup {<<unit, f[i]>> : i \in DOMAIN f}
  BY DEF BeginWalk
<1>2. f \in Seq(Ads)
  BY FeedsAssumption
<1>3. /\ at = "begin" /\ at' = "request" /\ page' = 1 /\ attempt' = 0 /\ read' = {}
      /\ UNCHANGED <<source, dark, ended, items, answered, outcome, shrunk>>
      /\ walk \in DOMAIN WalksOf[source]
  BY DEF BeginWalk, result
<1>4. unit \in UnitsOf(source) /\ unit' = unit /\ walk' = walk /\ UnitsOf(source)' = UnitsOf(source)
  BY <1>3 DEF unit, walk, UnitsOf
<1>5. feed' \in Seq(Ads)
  <2>1. <<>> \in Seq(Ads)
    OBVIOUS
  <2> QED BY <2>1, <1>1, <1>2
<1>6. owed' \subseteq UnitsOf(source) \X Ads
  BY <1>1, <1>2, <1>4 DEF FetchInv, FetchTypeOK
<1>7. FetchTypeOK'
  BY <1>3, <1>4, <1>5, <1>6, LimitsAssumption DEF FetchInv, FetchTypeOK
<1>8. Promise'
  <2> SUFFICES ASSUME Believable', NEW u \in UnitsOf(source), NEW ad \in Ads, Owing(u, ad)'
               PROVE  (<<u, ad>> \in items \/ Coming(u, ad) \/ Lost(u) \/ AllFailed)'
    BY <1>4 DEF Promise
  <2>1. Believable /\ ad \in Mapped(source, Ads \ Hidden)
    BY <1>3 DEF Believable, Owing, Mapped
  <2>2. CASE <<u, ad>> \in owed
    <3>1. <<u, ad>> \in items \/ Lost(u)
      BY <2>1, <2>2, <1>3 DEF FetchInv, Promise, Owing, Coming, AllFailed
    <3> QED BY <3>1, <1>3 DEF Lost
  <2>3. CASE <<u, ad>> \notin owed
    <3>1. PICK i \in DOMAIN f : u = unit /\ ad = f[i]
      BY <2>3, <1>1 DEF Owing
    <3>2. feed' = f
      BY <2>1, <1>1 DEF Believable
    <3>3. i > 0 /\ (page' - 1) * PageSize = 0
      BY <1>2, <1>3, PageFacts
    <3>4. Ahead(ad)'
      BY <3>1, <3>2, <3>3 DEF Ahead
    <3> QED BY <3>1, <3>4, <1>3, <1>4 DEF Coming
  <2> QED BY <2>2, <2>3
<1>9. Darkness'
  BY <1>1, <1>3 DEF FetchInv, Darkness
<1>10. OnePage' /\ Reported'
  BY <1>3, <1>4 DEF FetchInv, OnePage, Reported
<1> QED BY <1>7, <1>8, <1>9, <1>10 DEF FetchInv

(* A page adds its ads to those read; what lies beyond is still ahead.     *)
LEMMA PageKeeps ==
  ASSUME FetchInv, at = "request", NEW batch \in SUBSET Listed(page), NEW over \in BOOLEAN,
         source \in Paged,
         PageRead(batch, over), UNCHANGED <<source, dark, feed, owed, shrunk>>,
         \A ad \in Listed(page) : ad \notin Hidden => ad \in batch,
         dark => over,
         over => Len(feed) <= page * PageSize
  PROVE  FetchInv'
<1> DEFINE kept == read \cup batch
<1>1. kept \in SUBSET Ads /\ (dark => kept = {})
  BY ListedFacts DEF FetchInv, FetchTypeOK, Darkness
<1>2. feed \in Seq(Ads) /\ page \in 1..MaxPages /\ DOMAIN feed = 1..Len(feed)
  BY DEF FetchInv, FetchTypeOK
<1>3. \A ad : Ahead(ad) /\ ad \notin Hidden
              => ad \in batch \/ \E i \in DOMAIN feed : page * PageSize < i /\ feed[i] = ad
  <2> SUFFICES ASSUME NEW ad, Ahead(ad), ad \notin Hidden
               PROVE  ad \in batch \/ \E i \in DOMAIN feed : page * PageSize < i /\ feed[i] = ad
    OBVIOUS
  <2>1. PICK i \in DOMAIN feed : (page - 1) * PageSize < i /\ feed[i] = ad
    BY DEF Ahead
  <2>2. page * PageSize \in Int /\ i \in Int
    BY <1>2, LimitsAssumption
  <2>3. CASE i <= page * PageSize
    BY <2>1, <2>3 DEF Listed, Span
  <2>4. CASE page * PageSize < i
    BY <2>1, <2>4
  <2> QED BY <2>2, <2>3, <2>4
<1>4. \A u, ad : Owing(u, ad) => ad \notin Hidden
  BY MappedPart DEF Owing
<1>5. CASE over \/ page = MaxPages
  <2> DEFINE ending == IF over THEN "complete" ELSE "cut"
  <2>1. EndWalk(kept, ending) /\ read' = kept /\ UNCHANGED <<page, attempt>>
    BY <1>5 DEF PageRead
  <2>2. ASSUME ending = "complete", NEW ad \in Ads, Owing(unit, ad), Coming(unit, ad)
        PROVE  ad \in kept
    <3>1. \A i \in DOMAIN feed : ~ (page * PageSize < i)
      BY <2>2, <1>2, LimitsAssumption
    <3> QED BY <2>2, <3>1, <1>3, <1>4 DEF Coming
  <2>3. ending \in Endings
    BY DEF Endings
  <2>4. source \notin Boards
    BY DEF Paged, Boards
  <2> HIDE DEF kept, ending
  <2> QED BY <1>1, <2>1, <2>2, <2>3, <2>4, EndWalkKeeps
<1>6. CASE ~ (over \/ page = MaxPages)
  <2>1. read' = kept /\ page' = page + 1 /\ attempt' = 0
        /\ UNCHANGED <<at, ended, items, answered, outcome>>
    BY <1>6 DEF PageRead, result
  <2>2. page' \in 1..MaxPages /\ ~dark
    BY <2>1, <1>2, <1>6, LimitsAssumption
  <2>3. UnitsOf(source)' = UnitsOf(source) /\ walk' = walk /\ unit' = unit
    BY <2>1 DEF UnitsOf, walk, unit
  <2>4. FetchTypeOK'
    BY <1>1, <2>1, <2>2, <2>3, LimitsAssumption DEF FetchInv, FetchTypeOK
  <2>5. Promise'
    <3> SUFFICES ASSUME Believable', NEW u \in UnitsOf(source), NEW ad \in Ads, Owing(u, ad)'
                 PROVE  (<<u, ad>> \in items \/ Coming(u, ad) \/ Lost(u) \/ AllFailed)'
      BY <2>3 DEF Promise
    <3>1. Believable /\ Owing(u, ad)
      BY DEF Believable, Owing, Mapped
    <3>2. <<u, ad>> \in items \/ Coming(u, ad) \/ Lost(u) \/ AllFailed
      BY <3>1 DEF FetchInv, Promise
    <3>3. CASE Coming(u, ad)
      <4>1. ad \in read' \/ \E i \in DOMAIN feed : page * PageSize < i /\ feed[i] = ad
        BY <3>1, <3>3, <1>3, <1>4, <2>1 DEF Coming
      <4>2. (page' - 1) * PageSize = page * PageSize
        BY <2>1, <1>2, PageFacts
      <4>3. ad \in read' \/ Ahead(ad)'
        BY <4>1, <4>2 DEF Ahead
      <4> QED BY <4>3, <3>3, <2>1, <2>3 DEF Coming
    <3> QED BY <3>2, <3>3, <2>1, <2>3 DEF Lost, AllFailed
  <2>6. Darkness' /\ OnePage' /\ Reported'
    BY <2>1, <2>2, <2>3 DEF FetchInv, Darkness, OnePage, Reported
  <2> QED BY <2>4, <2>5, <2>6 DEF FetchInv
<1> QED BY <1>5, <1>6

(* The four adapters that turn pages. *)
LEMMA TurnKeeps ==
  ASSUME FetchInv, AdzunaPage \/ InternshalaPage \/ JooblePage \/ UnstopPage
  PROVE  FetchInv'
<1>1. Len(feed) \in Nat /\ page \in 1..MaxPages /\ page * PageSize \in Int
      /\ (page - 1) * PageSize <= page * PageSize /\ (page - 1) * PageSize \in Int
  <2>1. Len(feed) \in Nat /\ page \in 1..MaxPages
    BY DEF FetchInv, FetchTypeOK
  <2>2. page \in Int /\ PageSize \in Nat
    BY <2>1, LimitsAssumption
  <2>3. (page - 1) * PageSize = page * PageSize - PageSize
    BY <2>2
  <2> QED BY <2>1, <2>2, <2>3
<1>2. Empty(page) \/ Short(page) => Len(feed) <= page * PageSize
  BY <1>1 DEF Empty, Short
<1>3. dark => Empty(page) /\ Short(page) /\ Len(feed) <= page * PageSize
  <2> SUFFICES ASSUME dark PROVE Empty(page) /\ Short(page) /\ Len(feed) <= page * PageSize
    OBVIOUS
  <2>1. Len(feed) = 0 /\ page = 1
    BY DEF FetchInv, Darkness
  <2>2. page * PageSize = PageSize /\ (page - 1) * PageSize = 0
    BY <2>1, LimitsAssumption
  <2> QED BY <2>1, <2>2, LimitsAssumption DEF Empty, Short
<1>4. ASSUME NEW over \in BOOLEAN, source \in Paged, TurnPage(over), dark => over,
             over => Empty(page) \/ Short(page)
      PROVE  FetchInv'
  BY <1>2, <1>4, PageKeeps DEF TurnPage
<1>5. CASE AdzunaPage
  BY <1>5, <1>3, <1>4 DEF AdzunaPage, Paged, Empty, Short
<1>6. CASE InternshalaPage
  BY <1>6, <1>3, <1>4 DEF InternshalaPage, Paged, Empty, Short
<1>7. CASE JooblePage
  <2>1. Empty(page) \in BOOLEAN
    BY DEF Empty
  <2>2. source \in Paged /\ TurnPage(Empty(page))
    BY <1>7 DEF JooblePage, Paged
  <2> QED BY <2>1, <2>2, <1>3, <1>4
<1>8. CASE UnstopPage
  <2>1. PICK counted \in BOOLEAN :
          PageRead(Listed(page) \ Hidden,
                   IF counted THEN Len(feed) <= page * PageSize ELSE Short(page))
    BY <1>8 DEF UnstopPage
  <2> DEFINE over == IF counted THEN Len(feed) <= page * PageSize ELSE Short(page)
             batch == Listed(page) \ Hidden
  <2>2. over \in BOOLEAN
    <3>1. CASE counted
      BY <3>1
    <3>2. CASE ~counted
      BY <3>2 DEF Short
    <3> QED BY <3>1, <3>2
  <2>3. (over => Len(feed) <= page * PageSize) /\ (dark => over)
    BY <1>2, <1>3
  <2>4. /\ at = "request" /\ source \in Paged /\ UNCHANGED <<source, dark, feed, owed, shrunk>>
    BY <1>8 DEF UnstopPage, Paged
  <2>5. batch \in SUBSET Listed(page) /\ \A ad \in Listed(page) : ad \notin Hidden => ad \in batch
    OBVIOUS
  <2>6. PageRead(batch, over)
    BY <2>1
  <2> HIDE DEF over, batch
  <2> QED BY <2>2, <2>3, <2>4, <2>5, <2>6, PageKeeps
<1> QED BY <1>5, <1>6, <1>7, <1>8

----------------------------------------------------------------------------
(* One answer is the whole board, or says that it is a window.             *)
LEMMA OneAnswerKeeps ==
  ASSUME FetchInv,
         \/ RemoteokFetch \/ HimalayasFetch \/ JobicyFetch \/ JobspyScrape
         \/ GreenhouseBoard \/ LeverBoard \/ AshbyBoard \/ SmartRecruitersBoard
  PROVE  FetchInv'
<1>1. ASSUME NEW ads \in SUBSET AllListed, NEW ending \in {"complete", "cut"}, OneAnswer(ads, ending),
             source \in Boards => ending # "cut",
             Believable /\ ending = "complete"
               => \A ad \in Ads : Owing(unit, ad) /\ Coming(unit, ad) => ad \in ads
      PROVE  FetchInv'
  <2>1. ads \in SUBSET Ads /\ (dark => ads = {} /\ read = {}) /\ ending \in Endings
    BY ListedFacts DEF Endings, FetchInv, Darkness
  <2>2. read \subseteq Ads /\ (source \notin Paged => read = {})
    BY DEF FetchInv, FetchTypeOK, OnePage
  <2>3. /\ at = "request" /\ EndWalk(ads, ending)
        /\ UNCHANGED <<source, dark, feed, page, attempt, read, owed, shrunk>>
    BY <1>1 DEF OneAnswer, walking
  <2> QED BY <1>1, <2>1, <2>2, <2>3, EndWalkKeeps
<1>2. Listed(1) \in SUBSET AllListed /\ AllListed \ Hidden \in SUBSET AllListed
  BY ListedFacts
<1>3. source \notin Paged => \A u, ad : Owing(u, ad) /\ Coming(u, ad) => ad \in AllListed \ Hidden
  BY MappedPart DEF FetchInv, OnePage, Owing, Coming, Ahead, AllListed
<1>4. CASE RemoteokFetch \/ GreenhouseBoard \/ LeverBoard
  BY <1>1, <1>3, <1>4 DEF RemoteokFetch, GreenhouseBoard, LeverBoard, Paged
<1>5. CASE AshbyBoard
  BY <1>1, <1>2, <1>3, <1>5 DEF AshbyBoard, Paged
<1>6. CASE HimalayasFetch \/ JobspyScrape \/ SmartRecruitersBoard
  BY <1>1, <1>2, <1>6 DEF HimalayasFetch, JobspyScrape, SmartRecruitersBoard, Believable
<1>7. CASE JobicyFetch
  <2>1. Short(1) => AllListed \subseteq Listed(1)
    <3> SUFFICES ASSUME Short(1), NEW i \in DOMAIN feed PROVE i \in Span(1)
      BY DEF AllListed, Listed
    <3>1. feed \in Seq(Ads) /\ (1 - 1) * PageSize = 0 /\ 1 * PageSize = PageSize /\ PageSize \in Nat
      BY LimitsAssumption DEF FetchInv, FetchTypeOK
    <3>2. 0 < i /\ i <= Len(feed) /\ Len(feed) \in Nat
      BY <3>1
    <3> QED BY <3>1, <3>2 DEF Short, Span
  <2> QED BY <1>1, <1>2, <1>3, <1>7, <2>1 DEF JobicyFetch, Paged, Boards
<1> QED BY <1>4, <1>5, <1>6, <1>7

----------------------------------------------------------------------------
(* Where nothing is read, withdrawn or decided, what was ahead stays there,*)
(* and the attempts do not matter.                                         *)
LEMMA NothingRead ==
  ASSUME FetchInv,
         UNCHANGED <<source, dark, at, page, read, ended, items, answered, outcome, owed, shrunk>>,
         feed' \in Seq(Ads), attempt' \in 0..MaxRetries, dark => feed' = feed,
         \A x \in Ads : Ahead(x) => Ahead(x)'
  PROVE  FetchInv'
<1>1. UnitsOf(source)' = UnitsOf(source) /\ walk' = walk /\ unit' = unit
  BY DEF UnitsOf, walk, unit
<1>2. FetchTypeOK'
  BY <1>1 DEF FetchInv, FetchTypeOK
<1>3. Promise'
  <2> SUFFICES ASSUME Believable', NEW u \in UnitsOf(source), NEW ad \in Ads, Owing(u, ad)'
               PROVE  (<<u, ad>> \in items \/ Coming(u, ad) \/ Lost(u) \/ AllFailed)'
    BY <1>1 DEF Promise
  <2>1. Believable /\ Owing(u, ad)
    BY DEF Believable, Owing, Mapped
  <2>2. <<u, ad>> \in items \/ Coming(u, ad) \/ Lost(u) \/ AllFailed
    BY <2>1 DEF FetchInv, Promise
  <2>3. Coming(u, ad) => Coming(u, ad)'
    BY <1>1 DEF Coming
  <2>4. (Lost(u) => Lost(u)') /\ (AllFailed => AllFailed')
    BY <1>1 DEF Lost, AllFailed
  <2> QED BY <2>2, <2>3, <2>4
<1>4. Darkness' /\ OnePage'
  BY DEF FetchInv, Darkness, OnePage
<1>5. Reported'
  <2>1. \A u : Report(u, ended, answered)' = Report(u, ended, answered)
    BY DEF Report
  <2>2. AllFailed => AllFailed'
    BY <1>1 DEF AllFailed
  <2> QED BY <2>1, <2>2, <1>1 DEF FetchInv, Reported
<1> QED BY <1>2, <1>3, <1>4, <1>5 DEF FetchInv

(* What a failed request leaves: one more attempt, a walk that is cut or   *)
(* failed, or a source that failed.                                        *)
LEMMA RequestFailsKeeps ==
  ASSUME FetchInv, Retry \/ KeepPages \/ FailWalk \/ Raise
  PROVE  FetchInv'
<1>1. read \in SUBSET Ads /\ (dark \/ source \notin Paged => read = {})
  BY DEF FetchInv, FetchTypeOK, Darkness, OnePage
<1>2. CASE Retry
  <2>1. attempt' \in 0..MaxRetries /\ attempt' = attempt + 1
        /\ UNCHANGED <<source, dark, at, feed, page, read, ended, items, answered, outcome, owed, shrunk>>
    BY <1>2, LimitsAssumption DEF Retry, result, FetchInv, FetchTypeOK
  <2>2. feed' \in Seq(Ads) /\ \A x \in Ads : Ahead(x) => Ahead(x)'
    BY <2>1 DEF FetchInv, FetchTypeOK, Ahead
  <2> QED BY <2>1, <2>2, NothingRead
<1>3. CASE KeepPages
  <2>1. source \notin Boards
    BY <1>3 DEF KeepPages, FetchInv, OnePage, Paged, Boards
  <2> QED BY <1>1, <1>3, <2>1, EndWalkKeeps DEF KeepPages, walking, Endings
<1>4. CASE FailWalk
  <2>1. CASE source \in {"adzuna", "jooble"} /\ answered = {}
    BY <1>4, <2>1, FailSourceKeeps DEF FailWalk, walking
  <2>2. CASE ~ (source \in {"adzuna", "jooble"} /\ answered = {})
    BY <1>1, <1>4, <2>2, EndWalkKeeps DEF FailWalk, walking, Endings
  <2> QED BY <2>1, <2>2
<1>5. CASE Raise
  BY <1>5, FailSourceKeeps DEF Raise, walking
<1> QED BY <1>2, <1>3, <1>4, <1>5

(* A new posting moves the others down the feed, away from the pages read. *)
LEMMA PublishKeeps ==
  ASSUME FetchInv, Publish
  PROVE  FetchInv'
<1>1. PICK ad \in Ads : feed' = <<ad>> \o feed
  BY DEF Publish
<1>2. /\ at = "request" /\ page > 1
      /\ UNCHANGED <<source, dark, at, page, attempt, read, ended, items, answered, outcome, owed, shrunk>>
  BY DEF Publish, result
<1>3. feed \in Seq(Ads) /\ page \in 1..MaxPages
  BY DEF FetchInv, FetchTypeOK
<1>4. feed' \in Seq(Ads) /\ \A i \in DOMAIN feed : i + 1 \in DOMAIN feed' /\ feed'[i + 1] = feed[i]
  BY <1>1, <1>3
<1>5. \A x : Ahead(x) => Ahead(x)'
  <2> SUFFICES ASSUME NEW x, Ahead(x) PROVE Ahead(x)'
    OBVIOUS
  <2>1. PICK i \in DOMAIN feed : (page - 1) * PageSize < i /\ feed[i] = x
    BY DEF Ahead
  <2>2. i \in Int /\ (page - 1) * PageSize \in Int
    BY <1>3, LimitsAssumption
  <2>3. (page - 1) * PageSize < i + 1
    BY <2>1, <2>2
  <2> QED BY <1>2, <1>4, <2>1, <2>3 DEF Ahead
<1>6. ~dark
  BY <1>2, <1>3 DEF FetchInv, Darkness
<1>7. attempt' \in 0..MaxRetries
  BY <1>2 DEF FetchInv, FetchTypeOK
<1> QED BY <1>2, <1>4, <1>5, <1>6, <1>7, NothingRead

(* An ad withdrawn between two pages is what the promise excludes.         *)
LEMMA WithdrawKeeps ==
  ASSUME FetchInv, Withdraw
  PROVE  FetchInv'
<1>1. PICK i \in DOMAIN feed :
        feed' = SubSeq(feed, 1, i - 1) \o SubSeq(feed, i + 1, Len(feed))
  BY DEF Withdraw
<1>2. /\ at = "request" /\ page > 1 /\ shrunk' = TRUE /\ owed' \subseteq owed
      /\ UNCHANGED <<source, dark, at, page, attempt, read, ended, items, answered, outcome>>
  BY DEF Withdraw, result
<1>3. feed \in Seq(Ads) /\ page \in 1..MaxPages
  BY DEF FetchInv, FetchTypeOK
<1>4. feed' \in Seq(Ads)
  <2>1. i \in 1..Len(feed)
    BY <1>3
  <2>2. SubSeq(feed, 1, i - 1) \in Seq(Ads) /\ SubSeq(feed, i + 1, Len(feed)) \in Seq(Ads)
    BY <1>3, <2>1
  <2> QED BY <1>1, <2>2
<1>5. ~dark
  BY <1>2, <1>3 DEF FetchInv, Darkness
<1>6. FetchTypeOK'
  BY <1>2, <1>4 DEF FetchInv, FetchTypeOK, UnitsOf, walk
<1>7. Promise'
  BY <1>2 DEF Promise, Believable
<1>8. Darkness' /\ OnePage' /\ Reported'
  BY <1>2, <1>5 DEF FetchInv, Darkness, OnePage, Reported, Report, AllFailed, UnitsOf
<1> QED BY <1>6, <1>7, <1>8 DEF FetchInv

(* Every step keeps the invariant. *)
LEMMA NextFetch == FetchInv /\ [FetchNext]_fetchVars => FetchInv'
<1> SUFFICES ASSUME FetchInv, [FetchNext]_fetchVars PROVE FetchInv'
  OBVIOUS
<1>1. CASE FetchStep
  BY <1>1, BeginKeeps, TurnKeeps, OneAnswerKeeps, RequestFailsKeeps DEF FetchStep
<1>2. CASE Publish \/ Withdraw
  BY <1>2, PublishKeeps, WithdrawKeeps
<1>3. CASE UNCHANGED fetchVars
  <2>1. UNCHANGED <<source, dark, at, feed, page, attempt, read, ended, items, answered, outcome, owed, shrunk>>
    BY <1>3 DEF fetchVars, walking, result
  <2>2. feed' \in Seq(Ads) /\ attempt' \in 0..MaxRetries /\ \A x \in Ads : Ahead(x) => Ahead(x)'
    BY <2>1 DEF FetchInv, FetchTypeOK, Ahead
  <2> QED BY <2>1, <2>2, NothingRead
<1> QED BY <1>1, <1>2, <1>3 DEF FetchNext

----------------------------------------------------------------------------
(* The invariant holds in every reachable state. *)
THEOREM FetchInvHolds == FetchSpec => []FetchInv
<1>1. FetchInit => FetchInv
  BY InitFetch
<1>2. FetchInv /\ [FetchNext]_fetchVars => FetchInv'
  BY NextFetch
<1> QED BY <1>1, <1>2, PTL DEF FetchSpec

(* The walk under way and the result so far are well-formed. *)
THEOREM FetchTypeHolds == FetchSpec => []FetchTypeOK
<1>1. FetchInv => FetchTypeOK
  BY DEF FetchInv
<1> QED BY <1>1, FetchInvHolds, PTL

(* A unit that reports an exhaustive fetch returned every ad listed when   *)
(* its walk began and not withdrawn, outside the three named cases.        *)
THEOREM ExhaustiveMeansCompleteHolds == FetchSpec => []ExhaustiveMeansComplete
<1>1. FetchInv => ExhaustiveMeansComplete
  <2> SUFFICES ASSUME FetchInv, NEW u \in DOMAIN outcome, outcome[u] = "exhaustive", ~shrunk,
                      source \in Boards => ~dark /\ source # "smartrecruiters",
                      NEW ad \in Mapped(source, Ads \ Hidden), <<u, ad>> \in owed
               PROVE  <<u, ad>> \in items
    BY DEF ExhaustiveMeansComplete
  <2>1. u \in UnitsOf(source)
    BY DEF FetchInv, FetchTypeOK
  <2>2. ad \in Ads
    BY MappedPart
  <2>3. at = "done" /\ ~AllFailed /\ Report(u, ended, answered) = "exhaustive"
    BY <2>1 DEF FetchInv, Reported, AllFailed
  <2>4. Believable /\ ~Lost(u)
    BY <2>1, <2>3, ExhaustiveFacts DEF Believable, Boards
  <2> QED BY <2>1, <2>2, <2>3, <2>4 DEF FetchInv, Promise, Owing, Coming
<1> QED BY <1>1, FetchInvHolds, PTL

----------------------------------------------------------------------------
(* On its first page a walk has read nothing yet. *)
FirstPage == at = "request" /\ page = 1 => read = {}

(* A step that ends a walk takes the fetch out of it.                      *)
LEMMA EndedWalks ==
  ASSUME NEW kept, NEW ending, EndWalk(kept, ending) \/ FailSource
  PROVE  at' # "request"
BY DEF EndWalk, FailSource

(* Every step keeps it that a first page comes before anything is read.    *)
LEMMA FirstPageNext ==
  ASSUME FetchInv, FirstPage, [FetchNext]_fetchVars
  PROVE  FirstPage'
<1>1. page \in 1..MaxPages
  BY DEF FetchInv, FetchTypeOK
<1>2. ASSUME NEW batch, NEW over, PageRead(batch, over)
      PROVE  FirstPage'
  BY <1>1, <1>2, EndedWalks, LimitsAssumption DEF PageRead, FirstPage
<1>3. CASE BeginWalk
  BY <1>3 DEF BeginWalk, FirstPage
<1>4. CASE AdzunaPage \/ InternshalaPage \/ JooblePage \/ UnstopPage
  BY <1>4, <1>2 DEF AdzunaPage, InternshalaPage, JooblePage, UnstopPage, TurnPage
<1>5. CASE \/ RemoteokFetch \/ HimalayasFetch \/ JobicyFetch \/ JobspyScrape
           \/ GreenhouseBoard \/ LeverBoard \/ AshbyBoard \/ SmartRecruitersBoard
  BY <1>5, EndedWalks DEF RemoteokFetch, HimalayasFetch, JobicyFetch, JobspyScrape, GreenhouseBoard,
     LeverBoard, AshbyBoard, SmartRecruitersBoard, OneAnswer, FirstPage
<1>6. CASE KeepPages \/ FailWalk \/ Raise
  BY <1>6, EndedWalks DEF KeepPages, FailWalk, Raise, FirstPage
<1>7. CASE Retry \/ Publish \/ Withdraw \/ UNCHANGED fetchVars
  BY <1>7 DEF Retry, Publish, Withdraw, fetchVars, walking, FirstPage
<1> QED BY <1>3, <1>4, <1>5, <1>6, <1>7 DEF FetchNext, FetchStep

(* What a walk has read is among the jobs when it ends, whether it is      *)
(* complete, capped or broken off by an error, unless the source failed.   *)
THEOREM PagesReadAreKeptHolds == FetchSpec => PagesReadAreKept
<1>1. FetchInit => FirstPage
  BY DEF FetchInit, FirstPage
<1>2. FetchInv /\ FirstPage /\ [FetchNext]_fetchVars => FirstPage'
  BY FirstPageNext
<1>3. FetchInv /\ FirstPage /\ [FetchNext]_fetchVars
        => [at = "request" /\ Len(ended') > Len(ended) =>
              \A ad \in read \cap Mapped(source, Ads) : <<unit, ad>> \in items']_fetchVars
  <2> SUFFICES ASSUME FetchInv, FirstPage, FetchNext, at = "request", Len(ended') > Len(ended),
                      NEW ad \in read, ad \in Mapped(source, Ads)
               PROVE  <<unit, ad>> \in items'
    OBVIOUS
  <2>1. Len(ended) \in Nat /\ page # 1 /\ source \in Paged
    BY DEF FetchInv, FetchTypeOK, FirstPage, OnePage
  <2>2. ended' # ended
    BY <2>1
  <2>3. ASSUME NEW kept, NEW ending, read \subseteq kept, EndWalk(kept, ending)
        PROVE  <<unit, ad>> \in items'
    <3>1. ad \in Mapped(source, kept)
      BY <2>3, MappedFacts
    <3> QED BY <2>3, <3>1 DEF EndWalk
  <2>4. ASSUME NEW batch, NEW over, PageRead(batch, over)
        PROVE  <<unit, ad>> \in items'
    BY <2>2, <2>3, <2>4 DEF PageRead, result
  <2>5. CASE AdzunaPage \/ InternshalaPage \/ JooblePage \/ UnstopPage
    BY <2>5, <2>4 DEF AdzunaPage, InternshalaPage, JooblePage, UnstopPage, TurnPage
  <2>6. CASE KeepPages
    BY <2>6, <2>3 DEF KeepPages
  <2>7. ~ FailWalk
    BY <2>1 DEF FailWalk
  <2>8. ~ (\/ RemoteokFetch \/ HimalayasFetch \/ JobicyFetch \/ JobspyScrape
           \/ GreenhouseBoard \/ LeverBoard \/ AshbyBoard \/ SmartRecruitersBoard)
    BY <2>1 DEF RemoteokFetch, HimalayasFetch, JobicyFetch, JobspyScrape, GreenhouseBoard,
       LeverBoard, AshbyBoard, SmartRecruitersBoard, Paged
  <2>9. ~ (BeginWalk \/ Retry \/ Raise \/ Publish \/ Withdraw)
    BY <2>2 DEF BeginWalk, Retry, Raise, FailSource, Publish, Withdraw, result
  <2> QED BY <2>5, <2>6, <2>7, <2>8, <2>9 DEF FetchNext, FetchStep
<1> QED BY <1>1, <1>2, <1>3, FetchInvHolds, PTL DEF FetchSpec, PagesReadAreKept
=============================================================================

------------------------------- MODULE Digest -------------------------------
(***************************************************************************)
(* The last steps of a run (_notify, _notify_run_summary) and its channels *)
(* (notify/): which jobs a digest announces, what the Atom feed file holds,*)
(* and what a failing channel or a dying process leaves behind.            *)
(*                                                                         *)
(* A message is the list of jobs it shows.  Sizes are counted in jobs: a   *)
(* digest of more than Fits jobs exceeds Telegram's limit and is cut inside*)
(* its HTML, which the API (external) refuses.  An e-mail has no limit.    *)
(*                                                                         *)
(* Runs follow one another: two processes whose cycles overlap would share *)
(* one temporary file of the feed, which is not modelled.                  *)
(***************************************************************************)
EXTENDS Integers, Sequences, FiniteSets, SequencesExt

CONSTANTS
  Jobs,
  Settings,          \* what is enabled, and which credentials are present
  MAX_TELEGRAM_JOBS,
  Fits,              \* jobs whose lines fit in TELEGRAM_MESSAGE_LIMIT
  MaxItems,          \* notify.rss.max_items
  Hidable,           \* jobs the user may hide
  MaxCycles          \* bound: runs

Channels == {"telegram", "email", "rss"}

ASSUME DigestAssumption ==
  /\ IsFiniteSet(Jobs) /\ "torn" \notin Jobs
  /\ Settings \subseteq [enabled : SUBSET Channels, token : BOOLEAN, recipient : BOOLEAN]
  /\ Hidable \subseteq Jobs
  /\ MaxItems \in Nat
  /\ MaxCycles \in Nat

VARIABLES
  status,    \* "absent", "new", "active"
  seen,      \* last_seen_cycle
  hidden,    \* jobs the user hid
  cycle,     \* number of the current run
  todo,      \* notifiers not called yet; then those with a summary to send
  step,      \* "idle", "payload", "notify", "summary"
  set,       \* the settings of this run
  newJobs,   \* jobs_new_in_run
  recent,    \* recent_active_jobs
  tmp,       \* the feed's temporary file
  feed_xml,      \* the feed file
  chat,      \* messages Telegram accepted: [cycle, jobs] or [cycle, summary]
  mail,      \* messages the mail server accepted
  tried      \* history: channels called, and summaries sent, in this run

digestTable == <<status, seen, hidden>>
digestLocals == <<todo, step, set, newJobs, recent>>
digestVars == <<digestTable, cycle, digestLocals, tmp, feed_xml, chat, mail, tried>>

NoFile == <<"none">>
Torn == <<"torn">>

DigestTypeOK ==
  /\ status \in [Jobs -> {"absent", "new", "active"}]
  /\ seen \in [Jobs -> 0..MaxCycles]
  /\ hidden \subseteq Jobs
  /\ cycle \in 0..MaxCycles
  /\ todo \in Seq(Channels)
  /\ step \in {"idle", "payload", "notify", "summary"}
  /\ set \in Settings
  /\ newJobs \subseteq Jobs
  /\ recent \in Seq(Jobs) /\ Len(recent) <= MaxItems
  /\ tmp \in {NoFile, Torn} \/ tmp \in Seq(Jobs)
  /\ feed_xml \in {NoFile, Torn} \/ feed_xml \in Seq(Jobs)
  /\ chat \subseteq [cycle : 1..MaxCycles, kind : {"digest", "summary"}, jobs : SUBSET Jobs]
  /\ mail \subseteq [cycle : 1..MaxCycles, jobs : SUBSET Jobs]
  /\ tried \subseteq Channels \cup {"summary"}

DigestInit ==
  /\ status = [j \in Jobs |-> "absent"]
  /\ seen = [j \in Jobs |-> 0]
  /\ hidden = {}
  /\ cycle = 0
  /\ todo = <<>>
  /\ step = "idle"
  /\ set \in Settings
  /\ newJobs = {}
  /\ recent = <<>>
  /\ tmp = NoFile
  /\ feed_xml = NoFile
  /\ chat = {}
  /\ mail = {}
  /\ tried = {}

----------------------------------------------------------------------------
(* What the channels read *)

StuckNewToo == {j \in Jobs : status[j] = "new"}

(* A job still 'new' because its source failed since is not new in this run*)
jobs_new_in_run == {j \in Jobs : status[j] = "new" /\ seen[j] = cycle}

(* Listed by date, then by last_seen_at: any order, which the feed keeps.  *)
recent_active_jobs ==
  LET rows == {j \in Jobs : status[j] \in {"new", "active"} /\ j \notin hidden}
  IN {SubSeq(s, 1, IF Len(s) < MaxItems THEN Len(s) ELSE MaxItems) : s \in SetToSeqs(rows)}

build_notifiers(s) ==
  (IF "telegram" \in s.enabled THEN <<"telegram">> ELSE <<>>)
  \o (IF "email" \in s.enabled THEN <<"email">> ELSE <<>>)
  \o (IF "rss" \in s.enabled THEN <<"rss">> ELSE <<>>)

(* The digest shows at most MAX_TELEGRAM_JOBS of them and counts the rest. *)
build_digest(jobs) ==
  {shown \in SUBSET jobs :
     Cardinality(shown) = IF Cardinality(jobs) < MAX_TELEGRAM_JOBS
                          THEN Cardinality(jobs) ELSE MAX_TELEGRAM_JOBS}

Cut(shown) == Cardinality(shown) > Fits

----------------------------------------------------------------------------
(* A run has stored its rows.  A source that failed leaves its rows as they*)
(* were; the others' become new or active.                                 *)
StoreRun ==
  /\ step = "idle"
  /\ cycle < MaxCycles
  /\ cycle' = cycle + 1
  /\ \E listed \in SUBSET Jobs :
       /\ status' = [j \in Jobs |->
            IF j \notin listed THEN status[j]
            ELSE IF status[j] = "absent" THEN "new" ELSE "active"]
       /\ seen' = [j \in Jobs |-> IF j \in listed THEN cycle + 1 ELSE seen[j]]
  /\ set' \in Settings
  /\ step' = "payload"
  /\ UNCHANGED <<hidden, todo, newJobs, recent, tmp, feed_xml, chat, mail, tried>>

(* _notify reads both payloads once and builds the enabled channels. *)
ReadPayloads ==
  /\ step = "payload"
  /\ newJobs' = jobs_new_in_run
  /\ recent' \in recent_active_jobs
  /\ todo' = build_notifiers(set)
  /\ step' = "notify"
  /\ UNCHANGED <<digestTable, cycle, set, tmp, feed_xml, chat, mail, tried>>

Calling(c) == step = "notify" /\ todo # <<>> /\ Head(todo) = c

Called(c) ==
  /\ todo' = Tail(todo)
  /\ tried' = tried \cup {c}
  /\ UNCHANGED <<digestTable, cycle, step, set, newJobs, recent>>

(* No new jobs, no message; no token, a dry run; and a failed post is lost.*)
NotifyTelegram ==
  /\ Calling("telegram")
  /\ Called("telegram")
  /\ \/ UNCHANGED chat
     \/ /\ newJobs # {}
        /\ set.token
        /\ \E shown \in build_digest(newJobs) :
             /\ ~Cut(shown)
             /\ chat' = chat \cup {[cycle |-> cycle, kind |-> "digest", jobs |-> shown]}
  /\ UNCHANGED <<tmp, feed_xml, mail>>

NotifyEmail ==
  /\ Calling("email")
  /\ Called("email")
  /\ \/ UNCHANGED mail
     \/ /\ newJobs # {}
        /\ set.recipient
        /\ mail' = mail \cup {[cycle |-> cycle, jobs |-> newJobs]}
  /\ UNCHANGED <<tmp, feed_xml, chat>>

WriteInPlace ==
  /\ Calling("rss")
  /\ feed_xml' \in {Torn, recent}
  /\ UNCHANGED <<digestTable, cycle, digestLocals, tmp, chat, mail, tried>>

(* The feed is written to a temporary file, which the process may not      *)
(* finish, and then replaces the old one.                                  *)
WriteFeed ==
  /\ Calling("rss")
  /\ tmp # recent
  /\ tmp' \in {Torn, recent}
  /\ UNCHANGED <<digestTable, cycle, digestLocals, feed_xml, chat, mail, tried>>

ReplaceFeed ==
  /\ Calling("rss")
  /\ tmp = recent
  /\ Called("rss")
  /\ feed_xml' = tmp
  /\ tmp' = NoFile
  /\ UNCHANGED <<chat, mail>>

RaisePastTheLoop ==
  /\ step = "notify"
  /\ todo # <<>>
  /\ todo' = <<>>
  /\ tried' = tried \cup {Head(todo)}
  /\ UNCHANGED <<digestTable, cycle, step, set, newJobs, recent, tmp, feed_xml, chat, mail>>

(* Whatever a channel raises (a bad port, a full disk) is logged, and the  *)
(* next channel is called.                                                 *)
ChannelRaises ==
  /\ step = "notify"
  /\ todo # <<>>
  /\ Called(Head(todo))
  /\ UNCHANGED <<tmp, feed_xml, chat, mail>>

(* The run is closed and its counts are committed between the digests and  *)
(* the summary, which only Telegram implements.                            *)
StartSummary ==
  /\ step = "notify"
  /\ todo = <<>>
  /\ step' = "summary"
  /\ todo' = IF "telegram" \in set.enabled THEN <<"telegram">> ELSE <<>>
  /\ UNCHANGED <<digestTable, cycle, set, newJobs, recent, tmp, feed_xml, chat, mail, tried>>

(* Sent although nothing is new; skipped without a token, lost on an error.*)
SendSummary ==
  /\ step = "summary"
  /\ todo # <<>>
  /\ todo' = Tail(todo)
  /\ tried' = tried \cup {"summary"}
  /\ \/ UNCHANGED chat
     \/ /\ set.token
        /\ chat' = chat \cup {[cycle |-> cycle, kind |-> "summary", jobs |-> {}]}
  /\ UNCHANGED <<digestTable, cycle, step, set, newJobs, recent, tmp, feed_xml, mail>>

EndRun ==
  /\ step = "summary"
  /\ todo = <<>>
  /\ step' = "idle"
  /\ newJobs' = {}
  /\ recent' = <<>>
  /\ tried' = {}
  /\ UNCHANGED <<digestTable, cycle, todo, set, tmp, feed_xml, chat, mail>>

(* The process dies at any moment; files and what was sent remain. *)
Die ==
  /\ step # "idle"
  /\ step' = "idle"
  /\ todo' = <<>>
  /\ newJobs' = {}
  /\ recent' = <<>>
  /\ tried' = {}
  /\ UNCHANGED <<digestTable, cycle, set, tmp, feed_xml, chat, mail>>

Hide ==
  /\ \E j \in Hidable :
       /\ status[j] # "absent"
       /\ hidden' = IF j \in hidden THEN hidden \ {j} ELSE hidden \cup {j}
  /\ UNCHANGED <<status, seen, cycle, digestLocals, tmp, feed_xml, chat, mail, tried>>

----------------------------------------------------------------------------
DigestNext ==
  \/ StoreRun \/ ReadPayloads
  \/ NotifyTelegram \/ NotifyEmail \/ WriteFeed \/ ReplaceFeed \/ ChannelRaises
  \/ StartSummary \/ SendSummary \/ EndRun \/ Die \/ Hide

DigestSpec == DigestInit /\ [][DigestNext]_digestVars

----------------------------------------------------------------------------
(* Properties *)

(* "Notify once, never again": over all runs, crashes and failed sources,  *)
(* no job is in two digests of a channel.                                  *)
AnnouncedOnce ==
  /\ \A m, n \in chat : m.cycle # n.cycle => m.jobs \cap n.jobs = {}
  /\ \A m, n \in mail : m.cycle # n.cycle => m.jobs \cap n.jobs = {}

(* The feed file readers see is always one whole feed, or not there yet,  *)
(* although the process may die while it writes.                           *)
FeedIsWhole == feed_xml # Torn

(* "A notifier failure NEVER fails the run": a run that did not die has    *)
(* called every enabled channel, whatever the ones before it raised, and a *)
(* quiet run still sent its summary.                                       *)
EveryChannelCalled ==
  [][/\ step = "summary" /\ todo = <<>> /\ step' = "idle"
     => /\ set.enabled \subseteq tried
        /\ "telegram" \in set.enabled => "summary" \in tried]_digestVars
=============================================================================

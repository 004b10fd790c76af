----------------------------- MODULE JobLedger -----------------------------
(***************************************************************************)
(* What the job store promises its owner, whatever cycles, crashes and     *)
(* dashboard requests do to it.  A job enters the ledger once and never    *)
(* leaves it.  It is listed while its sources show it, is announced at     *)
(* most once and only while listed, and becomes gone in two ways only: by  *)
(* lapsing (not sighted for more than GraceDays), or by being dropped,     *)
(* which never happens to a job the owner flagged.                         *)
(*                                                                         *)
(* One step may move many jobs, because one statement may update many      *)
(* rows.                                                                   *)
(***************************************************************************)
EXTENDS Integers

CONSTANTS Jobs, GraceDays

VARIABLES ledger, today

Entry == [life : {"listed", "stale", "gone"}, flagged : BOOLEAN,
          sighted : Int, told : {0, 1}]

Unknown == [life |-> "unknown"]

Init == ledger = [j \in Jobs |-> Unknown] /\ today \in Int

Enter(old, new) ==
  /\ old = Unknown
  /\ new = [life |-> "listed", flagged |-> FALSE, sighted |-> today, told |-> 0]

Sight(old, new) ==
  /\ old # Unknown
  /\ new = [old EXCEPT !.life = "listed", !.sighted = today]

Miss(old, new) ==
  /\ old.life = "listed"
  /\ new = [old EXCEPT !.life = "stale"]

Lapse(old, new) ==
  /\ old.life \in {"listed", "stale"}
  /\ old.sighted + GraceDays < today
  /\ new = [old EXCEPT !.life = "gone"]

Drop(old, new) ==
  /\ old.life \in {"listed", "stale"}
  /\ ~old.flagged
  /\ new = [old EXCEPT !.life = "gone"]

Announce(old, new) ==
  /\ old.life = "listed"
  /\ old.told = 0
  /\ new = [old EXCEPT !.told = 1]

Flag(old, new) ==
  /\ old # Unknown
  /\ new = [old EXCEPT !.flagged = ~@]

Move(old, new) ==
  \/ new = old
  \/ Enter(old, new)
  \/ Sight(old, new)
  \/ Miss(old, new)
  \/ Lapse(old, new)
  \/ Drop(old, new)
  \/ Announce(old, new)
  \/ Flag(old, new)

MoveJobs ==
  /\ DOMAIN ledger' = Jobs
  /\ \A j \in Jobs : Move(ledger[j], ledger'[j])
  /\ today' = today

PassDay == today' = today + 1 /\ ledger' = ledger

Next == MoveJobs \/ PassDay

Spec == Init /\ [][Next]_<<ledger, today>>
=============================================================================

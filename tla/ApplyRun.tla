------------------------------ MODULE ApplyRun ------------------------------
(***************************************************************************)
(* What an apply agent does (cmd_apply of cli.py, apply_to_job of          *)
(* apply/agent.py, the drivers' fill_form, apply/session.py): it tailors a *)
(* resume, loads the saved session of the site, has the form filled, waits *)
(* until the person has closed the browser, saves the session of the site  *)
(* and marks the job applied.                                              *)
(*                                                                         *)
(* Each agent is a process, and the kill switch (KillSwitch) may end it at *)
(* any step.  Agents of one site share its session file and the temporary  *)
(* file that replaces it.                                                  *)
(*                                                                         *)
(* What a fill has placed (filled, unfilled, needs_login, notes) is printed*)
(* and decides nothing, so it is left out: a session that fills the form,  *)
(* one that meets a login wall and one that places nothing go on alike.    *)
(***************************************************************************)
EXTENDS Integers, FiniteSets

CONSTANTS
  Runs,      \* agents
  Uids,      \* jobs
  JobOf,     \* the job of an agent
  Sites,     \* domains, each with one session file
  SiteOf,    \* the domain of a job's URL
  MaxDisk    \* bound: writes that fail

ASSUME ApplyAssumption ==
  /\ JobOf \in [Runs -> Uids]
  /\ SiteOf \in [Uids -> Sites]
  /\ MaxDisk \in Nat

VARIABLES
  at,         \* where an agent is
  state_of,   \* what it loaded: the session to start the browser with
  key,        \* JOBAGG_SESSION_KEY is the valid key of the saved sessions
  session,    \* session files
  tmp,        \* their temporary files
  applied,    \* jobs an agent marked applied
  disk,       \* writes that failed
  reviewed,   \* history: agents whose window was closed after fill_form handed it over
  ended,      \* history: how an agent ended
  raced       \* history: sites whose session two agents saved at once

applyVars == <<at, state_of, key, session, tmp, applied, disk, reviewed, ended, raced>>

Places == {"launched", "tailored", "loaded", "handed", "closed", "opened", "written",
           "returned", "gone"}
Ends == {"none", "failed", "os_error", "stopped", "applied"}
Contents == {"none", "torn", "whole"}

site(n) == SiteOf[JobOf[n]]

ApplyTypeOK ==
  /\ at \in [Runs -> Places]
  /\ state_of \in [Runs -> {"none", "whole"}]
  /\ key \in BOOLEAN
  /\ session \in [Sites -> Contents]
  /\ tmp \in [Sites -> Contents]
  /\ applied \subseteq Uids
  /\ disk \in 0..MaxDisk
  /\ reviewed \subseteq Runs
  /\ ended \in [Runs -> Ends]
  /\ raced \subseteq Sites
  /\ \A n \in Runs : at[n] = "gone" <=> ended[n] # "none"

ApplyInit ==
  /\ at = [n \in Runs |-> "launched"]
  /\ state_of = [n \in Runs |-> "none"]
  /\ key \in BOOLEAN
  /\ session \in [Sites -> {"none", "whole"}]
  /\ tmp = [s \in Sites |-> "none"]
  /\ applied = {}
  /\ disk = 0
  /\ reviewed = {}
  /\ ended = [n \in Runs |-> "none"]
  /\ raced = {}

----------------------------------------------------------------------------
Go(n, from, to) ==
  /\ at[n] = from
  /\ at' = [at EXCEPT ![n] = to]
  /\ UNCHANGED ended

Exit(n, how) ==
  /\ at' = [at EXCEPT ![n] = "gone"]
  /\ ended' = [ended EXCEPT ![n] = how]

(* The preconditions (the agent enabled, no auto-submit) hold; the resume  *)
(* is tailored and its PDF built.                                          *)
TailorResume(n) ==
  /\ Go(n, "launched", "tailored")
  /\ UNCHANGED <<state_of, key, session, tmp, applied, disk, reviewed, raced>>

LoadUnchecked(n) ==
  /\ Go(n, "tailored", "loaded")
  /\ state_of' = [state_of EXCEPT ![n] = session[site(n)]]
  /\ UNCHANGED <<key, session, tmp, applied, disk, reviewed, raced>>

(* No session file is no session; one the key does not open is an error    *)
(* before any work is done, never taken for "not logged in".               *)
load_state(n) ==
  /\ at[n] = "tailored"
  /\ IF session[site(n)] = "none" \/ (session[site(n)] = "whole" /\ key)
     THEN /\ Go(n, "tailored", "loaded")
          /\ state_of' = [state_of EXCEPT ![n] = session[site(n)]]
     ELSE Exit(n, "failed") /\ UNCHANGED state_of
  /\ UNCHANGED <<key, session, tmp, applied, disk, reviewed, raced>>

(* fill_form up to the wait for the person: the form is filled as far as   *)
(* the driver got, the session captured and the window handed over.  The   *)
(* model's session need not have filled anything: a login wall it could    *)
(* not pass, a result flagged as an error (which is only logged) and a     *)
(* report that names no field or cannot be parsed come here too.           *)
fill_form(n) ==
  /\ Go(n, "loaded", "handed")
  /\ UNCHANGED <<state_of, key, session, tmp, applied, disk, reviewed, raced>>

(* An exception before that: no LaTeX engine, a page that does not load, a *)
(* model whose process times out or exits with a code, or a browser closed *)
(* during the fill.                                                        *)
FillFails(n) ==
  /\ at[n] \in {"launched", "loaded"}
  /\ Exit(n, "failed")
  /\ UNCHANGED <<state_of, key, session, tmp, applied, disk, reviewed, raced>>

(* The window is closed, by the person who has reviewed and submitted, or  *)
(* not; the wait ends at any disconnection.                                *)
CloseBrowser(n) ==
  /\ Go(n, "handed", "closed")
  /\ reviewed' = reviewed \cup {n}
  /\ UNCHANGED <<state_of, key, session, tmp, applied, disk, raced>>

----------------------------------------------------------------------------
(* save_state *)

NoKeyRaises(n) ==
  /\ ~key
  /\ at[n] = "closed"
  /\ Exit(n, "failed")
  /\ UNCHANGED <<state_of, key, session, tmp, applied, disk, reviewed, raced>>

(* A ConfigError of the save is only a flag of the result. *)
SaveWithoutKey(n) ==
  /\ ~key
  /\ Go(n, "closed", "returned")
  /\ UNCHANGED <<state_of, key, session, tmp, applied, disk, reviewed, raced>>

Saving(n) == {m \in Runs \ {n} : at[m] \in {"opened", "written"} /\ site(m) = site(n)}

Raced(n) == raced' = IF Saving(n) = {} THEN raced ELSE raced \cup {site(n)}

SaveInPlace(n) ==
  /\ key
  /\ Go(n, "closed", "opened")
  /\ session' = [session EXCEPT ![site(n)] = "torn"]
  /\ tmp' = [tmp EXCEPT ![site(n)] = "torn"]
  /\ Raced(n)
  /\ UNCHANGED <<state_of, key, applied, disk, reviewed>>

(* Opening the temporary file empties it. *)
SaveOpen(n) ==
  /\ key
  /\ Go(n, "closed", "opened")
  /\ tmp' = [tmp EXCEPT ![site(n)] = "torn"]
  /\ Raced(n)
  /\ UNCHANGED <<state_of, key, session, applied, disk, reviewed>>

(* If another agent has moved the open file meanwhile, the write goes to   *)
(* the session itself; two writes to one file may leave a mixture.         *)
SaveWrite(n) ==
  /\ Go(n, "opened", "written")
  /\ \E content \in IF site(n) \in raced THEN {"torn", "whole"} ELSE {"whole"} :
       IF tmp[site(n)] = "none"
       THEN session' = [session EXCEPT ![site(n)] = content] /\ UNCHANGED tmp
       ELSE tmp' = [tmp EXCEPT ![site(n)] = content] /\ UNCHANGED session
  /\ UNCHANGED <<state_of, key, applied, disk, reviewed, raced>>

(* Where another agent moved the file, there is nothing left to move, which*)
(* is an OSError and ends the agent.                                       *)
SaveReplace(n) ==
  /\ at[n] = "written"
  /\ IF tmp[site(n)] = "none"
     THEN Exit(n, "os_error") /\ UNCHANGED <<session, tmp>>
     ELSE /\ Go(n, "written", "returned")
          /\ session' = [session EXCEPT ![site(n)] = tmp[site(n)]]
          /\ tmp' = [tmp EXCEPT ![site(n)] = "none"]
  /\ UNCHANGED <<state_of, key, applied, disk, reviewed, raced>>

(* An OSError on the way (a full disk) is not a ConfigError either.        *)
SaveRaises(n) ==
  /\ disk < MaxDisk
  /\ disk' = disk + 1
  /\ at[n] \in {"closed", "opened"}
  /\ key
  /\ Exit(n, "os_error")
  /\ UNCHANGED <<state_of, key, session, tmp, applied, reviewed, raced>>

----------------------------------------------------------------------------
MarkOnFill(n) ==
  /\ at[n] = "handed"
  /\ applied' = applied \cup {JobOf[n]}
  /\ Exit(n, "applied")
  /\ UNCHANGED <<state_of, key, session, tmp, disk, reviewed, raced>>

(* cmd_apply marks the job when apply_to_job has returned, whatever the    *)
(* result says of fields and logins.                                       *)
MarkApplied(n) ==
  /\ at[n] = "returned"
  /\ applied' = applied \cup {JobOf[n]}
  /\ Exit(n, "applied")
  /\ UNCHANGED <<state_of, key, session, tmp, disk, reviewed, raced>>

(* SIGTERM or SIGKILL, from the kill switch or at the end of the machine's *)
(* session, at any step.                                                   *)
Stopped(n) ==
  /\ at[n] # "gone"
  /\ Exit(n, "stopped")
  /\ UNCHANGED <<state_of, key, session, tmp, applied, disk, reviewed, raced>>

----------------------------------------------------------------------------
AgentStep(n) ==
  \/ TailorResume(n) \/ load_state(n) \/ fill_form(n) \/ FillFails(n)
  \/ SaveWithoutKey(n) \/ SaveOpen(n) \/ SaveWrite(n) \/ SaveReplace(n) \/ SaveRaises(n)
  \/ MarkApplied(n)

ApplyNext == \E n \in Runs : AgentStep(n) \/ CloseBrowser(n) \/ Stopped(n)

ApplySpec == ApplyInit /\ [][ApplyNext]_applyVars

----------------------------------------------------------------------------
(* Properties *)

(* "A dead launch left phantom ticks": a job is marked applied only if     *)
(* fill_form handed one of its agents' windows over and that window was    *)
(* closed afterwards; an agent that failed or was stopped before marks     *)
(* nothing.  It does not say that anything was filled: the mark does not   *)
(* depend on that (fill_form, MarkApplied).                                *)
NoTickBeforeReview == \A u \in applied : \E n \in reviewed : JobOf[n] = u

(* "Must never discard the result of a fill the human already reviewed":   *)
(* once a window handed over is closed, with a key or without one, and     *)
(* whatever the session file holds by then, the job is marked applied,     *)
(* unless the agent was stopped or an OSError met the save.                *)
ReviewedFillIsRecorded ==
  \A n \in Runs :
    n \in reviewed ~> (JobOf[n] \in applied \/ ended[n] \in {"stopped", "os_error"})

(* "A crash mid-write must never leave a truncated blob": a saved session  *)
(* is whole, wherever agents were stopped or failed, unless two agents of  *)
(* one site saved at the same time.                                        *)
SessionIsWhole == \A s \in Sites \ raced : session[s] # "torn"
=============================================================================

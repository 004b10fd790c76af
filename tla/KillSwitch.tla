----------------------------- MODULE KillSwitch -----------------------------
(***************************************************************************)
(* Launching apply agents and stopping them (apply/procs.py, and the apply *)
(* routes of routes_jobs.py).  The dashboard keeps the PIDs of the agents  *)
(* in a file that a launch appends to, and that every status poll and every*)
(* stop reads and rewrites; no lock orders these calls.                    *)
(*                                                                         *)
(* What an agent does is ApplyRun's; here it runs until it ends or is      *)
(* killed.  A write to a file empties it first, and its bytes are covered  *)
(* from the start; PIDs are of one width.  One poll and one stop at a time *)
(* meet: two polls, or two stops, of the threads of the server at once are *)
(* not modelled.                                                           *)
(***************************************************************************)
EXTENDS Integers, Sequences, FiniteSets

CONSTANTS
  Pids,
  PidsOf,       \* the PIDs the system may give to an agent
  MaxLaunches,  \* bound
  MaxTrouble    \* bound: foreign processes and deaths of the dashboard

Agents == 1..MaxLaunches
Free == 0
Stranger == MaxLaunches + 1
Callers == {"status", "stop"}

ASSUME SwitchAssumption ==
  /\ IsFiniteSet(Pids) /\ Pids # {}
  /\ MaxLaunches \in Nat
  /\ PidsOf \in [Agents -> SUBSET Pids]
  /\ MaxTrouble \in Nat

VARIABLES
  owner,      \* the process table: who has a PID
  state,      \* "unborn", "running", "gone"
  pid,        \* the PID of an agent
  launching,  \* agents spawned and not registered yet
  registry,   \* the file of PIDs
  call,       \* where a call of the dashboard is
  live,       \* the PIDs it found to be agents
  trouble,
  listed,     \* history: running agents that were registered
  due,        \* history: those the current stop has to reach
  lost,       \* history: agents whose registration met another call
  reused      \* history: PIDs taken by a stranger since the stop looked

processes == <<owner, state, pid>>
calls == <<call, live, launching>>
histories == <<listed, due, lost, reused>>
switchVars == <<processes, registry, calls, trouble, histories>>

Steps == {"idle", "read", "emptied", "found", "grace", "clear"}
PidsIn(s) == {s[i] : i \in DOMAIN s}

SwitchTypeOK ==
  /\ owner \in [Pids -> Agents \cup {Free, Stranger}]
  /\ state \in [Agents -> {"unborn", "running", "gone"}]
  /\ pid \in [Agents -> Pids]
  /\ launching \subseteq Agents
  /\ registry \in Seq(Pids)
  /\ call \in [Callers -> Steps]
  /\ live \in [Callers -> Seq(Pids)]
  /\ trouble \in 0..MaxTrouble
  /\ listed \subseteq Agents
  /\ due \subseteq Agents
  /\ lost \subseteq Agents
  /\ reused \subseteq Pids
  /\ \A n \in Agents : state[n] = "running" => owner[pid[n]] = n

SwitchInit ==
  /\ owner = [p \in Pids |-> Free]
  /\ state = [n \in Agents |-> "unborn"]
  /\ pid = [n \in Agents |-> CHOOSE p \in Pids : TRUE]
  /\ launching = {}
  /\ registry = <<>>
  /\ call = [c \in Callers |-> "idle"]
  /\ live = [c \in Callers |-> <<>>]
  /\ trouble = 0
  /\ listed = {} /\ due = {} /\ lost = {} /\ reused = {}

Trouble == trouble < MaxTrouble /\ trouble' = trouble + 1

----------------------------------------------------------------------------
(* job_apply, _launch_apply: the child runs before its PID is registered.  *)
Launch(n) ==
  /\ state[n] = "unborn"
  /\ \E p \in PidsOf[n] :
       /\ owner[p] = Free
       /\ owner' = [owner EXCEPT ![p] = n]
       /\ pid' = [pid EXCEPT ![n] = p]
  /\ state' = [state EXCEPT ![n] = "running"]
  /\ launching' = launching \cup {n}
  /\ UNCHANGED <<registry, call, live, trouble, histories>>

RegisterNewest(n) ==
  /\ n \in launching
  /\ launching' = launching \ {n}
  /\ registry' = <<pid[n]>>
  /\ listed' = listed \cup {n}
  /\ lost' = IF \A c \in Callers : call[c] = "idle" THEN lost ELSE lost \cup {n}
  /\ UNCHANGED <<processes, call, live, trouble, due, reused>>

(* The PID is appended, whether or not the child is still there. *)
register_pid(n) ==
  /\ n \in launching
  /\ launching' = launching \ {n}
  /\ registry' = Append(registry, pid[n])
  /\ listed' = listed \cup {n}
  /\ lost' = IF \A c \in Callers : call[c] = "idle" THEN lost ELSE lost \cup {n}
  /\ UNCHANGED <<processes, call, live, trouble, due, reused>>

AgentEnds(n) ==
  /\ state[n] = "running"
  /\ state' = [state EXCEPT ![n] = "gone"]
  /\ owner' = [owner EXCEPT ![pid[n]] = Free]
  /\ UNCHANGED <<pid, registry, calls, trouble, histories>>

----------------------------------------------------------------------------
(* live_pids, on its own (the status poll) or at the start of a stop *)

_is_apply_proc(p) == owner[p] \in Agents

(* The ways to write a set of PIDs to the file, each once: in which order  *)
(* plays no part.                                                          *)
Listings(S) ==
  {s \in [1..Cardinality(S) -> S] : \A p \in S : \E i \in DOMAIN s : s[i] = p}

Ask(c, found) ==
  /\ call[c] = "idle"
  /\ live' = [live EXCEPT ![c] = found]
  /\ call' = [call EXCEPT ![c] = "read"]
  /\ lost' = IF \E d \in Callers : call[d] = "emptied" THEN lost \cup listed ELSE lost
  /\ IF c = "stop" THEN due' = {n \in listed : state[n] = "running"} /\ reused' = {}
     ELSE UNCHANGED <<due, reused>>
  /\ UNCHANGED <<processes, registry, launching, trouble, listed>>

(* The registered PIDs whose process is an apply run.                      *)
ReadRegistry(c) ==
  \E found \in Listings({p \in PidsIn(registry) : _is_apply_proc(p)}) : Ask(c, found)

EmptyRegistry(c) ==
  /\ call[c] = "read"
  /\ call' = [call EXCEPT ![c] = "emptied"]
  /\ registry' = <<>>
  /\ UNCHANGED <<processes, live, launching, trouble, histories>>

(* The write covers what was appended to the emptied file since. *)
RewriteRegistry(c) ==
  /\ call[c] = "emptied"
  /\ registry' = live[c] \o SubSeq(registry, Len(live[c]) + 1, Len(registry))
  /\ IF c = "stop"
     THEN call' = [call EXCEPT ![c] = "found"] /\ UNCHANGED live
     ELSE call' = [call EXCEPT ![c] = "idle"] /\ live' = [live EXCEPT ![c] = <<>>]
  /\ UNCHANGED <<processes, launching, trouble, histories>>

----------------------------------------------------------------------------
(* stop_all *)

(* The signal ends the whole process group of a PID, agent or stranger.    *)
Signal(hit) ==
  /\ owner' = [p \in Pids |-> IF p \in hit THEN Free ELSE owner[p]]
  /\ state' = [n \in Agents |->
       IF state[n] = "running" /\ pid[n] \in hit THEN "gone" ELSE state[n]]
  /\ UNCHANGED <<pid, registry, live, launching, trouble, histories>>

(* SIGTERM, which some processes do not heed; then the grace period. *)
Terminate ==
  /\ call["stop"] = "found"
  /\ call' = [call EXCEPT !["stop"] = IF live["stop"] = <<>> THEN "clear" ELSE "grace"]
  /\ \E hit \in SUBSET {p \in PidsIn(live["stop"]) : owner[p] # Free} : Signal(hit)

KillUnchecked ==
  /\ call["stop"] = "grace"
  /\ call' = [call EXCEPT !["stop"] = "clear"]
  /\ Signal(PidsIn(live["stop"]))

(* SIGKILL to those that are still apply runs.  Look and signal are one    *)
(* step here, and an agent is one process with its group: the code looks   *)
(* at the leader only, so that a child outliving it is left alone.         *)
Kill ==
  /\ call["stop"] = "grace"
  /\ call' = [call EXCEPT !["stop"] = "clear"]
  /\ Signal({p \in PidsIn(live["stop"]) : _is_apply_proc(p)})

ClearRegistry ==
  /\ call["stop"] = "clear"
  /\ call' = [call EXCEPT !["stop"] = "idle"]
  /\ live' = [live EXCEPT !["stop"] = <<>>]
  /\ registry' = <<>>
  /\ due' = {}
  /\ UNCHANGED <<processes, launching, trouble, listed, lost, reused>>

----------------------------------------------------------------------------
(* The dashboard dies; its agents, in sessions of their own, go on.        *)
DashboardDies ==
  /\ Trouble
  /\ launching' = {}
  /\ call' = [c \in Callers |-> "idle"]
  /\ live' = [c \in Callers |-> <<>>]
  /\ due' = {}
  /\ lost' = IF \E c \in Callers : call[c] = "emptied" THEN lost \cup listed ELSE lost
  /\ UNCHANGED <<processes, registry, listed, reused>>

(* The rest of the machine takes PIDs. *)
StrangerStarts ==
  /\ Trouble
  /\ \E p \in Pids :
       /\ owner[p] = Free
       /\ owner' = [owner EXCEPT ![p] = Stranger]
       /\ reused' = reused \cup {p}
  /\ UNCHANGED <<state, pid, registry, calls, listed, due, lost>>

----------------------------------------------------------------------------
SwitchNext ==
  \/ \E n \in Agents : Launch(n) \/ register_pid(n) \/ AgentEnds(n)
  \/ \E c \in Callers : ReadRegistry(c) \/ EmptyRegistry(c) \/ RewriteRegistry(c)
  \/ Terminate \/ Kill \/ ClearRegistry
  \/ DashboardDies
  \/ StrangerStarts

SwitchSpec == SwitchInit /\ [][SwitchNext]_switchVars

----------------------------------------------------------------------------
(* Properties *)

(* "Abort every running apply agent": when a stop ends, every agent that   *)
(* was registered when it began is gone, however stuck, and whatever polls *)
(* and launches went on meanwhile.  Outside are agents whose registration  *)
(* met a call in progress, and those registered when a call read the file  *)
(* another one had just emptied, or the dashboard died there: their PIDs   *)
(* may be lost, and then no stop finds them.                               *)
StopReachesEveryAgent ==
  call["stop"] = "clear" => \A n \in due \ lost : state[n] = "gone"

(* "A reused PID is never signalled": a process that is not an apply run   *)
(* is hit only by SIGTERM, and only if it took the PID after the stop had  *)
(* looked; a PID taken over while the stop waits out the grace period      *)
(* never meets SIGKILL.                                                    *)
OnlyAgentsSignalled ==
  [][\A p \in Pids : owner[p] = Stranger /\ owner'[p] # Stranger
       => p \in reused /\ call["stop"] = "found"]_switchVars
=============================================================================

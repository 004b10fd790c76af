------------------------------- MODULE MCDesk -------------------------------
(***************************************************************************)
(* An instance of what surrounds the cycle: the start of processes on an   *)
(* older database, the tailoring of resumes, the kill switch and the apply *)
(* agents.  An agent's only tie to the kill switch is that it may be       *)
(* stopped, so a behaviour follows one desk while the others rest.         *)
(***************************************************************************)
EXTENDS Migration, Tailor, KillSwitch, ApplyRun

VARIABLE desk

allVars == <<desk, migrationVars, tailorVars, switchVars, applyVars>>

----------------------------------------------------------------------------
(* Tailoring *)

Bullet(numbers, names) == [numbers |-> numbers, names |-> names]

ProjectsCase ==
  <<[name |-> "db", terms |-> {"storage"}, tech |-> {"SQLite"},
     bullets |-> <<Bullet({7}, {"SQLite"}), Bullet({}, {}), Bullet({250}, {})>>],
    [name |-> "web", terms |-> {"api"}, tech |-> {"Postgres"},
     bullets |-> <<Bullet({9}, {}), Bullet({}, {"Postgres"})>>],
    [name |-> "game", terms |-> {"api", "storage"}, tech |-> {},
     bullets |-> <<Bullet({}, {})>>]>>

SkillsCase ==
  <<[category |-> "Databases", items |-> {{"Postgres", "PostGIS"}, {"SQLite"}}],
    [category |-> "Languages", items |-> {{"Go"}}]>>

(* Bullets a model may word: true, borrowed, inflated, or a job-only name. *)
LinesCase ==
  {<<>>, <<Bullet({7}, {"SQLite"}), Bullet({250}, {})>>, <<Bullet({}, {"Postgres"}), Bullet({9}, {})>>,
   <<Bullet({99}, {})>>, <<Bullet({}, {"Kubernetes"}), Bullet({}, {}), Bullet({}, {})>>}

SkillRows ==
  {<<>>, <<[category |-> "Databases", items |-> {{"Postgres"}, {"Oracle"}}],
           [category |-> "Databases", items |-> {{"SQLite"}}]>>,
   <<[category |-> "Cloud", items |-> {{"Go"}}], [category |-> "Languages", items |-> {{"Rust"}}]>>}

RepliesCase ==
  {<<[head |-> g, lines |-> l], [head |-> h, lines |-> m], [head |-> "SKILLS", lines |-> r]>> :
     g \in {"db", "game"}, h \in {"web", "db", "invented"}, l \in LinesCase, m \in LinesCase, r \in SkillRows}

PostingsCase == {{"api"}, {"storage", "SQLite"}, {}}

----------------------------------------------------------------------------
PidsCase == [n \in Agents |-> IF n = 1 THEN {101} ELSE Pids]

JobCase == [n \in Runs |-> IF n = 3 THEN "v" ELSE "u"]

SiteCase == [u \in Uids |-> "s"]

----------------------------------------------------------------------------
MigrationRests ==
  /\ columns = Columns(SCHEMA_VERSION) /\ version = SCHEMA_VERSION
  /\ stored = {} /\ intern = {} /\ config = "edited"
  /\ pc = [p \in Procs |-> "up"] /\ current = [p \in Procs |-> 0]
  /\ next = [p \in Procs |-> 1] /\ saw = [p \in Procs |-> {}] /\ crashes = 0

ApplyRests == ApplyInit /\ key = TRUE /\ session = [s \in Sites |-> "none"]

DesksInit ==
  \/ desk = "start" /\ MigrationInit /\ TailorInit /\ SwitchInit /\ ApplyRests
  \/ desk = "tailor" /\ MigrationRests /\ TailorInit /\ SwitchInit /\ ApplyRests
  \/ desk = "switch" /\ MigrationRests /\ TailorInit /\ SwitchInit /\ ApplyRests
  \/ desk = "apply" /\ MigrationRests /\ TailorInit /\ SwitchInit /\ ApplyInit

DesksNext ==
  /\ UNCHANGED desk
  /\ \/ desk = "start" /\ MigrationNext /\ UNCHANGED <<tailorVars, switchVars, applyVars>>
     \/ desk = "tailor" /\ TailorNext /\ UNCHANGED <<migrationVars, switchVars, applyVars>>
     \/ desk = "switch" /\ SwitchNext /\ UNCHANGED <<migrationVars, tailorVars, applyVars>>
     \/ desk = "apply" /\ ApplyNext /\ UNCHANGED <<migrationVars, tailorVars, switchVars>>

(* The user starts a process again that is not up, a process goes on, and  *)
(* so does an agent; the person at the browser owes nothing.               *)
DesksSpec ==
  /\ DesksInit /\ [][DesksNext]_allVars
  /\ \A p \in Procs :
       WF_allVars(desk = "start" /\ Migrating(p) /\ UNCHANGED <<desk, tailorVars, switchVars, applyVars>>)
  /\ \A n \in Runs :
       WF_allVars(desk = "apply" /\ AgentStep(n) /\ UNCHANGED <<desk, migrationVars, tailorVars, switchVars>>)

(* The state of every desk is well-formed. *)
DesksTypeOK == MigrationTypeOK /\ TailorTypeOK /\ SwitchTypeOK /\ ApplyTypeOK
=============================================================================

----------------------------- MODULE Migration -----------------------------
(***************************************************************************)
(* The start of a process (initdb, run, serve): the schema, the forward    *)
(* migration of an older database keyed on its version, and the seed of the*)
(* configuration (storage/db.py, seed_from_yaml of config/store.py).       *)
(*                                                                         *)
(* Every ALTER TABLE commits by itself, the backfill is one transaction,   *)
(* and the version is stamped last.  A process may die between any two     *)
(* statements, and two may start at once.  Titles do not change meanwhile. *)
(***************************************************************************)
EXTENDS Integers, Sequences, FiniteSets

CONSTANTS
  Procs,
  OldRows,     \* jobs stored before the upgrade
  NewRows,     \* jobs a started process may store
  Interns,     \* jobs whose title names an internship (detect_internship)
  MaxCrashes   \* bound

ASSUME MigrationAssumption ==
  /\ OldRows \cap NewRows = {}
  /\ Interns \subseteq OldRows \cup NewRows
  /\ MaxCrashes \in Nat

SCHEMA_VERSION == 5

(* The columns in the order migrate adds them, and the version that has it.*)
Added == <<"is_internship", "extra_context", "seen", "full_description",
           "closure_checked_at">>
Since == <<2, 3, 4, 4, 5>>
Columns(v) == {Added[i] : i \in {k \in 1..5 : Since[k] <= v}}

VARIABLES
  columns,   \* columns of the jobs table that a migration may add
  version,   \* PRAGMA user_version
  stored,    \* rows of the jobs table
  intern,    \* rows whose is_internship is 1
  config,    \* "none", "seed", "edited": the config row
  pc,        \* where a process is
  current,   \* the version it read
  next,      \* the migration it is at: an index of Added, 6 when done
  saw,       \* what its last query returned: columns or rows
  crashes

database == <<columns, version, stored, intern, config>>
process == <<pc, current, next, saw>>
migrationVars == <<database, process, crashes>>

Stations == {"down", "version", "look", "alter", "titles", "backfill", "stamp",
           "seek", "seed", "up"}

MigrationTypeOK ==
  /\ columns \subseteq Columns(SCHEMA_VERSION)
  /\ version \in 0..SCHEMA_VERSION
  /\ stored \subseteq OldRows \cup NewRows
  /\ intern \subseteq stored
  /\ config \in {"none", "seed", "edited"}
  /\ pc \in [Procs -> Stations]
  /\ current \in [Procs -> 0..SCHEMA_VERSION]
  /\ next \in [Procs -> 1..6]
  /\ saw \in [Procs -> SUBSET (Columns(SCHEMA_VERSION) \cup OldRows \cup NewRows)]
  /\ crashes \in 0..MaxCrashes

(* No database yet, or one an older program made and the user configured.  *)
MigrationInit ==
  /\ \/ /\ columns = {} /\ version = 0 /\ stored = {} /\ intern = {} /\ config = "none"
     \/ /\ version \in 0..SCHEMA_VERSION
        /\ columns = Columns(version)
        /\ stored = OldRows
        /\ intern = IF version < 2 THEN {} ELSE OldRows \cap Interns
        /\ config = "edited"
  /\ pc = [p \in Procs |-> "down"]
  /\ current = [p \in Procs |-> 0]
  /\ next = [p \in Procs |-> 1]
  /\ saw = [p \in Procs |-> {}]
  /\ crashes = 0

----------------------------------------------------------------------------
Goto(p, place) == pc' = [pc EXCEPT ![p] = place]

(* executescript creates a missing jobs table with every column; only a    *)
(* database that is not there yet, which has no configuration, lacks it.   *)
Start(p) ==
  /\ pc[p] = "down"
  /\ Goto(p, "version")
  /\ columns' = IF config = "none" THEN Columns(SCHEMA_VERSION) ELSE columns
  /\ UNCHANGED <<version, stored, intern, config, current, next, saw, crashes>>

(* The first migration at or after i this process has to run.              *)
Step(v, i) ==
  LET due == {k \in i..5 : v < Since[k]}
  IN IF due = {} THEN 6 ELSE CHOOSE k \in due : \A m \in due : k <= m

(* The place after a migration; the version is stamped if it was older.    *)
Onward(p, v, i) ==
  /\ next' = [next EXCEPT ![p] = Step(v, i)]
  /\ Goto(p, IF Step(v, i) # 6 THEN "look"
             ELSE IF v < SCHEMA_VERSION THEN "stamp" ELSE "seek")

StampFirst(p) ==
  /\ pc[p] = "version"
  /\ current' = [current EXCEPT ![p] = version]
  /\ version' = SCHEMA_VERSION
  /\ Onward(p, version, 1)
  /\ UNCHANGED <<columns, stored, intern, config, saw, crashes>>

ReadVersion(p) ==
  /\ pc[p] = "version"
  /\ current' = [current EXCEPT ![p] = version]
  /\ Onward(p, version, 1)
  /\ UNCHANGED <<database, saw, crashes>>

TableInfo(p) ==
  /\ pc[p] = "look"
  /\ saw' = [saw EXCEPT ![p] = columns]
  /\ Goto(p, "alter")
  /\ UNCHANGED <<database, current, next, crashes>>

AfterColumn(p) ==
  IF next[p] = 1 THEN Goto(p, "titles") /\ UNCHANGED next
  ELSE Onward(p, current[p], next[p] + 1)

AlterAnyway(p) ==
  /\ pc[p] = "alter"
  /\ IF Added[next[p]] \in columns
     THEN Goto(p, "down") /\ UNCHANGED <<columns, next>>
     ELSE /\ columns' = columns \cup {Added[next[p]]}
          /\ AfterColumn(p)
  /\ UNCHANGED <<version, stored, intern, config, current, saw, crashes>>

(* _add_column_if_absent: a column another process added since the look is *)
(* an OperationalError, which ends this start.                             *)
AddColumnIfAbsent(p) ==
  /\ pc[p] = "alter"
  /\ LET column == Added[next[p]] IN
     IF column \in columns \ saw[p]
     THEN Goto(p, "down") /\ UNCHANGED <<columns, next>>
     ELSE /\ columns' = columns \cup {column}
          /\ AfterColumn(p)
  /\ UNCHANGED <<version, stored, intern, config, current, saw, crashes>>

(* _migrate_v2_is_internship: the titles are read, then one transaction.   *)
ReadTitles(p) ==
  /\ pc[p] = "titles"
  /\ saw' = [saw EXCEPT ![p] = stored \cap Interns]
  /\ Goto(p, "backfill")
  /\ UNCHANGED <<database, current, next, crashes>>

Backfill(p) ==
  /\ pc[p] = "backfill"
  /\ intern' = intern \cup saw[p]
  /\ Onward(p, current[p], 2)
  /\ UNCHANGED <<columns, version, stored, config, current, saw, crashes>>

Stamp(p) ==
  /\ pc[p] = "stamp"
  /\ version' = SCHEMA_VERSION
  /\ Goto(p, "seek")
  /\ UNCHANGED <<columns, stored, intern, config, current, next, saw, crashes>>

----------------------------------------------------------------------------
(* seed_from_yaml: an existing config row is left alone.                   *)
SeekConfig(p) ==
  /\ pc[p] = "seek"
  /\ Goto(p, IF config = "none" THEN "seed" ELSE "up")
  /\ UNCHANGED <<database, current, next, saw, crashes>>

(* A row inserted by another process since is an IntegrityError.           *)
SeedConfig(p) ==
  /\ pc[p] = "seed"
  /\ IF config = "none" THEN config' = "seed" /\ Goto(p, "up")
     ELSE Goto(p, "down") /\ UNCHANGED config
  /\ UNCHANGED <<columns, version, stored, intern, current, next, saw, crashes>>

----------------------------------------------------------------------------
(* What a started process does to the database: a run stores a job with the*)
(* flag its title has, and the user saves a configuration.                 *)
StoreRow(p) ==
  /\ pc[p] = "up"
  /\ \E r \in NewRows \ stored :
       /\ stored' = stored \cup {r}
       /\ intern' = IF r \in Interns THEN intern \cup {r} ELSE intern
  /\ UNCHANGED <<columns, version, config, process, crashes>>

EditConfig(p) ==
  /\ pc[p] = "up"
  /\ config = "seed"
  /\ config' = "edited"
  /\ UNCHANGED <<columns, version, stored, intern, process, crashes>>

Crash(p) ==
  /\ pc[p] # "down"
  /\ crashes < MaxCrashes
  /\ crashes' = crashes + 1
  /\ Goto(p, "down")
  /\ UNCHANGED <<database, current, next, saw>>

Migrating(p) ==
  \/ Start(p) \/ ReadVersion(p) \/ TableInfo(p) \/ AddColumnIfAbsent(p)
  \/ ReadTitles(p) \/ Backfill(p) \/ Stamp(p) \/ SeekConfig(p) \/ SeedConfig(p)

MigrationNext ==
  \E p \in Procs : Migrating(p) \/ StoreRow(p) \/ EditConfig(p) \/ Crash(p)

MigrationSpec == MigrationInit /\ [][MigrationNext]_migrationVars

----------------------------------------------------------------------------
(* Properties *)

Migrated ==
  /\ columns = Columns(SCHEMA_VERSION)
  /\ intern = stored \cap Interns

(* The version is a promise no later start looks behind: whoever died where*)
(* and whoever else was starting, a database stamped with the schema's     *)
(* version has every column and "old and new rows agree" on is_internship; *)
(* so has the one a started process works on, and it has a configuration.  *)
StampedIsMigrated ==
  /\ version = SCHEMA_VERSION => Migrated
  /\ \A p \in Procs : pc[p] = "up" => Migrated /\ config # "none"

(* After any crashes and refused starts, the processes the user starts     *)
(* again are up in the end: no half of a migration stops the next start.   *)
EveryStartSucceeds == <>[](\A p \in Procs : pc[p] = "up")
=============================================================================

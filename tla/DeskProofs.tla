------------------------------ MODULE DeskProofs ------------------------------
(***************************************************************************)
(* What is proved of what surrounds the cycle, for any processes and rows, *)
(* PIDs, agents, jobs and sites.                                           *)
(*                                                                         *)
(* Migration: a database whose version says so is migrated.  The invariant *)
(* follows each process through the list of columns: what it has passed is *)
(* in the table, and past the backfill the flags agree with the titles.    *)
(*                                                                         *)
(* KillSwitch: when a stop ends, the agents it had to reach are gone, and  *)
(* the only strangers signalled took a PID between the look and SIGTERM.   *)
(* The invariant says where the PID of a running agent is while the file   *)
(* is rewritten: in the file, or in what the call that emptied it is about *)
(* to write.                                                               *)
(*                                                                         *)
(* ApplyRun: no job is marked applied before a window handed over for it   *)
(* was closed, whatever was filled in it, and a saved session is whole     *)
(* unless two agents of one site saved at once.  The invariant says that   *)
(* an agent saving alone has the temporary file to itself.                 *)
(*                                                                         *)
(* MCDesk: every desk of the composition keeps its own invariant.          *)
(***************************************************************************)
EXTENDS MCDesk, TailorProofs

----------------------------------------------------------------------------
(* Migration *)

(* The place the migration of p has reached, while it runs.                *)
Inside == {"look", "alter", "titles", "backfill", "stamp"}

(* The version a process read may be an older one by now.                  *)
HasRead(p) == Columns(current[p]) \subseteq columns /\ current[p] <= version

PassedColumns(p) ==
  pc[p] \in Inside => \A k \in 1..5 : k < next[p] => Added[k] \in columns

PassedBackfill(p) ==
  pc[p] \in Inside /\ next[p] > 1 => intern = stored \cap Interns

AtPlace(p) ==
  /\ pc[p] \in {"look", "alter"} => next[p] \in 1..5
  /\ pc[p] \in {"titles", "backfill"} => next[p] = 1 /\ Added[1] \in columns
  /\ pc[p] = "backfill" => saw[p] \subseteq stored \cap Interns
                           /\ stored \cap Interns \subseteq intern \cup saw[p]
  /\ pc[p] = "stamp" => next[p] = 6
  /\ pc[p] \in {"seek", "seed", "up"} => version = SCHEMA_VERSION
  /\ pc[p] = "up" => config # "none"

Database ==
  /\ \A k \in 1..5 : Since[k] <= version => Added[k] \in columns
  /\ intern \subseteq stored \cap Interns
  /\ version >= 2 => intern = stored \cap Interns

MigrationInv ==
  /\ MigrationTypeOK
  /\ Database
  /\ \A p \in Procs : HasRead(p) /\ AtPlace(p) /\ PassedColumns(p) /\ PassedBackfill(p)

(* The list of migrations: its first column came with version 2, and every *)
(* later one by version 5.                                                 *)
LEMMA SinceFacts ==
  /\ \A k \in 1..5 : Since[k] \in 2..5
  /\ Since[1] = 2
  /\ \A k \in 1..5 : k > 1 => Since[k] > 2
BY DEF Since

(* A column is one of a version's if it came with it or earlier.           *)
LEMMA ColumnsFacts ==
  /\ \A v \in Int : \A k \in 1..5 : Since[k] <= v => Added[k] \in Columns(v)
  /\ \A v \in Int : \A c : c \in Columns(v) => \E k \in 1..5 : c = Added[k] /\ Since[k] <= v
  /\ Columns(SCHEMA_VERSION) = {Added[k] : k \in 1..5}
<1>1. \A v \in Int : \A k \in 1..5 : Since[k] <= v => Added[k] \in Columns(v)
  BY DEF Columns
<1>2. \A v \in Int : \A c : c \in Columns(v) => \E k \in 1..5 : c = Added[k] /\ Since[k] <= v
  BY DEF Columns
<1>3. {k \in 1..5 : Since[k] <= SCHEMA_VERSION} = 1..5
  BY SinceFacts DEF SCHEMA_VERSION
<1> QED BY <1>1, <1>2, <1>3 DEF Columns

(* Step finds the first migration that is due: what it skips is older than *)
(* the version the process read.                                           *)
LEMMA StepFacts ==
  ASSUME NEW v \in 0..SCHEMA_VERSION, NEW i \in 1..6
  PROVE  /\ Step(v, i) \in 1..6
         /\ Step(v, i) >= i
         /\ \A k \in 1..5 : i <= k /\ k < Step(v, i) => Since[k] <= v
         /\ Step(v, i) # 6 => v < Since[Step(v, i)]
<1> DEFINE later == {k \in i..5 : v < Since[k]}
<1>1. CASE later = {}
  <2>1. Step(v, i) = 6
    BY <1>1 DEF Step
  <2> QED BY <1>1, <2>1, SinceFacts DEF SCHEMA_VERSION
<1>2. CASE later # {}
  <2>1. later \subseteq 1..5
    OBVIOUS
  <2>2. \E k \in later : \A m \in later : k <= m
    <3>1. CASE 1 \in later  BY <3>1, <2>1
    <3>2. CASE 1 \notin later /\ 2 \in later  BY <3>2, <2>1
    <3>3. CASE 1 \notin later /\ 2 \notin later /\ 3 \in later  BY <3>3, <2>1
    <3>4. CASE 1 \notin later /\ 2 \notin later /\ 3 \notin later /\ 4 \in later  BY <3>4, <2>1
    <3>5. CASE 1 \notin later /\ 2 \notin later /\ 3 \notin later /\ 4 \notin later
      BY <3>5, <2>1, <1>2
    <3> QED BY <3>1, <3>2, <3>3, <3>4, <3>5
  <2>3. Step(v, i) = CHOOSE k \in later : \A m \in later : k <= m
    BY <1>2 DEF Step
  <2>4. Step(v, i) \in later /\ \A m \in later : Step(v, i) <= m
    BY <2>2, <2>3
  <2> QED BY <2>4, SinceFacts DEF SCHEMA_VERSION
<1> QED BY <1>1, <1>2

----------------------------------------------------------------------------
(* What a process may assume of the others *)

At(p) ==
  /\ HasRead(p)
  /\ AtPlace(p) /\ PassedColumns(p) /\ PassedBackfill(p)

(* The database only moves forward: columns, rows and flags are added, no  *)
(* row is without its flag that was not so before, and the version becomes *)
(* the last one.                                                           *)
Forward ==
  /\ columns \subseteq columns'
  /\ stored \subseteq stored'
  /\ intern \subseteq intern'
  /\ intern' \subseteq stored' \cap Interns
  /\ (stored' \cap Interns) \ intern' \subseteq (stored \cap Interns) \ intern
  /\ version' \in {version, SCHEMA_VERSION}
  /\ config # "none" => config' # "none"

(* A process that does not move is not disturbed by one that does.         *)
LEMMA OthersKeep ==
  ASSUME MigrationInv, Forward, NEW q \in Procs,
         pc'[q] = pc[q], next'[q] = next[q], saw'[q] = saw[q], current'[q] = current[q]
  PROVE  At(q)'
<1>1. At(q)
  BY DEF MigrationInv, At
<1>2. HasRead(q)'
  BY <1>1 DEF At, HasRead, Forward, Columns, Added, Since, MigrationInv, MigrationTypeOK, SCHEMA_VERSION
<1>3. AtPlace(q)'
  BY <1>1 DEF At, AtPlace, Forward, Added
<1>4. PassedColumns(q)'
  BY <1>1 DEF At, PassedColumns, Forward, Added
<1>5. PassedBackfill(q)'
  BY <1>1 DEF At, PassedBackfill, Forward
<1> QED BY <1>2, <1>3, <1>4, <1>5 DEF At

(* A process that died, or whose start was refused, claims nothing.        *)
LEMMA DownKeeps ==
  ASSUME MigrationInv, columns \subseteq columns', version' = version, NEW p \in Procs,
         pc'[p] \in {"down", "version"}, current'[p] = current[p]
  PROVE  At(p)'
BY DEF MigrationInv, At, HasRead, AtPlace, PassedColumns, PassedBackfill, Inside, Columns, Added,
   Since

(* Wherever Onward leads, the columns before that place are there.         *)
LEMMA OnwardLeads ==
  ASSUME MigrationInv, NEW p \in Procs, NEW v \in 0..SCHEMA_VERSION, NEW i \in 1..6,
         Onward(p, v, i), current'[p] = v,
         v <= version', version' \in 0..SCHEMA_VERSION,
         Columns(v) \subseteq columns',
         \A k \in 1..5 : k < i => Added[k] \in columns',
         i > 1 \/ v >= 2 => intern' = stored' \cap Interns
  PROVE  /\ At(p)'
         /\ pc' \in [Procs -> Stations]
         /\ next' \in [Procs -> 1..6]
         /\ \A q \in Procs \ {p} : pc'[q] = pc[q] /\ next'[q] = next[q]
<1> DEFINE n == Step(v, i)
<1>1. n \in 1..6 /\ (\A k \in 1..5 : i <= k /\ k < n => Since[k] <= v)
      /\ (n # 6 => v < Since[n]) /\ n >= i
  BY StepFacts
<1>2. pc \in [Procs -> Stations] /\ next \in [Procs -> 1..6]
  BY DEF MigrationInv, MigrationTypeOK
<1>3. next'[p] = n /\ next' \in [Procs -> 1..6] /\ \A q \in Procs \ {p} : next'[q] = next[q]
  BY <1>1, <1>2 DEF Onward
<1>4. /\ pc'[p] = IF n # 6 THEN "look" ELSE IF v < SCHEMA_VERSION THEN "stamp" ELSE "seek"
      /\ pc' \in [Procs -> Stations]
      /\ \A q \in Procs \ {p} : pc'[q] = pc[q]
  BY <1>2 DEF Onward, Goto, Stations
<1> HIDE DEF n
<1>5. AtPlace(p)'
  <2>1. pc'[p] = "seek" => version' = SCHEMA_VERSION
    BY <1>4 DEF SCHEMA_VERSION
  <2>2. pc'[p] = "look" => next'[p] \in 1..5
    BY <1>1, <1>3, <1>4
  <2>3. pc'[p] = "stamp" => next'[p] = 6
    BY <1>3, <1>4
  <2>4. pc'[p] \in {"look", "stamp", "seek"}
    BY <1>4
  <2> QED BY <2>1, <2>2, <2>3, <2>4 DEF AtPlace
<1>6. PassedColumns(p)'
  <2>1. \A k \in 1..5 : i <= k /\ k < n => Added[k] \in columns'
    BY <1>1, ColumnsFacts DEF SCHEMA_VERSION
  <2>2. \A k \in 1..5 : k < n => Added[k] \in columns'
    BY <2>1, <1>1
  <2> QED BY <2>2, <1>3 DEF PassedColumns
<1>7. PassedBackfill(p)'
  <2>1. CASE i > 1 \/ v >= 2
    BY <2>1 DEF PassedBackfill
  <2>2. CASE ~(i > 1 \/ v >= 2)
    <3>1. i = 1 /\ v < 2
      BY <2>2 DEF SCHEMA_VERSION
    <3>2. n = 1
      BY <3>1, <1>1, SinceFacts
    <3> QED BY <3>2, <1>3 DEF PassedBackfill
  <2> QED BY <2>1, <2>2
<1> QED BY <1>3, <1>4, <1>5, <1>6, <1>7 DEF At, HasRead

----------------------------------------------------------------------------
(* The invariant *)

(* The invariant holds of a database that is not there yet and of one that *)
(* an older program made.                                                  *)
LEMMA InvInit == MigrationInit => MigrationInv
<1> SUFFICES ASSUME MigrationInit PROVE MigrationInv
  OBVIOUS
<1> USE DEF MigrationInit
<1>1. version \in 0..SCHEMA_VERSION /\ columns \subseteq Columns(SCHEMA_VERSION)
  <2>1. \A v \in 0..SCHEMA_VERSION : Columns(v) \subseteq Columns(SCHEMA_VERSION)
    BY ColumnsFacts DEF SCHEMA_VERSION
  <2> QED BY <2>1 DEF SCHEMA_VERSION
<1>2. MigrationTypeOK
  BY <1>1, MigrationAssumption DEF MigrationTypeOK, Stations, SCHEMA_VERSION
<1>3. Database
  <2>1. \A k \in 1..5 : Since[k] <= version => Added[k] \in columns
    BY <1>1, ColumnsFacts, SinceFacts DEF SCHEMA_VERSION
  <2> QED BY <2>1, MigrationAssumption DEF Database
<1>4. Columns(0) = {}
  BY ColumnsFacts, SinceFacts
<1>5. ASSUME NEW p \in Procs
      PROVE  HasRead(p) /\ AtPlace(p) /\ PassedColumns(p) /\ PassedBackfill(p)
  BY <1>1, <1>4 DEF HasRead, AtPlace, PassedColumns, PassedBackfill, Inside, SCHEMA_VERSION
<1> QED BY <1>2, <1>3, <1>5 DEF MigrationInv

(* It is enough that the process that moved is where it may be, and that   *)
(* the database moved forward.                                             *)
LEMMA Assemble ==
  ASSUME MigrationInv, MigrationTypeOK', Database', Forward, NEW p \in Procs, At(p)',
         \A q \in Procs \ {p} : pc'[q] = pc[q] /\ next'[q] = next[q]
                                 /\ saw'[q] = saw[q] /\ current'[q] = current[q]
  PROVE  MigrationInv'
<1>1. ASSUME NEW q \in Procs PROVE At(q)'
  BY OthersKeep
<1> QED BY <1>1 DEF MigrationInv, At

(* Every statement of a start preserves the invariant.                     *)
LEMMA MigratingKeeps ==
  ASSUME MigrationInv, NEW p \in Procs, Migrating(p)
  PROVE  MigrationInv'
<1> USE DEF database, process
<1>t. MigrationTypeOK /\ Database /\ At(p)
  BY DEF MigrationInv, At
<1>v. /\ version \in 0..SCHEMA_VERSION /\ current[p] \in 0..SCHEMA_VERSION
      /\ next[p] \in 1..6 /\ pc \in [Procs -> Stations]
  BY <1>t DEF MigrationTypeOK
<1>1. CASE Start(p)
  <2>1. columns \subseteq columns' /\ columns' \subseteq Columns(SCHEMA_VERSION)
    BY <1>1, <1>t DEF Start, MigrationTypeOK
  <2>2. pc'[p] = "version" /\ pc' \in [Procs -> Stations] /\ current'[p] = current[p]
    BY <1>1, <1>v DEF Start, Goto, Stations
  <2>3. MigrationTypeOK' /\ Database' /\ Forward
    BY <1>1, <1>t, <2>1, <2>2 DEF Start, MigrationTypeOK, Database, Forward, Added, Since,
       Columns, SCHEMA_VERSION
  <2> QED BY <1>1, <2>1, <2>2, <2>3, DownKeeps, Assemble DEF Start, Goto
<1>2. CASE ReadVersion(p)
  <2>1. current' = [current EXCEPT ![p] = version]
    BY <1>2 DEF ReadVersion
  <2>2. current'[p] = version /\ current' \in [Procs -> 0..SCHEMA_VERSION]
    BY <2>1, <1>t DEF MigrationTypeOK
  <2>3. Columns(version) \subseteq columns'
    BY <1>2, <1>t, <1>v, ColumnsFacts DEF ReadVersion, Database, SCHEMA_VERSION
  <2>4. version >= 2 => intern' = stored' \cap Interns
    BY <1>2, <1>t DEF ReadVersion, Database
  <2>5. /\ At(p)' /\ pc' \in [Procs -> Stations] /\ next' \in [Procs -> 1..6]
        /\ \A q \in Procs \ {p} : pc'[q] = pc[q] /\ next'[q] = next[q]
    BY <1>2, <1>v, <2>2, <2>3, <2>4, OnwardLeads DEF ReadVersion
  <2>6. MigrationTypeOK' /\ Database' /\ Forward
    BY <1>2, <1>t, <2>2, <2>5 DEF ReadVersion, MigrationTypeOK, Database, Forward, Added, Since
  <2> QED BY <1>2, <2>1, <2>5, <2>6, Assemble DEF ReadVersion
<1>3. CASE TableInfo(p)
  <2>1. pc' = [pc EXCEPT ![p] = "alter"]
    BY <1>3 DEF TableInfo, Goto
  <2>2. MigrationTypeOK' /\ Database' /\ Forward
    BY <1>3, <1>t, <2>1 DEF TableInfo, MigrationTypeOK, Database, Forward, Added, Since, Stations
  <2>3. At(p)'
    BY <1>3, <1>t, <1>v, <2>1 DEF TableInfo, At, HasRead, AtPlace, PassedColumns, PassedBackfill, Inside,
       Columns, Added, Since
  <2> QED BY <1>3, <2>1, <2>2, <2>3, Assemble DEF TableInfo
<1>4. CASE AddColumnIfAbsent(p)
  <2> DEFINE column == Added[next[p]]
  <2>1. next[p] \in 1..5 /\ pc[p] = "alter"
    BY <1>4, <1>t DEF AddColumnIfAbsent, At, AtPlace
  <2>2. CASE column \in columns \ saw[p]
    <3>1. pc' = [pc EXCEPT ![p] = "down"] /\ UNCHANGED <<columns, next>>
      BY <1>4, <2>2 DEF AddColumnIfAbsent, Goto
    <3>2. MigrationTypeOK' /\ Database' /\ Forward
      BY <1>4, <1>t, <3>1 DEF AddColumnIfAbsent, MigrationTypeOK, Database, Forward, Added,
         Since, Stations
    <3>3. At(p)'
      BY <1>4, <3>1, <1>v, DownKeeps DEF AddColumnIfAbsent
    <3> QED BY <1>4, <3>1, <3>2, <3>3, Assemble DEF AddColumnIfAbsent
  <2>3. CASE column \notin columns \ saw[p]
    <3>1. columns' = columns \cup {column} /\ AfterColumn(p)
      BY <1>4, <2>3 DEF AddColumnIfAbsent
    <3>2. /\ version' = version /\ stored' = stored /\ intern' = intern /\ config' = config
          /\ current' = current /\ saw' = saw /\ crashes' = crashes
      BY <1>4 DEF AddColumnIfAbsent
    <3>3. columns' \subseteq Columns(SCHEMA_VERSION)
      BY <3>1, <2>1, <1>t, ColumnsFacts DEF MigrationTypeOK
    <3>4. \A k \in 1..5 : k < next[p] + 1 => Added[k] \in columns'
      BY <3>1, <2>1, <1>t DEF At, PassedColumns, Inside
    <3>5. CASE next[p] = 1
      <4>1. pc' = [pc EXCEPT ![p] = "titles"] /\ next' = next
        BY <3>1, <3>5 DEF AfterColumn, Goto
      <4>2. MigrationTypeOK' /\ Database' /\ Forward
        BY <1>t, <3>1, <3>2, <3>3, <4>1 DEF MigrationTypeOK, Database, Forward, Added, Since, Stations
      <4>3. HasRead(p)'
        BY <1>t, <3>1, <3>2 DEF At, HasRead, Columns, Added, Since
      <4>4. At(p)'
        BY <1>v, <3>4, <3>5, <4>1, <4>3, <3>2 DEF At, AtPlace, PassedColumns, PassedBackfill,
           Columns, Added, Since
      <4> QED BY <3>2, <4>1, <4>2, <4>4, Assemble
    <3>6. CASE next[p] # 1
      <4>1. Onward(p, current[p], next[p] + 1)
        BY <3>1, <3>6 DEF AfterColumn
      <4>2. intern' = stored' \cap Interns
        BY <3>2, <3>6, <2>1, <1>t, <1>v DEF At, PassedBackfill, Inside
      <4>3. /\ At(p)' /\ pc' \in [Procs -> Stations] /\ next' \in [Procs -> 1..6]
            /\ \A q \in Procs \ {p} : pc'[q] = pc[q] /\ next'[q] = next[q]
        BY <1>t, <1>v, <2>1, <3>1, <3>2, <3>4, <4>1, <4>2, OnwardLeads DEF At, HasRead
      <4>4. MigrationTypeOK' /\ Database' /\ Forward
        BY <1>t, <3>1, <3>2, <3>3, <4>3 DEF MigrationTypeOK, Database, Forward, Added, Since
      <4> QED BY <3>2, <4>3, <4>4, Assemble
    <3> QED BY <3>5, <3>6
  <2> QED BY <2>2, <2>3
<1>5. CASE ReadTitles(p)
  <2>1. pc' = [pc EXCEPT ![p] = "backfill"]
    BY <1>5 DEF ReadTitles, Goto
  <2>2. MigrationTypeOK' /\ Database' /\ Forward
    BY <1>5, <1>t, <2>1 DEF ReadTitles, MigrationTypeOK, Database, Forward, Added, Since, Stations
  <2>3. saw' = [saw EXCEPT ![p] = stored \cap Interns]
    BY <1>5 DEF ReadTitles
  <2>4. saw'[p] = stored \cap Interns
    BY <2>3, <1>t DEF MigrationTypeOK
  <2>5. At(p)'
    BY <1>5, <1>t, <1>v, <2>1, <2>4 DEF ReadTitles, At, HasRead, AtPlace, PassedColumns,
       PassedBackfill, Inside, Columns, Added, Since
  <2> QED BY <1>5, <2>1, <2>2, <2>5, Assemble DEF ReadTitles
<1>6. CASE Backfill(p)
  <2>1. /\ pc[p] = "backfill" /\ next[p] = 1 /\ Added[1] \in columns
        /\ intern' = stored \cap Interns
    BY <1>6, <1>t DEF Backfill, At, AtPlace, Database
  <2>2. /\ version' = version /\ stored' = stored /\ columns' = columns /\ config' = config
        /\ current' = current /\ saw' = saw /\ crashes' = crashes
    BY <1>6 DEF Backfill
  <2>3. \A k \in 1..5 : k < 2 => Added[k] \in columns'
    BY <2>1, <2>2
  <2>4. Onward(p, current[p], 2)
    BY <1>6 DEF Backfill
  <2>5. /\ At(p)' /\ pc' \in [Procs -> Stations] /\ next' \in [Procs -> 1..6]
        /\ \A q \in Procs \ {p} : pc'[q] = pc[q] /\ next'[q] = next[q]
    BY <1>t, <1>v, <2>1, <2>2, <2>3, <2>4, OnwardLeads DEF At, HasRead
  <2>6. MigrationTypeOK' /\ Database' /\ Forward
    BY <1>t, <2>1, <2>2, <2>5 DEF MigrationTypeOK, Database, Forward, Added, Since
  <2> QED BY <2>2, <2>5, <2>6, Assemble
<1>7. CASE Stamp(p)
  <2>1. pc' = [pc EXCEPT ![p] = "seek"] /\ pc[p] = "stamp"
    BY <1>7 DEF Stamp, Goto
  <2>2. next[p] = 6 /\ intern = stored \cap Interns /\ \A k \in 1..5 : Added[k] \in columns
    BY <1>t, <2>1 DEF At, AtPlace, PassedColumns, PassedBackfill, Inside
  <2>3. Database'
    BY <1>7, <1>t, <2>2 DEF Stamp, Database, Added, Since
  <2>4. MigrationTypeOK' /\ Forward
    BY <1>7, <1>t, <2>1 DEF Stamp, MigrationTypeOK, Database, Forward, Stations, SCHEMA_VERSION
  <2>5. At(p)'
    BY <1>7, <1>t, <1>v, <2>1 DEF Stamp, At, HasRead, AtPlace, PassedColumns, PassedBackfill, Inside,
       Columns, Added, Since, SCHEMA_VERSION
  <2> QED BY <1>7, <2>1, <2>3, <2>4, <2>5, Assemble DEF Stamp
<1>8. CASE SeekConfig(p)
  <2>1. pc' = [pc EXCEPT ![p] = IF config = "none" THEN "seed" ELSE "up"] /\ pc[p] = "seek"
    BY <1>8 DEF SeekConfig, Goto
  <2>2. MigrationTypeOK' /\ Database' /\ Forward
    BY <1>8, <1>t, <2>1 DEF SeekConfig, MigrationTypeOK, Database, Forward, Added, Since, Stations
  <2>3. At(p)'
    BY <1>8, <1>t, <1>v, <2>1 DEF SeekConfig, At, HasRead, AtPlace, PassedColumns, PassedBackfill,
       Inside, Columns, Added, Since
  <2> QED BY <1>8, <2>1, <2>2, <2>3, Assemble DEF SeekConfig
<1>9. CASE SeedConfig(p)
  <2>1. pc[p] = "seed" /\ pc' = [pc EXCEPT ![p] = IF config = "none" THEN "up" ELSE "down"]
    BY <1>9 DEF SeedConfig, Goto
  <2>2. config' = IF config = "none" THEN "seed" ELSE config
    BY <1>9 DEF SeedConfig
  <2>3. MigrationTypeOK' /\ Database' /\ Forward
    BY <1>9, <1>t, <2>1, <2>2 DEF SeedConfig, MigrationTypeOK, Database, Forward, Added, Since,
       Stations
  <2>4. At(p)'
    BY <1>9, <1>t, <1>v, <2>1, <2>2 DEF SeedConfig, At, HasRead, AtPlace, PassedColumns,
       PassedBackfill, Inside, Columns, Added, Since
  <2> QED BY <1>9, <2>1, <2>3, <2>4, Assemble DEF SeedConfig
<1> QED
  BY <1>1, <1>2, <1>3, <1>4, <1>5, <1>6, <1>7, <1>8, <1>9 DEF Migrating

(* So does every step of the program and of the world around it.           *)
LEMMA InvStep == MigrationInv /\ [MigrationNext]_migrationVars => MigrationInv'
<1> SUFFICES ASSUME MigrationInv, [MigrationNext]_migrationVars PROVE MigrationInv'
  OBVIOUS
<1> USE DEF database, process
<1>t. MigrationTypeOK /\ Database
  BY DEF MigrationInv
<1>1. CASE UNCHANGED migrationVars
  BY <1>1 DEF migrationVars, MigrationInv, MigrationTypeOK, Database, HasRead, AtPlace, PassedColumns,
     PassedBackfill, Inside, Columns, Added, Since
<1>2. ASSUME NEW p \in Procs, Migrating(p) PROVE MigrationInv'
  BY <1>2, MigratingKeeps
<1>3. ASSUME NEW p \in Procs, StoreRow(p) \/ EditConfig(p) PROVE MigrationInv'
  <2>1. MigrationTypeOK' /\ Database' /\ Forward
    <3>1. CASE StoreRow(p)
      BY <3>1, <1>t, MigrationAssumption DEF StoreRow, MigrationTypeOK, Database, Forward, Added, Since
    <3>2. CASE EditConfig(p)
      BY <3>2, <1>t DEF EditConfig, MigrationTypeOK, Database, Forward, Added, Since
    <3> QED BY <1>3, <3>1, <3>2
  <2>2. UNCHANGED process
    BY <1>3 DEF StoreRow, EditConfig
  <2>3. At(p)'
    BY <2>1, <2>2, OthersKeep
  <2> QED BY <2>1, <2>2, <2>3, Assemble
<1>4. ASSUME NEW p \in Procs, Crash(p) PROVE MigrationInv'
  <2>1. pc' = [pc EXCEPT ![p] = "down"] /\ UNCHANGED <<database, current, next, saw>>
    BY <1>4 DEF Crash, Goto
  <2>2. crashes' \in 0..MaxCrashes
    BY <1>4, <1>t, MigrationAssumption DEF Crash, MigrationTypeOK
  <2>3. MigrationTypeOK' /\ Database' /\ Forward
    BY <1>t, <2>1, <2>2 DEF MigrationTypeOK, Database, Forward, Added, Since, Stations
  <2>4. At(p)'
    BY <1>t, <2>1, DownKeeps DEF MigrationTypeOK
  <2> QED BY <2>1, <2>3, <2>4, Assemble
<1> QED BY <1>1, <1>2, <1>3, <1>4 DEF MigrationNext

----------------------------------------------------------------------------
(* Every reachable state of any number of starting processes has it.       *)
THEOREM MigrationInvHolds == MigrationSpec => []MigrationInv
  BY InvInit, InvStep, PTL DEF MigrationSpec

(* Type correctness of the database and of every start.                    *)
THEOREM MigrationTypeHolds == MigrationSpec => []MigrationTypeOK
<1>1. MigrationInv => MigrationTypeOK
  BY DEF MigrationInv
<1> QED BY <1>1, MigrationInvHolds, PTL

(* No crash and no other starting process leaves a database whose version  *)
(* promises more than it holds, and no process goes to work before it is   *)
(* migrated and configured.                                                *)
THEOREM StampedIsMigratedHolds == MigrationSpec => []StampedIsMigrated
<1>1. MigrationInv => StampedIsMigrated
  <2> SUFFICES ASSUME MigrationInv PROVE StampedIsMigrated
    OBVIOUS
  <2>1. version = SCHEMA_VERSION => Migrated
    <3> SUFFICES ASSUME version = SCHEMA_VERSION PROVE Migrated
      OBVIOUS
    <3>1. \A k \in 1..5 : Added[k] \in columns
      BY SinceFacts DEF MigrationInv, Database, SCHEMA_VERSION
    <3>2. Columns(SCHEMA_VERSION) \subseteq columns
      BY <3>1, ColumnsFacts
    <3>3. intern = stored \cap Interns
      BY DEF MigrationInv, Database, SCHEMA_VERSION
    <3> QED BY <3>2, <3>3 DEF Migrated, MigrationInv, MigrationTypeOK
  <2> QED BY <2>1 DEF StampedIsMigrated, MigrationInv, AtPlace
<1> QED BY <1>1, MigrationInvHolds, PTL

----------------------------------------------------------------------------
----------------------------------------------------------------------------
(* The kill switch *)

(* The agents a stop may be held to. *)
Tracked == {n \in listed \ lost : state[n] = "running"}

(* What a call found has every tracked agent, until it has acted on it.    *)
FoundThem(c) ==
  call[c] \in {"read", "emptied", "found", "grace"}
    => \A n \in Tracked : pid[n] \in PidsIn(live[c])

(* The PID of a tracked agent is in the file, or about to be written to it.*)
Somewhere ==
  \A n \in Tracked :
    \/ pid[n] \in PidsIn(registry)
    \/ \E c \in Callers : call[c] = "emptied" /\ pid[n] \in PidsIn(live[c])

NoneLeft == call["stop"] = "clear" => Tracked = {}

Born == \A n \in listed \cup launching : state[n] # "unborn"

KnownStrangers ==
  call["stop"] # "idle"
    => \A p \in PidsIn(live["stop"]) : owner[p] = Stranger => p \in reused

SwitchInv ==
  /\ SwitchTypeOK
  /\ Born /\ due \subseteq listed
  /\ \A c \in Callers : FoundThem(c)
  /\ Somewhere
  /\ NoneLeft
  /\ KnownStrangers

----------------------------------------------------------------------------
(* Nobody else is taken for an agent.                                      *)
LEMMA OwnersDiffer ==
  Free \notin Agents /\ Stranger \notin Agents /\ Free # Stranger
BY SwitchAssumption DEF Free, Stranger, Agents

(* A listing of registered PIDs is a sequence of them, and leaves none out.*)
LEMMA ListingsFacts ==
  ASSUME NEW S \in SUBSET Pids, NEW s \in Listings(S)
  PROVE  s \in Seq(Pids) /\ PidsIn(s) = S
<1>1. IsFiniteSet(S)
  BY SwitchAssumption, FS_Subset
<1>2. Cardinality(S) \in Nat
  BY <1>1, FS_CardinalityType
<1>3. s \in [1..Cardinality(S) -> S] /\ \A p \in S : \E i \in DOMAIN s : s[i] = p
  BY DEF Listings
<1>4. s \in [1..Cardinality(S) -> Pids]
  BY <1>3
<1>5. s \in Seq(Pids)
  BY <1>2, <1>4
<1> QED BY <1>3, <1>5 DEF PidsIn

(* An empty file is a list of PIDs.                                        *)
LEMMA NoPids == <<>> \in Seq(Pids)
OBVIOUS

(* What is written over the file keeps the PIDs written.                   *)
LEMMA OverwriteFacts ==
  ASSUME NEW s \in Seq(Pids), NEW t \in Seq(Pids)
  PROVE  /\ s \o SubSeq(t, Len(s) + 1, Len(t)) \in Seq(Pids)
         /\ PidsIn(s) \subseteq PidsIn(s \o SubSeq(t, Len(s) + 1, Len(t)))
<1> DEFINE u == SubSeq(t, Len(s) + 1, Len(t))
<1>1. u \in Seq(Pids)
  OBVIOUS
<1>2. s \o u \in Seq(Pids)
  BY <1>1
<1> HIDE DEF u
<1>3. \A i \in DOMAIN s : i \in DOMAIN (s \o u) /\ (s \o u)[i] = s[i]
  BY <1>1
<1>4. PidsIn(s) \subseteq PidsIn(s \o u)
  BY <1>3 DEF PidsIn
<1> QED BY <1>2, <1>4 DEF u

(* A PID appended is one more in the file.                                 *)
LEMMA AppendFacts ==
  ASSUME NEW s \in Seq(Pids), NEW p \in Pids
  PROVE  Append(s, p) \in Seq(Pids) /\ PidsIn(Append(s, p)) = PidsIn(s) \cup {p}
<1>1. Append(s, p) \in Seq(Pids) /\ DOMAIN Append(s, p) = DOMAIN s \cup {Len(s) + 1}
  OBVIOUS
<1>2. /\ \A i \in DOMAIN s : Append(s, p)[i] = s[i]
      /\ Append(s, p)[Len(s) + 1] = p
  OBVIOUS
<1> QED BY <1>1, <1>2 DEF PidsIn

(* A call's state is what the rest of the invariant is about: when neither *)
(* the calls nor the file change and no agent becomes tracked, it holds on.*)
LEMMA FewerTracked ==
  ASSUME SwitchInv, UNCHANGED <<call, live, registry>>, Tracked' \subseteq Tracked,
         \A n \in Tracked' : pid'[n] = pid[n]
  PROVE  (\A c \in Callers : FoundThem(c))' /\ Somewhere' /\ NoneLeft'
<1>1. (\A c \in Callers : FoundThem(c))'
  BY DEF SwitchInv, FoundThem, PidsIn
<1>2. Somewhere'
  BY DEF SwitchInv, Somewhere, PidsIn
<1>3. NoneLeft'
  BY DEF SwitchInv, NoneLeft
<1> QED BY <1>1, <1>2, <1>3

----------------------------------------------------------------------------
(* At first no agent runs and the file is empty.                           *)
LEMMA InitSwitch == SwitchInit => SwitchInv
<1> SUFFICES ASSUME SwitchInit PROVE SwitchInv
  OBVIOUS
<1>1. (CHOOSE p \in Pids : TRUE) \in Pids
  BY SwitchAssumption
<1>2. SwitchTypeOK
  BY <1>1, SwitchAssumption DEF SwitchInit, SwitchTypeOK, Steps, Agents
<1> QED BY <1>2 DEF SwitchInit, SwitchInv, Born, FoundThem, Somewhere, NoneLeft, Tracked,
     KnownStrangers, Callers

(* A child runs before its PID is registered: no stop is held to it yet.   *)
LEMMA LaunchKeeps ==
  ASSUME SwitchInv, NEW n \in Agents, Launch(n)
  PROVE  SwitchInv'
<1>1. PICK p \in PidsOf[n] : owner[p] = Free /\ owner' = [owner EXCEPT ![p] = n]
                             /\ pid' = [pid EXCEPT ![n] = p]
  BY DEF Launch
<1>2. p \in Pids
  BY SwitchAssumption
<1>3. SwitchTypeOK'
  BY <1>1, <1>2, OwnersDiffer DEF SwitchInv, SwitchTypeOK, Launch, histories
<1>4. n \notin listed
  BY DEF SwitchInv, Born, Launch
<1>5. Tracked' = Tracked /\ \A m \in Tracked : pid'[m] = pid[m]
  BY <1>1, <1>4 DEF Tracked, Launch, SwitchInv, SwitchTypeOK, histories
<1>6. (\A c \in Callers : FoundThem(c))' /\ Somewhere' /\ NoneLeft'
  BY <1>5, FewerTracked DEF Launch
<1>7. Born' /\ due' \subseteq listed'
  BY DEF SwitchInv, SwitchTypeOK, Born, Launch, histories
<1>8. KnownStrangers'
  BY <1>1, <1>2, OwnersDiffer DEF SwitchInv, SwitchTypeOK, KnownStrangers, Launch, histories, PidsIn
<1> QED BY <1>3, <1>6, <1>7, <1>8 DEF SwitchInv

(* A PID that meets no call is in the file; one that does is let go of.    *)
LEMMA RegisterKeeps ==
  ASSUME SwitchInv, NEW n \in Agents, register_pid(n)
  PROVE  SwitchInv'
<1>1. registry \in Seq(Pids) /\ pid[n] \in Pids
  BY DEF SwitchInv, SwitchTypeOK
<1>2. registry' \in Seq(Pids) /\ PidsIn(registry') = PidsIn(registry) \cup {pid[n]}
  BY <1>1, AppendFacts DEF register_pid
<1>3. SwitchTypeOK'
  BY <1>2 DEF SwitchInv, SwitchTypeOK, register_pid, processes
<1>4. Born' /\ due' \subseteq listed'
  BY DEF SwitchInv, Born, register_pid, processes
<1>5. KnownStrangers'
  BY DEF SwitchInv, KnownStrangers, register_pid, processes, PidsIn
<1>6. CASE \A c \in Callers : call[c] = "idle"
  <2>1. Tracked' \subseteq Tracked \cup {n}
    BY DEF Tracked, register_pid, processes
  <2>2. Somewhere'
    BY <2>1, <1>2 DEF SwitchInv, Somewhere, register_pid, processes, PidsIn
  <2>3. (\A c \in Callers : FoundThem(c))' /\ NoneLeft'
    BY <1>6 DEF FoundThem, NoneLeft, register_pid, Callers
  <2> QED BY <2>2, <2>3, <1>3, <1>4, <1>5 DEF SwitchInv
<1>7. CASE ~ \A c \in Callers : call[c] = "idle"
  <2>1. Tracked' \subseteq Tracked
    BY <1>7 DEF Tracked, register_pid, processes
  <2>2. Somewhere'
    BY <2>1, <1>2 DEF SwitchInv, Somewhere, register_pid, processes, PidsIn
  <2>3. (\A c \in Callers : FoundThem(c))' /\ NoneLeft'
    BY <2>1 DEF SwitchInv, FoundThem, NoneLeft, register_pid, processes, PidsIn
  <2> QED BY <2>2, <2>3, <1>3, <1>4, <1>5 DEF SwitchInv
<1> QED BY <1>6, <1>7

(* An agent that ends gives its PID up.                                    *)
LEMMA EndKeeps ==
  ASSUME SwitchInv, NEW n \in Agents, AgentEnds(n)
  PROVE  SwitchInv'
<1>1. SwitchTypeOK'
  BY OwnersDiffer DEF SwitchInv, SwitchTypeOK, AgentEnds, calls, histories
<1>2. Tracked' \subseteq Tracked
  BY DEF Tracked, AgentEnds, SwitchInv, SwitchTypeOK, histories
<1>3. (\A c \in Callers : FoundThem(c))' /\ Somewhere' /\ NoneLeft'
  BY <1>2, FewerTracked DEF AgentEnds, calls
<1>4. Born' /\ due' \subseteq listed'
  BY DEF SwitchInv, SwitchTypeOK, Born, AgentEnds, calls, histories
<1>5. KnownStrangers'
  BY OwnersDiffer DEF SwitchInv, SwitchTypeOK, KnownStrangers, AgentEnds, calls, histories, PidsIn
<1> QED BY <1>1, <1>3, <1>4, <1>5 DEF SwitchInv

----------------------------------------------------------------------------
(* A call that reads the file finds every tracked agent in it, unless      *)
(* another call has emptied it: then none is tracked any more.             *)
LEMMA ReadKeeps ==
  ASSUME SwitchInv, NEW c \in Callers, ReadRegistry(c)
  PROVE  SwitchInv'
<1> DEFINE S == {p \in PidsIn(registry) : _is_apply_proc(p)}
<1>1. PICK found \in Listings(S) : Ask(c, found)
  BY DEF ReadRegistry
<1>2. S \in SUBSET Pids
  BY DEF SwitchInv, SwitchTypeOK, PidsIn
<1>3. found \in Seq(Pids) /\ PidsIn(found) = S
  BY <1>2, ListingsFacts
<1> HIDE DEF S
<1>4. /\ call' = [call EXCEPT ![c] = "read"] /\ live' = [live EXCEPT ![c] = found]
      /\ UNCHANGED <<owner, state, pid, registry, launching, trouble, listed>>
      /\ lost' = IF \E d \in Callers : call[d] = "emptied" THEN lost \cup listed ELSE lost
  BY <1>1 DEF Ask, processes
<1>5. call \in [Callers -> Steps] /\ live \in [Callers -> Seq(Pids)]
  BY DEF SwitchInv, SwitchTypeOK
<1>6. due' \subseteq listed /\ reused' \subseteq Pids
  BY <1>1 DEF Ask, SwitchInv, SwitchTypeOK
<1>7. SwitchTypeOK'
  BY <1>3, <1>4, <1>5, <1>6 DEF SwitchInv, SwitchTypeOK, Steps
<1>8. Born' /\ due' \subseteq listed'
  BY <1>4, <1>6 DEF SwitchInv, Born
<1>9. KnownStrangers'
  <2>1. CASE c = "stop"
    BY <2>1, <1>3, <1>4, <1>5, OwnersDiffer DEF KnownStrangers, S, _is_apply_proc
  <2>2. CASE c # "stop"
    <3>1. reused' = reused /\ call'["stop"] = call["stop"] /\ live'["stop"] = live["stop"]
      BY <2>2, <1>1, <1>4, <1>5 DEF Ask, Callers
    <3> QED BY <3>1, <1>4 DEF SwitchInv, KnownStrangers, PidsIn
  <2> QED BY <2>1, <2>2
<1>10. CASE \E d \in Callers : call[d] = "emptied"
  <2>1. Tracked' = {}
    BY <1>4, <1>10 DEF Tracked
  <2> QED BY <2>1, <1>7, <1>8, <1>9 DEF SwitchInv, FoundThem, Somewhere, NoneLeft
<1>11. CASE ~ \E d \in Callers : call[d] = "emptied"
  <2>1. Tracked' = Tracked
    BY <1>4, <1>11 DEF Tracked
  <2>2. \A n \in Tracked : pid[n] \in PidsIn(registry)
    BY <1>11 DEF SwitchInv, Somewhere
  <2>3. \A n \in Tracked : n \in Agents /\ owner[pid[n]] = n
    BY DEF SwitchInv, SwitchTypeOK, Tracked
  <2>4. \A n \in Tracked : pid[n] \in S
    BY <2>2, <2>3 DEF S, _is_apply_proc
  <2>5. ASSUME NEW d \in Callers PROVE FoundThem(d)'
    <3>1. CASE d = c
      BY <3>1, <2>1, <2>4, <1>3, <1>4, <1>5 DEF FoundThem
    <3>2. CASE d # c
      BY <3>2, <2>1, <1>4, <1>5 DEF SwitchInv, FoundThem, PidsIn
    <3> QED BY <3>1, <3>2
  <2>6. Somewhere'
    BY <2>1, <2>2, <1>4 DEF Somewhere, PidsIn
  <2>7. NoneLeft'
    BY <2>1, <1>4, <1>5 DEF SwitchInv, NoneLeft, Callers
  <2> QED BY <2>5, <2>6, <2>7, <1>7, <1>8, <1>9 DEF SwitchInv
<1> QED BY <1>10, <1>11

(* The call that empties the file holds what was in it.                    *)
LEMMA EmptyKeeps ==
  ASSUME SwitchInv, NEW c \in Callers, EmptyRegistry(c)
  PROVE  SwitchInv'
<1>1. SwitchTypeOK'
  BY DEF SwitchInv, SwitchTypeOK, EmptyRegistry, processes, histories, Steps
<1>2. Tracked' = Tracked /\ pid' = pid
  BY DEF Tracked, EmptyRegistry, processes, histories
<1>3. ASSUME NEW d \in Callers PROVE FoundThem(d)'
  BY <1>2 DEF SwitchInv, SwitchTypeOK, FoundThem, EmptyRegistry, PidsIn
<1>4. Somewhere'
  BY <1>2 DEF SwitchInv, SwitchTypeOK, Somewhere, FoundThem, EmptyRegistry, PidsIn
<1>5. NoneLeft' /\ KnownStrangers' /\ Born' /\ due' \subseteq listed'
  BY <1>2 DEF SwitchInv, SwitchTypeOK, NoneLeft, KnownStrangers, Born, EmptyRegistry, processes, histories,
     PidsIn
<1> QED BY <1>1, <1>3, <1>4, <1>5 DEF SwitchInv

(* What a call writes back has every tracked agent.                        *)
LEMMA RewriteKeeps ==
  ASSUME SwitchInv, NEW c \in Callers, RewriteRegistry(c)
  PROVE  SwitchInv'
<1>1. call \in [Callers -> Steps] /\ live \in [Callers -> Seq(Pids)] /\ registry \in Seq(Pids)
  BY DEF SwitchInv, SwitchTypeOK
<1>2. registry' \in Seq(Pids) /\ PidsIn(live[c]) \subseteq PidsIn(registry')
  BY <1>1, OverwriteFacts DEF RewriteRegistry
<1>3. /\ \A d \in Callers \ {c} : call'[d] = call[d] /\ live'[d] = live[d]
      /\ c = "stop" => call'[c] = "found" /\ live'[c] = live[c]
      /\ c # "stop" => call'[c] = "idle"
      /\ call' \in [Callers -> Steps] /\ live' \in [Callers -> Seq(Pids)]
  <2>1. CASE c = "stop"
    BY <2>1, <1>1 DEF RewriteRegistry, Steps
  <2>2. CASE c # "stop"
    <3>1. call' = [call EXCEPT ![c] = "idle"] /\ live' = [live EXCEPT ![c] = <<>>]
      BY <2>2 DEF RewriteRegistry
    <3> QED BY <3>1, <2>2, <1>1, NoPids DEF Steps
  <2> QED BY <2>1, <2>2
<1>4. UNCHANGED <<owner, state, pid, launching, trouble, listed, due, lost, reused>>
  BY DEF RewriteRegistry, processes, histories
<1>5. SwitchTypeOK'
  BY <1>2, <1>3, <1>4 DEF SwitchInv, SwitchTypeOK
<1>6. Tracked' = Tracked /\ call[c] = "emptied"
  BY <1>4 DEF Tracked, RewriteRegistry
<1>7. ASSUME NEW d \in Callers PROVE FoundThem(d)'
  <2>1. CASE d = c
    BY <2>1, <1>3, <1>4, <1>6 DEF SwitchInv, FoundThem, PidsIn
  <2>2. CASE d # c
    BY <2>2, <1>3, <1>4, <1>6 DEF SwitchInv, FoundThem, PidsIn
  <2> QED BY <2>1, <2>2
<1>8. Somewhere'
  BY <1>2, <1>4, <1>6 DEF SwitchInv, Somewhere, FoundThem
<1>9. NoneLeft' /\ KnownStrangers' /\ Born' /\ due' \subseteq listed'
  BY <1>3, <1>4, <1>6 DEF SwitchInv, NoneLeft, KnownStrangers, Born, Callers, PidsIn
<1> QED BY <1>5, <1>7, <1>8, <1>9 DEF SwitchInv

----------------------------------------------------------------------------
(* A signal only ends agents, and only frees PIDs.                         *)
LEMMA SignalFacts ==
  ASSUME SwitchInv, NEW hit \in SUBSET Pids, Signal(hit), call' \in [Callers -> Steps]
  PROVE  /\ SwitchTypeOK'
         /\ Tracked' = {n \in Tracked : pid[n] \notin hit}
         /\ Born' /\ due' \subseteq listed'
         /\ \A p \in Pids : owner'[p] = Stranger => owner[p] = Stranger
         /\ UNCHANGED <<pid, live, registry, reused>>
<1>1. SwitchTypeOK'
  BY SwitchAssumption, OwnersDiffer DEF SwitchInv, SwitchTypeOK, Signal, histories
<1>2. Tracked' = {n \in Tracked : pid[n] \notin hit}
  BY DEF SwitchInv, SwitchTypeOK, Tracked, Signal, histories
<1>3. Born' /\ due' \subseteq listed'
  BY DEF SwitchInv, SwitchTypeOK, Born, Signal, histories
<1>4. \A p \in Pids : owner'[p] = Stranger => owner[p] = Stranger
  BY OwnersDiffer DEF Signal
<1> QED BY <1>1, <1>2, <1>3, <1>4 DEF Signal, histories

(* SIGTERM may reach anyone in the list; if it is empty, no agent was left.*)
LEMMA TerminateKeeps ==
  ASSUME SwitchInv, Terminate
  PROVE  SwitchInv'
<1>1. PICK hit \in SUBSET {p \in PidsIn(live["stop"]) : owner[p] # Free} : Signal(hit)
  BY DEF Terminate
<1>2. hit \in SUBSET Pids
  BY <1>1 DEF SwitchInv, SwitchTypeOK, PidsIn, Callers
<1>3. call' = [call EXCEPT !["stop"] = IF live["stop"] = <<>> THEN "clear" ELSE "grace"]
      /\ call["stop"] = "found" /\ call \in [Callers -> Steps]
  BY DEF Terminate, SwitchInv, SwitchTypeOK
<1>4. call' \in [Callers -> Steps]
  BY <1>3 DEF Steps
<1>5. /\ SwitchTypeOK' /\ Tracked' \subseteq Tracked /\ Born' /\ due' \subseteq listed'
      /\ \A p \in Pids : owner'[p] = Stranger => owner[p] = Stranger
      /\ UNCHANGED <<pid, live, registry, reused>>
  BY <1>1, <1>2, <1>4, SignalFacts
<1>6. ASSUME NEW d \in Callers PROVE FoundThem(d)'
  BY <1>3, <1>5 DEF SwitchInv, FoundThem, PidsIn
<1>7. Somewhere'
  BY <1>3, <1>5 DEF SwitchInv, Somewhere, PidsIn, Callers
<1>8. NoneLeft'
  <2>1. live["stop"] = <<>> => PidsIn(live["stop"]) = {}
    BY DEF PidsIn
  <2>2. \A n \in Tracked : pid[n] \in PidsIn(live["stop"])
    BY <1>3 DEF SwitchInv, FoundThem, Callers
  <2> QED BY <2>1, <2>2, <1>3, <1>5 DEF NoneLeft, Callers
<1>9. KnownStrangers'
  BY <1>3, <1>5 DEF SwitchInv, SwitchTypeOK, KnownStrangers, PidsIn, Callers
<1> QED BY <1>5, <1>6, <1>7, <1>8, <1>9 DEF SwitchInv

(* SIGKILL ends every tracked agent: each is in the list and an apply run. *)
LEMMA KillKeeps ==
  ASSUME SwitchInv, Kill
  PROVE  SwitchInv'
<1> DEFINE hit == {p \in PidsIn(live["stop"]) : _is_apply_proc(p)}
<1>1. Signal(hit)
  BY DEF Kill
<1>2. hit \in SUBSET Pids
  BY DEF SwitchInv, SwitchTypeOK, PidsIn, Callers
<1>3. call' = [call EXCEPT !["stop"] = "clear"] /\ call["stop"] = "grace" /\ call \in [Callers -> Steps]
  BY DEF Kill, SwitchInv, SwitchTypeOK
<1>4. call' \in [Callers -> Steps]
  BY <1>3 DEF Steps
<1>5. \A n \in Tracked : pid[n] \in hit
  <2>1. \A n \in Tracked : pid[n] \in PidsIn(live["stop"])
    BY <1>3 DEF SwitchInv, FoundThem, Callers
  <2>2. \A n \in Tracked : n \in Agents /\ owner[pid[n]] = n
    BY DEF SwitchInv, SwitchTypeOK, Tracked
  <2> QED BY <2>1, <2>2 DEF _is_apply_proc
<1> HIDE DEF hit
<1>6. /\ SwitchTypeOK' /\ Tracked' = {} /\ Born' /\ due' \subseteq listed'
      /\ \A p \in Pids : owner'[p] = Stranger => owner[p] = Stranger
      /\ UNCHANGED <<pid, live, registry, reused>>
  BY <1>1, <1>2, <1>4, <1>5, SignalFacts
<1>7. KnownStrangers'
  BY <1>3, <1>6 DEF SwitchInv, SwitchTypeOK, KnownStrangers, PidsIn, Callers
<1> QED BY <1>6, <1>7 DEF SwitchInv, FoundThem, Somewhere, NoneLeft

(* The file may be cleared: no tracked agent is left.                      *)
LEMMA ClearKeeps ==
  ASSUME SwitchInv, ClearRegistry
  PROVE  SwitchInv'
<1>1. SwitchTypeOK'
  <2>1. registry' \in Seq(Pids) /\ live' \in [Callers -> Seq(Pids)]
    BY NoPids DEF SwitchInv, SwitchTypeOK, ClearRegistry
  <2>2. call' \in [Callers -> Steps]
    BY DEF SwitchInv, SwitchTypeOK, ClearRegistry, Steps
  <2> QED BY <2>1, <2>2 DEF SwitchInv, SwitchTypeOK, ClearRegistry, processes
<1>2. Tracked' = {}
  BY DEF SwitchInv, NoneLeft, Tracked, ClearRegistry, processes
<1>3. Born' /\ due' \subseteq listed'
  BY DEF SwitchInv, Born, ClearRegistry, processes
<1>4. KnownStrangers'
  BY DEF SwitchInv, SwitchTypeOK, KnownStrangers, ClearRegistry, Callers
<1> QED BY <1>1, <1>2, <1>3, <1>4 DEF SwitchInv, FoundThem, Somewhere, NoneLeft

----------------------------------------------------------------------------
(* A dashboard that dies with the file emptied lets go of what was in it.  *)
LEMMA DeathKeeps ==
  ASSUME SwitchInv, DashboardDies
  PROVE  SwitchInv'
<1>1. SwitchTypeOK'
  BY SwitchAssumption DEF SwitchInv, SwitchTypeOK, DashboardDies, Trouble, processes, Steps
<1>2. Born' /\ due' \subseteq listed'
  BY DEF SwitchInv, Born, DashboardDies, processes
<1>3. (\A c \in Callers : FoundThem(c))' /\ NoneLeft' /\ KnownStrangers'
  BY DEF FoundThem, NoneLeft, KnownStrangers, DashboardDies, Callers
<1>4. Somewhere'
  BY DEF SwitchInv, Somewhere, Tracked, DashboardDies, processes
<1> QED BY <1>1, <1>2, <1>3, <1>4 DEF SwitchInv

(* A stranger takes no PID of an agent, and is noted.                      *)
LEMMA StrangerKeeps ==
  ASSUME SwitchInv, StrangerStarts
  PROVE  SwitchInv'
<1>1. SwitchTypeOK'
  BY SwitchAssumption, OwnersDiffer DEF SwitchInv, SwitchTypeOK, StrangerStarts, Trouble, calls
<1>2. Tracked' = Tracked
  BY DEF Tracked, StrangerStarts, calls
<1>3. (\A c \in Callers : FoundThem(c))' /\ Somewhere' /\ NoneLeft'
  BY <1>2, FewerTracked DEF StrangerStarts, calls
<1>4. Born' /\ due' \subseteq listed'
  BY DEF SwitchInv, Born, StrangerStarts, calls
<1>5. KnownStrangers'
  BY DEF SwitchInv, SwitchTypeOK, KnownStrangers, StrangerStarts, calls, PidsIn
<1> QED BY <1>1, <1>3, <1>4, <1>5 DEF SwitchInv

(* Every step keeps the invariant.                                         *)
LEMMA NextSwitch == SwitchInv /\ [SwitchNext]_switchVars => SwitchInv'
<1> SUFFICES ASSUME SwitchInv, [SwitchNext]_switchVars PROVE SwitchInv'
  OBVIOUS
<1>1. CASE \E n \in Agents : Launch(n) \/ register_pid(n) \/ AgentEnds(n)
  BY <1>1, LaunchKeeps, RegisterKeeps, EndKeeps
<1>2. CASE \E c \in Callers : ReadRegistry(c) \/ EmptyRegistry(c) \/ RewriteRegistry(c)
  BY <1>2, ReadKeeps, EmptyKeeps, RewriteKeeps
<1>3. CASE Terminate \/ Kill \/ ClearRegistry
  BY <1>3, TerminateKeeps, KillKeeps, ClearKeeps
<1>4. CASE DashboardDies \/ StrangerStarts
  BY <1>4, DeathKeeps, StrangerKeeps
<1>5. CASE UNCHANGED switchVars
  BY <1>5 DEF switchVars, processes, calls, histories, SwitchInv, SwitchTypeOK, Born, FoundThem,
     Somewhere, NoneLeft, KnownStrangers, Tracked, PidsIn
<1> QED BY <1>1, <1>2, <1>3, <1>4, <1>5 DEF SwitchNext

----------------------------------------------------------------------------
(* The invariant holds in every reachable state.                           *)
THEOREM SwitchInvHolds == SwitchSpec => []SwitchInv
<1>1. SwitchInit => SwitchInv
  BY InitSwitch
<1>2. SwitchInv /\ [SwitchNext]_switchVars => SwitchInv'
  BY NextSwitch
<1> QED BY <1>1, <1>2, PTL DEF SwitchSpec

(* The process table, the file of PIDs and the calls are well-formed; the  *)
(* PID of an agent that runs is its own.                                   *)
THEOREM SwitchTypeHolds == SwitchSpec => []SwitchTypeOK
<1>1. SwitchInv => SwitchTypeOK
  BY DEF SwitchInv
<1> QED BY <1>1, SwitchInvHolds, PTL

(* When a stop ends, every agent registered when it began is gone, unless  *)
(* its registration met another call.                                      *)
THEOREM StopReachesEveryAgentHolds == SwitchSpec => []StopReachesEveryAgent
<1>1. SwitchInv => StopReachesEveryAgent
  BY DEF SwitchInv, SwitchTypeOK, StopReachesEveryAgent, NoneLeft, Born, Tracked
<1> QED BY <1>1, SwitchInvHolds, PTL

(* Only SIGTERM reaches a process that is not an apply run, and only one   *)
(* that took its PID after the stop had looked.                            *)
THEOREM OnlyAgentsSignalledHolds == SwitchSpec => OnlyAgentsSignalled
<1>1. SwitchInv /\ [SwitchNext]_switchVars
        => [\A p \in Pids : owner[p] = Stranger /\ owner'[p] # Stranger
              => p \in reused /\ call["stop"] = "found"]_switchVars
  <2> SUFFICES ASSUME SwitchInv, SwitchNext, NEW p \in Pids, owner[p] = Stranger, owner'[p] # Stranger
               PROVE  p \in reused /\ call["stop"] = "found"
    OBVIOUS
  <2>1. CASE \E n \in Agents : Launch(n)
    BY <2>1, OwnersDiffer DEF Launch, SwitchInv, SwitchTypeOK
  <2>2. CASE \E n \in Agents : register_pid(n)
    BY <2>2 DEF register_pid, processes
  <2>3. CASE \E n \in Agents : AgentEnds(n)
    BY <2>3, OwnersDiffer DEF AgentEnds, SwitchInv, SwitchTypeOK
  <2>4. CASE \E c \in Callers : ReadRegistry(c) \/ EmptyRegistry(c) \/ RewriteRegistry(c)
    BY <2>4 DEF ReadRegistry, Ask, EmptyRegistry, RewriteRegistry, processes
  <2>5. CASE Terminate
    BY <2>5 DEF Terminate, Signal, SwitchInv, KnownStrangers
  <2>6. CASE Kill
    BY <2>6, OwnersDiffer DEF Kill, Signal, _is_apply_proc
  <2>7. CASE ClearRegistry \/ DashboardDies
    BY <2>7 DEF ClearRegistry, DashboardDies, processes
  <2>8. CASE StrangerStarts
    BY <2>8 DEF StrangerStarts, SwitchInv, SwitchTypeOK
  <2> QED BY <2>1, <2>2, <2>3, <2>4, <2>5, <2>6, <2>7, <2>8 DEF SwitchNext
<1> QED BY <1>1, SwitchInvHolds, PTL DEF SwitchSpec, OnlyAgentsSignalled

----------------------------------------------------------------------------
(* The apply agents *)

After == {"closed", "opened", "written", "returned"}

ReviewedBefore == \A n \in Runs : at[n] \in After => n \in reviewed

Savers(s) == {n \in Runs : at[n] \in {"opened", "written"} /\ site(n) = s}

(* Where no two agents saved at once. *)
SavedAlone(s) ==
  /\ session[s] # "torn"
  /\ \A n, m \in Savers(s) : n = m
  /\ \A n \in Savers(s) :
       /\ at[n] = "opened" => tmp[s] # "none"
       /\ at[n] = "written" => tmp[s] = "whole"

ApplyInv ==
  /\ ApplyTypeOK
  /\ ReviewedBefore
  /\ NoTickBeforeReview
  /\ \A s \in Sites \ raced : SavedAlone(s)

----------------------------------------------------------------------------
(* Every agent has a site. *)
LEMMA SiteFacts == \A n \in Runs : JobOf[n] \in Uids /\ site(n) \in Sites
BY ApplyAssumption DEF site

(* At first nobody saves and no job is marked.                             *)
LEMMA InitApply == ApplyInit => ApplyInv
<1> SUFFICES ASSUME ApplyInit PROVE ApplyInv
  OBVIOUS
<1>1. ApplyTypeOK
  BY ApplyAssumption DEF ApplyInit, ApplyTypeOK, Places, Ends, Contents
<1>2. ReviewedBefore /\ NoTickBeforeReview
  BY DEF ApplyInit, ReviewedBefore, NoTickBeforeReview, After
<1>3. \A s \in Sites : SavedAlone(s)
  BY DEF ApplyInit, SavedAlone, Savers
<1> QED BY <1>1, <1>2, <1>3 DEF ApplyInv

(* A step that touches no session file and brings no agent to a save, and  *)
(* no agent past the review without it, keeps what is said of both.        *)
LEMMA AwayFromFiles ==
  ASSUME ApplyInv, ApplyTypeOK', NEW n \in Runs,
         UNCHANGED <<session, tmp, raced>>,
         \A m \in Runs \ {n} : at'[m] = at[m],
         at'[n] \notin {"opened", "written"},
         reviewed \subseteq reviewed',
         at'[n] \in After => n \in reviewed',
         applied' \subseteq applied \cup {JobOf[n]},
         applied' = applied \/ n \in reviewed'
  PROVE  ApplyInv'
<1>1. ReviewedBefore'
  BY DEF ApplyInv, ReviewedBefore
<1>2. NoTickBeforeReview'
  BY DEF ApplyInv, NoTickBeforeReview
<1>3. ASSUME NEW s \in Sites \ raced PROVE SavedAlone(s)'
  <2>1. Savers(s)' \subseteq Savers(s) /\ \A m \in Savers(s)' : at'[m] = at[m]
    BY DEF Savers, site
  <2> QED BY <2>1 DEF ApplyInv, SavedAlone
<1> QED BY <1>1, <1>2, <1>3 DEF ApplyInv

(* Moving on, an agent has not ended.                                      *)
LEMMA GoFacts ==
  ASSUME ApplyInv, NEW n \in Runs, NEW from, NEW to \in Places \ {"gone"}, from # "gone", Go(n, from, to)
  PROVE  /\ at' \in [Runs -> Places] /\ ended' \in [Runs -> Ends]
         /\ \A m \in Runs : at'[m] = "gone" <=> ended'[m] # "none"
         /\ at[n] = from /\ at'[n] = to
         /\ \A m \in Runs \ {n} : at'[m] = at[m]
BY DEF ApplyInv, ApplyTypeOK, Go

(* However it ends, it is gone. *)
LEMMA ExitFacts ==
  ASSUME ApplyInv, NEW n \in Runs, NEW how \in Ends \ {"none"}, Exit(n, how)
  PROVE  /\ at' \in [Runs -> Places] /\ ended' \in [Runs -> Ends]
         /\ \A m \in Runs : at'[m] = "gone" <=> ended'[m] # "none"
         /\ at'[n] = "gone"
         /\ \A m \in Runs \ {n} : at'[m] = at[m]
BY DEF ApplyInv, ApplyTypeOK, Exit, Places

----------------------------------------------------------------------------
(* What comes before the save moves an agent and nothing it shares.        *)
LEMMA FillKeeps ==
  ASSUME ApplyInv, NEW n \in Runs,
         TailorResume(n) \/ fill_form(n) \/ FillFails(n) \/ CloseBrowser(n) \/ Stopped(n)
  PROVE  ApplyInv'
<1>1. CASE TailorResume(n)
  <2>1. /\ at' \in [Runs -> Places] /\ ended' \in [Runs -> Ends]
        /\ \A m \in Runs : at'[m] = "gone" <=> ended'[m] # "none"
        /\ at'[n] = "tailored" /\ \A m \in Runs \ {n} : at'[m] = at[m]
    BY <1>1, GoFacts DEF TailorResume, Places
  <2>2. ApplyTypeOK'
    BY <1>1, <2>1 DEF TailorResume, ApplyInv, ApplyTypeOK
  <2> QED BY <1>1, <2>1, <2>2, AwayFromFiles DEF TailorResume, After
<1>2. CASE fill_form(n)
  <2>1. /\ at' \in [Runs -> Places] /\ ended' \in [Runs -> Ends]
        /\ \A m \in Runs : at'[m] = "gone" <=> ended'[m] # "none"
        /\ at'[n] = "handed" /\ \A m \in Runs \ {n} : at'[m] = at[m]
    BY <1>2, GoFacts DEF fill_form, Places
  <2>2. ApplyTypeOK'
    BY <1>2, <2>1 DEF fill_form, ApplyInv, ApplyTypeOK
  <2> QED BY <1>2, <2>1, <2>2, AwayFromFiles DEF fill_form, After
<1>3. CASE FillFails(n)
  <2>1. /\ at' \in [Runs -> Places] /\ ended' \in [Runs -> Ends]
        /\ \A m \in Runs : at'[m] = "gone" <=> ended'[m] # "none"
        /\ at'[n] = "gone" /\ \A m \in Runs \ {n} : at'[m] = at[m]
    BY <1>3, ExitFacts DEF FillFails, Ends
  <2>2. ApplyTypeOK'
    BY <1>3, <2>1 DEF FillFails, ApplyInv, ApplyTypeOK
  <2> QED BY <1>3, <2>1, <2>2, AwayFromFiles DEF FillFails, After
<1>4. CASE CloseBrowser(n)
  <2>1. /\ at' \in [Runs -> Places] /\ ended' \in [Runs -> Ends]
        /\ \A m \in Runs : at'[m] = "gone" <=> ended'[m] # "none"
        /\ at'[n] = "closed" /\ \A m \in Runs \ {n} : at'[m] = at[m]
    BY <1>4, GoFacts DEF CloseBrowser, Places
  <2>2. ApplyTypeOK'
    BY <1>4, <2>1 DEF CloseBrowser, ApplyInv, ApplyTypeOK
  <2> QED BY <1>4, <2>1, <2>2, AwayFromFiles DEF CloseBrowser, After
<1>5. CASE Stopped(n)
  <2>1. /\ at' \in [Runs -> Places] /\ ended' \in [Runs -> Ends]
        /\ \A m \in Runs : at'[m] = "gone" <=> ended'[m] # "none"
        /\ at'[n] = "gone" /\ \A m \in Runs \ {n} : at'[m] = at[m]
    BY <1>5, ExitFacts DEF Stopped, Ends
  <2>2. ApplyTypeOK'
    BY <1>5, <2>1 DEF Stopped, ApplyInv, ApplyTypeOK
  <2> QED BY <1>5, <2>1, <2>2, AwayFromFiles DEF Stopped, After
<1> QED BY <1>1, <1>2, <1>3, <1>4, <1>5

(* A torn session is refused, a missing one is none.                       *)
LEMMA LoadKeeps ==
  ASSUME ApplyInv, NEW n \in Runs, load_state(n)
  PROVE  ApplyInv'
<1>1. CASE session[site(n)] = "none" \/ (session[site(n)] = "whole" /\ key)
  <2>1. /\ at' \in [Runs -> Places] /\ ended' \in [Runs -> Ends]
        /\ \A m \in Runs : at'[m] = "gone" <=> ended'[m] # "none"
        /\ at'[n] = "loaded" /\ \A m \in Runs \ {n} : at'[m] = at[m]
    BY <1>1, GoFacts DEF load_state, Places
  <2>2. ApplyTypeOK'
    BY <1>1, <2>1 DEF load_state, ApplyInv, ApplyTypeOK
  <2> QED BY <2>1, <2>2, AwayFromFiles DEF load_state, After
<1>2. CASE ~ (session[site(n)] = "none" \/ (session[site(n)] = "whole" /\ key))
  <2>1. /\ at' \in [Runs -> Places] /\ ended' \in [Runs -> Ends]
        /\ \A m \in Runs : at'[m] = "gone" <=> ended'[m] # "none"
        /\ at'[n] = "gone" /\ \A m \in Runs \ {n} : at'[m] = at[m]
    BY <1>2, ExitFacts DEF load_state, Ends
  <2>2. ApplyTypeOK'
    BY <1>2, <2>1 DEF load_state, ApplyInv, ApplyTypeOK
  <2> QED BY <2>1, <2>2, AwayFromFiles DEF load_state, After
<1> QED BY <1>1, <1>2

(* An agent at the save was reviewed; one that gives up shares nothing.    *)
LEMMA LeavesSave ==
  ASSUME ApplyInv, NEW n \in Runs, SaveWithoutKey(n) \/ SaveRaises(n) \/ MarkApplied(n)
  PROVE  ApplyInv'
<1>1. CASE SaveWithoutKey(n)
  <2>1. /\ at' \in [Runs -> Places] /\ ended' \in [Runs -> Ends]
        /\ \A m \in Runs : at'[m] = "gone" <=> ended'[m] # "none"
        /\ at[n] = "closed" /\ at'[n] = "returned" /\ \A m \in Runs \ {n} : at'[m] = at[m]
    BY <1>1, GoFacts DEF SaveWithoutKey, Places
  <2>2. ApplyTypeOK'
    BY <1>1, <2>1 DEF SaveWithoutKey, ApplyInv, ApplyTypeOK
  <2>3. n \in reviewed
    BY <2>1 DEF ApplyInv, ReviewedBefore, After
  <2> QED BY <1>1, <2>1, <2>2, <2>3, AwayFromFiles DEF SaveWithoutKey
<1>2. CASE SaveRaises(n)
  <2>1. /\ at' \in [Runs -> Places] /\ ended' \in [Runs -> Ends]
        /\ \A m \in Runs : at'[m] = "gone" <=> ended'[m] # "none"
        /\ at'[n] = "gone" /\ \A m \in Runs \ {n} : at'[m] = at[m]
    BY <1>2, ExitFacts DEF SaveRaises, Ends
  <2>2. ApplyTypeOK'
    BY <1>2, <2>1, ApplyAssumption DEF SaveRaises, ApplyInv, ApplyTypeOK
  <2> QED BY <1>2, <2>1, <2>2, AwayFromFiles DEF SaveRaises, After
<1>3. CASE MarkApplied(n)
  <2>1. /\ at' \in [Runs -> Places] /\ ended' \in [Runs -> Ends]
        /\ \A m \in Runs : at'[m] = "gone" <=> ended'[m] # "none"
        /\ at'[n] = "gone" /\ \A m \in Runs \ {n} : at'[m] = at[m]
    BY <1>3, ExitFacts DEF MarkApplied, Ends
  <2>2. ApplyTypeOK'
    BY <1>3, <2>1, SiteFacts DEF MarkApplied, ApplyInv, ApplyTypeOK
  <2>3. n \in reviewed
    BY <1>3 DEF MarkApplied, ApplyInv, ReviewedBefore, After
  <2> QED BY <1>3, <2>1, <2>2, <2>3, AwayFromFiles DEF MarkApplied, After
<1> QED BY <1>1, <1>2, <1>3

----------------------------------------------------------------------------
(* The rest of the invariant over the three steps of a save: the person has*)
(* been there, and the files of other sites stay as they are.              *)
LEMMA SaveStep ==
  ASSUME ApplyInv, ApplyTypeOK', NEW n \in Runs,
         at[n] \in After,
         \A m \in Runs \ {n} : at'[m] = at[m],
         \A s \in Sites \ {site(n)} : session'[s] = session[s] /\ tmp'[s] = tmp[s],
         UNCHANGED <<reviewed, applied>>,
         raced \subseteq raced',
         site(n) \notin raced' => SavedAlone(site(n))'
  PROVE  ApplyInv'
<1>1. ReviewedBefore' /\ NoTickBeforeReview'
  BY DEF ApplyInv, ReviewedBefore, NoTickBeforeReview
<1>2. ASSUME NEW s \in Sites \ raced', s # site(n) PROVE SavedAlone(s)'
  <2>1. Savers(s)' = Savers(s) /\ \A m \in Savers(s) : at'[m] = at[m]
    BY <1>2 DEF Savers, site
  <2>2. SavedAlone(s)
    BY <1>2 DEF ApplyInv
  <2> QED BY <1>2, <2>1, <2>2 DEF SavedAlone
<1>3. \A s \in Sites \ raced' : SavedAlone(s)'
  BY <1>2
<1> QED BY <1>1, <1>3 DEF ApplyInv

(* Who opens the temporary file while nobody else saves has it alone.      *)
LEMMA OpenKeeps ==
  ASSUME ApplyInv, NEW n \in Runs, SaveOpen(n)
  PROVE  ApplyInv'
<1> DEFINE s == site(n)
<1>1. s \in Sites
  BY SiteFacts
<1>2. /\ at' \in [Runs -> Places] /\ ended' \in [Runs -> Ends]
      /\ \A m \in Runs : at'[m] = "gone" <=> ended'[m] # "none"
      /\ at[n] = "closed" /\ at'[n] = "opened" /\ \A m \in Runs \ {n} : at'[m] = at[m]
  BY GoFacts DEF SaveOpen, Places
<1>3. tmp' = [tmp EXCEPT ![s] = "torn"] /\ session' = session /\ tmp \in [Sites -> Contents]
  BY DEF SaveOpen, ApplyInv, ApplyTypeOK
<1>4. raced' = IF Saving(n) = {} THEN raced ELSE raced \cup {s}
  BY DEF SaveOpen, Raced
<1>5. ApplyTypeOK'
  BY <1>1, <1>2, <1>3, <1>4 DEF SaveOpen, ApplyInv, ApplyTypeOK, Contents
<1>6. s \notin raced' => SavedAlone(s)'
  <2> SUFFICES ASSUME s \notin raced' PROVE SavedAlone(s)'
    OBVIOUS
  <2>1. s \notin raced /\ Saving(n) = {}
    BY <1>4
  <2>2. Savers(s)' \subseteq {n}
    BY <2>1, <1>2 DEF Savers, Saving, site
  <2>3. SavedAlone(s)
    BY <1>1, <2>1 DEF ApplyInv
  <2> QED BY <1>1, <1>2, <1>3, <2>2, <2>3 DEF SavedAlone
<1> QED BY <1>2, <1>3, <1>4, <1>5, <1>6, SaveStep DEF SaveOpen, After

(* What it writes there is whole. *)
LEMMA WriteKeeps ==
  ASSUME ApplyInv, NEW n \in Runs, SaveWrite(n)
  PROVE  ApplyInv'
<1> DEFINE s == site(n)
<1>1. s \in Sites
  BY SiteFacts
<1>2. /\ at' \in [Runs -> Places] /\ ended' \in [Runs -> Ends]
      /\ \A m \in Runs : at'[m] = "gone" <=> ended'[m] # "none"
      /\ at[n] = "opened" /\ at'[n] = "written" /\ \A m \in Runs \ {n} : at'[m] = at[m]
  BY GoFacts DEF SaveWrite, Places
<1>3. PICK content \in IF s \in raced THEN {"torn", "whole"} ELSE {"whole"} :
        IF tmp[s] = "none"
        THEN session' = [session EXCEPT ![s] = content] /\ UNCHANGED tmp
        ELSE tmp' = [tmp EXCEPT ![s] = content] /\ UNCHANGED session
  BY DEF SaveWrite
<1>4. tmp \in [Sites -> Contents] /\ session \in [Sites -> Contents] /\ content \in Contents
  BY DEF ApplyInv, ApplyTypeOK, Contents
<1>5. ApplyTypeOK'
  BY <1>1, <1>2, <1>3, <1>4 DEF SaveWrite, ApplyInv, ApplyTypeOK
<1>6. \A t \in Sites \ {s} : session'[t] = session[t] /\ tmp'[t] = tmp[t]
  BY <1>3, <1>4
<1>7. s \notin raced' => SavedAlone(s)'
  <2> SUFFICES ASSUME s \notin raced' PROVE SavedAlone(s)'
    OBVIOUS
  <2>1. s \notin raced /\ SavedAlone(s) /\ n \in Savers(s)
    BY <1>1, <1>2 DEF SaveWrite, ApplyInv, Savers
  <2>2. tmp[s] # "none" /\ content = "whole"
    BY <2>1, <1>2 DEF SavedAlone
  <2>3. tmp'[s] = "whole" /\ session'[s] = session[s]
    BY <2>2, <1>1, <1>3, <1>4
  <2>4. Savers(s)' \subseteq {n}
    BY <2>1, <1>2 DEF SavedAlone, Savers, site
  <2> QED BY <2>1, <2>3, <2>4 DEF SavedAlone
<1> QED BY <1>2, <1>5, <1>6, <1>7, SaveStep DEF SaveWrite, After

(* And that is what takes the place of the session.                        *)
LEMMA ReplaceKeeps ==
  ASSUME ApplyInv, NEW n \in Runs, SaveReplace(n)
  PROVE  ApplyInv'
<1> DEFINE s == site(n)
<1>1. s \in Sites
  BY SiteFacts
<1>2. CASE tmp[s] = "none"
  <2>1. /\ at' \in [Runs -> Places] /\ ended' \in [Runs -> Ends]
        /\ \A m \in Runs : at'[m] = "gone" <=> ended'[m] # "none"
        /\ at'[n] = "gone" /\ \A m \in Runs \ {n} : at'[m] = at[m]
    BY <1>2, ExitFacts DEF SaveReplace, Ends
  <2>2. UNCHANGED <<session, tmp, raced, reviewed, applied>>
    BY <1>2 DEF SaveReplace
  <2>3. ApplyTypeOK'
    BY <2>1, <2>2 DEF SaveReplace, ApplyInv, ApplyTypeOK
  <2> QED BY <2>1, <2>2, <2>3, AwayFromFiles DEF After
<1>3. CASE tmp[s] # "none"
  <2>1. /\ at' \in [Runs -> Places] /\ ended' \in [Runs -> Ends]
        /\ \A m \in Runs : at'[m] = "gone" <=> ended'[m] # "none"
        /\ at[n] = "written" /\ at'[n] = "returned" /\ \A m \in Runs \ {n} : at'[m] = at[m]
    BY <1>3, GoFacts DEF SaveReplace, Places
  <2>2. session' = [session EXCEPT ![s] = tmp[s]] /\ tmp' = [tmp EXCEPT ![s] = "none"]
        /\ tmp \in [Sites -> Contents] /\ session \in [Sites -> Contents]
    BY <1>3 DEF SaveReplace, ApplyInv, ApplyTypeOK
  <2>3. ApplyTypeOK'
    BY <1>1, <2>1, <2>2 DEF SaveReplace, ApplyInv, ApplyTypeOK, Contents
  <2>4. s \notin raced' => SavedAlone(s)'
    <3> SUFFICES ASSUME s \notin raced' PROVE SavedAlone(s)'
      OBVIOUS
    <3>1. SavedAlone(s) /\ n \in Savers(s)
      BY <1>1, <2>1 DEF SaveReplace, ApplyInv, Savers
    <3>2. session'[s] = "whole"
      BY <3>1, <1>1, <2>1, <2>2 DEF SavedAlone
    <3>3. Savers(s)' = {}
      BY <3>1, <2>1 DEF SavedAlone, Savers, site
    <3> QED BY <3>2, <3>3 DEF SavedAlone
  <2>5. \A t \in Sites \ {s} : session'[t] = session[t] /\ tmp'[t] = tmp[t]
    BY <2>2
  <2> QED BY <2>1, <2>3, <2>4, <2>5, SaveStep DEF SaveReplace, After
<1> QED BY <1>2, <1>3

----------------------------------------------------------------------------
(* Every step keeps the invariant. *)
LEMMA NextApply == ApplyInv /\ [ApplyNext]_applyVars => ApplyInv'
<1> SUFFICES ASSUME ApplyInv, [ApplyNext]_applyVars PROVE ApplyInv'
  OBVIOUS
<1>1. ASSUME NEW n \in Runs, AgentStep(n) \/ CloseBrowser(n) \/ Stopped(n) PROVE ApplyInv'
  BY <1>1, FillKeeps, LoadKeeps, LeavesSave, OpenKeeps, WriteKeeps, ReplaceKeeps DEF AgentStep
<1>2. CASE UNCHANGED applyVars
  BY <1>2 DEF applyVars, ApplyInv, ApplyTypeOK, ReviewedBefore, NoTickBeforeReview, SavedAlone, Savers, site
<1> QED BY <1>1, <1>2 DEF ApplyNext

(* The invariant holds in every reachable state. *)
THEOREM ApplyInvHolds == ApplySpec => []ApplyInv
<1>1. ApplyInit => ApplyInv
  BY InitApply
<1>2. ApplyInv /\ [ApplyNext]_applyVars => ApplyInv'
  BY NextApply
<1> QED BY <1>1, <1>2, PTL DEF ApplySpec

(* The agents and the files they share are well-formed.                    *)
THEOREM ApplyTypeHolds == ApplySpec => []ApplyTypeOK
<1>1. ApplyInv => ApplyTypeOK
  BY DEF ApplyInv
<1> QED BY <1>1, ApplyInvHolds, PTL

(* A job is marked applied only after fill_form handed a window over for   *)
(* it and that window was closed; not that anything was filled in it.      *)
THEOREM NoTickBeforeReviewHolds == ApplySpec => []NoTickBeforeReview
<1>1. ApplyInv => NoTickBeforeReview
  BY DEF ApplyInv
<1> QED BY <1>1, ApplyInvHolds, PTL

(* However agents end, a saved session is whole, unless two of one site    *)
(* saved at once.                                                          *)
THEOREM SessionIsWholeHolds == ApplySpec => []SessionIsWhole
<1>1. ApplyInv => SessionIsWhole
  BY DEF ApplyInv, SavedAlone, SessionIsWhole
<1> QED BY <1>1, ApplyInvHolds, PTL

----------------------------------------------------------------------------
(* The desks together *)

DesksInv == MigrationInv /\ TailorInv /\ SwitchInv /\ ApplyInv

(* A migrated database nobody starts on has the invariant of migrations.   *)
LEMMA RestingMigration == MigrationRests => MigrationInv
<1> SUFFICES ASSUME MigrationRests PROVE MigrationInv
  OBVIOUS
<1> USE DEF MigrationRests
<1>1. MigrationTypeOK
  BY MigrationAssumption DEF MigrationTypeOK, Stations, SCHEMA_VERSION
<1>2. Database
  <2>1. \A k \in 1..5 : Added[k] \in columns
    BY ColumnsFacts
  <2> QED BY <2>1 DEF Database
<1>3. Columns(0) = {}
  BY ColumnsFacts, SinceFacts
<1>4. ASSUME NEW p \in Procs
      PROVE  HasRead(p) /\ AtPlace(p) /\ PassedColumns(p) /\ PassedBackfill(p)
  BY <1>3 DEF HasRead, AtPlace, PassedColumns, PassedBackfill, Inside, SCHEMA_VERSION
<1> QED BY <1>1, <1>2, <1>4 DEF MigrationInv

(* Whichever desk a behaviour follows, all begin with their invariants.    *)
LEMMA InitDesks == DesksInit => DesksInv
BY RestingMigration, InvInit, InitTailor, InitSwitch, InitApply DEF DesksInit, DesksInv, ApplyRests

(* A step is one desk's, and the others rest. *)
LEMMA NextDesks ==
  ASSUME DesksInv, [DesksNext]_allVars
  PROVE  DesksInv'
<1>1. /\ [MigrationNext]_migrationVars /\ [TailorNext]_tailorVars
      /\ [SwitchNext]_switchVars /\ [ApplyNext]_applyVars
  BY DEF DesksNext, allVars
<1>2. MigrationInv'
  BY <1>1, InvStep DEF DesksInv
<1>3. TailorInv'
  BY <1>1, NextTailor DEF DesksInv
<1>4. SwitchInv'
  BY <1>1, NextSwitch DEF DesksInv
<1>5. ApplyInv'
  BY <1>1, NextApply DEF DesksInv
<1> QED BY <1>2, <1>3, <1>4, <1>5 DEF DesksInv

(* The composition keeps the invariants of its parts. *)
THEOREM DesksInvHolds == DesksSpec => []DesksInv
BY InitDesks, NextDesks, PTL DEF DesksSpec

(* The state of every desk is well-formed, whichever one moves.            *)
THEOREM DesksTypeHolds == DesksSpec => []DesksTypeOK
<1>1. DesksInv => DesksTypeOK
  BY DEF DesksInv, DesksTypeOK, MigrationInv, TailorInv, SwitchInv, ApplyInv
<1> QED BY <1>1, DesksInvHolds, PTL
===============================================================================

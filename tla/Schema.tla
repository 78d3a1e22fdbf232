------------------------------- MODULE Schema -------------------------------
(***************************************************************************)
(* What a process does to the database when it starts: StatsDB.init        *)
(* (src/storage/db.py) runs the migrations that are not recorded, and then *)
(* the CREATE statements.  Ten proxies and an API service run it against   *)
(* one ClickHouse, at once or one after the other, and are restarted.      *)
(*                                                                         *)
(* A migration adds a column to a table, drops a view, or changes rows.    *)
(* The record of a migration is an insert like any other, so it is visible *)
(* only after a while.  The default row of a configuration is an object as *)
(* its table is: it is inserted where there is none.  How many there are   *)
(* is left out; two processes that look before either inserts leave two.   *)
(***************************************************************************)
EXTENDS Naturals, Sequences, FiniteSets

CONSTANTS
    Replicas,
    Required,       \* those with CLICKHOUSE_REQUIRED: an error at the start ends them
    Migrations,     \* in their order: records [kind, of, col]
    Statements,     \* the tables, views and default rows created, in their order
    Sources,        \* for a view those its CREATE selects from, for a row its table
    Columns,        \* columns some migration adds or needs
    BornWith,       \* columns of an object that its CREATE statement names
    NoColumn,       \* for migrations that touch none
    MaxStarts,      \* bound: starts of processes
    MaxFailures     \* bound: statements that fail for no reason of their own

Versions == DOMAIN Migrations
Objects == {Statements[i] : i \in DOMAIN Statements}
Dropped == {Migrations[v].of : v \in {w \in Versions : Migrations[w].kind = "drop"}}
Tables == Objects \ Dropped

ASSUME SchemaAssumption ==
    /\ Required \subseteq Replicas
    /\ Statements \in Seq(Objects)
    /\ Migrations \in Seq([kind : {"column", "drop", "data"}, of : Objects,
                           col : Columns \union {NoColumn}])
    /\ NoColumn \notin Columns
    /\ \A v \in Versions : Migrations[v].kind = "column" =>
          Migrations[v].of \in Tables /\ Migrations[v].col \in Columns
    /\ BornWith \in [Objects -> SUBSET Columns]
    \* A statement is run once, after those it selects from.
    /\ \A i, j \in DOMAIN Statements : Statements[i] = Statements[j] => i = j
    /\ Sources \in [Objects -> SUBSET Objects]
    /\ \A i \in DOMAIN Statements : \A x \in Sources[Statements[i]] :
          \E j \in DOMAIN Statements : j < i /\ Statements[j] = x
    \* Rows are changed in a column that an earlier migration has added, if in
    \* one that tables are not born with.
    /\ \A v \in Versions : Migrations[v].kind = "data" =>
          /\ Migrations[v].of \in Tables
          /\ Migrations[v].col # NoColumn =>
                \E w \in Versions : /\ w < v /\ Migrations[w].kind = "column"
                                    /\ Migrations[w].col = Migrations[v].col
    /\ MaxStarts \in Nat /\ MaxFailures \in Nat

VARIABLES
    exist,      \* tables, views and default rows that exist
    columns,    \* columns that exist
    recorded,   \* versions a SELECT from schema_migrations returns
    buffered,   \* versions inserted and not yet visible
    ran,        \* versions whose statement has succeeded some time (ghost)
    pc,         \* where a replica is: "down", "migrate", "record", "create", "up"
    known,      \* applied_versions
    at,         \* the migration or statement it is at
    mishap,     \* something failed in its last start, or it died in it (ghost)
    sawTables,  \* all tables and default rows were there when it started (ghost)
    starts, failures

vars == <<exist, columns, recorded, buffered, ran, pc, known, at, mishap, sawTables,
          starts, failures>>
db == <<exist, columns, recorded, buffered, ran>>
-----------------------------------------------------------------------------
\* An empty database, or one in use since the first k migrations.
Init ==
    /\ \/ exist = {} /\ columns = {} /\ recorded = {}
       \/ /\ exist = Objects
          /\ \E k \in 0..Len(Migrations) :
                /\ recorded = 1..k
                /\ columns = {Migrations[v].col :
                                 v \in {w \in 1..k : Migrations[w].kind = "column"}}
    /\ buffered = {}
    /\ ran = recorded
    /\ pc = [r \in Replicas |-> "down"]
    /\ known = [r \in Replicas |-> {}]
    /\ at = [r \in Replicas |-> 1]
    /\ mishap = [r \in Replicas |-> FALSE]
    /\ sawTables = [r \in Replicas |-> FALSE]
    /\ starts = 0 /\ failures = 0

Goto(r, place, i) ==
    /\ pc' = [pc EXCEPT ![r] = place]
    /\ at' = [at EXCEPT ![r] = i]

Failure(r) ==
    /\ failures < MaxFailures
    /\ failures' = failures + 1
    /\ mishap' = [mishap EXCEPT ![r] = TRUE]

\* Mutant: versions are counted from 0.
StartAtZero(r) ==
    /\ pc[r] = "down" /\ starts < MaxStarts
    /\ starts' = starts + 1
    /\ known' = [known EXCEPT ![r] = recorded]
    /\ mishap' = [mishap EXCEPT ![r] = FALSE]
    /\ sawTables' = [sawTables EXCEPT ![r] = Tables \subseteq exist]
    /\ Goto(r, "migrate", 0)
    /\ UNCHANGED <<db, failures>>

\* The connection, schema_migrations and the SELECT of the applied versions.
Start(r) ==
    /\ pc[r] = "down" /\ starts < MaxStarts
    /\ starts' = starts + 1
    /\ known' = [known EXCEPT ![r] = recorded]
    /\ mishap' = [mishap EXCEPT ![r] = FALSE]
    /\ sawTables' = [sawTables EXCEPT ![r] = Tables \subseteq exist]
    /\ Goto(r, "migrate", 1)
    /\ UNCHANGED <<db, failures>>

\* One of these fails: init raises where the database is required, and the
\* process runs on without the rest where it is not.
StartFails(r) ==
    /\ pc[r] = "down" /\ starts < MaxStarts
    /\ starts' = starts + 1
    /\ Failure(r)
    /\ Goto(r, IF r \in Required THEN "down" ELSE "up", 1)
    /\ sawTables' = [sawTables EXCEPT ![r] = FALSE]
    /\ UNCHANGED <<db, known>>
-----------------------------------------------------------------------------
\* Mutant: what is recorded is not looked at.
DueAlways(r) == pc[r] = "migrate" /\ at[r] \in Versions

Due(r) == pc[r] = "migrate" /\ at[r] \in Versions /\ at[r] \notin known[r]

\* The statement has what it is about; a drop says IF EXISTS.
Applicable(m) ==
    CASE m.kind = "drop"   -> TRUE
      [] m.kind = "column" -> m.of \in exist
      [] m.kind = "data"   -> m.of \in exist /\ m.col \in columns \union {NoColumn}

Skip(r) ==
    /\ pc[r] = "migrate" /\ at[r] \in Versions /\ at[r] \in known[r]
    /\ Goto(r, "migrate", at[r] + 1)
    /\ UNCHANGED <<db, known, mishap, sawTables, starts, failures>>

\* The statement of a migration that was not recorded at the start.
Migrate(r) ==
    /\ Due(r) /\ Applicable(Migrations[at[r]])
    /\ LET m == Migrations[at[r]]
       IN  /\ exist' = IF m.kind = "drop" THEN exist \ {m.of} ELSE exist
           /\ columns' = IF m.kind = "column" THEN columns \union {m.col} ELSE columns
    /\ ran' = ran \union {at[r]}
    /\ Goto(r, "record", at[r])
    /\ UNCHANGED <<recorded, buffered, known, mishap, sawTables, starts, failures>>

\* Mutant: the failed migration is recorded.
MigrateFailsRecorded(r) ==
    /\ Due(r)
    /\ \/ ~Applicable(Migrations[at[r]]) /\ UNCHANGED <<mishap, failures>>
       \/ Failure(r)
    /\ buffered' = buffered \union {at[r]}
    /\ Goto(r, "migrate", at[r] + 1)
    /\ UNCHANGED <<exist, columns, recorded, ran, known, sawTables, starts>>

\* It fails: logged, and the loop goes on with the next version.
MigrateFails(r) ==
    /\ Due(r)
    /\ \/ ~Applicable(Migrations[at[r]]) /\ UNCHANGED <<mishap, failures>>
       \/ Failure(r)
    /\ Goto(r, "migrate", at[r] + 1)
    /\ UNCHANGED <<db, known, sawTables, starts>>

Record(r) ==
    /\ pc[r] = "record"
    /\ buffered' = buffered \union {at[r]}
    /\ Goto(r, "migrate", at[r] + 1)
    /\ UNCHANGED <<exist, columns, recorded, ran, known, mishap, sawTables, starts, failures>>

RecordFails(r) ==
    /\ pc[r] = "record"
    /\ Failure(r)
    /\ Goto(r, "migrate", at[r] + 1)
    /\ UNCHANGED <<db, known, sawTables, starts>>
-----------------------------------------------------------------------------
\* Mutant: nothing is created where the tables were there at the start.
BeginCreateOnce(r) ==
    /\ pc[r] = "migrate" /\ at[r] = Len(Migrations) + 1
    /\ Goto(r, IF sawTables[r] THEN "up" ELSE "create", 1)
    /\ UNCHANGED <<db, known, mishap, sawTables, starts, failures>>

\* _create_tables: every CREATE says IF NOT EXISTS, every INSERT WHERE NOT EXISTS;
\* an error is swallowed.
BeginCreate(r) ==
    /\ pc[r] = "migrate" /\ at[r] = Len(Migrations) + 1
    /\ Goto(r, "create", 1)
    /\ UNCHANGED <<db, known, mishap, sawTables, starts, failures>>

Create(r) ==
    /\ pc[r] = "create" /\ at[r] \in DOMAIN Statements
    /\ LET x == Statements[at[r]]
           made == x \notin exist /\ Sources[x] \subseteq exist
       IN  /\ exist' = IF made THEN exist \union {x} ELSE exist
           /\ columns' = IF made THEN columns \union BornWith[x] ELSE columns
    /\ Goto(r, "create", at[r] + 1)
    /\ UNCHANGED <<recorded, buffered, ran, known, mishap, sawTables, starts, failures>>

CreateFails(r) ==
    /\ pc[r] = "create" /\ at[r] \in DOMAIN Statements
    /\ Failure(r)
    /\ Goto(r, "create", at[r] + 1)
    /\ UNCHANGED <<db, known, sawTables, starts>>

Finish(r) ==
    /\ pc[r] = "create" /\ at[r] = Len(Statements) + 1
    /\ Goto(r, "up", 1)
    /\ UNCHANGED <<db, known, mishap, sawTables, starts, failures>>

\* The process ends or is killed; the container is started again.
Crash(r) ==
    /\ pc[r] # "down"
    /\ mishap' = [mishap EXCEPT ![r] = @ \/ pc[r] # "up"]
    /\ Goto(r, "down", 1)
    /\ UNCHANGED <<db, known, sawTables, starts, failures>>

Flush ==
    /\ buffered # {}
    /\ recorded' = recorded \union buffered
    /\ buffered' = {}
    /\ UNCHANGED <<exist, columns, ran, pc, known, at, mishap, sawTables, starts, failures>>

Next ==
    \/ \E r \in Replicas :
          \/ Start(r) \/ StartFails(r)
          \/ Skip(r) \/ Migrate(r) \/ MigrateFails(r) \/ Record(r) \/ RecordFails(r)
          \/ BeginCreate(r) \/ Create(r) \/ CreateFails(r) \/ Finish(r)
          \/ Crash(r)
    \/ Flush

Spec == Init /\ [][Next]_vars
-----------------------------------------------------------------------------
\* Types; a replica is at a version or statement there is, or right behind.
TypeOK ==
    /\ exist \subseteq Objects /\ columns \subseteq Columns
    /\ recorded \subseteq Versions /\ buffered \subseteq Versions /\ ran \subseteq Versions
    /\ pc \in [Replicas -> {"down", "migrate", "record", "create", "up"}]
    /\ known \in [Replicas -> SUBSET Versions]
    /\ at \in [Replicas -> Nat]
    /\ \A r \in Replicas :
          /\ pc[r] = "migrate" => at[r] \in 1..(Len(Migrations) + 1)
          /\ pc[r] = "record" => at[r] \in Versions
          /\ pc[r] = "create" => at[r] \in 1..(Len(Statements) + 1)
    /\ mishap \in [Replicas -> BOOLEAN] /\ sawTables \in [Replicas -> BOOLEAN]
    /\ starts \in 0..MaxStarts /\ failures \in 0..MaxFailures

\* Every migration ran some time and left what it is for.
Complete ==
    /\ Versions \subseteq ran
    /\ \A v \in Versions : Migrations[v].kind = "column" => Migrations[v].col \in columns

\* A process that finds the tables at its start leaves the schema complete,
\* unless a statement fails on it: what it skips because of a record had its
\* effect, whoever else is migrating, was cut off or failed in between
\* (db.py:66-191).  A process on an empty database gives no such promise.
StartOnTablesCompletes ==
    \A r \in Replicas : pc[r] = "up" /\ sawTables[r] /\ ~mishap[r] => Complete

\* The migrations drop the views and every start creates them again
\* (db.py:87-105, 194-339).  When no process is at it any more, and none was
\* cut off or failed, all of them stand, and with them every table and default
\* row, however the drops of one process met the CREATEs of another.
ViewsStand ==
    /\ \A r \in Replicas : pc[r] \in {"down", "up"} /\ ~mishap[r]
    /\ \E r \in Replicas : pc[r] = "up"
    => exist = Objects

\* A version is settled when its record can be read and no process migrates
\* that read before it could be.
Settled(v) ==
    /\ v \in recorded
    /\ \A r \in Replicas :
          \/ pc[r] \notin {"migrate", "record"}
          \/ v \in known[r] \/ v < at[r] \/ (v = at[r] /\ pc[r] = "record")

\* A settled migration never runs again, whatever starts or fails: no view
\* loses its rows, and no backfill overwrites what was edited after it
\* (db.py:108-121, 156-161, 172-190).
MigrationsSettle ==
    [][\A v \in Versions : Settled(v) =>
          /\ Settled(v)'
          /\ \A r \in Replicas : ~(at[r] = v /\ pc[r] = "migrate" /\ pc'[r] = "record")]_vars

\* "Database schema created/verified" (db.py:463): a process that came up
\* without an error on its connection has every column the queries name.
SchemaVerified ==
    \A r \in Replicas : pc[r] = "up" /\ ~mishap[r] => Columns \subseteq columns
=============================================================================

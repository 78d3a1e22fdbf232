---------------------------- MODULE SchemaProofs ----------------------------
(***************************************************************************)
(* For any replicas, any list of migrations and statements that satisfies  *)
(* SchemaAssumption, and any number of starts and failures: a start on the *)
(* tables leaves the schema complete, the views stand when everybody is    *)
(* done, and a settled migration never runs again.                         *)
(***************************************************************************)
EXTENDS Schema, TLAPS

Place == {"down", "migrate", "record", "create", "up"}

\* What was recorded has run, and what has run left its column.
RecordedRan ==
    /\ recorded \subseteq ran /\ buffered \subseteq ran
    /\ \A r \in Replicas : known[r] \subseteq ran
    /\ \A r \in Replicas : pc[r] = "record" => at[r] \in ran
    /\ \A v \in ran : Migrations[v].kind = "column" => Migrations[v].col \in columns

\* r is past version v.
Past(r, v) ==
    \/ pc[r] \in {"migrate", "record"} /\ v < at[r]
    \/ pc[r] \in {"create", "up"}

\* A start on the tables without a mishap has run everything it is past.
Progress ==
    \A r \in Replicas : sawTables[r] /\ ~mishap[r] /\ pc[r] # "down" =>
        \A v \in Versions : Past(r, v) => v \in ran

TablesStay == \A r \in Replicas : sawTables[r] => Tables \subseteq exist

\* r has statement i before it.
WillCreate(r, i) ==
    \/ pc[r] \in {"migrate", "record"}
    \/ pc[r] = "create" /\ at[r] <= i

\* What does not exist somebody is about to create, or something failed, or
\* nobody is there.
MissingIsAwaited ==
    \A i \in DOMAIN Statements : Statements[i] \notin exist =>
        \/ \E r \in Replicas : WillCreate(r, i)
        \/ \E r \in Replicas : mishap[r]
        \/ \A r \in Replicas : pc[r] = "down"
-----------------------------------------------------------------------------
LEMMA ElementTyped ==
    ASSUME NEW S, NEW s \in Seq(S), NEW i \in DOMAIN s
    PROVE  s[i] \in S
OBVIOUS

LEMMA Lists ==
    /\ Versions = 1..Len(Migrations) /\ Len(Migrations) \in Nat
    /\ DOMAIN Statements = 1..Len(Statements) /\ Len(Statements) \in Nat
    /\ \A i \in DOMAIN Statements : Statements[i] \in Objects
    /\ \A v \in Versions : Migrations[v] \in [kind : {"column", "drop", "data"}, of : Objects,
                                              col : Columns \union {NoColumn}]
<1>1. /\ Migrations \in Seq([kind : {"column", "drop", "data"}, of : Objects,
                              col : Columns \union {NoColumn}])
      /\ Statements \in Seq(Objects)
  BY SchemaAssumption
<1>2. Versions = 1..Len(Migrations) /\ Len(Migrations) \in Nat
  BY <1>1 DEF Versions
<1>3. DOMAIN Statements = 1..Len(Statements) /\ Len(Statements) \in Nat
  BY <1>1
<1>4. \A i \in DOMAIN Statements : Statements[i] \in Objects
  BY DEF Objects
<1>5. \A v \in Versions : Migrations[v] \in [kind : {"column", "drop", "data"}, of : Objects,
                                             col : Columns \union {NoColumn}]
  BY <1>1, ElementTyped DEF Versions
<1> QED BY <1>2, <1>3, <1>4, <1>5

\* A replica that goes to a place that is there.
LEMMA GotoTyped ==
    ASSUME TypeOK, NEW r \in Replicas, NEW place \in Place, NEW i \in Nat, Goto(r, place, i),
           place = "migrate" => i \in 1..(Len(Migrations) + 1),
           place = "record" => i \in Versions,
           place = "create" => i \in 1..(Len(Statements) + 1)
    PROVE  /\ pc' \in [Replicas -> Place] /\ at' \in [Replicas -> Nat]
           /\ \A q \in Replicas :
                 /\ pc'[q] = "migrate" => at'[q] \in 1..(Len(Migrations) + 1)
                 /\ pc'[q] = "record" => at'[q] \in Versions
                 /\ pc'[q] = "create" => at'[q] \in 1..(Len(Statements) + 1)
           /\ pc'[r] = place /\ at'[r] = i
           /\ \A q \in Replicas \ {r} : pc'[q] = pc[q] /\ at'[q] = at[q]
<1>1. pc \in [Replicas -> Place] /\ at \in [Replicas -> Nat]
  BY DEF TypeOK, Place
<1>2. pc' = [pc EXCEPT ![r] = place] /\ at' = [at EXCEPT ![r] = i]
  BY DEF Goto
<1>3. /\ pc' \in [Replicas -> Place] /\ at' \in [Replicas -> Nat]
      /\ pc'[r] = place /\ at'[r] = i
      /\ \A q \in Replicas \ {r} : pc'[q] = pc[q] /\ at'[q] = at[q]
  BY <1>1, <1>2
<1>4. ASSUME NEW q \in Replicas
      PROVE  /\ pc'[q] = "migrate" => at'[q] \in 1..(Len(Migrations) + 1)
             /\ pc'[q] = "record" => at'[q] \in Versions
             /\ pc'[q] = "create" => at'[q] \in 1..(Len(Statements) + 1)
  <2>1. CASE q = r
    BY <1>3, <2>1
  <2>2. CASE q # r
    BY <1>3, <2>2 DEF TypeOK
  <2> QED BY <2>1, <2>2
<1> QED BY <1>3, <1>4

\* Where the steps of a replica take it.
LEMMA Moves ==
    ASSUME TypeOK, NEW r \in Replicas
    PROVE  /\ Start(r) => Goto(r, "migrate", 1)
           /\ Skip(r) \/ MigrateFails(r) \/ Record(r) \/ RecordFails(r) =>
                 Goto(r, "migrate", at[r] + 1) /\ at[r] \in Versions
           /\ Migrate(r) => Goto(r, "record", at[r]) /\ at[r] \in Versions
           /\ BeginCreate(r) => Goto(r, "create", 1)
           /\ Create(r) \/ CreateFails(r) =>
                 Goto(r, "create", at[r] + 1) /\ at[r] \in DOMAIN Statements
           /\ Finish(r) => Goto(r, "up", 1)
           /\ Crash(r) => Goto(r, "down", 1)
           /\ StartFails(r) => Goto(r, "down", 1) \/ Goto(r, "up", 1)
BY DEF TypeOK, Start, Skip, MigrateFails, Record, RecordFails, Migrate, BeginCreate, Create,
       CreateFails, Finish, Crash, StartFails, Due

\* A step moves one replica, to a place that is there.
Step(r) ==
    \/ Start(r) \/ StartFails(r)
    \/ Skip(r) \/ Migrate(r) \/ MigrateFails(r) \/ Record(r) \/ RecordFails(r)
    \/ BeginCreate(r) \/ Create(r) \/ CreateFails(r) \/ Finish(r)
    \/ Crash(r)

LEMMA StepMoves ==
    ASSUME TypeOK, NEW r \in Replicas, Step(r)
    PROVE  /\ pc' \in [Replicas -> Place] /\ at' \in [Replicas -> Nat]
           /\ \A q \in Replicas :
                 /\ pc'[q] = "migrate" => at'[q] \in 1..(Len(Migrations) + 1)
                 /\ pc'[q] = "record" => at'[q] \in Versions
                 /\ pc'[q] = "create" => at'[q] \in 1..(Len(Statements) + 1)
           /\ \A q \in Replicas \ {r} : pc'[q] = pc[q] /\ at'[q] = at[q]
<1> DEFINE Typed == /\ pc' \in [Replicas -> Place] /\ at' \in [Replicas -> Nat]
                    /\ \A q \in Replicas :
                          /\ pc'[q] = "migrate" => at'[q] \in 1..(Len(Migrations) + 1)
                          /\ pc'[q] = "record" => at'[q] \in Versions
                          /\ pc'[q] = "create" => at'[q] \in 1..(Len(Statements) + 1)
                    /\ \A q \in Replicas \ {r} : pc'[q] = pc[q] /\ at'[q] = at[q]
<1>0. Place = {"down", "migrate", "record", "create", "up"} /\ at[r] \in Nat
  BY DEF Place, TypeOK
<1>1. ASSUME Goto(r, "migrate", 1) PROVE Typed
  BY <1>0, <1>1, Lists, GotoTyped
<1>2. ASSUME Goto(r, "migrate", at[r] + 1), at[r] \in Versions PROVE Typed
  <2>1. at[r] + 1 \in 1..(Len(Migrations) + 1) /\ at[r] + 1 \in Nat
    BY <1>0, <1>2, Lists
  <2> QED BY <1>0, <1>2, <2>1, GotoTyped
<1>3. ASSUME Goto(r, "record", at[r]), at[r] \in Versions PROVE Typed
  BY <1>0, <1>3, GotoTyped
<1>4. ASSUME Goto(r, "create", 1) PROVE Typed
  BY <1>0, <1>4, Lists, GotoTyped
<1>5. ASSUME Goto(r, "create", at[r] + 1), at[r] \in DOMAIN Statements PROVE Typed
  <2>1. at[r] + 1 \in 1..(Len(Statements) + 1) /\ at[r] + 1 \in Nat
    BY <1>0, <1>5, Lists
  <2> QED BY <1>0, <1>5, <2>1, GotoTyped
<1>6. ASSUME Goto(r, "up", 1) \/ Goto(r, "down", 1) PROVE Typed
  BY <1>0, <1>6, GotoTyped
<1> HIDE DEF Typed
<1>7. Typed
  BY <1>1, <1>2, <1>3, <1>4, <1>5, <1>6, Moves DEF Step
<1> QED BY <1>7 DEF Typed
-----------------------------------------------------------------------------
LEMMA InitTyped == Init => TypeOK
<1> SUFFICES ASSUME Init PROVE TypeOK
  OBVIOUS
<1>1. CASE exist = {} /\ columns = {} /\ recorded = {}
  BY <1>1, Lists, SchemaAssumption DEF Init, TypeOK
<1>2. CASE exist = Objects /\ \E k \in 0..Len(Migrations) :
                /\ recorded = 1..k
                /\ columns = {Migrations[v].col :
                                 v \in {w \in 1..k : Migrations[w].kind = "column"}}
  <2>1. PICK k \in 0..Len(Migrations) :
                /\ recorded = 1..k
                /\ columns = {Migrations[v].col :
                                 v \in {w \in 1..k : Migrations[w].kind = "column"}}
    BY <1>2
  <2>2. recorded \subseteq Versions
    BY <2>1, Lists
  <2>3. columns \subseteq Columns
    BY <2>1, <2>2, SchemaAssumption
  <2> QED BY <1>2, <2>2, <2>3, Lists, SchemaAssumption DEF Init, TypeOK
<1> QED BY <1>1, <1>2 DEF Init

\* What a step does to the database, and what for.
LEMMA Database ==
    ASSUME TypeOK, NEW r \in Replicas, Step(r)
    PROVE  /\ exist' \subseteq Objects /\ columns' \subseteq Columns
           /\ columns \subseteq columns' /\ ran \subseteq ran' /\ recorded' = recorded
           /\ \/ exist \subseteq exist'
              \/ /\ exist' = exist \ {Migrations[at[r]].of} /\ pc'[r] = "record"
                 /\ Migrations[at[r]].of \in Dropped
           /\ ran' \subseteq Versions /\ buffered' \subseteq Versions
<1>1. CASE Migrate(r)
  <2> DEFINE m == Migrations[at[r]]
  <2>1. /\ at[r] \in Versions
        /\ exist' = IF m.kind = "drop" THEN exist \ {m.of} ELSE exist
        /\ columns' = IF m.kind = "column" THEN columns \union {m.col} ELSE columns
        /\ ran' = ran \union {at[r]}
        /\ UNCHANGED <<recorded, buffered>>
    BY <1>1 DEF Migrate, Due
  <2>2. m.kind = "column" => m.col \in Columns
    BY <2>1, SchemaAssumption
  <2>3. m.kind = "drop" => m.of \in Dropped
    BY <2>1 DEF Dropped
  <2>4. pc'[r] = "record"
    BY <1>1 DEF Migrate, Goto, TypeOK
  <2> HIDE DEF m
  <2>5. \/ exist \subseteq exist'
        \/ exist' = exist \ {m.of} /\ m.of \in Dropped
    BY <2>1, <2>3
  <2> QED BY <2>1, <2>2, <2>4, <2>5 DEF TypeOK, m
<1>2. CASE Create(r)
  <2> DEFINE x == Statements[at[r]]
             made == x \notin exist /\ Sources[x] \subseteq exist
  <2>1. /\ exist' = IF made THEN exist \union {x} ELSE exist
        /\ columns' = IF made THEN columns \union BornWith[x] ELSE columns
        /\ UNCHANGED <<recorded, buffered, ran>>
        /\ at[r] \in DOMAIN Statements
    BY <1>2 DEF Create
  <2>2. x \in Objects
    BY <2>1, Lists
  <2>3. BornWith[x] \subseteq Columns
    BY <2>2, SchemaAssumption
  <2> QED BY <2>1, <2>2, <2>3 DEF TypeOK
<1>3. CASE Record(r)
  <2>1. at[r] \in Versions
    BY <1>3 DEF Record, TypeOK
  <2> QED BY <1>3, <2>1 DEF Record, TypeOK
<1>4. CASE ~Migrate(r) /\ ~Create(r) /\ ~Record(r)
  <2>1. UNCHANGED db
    BY <1>4 DEF Step, Start, StartFails, Skip, MigrateFails, RecordFails, BeginCreate,
                CreateFails, Finish, Crash, Failure
  <2> QED BY <2>1 DEF db, TypeOK
<1> QED BY <1>1, <1>2, <1>3, <1>4

\* The rest: what a replica knows, its mishap and its start.
LEMMA Marks ==
    ASSUME TypeOK, NEW r \in Replicas, Step(r)
    PROVE  /\ known' \in [Replicas -> SUBSET Versions]
           /\ mishap' \in [Replicas -> BOOLEAN] /\ sawTables' \in [Replicas -> BOOLEAN]
           /\ starts' \in 0..MaxStarts /\ failures' \in 0..MaxFailures
<1>0. /\ known \in [Replicas -> SUBSET Versions] /\ recorded \subseteq Versions
      /\ mishap \in [Replicas -> BOOLEAN] /\ sawTables \in [Replicas -> BOOLEAN]
      /\ starts \in 0..MaxStarts /\ failures \in 0..MaxFailures
      /\ MaxStarts \in Nat /\ MaxFailures \in Nat
  BY SchemaAssumption DEF TypeOK
<1>1. Failure(r) => mishap' \in [Replicas -> BOOLEAN] /\ failures' \in 0..MaxFailures
  BY <1>0 DEF Failure
<1>2. CASE Start(r)
  BY <1>0, <1>2 DEF Start
<1>3. CASE StartFails(r)
  BY <1>0, <1>1, <1>3 DEF StartFails
<1>4. CASE MigrateFails(r)
  <2>1. mishap' \in [Replicas -> BOOLEAN] /\ failures' \in 0..MaxFailures
    BY <1>0, <1>1, <1>4 DEF MigrateFails
  <2> QED BY <1>0, <1>4, <2>1 DEF MigrateFails
<1>5. CASE RecordFails(r) \/ CreateFails(r)
  BY <1>0, <1>1, <1>5 DEF RecordFails, CreateFails
<1>6. CASE Crash(r)
  <2>1. mishap' = [mishap EXCEPT ![r] = mishap[r] \/ pc[r] # "up"]
    BY <1>6 DEF Crash
  <2>2. (mishap[r] \/ pc[r] # "up") \in BOOLEAN
    OBVIOUS
  <2>3. mishap' \in [Replicas -> BOOLEAN]
    BY <1>0, <2>1, <2>2
  <2> QED BY <1>0, <1>6, <2>3 DEF Crash
<1>7. CASE Skip(r) \/ Migrate(r) \/ Record(r) \/ BeginCreate(r) \/ Create(r) \/ Finish(r)
  BY <1>0, <1>7 DEF Skip, Migrate, Record, BeginCreate, Create, Finish
<1> QED BY <1>2, <1>3, <1>4, <1>5, <1>6, <1>7 DEF Step

LEMMA NextTyped == TypeOK /\ [Next]_vars => TypeOK'
<1> SUFFICES ASSUME TypeOK, [Next]_vars PROVE TypeOK'
  OBVIOUS
<1>1. ASSUME NEW r \in Replicas, Step(r) PROVE TypeOK'
  BY <1>1, StepMoves, Database, Marks DEF TypeOK, Place
<1>2. CASE Flush
  BY <1>2 DEF Flush, TypeOK
<1>3. CASE UNCHANGED vars
  BY <1>3 DEF vars, TypeOK
<1> QED BY <1>1, <1>2, <1>3 DEF Next, Step

\* Types, for any constants; no replica is at a version or statement there is not.
THEOREM SchemaTypes == Spec => []TypeOK
BY InitTyped, NextTyped, PTL DEF Spec
-----------------------------------------------------------------------------
LEMMA InitRecorded == Init => RecordedRan /\ TablesStay /\ Progress /\ MissingIsAwaited
<1> SUFFICES ASSUME Init PROVE RecordedRan /\ TablesStay /\ Progress /\ MissingIsAwaited
  OBVIOUS
<1>1. \A v \in ran : Migrations[v].kind = "column" => Migrations[v].col \in columns
  BY DEF Init
<1>2. /\ buffered = {} /\ ran = recorded
      /\ \A r \in Replicas : pc[r] = "down" /\ known[r] = {} /\ sawTables[r] = FALSE
  BY DEF Init
<1>3. RecordedRan
  BY <1>1, <1>2 DEF RecordedRan
<1> QED BY <1>2, <1>3 DEF TablesStay, Progress, MissingIsAwaited

LEMMA StepRecorded ==
    ASSUME TypeOK, RecordedRan, NEW r \in Replicas, Step(r)
    PROVE  RecordedRan'
<1>0. /\ recorded' = recorded /\ ran \subseteq ran' /\ columns \subseteq columns'
      /\ \A q \in Replicas \ {r} : pc'[q] = pc[q] /\ at'[q] = at[q]
  BY Database, StepMoves
<1>1. CASE Start(r)
  <2>1. \A q \in Replicas : known'[q] \subseteq ran
    BY <1>1 DEF Start, TypeOK, RecordedRan
  <2>2. pc'[r] = "migrate"
    BY <1>1 DEF Start, Goto, TypeOK
  <2> QED BY <1>0, <1>1, <2>1, <2>2 DEF Start, db, RecordedRan
<1>2. CASE Migrate(r)
  <2> DEFINE m == Migrations[at[r]]
  <2>1. /\ ran' = ran \union {at[r]} /\ known' = known /\ buffered' = buffered
        /\ at'[r] = at[r]
        /\ columns' = IF m.kind = "column" THEN columns \union {m.col} ELSE columns
    BY <1>2 DEF Migrate, Goto, TypeOK
  <2>2. \A v \in ran' : Migrations[v].kind = "column" => Migrations[v].col \in columns'
    BY <2>1 DEF RecordedRan
  <2>3. \A q \in Replicas : pc'[q] = "record" => at'[q] \in ran'
    BY <1>0, <2>1 DEF RecordedRan
  <2> QED BY <1>0, <2>1, <2>2, <2>3 DEF RecordedRan
<1>3. CASE Record(r)
  <2>1. at[r] \in ran
    BY <1>3 DEF Record, RecordedRan
  <2>2. pc'[r] = "migrate"
    BY <1>3 DEF Record, Goto, TypeOK
  <2> QED BY <1>0, <1>3, <2>1, <2>2 DEF Record, RecordedRan
<1>4. CASE ~Start(r) /\ ~Migrate(r) /\ ~Record(r)
  <2>1. UNCHANGED <<recorded, buffered, ran, known>>
    BY <1>4 DEF Step, db, StartFails, Skip, MigrateFails, RecordFails, BeginCreate, Create,
                CreateFails, Finish, Crash
  <2>2. pc'[r] # "record"
    BY <1>4, Moves DEF Step, Goto, TypeOK
  <2> QED BY <1>0, <2>1, <2>2 DEF RecordedRan
<1> QED BY <1>1, <1>2, <1>3, <1>4

LEMMA NextRecorded == TypeOK /\ RecordedRan /\ [Next]_vars => RecordedRan'
<1> SUFFICES ASSUME TypeOK, RecordedRan, [Next]_vars PROVE RecordedRan'
  OBVIOUS
<1>1. CASE Flush
  BY <1>1 DEF Flush, RecordedRan
<1>2. CASE UNCHANGED vars
  BY <1>2 DEF vars, RecordedRan
<1> QED BY <1>1, <1>2, StepRecorded DEF Next, Step

\* No migration drops a table.
LEMMA StepTables ==
    ASSUME TypeOK, TablesStay, NEW r \in Replicas, Step(r)
    PROVE  TablesStay'
<1>1. Tables \intersect exist \subseteq exist'
  BY Database DEF Tables
<1>2. ASSUME NEW q \in Replicas, sawTables'[q] PROVE sawTables[q] \/ Tables \subseteq exist
  <2>1. CASE Start(r)
    BY <1>2, <2>1 DEF Start, TypeOK
  <2>2. CASE StartFails(r)
    BY <1>2, <2>2 DEF StartFails, TypeOK
  <2>3. CASE ~Start(r) /\ ~StartFails(r)
    BY <1>2, <2>3 DEF Step, Skip, Migrate, MigrateFails, Record, RecordFails, BeginCreate,
                      Create, CreateFails, Finish, Crash
  <2> QED BY <2>1, <2>2, <2>3
<1> QED BY <1>1, <1>2 DEF TablesStay

\* A migration that fails on the tables fails for no reason of its own.
LEMMA FailsByMishap ==
    ASSUME TypeOK, RecordedRan, TablesStay, Progress, NEW r \in Replicas, MigrateFails(r),
           sawTables[r], ~mishap[r]
    PROVE  mishap'[r]
<1> DEFINE v == at[r]
           m == Migrations[v]
<1>1. v \in Versions /\ pc[r] = "migrate"
  BY DEF MigrateFails, Due
<1>2. Tables \subseteq exist
  BY DEF TablesStay
<1>3. m.kind \in {"column", "drop", "data"}
  BY <1>1, Lists
<1>4. CASE m.kind = "column"
  BY <1>1, <1>2, <1>4, SchemaAssumption DEF Applicable, MigrateFails, Failure, TypeOK
<1>5. CASE m.kind = "drop"
  BY <1>5 DEF Applicable, MigrateFails, Failure, TypeOK
<1>6. CASE m.kind = "data"
  <2>1. m.of \in exist
    BY <1>1, <1>2, <1>6, SchemaAssumption
  <2>2. m.col # NoColumn => m.col \in columns
    <3> SUFFICES ASSUME m.col # NoColumn PROVE m.col \in columns
      OBVIOUS
    <3>1. PICK w \in Versions : /\ w < v /\ Migrations[w].kind = "column"
                                /\ Migrations[w].col = m.col
      BY <1>1, <1>6, SchemaAssumption
    <3>2. w \in ran
      BY <1>1, <3>1 DEF Progress, Past
    <3> QED BY <3>1, <3>2 DEF RecordedRan
  <2>3. Applicable(m)
    BY <1>6, <2>1, <2>2 DEF Applicable
  <2> QED BY <2>3 DEF MigrateFails, Failure, TypeOK
<1> QED BY <1>3, <1>4, <1>5, <1>6
LEMMA StepProgress ==
    ASSUME TypeOK, RecordedRan, TablesStay, Progress, NEW r \in Replicas, Step(r)
    PROVE  Progress'
<1>0. /\ ran \subseteq ran' /\ at[r] \in Nat /\ Versions \subseteq Nat
      /\ \A q \in Replicas \ {r} : pc'[q] = pc[q] /\ at'[q] = at[q]
  BY Database, StepMoves, Lists DEF TypeOK
<1>1. \A q \in Replicas \ {r} : mishap'[q] = mishap[q] /\ sawTables'[q] = sawTables[q]
  BY DEF TypeOK, Step, Start, StartFails, Skip, Migrate, MigrateFails, Record, RecordFails,
         BeginCreate, Create, CreateFails, Finish, Crash, Failure
<1>2. SUFFICES ASSUME sawTables'[r], ~mishap'[r], pc'[r] # "down", NEW v \in Versions, Past(r, v)'
               PROVE  v \in ran'
  BY <1>0, <1>1 DEF Progress, Past
<1>3. CASE Start(r)
  <2>1. pc'[r] = "migrate" /\ at'[r] = 1
    BY <1>3 DEF Start, Goto, TypeOK
  <2>2. v \in 1..Len(Migrations)
    BY Lists
  <2> QED BY <1>2, <2>1, <2>2 DEF Past
<1>4. CASE StartFails(r)
  BY <1>2, <1>4 DEF StartFails, TypeOK
<1>5. CASE RecordFails(r) \/ CreateFails(r)
  BY <1>2, <1>5 DEF RecordFails, CreateFails, Failure, TypeOK
<1>6. CASE Crash(r)
  BY <1>2, <1>6 DEF Crash, Goto, TypeOK
<1>7. CASE MigrateFails(r)
  <2>1. sawTables[r] /\ ~mishap[r]
    BY <1>2, <1>7 DEF MigrateFails, Failure, TypeOK
  <2> QED BY <1>2, <1>7, <2>1, FailsByMishap
<1>8. ASSUME Skip(r) \/ Migrate(r) \/ Record(r) \/ BeginCreate(r) \/ Create(r) \/ Finish(r)
      PROVE  v \in ran'
  <2>1. sawTables[r] /\ ~mishap[r] /\ pc[r] # "down"
    BY <1>2, <1>8 DEF Due, Skip, Migrate, Record, BeginCreate, Create, Finish
  <2>2. Past(r, v) => v \in ran
    BY <2>1 DEF Progress
  <2>3. CASE Skip(r) \/ Record(r)
    <3>1. pc[r] \in {"migrate", "record"} /\ pc'[r] = "migrate" /\ at'[r] = at[r] + 1
      BY <2>3 DEF Skip, Record, Goto, TypeOK
    <3>2. at[r] \in ran
      BY <2>3 DEF Skip, Record, RecordedRan
    <3>3. v < at[r] \/ v = at[r]
      BY <1>0, <1>2, <3>1 DEF Past
    <3> QED BY <1>0, <2>2, <3>1, <3>2, <3>3 DEF Past
  <2>4. CASE Migrate(r)
    <3>1. pc[r] = "migrate" /\ pc'[r] = "record" /\ at'[r] = at[r]
      BY <2>4 DEF Migrate, Due, Goto, TypeOK
    <3> QED BY <1>0, <1>2, <2>2, <3>1 DEF Past
  <2>5. CASE BeginCreate(r)
    <3>1. pc[r] = "migrate" /\ at[r] = Len(Migrations) + 1
      BY <2>5 DEF BeginCreate
    <3>2. v < at[r]
      BY <3>1, Lists
    <3> QED BY <1>0, <2>2, <3>1, <3>2 DEF Past
  <2>6. CASE Create(r) \/ Finish(r)
    <3>1. pc[r] = "create"
      BY <2>6 DEF Create, Finish
    <3> QED BY <1>0, <2>2, <3>1 DEF Past
  <2> QED BY <1>8, <2>3, <2>4, <2>5, <2>6
<1> QED BY <1>3, <1>4, <1>5, <1>6, <1>7, <1>8 DEF Step

Inv == TypeOK /\ RecordedRan /\ TablesStay /\ Progress

LEMMA NextInv == Inv /\ [Next]_vars => Inv'
<1> SUFFICES ASSUME Inv, [Next]_vars PROVE Inv'
  OBVIOUS
<1>1. CASE \E r \in Replicas : Step(r)
  BY <1>1, NextTyped, StepRecorded, StepTables, StepProgress DEF Inv
<1>2. CASE Flush
  <2>1. TablesStay' /\ Progress'
    BY <1>2 DEF Flush, Inv, TablesStay, Progress, Past
  <2> QED BY <2>1, NextTyped, NextRecorded DEF Inv
<1>3. CASE UNCHANGED vars
  <2>1. TablesStay' /\ Progress'
    BY <1>3 DEF vars, Inv, TablesStay, Progress, Past
  <2> QED BY <2>1, NextTyped, NextRecorded DEF Inv
<1> QED BY <1>1, <1>2, <1>3 DEF Next, Step

\* A process that finds the tables at its start leaves the schema complete, unless
\* a statement fails on it (db.py:66-191): whatever the migrations are, whoever else
\* is migrating, and whatever was cut off or failed before.
THEOREM StartCompletes == Spec => []StartOnTablesCompletes
<1>1. Inv => StartOnTablesCompletes
  BY DEF Inv, StartOnTablesCompletes, Complete, Progress, Past, RecordedRan, TypeOK
<1>2. Init => Inv
  BY InitTyped, InitRecorded DEF Inv
<1> QED BY <1>1, <1>2, NextInv, PTL DEF Spec
-----------------------------------------------------------------------------
LEMMA StepAwaited ==
    ASSUME TypeOK, MissingIsAwaited, NEW r \in Replicas, Step(r)
    PROVE  MissingIsAwaited'
<1>0. /\ at[r] \in Nat /\ DOMAIN Statements = 1..Len(Statements) /\ Len(Statements) \in Nat
      /\ \A q \in Replicas \ {r} : pc'[q] = pc[q] /\ at'[q] = at[q]
  BY StepMoves, Lists DEF TypeOK
<1>1. \A q \in Replicas \ {r} : mishap'[q] = mishap[q]
  BY DEF TypeOK, Step, Start, StartFails, Skip, Migrate, MigrateFails, Record, RecordFails,
         BeginCreate, Create, CreateFails, Finish, Crash, Failure
<1> SUFFICES ASSUME NEW i \in DOMAIN Statements, Statements[i] \notin exist',
                    \A q \in Replicas : ~WillCreate(q, i)', \A q \in Replicas : ~mishap'[q]
             PROVE  FALSE
  BY DEF MissingIsAwaited
<1>2. pc'[r] \in {"down", "create", "up"} /\ ~mishap'[r]
  BY StepMoves DEF WillCreate, Place
<1>3. ~Start(r) /\ ~Skip(r) /\ ~Migrate(r) /\ ~MigrateFails(r) /\ ~Record(r) /\ ~RecordFails(r)
  BY <1>2, Moves DEF Goto, TypeOK
<1>4. ~StartFails(r) /\ ~CreateFails(r)
  BY <1>2 DEF StartFails, CreateFails, Failure, TypeOK
<1>5. ~BeginCreate(r)
  <2> SUFFICES ASSUME BeginCreate(r) PROVE FALSE
    OBVIOUS
  <2>1. pc'[r] = "create" /\ at'[r] = 1
    BY DEF BeginCreate, Goto, TypeOK
  <2> QED BY <1>0, <2>1 DEF WillCreate
<1>6. mishap' = mishap \/ Crash(r)
  BY <1>3, <1>4, <1>5 DEF Step, Create, Finish
<1>7. ~mishap[r] /\ pc[r] # "down"
  BY <1>2, <1>3, <1>4, <1>5 DEF Step, Create, Finish, Crash, TypeOK
\* What waited for statement i before the step was r.
<1>8. Statements[i] \notin exist => WillCreate(r, i)
  <2>1. Statements[i] \notin exist => \E q \in Replicas : WillCreate(q, i)
    BY <1>1, <1>7 DEF MissingIsAwaited
  <2>2. \A q \in Replicas \ {r} : ~WillCreate(q, i)
    BY <1>0 DEF WillCreate
  <2> QED BY <2>1, <2>2
<1>9. CASE Crash(r)
  <2>1. pc[r] = "up" /\ exist' = exist
    BY <1>2, <1>9 DEF Crash, db, TypeOK
  <2> QED BY <1>8, <2>1 DEF WillCreate
<1>10. CASE Finish(r)
  <2>1. pc[r] = "create" /\ at[r] = Len(Statements) + 1 /\ exist' = exist
    BY <1>10 DEF Finish, db
  <2> QED BY <1>0, <1>8, <2>1 DEF WillCreate
<1>11. CASE Create(r)
  <2> DEFINE x == Statements[at[r]]
             made == x \notin exist /\ Sources[x] \subseteq exist
  <2>1. /\ pc[r] = "create" /\ at[r] \in DOMAIN Statements
        /\ exist' = IF made THEN exist \union {x} ELSE exist
        /\ pc'[r] = "create" /\ at'[r] = at[r] + 1
    BY <1>11 DEF Create, Goto, TypeOK
  <2>2. Statements[i] \notin exist
    BY <2>1
  <2>3. at[r] = i
    <3>1. at[r] <= i
      BY <1>8, <2>1, <2>2 DEF WillCreate
    <3>2. ~(at[r] + 1 <= i)
      BY <2>1 DEF WillCreate
    <3> QED BY <1>0, <3>1, <3>2
  <2>4. PICK y \in Sources[x] : y \notin exist
    BY <2>1, <2>2, <2>3
  <2>5. PICK j \in DOMAIN Statements : j < i /\ Statements[j] = y
    BY <2>1, <2>3, <2>4, SchemaAssumption
  <2>6. \E q \in Replicas : WillCreate(q, j)
    BY <1>1, <1>7, <2>4, <2>5 DEF MissingIsAwaited
  <2>7. ~WillCreate(r, j)
    BY <1>0, <2>1, <2>3, <2>5 DEF WillCreate
  <2>8. PICK q \in Replicas \ {r} : WillCreate(q, j)
    BY <2>6, <2>7
  <2>9. at[q] \in Nat
    BY DEF TypeOK
  <2>10. WillCreate(q, i)'
    BY <1>0, <2>5, <2>8, <2>9 DEF WillCreate
  <2> QED BY <2>10
<1> QED BY <1>3, <1>4, <1>5, <1>9, <1>10, <1>11 DEF Step

LEMMA NextAwaited == TypeOK /\ MissingIsAwaited /\ [Next]_vars => MissingIsAwaited'
<1> SUFFICES ASSUME TypeOK, MissingIsAwaited, [Next]_vars PROVE MissingIsAwaited'
  OBVIOUS
<1>1. CASE \E r \in Replicas : Step(r)
  BY <1>1, StepAwaited
<1>2. CASE Flush
  BY <1>2 DEF Flush, MissingIsAwaited, WillCreate
<1>3. CASE UNCHANGED vars
  BY <1>3 DEF vars, MissingIsAwaited, WillCreate
<1> QED BY <1>1, <1>2, <1>3 DEF Next, Step

\* When no process is migrating or creating and none was cut off or failed, every
\* table and view stands (db.py:87-105, 194-339), whatever was dropped by one while
\* another created it.
THEOREM ViewsComeBack == Spec => []ViewsStand
<1>1. TypeOK /\ MissingIsAwaited => ViewsStand
  <2> SUFFICES ASSUME TypeOK, MissingIsAwaited,
                      \A r \in Replicas : pc[r] \in {"down", "up"} /\ ~mishap[r],
                      \E r \in Replicas : pc[r] = "up"
               PROVE  exist = Objects
    BY DEF ViewsStand
  <2>1. \A i \in DOMAIN Statements : Statements[i] \in exist
    BY DEF MissingIsAwaited, WillCreate
  <2> QED BY <2>1 DEF TypeOK, Objects
<1> QED BY <1>1, InitTyped, InitRecorded, NextTyped, NextAwaited, PTL DEF Spec
-----------------------------------------------------------------------------
Settle ==
    \A v \in Versions : Settled(v) =>
        /\ Settled(v)'
        /\ \A r \in Replicas : ~(at[r] = v /\ pc[r] = "migrate" /\ pc'[r] = "record")

LEMMA StepSettle ==
    ASSUME TypeOK, NEW r \in Replicas, Step(r)
    PROVE  Settle
<1>0. /\ recorded' = recorded /\ at[r] \in Nat /\ Versions \subseteq Nat
      /\ \A q \in Replicas \ {r} : pc'[q] = pc[q] /\ at'[q] = at[q]
  BY Database, StepMoves, Lists DEF TypeOK
<1>1. \A q \in Replicas \ {r} : known'[q] = known[q]
  BY DEF TypeOK, Step, db, Start, StartFails, Skip, Migrate, MigrateFails, Record, RecordFails,
         BeginCreate, Create, CreateFails, Finish, Crash
<1> SUFFICES ASSUME NEW v \in Versions, Settled(v)
             PROVE  /\ Settled(v)'
                    /\ \A q \in Replicas : ~(at[q] = v /\ pc[q] = "migrate" /\ pc'[q] = "record")
  BY DEF Settle
<1>2. /\ v \in recorded
      /\ \/ pc[r] \notin {"migrate", "record"}
         \/ v \in known[r] \/ v < at[r] \/ (v = at[r] /\ pc[r] = "record")
  BY DEF Settled
<1>3. SUFFICES /\ \/ pc'[r] \notin {"migrate", "record"}
                  \/ v \in known'[r] \/ v < at'[r] \/ (v = at'[r] /\ pc'[r] = "record")
               /\ ~(at[r] = v /\ pc[r] = "migrate" /\ pc'[r] = "record")
  BY <1>0, <1>1 DEF Settled
<1>4. CASE Start(r)
  BY <1>2, <1>4 DEF Start, Goto, TypeOK
<1>5. CASE Migrate(r)
  BY <1>2, <1>5 DEF Migrate, Due, Goto, TypeOK
<1>6. CASE Skip(r) \/ MigrateFails(r) \/ Record(r) \/ RecordFails(r)
  <2>1. /\ pc[r] \in {"migrate", "record"} /\ pc'[r] = "migrate" /\ at'[r] = at[r] + 1
        /\ known'[r] = known[r]
        /\ pc[r] = "migrate" /\ at[r] = v => v \in known[r] \/ v < at'[r]
    BY <1>0, <1>6 DEF Skip, MigrateFails, Record, RecordFails, Due, Goto, TypeOK, db
  <2> QED BY <1>0, <1>2, <2>1
<1>7. CASE StartFails(r) \/ BeginCreate(r) \/ Create(r) \/ CreateFails(r) \/ Finish(r) \/ Crash(r)
  <2>1. pc'[r] \in {"down", "create", "up"}
    BY <1>7, Moves DEF Goto, TypeOK
  <2> QED BY <2>1
<1> QED BY <1>4, <1>5, <1>6, <1>7 DEF Step

\* A migration that is recorded, and that nobody started before the record could be
\* read, never runs again (db.py:108-121, 156-161, 172-190).
THEOREM MigrationsStaySettled == Spec => MigrationsSettle
<1>1. TypeOK /\ [Next]_vars => [Settle]_vars
  <2> SUFFICES ASSUME TypeOK, Next PROVE Settle
    BY DEF Settle
  <2>1. CASE \E r \in Replicas : Step(r)
    BY <2>1, StepSettle
  <2>2. CASE Flush
    BY <2>2 DEF Flush, Settle, Settled, TypeOK
  <2> QED BY <2>1, <2>2 DEF Next, Step
<1>2. MigrationsSettle <=> [][Settle]_vars
  BY DEF MigrationsSettle, Settle
<1> QED BY <1>1, <1>2, SchemaTypes, PTL DEF Spec
=============================================================================

-------------------------- MODULE TidesStoreProofs --------------------------
(***************************************************************************)
(* The configuration and the stored window keep their types, and each      *)
(* field of the configuration is what was last asked for it, for any       *)
(* number of requests, updates not made yet, outages and failures.         *)
(***************************************************************************)
EXTENDS TidesStore, TLAPS

Held == [pc : {"idle", "compare", "alter", "resolve", "read", "look", "store"},
         want : Update \union {NoOne}, end : {"now", "then", NoOne},
         start : Start \union {NoOne}, conf : Config \union {NoOne},
         found : BOOLEAN \union {NoOne}]

\* What a task holds at each place.
HoldsEnough(t) ==
    /\ task[t].pc \in {"compare", "alter"} => task[t].want \in Update
    /\ task[t].pc = "compare" => task[t].want \in [{"network_difficulty"} -> Difficulties]
    /\ task[t].pc \in {"resolve", "read", "look", "store"} => task[t].end \in {"now", "then"}
    /\ task[t].pc = "read" /\ coin = "btc" => task[t].start \in Start
    /\ task[t].pc \in {"look", "store"} => task[t].conf \in Config /\ task[t].start \in Start
    /\ task[t].pc = "store" => task[t].found \in BOOLEAN
    /\ task[t].pc = "store" /\ task[t].found => window # << >>

Pending == [row : Window, upTo : Nat \ {0}]

IInv ==
    /\ coin \in {"btc", "bch"} /\ coin \in Coins
    /\ chain \in Difficulties /\ oceanUp \in BOOLEAN
    /\ config \in Config /\ asked \in Config
    /\ configAlters \in Seq(Update)
    /\ window \in Seq(Window) /\ buffered \in Seq(Window)
    /\ windowAlters \in Seq(Pending)
    /\ \A i \in DOMAIN windowAlters : windowAlters[i].upTo <= Len(window)
    /\ task \in [Tasks -> Held]
    /\ \A t \in Tasks : HoldsEnough(t)
-----------------------------------------------------------------------------
\* A row stays one after an update.
LEMMA WithTyped ==
    ASSUME NEW row \in Config, NEW update \in Update
    PROVE  With(row, update) \in Config
<1>1. DOMAIN row = {"network_difficulty", "multiplier"}
  BY DEF Config
<1>2. CASE update \in [{"network_difficulty"} -> Difficulties]
  BY <1>1, <1>2 DEF With, Config
<1>3. CASE update \in [{"multiplier"} -> Multipliers]
  BY <1>1, <1>3 DEF With, Config
<1>4. CASE update \in Config
  BY <1>1, <1>4 DEF With, Config
<1> QED BY <1>2, <1>3, <1>4 DEF Update

LEMMA ElementTyped ==
    ASSUME NEW S, NEW s \in Seq(S), NEW i \in DOMAIN s
    PROVE  s[i] \in S
OBVIOUS

\* A task that goes on with what is enough for its place.
LEMMA BecomeHolds ==
    ASSUME IInv, NEW t \in Tasks, NEW held \in Held, Become(t, held),
           coin' = coin, window # << >> => window' # << >>,
           held.pc \in {"compare", "alter"} => held.want \in Update,
           held.pc = "compare" => held.want \in [{"network_difficulty"} -> Difficulties],
           held.pc \in {"resolve", "read", "look", "store"} => held.end \in {"now", "then"},
           held.pc = "read" /\ coin = "btc" => held.start \in Start,
           held.pc \in {"look", "store"} => held.conf \in Config /\ held.start \in Start,
           held.pc = "store" => held.found \in BOOLEAN,
           held.pc = "store" /\ held.found => window # << >>
    PROVE  task' \in [Tasks -> Held] /\ (\A u \in Tasks : HoldsEnough(u))'
<1>1. task' = [task EXCEPT ![t] = held] /\ task \in [Tasks -> Held]
  BY DEF Become, IInv
<1>2. task' \in [Tasks -> Held] /\ task'[t] = held
  BY <1>1
<1>3. ASSUME NEW u \in Tasks PROVE HoldsEnough(u)'
  <2>1. CASE u = t
    BY <1>2, <2>1 DEF HoldsEnough
  <2>2. CASE u # t
    <3>1. task'[u] = task[u]
      BY <1>1, <2>2
    <3>2. HoldsEnough(u)
      BY DEF IInv
    <3> QED BY <3>1, <3>2 DEF HoldsEnough
  <2> QED BY <2>1, <2>2
<1> QED BY <1>2, <1>3

LEMMA IdleHeld == Idle \in Held /\ Idle.pc = "idle"
BY DEF Idle, Held

LEMMA CalculatingHeld ==
    ASSUME NEW end \in {"now", "then"}
    PROVE  /\ Calculating(end) \in Held /\ Calculating(end).end = end
           /\ Calculating(end).pc = IF coin = "btc" THEN "resolve" ELSE "read"
BY DEF Calculating, Idle, Held

\* The initial states.
LEMMA InitTyped == Init => IInv
BY StoreAssumption, IdleHeld DEF Init, IInv, HoldsEnough, Config, Tasks
-----------------------------------------------------------------------------
\* What every step keeps that leaves the tasks and the stored window alone.
LEMMA TasksWake ==
    ASSUME IInv, TidesWakes \/ MonitorFetches \/ MonitorCompares
    PROVE  IInv'
<1> USE DEF IInv, tables
<1>1. CASE TidesWakes
  <2>1. "tides" \in Tasks /\ Calculating("now") \in Held
    BY CalculatingHeld DEF Tasks
  <2>2. task' \in [Tasks -> Held] /\ (\A u \in Tasks : HoldsEnough(u))'
    BY <1>1, <2>1, CalculatingHeld, BecomeHolds DEF TidesWakes
  <2> QED BY <1>1, <2>2 DEF TidesWakes
<1>2. CASE MonitorFetches
  <2> DEFINE want == [network_difficulty |-> chain]
             held == [Idle EXCEPT !.pc = "compare", !.want = want]
  <2>1. want \in [{"network_difficulty"} -> Difficulties]
    OBVIOUS
  <2>2. want \in Update
    BY <2>1 DEF Update
  <2>3. held \in Held /\ held.pc = "compare" /\ held.want = want
    BY <2>2 DEF Idle, Held
  <2>4. "monitor" \in Tasks
    BY DEF Tasks
  <2>5. Become("monitor", held) /\ coin' = coin /\ window' = window
    BY <1>2 DEF MonitorFetches
  <2> HIDE DEF want, held
  <2>6. task' \in [Tasks -> Held] /\ (\A u \in Tasks : HoldsEnough(u))'
    BY <2>1, <2>2, <2>3, <2>4, <2>5, BecomeHolds
  <2> QED BY <1>2, <2>6 DEF MonitorFetches
<1>3. CASE MonitorCompares
  <2> DEFINE held == task["monitor"]
  <2>1. "monitor" \in Tasks /\ held \in Held /\ held.pc = "compare"
    BY <1>3 DEF Tasks, MonitorCompares
  <2>2. held.want \in Update
    BY <2>1 DEF HoldsEnough
  <2>3. CASE config.network_difficulty = held.want.network_difficulty
    <3>1. Become("monitor", Idle) /\ coin' = coin /\ window' = window
      BY <1>3, <2>3 DEF MonitorCompares
    <3>2. task' \in [Tasks -> Held] /\ (\A u \in Tasks : HoldsEnough(u))'
      BY <2>1, <3>1, IdleHeld, BecomeHolds
    <3> QED BY <1>3, <3>2 DEF MonitorCompares
  <2>4. CASE config.network_difficulty # held.want.network_difficulty
    <3> DEFINE next == [held EXCEPT !.pc = "alter"]
    <3>1. next \in Held /\ next.pc = "alter" /\ next.want = held.want
      BY <2>1 DEF Held
    <3>2. Become("monitor", next) /\ coin' = coin /\ window' = window
      BY <1>3, <2>4 DEF MonitorCompares
    <3> HIDE DEF next
    <3>3. task' \in [Tasks -> Held] /\ (\A u \in Tasks : HoldsEnough(u))'
      BY <2>1, <2>2, <3>1, <3>2, BecomeHolds
    <3> QED BY <1>3, <3>3 DEF MonitorCompares
  <2> QED BY <2>3, <2>4
<1> QED BY <1>1, <1>2, <1>3

LEMMA RequestsCome ==
    ASSUME IInv, NEW r \in Requests, NEW update \in Update,
           AskUpdate(r, update) \/ AskWindow(r)
    PROVE  IInv'
<1> USE DEF IInv, tables
<1>0. r \in Tasks
  BY DEF Tasks
<1>1. CASE AskUpdate(r, update)
  <2> DEFINE held == [Idle EXCEPT !.pc = "alter", !.want = update]
  <2>1. held \in Held /\ held.pc = "alter" /\ held.want = update
    BY DEF Idle, Held
  <2>2. Become(r, held) /\ coin' = coin /\ window' = window
    BY <1>1 DEF AskUpdate
  <2> HIDE DEF held
  <2>3. task' \in [Tasks -> Held] /\ (\A u \in Tasks : HoldsEnough(u))'
    BY <1>0, <2>1, <2>2, BecomeHolds
  <2> QED BY <1>1, <2>3 DEF AskUpdate
<1>2. CASE AskWindow(r)
  <2>1. task' \in [Tasks -> Held] /\ (\A u \in Tasks : HoldsEnough(u))'
    BY <1>0, <1>2, CalculatingHeld, BecomeHolds DEF AskWindow
  <2> QED BY <1>2, <2>1 DEF AskWindow
<1> QED BY <1>1, <1>2
-----------------------------------------------------------------------------
LEMMA AlterIInv == ASSUME IInv, NEW t \in Tasks, Alter(t) PROVE IInv'
<1> USE DEF IInv, tables
<1>1. task[t].want \in Update
  BY DEF Alter, HoldsEnough
<1>2. asked' \in Config
  BY <1>1, WithTyped DEF Alter
<1>3. configAlters' \in Seq(Update)
  BY <1>1 DEF Alter
<1>4. task' \in [Tasks -> Held] /\ (\A u \in Tasks : HoldsEnough(u))'
  BY CalculatingHeld, BecomeHolds DEF Alter
<1> QED BY <1>2, <1>3, <1>4 DEF Alter

LEMMA ResolveIInv == ASSUME IInv, NEW t \in Tasks, ResolveStart(t) PROVE IInv'
<1> USE DEF IInv, tables
<1>1. PICK start \in IF oceanUp THEN {"ocean"}
                     ELSE IF window # << >> THEN {window[i].start : i \in DOMAIN window}
                     ELSE {"four days back"} :
          Become(t, [task[t] EXCEPT !.pc = "read", !.start = start])
  BY DEF ResolveStart
<1>2. \A i \in DOMAIN window : window[i] \in Window
  BY ElementTyped
<1>3. start \in Start
  BY <1>1, <1>2 DEF Start, Window
<1> DEFINE held == [task[t] EXCEPT !.pc = "read", !.start = start]
<1>4. task[t] \in Held /\ task[t].end \in {"now", "then"}
  BY DEF ResolveStart, HoldsEnough
<1>5. held \in Held /\ held.pc = "read" /\ held.start = start /\ held.end = task[t].end
  BY <1>3, <1>4 DEF Held
<1>6. Become(t, held) /\ coin' = coin /\ window' = window
  BY <1>1 DEF ResolveStart
<1> HIDE DEF held
<1>7. task' \in [Tasks -> Held] /\ (\A u \in Tasks : HoldsEnough(u))'
  BY <1>3, <1>4, <1>5, <1>6, BecomeHolds
<1> QED BY <1>7 DEF ResolveStart

LEMMA ReadIInv == ASSUME IInv, NEW t \in Tasks, ReadConfig(t) PROVE IInv'
<1> USE DEF IInv, tables
<1>1. task[t] \in Held /\ task[t].end \in {"now", "then"} /\ task[t].pc = "read"
  BY DEF ReadConfig, HoldsEnough
<1>2. CASE coin = "bch" /\ task[t].end = "then"
  <2>1. task' \in [Tasks -> Held] /\ (\A u \in Tasks : HoldsEnough(u))'
    BY <1>2, IdleHeld, BecomeHolds DEF ReadConfig
  <2> QED BY <2>1 DEF ReadConfig
<1>3. CASE ~(coin = "bch" /\ task[t].end = "then")
  <2> DEFINE start == IF coin = "bch" THEN "shares" ELSE task[t].start
             held == [task[t] EXCEPT !.pc = "look", !.conf = config, !.start = start]
  <2>1. start \in Start
    BY <1>1 DEF HoldsEnough, Start
  <2>2. held \in Held /\ held.pc = "look" /\ held.conf = config /\ held.start = start
        /\ held.end = task[t].end
    BY <1>1, <2>1 DEF Held
  <2>3. Become(t, held) /\ coin' = coin /\ window' = window
    BY <1>3 DEF ReadConfig
  <2> HIDE DEF held, start
  <2>4. task' \in [Tasks -> Held] /\ (\A u \in Tasks : HoldsEnough(u))'
    BY <1>1, <2>1, <2>2, <2>3, BecomeHolds
  <2> QED BY <2>4 DEF ReadConfig
<1> QED BY <1>2, <1>3

LEMMA LookIInv == ASSUME IInv, NEW t \in Tasks, Look(t) PROVE IInv'
<1> USE DEF IInv, tables
<1>1. /\ task[t] \in Held /\ task[t].end \in {"now", "then"} /\ task[t].conf \in Config
      /\ task[t].start \in Start
  BY DEF Look, HoldsEnough
<1> DEFINE held == [task[t] EXCEPT !.pc = "store", !.found = (window # << >>)]
<1>2. /\ held \in Held /\ held.pc = "store" /\ held.found = (window # << >>)
      /\ held.end = task[t].end /\ held.conf = task[t].conf /\ held.start = task[t].start
  BY <1>1 DEF Held
<1>3. Become(t, held) /\ coin' = coin /\ window' = window
  BY DEF Look
<1> HIDE DEF held
<1>4. task' \in [Tasks -> Held] /\ (\A u \in Tasks : HoldsEnough(u))'
  BY <1>1, <1>2, <1>3, BecomeHolds
<1> QED BY <1>4 DEF Look

LEMMA StoreIInv == ASSUME IInv, NEW t \in Tasks, Store(t) PROVE IInv'
<1> USE DEF IInv, tables
<1>1. Result(t) \in Window
  BY DEF Store, HoldsEnough, Result, Window
<1>2. task' \in [Tasks -> Held] /\ (\A u \in Tasks : HoldsEnough(u))'
  BY IdleHeld, BecomeHolds DEF Store
<1>3. CASE task[t].found
  <2> DEFINE last == [row |-> Result(t), upTo |-> Len(window)]
  <2>0. Len(window) > 0
    BY <1>3 DEF Store, HoldsEnough
  <2>1. last \in Pending
    BY <1>1, <2>0 DEF Pending
  <2>2. windowAlters' = Append(windowAlters, last) /\ UNCHANGED <<window, buffered>>
    BY <1>3 DEF Store
  <2>3. windowAlters' \in Seq(Pending)
    BY <2>1, <2>2
  <2>4. \A i \in DOMAIN windowAlters' : windowAlters'[i].upTo <= Len(window)
    BY <2>2
  <2> QED BY <1>2, <2>2, <2>3, <2>4 DEF Store
<1>4. CASE ~task[t].found
  <2>1. buffered' = Append(buffered, Result(t)) /\ UNCHANGED <<window, windowAlters>>
    BY <1>4 DEF Store
  <2>2. buffered' \in Seq(Window)
    BY <1>1, <2>1
  <2> QED BY <1>2, <2>1, <2>2 DEF Store
<1> QED BY <1>3, <1>4
-----------------------------------------------------------------------------
LEMMA FailsIInv == ASSUME IInv, NEW t \in Tasks, Fails(t) PROVE IInv'
<1> USE DEF IInv, tables
<1>1. task' \in [Tasks -> Held] /\ (\A u \in Tasks : HoldsEnough(u))'
  BY IdleHeld, BecomeHolds DEF Fails
<1> QED BY <1>1 DEF Fails

LEMMA ApplyConfigIInv == ASSUME IInv, ApplyConfig PROVE IInv'
<1> USE DEF IInv
<1>1. Head(configAlters) \in Update /\ Tail(configAlters) \in Seq(Update)
  BY DEF ApplyConfig
<1>2. config' \in Config
  BY <1>1, WithTyped DEF ApplyConfig
<1>3. (\A t \in Tasks : HoldsEnough(t))'
  BY DEF ApplyConfig, HoldsEnough
<1> QED BY <1>1, <1>2, <1>3 DEF ApplyConfig

LEMMA ApplyWindowIInv == ASSUME IInv, ApplyWindow PROVE IInv'
<1> USE DEF IInv
<1>1. Head(windowAlters) \in Pending /\ Tail(windowAlters) \in Seq(Pending)
  BY DEF ApplyWindow
<1>2. Head(windowAlters).row \in Window
  BY <1>1 DEF Pending
<1>3. \A i \in DOMAIN window : window[i] \in Window
  BY ElementTyped
<1>4. window' \in Seq(Window) /\ Len(window') = Len(window)
  <2>1. DOMAIN window = 1..Len(window) /\ Len(window) \in Nat
    OBVIOUS
  <2>2. window' = [i \in 1..Len(window) |-> IF i <= Head(windowAlters).upTo
                                            THEN Head(windowAlters).row ELSE window[i]]
    BY <2>1 DEF ApplyWindow
  <2>3. window' \in [1..Len(window) -> Window]
    BY <1>2, <1>3, <2>1, <2>2
  <2>4. DOMAIN window' = 1..Len(window)
    BY <2>2
  <2>5. window' \in Seq(Window)
    BY <2>1, <2>3
  <2> QED BY <2>1, <2>4, <2>5
<1>5. \A i \in DOMAIN windowAlters' : windowAlters'[i].upTo <= Len(window')
  <2> SUFFICES ASSUME NEW i \in DOMAIN windowAlters' PROVE windowAlters'[i].upTo <= Len(window')
    OBVIOUS
  <2>1. windowAlters' = Tail(windowAlters) /\ windowAlters # << >>
    BY DEF ApplyWindow
  <2>2. i + 1 \in DOMAIN windowAlters /\ windowAlters'[i] = windowAlters[i + 1]
    BY <2>1
  <2> QED BY <1>4, <2>2
<1>6. (\A t \in Tasks : HoldsEnough(t))'
  <2>1. window # << >> => window' # << >>
    BY <1>4
  <2> QED BY <2>1 DEF ApplyWindow, HoldsEnough
<1> QED BY <1>1, <1>4, <1>5, <1>6 DEF ApplyWindow

LEMMA FlushIInv == ASSUME IInv, Flush PROVE IInv'
<1> USE DEF IInv
<1>1. window' \in Seq(Window) /\ Len(window') >= Len(window) /\ window' # << >>
  BY DEF Flush
<1>2. \A i \in DOMAIN windowAlters : windowAlters[i].upTo <= Len(window')
  <2> SUFFICES ASSUME NEW i \in DOMAIN windowAlters PROVE windowAlters[i].upTo <= Len(window')
    OBVIOUS
  <2>1. windowAlters[i] \in Pending
    BY ElementTyped
  <2> QED BY <1>1, <2>1 DEF Pending
<1>3. (\A t \in Tasks : HoldsEnough(t))'
  BY <1>1 DEF Flush, HoldsEnough
<1> QED BY <1>1, <1>2, <1>3 DEF Flush

\* What happens outside of the process.
LEMMA WorldIInv == ASSUME IInv, ChainMoves \/ OceanStops \/ OceanReturns PROVE IInv'
<1>1. /\ chain' \in Difficulties /\ oceanUp' \in BOOLEAN
      /\ UNCHANGED <<coin, tables, task, asked>>
  BY DEF ChainMoves, OceanStops, OceanReturns, IInv
<1> QED BY <1>1 DEF IInv, HoldsEnough, tables

LEMMA NextIInv == IInv /\ [Next]_vars => IInv'
<1> SUFFICES ASSUME IInv, [Next]_vars PROVE IInv'
  OBVIOUS
<1>1. CASE TidesWakes \/ MonitorFetches \/ MonitorCompares
  BY <1>1, TasksWake
<1>2. CASE \E r \in Requests : (\E update \in Update : AskUpdate(r, update)) \/ AskWindow(r)
  <2>1. chain \in Difficulties
    BY DEF IInv
  <2>2. [network_difficulty |-> chain] \in [{"network_difficulty"} -> Difficulties]
    BY <2>1
  <2>3. [network_difficulty |-> chain] \in Update
    BY <2>2 DEF Update
  <2> QED BY <1>2, <2>3, RequestsCome
<1>3. ASSUME NEW t \in Tasks,
             Alter(t) \/ ResolveStart(t) \/ ReadConfig(t) \/ Look(t) \/ Store(t) \/ Fails(t)
      PROVE  IInv'
  BY <1>3, AlterIInv, ResolveIInv, ReadIInv, LookIInv, StoreIInv, FailsIInv
<1>4. CASE ApplyConfig \/ ApplyWindow \/ Flush
  BY <1>4, ApplyConfigIInv, ApplyWindowIInv, FlushIInv
<1>5. CASE ChainMoves \/ OceanStops \/ OceanReturns
  BY <1>5, WorldIInv
<1>6. CASE UNCHANGED vars
  BY <1>6 DEF vars, tables, IInv, HoldsEnough
<1> QED BY <1>1, <1>2, <1>3, <1>4, <1>5, <1>6 DEF Next

\* IInv is an invariant, for any constants.
LEMMA Invariance == Spec => []IInv
BY InitTyped, NextIInv, PTL DEF Spec

\* The configuration, the stored window and what is still to be changed in them
\* keep their types, and a calculation has all it stores when it comes to it.
THEOREM StoreTypes == Spec => []TypeOK
<1>1. IInv => TypeOK
  <2> SUFFICES ASSUME IInv PROVE TypeOK
    OBVIOUS
  <2>1. ASSUME NEW t \in Tasks
        PROVE  /\ task[t].pc \in {"idle", "compare", "alter", "resolve", "read", "look", "store"}
               /\ task[t].pc \in {"compare", "alter"} => task[t].want \in Update
               /\ task[t].pc = "store" => Result(t) \in Window /\ task[t].found \in BOOLEAN
    BY DEF IInv, HoldsEnough, Held, Result, Window
  <2> QED BY <2>1 DEF TypeOK, IInv, Pending
<1> QED BY <1>1, Invariance, PTL
-----------------------------------------------------------------------------
\* The fields: the updates not made yet that name one.
Naming(f) == {i \in DOMAIN configAlters : f \in DOMAIN configAlters[i]}

FieldHolds(f) ==
    /\ Naming(f) = {} => config[f] = asked[f]
    /\ \A i \in Naming(f) : (\A j \in Naming(f) : j <= i) => configAlters[i][f] = asked[f]

LEMMA FieldsByName ==
    FieldsAreLastAsked <=> \A f \in DOMAIN config : FieldHolds(f)
BY DEF FieldsAreLastAsked, FieldHolds, Naming

LEMMA AlterFields ==
    ASSUME IInv, FieldsAreLastAsked, NEW t \in Tasks, Alter(t)
    PROVE  FieldsAreLastAsked'
<1> DEFINE update == task[t].want
           n == Len(configAlters)
<1>1. update \in Update
  BY DEF IInv, Alter, HoldsEnough
<1>2. /\ configAlters' = Append(configAlters, update) /\ configAlters \in Seq(Update)
      /\ asked' = With(asked, update) /\ config' = config
      /\ asked \in Config /\ config \in Config
  BY DEF IInv, Alter
<1> HIDE DEF update
<1>3. DOMAIN config = DOMAIN asked
  BY <1>2 DEF Config
<1>4. /\ n \in Nat /\ DOMAIN configAlters = 1..n /\ DOMAIN configAlters' = 1..(n + 1)
      /\ \A i \in 1..n : configAlters'[i] = configAlters[i]
      /\ configAlters'[n + 1] = update
  BY <1>1, <1>2
<1> HIDE DEF n
<1>5. ASSUME NEW f \in DOMAIN config PROVE FieldHolds(f)'
  <2>1. FieldHolds(f)
    BY FieldsByName
  <2>2. CASE f \in DOMAIN update
    <3>1. asked'[f] = update[f]
      BY <1>2, <1>3, <2>2 DEF With
    <3>2. n + 1 \in Naming(f)'
      BY <1>4, <2>2 DEF Naming
    <3>3. \A i \in Naming(f)' : i \in 1..(n + 1)
      BY <1>4 DEF Naming
    <3>4. ASSUME NEW i \in Naming(f)', \A j \in Naming(f)' : j <= i
          PROVE  configAlters'[i][f] = asked'[f]
      <4>1. i = n + 1
        BY <1>4, <3>2, <3>3, <3>4
      <4> QED BY <1>4, <3>1, <4>1
    <3> QED BY <3>2, <3>4 DEF FieldHolds
  <2>3. CASE f \notin DOMAIN update
    <3>1. asked'[f] = asked[f]
      BY <1>2, <1>3, <2>3 DEF With
    <3>2. Naming(f)' = Naming(f)
      BY <1>4, <2>3 DEF Naming
    <3>3. \A i \in Naming(f) : configAlters'[i] = configAlters[i]
      BY <1>4 DEF Naming
    <3> QED BY <1>2, <2>1, <3>1, <3>2, <3>3 DEF FieldHolds
  <2> QED BY <2>2, <2>3
<1> QED BY <1>2, <1>5, FieldsByName DEF FieldsAreLastAsked, FieldHolds, Naming

LEMMA ApplyFields ==
    ASSUME IInv, FieldsAreLastAsked, ApplyConfig
    PROVE  FieldsAreLastAsked'
<1> DEFINE first == configAlters[1]
           n == Len(configAlters)
<1>1. /\ configAlters \in Seq(Update) /\ configAlters # << >>
      /\ config' = With(config, first) /\ asked' = asked
      /\ configAlters' = Tail(configAlters) /\ config \in Config
  BY DEF IInv, ApplyConfig
<1>2. /\ n \in Nat \ {0} /\ DOMAIN configAlters = 1..n /\ DOMAIN configAlters' = 1..(n - 1)
      /\ \A i \in 1..(n - 1) : configAlters'[i] = configAlters[i + 1]
  BY <1>1
<1>3. DOMAIN config' = DOMAIN config
  BY <1>1 DEF With
<1> HIDE DEF n
<1>4. ASSUME NEW f \in DOMAIN config PROVE FieldHolds(f)'
  <2>1. FieldHolds(f)
    BY FieldsByName
  <2>2. \A i \in 1..(n - 1) : i \in Naming(f)' <=> i + 1 \in Naming(f)
    BY <1>2 DEF Naming
  <2>3. Naming(f)' \subseteq 1..(n - 1) /\ Naming(f) \subseteq 1..n
    BY <1>2 DEF Naming
  <2>4. ASSUME Naming(f)' = {} PROVE config'[f] = asked[f]
    <3>1. Naming(f) \subseteq {1}
      <4> SUFFICES ASSUME NEW i \in Naming(f), i # 1 PROVE FALSE
        OBVIOUS
      <4>1. i - 1 \in 1..(n - 1) /\ (i - 1) + 1 = i
        BY <1>2, <2>3
      <4> QED BY <2>2, <2>4, <4>1
    <3>2. CASE f \in DOMAIN first
      <4>1. 1 \in Naming(f)
        BY <1>2, <3>2 DEF Naming
      <4>2. first[f] = asked[f]
        BY <2>1, <3>1, <4>1 DEF FieldHolds
      <4> QED BY <1>1, <3>2, <4>2 DEF With
    <3>3. CASE f \notin DOMAIN first
      <4>1. Naming(f) = {}
        BY <3>1, <3>3 DEF Naming
      <4>2. config[f] = asked[f]
        BY <2>1, <4>1 DEF FieldHolds
      <4> QED BY <1>1, <3>3, <4>2 DEF With
    <3> QED BY <3>2, <3>3
  <2>5. ASSUME NEW i \in Naming(f)', \A j \in Naming(f)' : j <= i
        PROVE  configAlters'[i][f] = asked[f]
    <3>1. i \in 1..(n - 1) /\ i + 1 \in Naming(f)
      BY <2>2, <2>3
    <3>2. ASSUME NEW j \in Naming(f) PROVE j <= i + 1
      <4>1. CASE j = 1
        BY <1>2, <3>1, <4>1
      <4>2. CASE j # 1
        <5>1. j \in 1..n /\ j - 1 \in 1..(n - 1) /\ (j - 1) + 1 = j
          BY <1>2, <2>3, <4>2
        <5>2. j - 1 \in Naming(f)'
          BY <2>2, <5>1
        <5>3. j - 1 <= i
          BY <2>5, <5>2
        <5> QED BY <3>1, <5>1, <5>3
      <4> QED BY <4>1, <4>2
    <3>3. configAlters[i + 1][f] = asked[f]
      BY <2>1, <3>1, <3>2 DEF FieldHolds
    <3> QED BY <1>2, <3>1, <3>3
  <2> QED BY <1>1, <2>4, <2>5 DEF FieldHolds
<1> QED BY <1>3, <1>4 DEF FieldsAreLastAsked, FieldHolds, Naming

LEMMA NextFields ==
    IInv /\ FieldsAreLastAsked /\ [Next]_vars => FieldsAreLastAsked'
<1> SUFFICES ASSUME IInv, FieldsAreLastAsked, [Next]_vars PROVE FieldsAreLastAsked'
  OBVIOUS
<1>1. CASE \E t \in Tasks : Alter(t)
  BY <1>1, AlterFields
<1>2. CASE ApplyConfig
  BY <1>2, ApplyFields
<1>3. CASE UNCHANGED <<config, configAlters, asked>>
  BY <1>3 DEF FieldsAreLastAsked
<1>4. \/ \E t \in Tasks : Alter(t)
      \/ ApplyConfig
      \/ UNCHANGED <<config, configAlters, asked>>
  BY DEF Next, vars, tables, TidesWakes, MonitorFetches, MonitorCompares, AskUpdate, AskWindow,
         ResolveStart, ReadConfig, Look, Store, Fails, ApplyWindow, Flush, ChainMoves,
         OceanStops, OceanReturns
<1> QED BY <1>1, <1>2, <1>3, <1>4

\* Each field of the configuration is, or will be once ClickHouse has made the
\* updates it was asked for, what was last asked for it (config_queries.py:33-86).
THEOREM LastAskedStays == Spec => []FieldsAreLastAsked
<1>1. Init => FieldsAreLastAsked
  BY DEF Init, FieldsAreLastAsked
<1> QED BY <1>1, NextFields, Invariance, PTL DEF Spec
=============================================================================

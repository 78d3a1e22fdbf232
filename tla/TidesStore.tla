----------------------------- MODULE TidesStore -----------------------------
(***************************************************************************)
(* The TIDES configuration, the window stored beside it, and everything    *)
(* that writes either: the administrator's updates                         *)
(* (src/api/services/config_queries.py), the difficulty monitor            *)
(* (src/difficulty_monitoring/monitor.py), the task that recalculates the  *)
(* window (src/tides_monitoring/monitor.py), and the calculations for a    *)
(* time in the past that are asked for through the API or made for a new   *)
(* reward.  All are coroutines of one process; a calculation is a sequence *)
(* of queries, and others run in between.                                  *)
(*                                                                         *)
(* ALTER TABLE ... UPDATE is asynchronous: the change is made later, in    *)
(* the order of the commands, to the rows there were when it was asked     *)
(* for.  Which shares a window counts is the subject of TidesWindow; here  *)
(* it is where its ends come from, and the configuration it was made with. *)
(***************************************************************************)
EXTENDS Naturals, Sequences, FiniteSets

CONSTANTS
    Coins,          \* COIN: "btc" goes by Ocean's window, "bch" by the shares
    Difficulties, Multipliers,
    Default,        \* the row _create_tables inserts
    Requests,       \* requests that are served at a time
    NoOne,          \* for what a task has not got yet
    MaxEvents       \* bound: requests, changes of the network's difficulty, times
                    \* Ocean stops answering, and tasks that fail, together

ASSUME StoreAssumption ==
    /\ Coins \subseteq {"btc", "bch"}
    /\ Requests \intersect {"tides", "monitor"} = {}
    /\ Default \in [network_difficulty : Difficulties, multiplier : Multipliers]
    /\ NoOne \notin BOOLEAN
    /\ MaxEvents \in Nat

VARIABLES
    coin,
    chain,          \* the network's difficulty, as the provider tells it
    oceanUp,        \* Ocean answers
    config,         \* the row of tides_config
    configAlters,   \* updates of it not made yet
    window,         \* the rows of tides_window a query sees
    windowAlters,   \* updates of them not made yet
    buffered,       \* rows of tides_window in the insert buffer
    task,           \* where each task and request is, and what it holds
    asked,          \* what was last asked for each field of config (ghost)
    events          \* how many of MaxEvents there were

tables == <<config, configAlters, window, windowAlters, buffered>>
vars == <<coin, chain, oceanUp, tables, task, asked, events>>

Tasks == {"tides", "monitor"} \union Requests
Config == [network_difficulty : Difficulties, multiplier : Multipliers]
Values == Difficulties \union Multipliers

\* Updates name one field or both.
Update == [{"network_difficulty"} -> Difficulties] \union [{"multiplier"} -> Multipliers]
            \union Config

\* Where a window begins: at Ocean's start, four days before an end, or where
\* the shares reach the target.
Start == {"ocean", "four days back", "shares"}
Window == [conf : Config, end : {"now", "then"}, start : Start]

Idle == [pc |-> "idle", want |-> NoOne, end |-> NoOne,
         start |-> NoOne, conf |-> NoOne, found |-> NoOne]

\* The row after an update of some of its fields.
With(row, update) ==
    [f \in DOMAIN row |-> IF f \in DOMAIN update THEN update[f] ELSE row[f]]

Event == events < MaxEvents /\ events' = events + 1
-----------------------------------------------------------------------------
Init ==
    /\ coin \in Coins
    /\ chain \in Difficulties /\ oceanUp \in BOOLEAN
    /\ config = Default /\ configAlters = << >>
    /\ window = << >> /\ windowAlters = << >> /\ buffered = << >>
    /\ task = [t \in Tasks |-> Idle]
    /\ asked = config
    /\ events = 0

\* A calculation begins: for btc with the start of the window, which Ocean
\* tells, and for bch with the configuration.
Calculating(end) ==
    [Idle EXCEPT !.pc = IF coin = "btc" THEN "resolve" ELSE "read", !.end = end]

Become(t, held) == task' = [task EXCEPT ![t] = held]

\* The rounds of the two tasks are minutes apart: ClickHouse has done by then
\* what it was asked for in the round before.
WindowKeptUp == windowAlters = << >> /\ buffered = << >>

\* tides_monitor_task wakes up.
TidesWakes ==
    /\ task["tides"].pc = "idle" /\ WindowKeptUp
    /\ Become("tides", Calculating("now"))
    /\ UNCHANGED <<coin, chain, oceanUp, tables, asked, events>>

\* difficulty_monitor_task: the provider's answer; without one it sleeps again.
MonitorFetches ==
    /\ task["monitor"].pc = "idle" /\ configAlters = << >>
    /\ Become("monitor", [Idle EXCEPT !.pc = "compare",
                                      !.want = [network_difficulty |-> chain]])
    /\ UNCHANGED <<coin, chain, oceanUp, tables, asked, events>>

\* get_config, and nothing to do when it says so already.
MonitorCompares ==
    /\ task["monitor"].pc = "compare"
    /\ LET held == task["monitor"]
       IN  IF config.network_difficulty = held.want.network_difficulty
           THEN Become("monitor", Idle)
           ELSE Become("monitor", [held EXCEPT !.pc = "alter"])
    /\ UNCHANGED <<coin, chain, oceanUp, tables, asked, events>>

\* PUT /config/tides
AskUpdate(r, update) ==
    /\ task[r].pc = "idle" /\ Event
    /\ Become(r, [Idle EXCEPT !.pc = "alter", !.want = update])
    /\ UNCHANGED <<coin, chain, oceanUp, tables, asked>>

\* POST /api/tides/window/calculate, or the window of a reward that is entered
\* or found: a calculation for a time in the past.
AskWindow(r) ==
    /\ task[r].pc = "idle" /\ Event
    /\ Become(r, Calculating("then"))
    /\ UNCHANGED <<coin, chain, oceanUp, tables, asked>>
-----------------------------------------------------------------------------
\* Mutant: the whole row as it was read is written back.
AlterWholeRow(t) ==
    /\ task[t].pc = "alter"
    /\ configAlters' = Append(configAlters, With(config, task[t].want))
    /\ asked' = With(asked, task[t].want)
    /\ Become(t, Calculating("now"))
    /\ UNCHANGED <<coin, chain, oceanUp, config, window, windowAlters, buffered, events>>
\* update_config: the update, and the recalculation that follows it.
Alter(t) ==
    /\ task[t].pc = "alter"
    /\ configAlters' = Append(configAlters, task[t].want)
    /\ asked' = With(asked, task[t].want)
    /\ Become(t, Calculating("now"))
    /\ UNCHANGED <<coin, chain, oceanUp, config, window, windowAlters, buffered, events>>

\* Mutant: without Ocean and without a stored window there is no start.
ResolveStartOrNone(t) ==
    /\ task[t].pc = "resolve"
    /\ \E start \in IF oceanUp THEN {"ocean"}
                    ELSE IF window # << >> THEN {window[i].start : i \in DOMAIN window}
                    ELSE {NoOne} :
          Become(t, [task[t] EXCEPT !.pc = "read", !.start = start])
    /\ UNCHANGED <<coin, chain, oceanUp, tables, asked, events>>

\* _resolve_window_start: from Ocean, whatever the end; else from the stored
\* window, of several rows any; else four days back.
ResolveStart(t) ==
    /\ task[t].pc = "resolve"
    /\ \E start \in IF oceanUp THEN {"ocean"}
                    ELSE IF window # << >> THEN {window[i].start : i \in DOMAIN window}
                    ELSE {"four days back"} :
          Become(t, [task[t] EXCEPT !.pc = "read", !.start = start])
    /\ UNCHANGED <<coin, chain, oceanUp, tables, asked, events>>

\* get_config.  A window back from a past time is only stored for btc.
ReadConfig(t) ==
    /\ task[t].pc = "read"
    /\ Become(t, IF coin = "bch" /\ task[t].end = "then" THEN Idle
                 ELSE [task[t] EXCEPT !.pc = "look", !.conf = config,
                                      !.start = IF coin = "bch" THEN "shares" ELSE @])
    /\ UNCHANGED <<coin, chain, oceanUp, tables, asked, events>>

\* _store_tides_window: is there a row?
Look(t) ==
    /\ task[t].pc = "look"
    /\ Become(t, [task[t] EXCEPT !.pc = "store", !.found = (window # << >>)])
    /\ UNCHANGED <<coin, chain, oceanUp, tables, asked, events>>

Result(t) == [conf |-> task[t].conf, end |-> task[t].end, start |-> task[t].start]

\* Mutant: the row is written the first time only.
StoreOnce(t) ==
    /\ task[t].pc = "store"
    /\ IF task[t].found
       THEN UNCHANGED <<windowAlters, buffered>>
       ELSE /\ buffered' = Append(buffered, Result(t))
            /\ UNCHANGED windowAlters
    /\ Become(t, Idle)
    /\ UNCHANGED <<coin, chain, oceanUp, config, configAlters, window, asked, events>>
\* It is updated, or a row inserted.
Store(t) ==
    /\ task[t].pc = "store"
    /\ IF task[t].found
       THEN /\ windowAlters' = Append(windowAlters, [row |-> Result(t), upTo |-> Len(window)])
            /\ UNCHANGED buffered
       ELSE /\ buffered' = Append(buffered, Result(t))
            /\ UNCHANGED windowAlters
    /\ Become(t, Idle)
    /\ UNCHANGED <<coin, chain, oceanUp, config, configAlters, window, asked, events>>

\* An exception, which every caller catches, or a restart of the process.
Fails(t) ==
    /\ task[t].pc # "idle" /\ Event
    /\ Become(t, Idle)
    /\ UNCHANGED <<coin, chain, oceanUp, tables, asked>>
-----------------------------------------------------------------------------
\* ClickHouse makes the changes it was asked for.
ApplyConfig ==
    /\ configAlters # << >>
    /\ config' = With(config, Head(configAlters))
    /\ configAlters' = Tail(configAlters)
    /\ UNCHANGED <<coin, chain, oceanUp, window, windowAlters, buffered, task, asked, events>>

ApplyWindow ==
    /\ windowAlters # << >>
    /\ window' = [i \in DOMAIN window |-> IF i <= Head(windowAlters).upTo
                                          THEN Head(windowAlters).row ELSE window[i]]
    /\ windowAlters' = Tail(windowAlters)
    /\ UNCHANGED <<coin, chain, oceanUp, config, configAlters, buffered, task, asked, events>>

Flush ==
    /\ buffered # << >>
    /\ window' = window \o buffered
    /\ buffered' = << >>
    /\ UNCHANGED <<coin, chain, oceanUp, config, configAlters, windowAlters, task, asked, events>>

ChainMoves ==
    /\ Event
    /\ chain' \in Difficulties \ {chain}
    /\ UNCHANGED <<coin, oceanUp, tables, task, asked>>

OceanStops ==
    /\ oceanUp /\ Event
    /\ oceanUp' = FALSE
    /\ UNCHANGED <<coin, chain, tables, task, asked>>

OceanReturns ==
    /\ ~oceanUp
    /\ oceanUp' = TRUE
    /\ UNCHANGED <<coin, chain, tables, task, asked, events>>

Next ==
    \/ TidesWakes \/ MonitorFetches \/ MonitorCompares
    \/ \E r \in Requests : \/ \E update \in Update : AskUpdate(r, update)
                           \/ AskWindow(r)
    \/ \E t \in Tasks : \/ Alter(t) \/ ResolveStart(t) \/ ReadConfig(t)
                        \/ Look(t) \/ Store(t) \/ Fails(t)
    \/ ApplyConfig \/ ApplyWindow \/ Flush
    \/ ChainMoves \/ OceanStops \/ OceanReturns

Spec == Init /\ [][Next]_vars

\* The loops of the two tasks go on, a coroutine runs, ClickHouse does what it
\* was told, and Ocean and the provider of the difficulty answer again some
\* time.  Nobody has to ask for anything.
Fairness ==
    /\ WF_vars(TidesWakes) /\ WF_vars(MonitorFetches) /\ WF_vars(MonitorCompares)
    /\ \A t \in Tasks : WF_vars(Alter(t) \/ ResolveStart(t) \/ ReadConfig(t) \/ Look(t) \/ Store(t))
    /\ WF_vars(ApplyConfig) /\ WF_vars(ApplyWindow) /\ WF_vars(Flush)
    /\ WF_vars(OceanReturns)

FairSpec == Spec /\ Fairness
-----------------------------------------------------------------------------
\* Types; what a task holds at each place.
TypeOK ==
    /\ coin \in Coins /\ chain \in Difficulties /\ oceanUp \in BOOLEAN
    /\ config \in Config /\ asked \in Config
    /\ configAlters \in Seq(Update)
    /\ window \in Seq(Window) /\ buffered \in Seq(Window)
    /\ windowAlters \in Seq([row : Window, upTo : Nat \ {0}])
    /\ \A i \in DOMAIN windowAlters : windowAlters[i].upTo <= Len(window)
    /\ \A t \in Tasks :
          /\ task[t].pc \in {"idle", "compare", "alter", "resolve", "read", "look", "store"}
          /\ task[t].pc \in {"compare", "alter"} => task[t].want \in Update
          /\ task[t].pc = "store" => Result(t) \in Window /\ task[t].found \in BOOLEAN

\* "Only provided fields will be updated" (app.py:901), by the administrator
\* and by the monitor, which do not wait for each other or for ClickHouse: each
\* field is, or will be when the updates are made, what was last asked for it.
FieldsAreLastAsked ==
    \A f \in DOMAIN config :
        LET naming == {i \in DOMAIN configAlters : f \in DOMAIN configAlters[i]}
        IN  /\ naming = {} => config[f] = asked[f]
            /\ \A i \in naming : (\A j \in naming : j <= i) => configAlters[i][f] = asked[f]

\* The calculations of now that come last win: when nobody asks for anything
\* any more, every row of the stored window comes to be of the configuration of
\* now, of the time of now, and back from Ocean's start, although a calculation
\* reads the configuration before ClickHouse has changed it, overtakes another,
\* inserts a second row or stores a window of the past
\* (config_queries.py:68-75, tides_queries.py:313-360, 656-668).  And the
\* configuration comes to say the difficulty of the network, whoever set it.
WindowCatchesUp ==
    <>[](/\ config.network_difficulty = chain
         /\ window # << >>
         /\ \A i \in DOMAIN window :
               window[i] = [conf |-> config, end |-> "now",
                            start |-> IF coin = "btc" THEN "ocean" ELSE "shares"])

\* "Calculate TIDES window from a specific datetime (without storing)."
\* (app.py:1385)
CalculateStoresNothing ==
    [][\A r \in Requests : task[r].end = "then" /\ task'[r].pc = "idle" =>
          UNCHANGED <<window, windowAlters, buffered>>]_vars
=============================================================================

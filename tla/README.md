# TLA+ models of the TAO Hash mining proxy

TLA+ modules that model the control of this repository's program, TLC
configurations that check them on small instances, and proofs for the TLA+ proof
system of what holds for every instance. `PROJECT.json` lists the runs, the
mutants (a plausible bug for each property, which the property must catch), the
source lines each definition stands for, the findings, the hazards and the
theorems.

    tlc -config MCLedger.cfg MCLedger      # check one run (PROJECT.json names module and cfg of each)
    tlapm LedgerProofs.tla                 # check the proofs of one module

Paths below are relative to `src/src/`.

## The system

Miners connect over Stratum to HAProxy, which spreads them over ten replicas of
the **proxy**. Each replica runs one asyncio event loop: `main.py` accepts a
connection and starts a `MinerSession` (`core/miner_session.py`), which connects
to the mining pool and runs two forwarding tasks, keeps the recent jobs in a
`JobQueue` (`core/job_queue.py`), the counters in `MinerStats` and the registry
of all miners in `StatsManager` (`monitoring/stats.py`), and inserts accepted
shares in ClickHouse (`storage/db.py`). The proxies' dashboards are read over
HTTP by the **aggregator** (`aggregator.py`). One **API service** per coin
(`api/app.py`, FastAPI) serves reads of shares and balances, lets an
administrator enter earnings, payouts and rewards, and runs background tasks
(`api/tasks/startup.py`): block rewards are found on the chain and divided among
the workers (`tides_monitoring/`), the TIDES window is recalculated, network
difficulty and daily rewards are recorded. Proxy and API share nothing but
ClickHouse, which has no transactions; inserts are buffered for 5 to 15 seconds
(`async_insert=1, wait_for_async_insert=0`, `storage/db.py:43-49`) and
`ALTER TABLE ... UPDATE/DELETE` run later. The repository has no tests.

### Inventory

| Component | State | Operations | Hard behaviour | What makes it correct |
|---|---|---|---|---|
| Job queue | ordered map of at most 25 jobs | add, get, clear | an id announced twice, eviction | late submissions find their job unless 25 newer ones came |
| Miner statistics | counters, deque of recent shares, highest difficulties | record_share, update_difficulty, get_hashrate | a lazy cleanup shared by readers and writers | the cleanup never changes an answer, counters agree with the shares |
| Miner session | two tasks, pending submits, subscribe id, minimum, connection ends | lines of miner and pool, insert, disconnect, cleanup | two tasks interleave over awaits; cancellation in the middle; answers out of order | no submit lost or counted twice; the session ends; a share is credited with a difficulty its miner was told |
| Proxy server | config, active sessions, registry, snapshots to abort | accept, end, cleanup, reload | teardown in the background, cleanup after the end | reload reaches all old sessions and no new one; the registry is the sessions |
| Reward ledger | balances (row superseding row), earnings, payouts, batches | credit, revise, delete, pay, batch, edit | read, await, insert without lock; buffered inserts; failure after any call | balances agree with the entries; unpaid + paid = total |
| Reward ingestion | known hashes, rewards, the reward at work | poll, store, credit, create by hand | failures in a round, restart anywhere, a listing that moves | each reward credited once to each worker; nothing listed is forgotten |
| TIDES window, its shares | shares that can be seen, the queries of one calculation | three calculations | shares become visible late and out of order between the queries | one stretch of shares, each counted once, up to the target |
| Share difficulty, passwords | none | hashing, parsing | - | pure functions |
| Schema, migrations | tables, views, columns, default rows, applied migrations | init, migrate, create | several replicas migrate and create at once; failure or crash between a statement and its record | a start leaves the schema complete; views come back; nothing recorded runs again |
| Daily rewards | one row per day | edits through the API (the extraction task is scheduled by nothing) | looked for, then updated or inserted, both visible later | only the fields given change |
| TIDES config, stored window | one row of configuration, one of the window | update by admin and by monitor; recalculation by both, by a task and for past times | several writers, updates made later, Ocean does not answer | each writer keeps the other's fields; the window catches up |
| Aggregator, dashboard | cache | poll | - | read only |
| API routes, auth, tasks | rate limits, tokens | HTTP | - | thin |

## The modules

| Module | Models | Checked by |
|---|---|---|
| `JobQueue`, `JobHistory` | `JobQueue`; `JobHistory` adds what was announced, to state the promise | `MCParts`, `PartsProofs` |
| `MinerStats` | `MinerStats` | `MCParts`, `PartsProofs` |
| `MinerSession` | `MinerSession`, with `INSTANCE JobQueue` for its jobs | `MCMinerSession`, `MinerSessionProofs` |
| `ProxyServer` | `main.py`, `StatsManager` | `MCProxyServer`, `ProxyServerProofs` |
| `Account` | abstract specification: a balance moves by whole earnings, payouts, edits | refined by `Ledger` |
| `Ledger` | `earnings_queries`, `payouts_queries`, `balance_queries` and the crediting of rewards | `MCLedger`, `LedgerProofs` |
| `RewardIngest` | `ocean_rewards_monitor`, `bch/rewards_monitor`, `create_tides_reward` | `MCRewardIngest`, `RewardIngestProofs` |
| `TidesWindow` | the shares a window counts, in `tides_queries` | `MCParts`, `MCTidesWindow`, `PartsProofs` |
| `TidesStore` | `config_queries`, `difficulty_monitoring/monitor.py`, `tides_monitoring/monitor.py` and the stored window of `tides_queries` | `MCTidesStore`, `TidesStoreProofs` |
| `Schema` | `StatsDB.init`, `_migrate_schema`, `_create_tables` in `storage/db.py` | `MCSchema`, `SchemaProofs` |
| `DailyRewards` | `POST /api/rewards/{date}` in `api/app.py` | `MCParts`, `PartsProofs` |
| `SumTheorems` | sums over finite sets, of which statistics, window and ledger have some | itself |

`MCParts` composes the job queue, the statistics, the shares of a window and the
daily reward. They share no state, so each is explored with the others at their
start; what the constants of `MinerStats`, `TidesWindow` and `DailyRewards` have
to satisfy is assumed there (`PartsAssumption`). `PartsProofs` proves first that
each part of the composition behaves as it does alone (`PartsAreThemselves`), and
then works with the specification of one part at a time.

### How state and actions correspond to the code

**JobQueue.** `jobs` is the `OrderedDict` read from its old end; `AddJob` is the
whole of `add_job` (delete an old entry, append, evict in a loop), `GetJob` is
`get_job`. `JobHistory` composes it with what has been announced since the last
clear, and in which order.

**MinerStats.** `recentShares` is the deque, `InWindow`/`Cleaned` are
`_cleanup_old_shares` with its 1.25 threshold, run at every hundredth share.
Which shares are in the window is a set of positions (`Young`), and `InWindow`
numbers them in their order: said with `SelectSeq`, which is recursive, nothing
about the cleanup could be proved. `Work` is what `get_hashrate` answers, with
its early return, for the shares at some positions. `history` is a ghost: every
share ever recorded. Time is in ticks.

**MinerSession.** `run`, `m2p` and `p2m` are the program counters of `run()`,
`_forward_miner_to_pool` and `_forward_pool_to_miner`. One action is one line
handled, up to the next await that can really give up the loop: `inserting` (p2m
awaits `insert_share`) and `closing` (p2m awaits `wait_closed` of a miner it
disconnects) are states of their own, so that lines of the miner, ends of file
and cancellation come in between. `pending` is `pending_submits`, with the serial
number of the request as a ghost, so that the model can say which submit was
answered, not only which id. Miner and pool send any line of the protocol, in any
order; answers come late, out of order or never. Before the subscribe
(`Subscribed`) the null id of a push equals `subscribe_id`, so that it is passed on
as it is, neither stored as a job nor entered in the statistics. `told` is the
difficulty last sent to the miner, and `since` of a pending submit the difficulties
its miner worked at since (ghosts).

**ProxyServer.** `config`, `active`, `miners` are the module globals;
`closing` holds the lists that `close_sessions_background` closed over.
`Reload` is `update_config` (swap and snapshot in one step, as there is no await
that can block between), `AbortSessions` is the background task, `Cleanup` is
`cleanup_session`, scheduled by the done callback.

**Ledger.** A request is the list `todo` of the steps it has left, in the order
the code awaits them: `enter` (insert into `user_earnings`/`user_payouts`),
`adjust` (read the newest balance, then insert the row that supersedes it: two
steps), `check` and `gate` (the validation of a payout), `batch`, `mark`, `find`
and `alter` (revision of an entry), `edit`. Any other request may run between two
steps, and `Fail` ends a request at any of them. `visible`/`buffered` are the
rows of `user_rewards` a query sees and those still in the insert buffer.
`lost`, `edited`, `overdrawn` are ghosts that say what a failure left undone,
which balances were set by hand, and which validated payouts went below zero.

**RewardIngest.** `pc` is where the background task is, `queue` the rows of this
round, `left` the workers of the window it has still to credit; every call may
fail (`LookFails`, `CreditFails`, `LoadFails`) with the reaction of each coin:
Ocean goes on with the next row, BCH gives up the round. `Restart` may happen
between any two steps. `coin` is chosen at the start and never changes.

**TidesWindow.** `Shares` are all shares in the order of their timestamps, which
are the times of their submits, and `visible` those that queries see already:
`ShareAppears` is an insert that leaves the buffer, in any order and on any day, as
each proxy inserts after the pool's answer into a buffer of its own. `counted` says
how often each share entered the sums of the calculation under way, whose queries
are one action each; `known` is a ghost, the shares that were visible when it began.

**TidesStore.** `task` is where each coroutine is and what it has read:
`difficulty_monitor_task` (`compare`, `alter`), `tides_monitor_task`, and
requests, which ask for an update of some fields or for a window back from a past
time. `update_config` is `Alter` and then a calculation; a calculation is
`ResolveStart` (Ocean, the stored window, or four days back), `ReadConfig`,
`Look` and `Store`, with anything in between. `configAlters` and `windowAlters`
are the `ALTER TABLE ... UPDATE`s ClickHouse has not made yet, which it makes in
their order and to the rows there were when they were asked for; `buffered` is
the insert buffer. `asked` is a ghost: what was last asked for each field.

**Schema.** A replica goes through `migrate` and `record` for each version that
it did not read at its start, then through `create`. `Migrations` and
`Statements` are constants: a migration adds a column, drops a view or changes
rows, and an object is created after those it selects from, as `SchemaAssumption`
says of the lists in `db.py`. The default rows of `tides_config` and
`general_config`, each inserted where there is none (`db.py:357-359`, `368-370`),
are objects too, which need their table. Every statement may fail (`MigrateFails`,
`RecordFails`, `CreateFails`), a process may end between any two, and the record
of a migration stays in the insert buffer for a while. `ran`, `mishap` and
`sawTables` are ghosts.

**DailyRewards.** `Post`, `Look` and `AlterRow`/`InsertRow` are one request, with
`NotGiven` for the fields it leaves out. `rows` are the rows of the day a query
without FINAL may answer, until `Merge` keeps the newest.

## The runs

| Run | Question | Bounds, and why they are enough |
|---|---|---|
| `parts` | Is a job lost early, or answered with old data? Can the cleanup change a hashrate? Is a window one stretch of shares, as long as the target allows? Does a daily reward keep the fields not given? | 4 ids, queue of 2, 2 data: eviction of several jobs and repeated ids in every order (the proof covers all sizes). 4 shares, 4 ticks, window 2, cleanup every 2: shares in, on the edge and out of the window, cleanup at every position. Up to 4 of 7 shares of 1 to 3 on 4 days, in any order, target 4, start date on the second day: windows that end inside a day, at its boundary and at the start date, and late shares inside, below and above what is counted. 3 posts of which 2 overlap: two requests that look before the first row is seen, and one that alters what both left |
| `miner_session` | Submits, answers, difficulty and ends of a session | 3 requests, 2 jobs, queue of 1, acceptance check every 2: two submits pending while a third line comes, a job evicted under a pending submit, an acceptance check that fails; a difficulty of 2 between minimums of 1 and 3, sent before, between and after the subscribe, the authorize and a submit |
| `ledger` | Do requests one at a time keep the books? | 2 workers, 3 requests after each other with failures: an entry, its revision and a payout of it; batches of two workers |
| `ledger_concurrent` | What survives requests at once on buffered rows? | 2 requests, 2 seconds, unsettled rows: every overlap of two requests and the buffer |
| `ledger_race` | (violated) do two requests at once keep the books? | as above, on settled rows, without failures |
| `reward_ingest` | Is a reward credited once, fully, and only when stored? | 3 rewards (one unwanted or skipped), 2 workers, pages of 1, both coins, 1 restart |
| `reward_ingest_live` | Does a listed reward get stored? | 2 rewards, one worker, a failing load and a restart |
| `reward_ingest_load` | (violated) are hashes loaded for duplicate checking? | 1 reward, 1 failing load |
| `proxy_server` | Does a reload reach exactly the old sessions? | 3 connections, 2 addresses, 2 reloads: a session before, between and after, and an address used again |
| `schema` | What do starts that overlap, fail and die leave of the schema? | 4 migrations of all kinds, a view on a view, 3 starts of 2 replicas, 1 failure: a replica starts again after a crash while the other one migrates, a default row without its table; the proofs cover all lists and any number of starts |
| `tides_store` | Is an update of the configuration lost, and does the stored window come to be that of now? | 2 tasks and 1 request on 2 difficulties, both coins, 1 event (a request, a new difficulty, an outage or a failure) after a start with or without Ocean: three calculations at once, two rows of the window, a calculation for the past last; the proof of the first covers any number of events |
| `tides_window_custom` | (violated) does a custom window leave shares out on its way? | 4 of 7 shares as in `parts`, custom calculations only |

Deadlock is not checked where a run ends by its bounds (no more requests, shares
or connections) or because the program stops: a session ends, an idle service
waits.

### What they show

- *Sessions.* Over all interleavings of the two tasks, an insert that fails or is
  cancelled, and a peer that disappears at any time, each tracked submit is
  pending or counted, never both; what the statistics hold for it is the verdict
  the pool gave on it; the database has exactly the accepted shares that could be
  scored, unless their insert failed; the pool's answer still reaches the miner.
  A share is credited, in the statistics and in the database, with a difficulty its
  miner was told between the submit and the answer. Only while the pool has sent
  none since the subscribe is it the 1 the statistics start with, whatever the pool
  sent before.
- *Reload.* Every session of before a reload is closed, none of after it is, and
  the registry loses its statistics.
- *Ledger.* One request after the other, with failures anywhere, balances agree
  with the entries except for adjustments a failure left undone, and the whole is
  an `Account`. With requests at once this fails (`ledger_race`), but each row
  still adds up, and a reward is marked processed only after the payouts.
- *Ingestion.* Through failures and restarts no reward is credited twice or
  before it is stored, unless the query of known hashes fails
  (`reward_ingest_load`). What a failure cuts off is never taken up again: the
  property `StoredAreCredited` says which rewards that concerns (`broken`).
- *Windows.* No share is counted twice, whatever becomes visible between the
  queries, also on a day already counted. Of the shares that were visible at the
  start, a window back from now counts a gapless stretch, at most the target, and
  ends only where one share more would reach it; Ocean's counts all between its
  ends and nothing outside of them, when these lie on different days. Which of the
  late shares are counted depends on the queries, and no property says more of
  them. A custom window may leave a share out and count older ones
  (`tides_window_custom`).
- *Configuration and stored window.* The administrator and the monitor do not wait
  for each other or for ClickHouse, and still each field is, or will be, what was
  last asked for it, as each names only the fields it changes. The stored window
  is wrong for a while in many ways (two rows, an old configuration, the window of
  a past time, the start of another day), and recovers from all of them once
  nobody asks for anything, since the task writes every row anew.
- *Schema.* A process that finds the tables leaves the schema complete unless a
  statement fails on it; views that one process drops while another creates them
  stand in the end; a migration that is recorded never runs again. The order in
  which `init` calls its parts is what the finding on empty databases is about.
- *Daily rewards.* While a day has one row, only the fields given change. A second
  row, inserted by a request that looked before the first was visible, hides the
  fields of the first.

### Findings

1. `ledger_race`: balances are read, changed in Python and inserted with awaits
   in between; one of two changes at once is lost (`earnings_queries.py:359-412`,
   `payouts_queries.py:285-345`).
2. `reward_ingest_load`: `load_existing_tx_hashes` returns an empty set when its
   query fails, and the round credits every listed reward again
   (`tides_monitoring/btc/rewards_monitor.py:186-197`).
3. `tides_window_custom`: the loop over the last day stops before the share that
   would reach the target, so the test that the target is reached (line 400)
   never succeeds and older days are taken (`api/services/tides_queries.py`).

Five more disagreements are stated as definitions that no listed run checks;
adding the definition to the cfg makes TLC show the trace.

- `SchemaVerified` (`INVARIANT` of `MCSchema.cfg`): on an empty database the
  migrations run before the tables exist, fail and are not recorded, so
  `daily_rewards` is created without `paid` and `payment_proof_url`, and the
  process logs "Database schema created/verified" (`storage/db.py:463`) while
  `reward_queries.py:18` selects `paid`; the next start adds them.
- `CalculateStoresNothing` (`PROPERTY` of `MCTidesStore.cfg`): `POST
  /api/tides/window/calculate` says "(without storing)" (`api/app.py:1385`), but
  for btc `calculate_custom_tides_window` calls the calculation with
  `persist=True` (`tides_queries.py:380`) and the window of the past time replaces
  the stored one until the next round.
- `OceanCountsOnce` of `TidesWindow` (as `INVARIANT` of `MCTidesWindowCustom.cfg`,
  with `Kinds = {"ocean"}`): "Sums difficulty across [ocean_start, end_datetime]"
  (`tides_queries.py:584`), but with both ends on one day the first partial day
  goes on to midnight and the second begins there, so that shares between the ends
  count twice and others of the day once. The start is Ocean's of now for any end,
  so that the end of a reward worked on late may lie on the start's day or before
  it.
- `HigherIsSent` of `MinerSession` (`PROPERTY` of `MCMinerSession.cfg`): "Sends the
  higher value between pool difficulty and minimum requested" (the repository's
  `README.md:112`), but an adjustment that comes before the subscribe is passed on
  as it is, also to a miner whose minimum is known (`core/miner_session.py:269`).
- `PaidHasAmount` of `DailyRewards` (as `Daily!PaidHasAmount` in `MCParts`):
  "Cannot set paid=true without an amount" (`api/app.py:532`), but a row that was
  found always has one: a row inserted with `paid=false` alone has the default 0,
  and can then be set paid.

### Assumptions a constant makes, and what happens without them

Each is a CONSTANT of the module, so that the other value can be checked.

| Constant | Value in the passing runs | Why, and what its other value shows |
|---|---|---|
| `FreshIds` (MinerSession) | TRUE | mining software numbers its requests; with an id used again while pending, the entry is overwritten and a submit has no verdict of its own |
| `HasDb` | TRUE | ClickHouse is configured; without it nothing is stored |
| `SharedPeers` (ProxyServer) | FALSE | a peer's `ip:port` comes back only after its session was cleaned up; otherwise the late cleanup removes the statistics of the new session |
| `Settled` (Ledger) | TRUE in `ledger`, FALSE in `ledger_concurrent` | an administrator's requests are seconds apart; within the flush time even serial requests lose changes |
| `RepeatWorkers` | FALSE | a batch names a worker once; twice, the validation looks at each payment alone and the balance may go below zero |
| `SlowRestart` (RewardIngest) | TRUE | a restart takes longer than the flush of at most 15 s; a faster one loads hashes without the last reward and credits it again |
| `MaxLoadFailures` | 0 in `reward_ingest` | see finding 2 |

## Fairness

- `MinerSession!FairSpec`: the event loop runs a task that can run, a database
  call returns or raises, and a connection being closed gets closed (weak
  fairness of each). Nothing is assumed of the peers: they may send nothing, or
  leave, or stay for ever.
- `RewardIngest!FairSpec`: the task goes on and the buffer is flushed (weak); a
  fetch of the whole listing and the storing of a reward, when tried again and
  again, succeed some time (strong). Without the latter a permanently failing
  explorer would keep a reward out for ever.
- `TidesStore!FairSpec`: both loops go on (they catch every exception and sleep),
  a coroutine that can run runs, ClickHouse makes the updates and flushes the
  buffer, and Ocean answers again some time (weak fairness of each). A task wakes
  for a new round only when what the round before asked of ClickHouse is done
  (`WindowKeptUp`): rounds are 5 and 30 minutes apart. Requests, failures and new
  difficulties are not assumed to happen, nor to stop for good other than by their
  bound `MaxEvents`, which is the "nobody asks any more" of `WindowCatchesUp`.
- `ProxyServer!FairSpec`: scheduled tasks run, and a session whose transport was
  aborted ends. The latter is what `LostPeerEndsSession` of `MinerSession` says.

## What is proved

For every value of the constants that the modules' ASSUMEs admit.

**SumTheorems.** The sums of the models (`SumFunction` of a community module) are
folds over a finite set, defined by a recursive function that takes out whichever
element CHOOSE picks. The library's induction theorems cannot be used here, as
they take an operator; each induction is therefore about the set of the subsets
for which the claim fails, which has a smallest element (`SmallestSet`, from the
well-foundedness of strict inclusion). `SumPick` unfolds a sum once, `SumTakeOut`
for an element of one's own choice, `SumUnion` adds disjoint sets, `SumMoved`
carries a sum over to another set, one to one, `SumMore` compares.

**PartsProofs.** `PartsAreThemselves` gives the four parts of `MCParts` their own
specifications. Each has an invariant of its own; `PartsAreTyped` collects the types.

- *Job queue.* `TypeCorrect`, `LateSubmissions`, `EvictionOrder` and
  `CurrentLookup` from `Invariance`: the conjunction of the type invariant, the
  order of the entries, the age of what was forgotten, and `EntriesAreCurrent` (an
  entry holds the latest data of its id and is announced). The last is what makes
  `LookupIsCurrent` inductive; the order is what makes the evicted head the oldest
  job, hence what makes the age of the forgotten jobs inductive. The lemmas
  `WithoutElement`, `EvictedElement` and `AddedEntries` say what the operators
  return, position by position.
- *Statistics.* `CleanupAlwaysKeepsHashrate` and `FiguresAlwaysAgree` from
  `StatsHold`. That deque and history give the same hashrate now says nothing of
  later, so the invariant says why (`Linked`): each share of the deque is an
  accepted share of the history, no two the same one, and an accepted share that
  is not in the deque is out of the window, where time leaves it for good.
  `CleanedLinked` shows that a cleanup keeps this, `LinkedWork` that both sums are
  then over the same shares.
- *TIDES window.* `WindowsReachTheirTarget` and `WindowsAreOneStretch` from
  `TidesInv`: for each query that is still to come, what is counted so far as a
  set of shares (`Stages`). As shares become visible in between, in any order, each
  query may see more than the one before. So the invariant bounds what is counted
  from two sides, by the shares that were visible at the beginning (`known`), which
  every query sees, and by those visible now, which no query saw more of; and each
  share is counted by one query only, the one for its day. The rest is about sets
  of shares: `DaysFit` (whole days fit in the target, one more would not),
  `NewestTaken` and `NewestLeft` (so do the newest shares of the day behind them),
  `StartTaken` (for the start date); there is one lemma per query, and
  `StagesAppear` for a share that becomes visible between two. Of Ocean's windows
  the property itself speaks only where they begin on a day before their end
  (`SpansMidnight`).
- *Daily rewards.* `GivenFieldsOnly` from `DailyInv`: the only row of a day is the
  row that was inserted, with the changes made so far, and the changes still to
  make, one after the other, lead to what was last given (`MadeOf`). It needs that
  a request inserts at most once (`OneInsertEach`, by counting the requests being
  served), and that no change asked for reaches a row that came later
  (`AskedOfRows`).

**LedgerProofs.** For any number of requests at once, any buffering and any
failure:

- `RowsAlwaysConserve` from `LedgerInvariance`: in every balance row nobody
  edited, unpaid + paid = total. `RowsConserve` is not inductive, as a row is made
  from a balance read earlier and a change computed earlier still. `IInv` adds that
  every balance a request holds conserves unless the worker was edited since
  (`SeenConserves`), that a request holds one only while its current step is an
  adjustment or an edit of that worker (`ReadForStep`), and that every change
  still to be made conserves. There is one lemma per action.
- `LedgerTypes`: `IInv` with the types of what it says nothing of (`TypedRest`).
- `PaidBeforeProcessed`: `ProcessedMeansPaid`. `PInv` adds where a mark may stand
  in a request's list of steps (`MarkIsLast`), that a request which has marked a
  reward has nothing but marks left (`OnlyMarks`), and that no two requests have a
  serial number in common (`SerialsAreOwn`).

For one request at a time on settled rows (`OneAtATime`: no two requests, `Settled
= TRUE`), as in the run `ledger`, for any number of requests after each other and
failures anywhere. The run `ledger_race` shows that the first two need it.

- `BooksAlwaysBalance`: `BooksBalance`. `OInv` says that there is one row of a
  worker and that a balance read is that row (`RowsSettled`), what a list of steps
  looks like (`Laid`: one step that enters, adjustments at its head or right behind
  the alteration they are due to), that the adjustment behind an alteration is the
  difference it makes (`AlterFits`), and that the entries to come have new ids
  (`IdsAreFresh`). `BInv` adds the equation itself (`AddsUp`), which each step
  either leaves alone or changes on both sides by one summand (`SumTakeOut`).
- `LedgerImplementsAccount`: the refinement. The initial balance is that of
  `Account`, and each step writes one balance as `Account` would
  (`WriteBalanceRefines`, `WriteEditRefines`) or none.
- `ValidatedNeverOverdraws`: `NoUnapprovedOverdraft`, for batches that name a
  worker once (`RepeatWorkers = FALSE`). What the check found must still be there
  when the balance is written, past the gate, the batch row and the payouts of
  the other workers: `SInv` says of each payout still to make that its worker's
  balance covers it (`Payable`). For a worker named twice the second payout finds
  what the first has left.

**MinerSessionProofs.** All safety properties of `MinerSession`. `SessionTypes`,
`OrderlyEnd` and `CreditedDifficultyWasTold` follow from `SessionInvariance`. It
adds to the types what ties the credit to what the miner was told (`ToldInv`): the
statistics hold the difficulty last told or still 1, they hold 1 as long as the
miner has not subscribed, and every pending submit remembers the difficulty last
told. And it adds that no task does anything before the pool is connected or once
the session cleans up (`Orderly`): without it a connecting session could have an
insert running. For a miner that numbers its
requests (`FreshIds = TRUE`), `EverySubmitAccounted`, `EveryVerdictCounted`,
`AcceptedSharesStored` and `EveryAnswerForwarded` follow from `SInv`, whose
`Numbered` says what an id stands for: an unanswered submit has its entry in
`pending`, a counted one has not, the id of the subscribe belongs to no submit,
and no two requests on their way have the same serial number. The lemma `Answers`
draws the conclusion that the answer to a submit, and no other, enters
`_handle_submit_response`; the rest is counting (`FS_AddElement`,
`FS_RemoveElement`). With reused ids `Numbered` fails, and the properties with it.

**ProxyServerProofs.** `ServerTypes`, `ReloadsReachAll` and `NoNewSessionAborted`
from `ServerInvariance`: no session is newer than the last reload
(`SinceIsPast`), and what a teardown has still to abort are sessions of before it
(`ClosingIsOld`). `RegistryHoldsSessions` is proved while no
address is used by two sessions at a time (`SharedPeers = FALSE`); it needs that
each entry stands under the address of its own session (`OwnAddress`).

**RewardIngestProofs.** `IngestTypes`, `StoredBeforeCredited` and
`StoredRewardsAreCredited` from `IngestInvariance`, through any failures and
restarts: nothing was done for a reward that is neither stored nor buffered
(`UnheldIsUntouched`), and of the one at work the workers that are not left have
their earnings, with their balances but for the one that is next (`AtWork`).
`NobodyCreditedTwice` is proved for restarts slower than the insert buffer
(`SlowRestart = TRUE`) and no failed load of the known hashes, the two cases in
which it fails; it adds that the rows a round may still take up were not credited before
(`NoneAgain`).

**TidesStoreProofs.** `StoreTypes` from `Invariance`: `IInv` adds to the types
what a task holds at each place (`HoldsEnough`), among it that a calculation which
found a row leaves it a row to update, as rows of the window never go.
`LastAskedStays`: `FieldsAreLastAsked` is inductive given the types; an update
that is asked for becomes the last of the pending ones that name its fields, and
one that is made shifts the others by one place (`AlterFields`, `ApplyFields`).

**SchemaProofs.** For any lists that satisfy `SchemaAssumption`. `StartCompletes`
rests on `RecordedRan` (what is recorded, buffered or known to a replica has run,
and what has run left its column), `TablesStay` (no migration drops a table) and
`Progress` (a start on the tables has run all it is past): a migration of rows
fails on the tables only by a mishap, because the one that adds its column comes
earlier in the list (`FailsByMishap`). `ViewsComeBack` rests on
`MissingIsAwaited`: what does not exist, some replica has still before it; if it
is skipped because something it selects from is missing, then that is before
another replica, which comes to both. `MigrationsStaySettled` is an action
property that follows from the types.

`OrderedByAnnouncement` and `TasksEndBeforeCleanup` are proved and in no listed
run: adding them to a cfg checks them on the small instance.

Only model-checked: all liveness (`LostPeerEndsSession`, `LowAcceptanceEndsSession`,
`ListedGetStored`, `OldSessionsGo`, `WindowCatchesUp`), as fairness and ENABLED
are out of the prover's reach. Every invariant and every action property of the
passing runs is a theorem. No module declares a RECURSIVE operator.

## Abstractions

- Text, JSON, logging, hashes and metrics are left out; a share's difficulty is
  an input (known or not), a job's content a model value.
- Amounts are integers where the code adds binary floats and stores Decimals.
- Writes to a connection succeed or fail at once: `drain()` under backpressure is
  not modelled.
- Shares have distinct timestamps, and a share appears in the table and in its
  daily view at once; Ocean's start and the end of a window are timestamps of
  shares; the pages of one listing are fetched from one listing; configuration is
  read once per calculation.
- `ALTER TABLE` mutations apply at once in `Ledger`; in `TidesStore` and
  `DailyRewards` they are made later, in their order.
- In `TidesStore` a window is where its ends come from and the configuration it
  was made with; which shares it counts is the subject of `TidesWindow`.
- In `Schema` a column is there or not, whatever table has it; a migration of rows
  has run or not; a default row is there or not. Two processes that both look before
  either inserts leave two default rows, which the updates of the configuration
  (`WHERE id = 1`) change together from then on; `TidesStore` starts with one.
- Of Ocean's window only its two ends are modelled, which the code takes from
  Ocean's answer of now, whatever end it works for, or from the stored window.

## Not modelled

The extraction of daily rewards (`rewards_extraction/`): no coin's task list in
`api/tasks/startup.py` holds it, so nothing runs it beside the API. The general
configuration: one field, which one endpoint updates. Share difficulty and
password parsing are pure text and hashing. The aggregator, dashboard and read
queries change nothing. Routes, authentication and rate limits are thin layers
over what is modelled. The BlockCypher task
(`tides_monitoring/btc/rewards_monitor.py`) is scheduled by nothing. Updates of a
stored TIDES reward and the validation of its hash are left out of `Ledger` and
`RewardIngest`.

## Plan

All components of the plan are modelled: `JobQueue`, `MinerStats`,
`MinerSession`, `Ledger` with `Account`, `RewardIngest`, `ProxyServer`,
`TidesWindow`, `Schema`, `DailyRewards`, `TidesStore`. Every safety property of
the passing runs is proved. What is worth adding to the proofs:

- of `Ledger`, what requests at once may still break: an equation like
  `BooksBalance` with the change that was lost as a ghost;
- of `BooksBalance` and `NoUnapprovedOverdraft`, whether requests of different
  workers need to be one at a time;
- of `TidesWindow`, what a calculation does with the shares that become visible
  while it runs;
- of `TidesStore`, the safety half of `WindowCatchesUp`: once the updates are made
  and a round is over, the stored window is that of now.

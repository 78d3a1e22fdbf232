---------------------------- MODULE RewardIngest ----------------------------
(***************************************************************************)
(* How block rewards found on the chain become earnings: the background    *)
(* task of one coin (tides_monitoring/btc/ocean_rewards_monitor.py or      *)
(* tides_monitoring/bch/rewards_monitor.py), process_tides_reward_earnings *)
(* (btc/rewards_monitor.py) and rewards entered by an administrator        *)
(* (api/services/tides_rewards_queries.py).                                *)
(*                                                                         *)
(* The task sleeps, loads the hashes it already has, fetches a listing and *)
(* works through what is new, one awaited call after the other.  Any call  *)
(* may fail, and the service may restart between any two.  What an earning *)
(* does to a balance is the subject of Ledger.                             *)
(***************************************************************************)
EXTENDS Naturals, Sequences, FiniteSets

CONSTANTS
    Coins,          \* what an instance of the service may work on: "btc", "bch"
    Tx,             \* rewards, by the hash they are known by
    Workers,
    Unwanted,       \* rewards confirmed before the start date or of no amount
    Skipped,        \* SKIPPED_BLOCK_HASHES (Ocean only)
    None,
    PageSize,       \* rows of one page of the listing
    MaxPages,       \* pages fetched: 2 (Ocean), 1 (CryptoAPIs, of 25 rows)
    MaxLoadFailures, \* bound: failures of the query of the known hashes
    SlowRestart,    \* a restart takes longer than flushing the insert buffer
    MaxRestarts     \* bound: restarts of the service

ASSUME IngestAssumption ==
    /\ Coins \subseteq {"btc", "bch"}
    /\ Unwanted \subseteq Tx /\ Skipped \subseteq Tx /\ None \notin Tx
    /\ PageSize \in Nat \ {0} /\ MaxPages \in Nat \ {0}
    /\ SlowRestart \in BOOLEAN /\ MaxRestarts \in Nat /\ MaxLoadFailures \in Nat

VARIABLES
    coin,       \* the coin of this instance
    listing,    \* what the explorer lists, newest first
    pc,         \* where the task is
    known,      \* the hashes it has loaded
    queue,      \* rewards it has still to look at, in its order
    tx,         \* the reward it is working on
    left,       \* workers of the window it has still to credit
    fresh,      \* the task has not slept since the service started
    rewards,    \* tides_rewards: the hashes a query sees
    buffered,   \* ... and those in the asynchronous insert buffer
    earned,     \* user_earnings of a reward for a worker
    balanced,   \* ... and how many of them reached the balance
    creating,   \* the reward an administrator is entering
    restarts, loadFailures,
    \* Ghosts.
    shares,     \* the workers of the window a reward was divided among
    broken,     \* rewards whose crediting a failure or a restart cut off
    manual      \* rewards entered by hand

task == <<pc, known, queue, tx, left, fresh>>
tables == <<rewards, buffered, earned, balanced>>
ghosts == <<shares, broken, manual>>
service == <<coin, restarts, loadFailures>>
vars == <<listing, task, tables, creating, service, ghosts>>

Reverse(s) == [i \in DOMAIN s |-> s[Len(s) + 1 - i]]

Smaller(a, b) == IF a < b THEN a ELSE b

\* The rows a task can still find: those on the pages it fetches.
Rows(pages) == SubSeq(listing, 1, Smaller(pages * PageSize, Len(listing)))
Listed == {listing[i] : i \in 1..Smaller(MaxPages * PageSize, Len(listing))}
-----------------------------------------------------------------------------
Init ==
    /\ coin \in Coins
    /\ listing = << >>
    /\ pc = "asleep" /\ known = {} /\ queue = << >> /\ tx = None /\ left = {}
    /\ fresh = TRUE
    /\ rewards = {} /\ buffered = {}
    /\ earned = [t \in Tx |-> [w \in Workers |-> 0]]
    /\ balanced = [t \in Tx |-> [w \in Workers |-> 0]]
    /\ creating = None
    /\ restarts = 0 /\ loadFailures = 0
    /\ shares = [t \in Tx |-> {}] /\ broken = {} /\ manual = {}

\* The pool finds a block, or the chain shows the payment.
Mined(t) ==
    /\ t \notin {listing[i] : i \in DOMAIN listing}
    /\ listing' = <<t>> \o listing
    /\ UNCHANGED <<task, tables, creating, service, ghosts>>

\* The buffer is flushed after 5 to 15 seconds, the task sleeps for minutes.
Flush ==
    /\ buffered # {}
    /\ rewards' = rewards \union buffered
    /\ buffered' = {}
    /\ UNCHANGED <<listing, task, earned, balanced, creating, service, ghosts>>

Awake == buffered = {} \/ (fresh /\ ~SlowRestart)

\* load_existing_tx_hashes
Load ==
    /\ pc = "asleep" /\ Awake
    /\ known' = rewards
    /\ pc' = "fetching"
    /\ UNCHANGED <<listing, queue, tx, left, fresh, tables, creating, service, ghosts>>

\* "Return empty set on error"
LoadFails ==
    /\ loadFailures < MaxLoadFailures /\ pc = "asleep" /\ Awake
    /\ loadFailures' = loadFailures + 1
    /\ known' = {}
    /\ pc' = "fetching"
    /\ UNCHANGED <<listing, queue, tx, left, fresh, tables, creating, coin, restarts, ghosts>>

\* Back to sleep; the next round starts from what is then known.
Sleep ==
    /\ pc' = "asleep" /\ fresh' = FALSE
    /\ known' = {} /\ queue' = << >> /\ tx' = None /\ left' = {}

\* fetch_new_entries, which stops at the first page it cannot get, for a loop
\* over its rows oldest first; get_transactions for a loop over them as listed.
Fetch ==
    /\ pc = "fetching"
    /\ \E pages \in 0..MaxPages :
          queue' = IF coin = "btc" THEN Reverse(Rows(pages)) ELSE Rows(pages)
    /\ pc' = "looking"
    /\ UNCHANGED <<listing, known, tx, left, fresh, tables, creating, service, ghosts>>

RoundOver ==
    /\ pc = "looking" /\ queue = << >>
    /\ Sleep
    /\ UNCHANGED <<listing, tables, creating, service, ghosts>>

\* A row that is known (known does not change during a round), to be skipped,
\* from before the start date or without an amount is passed over.
Wanted(t) == t \notin known \union Unwanted /\ (coin = "btc" => t \notin Skipped)

PassOver ==
    /\ pc = "looking" /\ queue # << >> /\ ~Wanted(Head(queue))
    /\ queue' = Tail(queue)
    /\ UNCHANGED <<listing, pc, known, tx, left, fresh, tables, creating, service, ghosts>>

\* A call fails on the reward being looked at.  The Ocean task continues with
\* the next one, the BCH task gives up the round.
GiveUpOn(rest) ==
    IF coin = "btc"
    THEN /\ pc' = "looking" /\ queue' = rest /\ tx' = None /\ left' = {}
         /\ UNCHANGED <<known, fresh>>
    ELSE Sleep

\* Mutant: an exception that the loop does not catch ends the task.
LookFailsForGood ==
    /\ pc = "looking" /\ queue # << >> /\ Wanted(Head(queue))
    /\ pc' = "dead"
    /\ UNCHANGED <<listing, known, queue, tx, left, fresh, tables, creating, service, ghosts>>
\* No metadata of the block, no TIDES window, no insert of the reward.
LookFails ==
    /\ pc = "looking" /\ queue # << >> /\ Wanted(Head(queue))
    /\ GiveUpOn(Tail(queue))
    /\ UNCHANGED <<listing, tables, creating, service, ghosts>>

\* Mutant: the reward is stored when its earnings are.
StoreLast(window) ==
    /\ pc = "looking" /\ queue # << >> /\ Wanted(Head(queue))
    /\ tx' = Head(queue) /\ queue' = Tail(queue)
    /\ left' = window /\ pc' = "crediting"
    /\ shares' = [shares EXCEPT ![Head(queue)] = @ \union window]
    /\ UNCHANGED <<listing, known, fresh, tables, creating, service, broken, manual>>
\* INSERT INTO tides_rewards, with the window the reward is divided among: that
\* of its confirmation (BTC) or the cached one, which may not exist (BCH).
Store(window) ==
    /\ pc = "looking" /\ queue # << >> /\ Wanted(Head(queue))
    /\ tx' = Head(queue) /\ queue' = Tail(queue)
    /\ buffered' = buffered \union {Head(queue)}
    /\ left' = window /\ pc' = "crediting"
    /\ shares' = [shares EXCEPT ![Head(queue)] = @ \union window]
    /\ UNCHANGED <<listing, known, fresh, rewards, earned, balanced, creating, service,
                   broken, manual>>

\* Mutant: no balance for the last worker of a window.
CreditUnbalanced(w) ==
    /\ pc = "crediting" /\ w \in left
    /\ earned' = [earned EXCEPT ![tx][w] = @ + 1]
    /\ pc' = IF left = {w} THEN "crediting" ELSE "balancing"
    /\ left' = IF left = {w} THEN {} ELSE {w} \union left
    /\ UNCHANGED <<listing, known, queue, tx, fresh, rewards, buffered, balanced, creating,
                   service, ghosts>>
\* process_tides_reward_earnings: an earning for each worker of the window ...
Credit(w) ==
    /\ pc = "crediting" /\ w \in left
    /\ earned' = [earned EXCEPT ![tx][w] = @ + 1]
    /\ pc' = "balancing"
    /\ UNCHANGED <<listing, known, queue, tx, left, fresh, rewards, buffered, balanced, creating,
                   service, ghosts>>

\* ... and its balance, before the next worker.
BalanceWorker(w) ==
    /\ pc = "balancing" /\ w \in left
    /\ earned[tx][w] > balanced[tx][w]
    /\ balanced' = [balanced EXCEPT ![tx][w] = @ + 1]
    /\ left' = left \ {w}
    /\ pc' = "crediting"
    /\ UNCHANGED <<listing, known, queue, tx, fresh, rewards, buffered, earned, creating, service,
                   ghosts>>

\* All are credited: the next reward.
Credited ==
    /\ pc = "crediting" /\ left = {}
    /\ pc' = "looking" /\ tx' = None
    /\ UNCHANGED <<listing, known, queue, left, fresh, tables, creating, service, ghosts>>

\* Mutant: a reward that could not be credited is taken up again.
CreditFailsRetried ==
    /\ pc \in {"crediting", "balancing"} /\ left # {}
    /\ GiveUpOn(queue)
    /\ buffered' = buffered \ {tx}
    /\ broken' = broken \union {tx}
    /\ UNCHANGED <<listing, rewards, earned, balanced, creating, service, shares, manual>>
\* An earning or a balance fails: what is left of this reward is never credited,
\* since its hash is known from now on.
CreditFails ==
    /\ pc \in {"crediting", "balancing"} /\ left # {}
    /\ GiveUpOn(queue)
    /\ broken' = broken \union {tx}
    /\ UNCHANGED <<listing, tables, creating, service, shares, manual>>

\* The service stops and starts again, wherever the task is.
Restart ==
    /\ restarts < MaxRestarts
    /\ restarts' = restarts + 1
    /\ pc' = "asleep" /\ fresh' = TRUE
    /\ known' = {} /\ queue' = << >> /\ tx' = None /\ left' = {}
    /\ broken' = IF left # {} THEN broken \union {tx} ELSE broken
    /\ creating' = None
    /\ UNCHANGED <<coin, listing, tables, loadFailures, shares, manual>>
-----------------------------------------------------------------------------
(* create_tides_reward: refused for a hash that exists, else stored with a *)
(* window of its own; nobody is credited.                                  *)

CreateChecks(t) ==
    /\ creating = None /\ t \notin rewards
    /\ creating' = t
    /\ UNCHANGED <<listing, task, tables, service, ghosts>>

CreateStores ==
    /\ creating # None
    /\ buffered' = buffered \union {creating}
    /\ manual' = manual \union {creating}
    /\ creating' = None
    /\ UNCHANGED <<listing, task, rewards, earned, balanced, service, shares, broken>>

CreateFails ==
    /\ creating # None
    /\ creating' = None
    /\ UNCHANGED <<listing, task, tables, service, ghosts>>
-----------------------------------------------------------------------------
Work ==
    \/ Load \/ LoadFails \/ Fetch \/ RoundOver
    \/ PassOver \/ LookFails \/ \E window \in SUBSET Workers : Store(window)
    \/ \E w \in Workers : Credit(w) \/ BalanceWorker(w)
    \/ Credited \/ CreditFails

Next ==
    \/ \E t \in Tx : Mined(t) \/ CreateChecks(t)
    \/ Flush \/ Work \/ Restart
    \/ CreateStores \/ CreateFails

Spec == Init /\ [][Next]_vars

\* The task goes on, the buffer is flushed, and what may fail does not fail for
\* ever: the listing is fetched whole, and a reward looked at is stored, sooner
\* or later.
FetchAll ==
    /\ Fetch
    /\ queue' = IF coin = "btc" THEN Reverse(Rows(MaxPages)) ELSE Rows(MaxPages)
StoreReward(t) ==
    queue # << >> /\ Head(queue) = t /\ \E window \in SUBSET Workers : Store(window)

Fairness ==
    /\ WF_vars(Work) /\ WF_vars(Flush) /\ SF_vars(FetchAll)
    /\ \A t \in Tx : SF_vars(StoreReward(t))

FairSpec == Spec /\ Fairness
-----------------------------------------------------------------------------
\* Types; the task credits only while it has a reward, and a window of workers
\* to credit it to.
TypeOK ==
    /\ coin \in Coins
    /\ pc \in {"asleep", "fetching", "looking", "crediting", "balancing"}
    /\ known \subseteq Tx /\ tx \in Tx \union {None} /\ left \subseteq Workers
    /\ \A i \in DOMAIN queue : queue[i] \in Tx
    /\ fresh \in BOOLEAN /\ restarts \in 0..MaxRestarts /\ loadFailures \in 0..MaxLoadFailures
    /\ rewards \subseteq Tx /\ buffered \subseteq Tx
    /\ earned \in [Tx -> [Workers -> Nat]] /\ balanced \in [Tx -> [Workers -> Nat]]
    /\ creating \in Tx \union {None}
    /\ (pc \in {"crediting", "balancing"}) = (tx # None)
    /\ tx # None => left \subseteq shares[tx]

\* "for duplicate checking" (btc/rewards_monitor.py:187): no worker is credited
\* twice for a reward.
CreditedOnce == \A t \in Tx, w \in Workers : earned[t][w] <= 1

\* As long as the query of the known hashes does not fail, no worker is credited
\* twice for a reward, through failures, restarts and rewards entered by hand
\* while the task is on them; and no balance moves without its earning.
CreditedAtMostOnce ==
    /\ loadFailures = 0 => CreditedOnce
    /\ \A t \in Tx, w \in Workers : balanced[t][w] <= earned[t][w]

\* Nobody is credited for a reward that tides_rewards does not hold, whatever
\* fails or restarts after the first earning.
CreditsHaveRewards ==
    \A t \in Tx : (\E w \in Workers : earned[t][w] > 0) => t \in rewards \union buffered

\* A reward the task has stored and is no longer at has been credited to every
\* worker of its window and to nobody else, each earning with its balance,
\* unless a failure or a restart cut the crediting off; and the code never goes
\* back to those (ocean_rewards_monitor.py:383-408).
StoredAreCredited ==
    \A t \in ((rewards \union buffered) \ (manual \union broken)) \ {tx} :
        \A w \in Workers :
            (earned[t][w] > 0) = (w \in shares[t]) /\ balanced[t][w] = earned[t][w]

\* A reward that stays on the pages the task fetches gets stored, however often
\* metadata, windows, inserts and whole rounds fail, as long as they do not fail
\* for ever (the while loop and its continue statements).
ListedGetStored ==
    \A t \in Tx \ (Unwanted \union Skipped) :
        t \in Listed ~> (t \in rewards \/ t \notin Listed)
=============================================================================

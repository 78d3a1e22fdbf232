----------------------------- MODULE MinerStats -----------------------------
(***************************************************************************)
(* The statistics of one miner connection (src/monitoring/stats.py): the   *)
(* share counters, the difficulty the miner works at, and the shares kept  *)
(* for the hashrate estimate.  Time is counted in ticks; the factor 2^32   *)
(* of the hashrate is left out.                                            *)
(***************************************************************************)
EXTENDS Naturals, Sequences, FiniteSets, Functions

CONSTANTS
    Difficulties,   \* difficulties the pool may set
    ShareValues,    \* difficulties a share may turn out to have (0: unknown)
    Errors,         \* errors of rejected shares: records [code, aboveTarget]
    NoError,        \* a rejection without one
    Window,         \* ticks of get_hashrate and of the cleanup (600 s)
    MinShares,      \* shares below which the hashrate is 0 (5)
    CleanupEvery,   \* shares between two cleanups (100)
    MaxShares,      \* bound: shares recorded
    MaxTime         \* bound: ticks

VARIABLES
    now,            \* time.time()
    accepted, rejected,
    rejectedBy,     \* rejected_stale, rejected_duplicate, rejected_low_diff, rejected_other
    difficulty,
    recentShares,   \* deque of [time, difficulty], oldest first
    highest,        \* highest_difficulty
    history         \* every share recorded, for the properties

vars == <<now, accepted, rejected, rejectedBy, difficulty, recentShares, highest, history>>

Categories == {"stale", "duplicate", "low_diff", "other"}

\* _categorize_rejection
Category(error) ==
    CASE error = NoError    -> "other"
      [] error.code = 21    -> "stale"
      [] error.code = 22    -> "duplicate"
      [] error.code = 23    -> "low_diff"
      [] error.aboveTarget  -> "low_diff"
      [] OTHER              -> "other"

\* The positions of the shares of the window.
Young(shares) == {i \in DOMAIN shares : shares[i].time + Window > now}

\* The k-th position of a set of positions.
Nth(positions, k) ==
    CHOOSE i \in positions : Cardinality({j \in positions : j <= i}) = k

\* The list comprehension over the deque: the shares of the window, in order.
InWindow(shares) ==
    [k \in 1..Cardinality(Young(shares)) |-> shares[Nth(Young(shares), k)]]

\* Mutant: the deque cleared and not refilled.
CleanedToNothing(shares) ==
    IF Len(shares) * 4 > Len(InWindow(shares)) * 5 THEN << >> ELSE shares

\* _cleanup_old_shares: nothing is dropped unless a quarter is out of the window.
Cleaned(shares) ==
    IF Len(shares) * 4 > Len(InWindow(shares)) * 5 THEN InWindow(shares) ELSE shares

\* get_hashrate times the length of the window, where the shares of the window
\* are those at some positions.
Work(shares, positions) ==
    IF Cardinality(positions) < MinShares THEN 0
    ELSE SumFunctionOnSet([i \in DOMAIN shares |-> shares[i].difficulty], positions)
-----------------------------------------------------------------------------
Init ==
    /\ now = 0
    /\ accepted = 0 /\ rejected = 0
    /\ rejectedBy = [c \in Categories |-> 0]
    /\ difficulty = 1
    /\ recentShares = << >>
    /\ highest = 0
    /\ history = << >>

Higher(value) == IF value > highest THEN value ELSE highest

Recorded(isAccepted, value) ==
    history' = Append(history, [time |-> now, difficulty |-> difficulty,
                                accepted |-> isAccepted, value |-> value])

\* record_share of an accepted share, cleanup included.
RecordAccepted(value) ==
    /\ accepted' = accepted + 1
    /\ LET shares == Append(recentShares, [time |-> now, difficulty |-> difficulty])
       IN  recentShares' = IF (accepted' + rejected) % CleanupEvery = 0
                           THEN Cleaned(shares) ELSE shares
    /\ highest' = Higher(value)
    /\ Recorded(TRUE, value)
    /\ UNCHANGED <<now, rejected, rejectedBy, difficulty>>

\* Mutant: a rejection enters the hashrate.
RecordRejectedAsWork(value, error) ==
    /\ rejected' = rejected + 1
    /\ rejectedBy' = [rejectedBy EXCEPT ![Category(error)] = @ + 1]
    /\ recentShares' = Append(recentShares, [time |-> now, difficulty |-> difficulty])
    /\ highest' = Higher(value)
    /\ Recorded(FALSE, value)
    /\ UNCHANGED <<now, accepted, difficulty>>
\* Mutant: the total is not counted when the category is unknown.
RecordRejectedKnown(value, error) ==
    /\ rejected' = IF Category(error) = "other" THEN rejected ELSE rejected + 1
    /\ rejectedBy' = [rejectedBy EXCEPT ![Category(error)] = @ + 1]
    /\ highest' = Higher(value)
    /\ Recorded(FALSE, value)
    /\ UNCHANGED <<now, accepted, difficulty, recentShares>>

\* record_share of a rejected share, cleanup included.
RecordRejected(value, error) ==
    /\ rejected' = rejected + 1
    /\ rejectedBy' = [rejectedBy EXCEPT ![Category(error)] = @ + 1]
    /\ recentShares' = IF (accepted + rejected') % CleanupEvery = 0
                       THEN Cleaned(recentShares) ELSE recentShares
    /\ highest' = Higher(value)
    /\ Recorded(FALSE, value)
    /\ UNCHANGED <<now, accepted, difficulty>>

UpdateDifficulty(d) ==
    /\ difficulty' = d
    /\ UNCHANGED <<now, accepted, rejected, rejectedBy, recentShares, highest, history>>

Tick ==
    /\ now < MaxTime
    /\ now' = now + 1
    /\ UNCHANGED <<accepted, rejected, rejectedBy, difficulty, recentShares, highest, history>>

Next ==
    \/ /\ Len(history) < MaxShares
       /\ \E value \in ShareValues :
             \/ RecordAccepted(value)
             \/ \E error \in Errors \union {NoError} : RecordRejected(value, error)
    \/ \E d \in Difficulties : UpdateDifficulty(d)
    \/ Tick

Spec == Init /\ [][Next]_vars
-----------------------------------------------------------------------------
Accepted == {i \in DOMAIN history : history[i].accepted}

\* Counters, kept shares and history have their types, and the deque never
\* holds more than was accepted.
TypeOK ==
    /\ now \in 0..MaxTime
    /\ accepted \in 0..MaxShares /\ rejected \in 0..MaxShares
    /\ rejectedBy \in [Categories -> 0..MaxShares]
    /\ difficulty \in Difficulties \union {1}
    /\ \A i \in DOMAIN recentShares :
          recentShares[i] \in [time : 0..MaxTime, difficulty : Difficulties \union {1}]
    /\ Len(recentShares) <= accepted
    /\ highest \in ShareValues \union {0}

\* Dropping old shares never changes an estimate: at every moment, also long
\* after a cleanup, get_hashrate over the deque answers what it would answer
\* over every share ever accepted (stats.py:90-107 against 156-183).
CleanupKeepsHashrate ==
    Work(recentShares, Young(recentShares)) = Work(history, Young(history) \intersect Accepted)

\* The figures the workers' page shows agree with each other and with the
\* shares recorded: each share is counted once, each rejection in exactly one
\* category (stats.py:64-88, 127-144).
FiguresAgree ==
    /\ accepted = Cardinality(Accepted)
    /\ accepted + rejected = Len(history)
    /\ rejected = SumFunction(rejectedBy)
    /\ \A i \in DOMAIN history : highest >= history[i].value
=============================================================================

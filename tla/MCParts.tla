------------------------------- MODULE MCParts ------------------------------
(***************************************************************************)
(* Four components that share no state with another, each explored with    *)
(* the others at their start:                                              *)
(*  - the job queue: four job ids for a queue of two, so that jobs are     *)
(*    evicted, come back and are announced again, with other data, while   *)
(*    still queued;                                                        *)
(*  - the statistics of a miner: four shares over four ticks, a window of  *)
(*    two ticks and a cleanup every other share, so that shares leave the  *)
(*    window before, at and after a cleanup;                               *)
(*  - the shares a TIDES window counts: of seven shares over four days, the *)
(*    first of which lies before TIDES_START_DATE, up to four become       *)
(*    visible, in any order and at any time; and a target of two or three  *)
(*    shares, so that windows end inside a day, at its boundary and at the *)
(*    first day;                                                           *)
(*  - the daily reward: two requests at a time, three in a behaviour.      *)
(***************************************************************************)
EXTENDS JobHistory, FiniteSets

CONSTANTS
    j1, j2, j3, j4, d1, d2,
    Difficulties, ShareValues, Errors, NoError, Window, MinShares, CleanupEvery,
    MaxShares, MaxTime,
    Shares, DayOf, ValueOf, Target, FirstDay, Kinds, None, MaxLog,
    Clients, Amounts, Proofs, NotGiven, MaxPosts

ASSUME PartsAssumption ==
    /\ Difficulties \subseteq Nat \ {0} /\ ShareValues \subseteq Nat
    /\ Window \in Nat \ {0} /\ MinShares \in Nat /\ CleanupEvery \in Nat \ {0}
    /\ Shares \subseteq Nat /\ IsFiniteSet(Shares)
    /\ DayOf \in [Shares -> Nat] /\ \A t, v \in Shares : t <= v => DayOf[t] <= DayOf[v]
    /\ ValueOf \in [Shares -> Nat \ {0}]
    /\ Target \in Nat \ {0} /\ FirstDay \in Nat /\ None \notin Nat
    /\ Kinds \subseteq {"shares", "custom", "ocean"}
    /\ MaxShares \in Nat /\ MaxTime \in Nat /\ MaxLog \in Nat /\ MaxPosts \in Nat

MCJobId == {j1, j2, j3, j4}
MCJobData == {d1, d2}
MCErrors == {[code |-> 21, aboveTarget |-> FALSE], [code |-> 23, aboveTarget |-> FALSE],
             [code |-> 20, aboveTarget |-> TRUE]}

MCShares == 1..7
MCDayOf == <<1, 2, 2, 3, 3, 4, 4>>
MCValueOf == <<1, 1, 3, 1, 2, 1, 3>>

VARIABLES
    now, accepted, rejected, rejectedBy, difficulty, recentShares, highest, history,
    visible, pc, kind, from, to, known, remaining, included, start, counted,
    rows, arriving, changes, client, posts, lastGiven, inserts

svars == <<now, accepted, rejected, rejectedBy, difficulty, recentShares, highest, history>>
tvars == <<visible, pc, kind, from, to, known, remaining, included, start, counted>>
dvars == <<rows, arriving, changes, client, posts, lastGiven, inserts>>

Stats == INSTANCE MinerStats
Tides == INSTANCE TidesWindow WITH MaxShares <- MaxLog
Daily == INSTANCE DailyRewards

PartsInit == HInit /\ Stats!Init /\ Tides!Init /\ Daily!Init

PartsNext ==
    \/ /\ Stats!Init /\ Tides!Init /\ Daily!Init
       /\ HNext /\ UNCHANGED <<svars, tvars, dvars>>
    \/ /\ HInit /\ Tides!Init /\ Daily!Init
       /\ Stats!Next /\ UNCHANGED <<hvars, tvars, dvars>>
    \/ /\ HInit /\ Stats!Init /\ Daily!Init
       /\ Tides!Next /\ UNCHANGED <<hvars, svars, dvars>>
    \/ /\ HInit /\ Stats!Init /\ Tides!Init
       /\ Daily!Next /\ UNCHANGED <<hvars, svars, tvars>>

PartsSpec == PartsInit /\ [][PartsNext]_<<hvars, svars, tvars, dvars>>
-----------------------------------------------------------------------------
\* The statistics, the window and the daily reward have their types; that of
\* the job queue is TypeOK.
PartsTyped == Stats!TypeOK /\ Tides!TypeOK /\ Daily!TypeOK

\* What MinerStats says of the cleanup of old shares (stats.py:90-107).
CleanupKeepsHashrate == Stats!CleanupKeepsHashrate

\* What MinerStats says of the counters (stats.py:64-144).
FiguresAgree == Stats!FiguresAgree

\* What TidesWindow says of gaps and shares counted twice
\* (tides_queries.py:94-148, 577-642).
WindowIsOneStretch == Tides!WindowIsOneStretch

\* What TidesWindow says of the target (tides_queries.py:194-253, 482).
LongestWithinTarget == Tides!LongestWithinTarget

\* What DailyRewards says of fields that are not given (app.py:529).
OnlyGivenFieldsChange == Daily!OnlyGivenFieldsChange
=============================================================================

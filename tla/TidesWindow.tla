---------------------------- MODULE TidesWindow -----------------------------
(***************************************************************************)
(* Which shares a TIDES window counts (src/api/services/tides_queries.py). *)
(* Three calculations share their parts:                                   *)
(*   "shares"  back from now until the target difficulty is reached: whole *)
(*             days from the daily view, then a part of one more day;      *)
(*   "custom"  the same back from a given time, whose own day comes first; *)
(*   "ocean"   from the start Ocean announces to the end: a partial day,   *)
(*             whole days, a partial day.                                  *)
(* Each is a coroutine of several queries, while shares keep coming.  A    *)
(* share has the time the miner submitted it; a query sees it after the    *)
(* pool's answer and 5 to 15 seconds of buffering, from any of the proxy's *)
(* replicas: later than younger ones, and after midnight on the day before.*)
(*                                                                         *)
(* A worker's part is the sum over the worker's counted shares, so that    *)
(* the model follows how often each share is counted.                      *)
(***************************************************************************)
EXTENDS Integers, Functions, FiniteSetsExt

CONSTANTS
    Shares,     \* all shares, numbered in the order in which a query returns them:
                \* that of their timestamps; a number stands for the timestamp, too
    DayOf,      \* the date of a share
    ValueOf,    \* its pool_difficulty
    Target,     \* network_difficulty * multiplier
    FirstDay,   \* TIDES_START_DATE
    Kinds,      \* calculations that may be asked for
    None,
    MaxShares   \* bound: shares that become visible

VARIABLES
    visible,    \* rows of the shares table, and of its daily view, that queries see
    pc, kind,   \* the query the calculation is about to make, and which one it is
    from, to,   \* where it starts (ocean) and ends (ocean, custom)
    known,      \* shares that were visible when it began
    remaining,  \* the difficulty still to be reached
    included,   \* included_days
    start,      \* start_date
    counted     \* how often each share is counted

inputs == <<kind, from, to, known>>
vars == <<visible, pc, inputs, remaining, included, start, counted>>

Total(S) == SumFunctionOnSet(ValueOf, S)
SharesOn(days) == {t \in visible : DayOf[t] \in days}

\* Mutant: the share that reaches the limit is taken too.
TakenPast(S, limit) == {t \in S : Total({u \in S : u > t}) < limit}
\* The loops of _fetch_start_date_data and _fetch_end_day_data: newest first, up
\* to the share that would reach the limit.
Taken(S, limit) == {t \in S : Total({u \in S : u >= t}) < limit}

\* Mutant: the days that fit one by one.
FittingAlone(days, limit) == {d \in days : Total(SharesOn({d})) <= limit}
\* The loop of _find_included_days: newest first, as long as the days fit.
Fitting(days, limit) == {d \in days : Total(SharesOn({e \in days : e >= d})) <= limit}

\* Shares of S are counted (once more).
CountOf(S) == [t \in Shares |-> counted[t] + (IF t \in S THEN 1 ELSE 0)]

Nothing == [t \in Shares |-> 0]
-----------------------------------------------------------------------------
Init ==
    /\ visible = {}
    /\ pc = "idle" /\ kind = None /\ from = None /\ to = None /\ known = {}
    /\ remaining = Target /\ included = {} /\ start = None /\ counted = Nothing

\* The row of insert_share leaves the insert buffer, after those of any younger
\* shares.
ShareAppears(t) ==
    /\ t \notin visible /\ Cardinality(visible) < MaxShares
    /\ visible' = visible \union {t}
    /\ UNCHANGED <<pc, inputs, remaining, included, start, counted>>

Begin(which, query, first, last) ==
    /\ pc \in {"idle", "done"} /\ which \in Kinds
    /\ pc' = query /\ kind' = which /\ from' = first /\ to' = last /\ known' = visible
    /\ remaining' = Target /\ included' = {} /\ start' = None /\ counted' = Nothing
    /\ UNCHANGED visible

\* calculate_and_store_tides_window and calculate_custom_tides_window; the
\* latter, and the former too when COIN is btc, go by Ocean's start, which may
\* come from Ocean, from the stored window or from four days back, whatever the
\* end is.
CalculateFromShares == Begin("shares", "days", None, None)
CalculateCustom(last) == Begin("custom", "end_day", None, last)
CalculateFromOcean(first, last) == Begin("ocean", "start_partial", first, last)

\* _fetch_end_day_data.  What it takes stays below the target, so that the days
\* before are always looked at (tides_queries.py:400).
FetchEndDay ==
    /\ pc = "end_day"
    /\ LET taken == Taken({t \in SharesOn({DayOf[to]}) : t <= to}, remaining)
       IN  counted' = CountOf(taken) /\ remaining' = remaining - Total(taken)
    /\ pc' = "days"
    /\ UNCHANGED <<visible, inputs, included, start>>

\* Days of the daily view from TIDES_START_DATE, those before the end's day for
\* a custom end, that have shares.
DaysToLookAt ==
    {d \in {DayOf[t] : t \in visible} : d >= FirstDay /\ (kind = "custom" => d < DayOf[to])}

\* _find_included_days: start_date is the first day that does not fit.
FindIncludedDays ==
    /\ pc = "days"
    /\ included' = Fitting(DaysToLookAt, remaining)
    /\ LET refused == DaysToLookAt \ included'
       IN  start' = IF refused = {} THEN None ELSE Max(refused)
    /\ remaining' = remaining - Total(SharesOn(included'))
    /\ pc' = "full_days"
    /\ UNCHANGED <<visible, inputs, counted>>

\* _fetch_full_days_data
FetchFullDays ==
    /\ pc = "full_days" /\ kind # "ocean"
    /\ counted' = CountOf(SharesOn(included))
    /\ pc' = "start_day"
    /\ UNCHANGED <<visible, inputs, remaining, included, start>>

\* _fetch_start_date_data; then the result is put together and stored.
FetchStartDate ==
    /\ pc = "start_day"
    /\ counted' = IF start = None \/ remaining <= 0 THEN counted
                  ELSE CountOf(Taken(SharesOn({start}), remaining))
    /\ pc' = "done"
    /\ UNCHANGED <<visible, inputs, remaining, included, start>>

\* _fetch_partial_start_day, _fetch_full_days_data, _fetch_partial_end_day
FetchPartialStartDay ==
    /\ pc = "start_partial"
    /\ counted' = CountOf({t \in SharesOn({DayOf[from]}) : t >= from})
    /\ pc' = "full_days"
    /\ UNCHANGED <<visible, inputs, remaining, included, start>>

\* Mutant: the end's day among the days between.
FetchDaysBetweenInclusive ==
    /\ pc = "full_days" /\ kind = "ocean"
    /\ counted' = CountOf(SharesOn((DayOf[from] + 1)..DayOf[to]))
    /\ pc' = "end_partial"
    /\ UNCHANGED <<visible, inputs, remaining, included, start>>
FetchDaysBetween ==
    /\ pc = "full_days" /\ kind = "ocean"
    /\ counted' = CountOf(SharesOn((DayOf[from] + 1)..(DayOf[to] - 1)))
    /\ pc' = "end_partial"
    /\ UNCHANGED <<visible, inputs, remaining, included, start>>

FetchPartialEndDay ==
    /\ pc = "end_partial"
    /\ counted' = CountOf({t \in SharesOn({DayOf[to]}) : t <= to})
    /\ pc' = "done"
    /\ UNCHANGED <<visible, inputs, remaining, included, start>>

\* A query raises: the task logs it and waits for its next round, the API
\* answers 500.
Fails ==
    /\ pc \notin {"idle", "done"}
    /\ pc' = "idle" /\ kind' = None /\ from' = None /\ to' = None /\ known' = {}
    /\ remaining' = Target /\ included' = {} /\ start' = None /\ counted' = Nothing
    /\ UNCHANGED visible
-----------------------------------------------------------------------------
Next ==
    \/ \E t \in Shares : ShareAppears(t)
    \/ CalculateFromShares
    \/ \E last \in Shares : CalculateCustom(last)
    \/ \E first, last \in Shares : CalculateFromOcean(first, last)
    \/ FetchEndDay \/ FindIncludedDays \/ FetchFullDays \/ FetchStartDate
    \/ FetchPartialStartDay \/ FetchDaysBetween \/ FetchPartialEndDay
    \/ Fails

Spec == Init /\ [][Next]_vars
-----------------------------------------------------------------------------
Days == {DayOf[t] : t \in Shares}

\* Types; the days are those of shares, and no calculation looks for more than
\* the target.
TypeOK ==
    /\ visible \subseteq Shares /\ Cardinality(visible) <= MaxShares
    /\ pc \in {"idle", "end_day", "days", "full_days", "start_day", "start_partial",
               "end_partial", "done"}
    /\ kind \in Kinds \union {None}
    /\ from \in Shares \union {None} /\ to \in Shares \union {None} /\ known \subseteq visible
    /\ remaining \in 0..Target
    /\ included \subseteq Days /\ start \in (Days \ included) \union {None}
    /\ counted \in [Shares -> Nat]

Counted == {t \in Shares : counted[t] > 0}

Finished(which) == pc = "done" /\ kind = which

\* Of the shares there were at the beginning none is left out between two that
\* are counted.
NoGap == \A t, v \in Counted : known \intersect t..v \subseteq Counted

\* The end of Ocean's window lies on a later day than its start.
SpansMidnight == kind = "ocean" /\ from # None /\ to # None /\ DayOf[from] < DayOf[to]

\* A window counts no share twice.  Of the shares that were there when the
\* calculation began, a window back from now leaves out none between two that it
\* counts, and Ocean's counts all between its ends, and nothing outside of them;
\* whatever appears between the queries, in whatever order of timestamps, also
\* on days already counted (tides_queries.py:94-148, 577-642).  Which of the late
\* ones are counted depends on the queries.  Ocean's start is that of now for any
\* end, so that it may lie on the day of the end or behind it: that is another
\* matter (OceanCountsOnce).
WindowIsOneStretch ==
    /\ (kind = "ocean" => SpansMidnight) => \A t \in Shares : counted[t] <= 1
    /\ Finished("shares") => NoGap
    /\ Finished("ocean") /\ SpansMidnight =>
          known \intersect from..to \subseteq Counted /\ Counted \subseteq from..to

\* The shares that were there when the calculation began are worth no more than
\* the target, in whole days and parts of days together (tides_queries.py:194,
\* 253, 482).
WithinTarget ==
    Finished("shares") \/ Finished("custom") => Total(Counted \intersect known) <= Target

\* A window ends only where one share more would have reached the target, or at
\* TIDES_START_DATE: of the older shares that were there at the beginning nobody
\* is left out but behind a share, as old at least as the window, with which the
\* window would have reached its target.
ReachesTarget ==
    (Finished("shares") \/ Finished("custom")) /\ Counted # {} =>
        \A t \in known : t < Min(Counted) /\ DayOf[t] >= FirstDay =>
            \E u \in visible : /\ t <= u /\ u < Min(Counted)
                               /\ Total(Counted) + ValueOf[u] >= Target

\* A window is the longest within its target: neither too many shares are
\* counted, at the boundary of a day or inside one, nor too few.
LongestWithinTarget == WithinTarget /\ ReachesTarget

\* "SPECIFIED_TIME -> Remaining Day (partial) -> Full Days -> Start Date
\* (partial) -> Target Reached" (tides_queries.py:370): a window back from a
\* specified time leaves nothing out on its way.
CustomWindowHasNoGap == Finished("custom") => NoGap

\* "Sums difficulty across [ocean_start, end_datetime]" (tides_queries.py:584):
\* every share once.  With both ends on one day, as for a reward worked on late,
\* each partial day is the whole day but for what lies outside of one end.
OceanCountsOnce ==
    Finished("ocean") => \A t \in Shares : counted[t] <= 1 /\ (counted[t] = 1 => t \in from..to)
=============================================================================

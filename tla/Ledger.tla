------------------------------- MODULE Ledger -------------------------------
(***************************************************************************)
(* The reward ledger of the API service: the tables user_rewards (one      *)
(* balance per worker, superseded row by row), user_earnings, user_payouts *)
(* and payout_batches, and the requests that change them                   *)
(* (src/api/services/{earnings,payouts,balance}_queries.py and             *)
(* tides_monitoring/btc/rewards_monitor.py).                               *)
(*                                                                         *)
(* A request is a coroutine that awaits one database call after the other, *)
(* without a transaction or a lock.  It is modelled by the steps it still  *)
(* has to do; between two of them any other request may run, and at any of *)
(* them the call may raise, which ends the request.  Amounts are integers  *)
(* (of the smallest unit); the code adds binary floats.                    *)
(***************************************************************************)
EXTENDS Integers, Sequences, Functions

CONSTANTS
    Workers,
    Amounts,        \* amounts an administrator or a reward may name
    Revisions,      \* amounts an entry may be changed to; 0 deletes it
    Rewards,        \* tides_rewards that exist
    Requests,       \* requests the service works on at the same time
    Unread,         \* no balance was read yet
    Settled,        \* every balance row is seen, and as the newest, by the next query
    Failures,       \* database calls may raise
    RepeatWorkers,  \* a batch payout may name a worker twice
    Edits,          \* an administrator may set balances by hand
    MaxRequests,    \* bound: requests started
    MaxClock        \* bound: seconds

ASSUME LedgerAssumption ==
    /\ Amounts \subseteq Nat \ {0} /\ Revisions \subseteq Nat
    /\ {Settled, Failures, RepeatWorkers, Edits} \subseteq BOOLEAN
    /\ MaxRequests \in Nat /\ MaxClock \in Nat \ {0}

VARIABLES
    clock,          \* seconds: the precision of last_updated and of a batch id
    visible,        \* user_rewards: the newest rows of each worker a query can see
    buffered,       \* rows of user_rewards in the asynchronous insert buffer
    entries,        \* user_earnings and user_payouts by their ids
    batches,        \* payout_batches
    processed,      \* tides_rewards marked processed, and by which request
    todo,           \* the steps a request has still to do
    seen,           \* the balance it has read for the step it is doing
    ctx,            \* its serial number, batch id, override flag and checks
    started,        \* requests started so far
    \* Ghosts.
    edited,         \* workers whose balance an administrator has set by hand
    lost,           \* changes that requests failed to make after entering them
    overdrawn       \* validated requests that made a balance negative

tables == <<visible, buffered, entries, batches, processed>>
ghosts == <<edited, lost, overdrawn>>
vars == <<clock, tables, todo, seen, ctx, started, ghosts>>

Fields == {"unpaid", "paid", "total"}
Zero == [unpaid |-> 0, paid |-> 0, total |-> 0]
Plus(b, c) ==
    [unpaid |-> b.unpaid + c.unpaid, paid |-> b.paid + c.paid, total |-> b.total + c.total]

\* Mutant: a payout adjustment that forgets the other side.
ChangeOneSided(book, a) ==
    IF book = "earnings" THEN [unpaid |-> a, paid |-> 0, total |-> a]
    ELSE [unpaid |-> 0 - a, paid |-> 0, total |-> 0]
\* Mutant: a payout counted as earned.
ChangeEarnedTwice(book, a) ==
    IF book = "earnings" THEN [unpaid |-> a, paid |-> 0, total |-> a]
    ELSE [unpaid |-> 0, paid |-> a, total |-> a]
\* What an entry of a does to a balance: an earning adds to unpaid and total
\* (update_user_balance), a payout moves from unpaid to paid
\* (update_user_balance_for_payout, and _adjustment for differences).
Change(book, a) ==
    IF book = "earnings" THEN [unpaid |-> a, paid |-> 0, total |-> a]
    ELSE [unpaid |-> 0 - a, paid |-> a, total |-> 0]
-----------------------------------------------------------------------------
(* The steps of a request.                                                 *)

Enter(book, items) == [op |-> "enter", book |-> book, items |-> items]
Adjust(w, change) == [op |-> "adjust", worker |-> w, change |-> change]
Find(id, a) == [op |-> "find", id |-> id, amount |-> a]
Alter(id, a) == [op |-> "alter", id |-> id, amount |-> a]
Check(items) == [op |-> "check", items |-> items]
Gate == [op |-> "gate"]
InsertBatch(items) == [op |-> "batch", items |-> items]
Mark(rewards) == [op |-> "mark", rewards |-> rewards]
Edit(w, set) == [op |-> "edit", worker |-> w, set |-> set]

Step(r) == Head(todo[r])
At(r, op) == todo[r] # << >> /\ Step(r).op = op

\* Do the current step of r and go on with steps.
GoOn(r, steps) == todo' = [todo EXCEPT ![r] = steps]
Done(r) == GoOn(r, Tail(todo[r]))
-----------------------------------------------------------------------------
(* user_rewards                                                            *)

\* Mutant of the query: LIMIT 1 without the order.
NewestAny(rows) == rows
Newest(rows) == {row \in rows : \A other \in rows : other.at <= row.at}

\* SELECT ... ORDER BY last_updated DESC LIMIT 1: one of the newest visible
\* rows, and nothing at all for a new worker.
Answers(w) ==
    IF visible[w] = {} THEN {[f \in Fields \union {"at"} |-> 0]} ELSE Newest(visible[w])

\* INSERT INTO user_rewards.  Rows older than the newest are never answered
\* again (and merged away by the ReplacingMergeTree).
InsertRow(w, b) ==
    LET row == [unpaid |-> b.unpaid, paid |-> b.paid, total |-> b.total, at |-> clock]
    IN  IF Settled
        THEN /\ visible' = [visible EXCEPT ![w] = {row}]
             /\ UNCHANGED buffered
        ELSE /\ buffered' = [buffered EXCEPT ![w] = @ \union {row}]
             /\ UNCHANGED visible

\* The asynchronous insert buffer is flushed, within 5 to 15 seconds.
Flush(w, row) ==
    /\ buffered' = [buffered EXCEPT ![w] = @ \ {row}]
    /\ visible' = [visible EXCEPT ![w] = Newest(@ \union {row})]
    /\ UNCHANGED <<clock, entries, batches, processed, todo, seen, ctx, started, ghosts>>
-----------------------------------------------------------------------------
Init ==
    /\ clock = 1
    /\ visible = [w \in Workers |-> {}] /\ buffered = [w \in Workers |-> {}]
    /\ entries = << >> /\ batches = {} /\ processed = {}
    /\ todo = [r \in Requests |-> << >>]
    /\ seen = [r \in Requests |-> Unread]
    /\ ctx = [r \in Requests |-> [by |-> 0, batch |-> 0, override |-> FALSE,
                                  short |-> FALSE, validated |-> FALSE]]
    /\ started = 0
    /\ edited = {} /\ lost = [w \in Workers |-> Zero] /\ overdrawn = {}

(* Requests arrive.                                                        *)

Begin(r, override, steps) ==
    /\ todo[r] = << >> /\ started < MaxRequests
    /\ started' = started + 1
    /\ todo' = [todo EXCEPT ![r] = steps]
    /\ ctx' = [ctx EXCEPT ![r] = [by |-> started + 1, batch |-> 0, override |-> override,
                                  short |-> FALSE, validated |-> FALSE]]
    /\ UNCHANGED <<clock, tables, seen, ghosts>>

Item == [worker : Workers, amount : Amounts]
Pairs == {<<i, j>> : i \in Item, j \in Item}
ItemLists == {<<i>> : i \in Item} \union
             (IF RepeatWorkers THEN Pairs ELSE {p \in Pairs : p[1].worker # p[2].worker})

\* create_manual_earning, and process_tides_reward_earnings for the workers of
\* one reward.
CreditEarnings(r, items) == Begin(r, FALSE, <<Enter("earnings", items)>>)

\* update_earning, update_individual_payout; with amount 0 delete_earning,
\* delete_individual_payout.
ReviseEntry(r, id, a) == Begin(r, FALSE, <<Find(id, a)>>)

\* create_single_payout_with_validation
SinglePayout(r, item, override) ==
    Begin(r, override, <<Check(<<item>>), Gate, Enter("payouts", <<item>>)>>)

\* Mutant: rewards marked before the payouts are made.
BatchPayoutMarksFirst(r, items, override, rewards) ==
    Begin(r, override, <<Check(items), Gate, InsertBatch(items), Mark(rewards),
                         Enter("payouts", items)>>)
\* create_batch_payout
BatchPayout(r, items, override, rewards) ==
    Begin(r, override, <<Check(items), Gate, InsertBatch(items),
                         Enter("payouts", items), Mark(rewards)>>)

\* update_user_balance_manually
EditBalance(r, w, set) == Edits /\ Begin(r, FALSE, <<Edit(w, set)>>)
-----------------------------------------------------------------------------
(* Their steps.                                                            *)

\* validate_worker_balances, one worker after the other.
DoCheck(r) ==
    /\ At(r, "check")
    /\ LET item == Head(Step(r).items)
           rest == Tail(Step(r).items)
       IN  /\ \E row \in Answers(item.worker) :
                 ctx' = [ctx EXCEPT ![r].short = @ \/ row.unpaid < item.amount]
           /\ GoOn(r, (IF rest = << >> THEN << >> ELSE <<Check(rest)>>) \o Tail(todo[r]))
    /\ UNCHANGED <<clock, tables, seen, started, ghosts>>

\* Mutant: the override is not asked for.
DoGateOpen(r) ==
    /\ At(r, "gate")
    /\ Done(r)
    /\ ctx' = [ctx EXCEPT ![r].validated = ~ctx[r].override]
    /\ UNCHANGED <<clock, tables, seen, started, ghosts>>
\* Insufficient balances end a request without admin_override.
DoGate(r) ==
    /\ At(r, "gate")
    /\ IF ctx[r].short /\ ~ctx[r].override THEN GoOn(r, << >>) ELSE Done(r)
    /\ ctx' = [ctx EXCEPT ![r].validated = ~ctx[r].override]
    /\ UNCHANGED <<clock, tables, seen, started, ghosts>>

\* The batch row, named after the second of its creation.
DoBatch(r) ==
    /\ At(r, "batch")
    /\ ctx' = [ctx EXCEPT ![r].batch = clock]
    /\ batches' = batches \union {[id |-> clock, by |-> ctx[r].by]}
    /\ Done(r)
    /\ UNCHANGED <<clock, visible, buffered, entries, processed, seen, started, ghosts>>

\* Mutant: the loop does not end with the last worker.
DoEnterPastEnd(r) ==
    /\ At(r, "enter")
    /\ LET s == Step(r)
           item == Head(s.items)
           rest == Tail(s.items)
           after == <<Enter(s.book, rest)>> \o Tail(todo[r])
           id == <<ctx[r].by, Len(s.items)>>
           e == [book |-> s.book, worker |-> item.worker, amount |-> item.amount,
                 batch |-> ctx[r].batch, by |-> ctx[r].by]
       IN  /\ entries' = [i \in DOMAIN entries \union {id} |->
                             IF i = id THEN e ELSE entries[i]]
           /\ GoOn(r, <<Adjust(item.worker, Change(s.book, item.amount))>> \o after)
    /\ UNCHANGED <<clock, visible, buffered, batches, processed, seen, ctx, started, ghosts>>
\* INSERT INTO user_earnings or user_payouts; the balance comes next, then the
\* other workers of the request.
DoEnter(r) ==
    /\ At(r, "enter")
    /\ LET s == Step(r)
           item == Head(s.items)
           rest == Tail(s.items)
           after == (IF rest = << >> THEN << >> ELSE <<Enter(s.book, rest)>>) \o Tail(todo[r])
           id == <<ctx[r].by, Len(s.items)>>
           e == [book |-> s.book, worker |-> item.worker, amount |-> item.amount,
                 batch |-> ctx[r].batch, by |-> ctx[r].by]
       IN  /\ entries' = [i \in DOMAIN entries \union {id} |->
                             IF i = id THEN e ELSE entries[i]]
           /\ GoOn(r, <<Adjust(item.worker, Change(s.book, item.amount))>> \o after)
    /\ UNCHANGED <<clock, visible, buffered, batches, processed, seen, ctx, started, ghosts>>

\* SELECT of the entry to revise; an unknown id ends the request.
DoFind(r) ==
    /\ At(r, "find")
    /\ LET s == Step(r)
       IN  IF s.id \notin DOMAIN entries THEN GoOn(r, << >>)
           ELSE LET e == entries[s.id]
                IN  GoOn(r, <<Alter(s.id, s.amount)>> \o
                            (IF s.amount = e.amount THEN << >>
                             ELSE <<Adjust(e.worker, Change(e.book, s.amount - e.amount))>>))
    /\ UNCHANGED <<clock, tables, seen, ctx, started, ghosts>>

\* ALTER TABLE ... UPDATE, or DELETE; nothing when the entry has gone.
DoAlter(r) ==
    /\ At(r, "alter")
    /\ LET s == Step(r)
           left == IF s.amount = 0 THEN DOMAIN entries \ {s.id} ELSE DOMAIN entries
       IN  entries' = [i \in left |-> IF i = s.id THEN [entries[i] EXCEPT !.amount = s.amount]
                                      ELSE entries[i]]
    /\ Done(r)
    /\ UNCHANGED <<clock, visible, buffered, batches, processed, seen, ctx, started, ghosts>>

\* The balance is read ...
ReadBalance(r) ==
    /\ At(r, "adjust") \/ At(r, "edit")
    /\ seen[r] = Unread
    /\ \E row \in Answers(Step(r).worker) : seen' = [seen EXCEPT ![r] = row]
    /\ At(r, "edit") => visible[Step(r).worker] # {}
    /\ UNCHANGED <<clock, tables, todo, ctx, started, ghosts>>

\* ... and a worker without one cannot be edited.
EditNotFound(r) ==
    /\ At(r, "edit") /\ visible[Step(r).worker] = {} /\ seen[r] = Unread
    /\ Done(r)
    /\ UNCHANGED <<clock, tables, seen, ctx, started, ghosts>>

\* Mutant: the row just inserted is not read, the balance starts from zero.
WriteBalanceAfresh(r) ==
    /\ At(r, "adjust") /\ seen[r] # Unread
    /\ InsertRow(Step(r).worker, Step(r).change)
    /\ seen' = [seen EXCEPT ![r] = Unread]
    /\ Done(r)
    /\ UNCHANGED <<clock, entries, batches, processed, ctx, started, ghosts>>
\* ... and the row that supersedes it is inserted.
WriteBalance(r) ==
    /\ At(r, "adjust") /\ seen[r] # Unread
    /\ LET w == Step(r).worker
           new == Plus(seen[r], Step(r).change)
       IN  /\ InsertRow(w, new)
           /\ overdrawn' = IF new.unpaid < 0 /\ ctx[r].validated
                           THEN overdrawn \union {ctx[r].by} ELSE overdrawn
    /\ seen' = [seen EXCEPT ![r] = Unread]
    /\ Done(r)
    /\ UNCHANGED <<clock, entries, batches, processed, ctx, started, edited, lost>>

\* The fields the administrator gave replace those read.
WriteEdit(r) ==
    /\ At(r, "edit") /\ seen[r] # Unread
    /\ LET s == Step(r)
           new == [f \in Fields |-> IF f \in DOMAIN s.set THEN s.set[f] ELSE seen[r][f]]
       IN  InsertRow(s.worker, new) /\ edited' = edited \union {s.worker}
    /\ seen' = [seen EXCEPT ![r] = Unread]
    /\ Done(r)
    /\ UNCHANGED <<clock, entries, batches, processed, ctx, started, lost, overdrawn>>

\* mark_tides_reward_processed for each reward of the batch.
DoMark(r) ==
    /\ At(r, "mark")
    /\ LET rewards == Step(r).rewards
       IN  IF rewards = {} THEN Done(r) /\ UNCHANGED processed
           ELSE \E reward \in rewards :
                   /\ processed' = processed \union {[reward |-> reward, by |-> ctx[r].by]}
                   /\ GoOn(r, <<Mark(rewards \ {reward})>> \o Tail(todo[r]))
    /\ UNCHANGED <<clock, visible, buffered, entries, batches, seen, ctx, started, ghosts>>

\* A database call raises, or the service stops: the request ends where it is.
Fail(r) ==
    /\ Failures /\ todo[r] # << >>
    /\ lost' = IF Step(r).op = "adjust"
               THEN [lost EXCEPT ![Step(r).worker] = Plus(@, Step(r).change)] ELSE lost
    /\ todo' = [todo EXCEPT ![r] = << >>]
    /\ seen' = [seen EXCEPT ![r] = Unread]
    /\ UNCHANGED <<clock, tables, ctx, started, edited, overdrawn>>

Tick ==
    /\ clock < MaxClock
    /\ clock' = clock + 1
    /\ UNCHANGED <<tables, todo, seen, ctx, started, ghosts>>
-----------------------------------------------------------------------------
\* Any of the fields of a balance.
EditSets == UNION {[fields -> Amounts] : fields \in SUBSET Fields}

Arrive(r) ==
    \/ \E items \in ItemLists : CreditEarnings(r, items)
    \/ \E id \in DOMAIN entries, a \in Revisions : ReviseEntry(r, id, a)
    \/ \E item \in Item, override \in BOOLEAN : SinglePayout(r, item, override)
    \/ \E items \in ItemLists, override \in BOOLEAN, rewards \in SUBSET Rewards :
          BatchPayout(r, items, override, rewards)
    \/ \E w \in Workers, set \in EditSets : EditBalance(r, w, set)

Work(r) ==
    \/ DoCheck(r) \/ DoGate(r) \/ DoBatch(r) \/ DoEnter(r) \/ DoFind(r) \/ DoAlter(r)
    \/ ReadBalance(r) \/ EditNotFound(r) \/ WriteBalance(r) \/ WriteEdit(r) \/ DoMark(r)

Next ==
    \/ \E r \in Requests : Arrive(r) \/ Work(r) \/ Fail(r)
    \/ \E w \in Workers : \E row \in buffered[w] : Flush(w, row)
    \/ Tick

Spec == Init /\ [][Next]_vars
-----------------------------------------------------------------------------
Balance == [unpaid : Int, paid : Int, total : Int]
Row == [unpaid : Int, paid : Int, total : Int, at : Nat]
Entry == [book : {"earnings", "payouts"}, worker : Workers, amount : Nat,
          batch : Nat, by : Nat]

Steps ==
    [op : {"enter"}, book : {"earnings", "payouts"}, items : Seq(Item)]
    \union [op : {"adjust"}, worker : Workers, change : Balance]
    \union [op : {"find", "alter"}, id : Nat \X Nat, amount : Nat]
    \union [op : {"check", "batch"}, items : Seq(Item)]
    \union [op : {"gate"}]
    \union [op : {"mark"}, rewards : SUBSET Rewards]
    \union [op : {"edit"}, worker : Workers, set : EditSets]

\* What the variables may hold: in particular a request in the middle of its
\* work always has a step it knows how to do, with an item left to do it on
\* (create_batch_payout and its callees loop over lists they never see empty).
TypeOK ==
    /\ clock \in 1..MaxClock
    /\ visible \in [Workers -> SUBSET Row] /\ buffered \in [Workers -> SUBSET Row]
    /\ DOMAIN entries \subseteq Nat \X Nat
    /\ \A id \in DOMAIN entries : entries[id] \in Entry
    /\ batches \subseteq [id : Nat, by : Nat]
    /\ processed \subseteq [reward : Rewards, by : Nat]
    /\ \A r \in Requests : \A i \in DOMAIN todo[r] :
          todo[r][i] \in Steps /\ ("items" \in DOMAIN todo[r][i] => todo[r][i].items # << >>)
    /\ seen \in [Requests -> Row \union {Unread}]
    /\ ctx \in [Requests -> [by : Nat, batch : Nat, override : BOOLEAN,
                             short : BOOLEAN, validated : BOOLEAN]]
    /\ started \in 0..MaxRequests
    /\ edited \subseteq Workers /\ lost \in [Workers -> Balance] /\ overdrawn \subseteq Nat

Conserves(b) == b.unpaid + b.paid = b.total

\* In every balance row of a worker whose balance nobody has set by hand, what
\* is unpaid and what was paid add up to what was earned: whichever of them a
\* request happens to read, whatever it raced with and wherever it failed
\* (the three writers of user_rewards).
RowsConserve ==
    \A w \in Workers \ edited : \A row \in visible[w] \union buffered[w] : Conserves(row)

\* The balance of a worker, of which there is one when rows are Settled.
BalanceOf(w) == LET row == CHOOSE row \in Answers(w) : TRUE
                IN  [f \in Fields |-> row[f]]

Entered(book, w) ==
    SumFunction([id \in {i \in DOMAIN entries : /\ entries[i].book = book
                                               /\ entries[i].worker = w} |->
                    entries[id].amount])

\* What the requests at work still have to bring to the balance of w.
Due(w, field) ==
    SumFunction([r \in {q \in Requests : At(q, "adjust") /\ Step(q).worker = w} |->
                    Step(r).change[field]])

\* The balance of a worker agrees with the books: total_earned is the sum of
\* the worker's user_earnings and paid_amount that of the user_payouts, but for
\* the adjustment a request is about to make or has failed to make
\* (update_user_balance, earnings_queries.py:356: "Update user balance by
\* adding/subtracting from unpaid_amount and total_earned").
BooksBalance ==
    \A w \in Workers \ edited :
        buffered[w] = {} =>
            /\ BalanceOf(w).total + Due(w, "total") + lost[w].total = Entered("earnings", w)
            /\ BalanceOf(w).paid + Due(w, "paid") + lost[w].paid = Entered("payouts", w)

\* A payout that was validated and not overridden leaves no worker with a
\* negative balance (app.py:1619: "If any worker would have insufficient
\* balance, returns error unless admin_override=true").
NoUnapprovedOverdraft == overdrawn = {}

\* A reward is marked processed only when the batch that names it has entered
\* its last payout and brought it to the balance (create_batch_payout).
ProcessedMeansPaid ==
    \A r \in Requests :
        (\E p \in processed : p.by = ctx[r].by) =>
            \A i \in DOMAIN todo[r] : todo[r][i].op \notin {"enter", "adjust"}

\* Requests one at a time, on settled rows, do to the balances what Account
\* says: whole earnings, whole payouts and edits, and nothing else.
Books == INSTANCE Account WITH balance <- [w \in Workers |-> BalanceOf(w)]
LedgerRefined == Books!Spec
=============================================================================

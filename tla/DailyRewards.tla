---------------------------- MODULE DailyRewards ----------------------------
(***************************************************************************)
(* The row of one day in daily_rewards and POST /api/rewards/{date}        *)
(* (update_daily_reward, src/api/app.py): a request looks for a row, and   *)
(* updates or inserts it by what it found.  Inserts wait in a buffer,      *)
(* ALTER TABLE ... UPDATE is carried out later, and of several rows of a   *)
(* day ReplacingMergeTree keeps the newest; until then a query without     *)
(* FINAL answers any of them.                                              *)
(***************************************************************************)
EXTENDS Naturals, Sequences, FiniteSets

CONSTANTS
    Clients,        \* requests that are served at a time
    Amounts, Proofs,
    NotGiven,       \* for a field that a request leaves out
    MaxPosts        \* bound: requests

VARIABLES
    rows,           \* the day's rows a query sees, oldest first
    arriving,       \* those in the insert buffer
    changes,        \* updates not made yet
    client,         \* where each request is, its fields, and whether it found a row
    posts,
    lastGiven,      \* what was last written to each field (ghost)
    inserts         \* rows inserted (ghost)

vars == <<rows, arriving, changes, client, posts, lastGiven, inserts>>

\* The defaults of the columns; an amount is a Float64, never NULL.
Blank == [amount |-> 0, paid |-> FALSE, proof |-> ""]
Row == [amount : Amounts \union {0}, paid : BOOLEAN, proof : Proofs \union {""}]

\* Bodies of requests: some of the fields.
Body == [amount : Amounts \union {NotGiven}, paid : BOOLEAN \union {NotGiven},
         proof : Proofs \union {NotGiven}] \ {[f \in DOMAIN Blank |-> NotGiven]}

With(row, given) ==
    [f \in DOMAIN row |-> IF given[f] # NotGiven THEN given[f] ELSE row[f]]

Idle == [pc |-> "idle", given |-> NotGiven, found |-> FALSE]
Become(c, held) == client' = [client EXCEPT ![c] = held]
-----------------------------------------------------------------------------
Init ==
    /\ rows = << >> /\ arriving = << >> /\ changes = << >>
    /\ client = [c \in Clients |-> Idle]
    /\ posts = 0 /\ lastGiven = Blank /\ inserts = 0

Post(c, given) ==
    /\ client[c].pc = "idle" /\ posts < MaxPosts
    /\ posts' = posts + 1
    /\ Become(c, [Idle EXCEPT !.pc = "look", !.given = given])
    /\ UNCHANGED <<rows, arriving, changes, lastGiven, inserts>>

\* Paid, or a proof, needs an amount in the request or a row that is there: its
\* amount is never None.
Refused(given, found) ==
    /\ given.amount = NotGiven /\ ~found
    /\ given.paid = TRUE \/ given.proof # NotGiven

Look(c) ==
    /\ client[c].pc = "look"
    /\ LET found == rows # << >>
       IN  Become(c, IF Refused(client[c].given, found) THEN Idle
                     ELSE [client[c] EXCEPT !.pc = "write", !.found = found])
    /\ UNCHANGED <<rows, arriving, changes, posts, lastGiven, inserts>>

\* Mutant: the fields that are not given are set to their defaults.
AlterRowWhole(c) ==
    /\ client[c].pc = "write" /\ client[c].found
    /\ changes' = Append(changes, [given |-> With(Blank, client[c].given), upTo |-> Len(rows)])
    /\ lastGiven' = With(lastGiven, client[c].given)
    /\ Become(c, Idle)
    /\ UNCHANGED <<rows, arriving, posts, inserts>>
AlterRow(c) ==
    /\ client[c].pc = "write" /\ client[c].found
    /\ changes' = Append(changes, [given |-> client[c].given, upTo |-> Len(rows)])
    /\ lastGiven' = With(lastGiven, client[c].given)
    /\ Become(c, Idle)
    /\ UNCHANGED <<rows, arriving, posts, inserts>>

InsertRow(c) ==
    /\ client[c].pc = "write" /\ ~client[c].found
    /\ arriving' = Append(arriving, With(Blank, client[c].given))
    /\ inserts' = inserts + 1
    /\ lastGiven' = With(lastGiven, client[c].given)
    /\ Become(c, Idle)
    /\ UNCHANGED <<rows, changes, posts>>

\* A query raises: 500.
PostFails(c) ==
    /\ client[c].pc # "idle"
    /\ Become(c, Idle)
    /\ UNCHANGED <<rows, arriving, changes, posts, lastGiven, inserts>>

Arrive ==
    /\ arriving # << >>
    /\ rows' = rows \o arriving
    /\ arriving' = << >>
    /\ UNCHANGED <<changes, client, posts, lastGiven, inserts>>

\* The oldest update is made, to the rows there were when it was asked for.
Change ==
    /\ changes # << >>
    /\ rows' = [i \in DOMAIN rows |-> IF i <= Head(changes).upTo
                                      THEN With(rows[i], Head(changes).given) ELSE rows[i]]
    /\ changes' = Tail(changes)
    /\ UNCHANGED <<arriving, client, posts, lastGiven, inserts>>

\* Parts are merged when the updates they wait for are made.
Merge ==
    /\ Len(rows) > 1 /\ changes = << >>
    /\ rows' = <<rows[Len(rows)]>>
    /\ UNCHANGED <<arriving, changes, client, posts, lastGiven, inserts>>

Next ==
    \/ \E c \in Clients : \/ \E given \in Body : Post(c, given)
                          \/ Look(c) \/ AlterRow(c) \/ InsertRow(c) \/ PostFails(c)
    \/ Arrive \/ Change \/ Merge

Spec == Init /\ [][Next]_vars
-----------------------------------------------------------------------------
\* Types; a request that goes on to write has a body, and one that found no row
\* says nothing of payment without an amount.
TypeOK ==
    /\ rows \in Seq(Row) /\ arriving \in Seq(Row) /\ lastGiven \in Row
    /\ changes \in Seq([given : Body, upTo : Nat \ {0}])
    /\ \A i \in DOMAIN changes : changes[i].upTo <= Len(rows)
    /\ \A c \in Clients :
          /\ client[c].pc \in {"idle", "look", "write"}
          /\ client[c].pc # "idle" => client[c].given \in Body
          /\ client[c].pc = "write" => ~Refused(client[c].given, client[c].found)
    /\ posts \in 0..MaxPosts /\ inserts \in 0..MaxPosts

\* "Only provided fields will be updated." (app.py:529)  While the day has had
\* one row at the most: once the updates asked for are made, each field holds
\* what was last given for it, whichever requests looked, failed or asked in
\* between.  (With a second row it does not: a request that looks before the
\* first row has left the buffer inserts one with the defaults for what it does
\* not name, and the merge keeps that one.)
OnlyGivenFieldsChange ==
    inserts <= 1 /\ rows # << >> =>
        /\ Len(rows) = 1
        /\ changes = << >> => rows[1] = lastGiven

\* "Cannot set paid=true without an amount (in request or database)"
\* (app.py:532).
PaidHasAmount == \A i \in DOMAIN rows : rows[i].paid => rows[i].amount # 0
=============================================================================

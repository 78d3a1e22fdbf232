---------------------------- MODULE MinerSession ----------------------------
(***************************************************************************)
(* One miner session of the proxy (src/core/miner_session.py): run() and   *)
(* its two forwarding tasks on one event loop, between a miner and a pool. *)
(* A task handles one line without giving up the loop, except where it     *)
(* awaits the database or the closing of a connection; those awaits are    *)
(* states of their own.  Miner and pool are the environment: any line a    *)
(* Stratum peer may send, in any order, answered late, out of order or     *)
(* never.  A request line carries its serial number as a ghost.            *)
(***************************************************************************)
EXTENDS Naturals, Sequences, FiniteSets

CONSTANTS
    Ids,            \* ids a miner may put on its requests (1..n)
    FreshIds,       \* whether the miner numbers its requests 1, 2, 3, ...
    JobId,          \* jobs the pool may announce
    NoJob,
    Difficulties,   \* difficulties the pool may set
    MinDifficulties,\* values of md= in a miner's password
    None,           \* Python's None
    MaxJobs,        \* 25: size of the job queue
    CheckEvery,     \* 250: shares between two acceptance checks
    MinRate,        \* 30: percentage below which the miner is disconnected
    HasDb,          \* whether session.db is set
    MaxRequests     \* bound: requests of the miner

ASSUME SessionAssumption ==
    /\ Ids \subseteq Nat /\ None \notin Nat
    /\ MaxJobs \in Nat \ {0}
    /\ FreshIds \in BOOLEAN /\ HasDb \in BOOLEAN
    /\ Difficulties \subseteq Nat \ {0} /\ MinDifficulties \subseteq Nat
    /\ CheckEvery \in Nat \ {0} /\ MinRate \in 0..100
    /\ MaxRequests \in Nat
ASSUME NoneAssumption == None \notin [answers : Nat, share : Nat]

VARIABLES
    run,            \* where run() is
    m2p, p2m,       \* where the two forwarding tasks are
    minerEof, poolEof,          \* the reader of that side has reached its end
    minerWriter, poolWriter,    \* open, closing or closed; pool: none before run connects
    subscribeId, extranonce,    \* subscribe_id; whether extranonce1 is known
    minDifficulty,              \* min_difficulty
    difficulty, accepted, rejected, \* self.stats
    pending,        \* pending_submits: id -> what submit_data holds; as a ghost, the
                    \* difficulties the miner has been told since
    jobs,           \* self.jobs
    handling,       \* what p2m awaits something for: the answer to one request, the
                    \* share of one submit (the same serial unless ids are reused)
    \* The environment and the ghosts.
    requests,       \* requests the miner has sent
    upstream,       \* requests the pool has not answered
    told,           \* the last difficulty sent to the miner; 1 before the first
    submits,        \* serials of tracked submits
    verdicts,       \* the pool's answers to submits: [n, ok]
    counted,        \* what record_share was called with: [n, ok, scored, credit], and
                    \* the difficulties the miner had been told since the submit
    stored, unstored, \* serials whose insert_share succeeded; failed or was cancelled
    forwarded       \* serials whose answer was written to the miner

tasks == <<run, m2p, p2m>>
conns == <<minerEof, poolEof, minerWriter, poolWriter>>
proto == <<subscribeId, extranonce, minDifficulty, pending, jobs>>
stats == <<difficulty, accepted, rejected>>
ghosts == <<submits, verdicts, counted, stored, unstored, forwarded>>
vars == <<tasks, conns, proto, stats, handling, requests, upstream, told, ghosts>>

JQ == INSTANCE JobQueue WITH JobData <- {"notify"}, MaxSize <- MaxJobs

Kinds == {"subscribe", "authorize", "submit", "other"}

Larger(a, b) == IF a > b THEN a ELSE b

\* StreamWriter.close()
Closing(writer) == IF writer = "open" THEN "closing" ELSE writer
-----------------------------------------------------------------------------
Init ==
    /\ run = "connecting"
    /\ m2p = "idle" /\ p2m = "idle"
    /\ minerEof = FALSE /\ poolEof = FALSE
    /\ minerWriter = "open" /\ poolWriter = "none"
    /\ subscribeId = None /\ extranonce = FALSE /\ minDifficulty = None
    /\ difficulty = 1 /\ accepted = 0 /\ rejected = 0
    /\ pending = << >>
    /\ jobs = << >>
    /\ handling = None
    /\ requests = 0 /\ upstream = {} /\ told = 1
    /\ submits = {} /\ verdicts = {} /\ counted = {}
    /\ stored = {} /\ unstored = {} /\ forwarded = {}

\* run: the pool accepts the connection and the two tasks start ...
Connect ==
    /\ run = "connecting"
    /\ run' = "waiting" /\ m2p' = "reading" /\ p2m' = "reading"
    /\ poolWriter' = "open"
    /\ UNCHANGED <<minerEof, poolEof, minerWriter, proto, stats, handling, requests,
                   upstream, told, ghosts>>

\* ... or does not, and the session cleans up.
ConnectFails ==
    /\ run = "connecting"
    /\ run' = "cleanup"
    /\ UNCHANGED <<m2p, p2m, conns, proto, stats, handling, requests, upstream, told, ghosts>>
-----------------------------------------------------------------------------
(* Lines of the miner.                                                     *)

IdsOfNextRequest == IF FreshIds THEN {requests + 1} ELSE Ids

\* m2p reads a line and writes it to the pool; a dead pool connection makes
\* the write fail, which is logged and forgotten.
ForwardToPool(id, kind) ==
    /\ m2p = "reading" /\ ~minerEof
    /\ requests < MaxRequests
    /\ requests' = requests + 1
    /\ upstream' = IF poolEof THEN upstream
                   ELSE upstream \union {[id |-> id, kind |-> kind, n |-> requests + 1]}
    /\ UNCHANGED <<tasks, conns, extranonce, jobs, stats, handling, told,
                   verdicts, counted, stored, unstored, forwarded>>

MinerSubscribes(id) ==
    /\ ForwardToPool(id, "subscribe")
    /\ subscribeId' = id
    /\ UNCHANGED <<minDifficulty, pending, submits>>

\* The credentials are replaced; md is what parse_min_difficulty finds in the
\* miner's password, and a password without md= leaves the minimum alone.
MinerAuthorizes(id, md) ==
    /\ ForwardToPool(id, "authorize")
    /\ minDifficulty' = IF md = None THEN minDifficulty ELSE md
    /\ UNCHANGED <<subscribeId, pending, submits>>

\* Mutant: one pending slot, as if answers came in order.
MinerSubmitsOne(id, job) ==
    /\ ForwardToPool(id, "submit")
    /\ pending' = [i \in {id} |-> [job |-> job, n |-> requests + 1, since |-> {told}]]
    /\ submits' = submits \union {requests + 1}
    /\ UNCHANGED <<subscribeId, minDifficulty>>
MinerSubmits(id, job) ==
    /\ ForwardToPool(id, "submit")
    /\ pending' = [i \in DOMAIN pending \union {id} |->
                      IF i = id THEN [job |-> job, n |-> requests + 1, since |-> {told}]
                      ELSE pending[i]]
    /\ submits' = submits \union {requests + 1}
    /\ UNCHANGED <<subscribeId, minDifficulty>>

\* mining.configure, mining.suggest_difficulty, a submit with fewer than five
\* parameters: forwarded and not tracked.
MinerSendsOther(id) ==
    /\ ForwardToPool(id, "other")
    /\ UNCHANGED <<subscribeId, minDifficulty, pending, submits>>

\* readline returns nothing: the miner is gone and m2p returns.
MinerEnds ==
    /\ m2p = "reading" /\ minerEof
    /\ m2p' = "done"
    /\ UNCHANGED <<run, p2m, conns, proto, stats, handling, requests, upstream, told, ghosts>>
-----------------------------------------------------------------------------
(* Lines of the pool.                                                      *)

P2MReads == p2m = "reading" /\ ~poolEof

\* Before a subscribe the null id of a push equals subscribe_id: it is taken for
\* the answer to subscribe, found without a result, and passed on as it is.
Subscribed == subscribeId # None

PoolNotifiesUnbounded(job) ==
    /\ P2MReads
    /\ jobs' = IF Subscribed THEN Append(jobs, [id |-> job, data |-> "notify"]) ELSE jobs
    /\ UNCHANGED <<tasks, conns, subscribeId, extranonce, minDifficulty, pending, stats,
                   handling, requests, upstream, told, ghosts>>
PoolNotifies(job) ==
    /\ P2MReads
    /\ jobs' = IF Subscribed THEN JQ!Added(jobs, job, "notify") ELSE jobs
    /\ UNCHANGED <<tasks, conns, subscribeId, extranonce, minDifficulty, pending, stats,
                   handling, requests, upstream, told, ghosts>>

\* The difficulty the miner is told when the pool asks for d.
Effective(d) ==
    IF Subscribed /\ minDifficulty # None THEN Larger(d, minDifficulty) ELSE d

\* The miner works at told' from now on.
TellMiner(d) ==
    /\ told' = Effective(d)
    /\ pending' = [id \in DOMAIN pending |->
                      [pending[id] EXCEPT !.since = @ \union {Effective(d)}]]

\* Mutant: the statistics keep what the pool asked for.
PoolSetsDifficultyRaw(d) ==
    /\ P2MReads
    /\ difficulty' = IF Subscribed THEN d ELSE difficulty
    /\ TellMiner(d)
    /\ UNCHANGED <<tasks, conns, subscribeId, extranonce, minDifficulty, jobs, accepted,
                   rejected, handling, requests, upstream, ghosts>>
PoolSetsDifficulty(d) ==
    /\ P2MReads
    /\ difficulty' = IF Subscribed THEN Effective(d) ELSE difficulty
    /\ TellMiner(d)
    /\ UNCHANGED <<tasks, conns, subscribeId, extranonce, minDifficulty, jobs, accepted,
                   rejected, handling, requests, upstream, ghosts>>

\* The answer to request n is written to the miner and p2m reads on; writing
\* to a connection that is closing fails, which is logged and forgotten.
Forward(n) ==
    /\ p2m' = "reading"
    /\ handling' = None
    /\ forwarded' = IF minerWriter = "open" THEN forwarded \union {n} ELSE forwarded

LowAcceptance(acc, rej) ==
    /\ (acc + rej) % CheckEvery = 0
    /\ acc * 100 < MinRate * (acc + rej)

\* Mutant: wait_closed without the close before it.
AfterShareNotClosed(r, acc, rej) ==
    \/ /\ LowAcceptance(acc, rej)
       /\ p2m' = "closing"
       /\ handling' = r
       /\ UNCHANGED <<minerWriter, forwarded>>
    \/ /\ ~LowAcceptance(acc, rej)
       /\ Forward(r.answers)
       /\ UNCHANGED minerWriter

\* The end of _handle_submit_response: the acceptance check, then forwarding.
AfterShare(r, acc, rej) ==
    \/ /\ LowAcceptance(acc, rej)
       /\ minerWriter' = Closing(minerWriter)
       /\ p2m' = "closing"
       /\ handling' = r
       /\ UNCHANGED forwarded
    \/ /\ ~LowAcceptance(acc, rej)
       /\ Forward(r.answers)
       /\ UNCHANGED minerWriter

\* An answer carrying subscribe_id is taken for the answer to subscribe: its
\* result is measured, and what has no length is dropped with a TypeError.
AnswerToSubscribe(r, ok) ==
    /\ r.id = subscribeId
    /\ \/ /\ r.kind = "subscribe" /\ ok
          /\ extranonce' = TRUE
          /\ Forward(r.n)
       \/ /\ ~(r.kind = "subscribe" /\ ok)
          /\ UNCHANGED <<extranonce, p2m, handling, forwarded>>
    /\ UNCHANGED <<pending, stats, counted, minerWriter>>

\* Mutant: get instead of pop.
WithoutPendingKept(id) == pending
\* pending_submits.pop
WithoutPending(id) == [i \in DOMAIN pending \ {id} |-> pending[i]]

\* The share is scored against the job as queued now, and credited with the
\* difficulty of the statistics as they are now.
ShareOf(id, ok) ==
    [n |-> pending[id].n, ok |-> ok,
     scored |-> extranonce /\ JQ!Contains(jobs, pending[id].job),
     credit |-> difficulty, since |-> pending[id].since]

\* Mutant: every scored share goes to the database.
ToBeStoredAlways(share) == HasDb /\ share.scored
ToBeStored(share) == share.ok /\ HasDb /\ share.scored

\* Mutant: the verdict ignored when the job is gone.
AnswerToSubmitScoredOnly(r, ok) ==
    /\ r.id # subscribeId /\ r.id \in DOMAIN pending
    /\ pending' = WithoutPending(r.id)
    /\ accepted' = IF ok /\ ShareOf(r.id, ok).scored THEN accepted + 1 ELSE accepted
    /\ rejected' = IF ok /\ ShareOf(r.id, ok).scored THEN rejected ELSE rejected + 1
    /\ counted' = counted \union {ShareOf(r.id, ok)}
    /\ AfterShare([answers |-> r.n, share |-> pending[r.id].n], accepted', rejected')
    /\ UNCHANGED <<extranonce, difficulty>>

\* _handle_submit_response up to its first await.  record_share and the pop
\* come before it.
AnswerToSubmit(r, ok) ==
    /\ r.id # subscribeId /\ r.id \in DOMAIN pending
    /\ pending' = WithoutPending(r.id)
    /\ accepted' = IF ok THEN accepted + 1 ELSE accepted
    /\ rejected' = IF ok THEN rejected ELSE rejected + 1
    /\ counted' = counted \union {ShareOf(r.id, ok)}
    /\ \/ /\ ToBeStored(ShareOf(r.id, ok))
          /\ p2m' = "inserting"
          /\ handling' = [answers |-> r.n, share |-> pending[r.id].n]
          /\ UNCHANGED <<minerWriter, forwarded>>
       \/ /\ ~ToBeStored(ShareOf(r.id, ok))
          /\ AfterShare([answers |-> r.n, share |-> pending[r.id].n], accepted', rejected')
    /\ UNCHANGED <<extranonce, difficulty>>

\* Any other answer is only forwarded.
AnswerToOther(r) ==
    /\ r.id # subscribeId /\ r.id \notin DOMAIN pending
    /\ Forward(r.n)
    /\ UNCHANGED <<extranonce, pending, stats, counted, minerWriter>>

PoolAnswers(r, ok) ==
    /\ P2MReads
    /\ upstream' = upstream \ {r}
    /\ verdicts' = IF r.kind = "submit" THEN verdicts \union {[n |-> r.n, ok |-> ok]}
                   ELSE verdicts
    /\ \/ AnswerToSubscribe(r, ok)
       \/ AnswerToSubmit(r, ok)
       \/ AnswerToOther(r)
    /\ UNCHANGED <<run, m2p, minerEof, poolEof, poolWriter, subscribeId, minDifficulty, jobs,
                   requests, told, submits, stored, unstored>>

\* insert_share returns ...
InsertDone ==
    /\ p2m = "inserting"
    /\ stored' = stored \union {handling.share}
    /\ AfterShare(handling, accepted, rejected)
    /\ UNCHANGED <<run, m2p, minerEof, poolEof, poolWriter, proto, stats, requests, upstream,
                   told, submits, verdicts, counted, unstored>>

\* Mutant: the exception of insert_share reaches the loop of p2m.
InsertFailsUncaught ==
    /\ p2m = "inserting"
    /\ unstored' = unstored \union {handling.share}
    /\ p2m' = "reading" /\ handling' = None
    /\ UNCHANGED <<run, m2p, conns, proto, stats, requests, upstream, told, submits, verdicts,
                   counted, stored, forwarded>>

\* ... or raises, which is logged: the share stays counted and is not stored.
InsertFails ==
    /\ p2m = "inserting"
    /\ unstored' = unstored \union {handling.share}
    /\ AfterShare(handling, accepted, rejected)
    /\ UNCHANGED <<run, m2p, minerEof, poolEof, poolWriter, proto, stats, requests, upstream,
                   told, submits, verdicts, counted, stored>>

\* wait_closed returns after the acceptance check closed the miner.
MinerWasClosed ==
    /\ p2m = "closing" /\ minerWriter = "closed"
    /\ Forward(handling.answers)
    /\ UNCHANGED <<run, m2p, conns, proto, stats, requests, upstream, told, submits, verdicts,
                   counted, stored, unstored>>

\* readline returns nothing: the pool is gone and p2m returns.
PoolEnds ==
    /\ p2m = "reading" /\ poolEof
    /\ p2m' = "done"
    /\ UNCHANGED <<run, m2p, conns, proto, stats, handling, requests, upstream, told, ghosts>>
-----------------------------------------------------------------------------
(* The end of a session.                                                   *)

Over(task) == task \in {"idle", "done", "cancelled"}

\* Mutant: return_when=ALL_COMPLETED.
CancelTheOtherAtLast ==
    /\ run = "waiting" /\ m2p = "done" /\ p2m = "done"
    /\ run' = "cleanup"
    /\ UNCHANGED <<m2p, p2m, conns, proto, stats, handling, requests, upstream, told, ghosts>>
\* asyncio.wait returns with the first task that is done; the other one is
\* cancelled at the await it is in, and awaited.  An insert that is cancelled
\* may or may not have reached the database.
CancelTheOther ==
    /\ run = "waiting" /\ (m2p = "done" \/ p2m = "done")
    /\ run' = "cleanup"
    /\ m2p' = IF m2p = "done" THEN m2p ELSE "cancelled"
    /\ p2m' = IF p2m = "done" THEN p2m ELSE "cancelled"
    /\ handling' = None
    /\ \/ /\ p2m = "inserting"
          /\ \/ stored' = stored \union {handling.share} /\ UNCHANGED unstored
             \/ unstored' = unstored \union {handling.share} /\ UNCHANGED stored
       \/ p2m # "inserting" /\ UNCHANGED <<stored, unstored>>
    /\ UNCHANGED <<conns, proto, stats, requests, upstream, told, submits, verdicts, counted,
                   forwarded>>

\* _cleanup closes the miner, waits, then closes the pool if there is one.
CleanupMiner ==
    /\ run = "cleanup"
    /\ run' = "closing_miner"
    /\ minerWriter' = Closing(minerWriter)
    /\ UNCHANGED <<m2p, p2m, minerEof, poolEof, poolWriter, proto, stats, handling, requests,
                   upstream, told, ghosts>>

CleanupPool ==
    /\ run = "closing_miner" /\ minerWriter = "closed"
    /\ run' = IF poolWriter = "none" THEN "ended" ELSE "closing_pool"
    /\ poolWriter' = Closing(poolWriter)
    /\ UNCHANGED <<m2p, p2m, minerEof, poolEof, minerWriter, proto, stats, handling, requests,
                   upstream, told, ghosts>>

CleanupDone ==
    /\ run = "closing_pool" /\ poolWriter = "closed"
    /\ run' = "ended"
    /\ UNCHANGED <<m2p, p2m, conns, proto, stats, handling, requests, upstream, told, ghosts>>
-----------------------------------------------------------------------------
(* The two connections.  A close completes when the transport has flushed  *)
(* or given up; the reader of that side then reaches its end.              *)

MinerCloseCompletes ==
    /\ minerWriter = "closing"
    /\ minerWriter' = "closed" /\ minerEof' = TRUE
    /\ UNCHANGED <<tasks, poolEof, poolWriter, proto, stats, handling, requests, upstream, told,
                   ghosts>>

PoolCloseCompletes ==
    /\ poolWriter = "closing"
    /\ poolWriter' = "closed" /\ poolEof' = TRUE
    /\ UNCHANGED <<tasks, minerEof, minerWriter, proto, stats, handling, requests, upstream, told,
                   ghosts>>

\* The miner hangs up, or its transport is aborted by a reload of the pools.
MinerLeaves ==
    /\ ~minerEof
    /\ minerEof' = TRUE
    /\ UNCHANGED <<tasks, poolEof, minerWriter, poolWriter, proto, stats, handling, requests,
                   upstream, told, ghosts>>

PoolLeaves ==
    /\ poolWriter = "open" /\ ~poolEof
    /\ poolEof' = TRUE
    /\ UNCHANGED <<tasks, minerEof, minerWriter, poolWriter, proto, stats, handling, requests,
                   upstream, told, ghosts>>
-----------------------------------------------------------------------------
MinerLine ==
    \E id \in IdsOfNextRequest :
        \/ MinerSubscribes(id)
        \/ \E md \in MinDifficulties \union {None} : MinerAuthorizes(id, md)
        \/ \E job \in JobId : MinerSubmits(id, job)
        \/ MinerSendsOther(id)

PoolLine ==
    \/ \E job \in JobId : PoolNotifies(job)
    \/ \E d \in Difficulties : PoolSetsDifficulty(d)
    \/ \E r \in upstream, ok \in BOOLEAN : PoolAnswers(r, ok)

Insert == InsertDone \/ InsertFails
RunStep == Connect \/ ConnectFails \/ CancelTheOther \/ CleanupMiner \/ CleanupPool \/ CleanupDone

Next ==
    \/ MinerLine \/ MinerEnds \/ MinerLeaves \/ MinerCloseCompletes
    \/ PoolLine \/ PoolEnds \/ PoolLeaves \/ PoolCloseCompletes
    \/ Insert \/ MinerWasClosed
    \/ RunStep

Spec == Init /\ [][Next]_vars

\* The event loop runs what is ready, the database call returns or raises, a
\* transport that is closing gets closed.  Nothing is assumed of the peers.
Fairness ==
    /\ WF_vars(RunStep) /\ WF_vars(MinerEnds) /\ WF_vars(PoolEnds)
    /\ WF_vars(Insert) /\ WF_vars(MinerWasClosed)
    /\ WF_vars(MinerCloseCompletes) /\ WF_vars(PoolCloseCompletes)

FairSpec == Spec /\ Fairness
-----------------------------------------------------------------------------
Serials == 1..MaxRequests

\* Types, and a queue of jobs that never exceeds its size.
TypeOK ==
    /\ run \in {"connecting", "waiting", "cleanup", "closing_miner", "closing_pool", "ended"}
    /\ m2p \in {"idle", "reading", "done", "cancelled"}
    /\ p2m \in {"idle", "reading", "inserting", "closing", "done", "cancelled"}
    /\ minerEof \in BOOLEAN /\ poolEof \in BOOLEAN
    /\ minerWriter \in {"open", "closing", "closed"}
    /\ poolWriter \in {"none", "open", "closing", "closed"}
    /\ subscribeId \in Nat \union {None} /\ extranonce \in BOOLEAN
    /\ minDifficulty \in MinDifficulties \union {None}
    /\ difficulty \in Nat \ {0} /\ told \in Nat \ {0}
    /\ accepted \in Nat /\ rejected \in Nat
    /\ \A id \in DOMAIN pending :
          id \in Nat /\ pending[id] \in [job : JobId, n : Serials, since : SUBSET Nat]
    /\ Len(jobs) <= MaxJobs
    /\ requests \in 0..MaxRequests
    /\ upstream \subseteq [id : Nat, kind : Kinds, n : Serials]
    /\ \A S \in {submits, stored, unstored, forwarded} : S \subseteq Serials
    /\ (handling = None) = (p2m \notin {"inserting", "closing"})

\* While m2p adds submits and p2m takes answers, over an await in the middle of
\* a response, no tracked submit is lost from the books or entered twice: each
\* is either pending or counted (miner_session.py:209, 343, 371-377).
SubmitsAccounted ==
    Cardinality(submits) = accepted + rejected + Cardinality(DOMAIN pending)

\* "Submit responses: Update stats" (miner_session.py:248): what the pool
\* answered to a submit is what the statistics hold for that very submit.
AnsweredSubmitsAreCounted ==
    /\ {[n |-> c.n, ok |-> c.ok] : c \in counted} = verdicts
    /\ accepted = Cardinality({c \in counted : c.ok})
    /\ rejected = Cardinality({c \in counted : ~c.ok})

\* The database gets exactly the accepted shares whose difficulty could be
\* computed, each at most once; one is missing only while its insert runs, or
\* when the insert failed or was cancelled (miner_session.py:379-393).
StoredAreTheAccepted ==
    LET due == {c.n : c \in {d \in counted : d.ok /\ d.scored /\ HasDb}}
        running == IF p2m = "inserting" THEN {handling.share} ELSE {}
    IN  /\ due = stored \union unstored \union running
        /\ stored \intersect unstored = {}
        /\ running \intersect (stored \union unstored) = {}

\* A failing insert or a busy database never costs the miner its answer: while
\* the session runs, every submit the pool answered was answered to the miner,
\* or is about to be (miner_session.py:317-326).
AnswersReachMiner ==
    run = "waiting" /\ minerWriter = "open" =>
        \A v \in verdicts :
            v.n \in forwarded \/ (handling # None /\ handling.answers = v.n)

\* A share is credited, in the statistics and in the database, with a difficulty
\* that the miner was told between the submit and its answer: not with what the
\* pool asked for, nor with what was told before or after; however adjustments
\* cross the miner's subscribe, its authorize, its submits and their answers
\* (miner_session.py:297-315, 369-375, 388).  Only the 1 the statistics start with
\* (stats.py:49) is credited untold: adjustments before the subscribe reach the
\* miner and not the statistics (miner_session.py:269).
CreditedAsTold == \A c \in counted : c.credit \in c.since \union {1}

\* "Sends the higher value between pool difficulty and minimum requested"
\* (README.md:112 of the repository): whenever the miner is told a difficulty.
HigherIsSent == [][told' # told => minDifficulty = None \/ told' >= minDifficulty]_vars

\* The session closes its connections only after both forwarding tasks are
\* over: no task is left to write to them or to change the statistics of a
\* miner that is gone (miner_session.py:123-133).
TasksEndBeforeCleanup ==
    run \notin {"connecting", "waiting"} => Over(m2p) /\ Over(p2m)

Ended ==
    /\ run = "ended" /\ minerWriter = "closed" /\ poolWriter \in {"none", "closed"}

\* When either peer is gone, also in the middle of an insert or of a
\* disconnection, the session ends with both connections closed
\* (miner_session.py:110-133, 427-454).
LostPeerEndsSession == minerEof \/ poolEof ~> Ended

\* A miner below the acceptance rate is disconnected for good: the task that
\* finds it waits for the close of the connection it has just asked for, and
\* the session ends (miner_session.py:411-425).
LowAcceptanceEndsSession ==
    (accepted + rejected > 0 /\ p2m = "reading" /\ LowAcceptance(accepted, rejected))
        \/ p2m = "closing" ~> Ended
=============================================================================

----------------------------- MODULE JobHistory -----------------------------
(***************************************************************************)
(* The job queue together with what the pool has announced to it: which    *)
(* ids, in which order their last announcements came, and the data of the  *)
(* last announcement of each.  The queue's promise (job_queue.py:13-14) is *)
(* stated against this history.                                            *)
(***************************************************************************)
EXTENDS JobQueue

VARIABLES
    announced,  \* ids announced since the queue was last cleared
    newer,      \* pairs <<a, b>>: a's last announcement came after b's
    latest      \* data of the last announcement of each id

hvars == <<jobs, announced, newer, latest>>

HInit ==
    /\ Init
    /\ announced = {}
    /\ newer = {}
    /\ latest \in [JobId -> {NoJob}]

\* id becomes newer than every other announced id, and older than none.
HAddJob(id, data) ==
    /\ AddJob(id, data)
    /\ announced' = announced \union {id}
    /\ newer' = {p \in newer : p[2] # id /\ p[1] # id}
                    \union {<<id, other>> : other \in announced \ {id}}
    /\ latest' = [latest EXCEPT ![id] = data]

HClear ==
    /\ Clear
    /\ announced' = {}
    /\ newer' = {}
    /\ latest' = [id \in JobId |-> NoJob]

HNext == HClear \/ \E id \in JobId, data \in JobData : HAddJob(id, data)

HSpec == HInit /\ [][HNext]_hvars
-----------------------------------------------------------------------------
\* The queue is a bounded sequence of entries, the history is well formed.
TypeOK ==
    /\ jobs \in Seq(Entry)
    /\ Len(jobs) <= MaxSize
    /\ announced \subseteq JobId
    /\ newer \subseteq announced \X announced
    /\ latest \in [JobId -> JobData \union {NoJob}]

\* A job the queue no longer knows was pushed out by MaxSize other jobs, each
\* announced after it: a late submission is unscorable only when that many
\* newer jobs exist (the promise of the class docstring, job_queue.py:13-14).
ForgottenJobsAreOld ==
    \A id \in announced :
        ~Contains(jobs, id) =>
            /\ Len(jobs) = MaxSize
            /\ \A i \in 1..MaxSize : <<jobs[i].id, id>> \in newer

\* The entries are distinct jobs in the order of their last announcements, so
\* that the eviction loop of add_job always drops the longest-unannounced job,
\* also after an id was announced twice (job_queue.py:37-45).
OrderedByAnnouncement ==
    \A i, j \in 1..Len(jobs) :
        i < j => /\ jobs[i].id # jobs[j].id
                 /\ <<jobs[j].id, jobs[i].id>> \in newer

\* get_job answers the data of the last announcement of the id, never that of
\* an earlier job the pool gave the same id, and knows no id that was never
\* announced (job_queue.py:37-40, 58).
LookupIsCurrent ==
    \A id \in JobId :
        GetJob(jobs, id) # NoJob => id \in announced /\ GetJob(jobs, id) = latest[id]
=============================================================================

------------------------------ MODULE JobQueue ------------------------------
(***************************************************************************)
(* The job queue of a miner session (src/core/job_queue.py): an insertion- *)
(* ordered dictionary from job ids to job data that keeps the last MaxSize *)
(* announced jobs, so that a share submitted late for a job can still be   *)
(* scored.  The dictionary is the sequence of its entries, oldest first.   *)
(***************************************************************************)
EXTENDS Naturals, Sequences

CONSTANTS
    JobId,    \* job ids the pool may announce (params[0] of mining.notify)
    JobData,  \* the rest of a mining.notify, as far as it must be told apart
    NoJob,    \* what get_job answers for an unknown id (None)
    MaxSize   \* entries kept: 25 in MinerSession.__init__

ASSUME MaxSizeAssumption == MaxSize \in Nat \ {0}
ASSUME NoJobAssumption == NoJob \notin JobData

VARIABLE jobs \* OrderedDict, oldest entry first

Entry == [id : JobId, data : JobData]
-----------------------------------------------------------------------------
\* Membership (__contains__) and lookup (get_job) by id.
Contains(q, id) == \E i \in 1..Len(q) : q[i].id = id

PositionOf(q, id) == CHOOSE i \in 1..Len(q) : q[i].id = id

GetJob(q, id) == IF Contains(q, id) THEN q[PositionOf(q, id)].data ELSE NoJob

\* Mutants: one entry too many evicted; one entry too many kept; a second
\* announcement that leaves the old data.
EvictedEarly(q) == IF Len(q) >= MaxSize THEN Tail(q) ELSE q
EvictedLate(q) == IF Len(q) > MaxSize + 1 THEN Tail(q) ELSE q
AddedOnce(q, id, data) ==
    IF Contains(q, id) THEN q
    ELSE LET r == Append(q, [id |-> id, data |-> data])
         IN  IF Len(r) > MaxSize THEN Tail(r) ELSE r

\* del self.jobs[job_id], when the id is there.
Without(q, id) ==
    IF Contains(q, id)
    THEN LET p == PositionOf(q, id)
         IN  SubSeq(q, 1, p - 1) \o SubSeq(q, p + 1, Len(q))
    ELSE q

\* The while loop of add_job: popitem(last=False) until MaxSize remain.
Evicted(q) ==
    IF Len(q) > MaxSize THEN SubSeq(q, Len(q) - MaxSize + 1, Len(q)) ELSE q

\* add_job: an id announced again moves to the young end with its new data.
Added(q, id, data) ==
    Evicted(Append(Without(q, id), [id |-> id, data |-> data]))

-----------------------------------------------------------------------------
Init == jobs = << >>

AddJob(id, data) == jobs' = Added(jobs, id, data)

Clear == jobs' = << >>

Next == Clear \/ \E id \in JobId, data \in JobData : AddJob(id, data)

Spec == Init /\ [][Next]_jobs
=============================================================================

----------------------------- MODULE PartsProofs ----------------------------
(***************************************************************************)
(* Proofs about the four components that share no state with another, for  *)
(* every value of their constants: the job queue of a session, the         *)
(* statistics of a miner, the shares a TIDES window counts, and the row of *)
(* a daily reward.  Each part has an invariant of its own.                 *)
(***************************************************************************)
EXTENDS MCParts, SequenceTheorems, SumTheorems, WellFoundedInduction, TLAPS

\* All parts begin at their start.
LEMMA PartsStart == PartsInit => HInit /\ Stats!Init /\ Tides!Init /\ Daily!Init
BY DEF PartsInit

\* A step of the composition is a step of one part, or none, of each.
LEMMA PartsStep ==
    [PartsNext]_<<hvars, svars, tvars, dvars>> =>
        /\ [HNext]_hvars /\ [Stats!Next]_Stats!vars
        /\ [Tides!Next]_Tides!vars /\ [Daily!Next]_Daily!vars
BY DEF PartsNext, svars, tvars, dvars, Stats!vars, Tides!vars, Tides!inputs, Daily!vars

\* Composed as they are, the parts behave as they do alone: what is shown of
\* the job queue (job_queue.py), the statistics (stats.py), the window
\* (tides_queries.py) or the daily reward (app.py) by itself holds of MCParts.
THEOREM PartsAreThemselves ==
    PartsSpec => HSpec /\ Stats!Spec /\ Tides!Spec /\ Daily!Spec
BY PartsStart, PartsStep, PTL DEF PartsSpec, HSpec, Stats!Spec, Tides!Spec, Daily!Spec

-----------------------------------------------------------------------------
(* The job queue.  Its entries were announced, carry the data of the last  *)
(* announcement of their id, and stand in the order of their last          *)
(* announcements; what is not in it is older than everything that is.      *)

\* The queue describes the history: its entries were announced, and carry the
\* data of the last announcement of their id.
EntriesAreCurrent ==
    \A i \in 1..Len(jobs) :
        /\ jobs[i].id \in announced
        /\ jobs[i].data = latest[jobs[i].id]

QueueInv ==
    /\ TypeOK
    /\ EntriesAreCurrent
    /\ OrderedByAnnouncement
    /\ ForgottenJobsAreOld
-----------------------------------------------------------------------------
\* Deleting a contained id removes exactly its entry and keeps the order.
LEMMA WithoutElement ==
    ASSUME NEW q \in Seq(Entry), NEW id \in JobId, Contains(q, id)
    PROVE  /\ PositionOf(q, id) \in 1..Len(q)
           /\ q[PositionOf(q, id)].id = id
           /\ Without(q, id) \in Seq(Entry)
           /\ Len(Without(q, id)) = Len(q) - 1
           /\ \A i \in 1..(Len(q) - 1) :
                 Without(q, id)[i] = IF i < PositionOf(q, id) THEN q[i] ELSE q[i + 1]
<1> DEFINE p == PositionOf(q, id)
           front == SubSeq(q, 1, p - 1)
           back == SubSeq(q, p + 1, Len(q))
<1>1. p \in 1..Len(q) /\ q[p].id = id
  BY DEF PositionOf, Contains
<1>2. Without(q, id) = front \o back
  BY DEF Without
<1>3. front \in Seq(Entry) /\ Len(front) = p - 1
      /\ \A i \in 1..(p - 1) : front[i] = q[i]
  BY <1>1
<1>4. back \in Seq(Entry) /\ Len(back) = Len(q) - p
      /\ \A i \in 1..(Len(q) - p) : back[i] = q[p + i]
  BY <1>1
<1> HIDE DEF front, back, p
<1>5. front \o back \in Seq(Entry) /\ Len(front \o back) = Len(q) - 1
  <2>1. front \o back \in Seq(Entry) /\ Len(front \o back) = Len(front) + Len(back)
    BY <1>3, <1>4, ConcatProperties
  <2> QED BY <1>1, <1>3, <1>4, <2>1
<1>6. ASSUME NEW i \in 1..(Len(q) - 1)
      PROVE  (front \o back)[i] = IF i < p THEN q[i] ELSE q[i + 1]
  <2>1. CASE i < p
    BY <1>1, <1>3, <1>4, <2>1
  <2>2. CASE ~(i < p)
    <3>1. (front \o back)[i] = back[i - (p - 1)]
      BY <1>1, <1>3, <1>4, <2>2
    <3>2. i - (p - 1) \in 1..(Len(q) - p)
      BY <1>1, <2>2
    <3>3. back[i - (p - 1)] = q[p + (i - (p - 1))] /\ p + (i - (p - 1)) = i + 1
      BY <1>1, <1>4, <3>2
    <3> QED BY <2>2, <3>1, <3>3
  <2> QED BY <2>1, <2>2
<1> QED BY <1>1, <1>2, <1>5, <1>6 DEF p

\* Evicting keeps the youngest MaxSize entries, in order.
LEMMA EvictedElement ==
    ASSUME NEW q \in Seq(Entry), Len(q) <= MaxSize + 1
    PROVE  /\ Evicted(q) \in Seq(Entry)
           /\ Len(Evicted(q)) = IF Len(q) = MaxSize + 1 THEN MaxSize ELSE Len(q)
           /\ \A i \in 1..Len(Evicted(q)) :
                 Evicted(q)[i] = IF Len(q) = MaxSize + 1 THEN q[i + 1] ELSE q[i]
<1>1. CASE Len(q) = MaxSize + 1
  <2>1. Evicted(q) = SubSeq(q, 2, MaxSize + 1)
    BY <1>1, MaxSizeAssumption DEF Evicted
  <2>2. Len(SubSeq(q, 2, MaxSize + 1)) = MaxSize
    BY <1>1, MaxSizeAssumption
  <2>3. \A i \in 1..MaxSize : SubSeq(q, 2, MaxSize + 1)[i] = q[i + 1]
    BY <1>1, MaxSizeAssumption
  <2>4. SubSeq(q, 2, MaxSize + 1) \in Seq(Entry)
    BY <1>1, MaxSizeAssumption
  <2> QED BY <1>1, <2>1, <2>2, <2>3, <2>4
<1>2. CASE Len(q) # MaxSize + 1
  BY <1>2, MaxSizeAssumption DEF Evicted
<1> QED BY <1>1, <1>2

\* What add_job does to the entries q of the queue, r being the result: the
\* new entry is the youngest, every other one is an old entry of another id,
\* old entries keep their order, and one is missing only when it was the oldest
\* of those and the queue is full.
NewIsYoungest(q, r, id, data) ==
    /\ Len(r) \in 1..MaxSize
    /\ Len(q) = MaxSize => Len(r) = MaxSize
    /\ r[Len(r)] = [id |-> id, data |-> data]
OthersAreOld(q, r, id) ==
    \A i \in 1..(Len(r) - 1) : \E k \in 1..Len(q) : r[i] = q[k] /\ q[k].id # id
OrderIsKept(q, r) ==
    \A i, j \in 1..(Len(r) - 1) :
        i < j => \E k, l \in 1..Len(q) : k < l /\ r[i] = q[k] /\ r[j] = q[l]
OnlyOldestIsLost(q, r, id) ==
    \A k \in 1..Len(q) :
        \/ q[k].id = id
        \/ \E i \in 1..(Len(r) - 1) : r[i] = q[k]
        \/ /\ Len(r) = MaxSize
           /\ \A i \in 1..(Len(r) - 1) : \E l \in 1..Len(q) : k < l /\ r[i] = q[l]

LEMMA AddedEntries ==
    ASSUME NEW q \in Seq(Entry), Len(q) <= MaxSize,
           \A i, j \in 1..Len(q) : i < j => q[i].id # q[j].id,
           NEW id \in JobId, NEW data \in JobData
    PROVE  /\ Added(q, id, data) \in Seq(Entry)
           /\ NewIsYoungest(q, Added(q, id, data), id, data)
           /\ OthersAreOld(q, Added(q, id, data), id)
           /\ OrderIsKept(q, Added(q, id, data))
           /\ OnlyOldestIsLost(q, Added(q, id, data), id)
<1> DEFINE w == Without(q, id)
           new == [id |-> id, data |-> data]
           full == Append(w, new)
           r == Added(q, id, data)
<1> USE DEF NewIsYoungest, OthersAreOld, OrderIsKept, OnlyOldestIsLost
<1>1. new \in Entry
  BY DEF Entry
<1>2. r = Evicted(full)
  BY DEF Added
<1> HIDE DEF r
<1>3. CASE Contains(q, id)
  <2> DEFINE p == PositionOf(q, id)
  <2>1. /\ p \in 1..Len(q) /\ q[p].id = id
        /\ w \in Seq(Entry) /\ Len(w) = Len(q) - 1
        /\ \A i \in 1..(Len(q) - 1) : w[i] = IF i < p THEN q[i] ELSE q[i + 1]
    BY <1>3, WithoutElement
  <2> HIDE DEF w, new, p
  <2>2. /\ full \in Seq(Entry) /\ Len(full) = Len(q)
        /\ full[Len(q)] = new
        /\ \A i \in 1..(Len(q) - 1) : full[i] = IF i < p THEN q[i] ELSE q[i + 1]
    BY <1>1, <2>1
  <2> HIDE DEF full
  <2>3. r = full
    BY <1>2, <2>2, MaxSizeAssumption DEF Evicted
  <2>4. \A k \in 1..Len(q) : k # p => q[k].id # id
    BY <2>1
  <2>5. \A k \in 1..Len(q) : k # p => \E i \in 1..(Len(r) - 1) : r[i] = q[k]
    <3> SUFFICES ASSUME NEW k \in 1..Len(q), k # p
                 PROVE  \E i \in 1..(Len(r) - 1) : r[i] = q[k]
      OBVIOUS
    <3>1. CASE k < p
      <4>1. k \in 1..(Len(r) - 1) /\ r[k] = q[k]
        BY <2>1, <2>2, <2>3, <3>1
      <4> QED BY <4>1
    <3>2. CASE k > p
      <4>1. k - 1 \in 1..(Len(r) - 1) /\ r[k - 1] = q[(k - 1) + 1] /\ (k - 1) + 1 = k
        BY <2>1, <2>2, <2>3, <3>2
      <4> QED BY <4>1
    <3> QED BY <2>1, <3>1, <3>2
  <2>6. \A i \in 1..(Len(r) - 1) : \E k \in 1..Len(q) : r[i] = q[k] /\ q[k].id # id
    BY <2>1, <2>2, <2>3, <2>4
  <2>7. \A i, j \in 1..(Len(r) - 1) : i < j => \E k, l \in 1..Len(q) :
            k < l /\ r[i] = q[k] /\ r[j] = q[l]
    <3> TAKE i, j \in 1..(Len(r) - 1)
    <3> HAVE i < j
    <3> DEFINE k == IF i < p THEN i ELSE i + 1
               l == IF j < p THEN j ELSE j + 1
    <3>1. k \in 1..Len(q) /\ l \in 1..Len(q) /\ k < l /\ r[i] = q[k] /\ r[j] = q[l]
      BY <2>1, <2>2, <2>3
    <3> QED BY <3>1
  <2>8. Len(r) \in 1..MaxSize /\ Len(r) = Len(q) /\ r[Len(r)] = new /\ r \in Seq(Entry)
    BY <2>1, <2>2, <2>3, MaxSizeAssumption
  <2> QED BY <2>1, <2>5, <2>6, <2>7, <2>8 DEF new, r
<1>4. CASE ~Contains(q, id)
  <2>1. w = q
    BY <1>4 DEF Without
  <2>2. \A k \in 1..Len(q) : q[k].id # id
    BY <1>4 DEF Contains
  <2> HIDE DEF w, new
  <2>3. /\ full \in Seq(Entry) /\ Len(full) = Len(q) + 1
        /\ full[Len(q) + 1] = new
        /\ \A i \in 1..Len(q) : full[i] = q[i]
    BY <1>1, <2>1
  <2> HIDE DEF full
  <2>4. CASE Len(q) = MaxSize
    <3>1. /\ r \in Seq(Entry) /\ Len(r) = MaxSize
          /\ \A i \in 1..MaxSize : r[i] = full[i + 1]
      BY <1>2, <2>3, <2>4, EvictedElement, MaxSizeAssumption
    <3>2. r[Len(r)] = new
      BY <2>3, <2>4, <3>1, MaxSizeAssumption
    <3>3. \A i \in 1..(Len(r) - 1) : r[i] = q[i + 1] /\ i + 1 \in 1..Len(q)
      BY <2>3, <2>4, <3>1, MaxSizeAssumption
    <3>4. \A k \in 1..Len(q) :
             \/ \E i \in 1..(Len(r) - 1) : r[i] = q[k]
             \/ \A i \in 1..(Len(r) - 1) : \E l \in 1..Len(q) : k < l /\ r[i] = q[l]
      <4> TAKE k \in 1..Len(q)
      <4>1. CASE k = 1
        BY <3>3, <4>1
      <4>2. CASE k > 1
        <5>1. k - 1 \in 1..(Len(r) - 1) /\ r[k - 1] = q[k]
          BY <2>4, <3>1, <3>3, <4>2, MaxSizeAssumption
        <5> QED BY <5>1
      <4> QED BY <4>1, <4>2
    <3>5. \A i, j \in 1..(Len(r) - 1) : i < j => \E k, l \in 1..Len(q) :
              k < l /\ r[i] = q[k] /\ r[j] = q[l]
      <4> TAKE i, j \in 1..(Len(r) - 1)
      <4> HAVE i < j
      <4>1. i + 1 \in 1..Len(q) /\ j + 1 \in 1..Len(q) /\ i + 1 < j + 1
            /\ r[i] = q[i + 1] /\ r[j] = q[j + 1]
        BY <3>1, <3>3
      <4> QED BY <4>1
    <3>6. NewIsYoungest(q, r, id, data)
      BY <3>1, <3>2, MaxSizeAssumption DEF new
    <3>7. OthersAreOld(q, r, id)
      BY <2>2, <3>3
    <3>8. OnlyOldestIsLost(q, r, id)
      BY <3>1, <3>4
    <3> QED BY <3>1, <3>5, <3>6, <3>7, <3>8 DEF r
  <2>5. CASE Len(q) < MaxSize
    <3>1. r = full
      BY <1>2, <2>3, <2>5, MaxSizeAssumption DEF Evicted
    <3>2. Len(r) = Len(q) + 1 /\ r[Len(r)] = new /\ \A i \in 1..Len(q) : r[i] = q[i]
      BY <2>3, <3>1
    <3>3. Len(r) - 1 = Len(q) /\ Len(r) \in 1..MaxSize
      BY <2>5, <3>2, MaxSizeAssumption
    <3>4. r \in Seq(Entry)
      BY <2>3, <3>1
    <3>5. NewIsYoungest(q, r, id, data)
      BY <2>5, <3>2, <3>3 DEF new
    <3>6. OthersAreOld(q, r, id)
      BY <2>2, <3>2, <3>3
    <3>7. OrderIsKept(q, r)
      BY <3>2, <3>3
    <3>8. OnlyOldestIsLost(q, r, id)
      BY <3>2, <3>3
    <3> QED BY <3>4, <3>5, <3>6, <3>7, <3>8 DEF r
  <2> QED BY <2>4, <2>5, MaxSizeAssumption
<1> QED BY <1>3, <1>4
-----------------------------------------------------------------------------
LEMMA QueueInvInit == HInit => QueueInv
BY MaxSizeAssumption DEF HInit, Init, QueueInv, TypeOK, EntriesAreCurrent,
    OrderedByAnnouncement, ForgottenJobsAreOld

\* One announcement preserves the inductive invariant.
LEMMA AddJobQueueInv ==
    ASSUME QueueInv, NEW id \in JobId, NEW data \in JobData, HAddJob(id, data)
    PROVE  QueueInv'
<1>1. /\ jobs \in Seq(Entry) /\ Len(jobs) <= MaxSize
      /\ announced \subseteq JobId /\ newer \subseteq announced \X announced
      /\ latest \in [JobId -> JobData \union {NoJob}]
  BY DEF QueueInv, TypeOK
<1>2. /\ jobs' = Added(jobs, id, data)
      /\ announced' = announced \union {id}
      /\ newer' = {p \in newer : p[2] # id /\ p[1] # id}
                      \union {<<id, other>> : other \in announced \ {id}}
      /\ latest' = [latest EXCEPT ![id] = data]
  BY DEF HAddJob, AddJob
<1>3. \A i, j \in 1..Len(jobs) : i < j => /\ jobs[i].id # jobs[j].id
                                          /\ <<jobs[j].id, jobs[i].id>> \in newer
  BY DEF QueueInv, OrderedByAnnouncement
<1>4. /\ jobs' \in Seq(Entry)
      /\ NewIsYoungest(jobs, jobs', id, data)
      /\ OthersAreOld(jobs, jobs', id)
      /\ OrderIsKept(jobs, jobs')
      /\ OnlyOldestIsLost(jobs, jobs', id)
  <2>1. \A i, j \in 1..Len(jobs) : i < j => jobs[i].id # jobs[j].id
    BY <1>3
  <2>2. /\ Added(jobs, id, data) \in Seq(Entry)
        /\ NewIsYoungest(jobs, Added(jobs, id, data), id, data)
        /\ OthersAreOld(jobs, Added(jobs, id, data), id)
        /\ OrderIsKept(jobs, Added(jobs, id, data))
        /\ OnlyOldestIsLost(jobs, Added(jobs, id, data), id)
    BY <1>1, <2>1, AddedEntries
  <2> QED BY <1>2, <2>2
<1> USE DEF NewIsYoungest, OthersAreOld, OrderIsKept, OnlyOldestIsLost
<1>5. \A i \in 1..(Len(jobs') - 1) : \E k \in 1..Len(jobs) :
          jobs'[i] = jobs[k] /\ jobs[k].id # id
  BY <1>4
<1>6. \A i, j \in 1..(Len(jobs') - 1) : i < j => \E k, l \in 1..Len(jobs) :
          k < l /\ jobs'[i] = jobs[k] /\ jobs'[j] = jobs[l]
  BY <1>4
<1>7. \A k \in 1..Len(jobs) :
          \/ jobs[k].id = id
          \/ \E i \in 1..(Len(jobs') - 1) : jobs'[i] = jobs[k]
          \/ /\ Len(jobs') = MaxSize
             /\ \A i \in 1..(Len(jobs') - 1) : \E l \in 1..Len(jobs) :
                   k < l /\ jobs'[i] = jobs[l]
  BY <1>4
<1>8. \A a, b \in JobId : a # id /\ b # id /\ <<a, b>> \in newer => <<a, b>> \in newer'
  BY <1>2
<1>9. \A b \in announced : b # id => <<id, b>> \in newer'
  BY <1>2
<1>10. \A i \in 1..Len(jobs) : jobs[i].id \in announced /\ jobs[i].data = latest[jobs[i].id]
  BY DEF QueueInv, EntriesAreCurrent
<1>11. \A i \in 1..Len(jobs') : i = Len(jobs') \/ i \in 1..(Len(jobs') - 1)
  BY <1>4, MaxSizeAssumption
<1>12. TypeOK'
  <2>1. newer' \subseteq announced' \X announced'
    BY <1>1, <1>2
  <2>2. Len(jobs') <= MaxSize
    BY <1>4, MaxSizeAssumption
  <2> QED BY <1>1, <1>2, <1>4, <2>1, <2>2 DEF TypeOK
<1>13. EntriesAreCurrent'
  <2> SUFFICES ASSUME NEW i \in 1..Len(jobs')
               PROVE  jobs'[i].id \in announced' /\ jobs'[i].data = latest'[jobs'[i].id]
    BY DEF EntriesAreCurrent
  <2>1. CASE i = Len(jobs')
    BY <1>1, <1>2, <1>4, <2>1
  <2>2. CASE i \in 1..(Len(jobs') - 1)
    <3>1. PICK k \in 1..Len(jobs) : jobs'[i] = jobs[k] /\ jobs[k].id # id
      BY <1>5, <2>2
    <3> QED BY <1>1, <1>2, <1>10, <3>1
  <2> QED BY <1>11, <2>1, <2>2
<1>14. OrderedByAnnouncement'
  <2> SUFFICES ASSUME NEW i \in 1..Len(jobs'), NEW j \in 1..Len(jobs'), i < j
               PROVE  /\ jobs'[i].id # jobs'[j].id
                      /\ <<jobs'[j].id, jobs'[i].id>> \in newer'
    BY DEF OrderedByAnnouncement
  <2>1. i \in 1..(Len(jobs') - 1)
    BY <1>4, MaxSizeAssumption
  <2>2. PICK k \in 1..Len(jobs) : jobs'[i] = jobs[k] /\ jobs[k].id # id
    BY <1>5, <2>1
  <2>3. CASE j = Len(jobs')
    <3>1. jobs'[j].id = id
      BY <1>4, <2>3
    <3> QED BY <1>9, <1>10, <2>2, <3>1
  <2>4. CASE j \in 1..(Len(jobs') - 1)
    <3>1. PICK l \in 1..Len(jobs) : jobs'[j] = jobs[l] /\ jobs[l].id # id
      BY <1>5, <2>4
    <3>2. PICK a \in 1..Len(jobs), b \in 1..Len(jobs) :
              a < b /\ jobs'[i] = jobs[a] /\ jobs'[j] = jobs[b]
      BY <1>6, <2>1, <2>4
    <3>3. jobs[a].id # jobs[b].id /\ <<jobs[b].id, jobs[a].id>> \in newer
      BY <1>3, <3>2
    <3>4. jobs[a].id \in JobId /\ jobs[b].id \in JobId
      BY <1>1, <1>10
    <3> QED BY <1>8, <2>2, <3>1, <3>2, <3>3, <3>4
  <2> QED BY <1>11, <2>3, <2>4
<1>15. ForgottenJobsAreOld'
  <2> SUFFICES ASSUME NEW x \in announced', ~Contains(jobs', x)
               PROVE  /\ Len(jobs') = MaxSize
                      /\ \A i \in 1..MaxSize : <<jobs'[i].id, x>> \in newer'
    BY DEF ForgottenJobsAreOld
  <2>1. \A i \in 1..Len(jobs') : jobs'[i].id # x
    BY DEF Contains
  <2>2. x # id /\ x \in announced /\ x \in JobId
    BY <1>1, <1>2, <1>4, <2>1
  <2>3. <<jobs'[Len(jobs')].id, x>> \in newer'
    BY <1>4, <1>9, <2>2
  <2>4. CASE Contains(jobs, x)
    <3>1. PICK k \in 1..Len(jobs) : jobs[k].id = x
      BY <2>4 DEF Contains
    <3>2. /\ Len(jobs') = MaxSize
          /\ \A i \in 1..(Len(jobs') - 1) : \E l \in 1..Len(jobs) :
                k < l /\ jobs'[i] = jobs[l]
      BY <1>7, <1>11, <2>1, <2>2, <3>1
    <3>3. ASSUME NEW i \in 1..(Len(jobs') - 1)
          PROVE  <<jobs'[i].id, x>> \in newer'
      <4>1. PICK l \in 1..Len(jobs) : k < l /\ jobs'[i] = jobs[l]
        BY <3>2
      <4>2. <<jobs[l].id, x>> \in newer
        BY <1>3, <3>1, <4>1
      <4>3. jobs'[i].id # id /\ jobs'[i].id \in JobId
        BY <1>1, <1>5, <1>10
      <4> QED BY <1>8, <2>2, <4>1, <4>2, <4>3
    <3> QED BY <1>11, <2>3, <3>2, <3>3
  <2>5. CASE ~Contains(jobs, x)
    <3>1. Len(jobs) = MaxSize /\ \A i \in 1..MaxSize : <<jobs[i].id, x>> \in newer
      BY <2>2, <2>5 DEF QueueInv, ForgottenJobsAreOld
    <3>2. ASSUME NEW i \in 1..(Len(jobs') - 1)
          PROVE  <<jobs'[i].id, x>> \in newer'
      <4>1. PICK k \in 1..Len(jobs) : jobs'[i] = jobs[k] /\ jobs[k].id # id
        BY <1>5
      <4>2. jobs[k].id \in JobId
        BY <1>1, <1>10
      <4> QED BY <1>8, <2>2, <3>1, <4>1, <4>2
    <3> QED BY <1>4, <1>11, <2>3, <3>1, <3>2
  <2> QED BY <2>4, <2>5
<1> QED BY <1>12, <1>13, <1>14, <1>15 DEF QueueInv

LEMMA QueueInvNext == QueueInv /\ [HNext]_hvars => QueueInv'
<1> SUFFICES ASSUME QueueInv, [HNext]_hvars
             PROVE  QueueInv'
  OBVIOUS
<1>1. CASE HClear
  <2>1. jobs' = << >> /\ announced' = {} /\ newer' = {} /\ latest' = [id \in JobId |-> NoJob]
    BY <1>1 DEF HClear, Clear
  <2> QED BY <2>1, MaxSizeAssumption DEF QueueInv, TypeOK, EntriesAreCurrent,
                OrderedByAnnouncement, ForgottenJobsAreOld
<1>2. CASE \E id \in JobId, data \in JobData : HAddJob(id, data)
  BY <1>2, AddJobQueueInv
<1>3. CASE UNCHANGED hvars
  BY <1>3 DEF hvars, QueueInv, TypeOK, EntriesAreCurrent, OrderedByAnnouncement,
              ForgottenJobsAreOld, Contains
<1> QED BY <1>1, <1>2, <1>3 DEF HNext
-----------------------------------------------------------------------------
\* The inductive invariant holds in every reachable state of the queue.
THEOREM Invariance == HSpec => []QueueInv
<1> QED BY QueueInvInit, QueueInvNext, PTL DEF HSpec

\* The queue stays a sequence of at most MaxSize entries (job_queue.py:42-43).
THEOREM TypeCorrect == HSpec => []TypeOK
<1>1. QueueInv => TypeOK
  BY DEF QueueInv
<1> QED BY <1>1, Invariance, PTL

\* A job is unknown to get_job only after MaxSize distinct jobs were announced
\* after it (the docstring's promise to late submissions, job_queue.py:13-14).
THEOREM LateSubmissions == HSpec => []ForgottenJobsAreOld
<1>1. QueueInv => ForgottenJobsAreOld
  BY DEF QueueInv
<1> QED BY <1>1, Invariance, PTL

\* The queue order is the order of last announcements, so the loop of add_job
\* evicts the job that was not announced for longest (job_queue.py:37-43).
THEOREM EvictionOrder == HSpec => []OrderedByAnnouncement
<1>1. QueueInv => OrderedByAnnouncement
  BY DEF QueueInv
<1> QED BY <1>1, Invariance, PTL

\* get_job never answers with the data of an overwritten announcement
\* (job_queue.py:37-40, 58).
THEOREM CurrentLookup == HSpec => []LookupIsCurrent
<1>1. QueueInv => LookupIsCurrent
  <2> SUFFICES ASSUME QueueInv, NEW id \in JobId, GetJob(jobs, id) # NoJob
               PROVE  id \in announced /\ GetJob(jobs, id) = latest[id]
    BY DEF LookupIsCurrent
  <2>1. Contains(jobs, id)
    BY DEF GetJob
  <2>2. PositionOf(jobs, id) \in 1..Len(jobs) /\ jobs[PositionOf(jobs, id)].id = id
    BY <2>1 DEF Contains, PositionOf
  <2> QED BY <2>1, <2>2 DEF GetJob, QueueInv, EntriesAreCurrent
<1> QED BY <1>1, Invariance, PTL

-----------------------------------------------------------------------------
(* The daily reward.  The invariant follows the only row of a day: it is   *)
(* the row that was inserted, with the changes made in their order, and    *)
(* the changes still to make lead to what was last given.                  *)

\* A row to which fields are given is a row.
LEMMA WithIsRow ==
    ASSUME NEW row \in Daily!Row, NEW given \in Daily!Body
    PROVE  Daily!With(row, given) \in Daily!Row
BY DEF Daily!With, Daily!Row, Daily!Body, Daily!Blank
LEMMA BlankIsRow == Daily!Blank \in Daily!Row
BY DEF Daily!Row, Daily!Blank
-----------------------------------------------------------------------------
\* A change that was asked, and where a request is.
Asked == [given : Daily!Body, upTo : Nat \ {0}]
Held == [pc : {"idle", "look", "write"}, given : Daily!Body \union {NotGiven}, found : BOOLEAN]
\* Requests that are being served.
Busy == {c \in Clients : client[c].pc # "idle"}

\* Types of the daily reward's variables.
DailyTyped ==
    /\ rows \in Seq(Daily!Row)
    /\ arriving \in Seq(Daily!Row)
    /\ lastGiven \in Daily!Row
    /\ changes \in Seq(Asked)
    /\ client \in [Clients -> Held]
    /\ posts \in 0..MaxPosts
    /\ inserts \in Nat

\* What a request holds fits where it is: what is refused is never written.
Sensible(held) ==
    /\ held.pc # "idle" => held.given \in Daily!Body
    /\ held.pc = "write" => ~Daily!Refused(held.given, held.found)
    /\ held.pc = "write" /\ held.found => rows # << >>

\* A change reaches no row that is not there.
AskedOfRows == \A i \in 1..Len(changes) : changes[i].upTo <= Len(rows)

\* A request inserts one row at most, when it ends.
OneInsertEach ==
    /\ IsFiniteSet(Busy)
    /\ inserts + Cardinality(Busy) <= posts

\* The changes asked make last of row, one after the other.
MadeOf(row, asked, last) ==
    \E s \in Seq(Daily!Row) :
        /\ Len(s) = Len(asked) + 1 /\ s[1] = row /\ s[Len(s)] = last
        /\ \A i \in 1..Len(asked) : s[i + 1] = Daily!With(s[i], asked[i].given)

\* Every row was inserted, and the only row of a day is the row inserted with
\* the changes made in the order they were asked.
RowsAreInserts ==
    /\ Len(rows) + Len(arriving) <= inserts
    /\ inserts = 0 => lastGiven = Daily!Blank
    /\ inserts = 1 => /\ Len(rows) + Len(arriving) = 1
                      /\ rows = << >> => arriving[1] = lastGiven
                      /\ rows # << >> => MadeOf(rows[1], changes, lastGiven)

\* The invariant of the daily reward.
DailyInv ==
    /\ DailyTyped
    /\ \A c \in Clients : Sensible(client[c])
    /\ AskedOfRows
    /\ OneInsertEach
    /\ RowsAreInserts

LEMMA DailyInvInit == Daily!Init => DailyInv
<1> SUFFICES ASSUME Daily!Init PROVE DailyInv
  OBVIOUS
<1> USE DEF Daily!Init
<1>1. DailyTyped
  BY BlankIsRow, PartsAssumption DEF DailyTyped, Held, Daily!Idle
<1>2. \A c \in Clients : Sensible(client[c])
  BY DEF Sensible, Daily!Idle
<1>3. OneInsertEach
  <2>1. Busy = {}
    BY DEF Busy, Daily!Idle
  <2> QED BY <2>1, FS_EmptySet DEF OneInsertEach
<1> QED BY <1>1, <1>2, <1>3 DEF DailyInv, AskedOfRows, RowsAreInserts

\* Types follow.
LEMMA DailyInvTypes == DailyInv => Daily!TypeOK
<1> SUFFICES ASSUME DailyInv PROVE Daily!TypeOK
  OBVIOUS
<1> USE DEF DailyInv
<1>1. inserts \in 0..MaxPosts
  <2>1. Cardinality(Busy) \in Nat
    BY FS_CardinalityType DEF OneInsertEach
  <2> QED BY <2>1, PartsAssumption DEF OneInsertEach, DailyTyped
<1>2. \A c \in Clients : /\ client[c].pc \in {"idle", "look", "write"}
                         /\ client[c].pc # "idle" => client[c].given \in Daily!Body
                         /\ client[c].pc = "write" =>
                               ~Daily!Refused(client[c].given, client[c].found)
  BY DEF DailyTyped, Sensible, Held
<1>3. DOMAIN changes = 1..Len(changes)
  BY DEF DailyTyped
<1> QED BY <1>1, <1>2, <1>3 DEF DailyTyped, AskedOfRows, Asked, Daily!TypeOK

\* What is written to each field is there once the changes are made.
LEMMA DailyInvFields == DailyInv => Daily!OnlyGivenFieldsChange
<1> SUFFICES ASSUME DailyInv, inserts <= 1, rows # << >>
             PROVE  Len(rows) = 1 /\ (changes = << >> => rows[1] = lastGiven)
  BY DEF Daily!OnlyGivenFieldsChange
<1>1. Len(rows) = 1 /\ inserts = 1
  <2>1. Len(rows) \in Nat \ {0} /\ Len(arriving) \in Nat /\ inserts \in Nat
    BY EmptySeq DEF DailyInv, DailyTyped
  <2>2. Len(rows) + Len(arriving) <= inserts /\ (inserts = 1 => Len(rows) + Len(arriving) = 1)
    BY DEF DailyInv, RowsAreInserts
  <2> QED BY <2>1, <2>2
<1>2. MadeOf(rows[1], changes, lastGiven)
  BY <1>1 DEF DailyInv, RowsAreInserts
<1> QED BY <1>1, <1>2 DEF MadeOf

\* A request that becomes busy, and one that leaves.
LEMMA BusyGrows ==
    ASSUME DailyInv, NEW c \in Clients, client[c].pc = "idle",
           posts' = posts + 1, inserts' = inserts, Busy' \in SUBSET (Busy \union {c})
    PROVE  OneInsertEach'
<1>1. IsFiniteSet(Busy \union {c}) /\ Cardinality(Busy \union {c}) = Cardinality(Busy) + 1
  BY FS_AddElement DEF DailyInv, OneInsertEach, Busy
<1>2. IsFiniteSet(Busy') /\ Cardinality(Busy') <= Cardinality(Busy \union {c})
  BY <1>1, FS_Subset
<1>3. Cardinality(Busy') \in Nat /\ Cardinality(Busy) \in Nat
  BY <1>2, FS_CardinalityType DEF DailyInv, OneInsertEach
<1> QED BY <1>1, <1>2, <1>3 DEF DailyInv, DailyTyped, OneInsertEach

LEMMA BusyShrinks ==
    ASSUME DailyInv, NEW c \in Busy, posts' = posts, inserts' \in {inserts, inserts + 1},
           Busy' = Busy \ {c}
    PROVE  OneInsertEach'
<1>1. IsFiniteSet(Busy') /\ Cardinality(Busy') = Cardinality(Busy) - 1
  BY FS_RemoveElement DEF DailyInv, OneInsertEach
<1>2. Cardinality(Busy') \in Nat /\ Cardinality(Busy) \in Nat
  BY <1>1, FS_CardinalityType DEF DailyInv, OneInsertEach
<1> QED BY <1>1, <1>2 DEF DailyInv, DailyTyped, OneInsertEach

LEMMA BusyStays ==
    ASSUME DailyInv, posts' = posts, inserts' = inserts, Busy' = Busy
    PROVE  OneInsertEach'
BY DEF DailyInv, OneInsertEach

\* What Become does.
LEMMA BecomeIs ==
    ASSUME DailyInv, NEW c \in Clients, NEW held \in Held, Daily!Become(c, held)
    PROVE  /\ client' \in [Clients -> Held]
           /\ client'[c] = held
           /\ \A d \in Clients \ {c} : client'[d] = client[d]
           /\ held.pc = "idle" => Busy' = Busy \ {c}
           /\ held.pc # "idle" => Busy' = Busy \union {c}
BY DEF DailyInv, DailyTyped, Daily!Become, Busy

\* One lemma for each action: a request comes, looks, fails, updates, inserts.
LEMMA PostInv ==
    ASSUME DailyInv, NEW c \in Clients, NEW given \in Daily!Body, Daily!Post(c, given)
    PROVE  DailyInv'
<1> DEFINE held == [Daily!Idle EXCEPT !.pc = "look", !.given = given]
<1>1. held.pc = "look" /\ held.given = given /\ held \in Held
  BY DEF Daily!Idle, Held
<1> HIDE DEF held
<1>2. Daily!Become(c, held)
  BY DEF Daily!Post, held
<1>3. DailyTyped'
  <2>1. client' \in [Clients -> Held]
    BY <1>1, <1>2, BecomeIs
  <2>2. posts' \in 0..MaxPosts
    BY PartsAssumption DEF Daily!Post, DailyInv, DailyTyped
  <2> QED BY <2>1, <2>2 DEF Daily!Post, DailyInv, DailyTyped
<1>4. \A d \in Clients : Sensible(client[d])'
  BY <1>1, <1>2, BecomeIs DEF Daily!Post, DailyInv, Sensible
<1>5. OneInsertEach'
  BY <1>1, <1>2, BecomeIs, BusyGrows DEF Daily!Post
<1> QED BY <1>3, <1>4, <1>5 DEF Daily!Post, DailyInv, AskedOfRows, RowsAreInserts

LEMMA LookInv ==
    ASSUME DailyInv, NEW c \in Clients, Daily!Look(c)
    PROVE  DailyInv'
<1> DEFINE found == rows # << >>
           going == [client[c] EXCEPT !.pc = "write", !.found = found]
           held == IF Daily!Refused(client[c].given, found) THEN Daily!Idle ELSE going
<1>1. client[c] \in Held /\ client[c].pc = "look" /\ client[c].given \in Daily!Body
  BY DEF DailyInv, DailyTyped, Sensible, Daily!Look
<1>2. /\ going.pc = "write" /\ going.given = client[c].given /\ going.found = found
      /\ going \in Held
  BY <1>1 DEF Held
<1>3. Daily!Idle.pc = "idle" /\ Daily!Idle \in Held
  BY DEF Daily!Idle, Held
<1>4. Daily!Become(c, held)
  BY DEF Daily!Look
<1> HIDE DEF going
<1>5. held \in Held
  BY <1>2, <1>3
<1>6. DailyTyped'
  BY <1>4, <1>5, BecomeIs DEF Daily!Look, DailyInv, DailyTyped
<1> HIDE DEF held
<1>7. \A d \in Clients : Sensible(client[d])'
  <2>1. client'[c] = held /\ \A d \in Clients \ {c} : client'[d] = client[d]
    BY <1>4, <1>5, BecomeIs
  <2>2. held.pc = "write" => held = going /\ ~Daily!Refused(client[c].given, found)
    BY <1>3 DEF held
  <2>3. held.pc # "idle" => held.pc = "write"
    BY <1>2, <1>3 DEF held
  <2>4. Sensible(client[c])'
    BY <1>1, <1>2, <2>1, <2>2, <2>3 DEF Sensible, Daily!Look, found
  <2> QED BY <2>1, <2>4 DEF Daily!Look, DailyInv, Sensible
<1>8. OneInsertEach'
  <2>1. c \in Busy
    BY <1>1 DEF Busy
  <2>2. CASE held.pc = "idle"
    BY <1>4, <1>5, <2>1, <2>2, BecomeIs, BusyShrinks DEF Daily!Look
  <2>3. CASE held.pc # "idle"
    <3>1. Busy' = Busy \union {c}
      BY <1>4, <1>5, <2>3, BecomeIs
    <3>2. Busy' = Busy
      BY <2>1, <3>1
    <3> QED BY <3>2, BusyStays DEF Daily!Look
  <2> QED BY <2>2, <2>3
<1> QED BY <1>6, <1>7, <1>8 DEF Daily!Look, DailyInv, AskedOfRows, RowsAreInserts

\* A request that ends, whatever else its step does.
LEMMA EndsInv ==
    ASSUME DailyInv, NEW c \in Clients, client[c].pc # "idle", Daily!Become(c, Daily!Idle),
           posts' = posts, inserts' \in {inserts, inserts + 1}, rows' = rows
    PROVE  /\ client' \in [Clients -> Held]
           /\ \A d \in Clients : Sensible(client[d])'
           /\ OneInsertEach'
<1>1. Daily!Idle.pc = "idle" /\ Daily!Idle \in Held
  BY DEF Daily!Idle, Held
<1>2. /\ client' \in [Clients -> Held]
      /\ client'[c] = Daily!Idle
      /\ \A d \in Clients \ {c} : client'[d] = client[d]
      /\ Busy' = Busy \ {c}
  BY <1>1, BecomeIs
<1>3. OneInsertEach'
  <2>1. c \in Busy
    BY DEF Busy
  <2> QED BY <1>2, <2>1, BusyShrinks
<1>4. \A d \in Clients : Sensible(client[d])'
  BY <1>1, <1>2 DEF DailyInv, Sensible
<1> QED BY <1>2, <1>3, <1>4

LEMMA PostFailsInv ==
    ASSUME DailyInv, NEW c \in Clients, Daily!PostFails(c)
    PROVE  DailyInv'
<1>1. /\ client' \in [Clients -> Held]
      /\ \A d \in Clients : Sensible(client[d])'
      /\ OneInsertEach'
  BY EndsInv DEF Daily!PostFails
<1> QED BY <1>1 DEF Daily!PostFails, DailyInv, DailyTyped, AskedOfRows, RowsAreInserts

\* One more change asked.
LEMMA MadeOfMore ==
    ASSUME NEW row, NEW asked \in Seq(Asked), NEW last \in Daily!Row, NEW one \in Asked,
           MadeOf(row, asked, last)
    PROVE  MadeOf(row, Append(asked, one), Daily!With(last, one.given))
<1> DEFINE new == Daily!With(last, one.given)
<1>1. new \in Daily!Row
  BY WithIsRow DEF Asked
<1>2. PICK s \in Seq(Daily!Row) :
        /\ Len(s) = Len(asked) + 1 /\ s[1] = row /\ s[Len(s)] = last
        /\ \A i \in 1..Len(asked) : s[i + 1] = Daily!With(s[i], asked[i].given)
  BY DEF MadeOf
<1> DEFINE t == Append(s, new)
           more == Append(asked, one)
<1> HIDE DEF new
<1>3. /\ t \in Seq(Daily!Row) /\ Len(t) = Len(s) + 1 /\ t[Len(s) + 1] = new
      /\ \A i \in 1..Len(s) : t[i] = s[i]
  BY <1>1
<1>4. /\ Len(more) = Len(asked) + 1 /\ more[Len(asked) + 1] = one
      /\ \A i \in 1..Len(asked) : more[i] = asked[i]
  OBVIOUS
<1>5. Len(asked) \in Nat
  OBVIOUS
<1> HIDE DEF t, more
<1>6. t[1] = row /\ Len(t) = Len(more) + 1 /\ t[Len(t)] = new
  BY <1>2, <1>3, <1>4, <1>5
<1>7. ASSUME NEW i \in 1..Len(more)
      PROVE  t[i + 1] = Daily!With(t[i], more[i].given)
  <2>1. CASE i = Len(asked) + 1
    <3>1. t[i + 1] = new /\ t[i] = last /\ more[i] = one
      BY <1>2, <1>3, <1>4, <1>5, <2>1
    <3> QED BY <3>1 DEF new
  <2>2. CASE i # Len(asked) + 1
    <3>1. i \in 1..Len(asked)
      BY <1>4, <1>5, <2>2
    <3>2. t[i + 1] = s[i + 1] /\ t[i] = s[i] /\ more[i] = asked[i]
      BY <1>2, <1>3, <1>4, <1>5, <3>1
    <3> QED BY <1>2, <3>1, <3>2
  <2> QED BY <2>1, <2>2
<1> QED BY <1>3, <1>6, <1>7 DEF MadeOf, new, more

\* The oldest change made.
LEMMA MadeOfLess ==
    ASSUME NEW row, NEW asked \in Seq(Asked), asked # << >>, NEW last, MadeOf(row, asked, last)
    PROVE  MadeOf(Daily!With(row, Head(asked).given), Tail(asked), last)
<1>1. PICK s \in Seq(Daily!Row) :
        /\ Len(s) = Len(asked) + 1 /\ s[1] = row /\ s[Len(s)] = last
        /\ \A i \in 1..Len(asked) : s[i + 1] = Daily!With(s[i], asked[i].given)
  BY DEF MadeOf
<1> DEFINE t == Tail(s)
           less == Tail(asked)
<1>2. Len(asked) \in Nat \ {0}
  BY EmptySeq
<1>3. t \in Seq(Daily!Row) /\ Len(t) = Len(s) - 1 /\ \A i \in 1..Len(t) : t[i] = s[i + 1]
  BY <1>1, <1>2, HeadTailProperties
<1>4. Len(less) = Len(asked) - 1 /\ \A i \in 1..Len(less) : less[i] = asked[i + 1]
  BY <1>2, HeadTailProperties
<1>5. Head(asked) = asked[1]
  BY <1>2
<1> HIDE DEF t, less
<1>6. Len(t) = Len(less) + 1 /\ t[1] = Daily!With(row, Head(asked).given) /\ t[Len(t)] = last
  BY <1>1, <1>2, <1>3, <1>4, <1>5
<1>7. ASSUME NEW i \in 1..Len(less)
      PROVE  t[i + 1] = Daily!With(t[i], less[i].given)
  <2>1. i + 1 \in 1..Len(asked) /\ i \in 1..Len(t) /\ i + 1 \in 1..Len(t)
    BY <1>1, <1>2, <1>3, <1>4
  <2> QED BY <1>1, <1>3, <1>4, <2>1
<1> QED BY <1>3, <1>6, <1>7 DEF MadeOf, less

\* Nothing asked.
LEMMA MadeOfNone == ASSUME NEW row \in Daily!Row PROVE MadeOf(row, << >>, row)
<1> DEFINE s == <<row>>
<1>1. s \in Seq(Daily!Row) /\ Len(s) = 1 /\ s[1] = row
  OBVIOUS
<1>2. Len(<< >>) = 0 /\ Len(s) = Len(<< >>) + 1 /\ s[Len(s)] = row /\ 1..0 = {}
  BY <1>1
<1> HIDE DEF s
<1> QED BY <1>1, <1>2 DEF MadeOf

LEMMA AlterRowInv ==
    ASSUME DailyInv, NEW c \in Clients, Daily!AlterRow(c)
    PROVE  DailyInv'
<1> DEFINE one == [given |-> client[c].given, upTo |-> Len(rows)]
<1>1. /\ client' \in [Clients -> Held]
      /\ \A d \in Clients : Sensible(client[d])'
      /\ OneInsertEach'
  BY EndsInv DEF Daily!AlterRow
<1>2. client[c].given \in Daily!Body /\ rows # << >>
  BY DEF Daily!AlterRow, DailyInv, Sensible
<1>3. Len(rows) \in Nat \ {0}
  BY <1>2, EmptySeq DEF DailyInv, DailyTyped
<1>4. one \in Asked /\ one.given = client[c].given /\ one.upTo = Len(rows)
  BY <1>2, <1>3 DEF Asked
<1>5. changes' = Append(changes, one) /\ lastGiven' = Daily!With(lastGiven, one.given)
  BY DEF Daily!AlterRow
<1>6. changes \in Seq(Asked) /\ lastGiven \in Daily!Row
  BY DEF DailyInv, DailyTyped
<1> HIDE DEF one
<1>7. DailyTyped'
  <2>1. lastGiven' \in Daily!Row
    BY <1>2, <1>4, <1>5, <1>6, WithIsRow
  <2>2. changes' \in Seq(Asked)
    BY <1>4, <1>5, <1>6
  <2> QED BY <1>1, <2>1, <2>2 DEF Daily!AlterRow, DailyInv, DailyTyped
<1>8. AskedOfRows'
  <2> SUFFICES ASSUME NEW i \in 1..Len(changes') PROVE changes'[i].upTo <= Len(rows)
    BY DEF AskedOfRows, Daily!AlterRow
  <2>1. CASE i = Len(changes) + 1
    BY <1>3, <1>4, <1>5, <1>6, <2>1
  <2>2. CASE i # Len(changes) + 1
    <3>1. i \in 1..Len(changes) /\ changes'[i] = changes[i]
      BY <1>5, <1>6, <2>2
    <3> QED BY <3>1 DEF DailyInv, AskedOfRows
  <2> QED BY <2>1, <2>2
<1>9. RowsAreInserts'
  <2>1. Len(rows) + Len(arriving) <= inserts /\ inserts \in Nat /\ Len(arriving) \in Nat
    BY DEF DailyInv, DailyTyped, RowsAreInserts
  <2>2. inserts # 0
    BY <1>3, <2>1
  <2>3. inserts = 1 => MadeOf(rows[1], changes', lastGiven')
    BY <1>2, <1>4, <1>5, <1>6, MadeOfMore DEF DailyInv, RowsAreInserts
  <2> QED BY <1>2, <2>2, <2>3 DEF DailyInv, RowsAreInserts, Daily!AlterRow
<1> QED BY <1>1, <1>7, <1>8, <1>9 DEF DailyInv

LEMMA InsertRowInv ==
    ASSUME DailyInv, NEW c \in Clients, Daily!InsertRow(c)
    PROVE  DailyInv'
<1> DEFINE given == client[c].given
           row == Daily!With(Daily!Blank, given)
<1>1. /\ client' \in [Clients -> Held]
      /\ \A d \in Clients : Sensible(client[d])'
      /\ OneInsertEach'
  BY EndsInv DEF Daily!InsertRow
<1>2. given \in Daily!Body
  BY DEF Daily!InsertRow, DailyInv, Sensible
<1>3. row \in Daily!Row /\ lastGiven' = Daily!With(lastGiven, given) /\ lastGiven' \in Daily!Row
  BY <1>2, WithIsRow, BlankIsRow DEF Daily!InsertRow, DailyInv, DailyTyped
<1>4. arriving' = Append(arriving, row) /\ arriving \in Seq(Daily!Row) /\ inserts' = inserts + 1
  BY DEF Daily!InsertRow, DailyInv, DailyTyped
<1> HIDE DEF row
<1>5. DailyTyped'
  BY <1>1, <1>3, <1>4 DEF Daily!InsertRow, DailyInv, DailyTyped
<1>6. RowsAreInserts'
  <2>1. /\ Len(arriving) \in Nat /\ Len(rows) \in Nat /\ inserts \in Nat
        /\ Len(rows) + Len(arriving) <= inserts
    BY DEF DailyInv, DailyTyped, RowsAreInserts
  <2>2. Len(arriving') = Len(arriving) + 1 /\ rows' = rows
    BY <1>4 DEF Daily!InsertRow
  <2>3. ASSUME inserts' = 1
        PROVE  Len(rows) = 0 /\ Len(arriving) = 0 /\ arriving'[1] = lastGiven'
    <3>1. Len(rows) = 0 /\ Len(arriving) = 0 /\ inserts = 0
      BY <1>4, <2>1, <2>3
    <3>2. lastGiven = Daily!Blank
      BY <3>1 DEF DailyInv, RowsAreInserts
    <3> QED BY <1>3, <1>4, <3>1, <3>2 DEF row
  <2>4. inserts' = 1 => rows' = << >>
    BY <2>2, <2>3, EmptySeq DEF DailyInv, DailyTyped
  <2>5. inserts' # 0 /\ Len(rows') + Len(arriving') <= inserts'
    BY <1>4, <2>1, <2>2
  <2>6. inserts' = 1 => Len(rows') + Len(arriving') = 1
    BY <2>1, <2>2, <2>3
  <2> QED BY <2>3, <2>4, <2>5, <2>6 DEF RowsAreInserts
<1> QED BY <1>1, <1>5, <1>6 DEF Daily!InsertRow, DailyInv, AskedOfRows

LEMMA AskedOnes ==
    DailyInv => \A i \in 1..Len(changes) : changes[i] \in Asked /\ changes[i].upTo \in Nat \ {0}
<1> SUFFICES ASSUME DailyInv, NEW i \in 1..Len(changes)
             PROVE  changes[i] \in Asked /\ changes[i].upTo \in Nat \ {0}
  OBVIOUS
<1>1. changes[i] \in Asked
  BY DEF DailyInv, DailyTyped
<1> QED BY <1>1 DEF Asked

\* The server's own steps: rows arrive, a change is made, rows merge.
LEMMA ArriveInv == DailyInv /\ Daily!Arrive => DailyInv'
<1> SUFFICES ASSUME DailyInv, Daily!Arrive PROVE DailyInv'
  OBVIOUS
<1>1. /\ rows \in Seq(Daily!Row) /\ arriving \in Seq(Daily!Row) /\ changes \in Seq(Asked)
      /\ inserts \in Nat /\ Len(rows) + Len(arriving) <= inserts
  BY DEF DailyInv, DailyTyped, RowsAreInserts
<1>2. Len(arriving) \in Nat \ {0} /\ Len(rows) \in Nat
  BY <1>1, EmptySeq DEF Daily!Arrive
<1>3. /\ rows' \in Seq(Daily!Row) /\ Len(rows') = Len(rows) + Len(arriving)
      /\ \A i \in 1..Len(arriving) : rows'[Len(rows) + i] = arriving[i]
  BY <1>1 DEF Daily!Arrive
<1>4. arriving' = << >> /\ arriving' \in Seq(Daily!Row) /\ Len(arriving') = 0 /\ rows' # << >>
  BY <1>2, <1>3 DEF Daily!Arrive
<1>5. DailyTyped'
  BY <1>3, <1>4 DEF Daily!Arrive, DailyInv, DailyTyped
<1>6. \A d \in Clients : Sensible(client[d])'
  BY <1>4 DEF Daily!Arrive, DailyInv, Sensible
<1>7. AskedOfRows'
  <2>1. \A i \in 1..Len(changes) : changes[i].upTo <= Len(rows) /\ changes[i].upTo \in Nat
    BY AskedOnes DEF DailyInv, AskedOfRows
  <2> QED BY <1>2, <1>3, <2>1 DEF Daily!Arrive, AskedOfRows
<1>8. RowsAreInserts'
  <2>1. ASSUME inserts = 1 PROVE Len(rows') = 1 /\ MadeOf(rows'[1], changes, lastGiven)
    <3>1. Len(rows) = 0 /\ Len(arriving) = 1 /\ rows = << >>
      <4>1. Len(rows) + Len(arriving) <= 1 /\ Len(arriving) \in Nat \ {0} /\ Len(rows) \in Nat
        BY <1>1, <1>2, <2>1
      <4>2. Len(rows) = 0 /\ Len(arriving) = 1
        BY <4>1
      <4> QED BY <1>1, <4>2, EmptySeq
    <3>2. rows'[1] = lastGiven
      BY <1>3, <2>1, <3>1 DEF DailyInv, RowsAreInserts
    <3>3. changes = << >>
      <4>1. \A i \in 1..Len(changes) : changes[i].upTo <= 0 /\ changes[i].upTo \in Nat \ {0}
        BY <3>1, AskedOnes DEF DailyInv, AskedOfRows
      <4>2. 1 \notin 1..Len(changes)
        BY <4>1
      <4> QED BY <1>1, <4>2, EmptySeq
    <3> QED BY <1>1, <1>3, <3>1, <3>2, <3>3, MadeOfNone DEF DailyInv, DailyTyped
  <2>2. Len(rows') + Len(arriving') <= inserts /\ inserts # 0
    BY <1>1, <1>2, <1>3, <1>4
  <2> QED BY <1>4, <2>1, <2>2 DEF RowsAreInserts, Daily!Arrive
<1> QED BY <1>5, <1>6, <1>7, <1>8 DEF Daily!Arrive, DailyInv, OneInsertEach, Busy

LEMMA ChangeInv == DailyInv /\ Daily!Change => DailyInv'
<1> SUFFICES ASSUME DailyInv, Daily!Change PROVE DailyInv'
  OBVIOUS
<1>1. /\ rows \in Seq(Daily!Row) /\ arriving \in Seq(Daily!Row) /\ changes \in Seq(Asked)
      /\ changes # << >> /\ changes' = Tail(changes)
      /\ inserts \in Nat /\ Len(rows) + Len(arriving) <= inserts
  BY DEF DailyInv, DailyTyped, RowsAreInserts, Daily!Change
<1>2. Len(changes) \in Nat \ {0}
  BY <1>1, EmptySeq
<1>3. /\ changes' \in Seq(Asked) /\ Len(changes') = Len(changes) - 1
      /\ \A i \in 1..Len(changes') : changes'[i] = changes[i + 1]
  BY <1>1, <1>2, HeadTailProperties
<1>4. Head(changes) = changes[1] /\ Head(changes).given \in Daily!Body
      /\ Head(changes).upTo \in Nat \ {0} /\ Head(changes).upTo <= Len(rows)
  <2>1. Head(changes) = changes[1] /\ 1 \in 1..Len(changes)
    BY <1>1, <1>2
  <2>2. changes[1] \in Asked
    BY <1>1, <2>1
  <2> QED BY <2>1, <2>2 DEF Asked, DailyInv, AskedOfRows
<1> DEFINE After(i) == IF i <= Head(changes).upTo THEN Daily!With(rows[i], Head(changes).given)
                       ELSE rows[i]
<1>5. rows' = [i \in 1..Len(rows) |-> After(i)]
  BY <1>1 DEF Daily!Change
<1>6. \A i \in 1..Len(rows) : After(i) \in Daily!Row
  BY <1>1, <1>4, WithIsRow
<1> HIDE DEF After
<1>7. rows' \in Seq(Daily!Row) /\ Len(rows') = Len(rows)
      /\ \A i \in 1..Len(rows) : rows'[i] = After(i)
  BY <1>1, <1>5, <1>6, EmptySeq
<1>8. rows # << >> /\ rows' # << >>
  BY <1>1, <1>4, <1>7
<1>9. DailyTyped'
  BY <1>3, <1>7 DEF Daily!Change, DailyInv, DailyTyped
<1>10. \A d \in Clients : Sensible(client[d])'
  BY <1>8 DEF Daily!Change, DailyInv, Sensible
<1>11. AskedOfRows'
  BY <1>3, <1>7, <1>2 DEF DailyInv, AskedOfRows
<1>12. RowsAreInserts'
  <2>1. ASSUME inserts = 1 PROVE MadeOf(rows'[1], changes', lastGiven)
    <3>1. MadeOf(rows[1], changes, lastGiven)
      BY <1>8, <2>1 DEF DailyInv, RowsAreInserts
    <3>2. rows'[1] = Daily!With(rows[1], Head(changes).given)
      BY <1>1, <1>4, <1>7 DEF After
    <3> QED BY <1>1, <3>1, <3>2, MadeOfLess
  <2> QED BY <1>7, <1>8, <2>1 DEF DailyInv, RowsAreInserts, Daily!Change
<1> QED BY <1>9, <1>10, <1>11, <1>12 DEF Daily!Change, DailyInv, OneInsertEach, Busy

LEMMA MergeInv == DailyInv /\ Daily!Merge => DailyInv'
<1> SUFFICES ASSUME DailyInv, Daily!Merge PROVE DailyInv'
  OBVIOUS
<1>1. /\ rows \in Seq(Daily!Row) /\ Len(rows) > 1 /\ Len(arriving) \in Nat
      /\ inserts \in Nat /\ Len(rows) + Len(arriving) <= inserts
  BY DEF DailyInv, DailyTyped, RowsAreInserts, Daily!Merge
<1>2. rows[Len(rows)] \in Daily!Row /\ rows' = <<rows[Len(rows)]>>
  BY <1>1 DEF Daily!Merge
<1>3. rows' \in Seq(Daily!Row) /\ Len(rows') = 1 /\ rows' # << >>
  BY <1>2
<1>4. inserts > 1
  BY <1>1
<1>5. DailyTyped'
  BY <1>3 DEF Daily!Merge, DailyInv, DailyTyped
<1>6. \A d \in Clients : Sensible(client[d])'
  BY <1>3 DEF Daily!Merge, DailyInv, Sensible
<1>7. AskedOfRows'
  BY DEF Daily!Merge, AskedOfRows
<1>8. RowsAreInserts'
  BY <1>1, <1>3, <1>4 DEF Daily!Merge, RowsAreInserts
<1> QED BY <1>5, <1>6, <1>7, <1>8 DEF Daily!Merge, DailyInv, OneInsertEach, Busy

\* No step leads out of the invariant.
LEMMA DailyInvNext == DailyInv /\ [Daily!Next]_Daily!vars => DailyInv'
<1> SUFFICES ASSUME DailyInv, [Daily!Next]_Daily!vars PROVE DailyInv'
  OBVIOUS
<1>1. CASE UNCHANGED Daily!vars
  BY <1>1 DEF Daily!vars, DailyInv, DailyTyped, Sensible, AskedOfRows, OneInsertEach, Busy,
              RowsAreInserts
<1>2. CASE Daily!Next
  <2>1. ASSUME NEW c \in Clients, NEW given \in Daily!Body, Daily!Post(c, given) PROVE DailyInv'
    BY <2>1, PostInv
  <2>2. ASSUME NEW c \in Clients, Daily!Look(c) PROVE DailyInv'
    BY <2>2, LookInv
  <2>3. ASSUME NEW c \in Clients, Daily!AlterRow(c) PROVE DailyInv'
    BY <2>3, AlterRowInv
  <2>4. ASSUME NEW c \in Clients, Daily!InsertRow(c) PROVE DailyInv'
    BY <2>4, InsertRowInv
  <2>5. ASSUME NEW c \in Clients, Daily!PostFails(c) PROVE DailyInv'
    BY <2>5, PostFailsInv
  <2> QED
    BY <1>2, <2>1, <2>2, <2>3, <2>4, <2>5, ArriveInv, ChangeInv, MergeInv DEF Daily!Next
<1> QED BY <1>1, <1>2

\* A request to one day's reward changes the fields it gives and no other, as
\* long as one row was inserted for the day, for any number of clients and
\* requests (app.py:529, update_daily_reward).
THEOREM GivenFieldsOnly == PartsSpec => []OnlyGivenFieldsChange
<1>1. PartsSpec => Daily!Spec
  BY PartsAreThemselves
<1>2. Daily!Spec => []DailyInv
  BY DailyInvInit, DailyInvNext, PTL DEF Daily!Spec
<1>3. DailyInv => OnlyGivenFieldsChange
  BY DailyInvFields DEF OnlyGivenFieldsChange
<1> QED BY <1>1, <1>2, <1>3, PTL
-----------------------------------------------------------------------------
(* The TIDES window.  Rows only become visible, so that what a query did   *)
(* not find may be there for the next; the invariant says before each      *)
(* query what stays true nevertheless: of what is counted, of the shares   *)
(* that were there at the beginning, and of what is still to be reached.   *)

Weight(S) == SumFunctionOnSet(ValueOf, S)
\* Of the shares in V, those on some days.
On(V, days) == {t \in V : DayOf[t] \in days}

\* Shares are numbered and worth something.
LEMMA ShareTypes ==
    /\ \A t \in Shares : t \in Nat /\ DayOf[t] \in Nat /\ ValueOf[t] \in Nat \ {0}
    /\ \A t, v \in Shares : t <= v => DayOf[t] <= DayOf[v]
    /\ \A t, v \in Shares : DayOf[t] < DayOf[v] => t < v
<1>1. \A t \in Shares : t \in Nat /\ DayOf[t] \in Nat /\ ValueOf[t] \in Nat \ {0}
  BY PartsAssumption
<1>2. \A t, v \in Shares : t <= v => DayOf[t] <= DayOf[v]
  BY PartsAssumption
<1>3. ASSUME NEW t \in Shares, NEW v \in Shares, DayOf[t] < DayOf[v] PROVE t < v
  <2>1. v <= t => DayOf[v] <= DayOf[t]
    BY <1>2
  <2> QED BY <1>1, <1>3, <2>1
<1> QED BY <1>1, <1>2, <1>3

\* Weights are sums of natural numbers.
LEMMA WeightNat ==
    ASSUME NEW S \in SUBSET Shares
    PROVE  IsFiniteSet(S) /\ Weight(S) \in Nat
<1>1. IsFiniteSet(S)
  BY PartsAssumption, FS_Subset
<1>2. \A t \in S : ValueOf[t] \in Nat
  BY ShareTypes
<1> QED BY <1>1, <1>2, SumNat DEF Weight

LEMMA WeightMore ==
    ASSUME NEW S \in SUBSET Shares, NEW R \in SUBSET S
    PROVE  Weight(R) <= Weight(S)
<1>1. IsFiniteSet(S) /\ \A t \in S : ValueOf[t] \in Nat
  BY WeightNat, ShareTypes
<1> QED BY <1>1, SumMore DEF Weight

LEMMA WeightJoin ==
    ASSUME NEW S \in SUBSET Shares, NEW R \in SUBSET Shares, S \cap R = {}
    PROVE  Weight(S \union R) = Weight(S) + Weight(R)
<1>1. IsFiniteSet(S) /\ IsFiniteSet(R) /\ \A t \in S \union R : ValueOf[t] \in Int
  BY WeightNat, ShareTypes
<1> QED BY <1>1, SumUnion DEF Weight

LEMMA WeightAnd ==
    ASSUME NEW S \in SUBSET Shares, NEW x \in Shares \ S
    PROVE  Weight(S \union {x}) = Weight(S) + ValueOf[x]
<1>1. IsFiniteSet(S) /\ x \notin S /\ \A t \in S \union {x} : ValueOf[t] \in Int
  BY WeightNat, ShareTypes
<1>2. Weight(S \union {x}) = ValueOf[x] + Weight(S)
  BY <1>1, SumAdd DEF Weight
<1>3. Weight(S) \in Nat /\ ValueOf[x] \in Nat
  BY WeightNat, ShareTypes
<1> QED BY <1>2, <1>3

LEMMA WeightNone == Weight({}) = 0
BY SumEmpty DEF Weight

\* Two sets together are worth no more than both.
LEMMA WeightBoth ==
    ASSUME NEW S \in SUBSET Shares, NEW R \in SUBSET Shares
    PROVE  Weight(S \union R) <= Weight(S) + Weight(R)
<1> DEFINE Q == R \ S
<1>1. Q \in SUBSET Shares /\ Q \in SUBSET R /\ S \cap Q = {} /\ S \union Q = S \union R
  OBVIOUS
<1> HIDE DEF Q
<1>2. Weight(S \union Q) = Weight(S) + Weight(Q) /\ Weight(Q) <= Weight(R)
  BY <1>1, WeightJoin, WeightMore
<1>3. Weight(S) \in Nat /\ Weight(Q) \in Nat /\ Weight(R) \in Nat
  BY <1>1, WeightNat
<1>4. Weight(S \union R) = Weight(S) + Weight(Q)
  BY <1>1, <1>2
<1> HIDE DEF Weight
<1> QED BY <1>2, <1>3, <1>4

\* The first and the last of some shares.
LEMMA FirstExists ==
    ASSUME NEW S \in SUBSET Nat, S # {}
    PROVE  \E x \in S : \A y \in S : x <= y
<1>1. IsWellFoundedOn(OpToRel(<, Nat), Nat)
  BY NatLessThanWellFounded
<1>2. PICK x \in S : \A y \in S : ~(<<y, x>> \in OpToRel(<, Nat))
  BY <1>1, WFMin
<1>3. ASSUME NEW y \in S PROVE x <= y
  <2>1. ~(y < x)
    BY <1>2 DEF OpToRel
  <2> QED BY <2>1
<1> QED BY <1>3

LEMMA LastExists ==
    ASSUME NEW S \in SUBSET Shares, S # {}
    PROVE  \E x \in S : \A y \in S : x >= y
<1> DEFINE Up(x) == {y \in S : y >= x}
           T == {Up(x) : x \in S}
<1>1. IsFiniteSet(S) /\ \A x \in S : x \in Nat
  BY WeightNat, ShareTypes
<1>2. T \in SUBSET SUBSET S /\ T # {}
  OBVIOUS
<1>3. \A U \in T : \E x \in S : U = Up(x)
  OBVIOUS
<1> HIDE DEF T
<1>4. PICK U \in T : \A V \in SUBSET U : V \in T => V = U
  BY <1>1, <1>2, SmallestSet
<1>6. PICK x \in S : U = Up(x)
  BY <1>3
<1>5. ASSUME NEW y \in S PROVE x >= y
  <2>1. SUFFICES ASSUME y > x PROVE FALSE
    BY <1>1
  <2>2. Up(y) \in SUBSET U /\ Up(y) \in T
    BY <1>1, <1>6, <2>1 DEF T
  <2>3. x \in U /\ x \notin Up(y)
    BY <1>1, <1>6, <2>1
  <2> QED BY <1>4, <2>2, <2>3
<1> QED BY <1>5

\* The first of some shares is what Min says.
LEMMA MinIs ==
    ASSUME NEW S \in SUBSET Shares, S # {}
    PROVE  Tides!Min(S) \in S /\ \A y \in S : Tides!Min(S) <= y
<1>1. S \in SUBSET Nat
  BY ShareTypes
<1>2. PICK x \in S : \A y \in S : x <= y
  BY <1>1, FirstExists
<1> QED BY <1>2 DEF Tides!Min

\* What the module adds up.
LEMMA TotalIs == \A S : Tides!Total(S) = Weight(S)
BY DEF Tides!Total, Weight, Tides!SumFunctionOnSet, Tides!FoldFunctionOnSet,
  Tides!MapThenFoldSet, SumFunctionOnSet, FoldFunctionOnSet, MapThenFoldSet

\* Shares taken from the newest on, up to the one that would reach the limit.
LEMMA NewestTaken ==
    ASSUME NEW S \in SUBSET Shares, NEW limit \in Nat, limit > 0
    PROVE  /\ Tides!Taken(S, limit) \subseteq S
           /\ \A t \in Tides!Taken(S, limit) :
                 \A v \in S : t <= v => v \in Tides!Taken(S, limit)
           /\ Weight(Tides!Taken(S, limit)) < limit
           /\ \A x \in S \ Tides!Taken(S, limit) :
                 (\A y \in S \ Tides!Taken(S, limit) : y <= x) =>
                     Weight(Tides!Taken(S, limit)) + ValueOf[x] >= limit
<1> DEFINE T == Tides!Taken(S, limit)
           Up(t) == {v \in S : v >= t}
<1>1. T \subseteq S /\ \A t \in S : t \in T <=> Weight(Up(t)) < limit
  BY TotalIs DEF Tides!Taken
<1>2. \A t \in S : t \in Nat
  BY ShareTypes
<1> HIDE DEF T
<1>3. ASSUME NEW t \in T, NEW v \in S, t <= v PROVE v \in T
  <2>1. Up(v) \in SUBSET Up(t) /\ Up(t) \in SUBSET Shares
    BY <1>1, <1>2, <1>3
  <2>2. Weight(Up(v)) <= Weight(Up(t)) /\ Weight(Up(v)) \in Nat /\ Weight(Up(t)) \in Nat
    BY <2>1, WeightMore, WeightNat
  <2> QED BY <1>1, <2>2
<1>4. Weight(T) < limit
  <2>1. CASE T = {}
    BY <2>1, WeightNone
  <2>2. CASE T # {}
    <3>1. T \in SUBSET Nat
      BY <1>1, <1>2
    <3>2. PICK t \in T : \A v \in T : t <= v
      BY <2>2, <3>1, FirstExists
    <3>3. T = Up(t)
      BY <1>1, <1>2, <1>3, <3>2
    <3> QED BY <1>1, <3>2, <3>3
  <2> QED BY <2>1, <2>2
<1>5. ASSUME NEW x \in S \ T, \A y \in S \ T : y <= x
      PROVE  Weight(T) + ValueOf[x] >= limit
  <2>1. Up(x) = T \union {x}
    <3>1. ASSUME NEW v \in T PROVE v >= x
      BY <1>1, <1>2, <1>3, <3>1
    <3>2. ASSUME NEW v \in S, v >= x PROVE v \in T \union {x}
      BY <1>2, <1>5, <3>2
    <3>3. x \in Up(x)
      BY <1>2
    <3> QED BY <1>1, <3>1, <3>2, <3>3
  <2>2. T \in SUBSET Shares /\ x \in Shares \ T /\ Up(x) \in SUBSET Shares
    BY <1>1
  <2>3. Weight(Up(x)) = Weight(T) + ValueOf[x]
    BY <2>1, <2>2, WeightAnd
  <2>4. ~(Weight(Up(x)) < limit) /\ Weight(Up(x)) \in Nat
    BY <1>1, <2>2, WeightNat
  <2> QED BY <2>3, <2>4
<1> QED BY <1>1, <1>3, <1>4, <1>5 DEF T

\* Of some shares one is the newest that is not taken.
LEMMA NewestLeft ==
    ASSUME NEW S \in SUBSET Shares, NEW limit \in Nat, limit > 0,
           NEW t \in S \ Tides!Taken(S, limit)
    PROVE  \E u \in S : /\ t <= u
                        /\ \A v \in Tides!Taken(S, limit) : u < v
                        /\ Weight(Tides!Taken(S, limit)) + ValueOf[u] >= limit
<1> DEFINE T == Tides!Taken(S, limit)
<1>1. /\ T \subseteq S
      /\ \A x \in T : \A y \in S : x <= y => y \in T
      /\ \A x \in S \ T : (\A y \in S \ T : y <= x) => Weight(T) + ValueOf[x] >= limit
  BY NewestTaken
<1> HIDE DEF T
<1>2. \A x \in S : x \in Nat
  BY ShareTypes
<1>3. S \ T \in SUBSET Shares /\ t \in S \ T
  BY DEF T
<1>4. PICK u \in S \ T : \A y \in S \ T : u >= y
  BY <1>3, LastExists
<1>5. t <= u /\ Weight(T) + ValueOf[u] >= limit
  BY <1>1, <1>2, <1>3, <1>4
<1>6. ASSUME NEW v \in T PROVE u < v
  BY <1>1, <1>2, <1>4
<1> QED BY <1>5, <1>6 DEF T

\* The days looked at that fit are the newest, are within the limit, and one day
\* more is not.
LEMMA DaysFit ==
    ASSUME visible \in SUBSET Shares, NEW D \in SUBSET {DayOf[t] : t \in visible},
           NEW limit \in Nat
    PROVE  /\ Tides!Fitting(D, limit) \subseteq D
           /\ Weight(On(visible, Tides!Fitting(D, limit))) <= limit
           /\ \A first \in D \ Tides!Fitting(D, limit) :
                 (\A d \in D \ Tides!Fitting(D, limit) : d <= first) =>
                    /\ \A e \in Tides!Fitting(D, limit) : first < e
                    /\ Weight(On(visible, Tides!Fitting(D, limit)))
                         + Weight(On(visible, {first})) > limit
<1> DEFINE F == Tides!Fitting(D, limit)
           From(d) == {e \in D : e >= d}
<1>1. F \subseteq D /\ \A d \in D : d \in F <=> Weight(On(visible, From(d))) <= limit
  BY TotalIs DEF Tides!Fitting, Tides!SharesOn, On
<1>2. \A d \in D : d \in Nat
  BY ShareTypes
<1>3. \A days : On(visible, days) \in SUBSET Shares /\ Weight(On(visible, days)) \in Nat
  <2> TAKE days
  <2>1. On(visible, days) \in SUBSET Shares
    BY DEF On
  <2> QED BY <2>1, WeightNat
<1> HIDE DEF F
<1>5. ASSUME NEW d \in F, NEW e \in D, d <= e PROVE e \in F
  <2>1. \A x \in From(e) : x >= d
    BY <1>1, <1>2, <1>5
  <2>2. On(visible, From(e)) \in SUBSET On(visible, From(d))
    BY <2>1 DEF On
  <2>3. Weight(On(visible, From(e))) <= Weight(On(visible, From(d)))
    BY <1>3, <2>2, WeightMore
  <2>4. Weight(On(visible, From(d))) <= limit
    BY <1>1
  <2>5. Weight(On(visible, From(e))) <= limit
    BY <1>3, <2>3, <2>4
  <2> QED BY <1>1, <2>5
<1>6. Weight(On(visible, F)) <= limit
  <2>1. CASE F = {}
    <3>1. On(visible, F) = {}
      BY <2>1 DEF On
    <3> QED BY <3>1, WeightNone
  <2>2. CASE F # {}
    <3>1. F \in SUBSET Nat
      BY <1>1, <1>2
    <3>2. PICK d \in F : \A e \in F : d <= e
      BY <2>2, <3>1, FirstExists
    <3>3. F = From(d)
      BY <1>1, <1>2, <1>5, <3>2
    <3> QED BY <1>1, <3>2, <3>3
  <2> QED BY <2>1, <2>2
<1>7. ASSUME NEW first \in D \ F, \A d \in D \ F : d <= first
      PROVE  /\ \A e \in F : first < e
             /\ Weight(On(visible, F)) + Weight(On(visible, {first})) > limit
  <2>1. ASSUME NEW e \in F PROVE first < e
    <3>1. ~(e <= first)
      BY <1>5, <1>7
    <3> QED BY <1>1, <1>2, <3>1
  <2>2. From(first) = F \union {first}
    <3>1. ASSUME NEW d \in From(first) PROVE d \in F \union {first}
      BY <1>2, <1>7, <3>1
    <3>2. ASSUME NEW d \in F \union {first} PROVE d \in From(first)
      BY <1>1, <1>2, <2>1, <3>2
    <3> QED BY <3>1, <3>2
  <2>3. /\ On(visible, From(first)) = On(visible, F) \union On(visible, {first})
        /\ On(visible, F) \cap On(visible, {first}) = {}
    BY <2>2 DEF On
  <2>4. Weight(On(visible, From(first)))
          = Weight(On(visible, F)) + Weight(On(visible, {first}))
    BY <1>3, <2>3, WeightJoin
  <2>5. ~(Weight(On(visible, From(first))) <= limit)
    BY <1>1, <1>7
  <2> QED BY <1>3, <2>1, <2>4, <2>5
<1> QED BY <1>1, <1>6, <1>7 DEF F

\* Of some days one is the last.
LEMMA LastDay ==
    ASSUME visible \in SUBSET Shares, NEW D \in SUBSET {DayOf[t] : t \in visible}, D # {}
    PROVE  Tides!Max(D) \in D /\ \A d \in D : d <= Tides!Max(D)
<1>1. On(visible, D) \in SUBSET Shares /\ On(visible, D) # {}
  BY DEF On
<1>2. PICK x \in On(visible, D) : \A y \in On(visible, D) : x >= y
  BY <1>1, LastExists
<1>3. ASSUME NEW d \in D PROVE DayOf[x] >= d
  <2>1. PICK y \in visible : d = DayOf[y]
    OBVIOUS
  <2>2. x >= y /\ y \in Shares /\ x \in Shares
    BY <1>1, <1>2, <2>1 DEF On
  <2> QED BY <2>1, <2>2, ShareTypes
<1>4. DayOf[x] \in D
  BY DEF On
<1>5. Tides!Max(D) \in D /\ \A d \in D : Tides!Max(D) >= d
  BY <1>3, <1>4 DEF Tides!Max
<1>6. \A d \in D : d \in Nat
  BY ShareTypes
<1> QED BY <1>5, <1>6
-----------------------------------------------------------------------------
\* Types of the window's variables, with what each query needs to know of them.
TidesTyped ==
    /\ visible \in SUBSET Shares /\ Cardinality(visible) <= MaxLog
    /\ pc \in {"idle", "end_day", "days", "full_days", "start_day", "start_partial",
               "end_partial", "done"}
    /\ kind \in Kinds \union {None}
    /\ from \in Shares \union {None} /\ to \in Shares \union {None}
    /\ known \in SUBSET visible
    /\ remaining \in 0..Target
    /\ included \subseteq Tides!Days
    /\ start \in (Tides!Days \ included) \union {None}
    /\ counted \in [Shares -> Nat]
    /\ pc = "end_day" => remaining = Target

LEMMA TidesTypedIs == TidesTyped => Tides!TypeOK
BY DEF TidesTyped, Tides!TypeOK, Tides!Cardinality, Cardinality

LEMMA NothingTyped == Tides!Nothing \in [Shares -> Nat]
BY DEF Tides!Nothing

LEMMA TidesTypedInit == Tides!Init => TidesTyped
<1> SUFFICES ASSUME Tides!Init PROVE TidesTyped
  OBVIOUS
<1>1. visible \in SUBSET Shares /\ Cardinality(visible) <= MaxLog
  BY FS_EmptySet, PartsAssumption DEF Tides!Init
<1>2. remaining \in 0..Target
  BY PartsAssumption DEF Tides!Init
<1> QED BY <1>1, <1>2, NothingTyped DEF Tides!Init, TidesTyped

\* Counting shares of S.
LEMMA CountOfIs ==
    ASSUME TidesTyped, NEW S
    PROVE  /\ Tides!CountOf(S) \in [Shares -> Nat]
           /\ \A t \in Shares :
                 Tides!CountOf(S)[t] = counted[t] + (IF t \in S THEN 1 ELSE 0)
BY DEF TidesTyped, Tides!CountOf

\* The days looked at are those of shares there are.
LEMMA LookedAt ==
    ASSUME TidesTyped
    PROVE  /\ Tides!DaysToLookAt \in SUBSET {DayOf[t] : t \in visible}
           /\ Tides!DaysToLookAt \subseteq Tides!Days
           /\ \A d \in Tides!DaysToLookAt : d >= FirstDay /\ (kind = "custom" => d < DayOf[to])
           /\ \A t \in visible : DayOf[t] >= FirstDay /\ (kind = "custom" => DayOf[t] < DayOf[to])
                  => DayOf[t] \in Tides!DaysToLookAt
BY DEF TidesTyped, Tides!DaysToLookAt, Tides!Days

\* What _find_included_days finds: the days that fit and the first that does not.
LEMMA DaysFound ==
    ASSUME TidesTyped, Tides!FindIncludedDays
    PROVE  /\ included' \subseteq Tides!DaysToLookAt
           /\ Weight(On(visible, included')) <= remaining
           /\ remaining' = remaining - Weight(On(visible, included'))
           /\ start' = None => included' = Tides!DaysToLookAt
           /\ start' # None =>
                 /\ start' \in Tides!DaysToLookAt \ included'
                 /\ \A d \in Tides!DaysToLookAt \ included' : d <= start'
                 /\ \A e \in included' : start' < e
                 /\ Weight(On(visible, {start'})) > remaining'
<1> DEFINE D == Tides!DaysToLookAt
           F == Tides!Fitting(D, remaining)
           R == D \ F
<1>1. /\ D \in SUBSET {DayOf[t] : t \in visible} /\ visible \in SUBSET Shares
      /\ remaining \in Nat
  BY LookedAt, PartsAssumption DEF TidesTyped
<1>2. /\ included' = F /\ start' = (IF R = {} THEN None ELSE Tides!Max(R))
      /\ remaining' = remaining - Weight(On(visible, F))
  BY TotalIs DEF Tides!FindIncludedDays, Tides!SharesOn, On
<1> HIDE DEF D
<1>3. /\ F \subseteq D /\ Weight(On(visible, F)) <= remaining
      /\ \A first \in R : (\A d \in R : d <= first) =>
            /\ \A e \in F : first < e
            /\ Weight(On(visible, F)) + Weight(On(visible, {first})) > remaining
  BY <1>1, DaysFit
<1> HIDE DEF F
<1>4. \A d \in D : d \in Nat
  BY <1>1, ShareTypes
<1>5. /\ Weight(On(visible, F)) \in Nat
      /\ \A d : Weight(On(visible, {d})) \in Nat
  BY <1>1, WeightNat DEF On
<1>6. ASSUME R # {}
      PROVE  /\ start' \in R /\ \A d \in R : d <= start'
             /\ \A e \in F : start' < e
             /\ Weight(On(visible, {start'})) > remaining'
  <2>1. start' = Tides!Max(R) /\ R \in SUBSET {DayOf[t] : t \in visible}
    BY <1>1, <1>2, <1>6
  <2>2. start' \in R /\ \A d \in R : d <= start'
    BY <1>1, <1>6, <2>1, LastDay
  <2>3. Weight(On(visible, F)) + Weight(On(visible, {start'})) > remaining
    BY <1>3, <2>2
  <2>4. \A w1, w2 \in Nat : w1 + w2 > remaining => w2 > remaining - w1
    BY <1>1
  <2>5. Weight(On(visible, {start'})) > remaining'
    BY <1>2, <1>5, <2>3, <2>4
  <2> QED BY <1>3, <2>2, <2>5
<1>7. start' = None => R = {}
  BY <1>2, <1>4, <1>6, PartsAssumption
<1>8. start' # None => R # {}
  BY <1>2
<1> QED BY <1>2, <1>3, <1>6, <1>7, <1>8 DEF D

LEMMA TidesTypedBegin ==
    ASSUME TidesTyped, NEW which, NEW query, NEW first \in Shares \union {None},
           NEW last \in Shares \union {None}, Tides!Begin(which, query, first, last),
           query \in {"end_day", "days", "start_partial"}
    PROVE  TidesTyped'
<1>1. remaining' = Target /\ Target \in 0..Target
  BY PartsAssumption DEF Tides!Begin
<1>2. visible' = visible /\ which \in Kinds
  BY DEF Tides!Begin
<1> QED BY <1>1, <1>2, NothingTyped DEF Tides!Begin, TidesTyped

LEMMA TidesTypedNext == TidesTyped /\ [Tides!Next]_Tides!vars => TidesTyped'
<1> SUFFICES ASSUME TidesTyped, [Tides!Next]_Tides!vars PROVE TidesTyped'
  OBVIOUS
<1> USE DEF Tides!inputs
<1>1. ASSUME NEW t \in Shares, Tides!ShareAppears(t) PROVE TidesTyped'
  <2>1. Cardinality(visible') <= MaxLog
    <3>1. IsFiniteSet(visible) /\ t \notin visible /\ visible' = visible \union {t}
      BY <1>1, WeightNat DEF TidesTyped, Tides!ShareAppears
    <3>2. Cardinality(visible') = Cardinality(visible) + 1 /\ Cardinality(visible) \in Nat
      BY <3>1, FS_AddElement, FS_CardinalityType
    <3>3. Cardinality(visible) < MaxLog
      BY <1>1 DEF Tides!ShareAppears, Tides!Cardinality, Cardinality
    <3> QED BY <3>2, <3>3, PartsAssumption
  <2> QED BY <1>1, <2>1 DEF TidesTyped, Tides!ShareAppears
<1>2. CASE Tides!CalculateFromShares
  BY <1>2, TidesTypedBegin DEF Tides!CalculateFromShares
<1>3. ASSUME NEW last \in Shares, Tides!CalculateCustom(last) PROVE TidesTyped'
  BY <1>3, TidesTypedBegin DEF Tides!CalculateCustom
<1>4. ASSUME NEW first \in Shares, NEW last \in Shares, Tides!CalculateFromOcean(first, last)
      PROVE  TidesTyped'
  BY <1>4, TidesTypedBegin DEF Tides!CalculateFromOcean
<1>5. CASE Tides!FetchEndDay
  <2> DEFINE S == {t \in Tides!SharesOn({DayOf[to]}) : t <= to}
             T == Tides!Taken(S, remaining)
  <2>1. S \in SUBSET Shares
    BY DEF Tides!SharesOn, TidesTyped
  <2> HIDE DEF S
  <2>2. /\ counted' = Tides!CountOf(T) /\ remaining' = remaining - Weight(T)
        /\ pc = "end_day" /\ pc' = "days"
        /\ UNCHANGED <<visible, kind, from, to, known, included, start>>
    BY <1>5, TotalIs DEF Tides!FetchEndDay, S
  <2>3. remaining \in Nat /\ remaining > 0 /\ remaining <= Target
    BY <2>2, PartsAssumption DEF TidesTyped
  <2>4. T \subseteq S /\ Weight(T) < remaining
    BY <2>1, <2>3, NewestTaken
  <2> HIDE DEF T
  <2>5. Weight(T) \in Nat
    BY <2>1, <2>4, WeightNat
  <2>6. remaining' \in 0..Target
    BY <2>2, <2>3, <2>4, <2>5, PartsAssumption
  <2> QED BY <2>2, <2>6, CountOfIs DEF TidesTyped
<1>6. CASE Tides!FindIncludedDays
  <2>1. /\ included' \subseteq Tides!DaysToLookAt
        /\ Weight(On(visible, included')) <= remaining
        /\ remaining' = remaining - Weight(On(visible, included'))
        /\ start' # None => start' \in Tides!DaysToLookAt \ included'
    BY <1>6, DaysFound
  <2>2. Weight(On(visible, included')) \in Nat
    BY WeightNat DEF On, TidesTyped
  <2>3. remaining' \in 0..Target
    BY <2>1, <2>2, PartsAssumption DEF TidesTyped
  <2>4. included' \subseteq Tides!Days /\ start' \in (Tides!Days \ included') \union {None}
    BY <2>1, LookedAt
  <2>5. UNCHANGED <<visible, kind, from, to, known, counted>> /\ pc' = "full_days"
    BY <1>6 DEF Tides!FindIncludedDays
  <2> QED BY <2>3, <2>4, <2>5 DEF TidesTyped, Tides!Days
<1>7. CASE Tides!FetchFullDays
  BY <1>7, CountOfIs DEF TidesTyped, Tides!FetchFullDays
<1>8. CASE Tides!FetchStartDate
  <2>1. counted' \in [Shares -> Nat]
    BY <1>8, CountOfIs DEF TidesTyped, Tides!FetchStartDate
  <2> QED BY <1>8, <2>1 DEF TidesTyped, Tides!FetchStartDate
<1>9. CASE Tides!FetchPartialStartDay
  BY <1>9, CountOfIs DEF TidesTyped, Tides!FetchPartialStartDay
<1>10. CASE Tides!FetchDaysBetween
  BY <1>10, CountOfIs DEF TidesTyped, Tides!FetchDaysBetween
<1>11. CASE Tides!FetchPartialEndDay
  BY <1>11, CountOfIs DEF TidesTyped, Tides!FetchPartialEndDay
<1>12. CASE Tides!Fails
  <2>1. remaining' \in 0..Target
    BY <1>12, PartsAssumption DEF Tides!Fails
  <2> QED BY <1>12, <2>1, NothingTyped DEF TidesTyped, Tides!Fails
<1>13. CASE UNCHANGED Tides!vars
  BY <1>13 DEF TidesTyped, Tides!vars, Tides!Days
<1> QED BY <1>1, <1>2, <1>3, <1>4, <1>5, <1>6, <1>7, <1>8, <1>9, <1>10, <1>11, <1>12, <1>13
       DEF Tides!Next
-----------------------------------------------------------------------------
\* What holds before each query.

Ends == pc # "idle" =>
    /\ kind = "custom" => to \in Shares
    /\ kind = "ocean" => from \in Shares /\ to \in Shares

\* No share is counted twice, unless both of Ocean's ends are on one day.
Once == (kind = "ocean" => Tides!SpansMidnight) => \A t \in Shares : counted[t] <= 1

\* Of the day of a custom end the newest shares are counted, up to one with which
\* they would reach the target.
OnEndDay == {t \in Tides!Counted : kind = "custom" /\ DayOf[t] = DayOf[to]}
EndReached ==
    \A x \in known \ Tides!Counted :
        kind = "custom" /\ DayOf[x] = DayOf[to] /\ x <= to =>
            \E y \in visible : /\ x <= y /\ DayOf[y] = DayOf[to]
                               /\ \A z \in OnEndDay : y < z
                               /\ Weight(OnEndDay) + ValueOf[y] >= Target

FromEndDay ==
    \A t \in Tides!Counted :
        t \in visible /\ kind = "custom" /\ DayOf[t] = DayOf[to] /\ t <= to

\* The days that fit, and start_date that does not, leave out none of the days
\* there were at the beginning.
DaysLookedAt ==
    /\ \A d \in included : d >= FirstDay /\ (kind = "custom" => d < DayOf[to])
    /\ \A t \in known : DayOf[t] >= FirstDay /\ (kind = "custom" => DayOf[t] < DayOf[to]) =>
          DayOf[t] \in included \/ (start # None /\ DayOf[t] <= start)
    /\ start # None =>
          /\ start >= FirstDay /\ (kind = "custom" => start < DayOf[to])
          /\ \A d \in included : start < d
          /\ Weight(On(visible, {start})) > remaining

AtEndDay == pc = "end_day" => kind = "custom" /\ Tides!Counted = {}
AtDays == pc = "days" =>
    /\ kind # "ocean" /\ FromEndDay /\ EndReached
    /\ Weight(Tides!Counted) + remaining = Target
AtFullDays == pc = "full_days" /\ kind # "ocean" =>
    /\ FromEndDay /\ EndReached /\ DaysLookedAt
    /\ Weight(Tides!Counted \union On(known, included)) + remaining <= Target
    /\ Weight(Tides!Counted) + Weight(On(visible, included)) + remaining >= Target
AtStartDay == pc = "start_day" =>
    /\ kind # "ocean" /\ EndReached /\ DaysLookedAt
    /\ \A t \in Tides!Counted :
          /\ t \in visible
          /\ \/ DayOf[t] \in included
             \/ kind = "custom" /\ DayOf[t] = DayOf[to] /\ t <= to
    /\ On(known, included) \subseteq Tides!Counted
    /\ Weight(Tides!Counted \cap known) + remaining <= Target
    /\ Weight(Tides!Counted) + remaining >= Target
AtDone ==
    /\ Tides!WithinTarget /\ Tides!ReachesTarget
    /\ Tides!Finished("shares") => Tides!NoGap

AtStartPartial == pc = "start_partial" => kind = "ocean" /\ Tides!Counted = {}
AtDaysBetween == pc = "full_days" /\ Tides!SpansMidnight =>
    /\ \A t \in Tides!Counted : DayOf[t] = DayOf[from] /\ from <= t
    /\ \A t \in known : DayOf[t] = DayOf[from] /\ from <= t => t \in Tides!Counted
AtEndPartial == pc = "end_partial" =>
    /\ kind = "ocean"
    /\ Tides!SpansMidnight =>
          /\ \A t \in Tides!Counted : from <= t /\ DayOf[t] < DayOf[to]
          /\ \A t \in known : from <= t /\ DayOf[t] < DayOf[to] => t \in Tides!Counted
AtOceanDone == pc = "done" /\ Tides!SpansMidnight =>
    /\ Tides!Counted \subseteq from..to
    /\ known \cap from..to \subseteq Tides!Counted

Stages ==
    /\ Ends /\ Once
    /\ AtEndDay /\ AtDays /\ AtFullDays /\ AtStartDay /\ AtDone
    /\ AtStartPartial /\ AtDaysBetween /\ AtEndPartial /\ AtOceanDone

TidesInv == TidesTyped /\ Stages

\* What is counted when nothing is, and when shares of S are.
LEMMA CountsNone ==
    /\ \A t \in Shares : Tides!Nothing[t] = 0
    /\ counted = Tides!Nothing => Tides!Counted = {}
    /\ counted' = Tides!Nothing => Tides!Counted' = {}
BY DEF Tides!Nothing, Tides!Counted

LEMMA CountsMore ==
    ASSUME TidesTyped, NEW S \in SUBSET Shares, counted' = Tides!CountOf(S)
    PROVE  /\ Tides!Counted \in SUBSET Shares
           /\ Tides!Counted' = Tides!Counted \union S
           /\ (\A t \in Shares : counted[t] <= 1) /\ S \cap Tides!Counted = {} =>
                 \A t \in Shares : counted'[t] <= 1
<1>1. /\ \A t \in Shares : counted'[t] = counted[t] + (IF t \in S THEN 1 ELSE 0)
      /\ \A t \in Shares : counted[t] \in Nat
  BY CountOfIs DEF TidesTyped
<1> QED BY <1>1 DEF Tides!Counted

\* Nothing is counted at the start and after a failure.
LEMMA StagesIdle ==
    ASSUME TidesTyped', pc' = "idle", counted' = Tides!Nothing
    PROVE  Stages'
<1>1. Once'
  BY CountsNone DEF Once
<1> QED BY <1>1 DEF Stages, Ends, AtEndDay, AtDays, AtFullDays, AtStartDay, AtDone, AtStartPartial,
  AtDaysBetween, AtEndPartial, AtOceanDone, Tides!WithinTarget, Tides!ReachesTarget,
  Tides!Finished

LEMMA TidesInvInit == Tides!Init => TidesInv
<1> SUFFICES ASSUME Tides!Init PROVE TidesInv
  OBVIOUS
<1>1. pc = "idle" /\ counted = Tides!Nothing
  BY DEF Tides!Init
<1>2. Once
  BY <1>1, CountsNone DEF Once
<1>3. Stages
  BY <1>1, <1>2 DEF Stages, Ends, AtEndDay, AtDays, AtFullDays, AtStartDay, AtDone, AtStartPartial,
    AtDaysBetween, AtEndPartial, AtOceanDone, Tides!WithinTarget, Tides!ReachesTarget,
    Tides!Finished
<1> QED BY <1>3, TidesTypedInit DEF TidesInv

\* One more share does no harm: what was found of the shares there were stays
\* true, and those that are weighed from below can only weigh more.
LEMMA StagesAppear ==
    ASSUME TidesInv, NEW t \in Shares, Tides!ShareAppears(t)
    PROVE  Stages'
<1>1. /\ visible \subseteq visible' /\ visible' \in SUBSET Shares
      /\ UNCHANGED <<pc, kind, from, to, known, remaining, included, start, counted>>
  BY DEF TidesInv, TidesTyped, Tides!ShareAppears, Tides!inputs
<1>2. Tides!Counted' = Tides!Counted /\ OnEndDay' = OnEndDay
  BY <1>1 DEF Tides!Counted, OnEndDay
<1>3. \A days : /\ Weight(On(visible, days)) <= Weight(On(visible', days))
                /\ Weight(On(visible, days)) \in Nat /\ Weight(On(visible', days)) \in Nat
  <2> TAKE days
  <2>1. On(visible', days) \in SUBSET Shares /\ On(visible, days) \in SUBSET On(visible', days)
    BY <1>1 DEF On
  <2>2. On(visible, days) \in SUBSET Shares
    BY <2>1
  <2> QED BY <2>1, <2>2, WeightMore, WeightNat
<1>4. EndReached => EndReached'
  BY <1>1, <1>2 DEF EndReached
<1>5. FromEndDay => FromEndDay'
  BY <1>1, <1>2 DEF FromEndDay
<1>6. DaysLookedAt => DaysLookedAt'
  <2> SUFFICES ASSUME DaysLookedAt PROVE DaysLookedAt'
    OBVIOUS
  <2>1. start # None => Weight(On(visible', {start})) > remaining
    <3>1. remaining \in Int
      BY DEF TidesInv, TidesTyped
    <3> QED BY <1>3, <3>1 DEF DaysLookedAt
  <2> QED BY <1>1, <2>1 DEF DaysLookedAt
<1>7. Ends' /\ Once'
  BY <1>1 DEF TidesInv, Stages, Ends, Once, Tides!SpansMidnight
<1>8. AtEndDay' /\ AtDays'
  BY <1>1, <1>2, <1>4, <1>5 DEF TidesInv, Stages, AtEndDay, AtDays
<1>9. AtFullDays'
  <2> SUFFICES ASSUME pc = "full_days", kind # "ocean"
               PROVE  /\ FromEndDay' /\ EndReached' /\ DaysLookedAt'
                      /\ Weight(Tides!Counted \union On(known, included)) + remaining <= Target
                      /\ Weight(Tides!Counted) + Weight(On(visible', included)) + remaining
                           >= Target
    BY <1>1, <1>2 DEF AtFullDays
  <2>1. Tides!Counted \in SUBSET Shares /\ remaining \in Nat /\ Target \in Nat
    BY PartsAssumption DEF Tides!Counted, TidesInv, TidesTyped
  <2>2. Weight(Tides!Counted) \in Nat
    BY <2>1, WeightNat
  <2>3. Weight(Tides!Counted) + Weight(On(visible, included)) + remaining >= Target
    BY DEF TidesInv, Stages, AtFullDays
  <2>4. Weight(Tides!Counted) + Weight(On(visible', included)) + remaining >= Target
    BY <1>3, <2>1, <2>2, <2>3
  <2> QED BY <1>4, <1>5, <1>6, <2>4 DEF TidesInv, Stages, AtFullDays
<1>10. AtStartDay'
  BY <1>1, <1>2, <1>4, <1>6 DEF TidesInv, Stages, AtStartDay
<1>11. AtDone'
  BY <1>1, <1>2 DEF TidesInv, Stages, AtDone, Tides!WithinTarget, Tides!ReachesTarget,
    Tides!Finished, Tides!NoGap
<1>12. AtStartPartial' /\ AtDaysBetween' /\ AtEndPartial' /\ AtOceanDone'
  BY <1>1, <1>2 DEF TidesInv, Stages, AtStartPartial, AtDaysBetween, AtEndPartial, AtOceanDone,
    Tides!SpansMidnight
<1> QED BY <1>7, <1>8, <1>9, <1>10, <1>11, <1>12 DEF Stages

\* A calculation begins with nothing counted and the whole target to reach.
LEMMA StagesBegin ==
    ASSUME NEW which, NEW query, NEW first, NEW last, Tides!Begin(which, query, first, last),
           \/ which = "shares" /\ query = "days"
           \/ which = "custom" /\ query = "end_day" /\ last \in Shares
           \/ which = "ocean" /\ query = "start_partial" /\ first \in Shares /\ last \in Shares
    PROVE  Stages'
<1>1. /\ pc' = query /\ kind' = which /\ from' = first /\ to' = last
      /\ remaining' = Target /\ counted' = Tides!Nothing /\ Tides!Counted' = {}
  BY CountsNone DEF Tides!Begin
<1>2. Ends' /\ Once'
  BY <1>1, CountsNone DEF Ends, Once
<1>3. AtDays'
  <2>1. CASE which = "shares"
    <3>1. Weight(Tides!Counted') + remaining' = Target
      BY <1>1, WeightNone, PartsAssumption
    <3>2. kind' # "custom"
      BY <1>1, <2>1
    <3> QED BY <1>1, <3>1, <3>2 DEF AtDays, FromEndDay, EndReached
  <2>2. CASE which # "shares"
    BY <1>1, <2>2 DEF AtDays
  <2> QED BY <2>1, <2>2
<1>4. AtEndDay' /\ AtFullDays' /\ AtStartDay' /\ AtStartPartial'
  BY <1>1 DEF AtEndDay, AtFullDays, AtStartDay, AtStartPartial
<1>5. AtDone' /\ AtDaysBetween' /\ AtEndPartial' /\ AtOceanDone'
  BY <1>1 DEF AtDone, AtDaysBetween, AtEndPartial, AtOceanDone, Tides!WithinTarget,
    Tides!ReachesTarget, Tides!Finished
<1> QED BY <1>2, <1>3, <1>4, <1>5 DEF Stages

\* Queries leave the ends of the calculation alone.
LEMMA EndsStay ==
    ASSUME TidesInv, pc # "idle", UNCHANGED <<kind, from, to>>
    PROVE  Ends'
BY DEF TidesInv, Stages, Ends

LEMMA StagesEndDay == TidesInv /\ Tides!FetchEndDay => Stages'
<1> SUFFICES ASSUME TidesInv, Tides!FetchEndDay PROVE Stages'
  OBVIOUS
<1> DEFINE S == {t \in Tides!SharesOn({DayOf[to]}) : t <= to}
           T == Tides!Taken(S, remaining)
<1>1. /\ pc = "end_day" /\ kind = "custom" /\ Tides!Counted = {} /\ to \in Shares
      /\ remaining = Target /\ known \subseteq visible /\ visible \in SUBSET Shares
  BY DEF TidesInv, TidesTyped, Stages, AtEndDay, Ends, Tides!FetchEndDay
<1>2. S \in SUBSET Shares
      /\ \A t : t \in S <=> t \in visible /\ DayOf[t] = DayOf[to] /\ t <= to
  BY <1>1 DEF Tides!SharesOn
<1>3. /\ counted' = Tides!CountOf(T) /\ remaining' = remaining - Weight(T) /\ pc' = "days"
      /\ UNCHANGED <<visible, kind, from, to, known, included, start>>
  BY TotalIs DEF Tides!FetchEndDay, Tides!inputs
<1> HIDE DEF S
<1>4. T \in SUBSET S /\ T \in SUBSET Shares
  <2>1. remaining \in Nat /\ remaining > 0 /\ S \in SUBSET Shares
    BY <1>1, <1>2, PartsAssumption
  <2>2. Tides!Taken(S, remaining) \subseteq S
    BY <2>1, NewestTaken
  <2> QED BY <2>1, <2>2
<1>5. \A x \in S \ T : \E u \in S : /\ x <= u /\ \A v \in T : u < v
                                    /\ Weight(T) + ValueOf[u] >= Target
  BY <1>1, <1>2, NewestLeft, PartsAssumption
<1> HIDE DEF T
<1>6. Tides!Counted' = T /\ \A t \in Shares : counted'[t] <= 1
  <2>1. \A t \in Shares : counted[t] <= 1
    BY <1>1 DEF Tides!Counted, TidesInv, TidesTyped
  <2> QED BY <1>1, <1>3, <1>4, <2>1, CountsMore DEF TidesInv
<1>7. Ends' /\ Once'
  BY <1>1, <1>3, <1>6, EndsStay DEF Once
<1>8. FromEndDay'
  BY <1>1, <1>2, <1>3, <1>4, <1>6 DEF FromEndDay
<1>9. EndReached'
  <2>1. OnEndDay' = T
    BY <1>1, <1>2, <1>3, <1>4, <1>6 DEF OnEndDay
  <2>2. ASSUME NEW x \in known \ T, DayOf[x] = DayOf[to], x <= to
        PROVE  \E y \in visible : /\ x <= y /\ DayOf[y] = DayOf[to] /\ \A z \in T : y < z
                                  /\ Weight(T) + ValueOf[y] >= Target
    <3>1. x \in S \ T
      BY <1>1, <1>2, <2>2
    <3> QED BY <1>2, <1>5, <3>1
  <2> QED BY <1>3, <1>6, <2>1, <2>2 DEF EndReached
<1>10. AtDays'
  <2>1. Weight(T) \in Nat
    BY <1>4, WeightNat
  <2>2. Weight(Tides!Counted') + remaining' = Target
    BY <1>1, <1>3, <1>6, <2>1, PartsAssumption
  <2> QED BY <1>1, <1>3, <1>8, <1>9, <2>2 DEF AtDays
<1>11. AtEndDay' /\ AtFullDays' /\ AtStartDay' /\ AtStartPartial'
  BY <1>3 DEF AtEndDay, AtFullDays, AtStartDay, AtStartPartial
<1>12. AtDone' /\ AtDaysBetween' /\ AtEndPartial' /\ AtOceanDone'
  BY <1>3 DEF AtDone, AtDaysBetween, AtEndPartial, AtOceanDone, Tides!WithinTarget,
    Tides!ReachesTarget, Tides!Finished
<1> QED BY <1>7, <1>10, <1>11, <1>12 DEF Stages

LEMMA StagesFindDays == TidesInv /\ Tides!FindIncludedDays => Stages'
<1> SUFFICES ASSUME TidesInv, Tides!FindIncludedDays PROVE Stages'
  OBVIOUS
<1>1. /\ pc = "days" /\ kind # "ocean" /\ FromEndDay /\ EndReached
      /\ Weight(Tides!Counted) + remaining = Target /\ remaining \in Nat
      /\ known \subseteq visible /\ visible \in SUBSET Shares
  BY PartsAssumption DEF TidesInv, TidesTyped, Stages, AtDays, Tides!FindIncludedDays
<1>2. pc' = "full_days" /\ UNCHANGED <<visible, kind, from, to, known, counted>>
  BY DEF Tides!FindIncludedDays, Tides!inputs
<1>3. Tides!Counted' = Tides!Counted /\ OnEndDay' = OnEndDay
  BY <1>2 DEF Tides!Counted, OnEndDay
<1>4. /\ included' \subseteq Tides!DaysToLookAt
      /\ Weight(On(visible, included')) <= remaining
      /\ remaining' = remaining - Weight(On(visible, included'))
      /\ start' = None => included' = Tides!DaysToLookAt
      /\ start' # None =>
            /\ start' \in Tides!DaysToLookAt \ included'
            /\ \A d \in Tides!DaysToLookAt \ included' : d <= start'
            /\ \A e \in included' : start' < e
            /\ Weight(On(visible, {start'})) > remaining'
  BY DaysFound DEF TidesInv
<1>5. /\ \A d \in Tides!DaysToLookAt : d >= FirstDay /\ (kind = "custom" => d < DayOf[to])
      /\ \A t \in visible : DayOf[t] >= FirstDay /\ (kind = "custom" => DayOf[t] < DayOf[to])
             => DayOf[t] \in Tides!DaysToLookAt
  BY LookedAt DEF TidesInv
<1>6. FromEndDay' /\ EndReached'
  BY <1>1, <1>2, <1>3 DEF FromEndDay, EndReached
<1>7. DaysLookedAt'
  <2>1. ASSUME NEW t \in known, DayOf[t] >= FirstDay, kind = "custom" => DayOf[t] < DayOf[to]
        PROVE  DayOf[t] \in included' \/ (start' # None /\ DayOf[t] <= start')
    <3>1. DayOf[t] \in Tides!DaysToLookAt
      BY <1>1, <1>5, <2>1
    <3> QED BY <1>4, <3>1
  <2>2. \A d \in included' : d >= FirstDay /\ (kind = "custom" => d < DayOf[to])
    BY <1>4, <1>5
  <2>3. start' # None =>
          /\ start' >= FirstDay /\ (kind = "custom" => start' < DayOf[to])
          /\ \A d \in included' : start' < d
          /\ Weight(On(visible, {start'})) > remaining'
    BY <1>4, <1>5
  <2> QED BY <1>2, <2>1, <2>2, <2>3 DEF DaysLookedAt
<1>8. /\ Weight(Tides!Counted \union On(known, included')) + remaining' <= Target
      /\ Weight(Tides!Counted) + Weight(On(visible, included')) + remaining' >= Target
  <2>1. /\ Tides!Counted \in SUBSET Shares /\ On(visible, included') \in SUBSET Shares
        /\ On(known, included') \in SUBSET Shares
        /\ On(known, included') \in SUBSET On(visible, included')
    BY <1>1 DEF Tides!Counted, On
  <2>2. /\ Weight(Tides!Counted \union On(known, included'))
             <= Weight(Tides!Counted) + Weight(On(known, included'))
        /\ Weight(On(known, included')) <= Weight(On(visible, included'))
    BY <2>1, WeightBoth, WeightMore
  <2>3. /\ Weight(Tides!Counted) \in Nat /\ Weight(On(known, included')) \in Nat
        /\ Weight(On(visible, included')) \in Nat
        /\ Weight(Tides!Counted \union On(known, included')) \in Nat
    BY <2>1, WeightNat
  <2> QED BY <1>1, <1>4, <2>2, <2>3, PartsAssumption
<1>9. AtFullDays'
  BY <1>1, <1>2, <1>3, <1>6, <1>7, <1>8 DEF AtFullDays
<1>10. Ends' /\ Once'
  BY <1>1, <1>2, EndsStay DEF TidesInv, Stages, Once, Tides!SpansMidnight
<1>11. AtEndDay' /\ AtDays' /\ AtStartDay' /\ AtStartPartial'
  BY <1>2 DEF AtEndDay, AtDays, AtStartDay, AtStartPartial
<1>12. AtDone' /\ AtDaysBetween' /\ AtEndPartial' /\ AtOceanDone'
  BY <1>1, <1>2 DEF AtDone, AtDaysBetween, AtEndPartial, AtOceanDone, Tides!WithinTarget,
    Tides!ReachesTarget, Tides!Finished, Tides!SpansMidnight
<1> QED BY <1>9, <1>10, <1>11, <1>12 DEF Stages

LEMMA StagesFullDays == TidesInv /\ Tides!FetchFullDays => Stages'
<1> SUFFICES ASSUME TidesInv, Tides!FetchFullDays PROVE Stages'
  OBVIOUS
<1> DEFINE S == On(visible, included)
<1>1. /\ pc = "full_days" /\ kind # "ocean" /\ FromEndDay /\ EndReached /\ DaysLookedAt
      /\ Weight(Tides!Counted \union On(known, included)) + remaining <= Target
      /\ Weight(Tides!Counted) + Weight(S) + remaining >= Target
      /\ known \subseteq visible /\ visible \in SUBSET Shares /\ remaining \in Nat
      /\ \A t \in Shares : counted[t] <= 1
      /\ kind = "custom" => to \in Shares
  BY PartsAssumption DEF TidesInv, TidesTyped, Stages, AtFullDays, Once, Ends,
    Tides!FetchFullDays
<1>2. /\ counted' = Tides!CountOf(S) /\ pc' = "start_day"
      /\ UNCHANGED <<visible, kind, from, to, known, remaining, included, start>>
  BY DEF Tides!FetchFullDays, Tides!inputs, Tides!SharesOn, On
<1>3. S \in SUBSET Shares /\ \A t \in S : t \in visible /\ DayOf[t] \in included
  BY <1>1 DEF On
<1>4. \A t \in S : kind = "custom" => DayOf[t] # DayOf[to]
  BY <1>1, <1>3, ShareTypes DEF DaysLookedAt
<1>5. On(known, included) \subseteq S
  BY <1>1 DEF On
<1>6. S \cap Tides!Counted = {}
  BY <1>1, <1>4 DEF FromEndDay
<1> HIDE DEF S
<1>7. /\ Tides!Counted \in SUBSET Shares /\ Tides!Counted' = Tides!Counted \union S
      /\ \A t \in Shares : counted'[t] <= 1
  BY <1>1, <1>2, <1>3, <1>6, CountsMore DEF TidesInv
<1>8. OnEndDay' = OnEndDay
  BY <1>2, <1>4, <1>7 DEF OnEndDay
<1>9. EndReached'
  BY <1>1, <1>2, <1>7, <1>8 DEF EndReached
<1>10. DaysLookedAt'
  BY <1>1, <1>2 DEF DaysLookedAt
<1>11. Weight(Tides!Counted' \cap known) + remaining <= Target
  <2> DEFINE R == Tides!Counted \union On(known, included)
             Q == Tides!Counted' \cap known
  <2>1. R \in SUBSET Shares /\ Q \in SUBSET R
    <3>1. \A t \in S \cap known : t \in On(known, included)
      BY <1>3 DEF On
    <3> QED BY <1>3, <1>5, <1>7, <3>1
  <2>2. Q \in SUBSET Shares
    BY <2>1
  <2> HIDE DEF R, Q
  <2>3. Weight(Q) <= Weight(R) /\ Weight(R) \in Nat /\ Weight(Q) \in Nat
    BY <2>1, <2>2, WeightMore, WeightNat
  <2>4. Weight(R) + remaining <= Target
    BY <1>1 DEF R
  <2>5. Weight(Q) + remaining <= Target
    BY <1>1, <2>3, <2>4, PartsAssumption
  <2> QED BY <2>5 DEF Q
<1>12. Weight(Tides!Counted') + remaining >= Target
  <2>1. Weight(Tides!Counted \union S) = Weight(Tides!Counted) + Weight(S)
    BY <1>3, <1>6, <1>7, WeightJoin
  <2> QED BY <1>1, <1>7, <2>1
<1>13. AtStartDay'
  <2>1. \A t \in Tides!Counted' :
          /\ t \in visible
          /\ \/ DayOf[t] \in included
             \/ kind = "custom" /\ DayOf[t] = DayOf[to] /\ t <= to
    BY <1>1, <1>3, <1>7 DEF FromEndDay
  <2>2. On(known, included) \subseteq Tides!Counted'
    BY <1>5, <1>7
  <2> QED BY <1>1, <1>2, <1>9, <1>10, <1>11, <1>12, <2>1, <2>2 DEF AtStartDay
<1>14. Ends' /\ Once'
  BY <1>1, <1>2, <1>7, EndsStay DEF Once
<1>15. AtEndDay' /\ AtDays' /\ AtFullDays' /\ AtStartPartial'
  BY <1>2 DEF AtEndDay, AtDays, AtFullDays, AtStartPartial
<1>16. AtDone' /\ AtDaysBetween' /\ AtEndPartial' /\ AtOceanDone'
  BY <1>2 DEF AtDone, AtDaysBetween, AtEndPartial, AtOceanDone, Tides!WithinTarget,
    Tides!ReachesTarget, Tides!Finished
<1> QED BY <1>13, <1>14, <1>15, <1>16 DEF Stages

\* What _fetch_start_date_data takes of start_date: what remains or less, and
\* with the next share no less; something of the day is left.
LEMMA StartTaken ==
    ASSUME visible \in SUBSET Shares, remaining \in Nat,
           NEW T, T = IF start = None \/ remaining <= 0 THEN {}
                      ELSE Tides!Taken(On(visible, {start}), remaining),
           start # None => Weight(On(visible, {start})) > remaining
    PROVE  /\ T \in SUBSET Shares /\ T \subseteq On(visible, {start})
           /\ start = None => T = {}
           /\ \A t \in T : \A v \in On(visible, {start}) : t <= v => v \in T
           /\ Weight(T) <= remaining
           /\ start # None =>
                 /\ \E t \in On(visible, {start}) : t \notin T
                 /\ \A t \in On(visible, {start}) \ T :
                       \E u \in On(visible, {start}) :
                           t <= u /\ (\A v \in T : u < v) /\ Weight(T) + ValueOf[u] >= remaining
<1> DEFINE S == On(visible, {start})
<1>1. S \in SUBSET Shares
  BY DEF On
<1> HIDE DEF S
<1>2. CASE start = None \/ remaining <= 0
  <2>1. T = {} /\ Weight(T) = 0
    BY <1>2, WeightNone
  <2>2. start # None => remaining = 0 /\ Weight(S) > 0
    BY <1>2 DEF S
  <2>3. start # None => S # {}
    BY <2>2, WeightNone
  <2>4. \A t \in S : t <= t /\ ValueOf[t] >= 0
    BY <1>1, ShareTypes
  <2>5. start # None => \A t \in S : Weight(T) + ValueOf[t] >= remaining
    BY <1>1, <2>1, <2>2, ShareTypes
  <2> QED BY <2>1, <2>3, <2>4, <2>5 DEF S
<1>3. CASE start # None /\ remaining > 0
  <2>1. T = Tides!Taken(S, remaining)
    BY <1>3 DEF S
  <2>2. /\ T \subseteq S /\ \A t \in T : \A v \in S : t <= v => v \in T
        /\ Weight(T) < remaining
    BY <1>1, <1>3, <2>1, NewestTaken
  <2>3. ASSUME NEW t \in S \ T
        PROVE  \E u \in S : t <= u /\ (\A v \in T : u < v) /\ Weight(T) + ValueOf[u] >= remaining
    BY <1>1, <1>3, <2>1, <2>3, NewestLeft
  <2>4. T # S /\ Weight(T) <= remaining
    <3>1. Weight(T) \in Nat /\ Weight(S) \in Nat /\ Weight(S) > remaining
      BY <1>1, <1>3, <2>2, WeightNat DEF S
    <3>2. Weight(T) # Weight(S) /\ Weight(T) <= remaining
      BY <2>2, <3>1
    <3> QED BY <3>2
  <2>5. \E t \in S : t \notin T
    BY <2>2, <2>4
  <2> QED BY <1>1, <1>3, <2>2, <2>3, <2>4, <2>5 DEF S
<1>4. remaining <= 0 \/ remaining > 0
  OBVIOUS
<1> QED BY <1>2, <1>3, <1>4, Zenon

LEMMA StagesStartDate == TidesInv /\ Tides!FetchStartDate => Stages'
<1> SUFFICES ASSUME TidesInv, Tides!FetchStartDate PROVE Stages'
  OBVIOUS
<1> DEFINE S == On(visible, {start})
           T == IF start = None \/ remaining <= 0 THEN {} ELSE Tides!Taken(S, remaining)
           C == Tides!Counted
<1>1. /\ pc = "start_day" /\ kind # "ocean" /\ EndReached /\ DaysLookedAt
      /\ \A t \in C :
            /\ t \in visible
            /\ \/ DayOf[t] \in included
               \/ kind = "custom" /\ DayOf[t] = DayOf[to] /\ t <= to
      /\ On(known, included) \subseteq C
      /\ Weight(C \cap known) + remaining <= Target
      /\ Weight(C) + remaining >= Target
  BY DEF TidesInv, Stages, AtStartDay, Tides!FetchStartDate
<1>2. /\ known \subseteq visible /\ visible \in SUBSET Shares /\ remaining \in Nat
      /\ \A t \in Shares : counted[t] <= 1
      /\ kind = "custom" => to \in Shares
      /\ start # None => start \in Tides!Days
      /\ C \in SUBSET Shares
  BY <1>1, PartsAssumption DEF TidesInv, TidesTyped, Stages, Once, Ends, Tides!Counted
<1>3. pc' = "done" /\ UNCHANGED <<visible, kind, from, to, known>>
  BY DEF Tides!FetchStartDate, Tides!inputs
<1>4. /\ T \in SUBSET Shares /\ T \subseteq S
      /\ start = None => T = {}
      /\ \A t \in T : \A v \in S : t <= v => v \in T
      /\ Weight(T) <= remaining
      /\ start # None =>
            /\ \E t \in S : t \notin T
            /\ \A t \in S \ T :
                  \E u \in S :
                      t <= u /\ (\A v \in T : u < v) /\ Weight(T) + ValueOf[u] >= remaining
  BY <1>1, <1>2, StartTaken DEF DaysLookedAt
<1>5. counted' = IF start = None \/ remaining <= 0 THEN counted ELSE Tides!CountOf(T)
  BY DEF Tides!FetchStartDate, Tides!SharesOn, On
<1>6. start = None \/ remaining <= 0 => T = {}
  OBVIOUS
<1>7. \A t \in S : t \in visible /\ t \in Shares /\ DayOf[t] = start
  BY <1>2 DEF On
<1>8. \A t \in visible : DayOf[t] = start => t \in S
  BY DEF On
<1> HIDE DEF S, T
<1>9. \A u \in S : start # None => \A v \in C : u < v
  <2> SUFFICES ASSUME NEW u \in S, start # None, NEW v \in C PROVE u < v
    OBVIOUS
  <2>1. v \in Shares /\ DayOf[u] < DayOf[v]
    BY <1>1, <1>2, <1>7 DEF DaysLookedAt
  <2> QED BY <1>7, <2>1, ShareTypes
<1>10. T \cap C = {}
  <2> SUFFICES ASSUME NEW t \in T, t \in C PROVE FALSE
    OBVIOUS
  <2>1. t \in S /\ start # None /\ t \in Nat
    BY <1>4, <1>7, ShareTypes
  <2> QED BY <1>9, <2>1
<1>11. Tides!Counted' = C \union T /\ \A t \in Shares : counted'[t] <= 1
  <2>1. CASE start = None \/ remaining <= 0
    <3>1. counted' = counted /\ T = {}
      BY <1>5, <1>6, <2>1
    <3>2. Tides!Counted' = C
      BY <3>1 DEF Tides!Counted
    <3> QED BY <1>2, <3>1, <3>2
  <2>2. CASE ~(start = None \/ remaining <= 0)
    BY <1>2, <1>4, <1>5, <1>10, <2>2, CountsMore DEF TidesInv
  <2> QED BY <2>1, <2>2
<1> HIDE DEF C
<1>12. Weight(C \union T) = Weight(C) + Weight(T)
  BY <1>2, <1>4, <1>10, WeightJoin
<1>13. Tides!WithinTarget'
  <2> DEFINE Q == (C \union T) \cap known
             K == C \cap known
  <2>1. Q \in SUBSET (K \union T) /\ K \in SUBSET Shares /\ Q \in SUBSET Shares
        /\ K \union T \in SUBSET Shares
    BY <1>2, <1>4
  <2>2. Weight(K) + remaining <= Target
    BY <1>1
  <2> HIDE DEF Q, K
  <2>3. Weight(Q) <= Weight(K \union T) /\ Weight(K \union T) <= Weight(K) + Weight(T)
    BY <1>4, <2>1, WeightMore, WeightBoth
  <2>4. /\ Weight(Q) \in Nat /\ Weight(K) \in Nat /\ Weight(T) \in Nat
        /\ Weight(K \union T) \in Nat
    BY <1>4, <2>1, WeightNat
  <2>5. Weight(Q) <= Target
    BY <1>2, <1>4, <2>2, <2>3, <2>4, PartsAssumption
  <2>6. Tides!Counted' \cap known' = Q
    BY <1>3, <1>11 DEF Q
  <2> QED BY <2>5, <2>6, TotalIs DEF Tides!WithinTarget
<1>14. Tides!ReachesTarget'
  <2> DEFINE m == Tides!Min(C \union T)
  <2>1. SUFFICES ASSUME C \union T # {}, NEW t \in known, t < m, DayOf[t] >= FirstDay
                 PROVE  \E u \in visible : /\ t <= u /\ u < m
                                           /\ Weight(C \union T) + ValueOf[u] >= Target
    BY <1>3, <1>11, TotalIs DEF Tides!ReachesTarget
  <2>2. m \in C \union T /\ \A y \in C \union T : m <= y
    BY <1>2, <1>4, <2>1, MinIs
  <2> HIDE DEF m
  <2>3. /\ t \in Shares /\ t \in Nat /\ DayOf[t] \in Nat /\ t \in visible
        /\ m \in Shares /\ m \in Nat /\ DayOf[m] \in Nat
    BY <1>2, <1>4, <2>2, ShareTypes
  <2>4. t \notin C \union T
    BY <2>1, <2>2, <2>3
  <2>5. DayOf[t] <= DayOf[m]
    BY <2>1, <2>3, ShareTypes
  <2>6. CASE kind = "custom" /\ DayOf[t] >= DayOf[to]
    <3>1. to \in Shares /\ to \in Nat /\ DayOf[to] \in Nat
      BY <1>2, <2>6, ShareTypes
    <3>2. ASSUME NEW z \in C \union T, DayOf[z] >= DayOf[to]
          PROVE  z \in C /\ DayOf[z] = DayOf[to] /\ z <= to
      <4>1. CASE z \in T
        <5>1. DayOf[z] = start /\ start # None
          BY <1>4, <1>7, <4>1
        <5>2. start < DayOf[to] /\ start \in Nat
          BY <1>1, <1>4, <1>7, <2>6, <4>1, <5>1, ShareTypes DEF DaysLookedAt
        <5> QED BY <3>1, <3>2, <5>1, <5>2
      <4>2. CASE z \in C
        <5>1. DayOf[z] \notin included
          <6>1. DayOf[z] \in Nat
            BY <1>2, <4>2, ShareTypes
          <6> QED BY <1>1, <2>6, <3>1, <3>2, <6>1 DEF DaysLookedAt
        <5> QED BY <1>1, <4>2, <5>1
      <4> QED BY <4>1, <4>2
    <3>3. m \in C /\ DayOf[m] = DayOf[to] /\ m <= to
      BY <2>2, <2>3, <2>5, <2>6, <3>1, <3>2
    <3>4. DayOf[t] = DayOf[to] /\ t <= to
      BY <2>1, <2>3, <2>5, <2>6, <3>1, <3>3
    <3>5. \A z \in C \union T : z \in C /\ DayOf[z] = DayOf[to]
      <4> SUFFICES ASSUME NEW z \in C \union T PROVE z \in C /\ DayOf[z] = DayOf[to]
        OBVIOUS
      <4>1. z \in Shares /\ m <= z /\ DayOf[z] \in Nat
        BY <1>2, <1>4, <2>2, ShareTypes
      <4>2. DayOf[z] >= DayOf[to]
        BY <2>3, <3>1, <3>3, <4>1, ShareTypes
      <4> QED BY <3>2, <4>2
    <3>6. OnEndDay = C \union T
      BY <2>6, <3>5 DEF OnEndDay, C
    <3>7. PICK y \in visible : /\ t <= y /\ \A z \in OnEndDay : y < z
                               /\ Weight(OnEndDay) + ValueOf[y] >= Target
      BY <1>1, <2>4, <2>6, <3>4 DEF EndReached, C
    <3> QED BY <2>2, <3>6, <3>7
  <2>7. CASE ~(kind = "custom" /\ DayOf[t] >= DayOf[to])
    <3>1. ASSUME kind = "custom" PROVE DayOf[t] < DayOf[to]
      <4>1. DayOf[to] \in Nat
        BY <1>2, <3>1, ShareTypes
      <4> QED BY <2>3, <2>7, <3>1, <4>1
    <3>2. DayOf[t] \notin included
      BY <1>1, <2>4 DEF On
    <3>3. start # None /\ DayOf[t] <= start
      BY <1>1, <2>1, <3>1, <3>2 DEF DaysLookedAt
    <3>4. \E x \in S \ T : t <= x
      <4>1. CASE DayOf[t] = start
        BY <1>8, <2>3, <2>4, <4>1
      <4>2. CASE DayOf[t] # start
        <5>1. PICK x \in S : x \notin T
          BY <1>4, <3>3
        <5>2. x \in Shares /\ DayOf[x] = start /\ x \in Nat /\ start \in Nat
          BY <1>7, ShareTypes
        <5>3. t < x
          BY <2>3, <3>3, <4>2, <5>2, ShareTypes
        <5> QED BY <2>3, <5>1, <5>2, <5>3
      <4> QED BY <4>1, <4>2
    <3>5. PICK x \in S \ T : t <= x
      BY <3>4
    <3>6. PICK u \in S : x <= u /\ (\A v \in T : u < v) /\ Weight(T) + ValueOf[u] >= remaining
      BY <1>4, <3>3, <3>5
    <3>7. x \in Nat /\ u \in Nat /\ u \in visible /\ ValueOf[u] \in Nat
      BY <1>7, <3>5, <3>6, ShareTypes
    <3>8. t <= u /\ u < m
      BY <1>9, <2>2, <2>3, <3>3, <3>5, <3>6, <3>7
    <3>9. Weight(C \union T) + ValueOf[u] >= Target
      <4>1. Weight(C) \in Nat /\ Weight(T) \in Nat
        BY <1>2, <1>4, WeightNat
      <4> QED BY <1>1, <1>2, <1>12, <3>6, <3>7, <4>1, PartsAssumption DEF C
    <3> QED BY <3>7, <3>8, <3>9
  <2> QED BY <2>6, <2>7
<1>15. (Tides!Finished("shares") => Tides!NoGap)'
  <2> SUFFICES ASSUME kind = "shares", NEW t \in C \union T, NEW v \in C \union T,
                      NEW x \in known \cap t..v
               PROVE  x \in C \union T
    BY <1>3, <1>11 DEF Tides!Finished, Tides!NoGap
  <2>1. t \in Shares /\ x \in Shares /\ x \in visible /\ t <= x
    BY <1>2, <1>4
  <2>2. DayOf[t] \in Nat /\ DayOf[x] \in Nat /\ DayOf[t] <= DayOf[x]
    BY <2>1, ShareTypes
  <2>3. CASE t \in C
    <3>1. DayOf[t] \in included
      BY <1>1, <2>3 DEF C
    <3>2. DayOf[t] >= FirstDay /\ (start # None => start < DayOf[t])
      BY <1>1, <3>1 DEF DaysLookedAt
    <3>3. DayOf[x] >= FirstDay
      BY <2>2, <3>2, PartsAssumption
    <3>4. DayOf[x] \in included \/ (start # None /\ DayOf[x] <= start)
      BY <1>1, <3>3 DEF DaysLookedAt
    <3>5. start # None => start \in Nat
      BY <1>2, ShareTypes DEF Tides!Days
    <3>6. DayOf[x] \in included
      BY <2>2, <3>2, <3>4, <3>5
    <3> QED BY <1>1, <3>6 DEF On, C
  <2>4. CASE t \in T
    <3>1. DayOf[t] = start /\ start # None /\ start >= FirstDay
      BY <1>1, <1>4, <1>7, <2>4 DEF DaysLookedAt
    <3>2. DayOf[x] >= FirstDay
      BY <2>2, <3>1, PartsAssumption
    <3>3. DayOf[x] \in included \/ DayOf[x] <= start
      BY <1>1, <3>2 DEF DaysLookedAt
    <3>4. CASE DayOf[x] \in included
      BY <1>1, <3>4 DEF On, C
    <3>5. CASE DayOf[x] <= start
      <4>1. DayOf[x] = start
        BY <2>2, <3>1, <3>5
      <4> QED BY <1>4, <1>8, <2>1, <2>4, <4>1
    <3> QED BY <3>3, <3>4, <3>5
  <2> QED BY <2>3, <2>4
<1>16. AtDone'
  BY <1>13, <1>14, <1>15 DEF AtDone
<1>17. Ends' /\ Once'
  BY <1>1, <1>3, <1>11, EndsStay DEF Once
<1>18. AtEndDay' /\ AtDays' /\ AtFullDays' /\ AtStartDay' /\ AtStartPartial'
  BY <1>3 DEF AtEndDay, AtDays, AtFullDays, AtStartDay, AtStartPartial
<1>19. AtDaysBetween' /\ AtEndPartial' /\ AtOceanDone'
  BY <1>1, <1>3 DEF AtDaysBetween, AtEndPartial, AtOceanDone, Tides!SpansMidnight
<1> QED BY <1>16, <1>17, <1>18, <1>19 DEF Stages

\* Ocean's window: the part of the first day, the days between, the part of the
\* last one.
LEMMA OceanEnds ==
    ASSUME TidesInv, pc # "idle", Tides!SpansMidnight
    PROVE  /\ from \in Shares /\ to \in Shares
           /\ \A t \in Shares : /\ t \in Nat /\ DayOf[t] \in Nat
                                /\ DayOf[t] > DayOf[from] => from <= t
                                /\ DayOf[t] < DayOf[from] => t < from
                                /\ from <= t => DayOf[from] <= DayOf[t]
                                /\ DayOf[t] < DayOf[to] => t <= to
                                /\ DayOf[t] > DayOf[to] => to < t
                                /\ t <= to => DayOf[t] <= DayOf[to]
           /\ DayOf[from] < DayOf[to]
<1>1. from \in Shares /\ to \in Shares /\ DayOf[from] < DayOf[to]
  BY DEF TidesInv, Stages, Ends, Tides!SpansMidnight
<1> QED BY <1>1, ShareTypes

LEMMA StagesPartialStart == TidesInv /\ Tides!FetchPartialStartDay => Stages'
<1> SUFFICES ASSUME TidesInv, Tides!FetchPartialStartDay PROVE Stages'
  OBVIOUS
<1> DEFINE S == {t \in Tides!SharesOn({DayOf[from]}) : t >= from}
<1>1. /\ pc = "start_partial" /\ kind = "ocean" /\ Tides!Counted = {}
      /\ known \subseteq visible /\ visible \in SUBSET Shares
      /\ \A t \in Shares : counted[t] <= 1
  BY DEF TidesInv, TidesTyped, Stages, AtStartPartial, Tides!FetchPartialStartDay,
    Tides!Counted
<1>2. /\ counted' = Tides!CountOf(S) /\ pc' = "full_days"
      /\ UNCHANGED <<visible, kind, from, to, known>>
  BY DEF Tides!FetchPartialStartDay, Tides!inputs
<1>3. /\ S \in SUBSET Shares
      /\ \A t : t \in S <=> t \in visible /\ DayOf[t] = DayOf[from] /\ t >= from
  BY <1>1 DEF Tides!SharesOn
<1> HIDE DEF S
<1>4. Tides!Counted' = S /\ \A t \in Shares : counted'[t] <= 1
  BY <1>1, <1>2, <1>3, CountsMore DEF TidesInv
<1>5. AtDaysBetween'
  <2> SUFFICES ASSUME Tides!SpansMidnight
               PROVE  /\ \A t \in S : DayOf[t] = DayOf[from] /\ from <= t
                      /\ \A t \in known : DayOf[t] = DayOf[from] /\ from <= t => t \in S
    BY <1>2, <1>4 DEF AtDaysBetween, Tides!SpansMidnight
  <2>1. from \in Nat /\ \A t \in Shares : t \in Nat
    BY <1>1, OceanEnds
  <2> QED BY <1>1, <1>3, <2>1
<1>6. Ends' /\ Once'
  BY <1>1, <1>2, <1>4, EndsStay DEF Once
<1>7. AtEndDay' /\ AtDays' /\ AtFullDays' /\ AtStartDay' /\ AtStartPartial'
  BY <1>1, <1>2 DEF AtEndDay, AtDays, AtFullDays, AtStartDay, AtStartPartial
<1>8. AtDone' /\ AtEndPartial' /\ AtOceanDone'
  BY <1>2 DEF AtDone, AtEndPartial, AtOceanDone, Tides!WithinTarget, Tides!ReachesTarget,
    Tides!Finished
<1> QED BY <1>5, <1>6, <1>7, <1>8 DEF Stages

LEMMA StagesDaysBetween == TidesInv /\ Tides!FetchDaysBetween => Stages'
<1> SUFFICES ASSUME TidesInv, Tides!FetchDaysBetween PROVE Stages'
  OBVIOUS
<1> DEFINE S == Tides!SharesOn((DayOf[from] + 1)..(DayOf[to] - 1))
<1>1. /\ pc = "full_days" /\ kind = "ocean"
      /\ known \subseteq visible /\ visible \in SUBSET Shares
  BY DEF TidesInv, TidesTyped, Tides!FetchDaysBetween
<1>2. /\ counted' = Tides!CountOf(S) /\ pc' = "end_partial"
      /\ UNCHANGED <<visible, kind, from, to, known>>
  BY DEF Tides!FetchDaysBetween, Tides!inputs
<1>3. S \in SUBSET Shares /\ \A t \in S : t \in visible
  BY <1>1 DEF Tides!SharesOn
<1>4. ASSUME Tides!SpansMidnight
      PROVE  \A t \in visible : t \in S <=> DayOf[from] < DayOf[t] /\ DayOf[t] < DayOf[to]
  <2>1. /\ \A t \in visible : DayOf[t] \in Nat
        /\ DayOf[from] \in Nat /\ DayOf[to] \in Nat
    BY <1>1, <1>4, OceanEnds
  <2> QED BY <2>1 DEF Tides!SharesOn
<1> HIDE DEF S
<1>5. Tides!Counted' = Tides!Counted \union S
  BY <1>2, <1>3, CountsMore DEF TidesInv
<1>6. ASSUME Tides!SpansMidnight
      PROVE  /\ \A t \in Tides!Counted \union S : from <= t /\ DayOf[t] < DayOf[to]
             /\ \A t \in known : from <= t /\ DayOf[t] < DayOf[to] =>
                   t \in Tides!Counted \union S
             /\ S \cap Tides!Counted = {}
  <2>1. /\ \A t \in Tides!Counted : DayOf[t] = DayOf[from] /\ from <= t
        /\ \A t \in known : DayOf[t] = DayOf[from] /\ from <= t => t \in Tides!Counted
    BY <1>1, <1>6 DEF TidesInv, Stages, AtDaysBetween
  <2>2. /\ \A t \in Shares : /\ DayOf[t] \in Nat
                             /\ DayOf[t] > DayOf[from] => from <= t
                             /\ from <= t => DayOf[from] <= DayOf[t]
        /\ DayOf[from] < DayOf[to] /\ DayOf[from] \in Nat
    BY <1>1, <1>6, OceanEnds
  <2>3. \A t \in S : from <= t /\ DayOf[from] < DayOf[t] /\ DayOf[t] < DayOf[to]
    BY <1>3, <1>4, <1>6, <2>2
  <2>4. ASSUME NEW t \in known, from <= t, DayOf[t] < DayOf[to]
        PROVE  t \in Tides!Counted \union S
    <3>1. t \in visible /\ DayOf[from] <= DayOf[t] /\ DayOf[t] \in Nat
      BY <1>1, <2>2, <2>4
    <3>2. CASE DayOf[t] = DayOf[from]
      BY <2>1, <2>4, <3>2
    <3>3. CASE DayOf[t] # DayOf[from]
      BY <1>4, <1>6, <2>2, <2>4, <3>1, <3>3
    <3> QED BY <3>2, <3>3
  <2>5. S \cap Tides!Counted = {}
    BY <2>1, <2>2, <2>3
  <2> QED BY <2>1, <2>2, <2>3, <2>4, <2>5
<1>7. AtEndPartial'
  BY <1>1, <1>2, <1>5, <1>6 DEF AtEndPartial, Tides!SpansMidnight
<1>8. Once'
  <2> SUFFICES ASSUME Tides!SpansMidnight PROVE \A t \in Shares : counted'[t] <= 1
    BY <1>1, <1>2 DEF Once, Tides!SpansMidnight
  <2>1. \A t \in Shares : counted[t] <= 1
    BY DEF TidesInv, Stages, Once
  <2> QED BY <1>2, <1>3, <1>6, <2>1, CountsMore DEF TidesInv
<1>9. Ends'
  BY <1>1, <1>2, EndsStay
<1>10. AtEndDay' /\ AtDays' /\ AtFullDays' /\ AtStartDay' /\ AtStartPartial'
  BY <1>1, <1>2 DEF AtEndDay, AtDays, AtFullDays, AtStartDay, AtStartPartial
<1>11. AtDone' /\ AtDaysBetween' /\ AtOceanDone'
  BY <1>2 DEF AtDone, AtDaysBetween, AtOceanDone, Tides!WithinTarget, Tides!ReachesTarget,
    Tides!Finished
<1> QED BY <1>7, <1>8, <1>9, <1>10, <1>11 DEF Stages

LEMMA StagesPartialEnd == TidesInv /\ Tides!FetchPartialEndDay => Stages'
<1> SUFFICES ASSUME TidesInv, Tides!FetchPartialEndDay PROVE Stages'
  OBVIOUS
<1> DEFINE S == {t \in Tides!SharesOn({DayOf[to]}) : t <= to}
<1>1. /\ pc = "end_partial" /\ kind = "ocean"
      /\ known \subseteq visible /\ visible \in SUBSET Shares
  BY DEF TidesInv, TidesTyped, Stages, AtEndPartial, Tides!FetchPartialEndDay
<1>2. /\ counted' = Tides!CountOf(S) /\ pc' = "done"
      /\ UNCHANGED <<visible, kind, from, to, known>>
  BY DEF Tides!FetchPartialEndDay, Tides!inputs
<1>3. /\ S \in SUBSET Shares
      /\ \A t : t \in S <=> t \in visible /\ DayOf[t] = DayOf[to] /\ t <= to
  BY <1>1 DEF Tides!SharesOn
<1> HIDE DEF S
<1>4. Tides!Counted' = Tides!Counted \union S /\ Tides!Counted \in SUBSET Shares
  BY <1>2, <1>3, CountsMore DEF TidesInv
<1>5. ASSUME Tides!SpansMidnight
      PROVE  /\ Tides!Counted \union S \subseteq from..to
             /\ known \cap from..to \subseteq Tides!Counted \union S
             /\ S \cap Tides!Counted = {}
  <2>1. /\ \A t \in Tides!Counted : from <= t /\ DayOf[t] < DayOf[to]
        /\ \A t \in known : from <= t /\ DayOf[t] < DayOf[to] => t \in Tides!Counted
    BY <1>5 DEF TidesInv, Stages, AtEndPartial, Tides!FetchPartialEndDay
  <2>2. /\ \A t \in Shares : /\ t \in Nat /\ DayOf[t] \in Nat
                             /\ DayOf[t] > DayOf[from] => from <= t
                             /\ DayOf[t] < DayOf[to] => t <= to
                             /\ t <= to => DayOf[t] <= DayOf[to]
        /\ DayOf[from] < DayOf[to] /\ from \in Nat /\ to \in Nat
        /\ DayOf[from] \in Nat /\ DayOf[to] \in Nat
    BY <1>1, <1>5, OceanEnds
  <2>3. \A t \in S : t \in Nat /\ from <= t /\ t <= to
    BY <1>3, <2>2
  <2>4. \A t \in Tides!Counted : t \in Nat /\ from <= t /\ t <= to
    BY <1>4, <2>1, <2>2
  <2>5. ASSUME NEW t \in known \cap from..to PROVE t \in Tides!Counted \union S
    <3>1. t \in visible /\ t \in Shares /\ from <= t /\ t <= to
      BY <1>1, <2>2
    <3>2. CASE DayOf[t] < DayOf[to]
      BY <2>1, <3>1, <3>2
    <3>3. CASE DayOf[t] = DayOf[to]
      BY <1>3, <3>1, <3>3
    <3> QED BY <2>2, <3>1, <3>2, <3>3
  <2>6. S \cap Tides!Counted = {}
    BY <1>3, <2>1, <2>2
  <2>7. Tides!Counted \union S \subseteq from..to
    BY <2>2, <2>3, <2>4
  <2> QED BY <2>5, <2>6, <2>7
<1>6. AtOceanDone'
  BY <1>2, <1>4, <1>5 DEF AtOceanDone, Tides!SpansMidnight
<1>7. Once'
  <2> SUFFICES ASSUME Tides!SpansMidnight PROVE \A t \in Shares : counted'[t] <= 1
    BY <1>1, <1>2 DEF Once, Tides!SpansMidnight
  <2>1. \A t \in Shares : counted[t] <= 1
    BY DEF TidesInv, Stages, Once
  <2> QED BY <1>2, <1>3, <1>5, <2>1, CountsMore DEF TidesInv
<1>8. Ends'
  BY <1>1, <1>2, EndsStay
<1>9. AtEndDay' /\ AtDays' /\ AtFullDays' /\ AtStartDay' /\ AtStartPartial'
  BY <1>2 DEF AtEndDay, AtDays, AtFullDays, AtStartDay, AtStartPartial
<1>10. AtDone' /\ AtDaysBetween' /\ AtEndPartial'
  BY <1>1, <1>2 DEF AtDone, AtDaysBetween, AtEndPartial, Tides!WithinTarget,
    Tides!ReachesTarget, Tides!Finished
<1> QED BY <1>6, <1>7, <1>8, <1>9, <1>10 DEF Stages

LEMMA TidesInvNext == TidesInv /\ [Tides!Next]_Tides!vars => TidesInv'
<1> SUFFICES ASSUME TidesInv, [Tides!Next]_Tides!vars PROVE Stages'
  BY TidesTypedNext DEF TidesInv
<1>1. CASE \E t \in Shares : Tides!ShareAppears(t)
  BY <1>1, StagesAppear
<1>2. CASE Tides!CalculateFromShares
  BY <1>2, StagesBegin DEF Tides!CalculateFromShares
<1>3. CASE \E last \in Shares : Tides!CalculateCustom(last)
  BY <1>3, StagesBegin DEF Tides!CalculateCustom
<1>4. CASE \E first, last \in Shares : Tides!CalculateFromOcean(first, last)
  BY <1>4, StagesBegin DEF Tides!CalculateFromOcean
<1>5. CASE Tides!Fails
  <2>1. TidesTyped' /\ pc' = "idle" /\ counted' = Tides!Nothing
    BY <1>5, TidesTypedNext DEF TidesInv, Tides!Fails
  <2> QED BY <2>1, StagesIdle
<1>6. CASE UNCHANGED Tides!vars
  BY <1>6 DEF TidesInv, Stages, Ends, Once, AtEndDay, AtDays, AtFullDays, AtStartDay, AtDone,
    AtStartPartial, AtDaysBetween, AtEndPartial, AtOceanDone, FromEndDay, EndReached,
    OnEndDay, DaysLookedAt, Tides!vars, Tides!inputs, Tides!SpansMidnight, Tides!Counted,
    Tides!WithinTarget, Tides!ReachesTarget, Tides!NoGap, Tides!Finished
<1> QED BY <1>1, <1>2, <1>3, <1>4, <1>5, <1>6, StagesEndDay, StagesFindDays, StagesFullDays,
       StagesStartDate, StagesPartialStart, StagesDaysBetween, StagesPartialEnd
    DEF Tides!Next
-----------------------------------------------------------------------------
LEMMA TidesAlwaysHold == PartsSpec => []TidesInv
<1>1. Tides!Spec => []TidesInv
  BY TidesInvInit, TidesInvNext, PTL DEF Tides!Spec
<1> QED BY PartsAreThemselves, <1>1, PTL

\* A window counts no share twice, nor leaves out one that was there when the
\* calculation began and lies between two that it counts, or between Ocean's
\* ends; in whatever order of their timestamps shares appear between the
\* queries, also on days already counted (tides_queries.py:94-148, 577-642).
THEOREM WindowsAreOneStretch == PartsSpec => []WindowIsOneStretch
<1>1. TidesInv => Tides!WindowIsOneStretch
  BY DEF TidesInv, Stages, Once, AtDone, AtOceanDone, Tides!WindowIsOneStretch,
    Tides!Finished
<1> QED BY TidesAlwaysHold, <1>1, PTL DEF WindowIsOneStretch

\* A finished window, back from now or from a given time, is worth no more than
\* the target in the shares that were there when it began; and it leaves out
\* older ones only behind a share with which it would have reached the target,
\* or that lies before TIDES_START_DATE (tides_queries.py:194-253, 482).
THEOREM WindowsReachTheirTarget == PartsSpec => []LongestWithinTarget
<1>1. TidesInv => Tides!LongestWithinTarget
  BY DEF TidesInv, Stages, AtDone, Tides!LongestWithinTarget
<1> QED BY TidesAlwaysHold, <1>1, PTL DEF LongestWithinTarget
-----------------------------------------------------------------------------
(* The statistics.  The deque holds accepted shares of the history, each   *)
(* once, and those it does not hold are out of the window for good; so an  *)
(* estimate over the deque is one over all accepted shares.                *)

\* Shares as the deque keeps them and as the history notes them.
Kept == [time : 0..MaxTime, difficulty : Difficulties \union {1}]
Noted == [time : 0..MaxTime, difficulty : Difficulties \union {1}, accepted : BOOLEAN,
          value : ShareValues]

AcceptedOf(h) == {i \in 1..Len(h) : h[i].accepted}

\* The deque s holds accepted shares of the history h, each at most once, and
\* at time t those it does not hold are out of the window.
Linked(s, h, t, f) ==
    /\ f \in [1..Len(s) -> AcceptedOf(h)]
    /\ \A a, b \in 1..Len(s) : f[a] = f[b] => a = b
    /\ \A k \in 1..Len(s) : s[k].time = h[f[k]].time /\ s[k].difficulty = h[f[k]].difficulty
    /\ \A i \in AcceptedOf(h) \ {f[k] : k \in 1..Len(s)} : h[i].time + Window <= t

\* Types of the statistics' variables.
StatsTyped ==
    /\ now \in 0..MaxTime
    /\ accepted \in Nat /\ rejected \in Nat
    /\ rejectedBy \in [Stats!Categories -> Nat]
    /\ difficulty \in Difficulties \union {1}
    /\ recentShares \in Seq(Kept)
    /\ highest \in ShareValues \union {0}
    /\ history \in Seq(Noted) /\ Len(history) <= MaxShares

LEMMA StatsCardinality == \A S : Stats!Cardinality(S) = Cardinality(S)
BY DEF Stats!Cardinality, Cardinality

\* The positions of a finite set are numbered, one to one.
LEMMA Positions ==
    ASSUME NEW S \in SUBSET Nat, IsFiniteSet(S)
    PROVE  LET n == Cardinality(S)
           IN  /\ n \in Nat
               /\ \A k \in 1..n : Stats!Nth(S, k) \in S
               /\ \A a, b \in 1..n : Stats!Nth(S, a) = Stats!Nth(S, b) => a = b
               /\ \A i \in S : \E k \in 1..n : Stats!Nth(S, k) = i
<1> DEFINE n == Cardinality(S)
           Below(i) == {j \in S : j <= i}
           r == [i \in S |-> Cardinality(Below(i))]
<1>1. n \in Nat /\ IsFiniteSet(1..n) /\ Cardinality(1..n) = n
  BY FS_CardinalityType, FS_Interval
<1>2. ASSUME NEW i \in S
      PROVE  IsFiniteSet(Below(i)) /\ Cardinality(Below(i)) \in 1..n
  <2>1. IsFiniteSet(Below(i)) /\ Cardinality(Below(i)) <= n
    BY FS_Subset
  <2>2. Cardinality(Below(i)) \in Nat /\ Cardinality(Below(i)) # 0
    <3>1. i \in Below(i)
      OBVIOUS
    <3> QED BY <2>1, <3>1, FS_CardinalityType, FS_EmptySet
  <2> QED BY <1>1, <2>1, <2>2
<1>3. ASSUME NEW i \in S, NEW j \in S, i < j
      PROVE  r[i] # r[j]
  <2>1. Below(i) \in SUBSET Below(j) /\ j \in Below(j) /\ j \notin Below(i)
    <3>1. i \in Nat /\ j \in Nat /\ \A x \in S : x \in Nat
      OBVIOUS
    <3>2. \A x \in S : x <= i => x <= j
      BY <1>3, <3>1
    <3>3. j <= j /\ ~(j <= i)
      BY <1>3, <3>1
    <3> QED BY <3>2, <3>3
  <2> QED BY <1>2, <2>1, FS_Subset
<1>4. r \in Injection(S, 1..n)
  <2>1. ASSUME NEW i \in S, NEW j \in S, r[i] = r[j] PROVE i = j
    <3>1. i \in Nat /\ j \in Nat /\ ~(i < j) /\ ~(j < i)
      BY <1>3, <2>1
    <3> QED BY <3>1
  <2>2. r \in [S -> 1..n]
    BY <1>2
  <2> HIDE DEF r
  <2> QED BY <2>1, <2>2 DEF Injection, IsInjective
<1>5. r \in Surjection(S, 1..n)
  <2> HIDE DEF r
  <2> QED BY <1>1, <1>4, FS_Injection
<1>6. ASSUME NEW k \in 1..n
      PROVE  Stats!Nth(S, k) \in S /\ r[Stats!Nth(S, k)] = k
  <2>1. \E i \in S : Cardinality(Below(i)) = k
    BY <1>5 DEF Surjection
  <2>2. Stats!Nth(S, k) = CHOOSE i \in S : Cardinality(Below(i)) = k
    BY StatsCardinality DEF Stats!Nth
  <2> HIDE DEF Below
  <2> QED BY <2>1, <2>2
<1>7. ASSUME NEW i \in S PROVE \E k \in 1..n : Stats!Nth(S, k) = i
  <2>1. r[i] \in 1..n
    BY <1>2
  <2>2. r[Stats!Nth(S, r[i])] = r[i] /\ Stats!Nth(S, r[i]) \in S
    BY <1>6, <2>1
  <2>3. Stats!Nth(S, r[i]) = i
    <3>1. Stats!Nth(S, r[i]) \in Nat /\ i \in Nat
      BY <2>2
    <3>2. ~(Stats!Nth(S, r[i]) < i) /\ ~(i < Stats!Nth(S, r[i]))
      BY <1>3, <2>2
    <3> HIDE DEF r
    <3> QED BY <3>1, <3>2
  <2> QED BY <2>1, <2>3
<1>8. \A a, b \in 1..n : Stats!Nth(S, a) = Stats!Nth(S, b) => a = b
  <2> HIDE DEF r
  <2> QED BY <1>6
<1> QED BY <1>1, <1>6, <1>7, <1>8

\* Choosing some positions of a linked deque that miss only old shares.
LEMMA WindowOfDeque ==
    ASSUME NEW s \in Seq(Kept), now \in Nat
    PROVE  LET Y == Stats!Young(s)
               n == Cardinality(Y)
               m == [k \in 1..n |-> Stats!Nth(Y, k)]
           IN  /\ Y \in SUBSET (1..Len(s)) /\ IsFiniteSet(Y) /\ n \in Nat
               /\ Stats!InWindow(s) = [k \in 1..n |-> s[m[k]]]
               /\ Stats!InWindow(s) \in Seq(Kept) /\ Len(Stats!InWindow(s)) = n
               /\ \A k \in 1..n : m[k] \in Y
               /\ \A a, b \in 1..n : m[a] = m[b] => a = b
               /\ \A i \in Y : \E k \in 1..n : m[k] = i
               /\ \A i \in (1..Len(s)) \ Y : s[i].time + Window <= now
<1> DEFINE Y == Stats!Young(s)
           n == Cardinality(Y)
           m == [k \in 1..n |-> Stats!Nth(Y, k)]
           W == Stats!InWindow(s)
<1>1. Len(s) \in Nat /\ DOMAIN s = 1..Len(s) /\ \A i \in 1..Len(s) : s[i] \in Kept
  OBVIOUS
<1>2. Y \in SUBSET (1..Len(s)) /\ Y \in SUBSET Nat
  BY <1>1 DEF Stats!Young
<1>3. IsFiniteSet(Y)
  <2>1. IsFiniteSet(1..Len(s))
    BY <1>1, FS_Interval
  <2> QED BY <1>2, <2>1, FS_Subset
<1>4. W = [k \in 1..n |-> s[Stats!Nth(Y, k)]]
  BY StatsCardinality DEF Stats!InWindow
<1>5. \A i \in (1..Len(s)) \ Y : s[i].time + Window <= now
  <2> SUFFICES ASSUME NEW i \in 1..Len(s), i \notin Y PROVE s[i].time + Window <= now
    OBVIOUS
  <2>1. s[i].time \in Nat /\ Window \in Nat
    BY <1>1, PartsAssumption DEF Kept
  <2>2. ~(s[i].time + Window > now)
    BY <1>1 DEF Stats!Young
  <2> QED BY <2>1, <2>2
<1> HIDE DEF Y, W
<1>6. /\ n \in Nat
      /\ \A k \in 1..n : Stats!Nth(Y, k) \in Y
      /\ \A a, b \in 1..n : Stats!Nth(Y, a) = Stats!Nth(Y, b) => a = b
      /\ \A i \in Y : \E k \in 1..n : Stats!Nth(Y, k) = i
  BY <1>2, <1>3, Positions
<1> HIDE DEF n
<1>7. W \in Seq(Kept) /\ Len(W) = n
  <2>1. \A k \in 1..n : s[Stats!Nth(Y, k)] \in Kept
    BY <1>1, <1>2, <1>6
  <2>2. W \in [1..n -> Kept]
    BY <1>4, <2>1
  <2> QED BY <1>6, <2>2
<1>8. W = [k \in 1..n |-> s[m[k]]]
  BY <1>4
<1> QED BY <1>2, <1>3, <1>5, <1>6, <1>7, <1>8 DEF Y, n, W

\* Dropping old shares keeps the deque linked.
LEMMA CleanedLinked ==
    ASSUME NEW s \in Seq(Kept), NEW h \in Seq(Noted), now \in Nat, NEW f, Linked(s, h, now, f)
    PROVE  /\ Stats!Cleaned(s) \in Seq(Kept)
           /\ \E g : Linked(Stats!Cleaned(s), h, now, g)
<1> DEFINE Y == Stats!Young(s)
           n == Cardinality(Y)
           m == [k \in 1..n |-> Stats!Nth(Y, k)]
           W == Stats!InWindow(s)
           g == [k \in 1..n |-> f[m[k]]]
<1>1. /\ Y \in SUBSET (1..Len(s)) /\ n \in Nat
      /\ W = [k \in 1..n |-> s[m[k]]] /\ W \in Seq(Kept) /\ Len(W) = n
      /\ \A k \in 1..n : m[k] \in Y
      /\ \A a, b \in 1..n : m[a] = m[b] => a = b
      /\ \A i \in Y : \E k \in 1..n : m[k] = i
      /\ \A i \in (1..Len(s)) \ Y : s[i].time + Window <= now
  BY WindowOfDeque
<1>2. Stats!Cleaned(s) = W \/ Stats!Cleaned(s) = s
  BY DEF Stats!Cleaned
<1> HIDE DEF Y, n, m, W
<1>3. \A k \in 1..n : m[k] \in 1..Len(s) /\ W[k] = s[m[k]]
  BY <1>1
<1>4. /\ f \in [1..Len(s) -> AcceptedOf(h)]
      /\ \A a, b \in 1..Len(s) : f[a] = f[b] => a = b
      /\ \A k \in 1..Len(s) : s[k].time = h[f[k]].time /\ s[k].difficulty = h[f[k]].difficulty
      /\ \A i \in AcceptedOf(h) \ {f[k] : k \in 1..Len(s)} : h[i].time + Window <= now
  BY DEF Linked
<1>5. ASSUME NEW i \in AcceptedOf(h) \ {g[k] : k \in 1..n} PROVE h[i].time + Window <= now
  <2>1. CASE i \in {f[k] : k \in 1..Len(s)}
    <3>1. PICK k \in 1..Len(s) : i = f[k]
      BY <2>1
    <3>2. k \notin Y
      <4>1. SUFFICES ASSUME k \in Y PROVE FALSE
        OBVIOUS
      <4>2. PICK j \in 1..n : m[j] = k
        BY <1>1, <4>1
      <4>3. g[j] = i
        BY <3>1, <4>2
      <4> QED BY <1>5, <4>3
    <3> QED BY <1>1, <1>4, <3>1, <3>2
  <2> QED BY <1>4, <1>5, <2>1
<1>6. Linked(W, h, now, g)
  <2>1. g \in [1..n -> AcceptedOf(h)] /\ \A k \in 1..n : g[k] = f[m[k]]
    BY <1>3, <1>4
  <2>2. \A a, b \in 1..n : g[a] = g[b] => a = b
    BY <1>1, <1>3, <1>4, <2>1
  <2>3. \A k \in 1..n : W[k].time = h[g[k]].time /\ W[k].difficulty = h[g[k]].difficulty
    BY <1>3, <1>4, <2>1
  <2> HIDE DEF g
  <2> QED BY <1>1, <1>5, <2>1, <2>2, <2>3 DEF Linked
<1> QED BY <1>1, <1>2, <1>6

\* The estimate over a linked deque is that over all accepted shares.
LEMMA LinkedWork ==
    ASSUME NEW s \in Seq(Kept), NEW h \in Seq(Noted), now \in Nat, NEW f, Linked(s, h, now, f)
    PROVE  Stats!Work(s, Stats!Young(s)) = Stats!Work(h, Stats!Young(h) \intersect AcceptedOf(h))
<1> DEFINE Y == Stats!Young(s)
           A == Stats!Young(h) \intersect AcceptedOf(h)
           sd == [i \in DOMAIN s |-> s[i].difficulty]
           hd == [i \in DOMAIN h |-> h[i].difficulty]
<1>1. /\ Len(s) \in Nat /\ DOMAIN s = 1..Len(s) /\ \A i \in 1..Len(s) : s[i] \in Kept
      /\ Len(h) \in Nat /\ DOMAIN h = 1..Len(h) /\ \A i \in 1..Len(h) : h[i] \in Noted
  OBVIOUS
<1>2. /\ f \in [1..Len(s) -> AcceptedOf(h)]
      /\ \A a, b \in 1..Len(s) : f[a] = f[b] => a = b
      /\ \A k \in 1..Len(s) : s[k].time = h[f[k]].time /\ s[k].difficulty = h[f[k]].difficulty
      /\ \A i \in AcceptedOf(h) \ {f[k] : k \in 1..Len(s)} : h[i].time + Window <= now
  BY DEF Linked
<1>3. Y \in SUBSET (1..Len(s)) /\ IsFiniteSet(Y)
  <2>1. IsFiniteSet(1..Len(s)) /\ Y \in SUBSET (1..Len(s))
    BY <1>1, FS_Interval DEF Stats!Young
  <2> HIDE DEF Y
  <2> QED BY <2>1, FS_Subset
<1>4. {f[k] : k \in Y} = A
  <2>1. ASSUME NEW k \in Y PROVE f[k] \in A
    <3>1. k \in 1..Len(s) /\ s[k].time + Window > now
      BY <1>1 DEF Stats!Young
    <3>2. f[k] \in AcceptedOf(h) /\ f[k] \in 1..Len(h) /\ h[f[k]].time + Window > now
      BY <1>2, <3>1 DEF AcceptedOf
    <3> QED BY <1>1, <3>2 DEF Stats!Young
  <2>2. ASSUME NEW i \in A PROVE i \in {f[k] : k \in Y}
    <3>1. i \in AcceptedOf(h) /\ i \in 1..Len(h) /\ h[i].time + Window > now
      BY <1>1 DEF Stats!Young, AcceptedOf
    <3>2. ~(h[i].time + Window <= now)
      <4>1. h[i].time \in Nat /\ Window \in Nat
        BY <1>1, <3>1, PartsAssumption DEF Noted
      <4> QED BY <3>1, <4>1
    <3>3. PICK k \in 1..Len(s) : i = f[k]
      BY <1>2, <3>1, <3>2
    <3>4. k \in Y
      BY <1>1, <1>2, <3>1, <3>3 DEF Stats!Young
    <3> QED BY <3>3, <3>4
  <2> QED BY <2>1, <2>2
<1> HIDE DEF Y, A
<1>5. \A a, b \in Y : f[a] = f[b] => a = b
  BY <1>2, <1>3
<1>6. Cardinality(A) = Cardinality(Y)
  <2>1. [k \in Y |-> f[k]] \in Bijection(Y, A)
    BY <1>4, <1>5 DEF Bijection, Injection, Surjection, IsInjective
  <2> QED BY <1>3, <2>1, FS_Bijection DEF ExistsBijection
<1>7. SumFunctionOnSet(sd, Y) = SumFunctionOnSet(hd, A)
  <2>1. ASSUME NEW k \in Y PROVE sd[k] \in Int /\ sd[k] = hd[f[k]]
    <3>1. k \in 1..Len(s) /\ sd[k] = s[k].difficulty /\ s[k] \in Kept
      BY <1>1, <1>3
    <3>2. f[k] \in DOMAIN h /\ hd[f[k]] = h[f[k]].difficulty
      BY <1>1, <1>2, <3>1 DEF AcceptedOf
    <3>3. s[k].difficulty \in Int
      <4>1. s[k].difficulty \in Difficulties \union {1}
        BY <3>1 DEF Kept
      <4>2. \A d \in Difficulties : d \in Int
        BY PartsAssumption
      <4> QED BY <4>1, <4>2
    <3> QED BY <1>2, <3>1, <3>2, <3>3
  <2> HIDE DEF sd, hd
  <2>2. \A k \in Y : sd[k] \in Int /\ sd[k] = hd[f[k]]
    BY <2>1
  <2>3. \A k \in Y : f[k] \in A
    BY <1>4
  <2>4. \A i \in A : \E k \in Y : f[k] = i
    BY <1>4
  <2>5. IsFiniteSet(Y)
    BY <1>3
  <2> QED BY <1>5, <2>2, <2>3, <2>4, <2>5, SumMoved
<1>8. Stats!Work(s, Y) = (IF Cardinality(Y) < MinShares THEN 0 ELSE SumFunctionOnSet(sd, Y))
  BY StatsCardinality DEF Stats!Work, Stats!SumFunctionOnSet, Stats!FoldFunctionOnSet,
      Stats!MapThenFoldSet, SumFunctionOnSet, FoldFunctionOnSet, MapThenFoldSet
<1>9. Stats!Work(h, A) = (IF Cardinality(A) < MinShares THEN 0 ELSE SumFunctionOnSet(hd, A))
  BY StatsCardinality DEF Stats!Work, Stats!SumFunctionOnSet, Stats!FoldFunctionOnSet,
      Stats!MapThenFoldSet, SumFunctionOnSet, FoldFunctionOnSet, MapThenFoldSet
<1>10. Stats!Work(s, Y) = Stats!Work(h, A)
  <2> HIDE DEF sd, hd
  <2> QED BY <1>6, <1>7, <1>8, <1>9
<1> QED BY <1>10 DEF Y, A

\* A share that is recorded.
LEMMA NotedMore ==
    ASSUME NEW h \in Seq(Noted), NEW e \in Noted
    PROVE  LET M == Append(h, e)
           IN  /\ M \in Seq(Noted) /\ Len(M) = Len(h) + 1 /\ M[Len(h) + 1] = e
               /\ \A i \in 1..Len(h) : M[i] = h[i]
               /\ AcceptedOf(M) = AcceptedOf(h) \union (IF e.accepted THEN {Len(h) + 1} ELSE {})
               /\ Cardinality(AcceptedOf(h)) \in Nat
               /\ Cardinality(AcceptedOf(M)) =
                     Cardinality(AcceptedOf(h)) + (IF e.accepted THEN 1 ELSE 0)
<1> DEFINE M == Append(h, e)
<1>1. Len(h) \in Nat
  OBVIOUS
<1>2. /\ M \in Seq(Noted) /\ Len(M) = Len(h) + 1 /\ M[Len(h) + 1] = e
      /\ \A i \in 1..Len(h) : M[i] = h[i]
  BY AppendProperties
<1> HIDE DEF M
<1>3. \A i : i \in 1..Len(M) <=> i \in 1..Len(h) \/ i = Len(h) + 1
  BY <1>1, <1>2
<1>4. AcceptedOf(M) = AcceptedOf(h) \union (IF e.accepted THEN {Len(h) + 1} ELSE {})
  BY <1>2, <1>3 DEF AcceptedOf
<1>5. IsFiniteSet(AcceptedOf(h)) /\ Len(h) + 1 \notin AcceptedOf(h)
  <2>1. IsFiniteSet(1..Len(h)) /\ AcceptedOf(h) \in SUBSET (1..Len(h))
    BY <1>1, FS_Interval DEF AcceptedOf
  <2>2. Len(h) + 1 \notin 1..Len(h)
    BY <1>1
  <2> QED BY <2>1, <2>2, FS_Subset
<1>6. Cardinality(AcceptedOf(h)) \in Nat
  BY <1>5, FS_CardinalityType
<1>7. CASE e.accepted
  BY <1>2, <1>4, <1>5, <1>6, <1>7, FS_AddElement DEF M
<1>8. CASE ~e.accepted
  BY <1>2, <1>4, <1>6, <1>8 DEF M
<1> QED BY <1>7, <1>8

\* A rejection more in one category is one more in their sum, and none has more
\* than all together.
LEMMA OneMoreRejection ==
    ASSUME NEW r \in [Stats!Categories -> Nat], NEW c \in Stats!Categories
    PROVE  /\ IsFiniteSet(Stats!Categories)
           /\ SumFunctionOnSet(r, Stats!Categories) \in Nat
           /\ \A d \in Stats!Categories : r[d] <= SumFunctionOnSet(r, Stats!Categories)
           /\ SumFunctionOnSet([r EXCEPT ![c] = @ + 1], Stats!Categories)
                = SumFunctionOnSet(r, Stats!Categories) + 1
<1> DEFINE C == Stats!Categories
           more == [r EXCEPT ![c] = @ + 1]
<1>1. IsFiniteSet(C)
  <2>1. C = (({"stale"} \union {"duplicate"}) \union {"low_diff"}) \union {"other"}
    BY DEF Stats!Categories
  <2> QED BY <2>1, FS_Singleton, FS_Union
<1> HIDE DEF C
<1>2. more \in [C -> Nat] /\ more[c] = r[c] + 1 /\ \A d \in C \ {c} : more[d] = r[d]
  BY DEF C
<1>3. c \in C /\ r \in [C -> Nat]
  BY DEF C
<1> HIDE DEF more
<1>4. \A d \in C : r[d] \in Int /\ more[d] \in Int /\ r[d] \in Nat
  BY <1>2, <1>3
<1>5. IsFiniteSet(C \ {c})
  BY <1>1, FS_Subset
<1>6. SumFunctionOnSet(r, C) = r[c] + SumFunctionOnSet(r, C \ {c})
  BY <1>1, <1>3, <1>4, SumTakeOut
<1>7. SumFunctionOnSet(more, C) = more[c] + SumFunctionOnSet(more, C \ {c})
  BY <1>1, <1>3, <1>4, SumTakeOut
<1>8. SumFunctionOnSet(more, C \ {c}) = SumFunctionOnSet(r, C \ {c})
  BY <1>2, <1>5, SumSame
<1>9. SumFunctionOnSet(r, C) \in Nat /\ SumFunctionOnSet(r, C \ {c}) \in Int
  BY <1>1, <1>4, <1>5, SumNat, SumInt
<1>10. ASSUME NEW d \in C PROVE r[d] <= SumFunctionOnSet(r, C)
  <2>1. SumFunctionOnSet(r, C) = r[d] + SumFunctionOnSet(r, C \ {d})
    BY <1>1, <1>4, SumTakeOut
  <2>2. IsFiniteSet(C \ {d}) /\ \A x \in C \ {d} : r[x] \in Nat
    BY <1>1, <1>4, FS_Subset
  <2>3. SumFunctionOnSet(r, C \ {d}) \in Nat
    BY <2>2, SumNat
  <2> QED BY <1>4, <2>1, <2>3
<1>11. SumFunctionOnSet(more, C) = SumFunctionOnSet(r, C) + 1
  BY <1>2, <1>4, <1>3, <1>6, <1>7, <1>8, <1>9
<1> QED BY <1>1, <1>9, <1>10, <1>11 DEF C, more

\* The figures, of any variables.
Figures(a, r, by, top, h) ==
    /\ a = Cardinality(AcceptedOf(h))
    /\ a + r = Len(h)
    /\ r = SumFunctionOnSet(by, Stats!Categories)
    /\ \A i \in 1..Len(h) : top >= h[i].value

LEMMA FiguresAre ==
    ASSUME StatsTyped
    PROVE  /\ Stats!Accepted = AcceptedOf(history)
           /\ Stats!FiguresAgree <=> Figures(accepted, rejected, rejectedBy, highest, history)
<1>1. DOMAIN history = 1..Len(history) /\ DOMAIN rejectedBy = Stats!Categories
  BY DEF StatsTyped
<1>2. Stats!Accepted = AcceptedOf(history)
  BY <1>1 DEF Stats!Accepted, AcceptedOf
<1>3. Stats!SumFunction(rejectedBy) = SumFunctionOnSet(rejectedBy, Stats!Categories)
  BY <1>1 DEF Stats!SumFunction, Stats!SumFunctionOnSet, Stats!FoldFunctionOnSet,
      Stats!MapThenFoldSet, SumFunctionOnSet, FoldFunctionOnSet, MapThenFoldSet
<1> QED BY <1>1, <1>2, <1>3, StatsCardinality DEF Stats!FiguresAgree, Figures

\* The invariant, of any variables.
StatsHold ==
    /\ StatsTyped
    /\ Figures(accepted, rejected, rejectedBy, highest, history)
    /\ \E f : Linked(recentShares, history, now, f)

LEMMA StatsHoldInit == Stats!Init => StatsHold
<1> SUFFICES ASSUME Stats!Init PROVE StatsHold
  OBVIOUS
<1> USE DEF Stats!Init
<1>1. StatsTyped
  BY PartsAssumption DEF StatsTyped
<1>2. AcceptedOf(history) = {} /\ Len(history) = 0
  BY DEF AcceptedOf
<1>3. SumFunctionOnSet(rejectedBy, Stats!Categories) = 0
  <2>1. IsFiniteSet(Stats!Categories)
    <3>1. "other" \in Stats!Categories
      BY DEF Stats!Categories
    <3>2. rejectedBy \in [Stats!Categories -> Nat]
      BY <1>1 DEF StatsTyped
    <3> QED BY <3>1, <3>2, OneMoreRejection
  <2> QED BY <2>1, SumZero
<1>4. Figures(accepted, rejected, rejectedBy, highest, history)
  BY <1>2, <1>3, FS_EmptySet DEF Figures
<1>5. Linked(recentShares, history, now, << >>)
  <2>1. 1..Len(recentShares) = {}
    OBVIOUS
  <2> QED BY <1>2, <2>1 DEF Linked
<1> QED BY <1>1, <1>4, <1>5 DEF StatsHold

\* A share enters history and figures.
LEMMA RecordedFigures ==
    ASSUME StatsHold, NEW isAccepted \in BOOLEAN, NEW value \in ShareValues,
           Stats!Recorded(isAccepted, value), highest' = Stats!Higher(value)
    PROVE  LET e == [time |-> now, difficulty |-> difficulty, accepted |-> isAccepted,
                     value |-> value]
           IN  /\ e \in Noted /\ history' = Append(history, e)
               /\ history' \in Seq(Noted) /\ Len(history') = Len(history) + 1
               /\ highest' \in ShareValues \union {0}
               /\ \A i \in 1..Len(history') : highest' >= history'[i].value
               /\ Cardinality(AcceptedOf(history'))
                     = Cardinality(AcceptedOf(history)) + (IF isAccepted THEN 1 ELSE 0)
<1> DEFINE e == [time |-> now, difficulty |-> difficulty, accepted |-> isAccepted,
                 value |-> value]
<1>1. /\ history \in Seq(Noted) /\ now \in 0..MaxTime /\ difficulty \in Difficulties \union {1}
      /\ highest \in ShareValues \union {0}
      /\ \A i \in 1..Len(history) : highest >= history[i].value
  BY DEF StatsHold, StatsTyped, Figures
<1>2. e \in Noted /\ e.accepted = isAccepted /\ e.value = value
  BY <1>1 DEF Noted
<1>3. history' = Append(history, e)
  BY DEF Stats!Recorded
<1> HIDE DEF e
<1>4. /\ history' \in Seq(Noted) /\ Len(history') = Len(history) + 1
      /\ history'[Len(history) + 1] = e
      /\ \A i \in 1..Len(history) : history'[i] = history[i]
      /\ Cardinality(AcceptedOf(history'))
            = Cardinality(AcceptedOf(history)) + (IF isAccepted THEN 1 ELSE 0)
  BY <1>1, <1>2, <1>3, NotedMore
<1>5. \A v \in ShareValues \union {0} : v \in Nat
  BY PartsAssumption
<1>6. highest' \in ShareValues \union {0} /\ highest' >= highest /\ highest' >= value
  BY <1>1, <1>5 DEF Stats!Higher
<1>7. ASSUME NEW i \in 1..Len(history') PROVE highest' >= history'[i].value
  <2>1. CASE i \in 1..Len(history)
    <3>1. history[i] \in Noted /\ history'[i] = history[i]
      BY <1>1, <1>4, <2>1
    <3>2. history[i].value \in Nat
      BY <1>5, <3>1 DEF Noted
    <3> QED BY <1>1, <1>5, <1>6, <2>1, <3>1, <3>2
  <2>2. CASE i = Len(history) + 1
    BY <1>2, <1>4, <1>6, <2>2
  <2>3. Len(history) \in Nat
    BY <1>1
  <2> QED BY <1>4, <2>1, <2>2, <2>3
<1> QED BY <1>2, <1>3, <1>4, <1>6, <1>7 DEF e

\* One lemma for each action.
LEMMA AcceptedHold ==
    ASSUME StatsHold, Len(history) < MaxShares, NEW value \in ShareValues,
           Stats!RecordAccepted(value)
    PROVE  StatsHold'
<1> DEFINE e == [time |-> now, difficulty |-> difficulty, accepted |-> TRUE, value |-> value]
           one == [time |-> now, difficulty |-> difficulty]
           shares == Append(recentShares, one)
           n == Len(recentShares)
<1> USE DEF StatsHold, StatsTyped
<1>1. /\ now' = now /\ rejected' = rejected /\ rejectedBy' = rejectedBy
      /\ difficulty' = difficulty /\ accepted' = accepted + 1
      /\ highest' = Stats!Higher(value) /\ Stats!Recorded(TRUE, value)
      /\ recentShares' = shares \/ recentShares' = Stats!Cleaned(shares)
  BY DEF Stats!RecordAccepted
<1>2. /\ e \in Noted /\ history' = Append(history, e)
      /\ history' \in Seq(Noted) /\ Len(history') = Len(history) + 1
      /\ highest' \in ShareValues \union {0}
      /\ \A i \in 1..Len(history') : highest' >= history'[i].value
      /\ Cardinality(AcceptedOf(history')) = Cardinality(AcceptedOf(history)) + 1
  BY <1>1, RecordedFigures
<1>3. one \in Kept /\ e.time = one.time /\ e.difficulty = one.difficulty /\ e.accepted
  BY DEF Kept
<1>4. /\ AcceptedOf(history') = AcceptedOf(history) \union {Len(history) + 1}
      /\ history'[Len(history) + 1] = e /\ Len(history) \in Nat
      /\ \A i \in 1..Len(history) : history'[i] = history[i]
  BY <1>2, <1>3, NotedMore
<1> HIDE DEF e, one
<1>5. /\ shares \in Seq(Kept) /\ Len(shares) = n + 1 /\ shares[n + 1] = one
      /\ \A k \in 1..n : shares[k] = recentShares[k]
      /\ n \in Nat
  BY <1>3, AppendProperties
<1>6. \E f : Linked(shares, history', now, f)
  <2>1. PICK f : Linked(recentShares, history, now, f)
    OBVIOUS
  <2>2. /\ f \in [1..n -> AcceptedOf(history)]
        /\ \A a, b \in 1..n : f[a] = f[b] => a = b
        /\ \A k \in 1..n : /\ recentShares[k].time = history[f[k]].time
                           /\ recentShares[k].difficulty = history[f[k]].difficulty
        /\ \A i \in AcceptedOf(history) \ {f[k] : k \in 1..n} : history[i].time + Window <= now
    BY <2>1 DEF Linked
  <2> DEFINE g == [k \in 1..(n + 1) |-> IF k = n + 1 THEN Len(history) + 1 ELSE f[k]]
  <2> HIDE DEF shares, n
  <2>3. /\ \A k \in 1..(n + 1) : k \in 1..n \/ k = n + 1
        /\ \A k \in 1..n : k \in 1..(n + 1) /\ k # n + 1
        /\ n + 1 \in 1..(n + 1)
    BY <1>5
  <2>4. \A i \in AcceptedOf(history) : i \in 1..Len(history) /\ i # Len(history) + 1
    BY <1>4 DEF AcceptedOf
  <2>5. /\ g \in [1..(n + 1) -> AcceptedOf(history')]
        /\ g[n + 1] = Len(history) + 1 /\ \A k \in 1..n : g[k] = f[k]
    BY <1>4, <2>2, <2>3
  <2> HIDE DEF g
  <2>6. \A a, b \in 1..(n + 1) : g[a] = g[b] => a = b
    BY <2>2, <2>3, <2>4, <2>5
  <2>7. ASSUME NEW k \in 1..(n + 1)
        PROVE  /\ shares[k].time = history'[g[k]].time
               /\ shares[k].difficulty = history'[g[k]].difficulty
    <3>1. CASE k = n + 1
      BY <1>3, <1>4, <1>5, <2>5, <3>1
    <3>2. CASE k \in 1..n
      <4>1. f[k] \in AcceptedOf(history) /\ g[k] = f[k] /\ shares[k] = recentShares[k]
        BY <1>5, <2>2, <2>5, <3>2
      <4>2. history'[f[k]] = history[f[k]]
        BY <1>4, <2>4, <4>1
      <4> QED BY <2>2, <3>2, <4>1, <4>2
    <3> QED BY <2>3, <3>1, <3>2
  <2>8. ASSUME NEW i \in AcceptedOf(history') \ {g[k] : k \in 1..(n + 1)}
        PROVE  history'[i].time + Window <= now
    <3>1. i \in AcceptedOf(history)
      BY <1>4, <2>3, <2>5
    <3>2. i \notin {f[k] : k \in 1..n}
      BY <2>3, <2>5, <2>8
    <3> QED BY <1>4, <2>2, <2>4, <3>1, <3>2
  <2>9. Linked(shares, history', now, g)
    BY <1>5, <2>5, <2>6, <2>7, <2>8 DEF Linked
  <2> QED BY <2>9
<1>7. now \in Nat
  BY PartsAssumption
<1> HIDE DEF shares
<1>8. Stats!Cleaned(shares) \in Seq(Kept) /\ \E f : Linked(Stats!Cleaned(shares), history', now, f)
  BY <1>2, <1>5, <1>6, <1>7, CleanedLinked
<1>9. recentShares' \in Seq(Kept) /\ \E f : Linked(recentShares', history', now, f)
  BY <1>1, <1>5, <1>6, <1>8
<1>10. Figures(accepted, rejected, rejectedBy, highest, history)'
  BY <1>1, <1>2, <1>4 DEF Figures
<1>11. Len(history') <= MaxShares
  BY <1>2, <1>4, PartsAssumption
<1>12. StatsTyped'
  BY <1>1, <1>2, <1>9, <1>11
<1> QED BY <1>1, <1>9, <1>10, <1>12

LEMMA RejectedHold ==
    ASSUME StatsHold, Len(history) < MaxShares, NEW value \in ShareValues, NEW error,
           Stats!RecordRejected(value, error)
    PROVE  StatsHold'
<1> DEFINE e == [time |-> now, difficulty |-> difficulty, accepted |-> FALSE, value |-> value]
<1> USE DEF StatsHold, StatsTyped
<1>1. /\ now' = now /\ accepted' = accepted /\ difficulty' = difficulty
      /\ rejected' = rejected + 1
      /\ rejectedBy' = [rejectedBy EXCEPT ![Stats!Category(error)] = @ + 1]
      /\ highest' = Stats!Higher(value) /\ Stats!Recorded(FALSE, value)
      /\ recentShares' = recentShares \/ recentShares' = Stats!Cleaned(recentShares)
  BY DEF Stats!RecordRejected
<1>2. /\ e \in Noted /\ history' = Append(history, e)
      /\ history' \in Seq(Noted) /\ Len(history') = Len(history) + 1
      /\ highest' \in ShareValues \union {0}
      /\ \A i \in 1..Len(history') : highest' >= history'[i].value
      /\ Cardinality(AcceptedOf(history')) = Cardinality(AcceptedOf(history)) + 0
  BY <1>1, RecordedFigures
<1>0. ~e.accepted
  OBVIOUS
<1>3. /\ AcceptedOf(history') = AcceptedOf(history) /\ Len(history) \in Nat
      /\ \A i \in 1..Len(history) : history'[i] = history[i]
      /\ Cardinality(AcceptedOf(history)) \in Nat
  <2> HIDE DEF e
  <2>1. /\ AcceptedOf(history')
             = AcceptedOf(history) \union (IF e.accepted THEN {Len(history) + 1} ELSE {})
        /\ \A i \in 1..Len(history) : history'[i] = history[i]
        /\ Cardinality(AcceptedOf(history)) \in Nat
    BY <1>2, NotedMore
  <2> QED BY <1>0, <2>1
<1> HIDE DEF e
<1>4. \E f : Linked(recentShares, history', now, f)
  <2>1. PICK f : Linked(recentShares, history, now, f)
    OBVIOUS
  <2>2. \A i \in AcceptedOf(history) : history'[i] = history[i]
    BY <1>3 DEF AcceptedOf
  <2>3. \A k \in 1..Len(recentShares) : f[k] \in AcceptedOf(history)
    BY <2>1 DEF Linked
  <2>4. \A k \in 1..Len(recentShares) : history'[f[k]] = history[f[k]]
    BY <2>2, <2>3
  <2>5. Linked(recentShares, history', now, f)
    BY <1>3, <2>1, <2>2, <2>4 DEF Linked
  <2> QED BY <2>5
<1>5. now \in Nat
  BY PartsAssumption
<1>6. /\ Stats!Cleaned(recentShares) \in Seq(Kept)
      /\ \E f : Linked(Stats!Cleaned(recentShares), history', now, f)
  BY <1>2, <1>4, <1>5, CleanedLinked
<1>7. recentShares' \in Seq(Kept) /\ \E f : Linked(recentShares', history', now, f)
  BY <1>1, <1>4, <1>6
<1>8. Stats!Category(error) \in Stats!Categories
  BY DEF Stats!Category, Stats!Categories
<1>13. rejectedBy' \in [Stats!Categories -> Nat]
  BY <1>1, <1>8
<1>9. SumFunctionOnSet(rejectedBy', Stats!Categories)
        = SumFunctionOnSet(rejectedBy, Stats!Categories) + 1
  BY <1>1, <1>8, OneMoreRejection
<1>10. Figures(accepted, rejected, rejectedBy, highest, history)'
  BY <1>1, <1>2, <1>3, <1>9 DEF Figures
<1>11. Len(history') <= MaxShares
  BY <1>2, <1>3, PartsAssumption
<1>12. StatsTyped'
  BY <1>1, <1>2, <1>7, <1>11, <1>13
<1> QED BY <1>1, <1>7, <1>10, <1>12

LEMMA StatsHoldNext == StatsHold /\ [Stats!Next]_Stats!vars => StatsHold'
<1> SUFFICES ASSUME StatsHold, [Stats!Next]_Stats!vars PROVE StatsHold'
  OBVIOUS
<1>1. ASSUME NEW value \in ShareValues, Len(history) < MaxShares,
             \/ Stats!RecordAccepted(value)
             \/ \E error \in Errors \union {NoError} : Stats!RecordRejected(value, error)
      PROVE  StatsHold'
  BY <1>1, AcceptedHold, RejectedHold
<1>2. ASSUME NEW d \in Difficulties, Stats!UpdateDifficulty(d) PROVE StatsHold'
  BY <1>2 DEF Stats!UpdateDifficulty, StatsHold, StatsTyped
<1>3. CASE Stats!Tick
  <2>1. now < MaxTime /\ now' = now + 1 /\ now \in Nat /\ now' \in 0..MaxTime
    BY <1>3, PartsAssumption DEF Stats!Tick, StatsHold, StatsTyped
  <2>2. /\ accepted' = accepted /\ rejected' = rejected /\ rejectedBy' = rejectedBy
        /\ difficulty' = difficulty /\ recentShares' = recentShares /\ highest' = highest
        /\ history' = history
    BY <1>3 DEF Stats!Tick
  <2>3. PICK f : Linked(recentShares, history, now, f)
    BY DEF StatsHold
  <2>4. ASSUME NEW i \in AcceptedOf(history), history[i].time + Window <= now
        PROVE  history[i].time + Window <= now'
    <3>1. history[i].time \in Nat /\ Window \in Nat
      <4>1. i \in 1..Len(history) /\ history \in Seq(Noted)
        BY DEF AcceptedOf, StatsHold, StatsTyped
      <4>2. history[i] \in Noted
        BY <4>1
      <4> QED BY <4>2, PartsAssumption DEF Noted
    <3> QED BY <2>1, <2>4, <3>1
  <2>5. Linked(recentShares, history, now', f)
    BY <2>3, <2>4 DEF Linked
  <2> QED BY <2>1, <2>2, <2>5 DEF StatsHold, StatsTyped
<1>4. CASE UNCHANGED Stats!vars
  BY <1>4 DEF Stats!vars, StatsHold, StatsTyped
<1> QED BY <1>1, <1>2, <1>3, <1>4 DEF Stats!Next

LEMMA StatsHoldTypes == StatsHold => Stats!TypeOK
<1> SUFFICES ASSUME StatsHold PROVE Stats!TypeOK
  OBVIOUS
<1> USE DEF StatsHold, StatsTyped
<1>1. /\ accepted = Cardinality(AcceptedOf(history)) /\ accepted + rejected = Len(history)
      /\ rejected = SumFunctionOnSet(rejectedBy, Stats!Categories)
      /\ Len(history) \in Nat /\ MaxShares \in Nat
  BY PartsAssumption DEF Figures
<1>2. accepted \in 0..MaxShares /\ rejected \in 0..MaxShares
  BY <1>1
<1>3. rejectedBy \in [Stats!Categories -> 0..MaxShares]
  <2>1. \A c \in Stats!Categories : rejectedBy[c] \in Nat /\ rejectedBy[c] <= rejected
    BY <1>1, OneMoreRejection
  <2>2. \A c \in Stats!Categories : rejectedBy[c] \in 0..MaxShares
    <3>1. rejected \in Nat /\ rejected <= MaxShares /\ MaxShares \in Nat
      BY <1>1, <1>2
    <3> QED BY <2>1, <3>1
  <2> QED BY <2>2
<1>4. \A i \in DOMAIN recentShares :
        recentShares[i] \in [time : 0..MaxTime, difficulty : Difficulties \union {1}]
  <2>1. \A i \in DOMAIN recentShares : recentShares[i] \in Kept
    OBVIOUS
  <2> QED BY <2>1 DEF Kept
<1>5. Len(recentShares) <= accepted
  <2>1. PICK f : Linked(recentShares, history, now, f)
    OBVIOUS
  <2> DEFINE n == Len(recentShares)
             A == AcceptedOf(history)
  <2>2. f \in Injection(1..n, A)
    BY <2>1 DEF Linked, Injection, IsInjective
  <2>3. IsFiniteSet(A)
    <3>1. IsFiniteSet(1..Len(history))
      BY <1>1, FS_Interval
    <3>2. A \in SUBSET (1..Len(history))
      BY DEF AcceptedOf
    <3> HIDE DEF A
    <3> QED BY <3>1, <3>2, FS_Subset
  <2>4. n \in Nat /\ Cardinality(1..n) = n
    <3>1. n \in Nat
      OBVIOUS
    <3> HIDE DEF n
    <3> QED BY <3>1, FS_Interval
  <2> HIDE DEF n, A
  <2>5. Cardinality(1..n) <= Cardinality(A)
    BY <2>2, <2>3, FS_Injection
  <2> QED BY <1>1, <2>4, <2>5 DEF n, A
<1> QED BY <1>2, <1>3, <1>4, <1>5 DEF Stats!TypeOK

LEMMA StatsHoldAgree == StatsHold => Stats!FiguresAgree /\ Stats!CleanupKeepsHashrate
<1> SUFFICES ASSUME StatsHold PROVE Stats!FiguresAgree /\ Stats!CleanupKeepsHashrate
  OBVIOUS
<1>1. Stats!FiguresAgree /\ Stats!Accepted = AcceptedOf(history)
  BY FiguresAre DEF StatsHold
<1>2. recentShares \in Seq(Kept) /\ history \in Seq(Noted) /\ now \in Nat
  BY PartsAssumption DEF StatsHold, StatsTyped
<1>3. PICK f : Linked(recentShares, history, now, f)
  BY DEF StatsHold
<1>4. Stats!Work(recentShares, Stats!Young(recentShares))
        = Stats!Work(history, Stats!Young(history) \intersect AcceptedOf(history))
  BY <1>2, <1>3, LinkedWork
<1> QED BY <1>1, <1>4 DEF Stats!CleanupKeepsHashrate

LEMMA StatsAlwaysHold == PartsSpec => []StatsHold
<1>1. Stats!Spec => []StatsHold
  BY StatsHoldInit, StatsHoldNext, PTL DEF Stats!Spec
<1> QED BY PartsAreThemselves, <1>1, PTL

\* A cleanup of the deque never changes a hashrate, now or later: get_hashrate
\* answers what it would answer over every share ever accepted, for every
\* window, every interval between cleanups and every smallest number of shares
\* (stats.py:90-107 against 156-183).
THEOREM CleanupAlwaysKeepsHashrate == PartsSpec => []CleanupKeepsHashrate
<1>1. StatsHold => CleanupKeepsHashrate
  BY StatsHoldAgree DEF CleanupKeepsHashrate
<1> QED BY StatsAlwaysHold, <1>1, PTL

\* The counters agree with each other and with the shares recorded, each
\* rejection in exactly one category (stats.py:64-88, 127-144).
THEOREM FiguresAlwaysAgree == PartsSpec => []FiguresAgree
<1>1. StatsHold => FiguresAgree
  BY StatsHoldAgree DEF FiguresAgree
<1> QED BY StatsAlwaysHold, <1>1, PTL
-----------------------------------------------------------------------------
\* Every variable of the statistics, the window and the daily reward keeps its
\* type (stats.py, tides_queries.py, app.py): the deque never holds more than
\* was accepted, and no calculation looks for more than its target.
THEOREM PartsAreTyped == PartsSpec => []PartsTyped
<1>1. Tides!Spec => []TidesTyped
  BY TidesTypedInit, TidesTypedNext, PTL DEF Tides!Spec
<1>2. Daily!Spec => []DailyInv
  BY DailyInvInit, DailyInvNext, PTL DEF Daily!Spec
<1>3. StatsHold /\ TidesTyped /\ DailyInv => PartsTyped
  BY StatsHoldTypes, TidesTypedIs, DailyInvTypes DEF PartsTyped
<1> QED BY PartsAreThemselves, StatsAlwaysHold, <1>1, <1>2, <1>3, PTL
=============================================================================

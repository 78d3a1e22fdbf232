------------------------- MODULE MinerSessionProofs -------------------------
(***************************************************************************)
(* Proofs about MinerSession, for any ids, jobs, difficulties, sizes and   *)
(* numbers of requests, and any order of lines, answers, failures and      *)
(* hang-ups: the types, the orderly end of a session, the difficulty a     *)
(* share is credited with; and, for a miner that numbers its requests,     *)
(* what becomes of a submit.                                               *)
(***************************************************************************)
EXTENDS MinerSession, FiniteSetTheorems, TLAPS

(* The type invariant needs the types of what the queue and the statistics *)
(* hold and of what the second task awaits something for.                  *)

Share == [n : Serials, ok : BOOLEAN, scored : BOOLEAN, credit : Nat \ {0}, since : SUBSET Nat]
Pending == [job : JobId, n : Serials, since : SUBSET Nat]

Typed ==
    /\ TypeOK
    /\ jobs \in Seq(JQ!Entry)
    /\ handling \in [answers : Serials, share : Serials] \union {None}
    /\ verdicts \subseteq [n : Serials, ok : BOOLEAN]
    /\ counted \subseteq Share

\* No task does anything before run() has connected to the pool, or once it
\* cleans up.
Orderly ==
    /\ run = "connecting" => m2p = "idle" /\ p2m = "idle" /\ verdicts = {}
    /\ TasksEndBeforeCleanup
-----------------------------------------------------------------------------
(* The queue of jobs.                                                      *)

\* An entry taken out leaves a queue.
LEMMA WithoutIsQueue ==
    ASSUME NEW q \in Seq(JQ!Entry), NEW id
    PROVE  JQ!Without(q, id) \in Seq(JQ!Entry)
<1>1. CASE JQ!Contains(q, id)
  <2> DEFINE p == JQ!PositionOf(q, id)
  <2>1. p \in 1..Len(q)
    BY <1>1 DEF JQ!Contains, JQ!PositionOf
  <2>2. SubSeq(q, 1, p - 1) \in Seq(JQ!Entry) /\ SubSeq(q, p + 1, Len(q)) \in Seq(JQ!Entry)
    BY <2>1
  <2> HIDE DEF p
  <2>3. SubSeq(q, 1, p - 1) \o SubSeq(q, p + 1, Len(q)) \in Seq(JQ!Entry)
    BY <2>2
  <2> QED
    BY <1>1, <2>3 DEF JQ!Without, p
<1>2. CASE ~JQ!Contains(q, id)
  BY <1>2 DEF JQ!Without
<1> QED
  BY <1>1, <1>2

\* add_job leaves a queue of at most MaxJobs jobs.
LEMMA AddedIsQueue ==
    ASSUME NEW q \in Seq(JQ!Entry), NEW job \in JobId
    PROVE  /\ JQ!Added(q, job, "notify") \in Seq(JQ!Entry)
           /\ Len(JQ!Added(q, job, "notify")) <= MaxJobs
<1> DEFINE e == [id |-> job, data |-> "notify"]
           more == Append(JQ!Without(q, job), e)
<1>1. more \in Seq(JQ!Entry)
  <2>1. e \in JQ!Entry
    BY DEF JQ!Entry
  <2> QED
    BY <2>1, WithoutIsQueue
<1>2. JQ!Added(q, job, "notify") = JQ!Evicted(more)
  BY DEF JQ!Added
<1> HIDE DEF more
<1>3. CASE Len(more) > MaxJobs
  <2>1. JQ!Evicted(more) = SubSeq(more, Len(more) - MaxJobs + 1, Len(more))
    BY <1>3 DEF JQ!Evicted
  <2>2. Len(more) \in Nat /\ MaxJobs \in Nat \ {0}
    BY <1>1, SessionAssumption
  <2>3. /\ SubSeq(more, Len(more) - MaxJobs + 1, Len(more)) \in Seq(JQ!Entry)
        /\ Len(SubSeq(more, Len(more) - MaxJobs + 1, Len(more))) = MaxJobs
    BY <1>1, <1>3, <2>2
  <2>4. JQ!Added(q, job, "notify") = SubSeq(more, Len(more) - MaxJobs + 1, Len(more))
    BY <1>2, <2>1
  <2>5. MaxJobs <= MaxJobs
    BY <2>2
  <2> QED
    BY <2>3, <2>4, <2>5, Zenon
<1>4. CASE ~(Len(more) > MaxJobs)
  BY <1>1, <1>2, <1>4, SessionAssumption DEF JQ!Evicted
<1> QED
  BY <1>3, <1>4
-----------------------------------------------------------------------------
(* The types.                                                              *)

LEMMA InitTyped == Init => Typed
<1> SUFFICES ASSUME Init PROVE Typed
  OBVIOUS
<1>1. /\ MaxRequests \in Nat /\ MaxJobs \in Nat
      /\ handling = None /\ p2m = "idle" /\ jobs = << >>
  BY SessionAssumption DEF Init
<1>2. Len(jobs) <= MaxJobs /\ jobs \in Seq(JQ!Entry) /\ DOMAIN pending = {}
  BY <1>1 DEF Init
<1>3. minerEof \in BOOLEAN /\ poolEof \in BOOLEAN /\ extranonce \in BOOLEAN
  BY Zenon DEF Init
<1>4. /\ run = "connecting" /\ m2p = "idle" /\ minerWriter = "open" /\ poolWriter = "none"
      /\ subscribeId = None /\ minDifficulty = None
      /\ difficulty = 1 /\ accepted = 0 /\ rejected = 0 /\ requests = 0
      /\ upstream = {} /\ told = 1 /\ submits = {} /\ verdicts = {} /\ counted = {}
      /\ stored = {} /\ unstored = {} /\ forwarded = {}
  BY DEF Init
<1> QED
  BY <1>1, <1>2, <1>3, <1>4 DEF Typed, TypeOK

\* What p2m does with a share, and then with its answer.
LEMMA AfterShareTypes ==
    ASSUME NEW r \in [answers : Serials, share : Serials], NEW acc, NEW rej, Typed,
           AfterShare(r, acc, rej)
    PROVE  /\ p2m' \in {"reading", "closing"}
           /\ handling' \in [answers : Serials, share : Serials] \union {None}
           /\ (handling' = None) = (p2m' \notin {"inserting", "closing"})
           /\ forwarded' \subseteq Serials
           /\ minerWriter' \in {"open", "closing", "closed"}
<1>1. r # None
  BY NoneAssumption DEF Serials
<1> QED
  BY <1>1 DEF AfterShare, Forward, Closing, Typed, TypeOK

LEMMA MinerLineTyped ==
    ASSUME Typed, MinerLine
    PROVE  Typed'
<1>1. PICK id \in IdsOfNextRequest :
        \/ MinerSubscribes(id)
        \/ \E md \in MinDifficulties \union {None} : MinerAuthorizes(id, md)
        \/ \E job \in JobId : MinerSubmits(id, job)
        \/ MinerSendsOther(id)
  BY DEF MinerLine
<1>2. id \in Nat /\ requests \in Nat
  <2>1. requests \in 0..MaxRequests
    BY DEF Typed, TypeOK
  <2> QED
    BY <2>1, SessionAssumption DEF IdsOfNextRequest
<1>3. PICK kind \in Kinds : ForwardToPool(id, kind)
  BY <1>1 DEF MinerSubscribes, MinerAuthorizes, MinerSubmits, MinerSendsOther, Kinds
<1>4. requests + 1 \in Serials /\ requests' = requests + 1
  BY <1>2, <1>3, SessionAssumption DEF ForwardToPool, Serials
<1>5. upstream' \subseteq [id : Nat, kind : Kinds, n : Serials]
  BY <1>2, <1>3, <1>4 DEF ForwardToPool, Typed, TypeOK
<1>6. subscribeId' \in Nat \union {None} /\ minDifficulty' \in MinDifficulties \union {None}
  BY <1>1, <1>2 DEF MinerSubscribes, MinerAuthorizes, MinerSubmits, MinerSendsOther,
                    Typed, TypeOK
<1>7. /\ \A i \in DOMAIN pending' : i \in Nat /\ pending'[i] \in Pending
      /\ submits' \subseteq Serials
  <2>1. CASE \E job \in JobId : MinerSubmits(id, job)
    BY <1>2, <1>4, <2>1 DEF MinerSubmits, Pending, Typed, TypeOK
  <2>2. CASE UNCHANGED <<pending, submits>>
    BY <2>2 DEF Pending, Typed, TypeOK
  <2> QED
    BY <1>1, <2>1, <2>2 DEF MinerSubscribes, MinerAuthorizes, MinerSendsOther
<1>8. /\ requests' \in 0..MaxRequests
      /\ UNCHANGED <<tasks, conns, extranonce, jobs, stats, handling, told,
                     verdicts, counted, stored, unstored, forwarded>>
  BY <1>3, <1>4 DEF ForwardToPool, Serials
<1> QED
  BY <1>5, <1>6, <1>7, <1>8 DEF Pending, Typed, TypeOK, tasks, conns, stats

LEMMA PoolLineTyped ==
    ASSUME Typed, PoolLine
    PROVE  Typed'
<1>1. ASSUME NEW job \in JobId, PoolNotifies(job) PROVE Typed'
  <2>1. jobs' \in Seq(JQ!Entry) /\ Len(jobs') <= MaxJobs
    BY <1>1, AddedIsQueue DEF PoolNotifies, Typed, TypeOK
  <2> QED
    BY <1>1, <2>1 DEF PoolNotifies, Typed, TypeOK, tasks, conns, stats, ghosts
<1>2. ASSUME NEW d \in Difficulties, PoolSetsDifficulty(d) PROVE Typed'
  <2>1. Effective(d) \in Nat \ {0}
    <3>1. d \in Nat \ {0}
      BY SessionAssumption
    <3>2. minDifficulty = None \/ minDifficulty \in Nat
      BY SessionAssumption DEF Typed, TypeOK
    <3> QED
      BY <3>1, <3>2 DEF Effective, Larger
  <2>2. told' \in Nat \ {0} /\ difficulty' \in Nat \ {0}
    BY <1>2, <2>1 DEF PoolSetsDifficulty, TellMiner, Typed, TypeOK
  <2>3. \A id \in DOMAIN pending' : id \in Nat /\ pending'[id] \in Pending
    <3> DEFINE e == Effective(d)
    <3>1. pending' = [id \in DOMAIN pending |->
                         [pending[id] EXCEPT !.since = @ \union {e}]]
      BY <1>2 DEF PoolSetsDifficulty, TellMiner
    <3>2. \A id \in DOMAIN pending : id \in Nat /\ pending[id] \in Pending
      BY DEF Pending, Typed, TypeOK
    <3>3. e \in Nat
      BY <2>1
    <3> HIDE DEF e
    <3> QED
      BY <3>1, <3>2, <3>3 DEF Pending
  <2> QED
    BY <1>2, <2>2, <2>3 DEF PoolSetsDifficulty, Pending, Typed, TypeOK, tasks, conns, ghosts
<1>3. ASSUME NEW r \in upstream, NEW ok \in BOOLEAN, PoolAnswers(r, ok) PROVE Typed'
  <2>1. /\ r \in [id : Nat, kind : Kinds, n : Serials]
        /\ p2m = "reading" /\ handling = None
    BY <1>3 DEF PoolAnswers, P2MReads, Typed, TypeOK
  <2>2. /\ upstream' \subseteq upstream
        /\ verdicts' \subseteq [n : Serials, ok : BOOLEAN]
        /\ UNCHANGED <<run, m2p, minerEof, poolEof, poolWriter, subscribeId, minDifficulty, jobs,
                       requests, told, submits, stored, unstored>>
    BY <1>3, <2>1 DEF PoolAnswers, Typed
  <2>3. /\ extranonce' \in BOOLEAN /\ difficulty' = difficulty
        /\ accepted' \in Nat /\ rejected' \in Nat
        /\ \A id \in DOMAIN pending' : id \in Nat /\ pending'[id] \in Pending
        /\ counted' \subseteq Share
        /\ p2m' \in {"idle", "reading", "inserting", "closing", "done", "cancelled"}
        /\ handling' \in [answers : Serials, share : Serials] \union {None}
        /\ (handling' = None) = (p2m' \notin {"inserting", "closing"})
        /\ forwarded' \subseteq Serials
        /\ minerWriter' \in {"open", "closing", "closed"}
    <3>1. CASE AnswerToSubscribe(r, ok)
      BY <2>1, <3>1 DEF AnswerToSubscribe, Forward, stats, Pending, Typed, TypeOK
    <3>2. CASE AnswerToSubmit(r, ok)
      <4> DEFINE h == [answers |-> r.n, share |-> pending[r.id].n]
      <4>1. pending[r.id] \in Pending
        BY <3>2 DEF AnswerToSubmit, Pending, Typed, TypeOK
      <4>2. h \in [answers : Serials, share : Serials]
        BY <2>1, <4>1 DEF Pending
      <4>3. /\ extranonce' \in BOOLEAN /\ difficulty' = difficulty
            /\ accepted' \in Nat /\ rejected' \in Nat
        BY <3>2 DEF AnswerToSubmit, Typed, TypeOK
      <4>4. \A id \in DOMAIN pending' : id \in Nat /\ pending'[id] \in Pending
        BY <3>2 DEF AnswerToSubmit, WithoutPending, Pending, Typed, TypeOK
      <4>5. counted' \subseteq Share
        <5>1. ShareOf(r.id, ok) \in Share
          BY <4>1 DEF ShareOf, JQ!Contains, Pending, Share, Typed, TypeOK
        <5> QED
          BY <3>2, <5>1 DEF AnswerToSubmit, Typed
      <4>6. CASE AfterShare(h, accepted', rejected')
        BY <4>2, <4>3, <4>4, <4>5, <4>6, AfterShareTypes
      <4>7. CASE /\ p2m' = "inserting" /\ handling' = h
                 /\ UNCHANGED <<minerWriter, forwarded>>
        <5>1. h # None
          BY <4>2, NoneAssumption DEF Serials
        <5> QED
          BY <4>2, <4>3, <4>4, <4>5, <4>7, <5>1 DEF Typed, TypeOK
      <4> QED
        BY <3>2, <4>6, <4>7 DEF AnswerToSubmit
    <3>3. CASE AnswerToOther(r)
      BY <2>1, <3>3 DEF AnswerToOther, Forward, stats, Pending, Typed, TypeOK
    <3> QED
      BY <1>3, <3>1, <3>2, <3>3 DEF PoolAnswers
  <2> QED
    BY <2>2, <2>3 DEF Pending, Typed, TypeOK
<1> QED
  BY <1>1, <1>2, <1>3 DEF PoolLine

LEMMA InsertTyped ==
    ASSUME Typed, Insert
    PROVE  Typed'
<1>1. p2m = "inserting" /\ handling \in [answers : Serials, share : Serials]
  BY DEF Insert, InsertDone, InsertFails, Typed, TypeOK
<1>2. AfterShare(handling, accepted, rejected)
  BY DEF Insert, InsertDone, InsertFails
<1>3. /\ stored' \subseteq Serials /\ unstored' \subseteq Serials
      /\ UNCHANGED <<run, m2p, minerEof, poolEof, poolWriter, proto, stats, requests, upstream,
                     told, submits, verdicts, counted>>
  BY <1>1 DEF Insert, InsertDone, InsertFails, Typed, TypeOK
<1> QED
  BY <1>1, <1>2, <1>3, AfterShareTypes DEF Typed, TypeOK, proto, stats

LEMMA MinerWasClosedTyped ==
    ASSUME Typed, MinerWasClosed
    PROVE  Typed'
<1>1. p2m = "closing" /\ handling \in [answers : Serials, share : Serials]
  BY DEF MinerWasClosed, Typed, TypeOK
<1> QED
  BY <1>1 DEF MinerWasClosed, Forward, Typed, TypeOK, conns, proto, stats

LEMMA CancelTheOtherTyped ==
    ASSUME Typed, CancelTheOther
    PROVE  Typed'
<1>1. p2m = "inserting" => handling \in [answers : Serials, share : Serials]
  BY DEF Typed, TypeOK
<1>2. stored' \subseteq Serials /\ unstored' \subseteq Serials
  BY <1>1 DEF CancelTheOther, Typed, TypeOK
<1>3. /\ m2p' \in {"done", "cancelled"} /\ p2m' \in {"done", "cancelled"}
      /\ handling' = None
  BY DEF CancelTheOther
<1> QED
  BY <1>2, <1>3 DEF CancelTheOther, Typed, TypeOK, conns, proto, stats

\* The steps that only move a program counter or a connection.
LEMMA PlainStepsTyped ==
    ASSUME Typed, Orderly,
           \/ MinerEnds \/ MinerLeaves \/ MinerCloseCompletes
           \/ PoolEnds \/ PoolLeaves \/ PoolCloseCompletes
           \/ Connect \/ ConnectFails \/ CleanupMiner \/ CleanupPool \/ CleanupDone
           \/ UNCHANGED vars
    PROVE  Typed'
<1>1. CASE MinerEnds \/ PoolEnds
  BY <1>1 DEF MinerEnds, PoolEnds, Typed, TypeOK, conns, proto, stats, ghosts
<1>2. CASE MinerLeaves \/ MinerCloseCompletes \/ PoolLeaves \/ PoolCloseCompletes
  <2>1. /\ minerEof' \in BOOLEAN /\ poolEof' \in BOOLEAN
        /\ minerWriter' \in {"open", "closing", "closed"}
        /\ poolWriter' \in {"none", "open", "closing", "closed"}
    BY <1>2, Zenon DEF MinerLeaves, MinerCloseCompletes, PoolLeaves, PoolCloseCompletes,
                       Typed, TypeOK
  <2>2. UNCHANGED <<tasks, proto, stats, handling, requests, upstream, told, ghosts>>
    BY <1>2 DEF MinerLeaves, MinerCloseCompletes, PoolLeaves, PoolCloseCompletes
  <2> QED
    BY <2>1, <2>2 DEF Typed, TypeOK, tasks, proto, stats, ghosts
<1>3. CASE Connect \/ ConnectFails
  <2>1. CASE Connect
    BY <2>1 DEF Connect, Orderly, Typed, TypeOK, proto, stats, ghosts
  <2>2. CASE ConnectFails
    BY <2>2 DEF ConnectFails, Typed, TypeOK, conns, proto, stats, ghosts
  <2> QED
    BY <1>3, <2>1, <2>2
<1>4. CASE CleanupMiner \/ CleanupPool \/ CleanupDone
  BY <1>4 DEF CleanupMiner, CleanupPool, CleanupDone, Closing, Typed, TypeOK,
              conns, proto, stats, ghosts
<1>5. CASE UNCHANGED vars
  BY <1>5 DEF Typed, TypeOK, vars, tasks, conns, proto, stats, ghosts
<1> QED
  BY <1>1, <1>2, <1>3, <1>4, <1>5

LEMMA NextTyped ==
    ASSUME Typed, Orderly, [Next]_vars
    PROVE  Typed'
  BY MinerLineTyped, PoolLineTyped, InsertTyped, MinerWasClosedTyped, CancelTheOtherTyped,
     PlainStepsTyped
  DEF Next, RunStep
-----------------------------------------------------------------------------
(* The order of a session.                                                 *)

LEMMA InitOrderly == Init => Orderly
  BY DEF Init, Orderly, TasksEndBeforeCleanup

LEMMA NextOrderly ==
    ASSUME Typed, Orderly, [Next]_vars
    PROVE  Orderly'
<1>1. CASE MinerLine
  <2>1. UNCHANGED <<run, m2p, p2m, verdicts>>
    BY <1>1 DEF MinerLine, MinerSubscribes, MinerAuthorizes, MinerSubmits, MinerSendsOther,
                ForwardToPool, tasks
  <2> QED
    BY <2>1 DEF Orderly, TasksEndBeforeCleanup
<1>2. CASE PoolLine
  <2>1. p2m = "reading" /\ UNCHANGED <<run, m2p>>
    BY <1>2 DEF PoolLine, PoolNotifies, PoolSetsDifficulty, PoolAnswers, P2MReads, tasks
  <2> QED
    BY <2>1 DEF Orderly, TasksEndBeforeCleanup, Over
<1>3. CASE Insert \/ MinerWasClosed
  <2>1. p2m \in {"inserting", "closing"} /\ UNCHANGED <<run, m2p>>
    BY <1>3 DEF Insert, InsertDone, InsertFails, MinerWasClosed
  <2> QED
    BY <2>1 DEF Orderly, TasksEndBeforeCleanup, Over
<1>4. CASE Connect \/ ConnectFails \/ CancelTheOther
  BY <1>4 DEF Connect, ConnectFails, CancelTheOther, Orderly, TasksEndBeforeCleanup, Over
<1>5. CASE CleanupMiner \/ CleanupPool \/ CleanupDone
  BY <1>5 DEF CleanupMiner, CleanupPool, CleanupDone, ghosts,
              Orderly, TasksEndBeforeCleanup
<1>6. CASE MinerEnds \/ PoolEnds
  BY <1>6 DEF MinerEnds, PoolEnds, ghosts, Orderly, TasksEndBeforeCleanup, Over
<1>7. CASE MinerLeaves \/ MinerCloseCompletes \/ PoolLeaves \/ PoolCloseCompletes
           \/ UNCHANGED vars
  <2>1. UNCHANGED <<run, m2p, p2m, verdicts>>
    BY <1>7 DEF MinerLeaves, MinerCloseCompletes, PoolLeaves, PoolCloseCompletes,
                tasks, ghosts, vars
  <2> QED
    BY <2>1 DEF Orderly, TasksEndBeforeCleanup
<1> QED
  BY <1>1, <1>2, <1>3, <1>4, <1>5, <1>6, <1>7 DEF Next, RunStep
-----------------------------------------------------------------------------
(* The difficulty credited.                                                *)

\* The statistics hold the difficulty last sent to the miner, or still the 1 they
\* start with when nothing was sent since the subscribe; and a pending submit
\* remembers the difficulty last sent, whether it came before or after it.
ToldInv ==
    /\ difficulty \in {1, told}
    /\ subscribeId = None => difficulty = 1
    /\ \A id \in DOMAIN pending : told \in pending[id].since
    /\ CreditedAsTold

LEMMA InitTold == Init => ToldInv
  BY DEF Init, ToldInv, CreditedAsTold

\* A line of the miner: a submit is pending with what was last sent.
LEMMA MinerLineTold ==
    ASSUME Typed, ToldInv, MinerLine
    PROVE  ToldInv'
<1>1. PICK id \in IdsOfNextRequest :
        \/ MinerSubscribes(id)
        \/ \E md \in MinDifficulties \union {None} : MinerAuthorizes(id, md)
        \/ \E job \in JobId : MinerSubmits(id, job)
        \/ MinerSendsOther(id)
  BY DEF MinerLine
<1>2. UNCHANGED <<difficulty, told, counted>>
  BY <1>1 DEF MinerSubscribes, MinerAuthorizes, MinerSubmits, MinerSendsOther,
              ForwardToPool, stats
<1>3. subscribeId' = None => subscribeId = None
  <2>1. requests \in 0..MaxRequests /\ Ids \subseteq Nat /\ None \notin Nat
    BY SessionAssumption DEF Typed, TypeOK
  <2>2. id \in Nat
    BY <2>1, SessionAssumption DEF IdsOfNextRequest
  <2> QED
    BY <1>1, <2>1, <2>2 DEF MinerSubscribes, MinerAuthorizes, MinerSubmits, MinerSendsOther
<1>4. \A i \in DOMAIN pending' : told \in pending'[i].since
  <2>1. CASE \E job \in JobId : MinerSubmits(id, job)
    BY <2>1 DEF MinerSubmits, ToldInv
  <2>2. CASE UNCHANGED pending
    BY <2>2 DEF ToldInv
  <2> QED
    BY <1>1, <2>1, <2>2 DEF MinerSubscribes, MinerAuthorizes, MinerSendsOther
<1> QED
  BY <1>2, <1>3, <1>4 DEF ToldInv, CreditedAsTold

\* An adjustment is added to what every pending submit remembers; it reaches the
\* statistics only after the subscribe.
LEMMA AdjustmentTold ==
    ASSUME Typed, ToldInv, NEW d \in Difficulties, PoolSetsDifficulty(d)
    PROVE  ToldInv'
<1>1. /\ told' = Effective(d) /\ UNCHANGED <<subscribeId, counted>>
      /\ subscribeId # None => difficulty' = Effective(d)
      /\ subscribeId = None => difficulty' = difficulty
  BY DEF PoolSetsDifficulty, TellMiner, Subscribed, ghosts
<1>2. difficulty' \in {1, told'} /\ (subscribeId' = None => difficulty' = 1)
  BY <1>1 DEF ToldInv
<1>3. \A id \in DOMAIN pending' : told' \in pending'[id].since
  <2>1. \A id \in DOMAIN pending : pending[id] \in Pending
    BY DEF Pending, Typed, TypeOK
  <2> QED
    BY <1>1, <2>1 DEF PoolSetsDifficulty, TellMiner, Pending
<1> QED
  BY <1>1, <1>2, <1>3 DEF ToldInv, CreditedAsTold

\* An answer counts a pending submit with the difficulty of the statistics.
LEMMA AnswerTold ==
    ASSUME ToldInv, NEW r \in upstream, NEW ok \in BOOLEAN, PoolAnswers(r, ok)
    PROVE  ToldInv'
<1>1. UNCHANGED <<told, subscribeId>>
  BY DEF PoolAnswers
<1>2. CASE AnswerToSubmit(r, ok)
  <2>1. /\ r.id \in DOMAIN pending /\ difficulty' = difficulty
        /\ counted' = counted \union {ShareOf(r.id, ok)}
        /\ pending' = WithoutPending(r.id)
    BY <1>2 DEF AnswerToSubmit
  <2>2. /\ ShareOf(r.id, ok).credit = difficulty
        /\ ShareOf(r.id, ok).since = pending[r.id].since
    BY DEF ShareOf
  <2>3. ShareOf(r.id, ok).credit \in ShareOf(r.id, ok).since \union {1}
    BY <2>1, <2>2 DEF ToldInv
  <2>4. CreditedAsTold'
    BY <2>1, <2>3 DEF ToldInv, CreditedAsTold
  <2>5. \A id \in DOMAIN pending' : told \in pending'[id].since
    BY <2>1 DEF WithoutPending, ToldInv
  <2> QED
    BY <1>1, <2>1, <2>4, <2>5 DEF ToldInv
<1>3. CASE AnswerToSubscribe(r, ok) \/ AnswerToOther(r)
  BY <1>1, <1>3 DEF AnswerToSubscribe, AnswerToOther, stats, ToldInv, CreditedAsTold
<1> QED
  BY <1>2, <1>3 DEF PoolAnswers

LEMMA NextTold ==
    ASSUME Typed, ToldInv, [Next]_vars
    PROVE  ToldInv'
<1>1. ASSUME UNCHANGED <<difficulty, told, subscribeId, pending, counted>> PROVE ToldInv'
  BY <1>1 DEF ToldInv, CreditedAsTold
<1>2. ASSUME NEW job \in JobId, PoolNotifies(job) PROVE ToldInv'
  BY <1>1, <1>2 DEF PoolNotifies, stats, ghosts
<1>3. CASE PoolLine
  BY <1>2, <1>3, AdjustmentTold, AnswerTold DEF PoolLine
<1>4. CASE Insert \/ MinerWasClosed
  BY <1>1, <1>4 DEF Insert, InsertDone, InsertFails, MinerWasClosed, proto, stats
<1>5. CASE RunStep
  BY <1>1, <1>5 DEF RunStep, Connect, ConnectFails, CancelTheOther, CleanupMiner, CleanupPool,
                    CleanupDone, proto, stats, ghosts
<1>6. CASE \/ MinerEnds \/ MinerLeaves \/ MinerCloseCompletes
           \/ PoolEnds \/ PoolLeaves \/ PoolCloseCompletes \/ UNCHANGED vars
  BY <1>1, <1>6 DEF MinerEnds, MinerLeaves, MinerCloseCompletes, PoolEnds, PoolLeaves,
                    PoolCloseCompletes, vars, proto, stats, ghosts
<1> QED
  BY <1>3, <1>4, <1>5, <1>6, MinerLineTold DEF Next
-----------------------------------------------------------------------------
IInv == Typed /\ Orderly /\ ToldInv

\* The inductive invariant of any session holds throughout.
THEOREM SessionInvariance == Spec => []IInv
<1>1. Init => IInv
  BY InitTyped, InitOrderly, InitTold DEF IInv
<1>2. IInv /\ [Next]_vars => IInv'
  BY NextTyped, NextOrderly, NextTold DEF IInv
<1> QED
  BY <1>1, <1>2, PTL DEF Spec

\* The session keeps its types, and its queue of jobs its size (TypeOK of the
\* run miner_session).
THEOREM SessionTypes == Spec => []TypeOK
<1>1. IInv => TypeOK
  BY DEF IInv, Typed
<1> QED
  BY <1>1, SessionInvariance, PTL

\* Connections are closed only after both forwarding tasks are over, wherever
\* they were when the first of them returned (MinerSession.run).
THEOREM OrderlyEnd == Spec => []TasksEndBeforeCleanup
<1>1. IInv => TasksEndBeforeCleanup
  BY DEF IInv, Orderly
<1> QED
  BY <1>1, SessionInvariance, PTL

\* A share is credited with a difficulty its miner was told between the submit and
\* the answer, or the 1 the statistics start with, whatever the pool's adjustments
\* cross.
THEOREM CreditedDifficultyWasTold == Spec => []CreditedAsTold
<1>1. IInv => CreditedAsTold
  BY DEF IInv, ToldInv
<1> QED
  BY <1>1, SessionInvariance, PTL
-----------------------------------------------------------------------------
(* What becomes of a submit, when the miner numbers its requests.  The     *)
(* invariant says what an id stands for: a request on its way, a submit    *)
(* that is pending or one that is counted.                                 *)

Numbered ==
    /\ submits \subseteq 1..requests
    /\ subscribeId # None => subscribeId \in (1..requests) \ submits
    /\ \A r \in upstream : r.id = r.n /\ r.n \in 1..requests
    /\ \A r \in upstream : r.kind = "submit" <=> r.n \in submits
    /\ \A r, q \in upstream : r.n = q.n => r = q
    /\ \A id \in DOMAIN pending : id \in submits /\ pending[id].n = id
    /\ \A r \in upstream : r.n \in submits => r.n \in DOMAIN pending
    /\ \A c \in counted : c.n \in submits \ DOMAIN pending

Counts ==
    /\ SubmitsAccounted /\ AnsweredSubmitsAreCounted
    /\ IsFiniteSet(submits) /\ IsFiniteSet(DOMAIN pending) /\ IsFiniteSet(counted)

SInv ==
    /\ IInv /\ FreshIds = TRUE
    /\ Numbered /\ Counts /\ StoredAreTheAccepted /\ AnswersReachMiner

\* The lines of a miner that numbers its requests.
LEMMA MinerLines ==
    ASSUME SInv, MinerLine
    PROVE  /\ requests \in Nat /\ requests' = requests + 1
           /\ \E kind \in Kinds :
                /\ upstream' \subseteq
                     upstream \union {[id |-> requests + 1, kind |-> kind, n |-> requests + 1]}
                /\ \/ /\ kind = "submit"
                      /\ submits' = submits \union {requests + 1}
                      /\ DOMAIN pending' = DOMAIN pending \union {requests + 1}
                      /\ pending'[requests + 1].n = requests + 1
                      /\ \A id \in DOMAIN pending :
                            id # requests + 1 => pending'[id] = pending[id]
                      /\ subscribeId' = subscribeId
                   \/ /\ kind # "submit"
                      /\ UNCHANGED <<pending, submits>>
                      /\ subscribeId' \in {subscribeId, requests + 1}
           /\ UNCHANGED <<tasks, conns, extranonce, jobs, stats, handling, told,
                          verdicts, counted, stored, unstored, forwarded>>
<1> DEFINE id == requests + 1
<1>1. /\ requests \in Nat
      /\ \/ MinerSubscribes(id)
         \/ \E md \in MinDifficulties \union {None} : MinerAuthorizes(id, md)
         \/ \E job \in JobId : MinerSubmits(id, job)
         \/ MinerSendsOther(id)
  BY DEF MinerLine, IdsOfNextRequest, SInv, IInv, Typed, TypeOK
<1>2. ASSUME NEW kind \in Kinds, ForwardToPool(id, kind)
      PROVE  /\ requests' = requests + 1
             /\ upstream' \subseteq
                  upstream \union {[id |-> requests + 1, kind |-> kind, n |-> requests + 1]}
             /\ UNCHANGED <<tasks, conns, extranonce, jobs, stats, handling, told,
                            verdicts, counted, stored, unstored, forwarded>>
  BY <1>2 DEF ForwardToPool
<1>3. ASSUME NEW job \in JobId, MinerSubmits(id, job)
      PROVE  /\ submits' = submits \union {requests + 1}
             /\ DOMAIN pending' = DOMAIN pending \union {requests + 1}
             /\ pending'[requests + 1].n = requests + 1
             /\ \A i \in DOMAIN pending : i # requests + 1 => pending'[i] = pending[i]
             /\ subscribeId' = subscribeId
             /\ ForwardToPool(id, "submit")
  BY <1>3 DEF MinerSubmits
<1>4. CASE MinerSubscribes(id)
  <2>1. /\ ForwardToPool(id, "subscribe") /\ UNCHANGED <<pending, submits>>
        /\ subscribeId' = requests + 1
    BY <1>4 DEF MinerSubscribes
  <2> QED
    BY <1>1, <1>2, <2>1 DEF Kinds
<1>5. CASE \E md \in MinDifficulties \union {None} : MinerAuthorizes(id, md)
  <2>1. ForwardToPool(id, "authorize") /\ UNCHANGED <<pending, submits, subscribeId>>
    BY <1>5 DEF MinerAuthorizes
  <2> QED
    BY <1>1, <1>2, <2>1 DEF Kinds
<1>6. CASE \E job \in JobId : MinerSubmits(id, job)
  <2>1. PICK job \in JobId : MinerSubmits(id, job)
    BY <1>6
  <2> QED
    BY <1>1, <1>2, <1>3, <2>1 DEF Kinds
<1>7. CASE MinerSendsOther(id)
  <2>1. ForwardToPool(id, "other") /\ UNCHANGED <<pending, submits, subscribeId>>
    BY <1>7 DEF MinerSendsOther
  <2> QED
    BY <1>1, <1>2, <2>1 DEF Kinds
<1> QED
  BY <1>1, <1>4, <1>5, <1>6, <1>7

\* The answer to a submit is taken for what it is, and no other answer is.
LEMMA Answers ==
    ASSUME SInv, NEW r \in upstream, NEW ok \in BOOLEAN, PoolAnswers(r, ok)
    PROVE  /\ upstream' = upstream \ {r} /\ p2m = "reading" /\ handling = None
           /\ UNCHANGED <<requests, submits, subscribeId, stored, unstored, run>>
           /\ \/ /\ r.kind = "submit" /\ r.n \in DOMAIN pending /\ pending[r.n].n = r.n
                 /\ r.id = r.n /\ AnswerToSubmit(r, ok)
                 /\ verdicts' = verdicts \union {[n |-> r.n, ok |-> ok]}
              \/ /\ r.kind # "submit"
                 /\ UNCHANGED <<verdicts, pending, accepted, rejected, counted, minerWriter>>
                 /\ p2m' = "reading" /\ handling' = None /\ forwarded \subseteq forwarded'
<1>1. /\ upstream' = upstream \ {r} /\ p2m = "reading" /\ handling = None
      /\ UNCHANGED <<requests, submits, subscribeId, stored, unstored, run>>
  BY DEF PoolAnswers, P2MReads, SInv, IInv, Typed, TypeOK
<1>2. CASE r.kind = "submit"
  <2>1. r.n \in submits /\ r.id = r.n /\ r.n \in DOMAIN pending /\ pending[r.n].n = r.n
    BY <1>2 DEF SInv, Numbered
  <2>2. r.id # subscribeId
    <3>1. CASE subscribeId = None
      BY <2>1, <3>1, SessionAssumption DEF SInv, IInv, Typed, TypeOK, Serials
    <3>2. CASE subscribeId # None
      BY <2>1, <3>2 DEF SInv, Numbered
    <3> QED
      BY <3>1, <3>2
  <2>3. AnswerToSubmit(r, ok)
    BY <2>1, <2>2 DEF PoolAnswers, AnswerToSubscribe, AnswerToOther
  <2>4. verdicts' = verdicts \union {[n |-> r.n, ok |-> ok]}
    BY <1>2 DEF PoolAnswers
  <2> QED
    BY <1>1, <1>2, <2>1, <2>3, <2>4
<1>3. CASE r.kind # "submit"
  <2>1. r.id \notin DOMAIN pending
    BY <1>3 DEF SInv, Numbered
  <2>2. AnswerToSubscribe(r, ok) \/ AnswerToOther(r)
    BY <2>1 DEF PoolAnswers, AnswerToSubmit
  <2>3. /\ UNCHANGED <<pending, stats, counted, minerWriter>>
        /\ p2m' = "reading" /\ handling' = None /\ forwarded \subseteq forwarded'
    BY <1>1, <2>2 DEF AnswerToSubscribe, AnswerToOther, Forward
  <2>4. verdicts' = verdicts
    BY <1>3 DEF PoolAnswers
  <2> QED
    BY <1>1, <1>3, <2>3, <2>4 DEF stats
<1> QED
  BY <1>2, <1>3

\* The books of an answered submit, before its insert.
LEMMA SubmitAnswered ==
    ASSUME SInv, NEW r \in upstream, NEW ok \in BOOLEAN, AnswerToSubmit(r, ok),
           r.id = r.n, r.n \in DOMAIN pending, pending[r.n].n = r.n
    PROVE  /\ DOMAIN pending' = DOMAIN pending \ {r.n}
           /\ \A id \in DOMAIN pending' : pending'[id] = pending[id]
           /\ ShareOf(r.id, ok).n = r.n /\ ShareOf(r.id, ok).ok = ok
           /\ ShareOf(r.id, ok).scored \in BOOLEAN
           /\ counted' = counted \union {ShareOf(r.id, ok)}
           /\ accepted' = (IF ok THEN accepted + 1 ELSE accepted)
           /\ rejected' = (IF ok THEN rejected ELSE rejected + 1)
<1>1. /\ DOMAIN pending' = DOMAIN pending \ {r.n}
      /\ \A id \in DOMAIN pending' : pending'[id] = pending[id]
  BY DEF AnswerToSubmit, WithoutPending
<1>2. (extranonce /\ JQ!Contains(jobs, pending[r.id].job)) \in BOOLEAN
  BY DEF JQ!Contains, SInv, IInv, Typed, TypeOK
<1> QED
  BY <1>1, <1>2 DEF AnswerToSubmit, ShareOf
-----------------------------------------------------------------------------
(* Ids.                                                                    *)

LEMMA MinerLineNumbered ==
    ASSUME SInv, MinerLine
    PROVE  Numbered'
<1>1. PICK kind \in Kinds :
        /\ upstream' \subseteq
             upstream \union {[id |-> requests + 1, kind |-> kind, n |-> requests + 1]}
        /\ \/ /\ kind = "submit"
              /\ submits' = submits \union {requests + 1}
              /\ DOMAIN pending' = DOMAIN pending \union {requests + 1}
              /\ pending'[requests + 1].n = requests + 1
              /\ \A id \in DOMAIN pending : id # requests + 1 => pending'[id] = pending[id]
              /\ subscribeId' = subscribeId
           \/ /\ kind # "submit"
              /\ UNCHANGED <<pending, submits>>
              /\ subscribeId' \in {subscribeId, requests + 1}
  BY MinerLines
<1>2. requests \in Nat /\ requests' = requests + 1 /\ counted' = counted
  BY MinerLines
<1>3. Numbered
  BY DEF SInv
<1>4. /\ submits' \subseteq 1..requests'
      /\ subscribeId' # None => subscribeId' \in (1..requests') \ submits'
  <2>1. /\ submits \subseteq 1..requests /\ 1..requests \subseteq 1..requests'
        /\ requests + 1 \in 1..requests' /\ requests + 1 \notin 1..requests
    BY <1>2, <1>3 DEF Numbered
  <2>2. /\ submits' \subseteq submits \union {requests + 1}
        /\ kind # "submit" => submits' = submits
    BY <1>1
  <2>3. CASE subscribeId' = subscribeId
    <3>1. subscribeId # None => subscribeId \in (1..requests) \ submits
      BY <1>3 DEF Numbered
    <3> QED
      BY <2>1, <2>2, <2>3, <3>1
  <2>4. CASE kind # "submit" /\ subscribeId' = requests + 1
    BY <2>1, <2>2, <2>4
  <2> QED
    BY <1>1, <2>3, <2>4
<1>5. \A q \in upstream' :
        \/ q \in upstream /\ q.n # requests + 1
        \/ q.id = requests + 1 /\ q.n = requests + 1 /\ q.kind = kind
  BY <1>1, <1>2, <1>3 DEF Numbered
<1>6. /\ \A q \in upstream' : q.id = q.n /\ q.n \in 1..requests'
      /\ \A q \in upstream' : q.kind = "submit" <=> q.n \in submits'
      /\ \A q \in upstream' : q.n \in submits' => q.n \in DOMAIN pending'
  BY <1>1, <1>2, <1>3, <1>5 DEF Numbered
<1>7. \A p, q \in upstream' : p.n = q.n => p = q
  BY <1>1, <1>2, <1>3 DEF Numbered
<1>8. /\ \A id \in DOMAIN pending' : id \in submits' /\ pending'[id].n = id
      /\ \A c \in counted' : c.n \in submits' \ DOMAIN pending'
  <2>1. CASE kind = "submit"
    BY <1>1, <1>2, <1>3, <2>1 DEF Numbered
  <2>2. CASE kind # "submit"
    BY <1>1, <1>2, <1>3, <2>2 DEF Numbered
  <2> QED
    BY <2>1, <2>2
<1> QED
  BY <1>4, <1>6, <1>7, <1>8 DEF Numbered

LEMMA PoolAnswersNumbered ==
    ASSUME SInv, NEW r \in upstream, NEW ok \in BOOLEAN, PoolAnswers(r, ok)
    PROVE  Numbered'
<1>1. /\ upstream' = upstream \ {r} /\ UNCHANGED <<requests, submits, subscribeId>>
      /\ Numbered
  BY Answers DEF SInv
<1>2. CASE r.kind # "submit"
  BY <1>1, <1>2, Answers DEF Numbered
<1>3. CASE r.kind = "submit"
  <2>1. /\ AnswerToSubmit(r, ok) /\ r.id = r.n
        /\ r.n \in DOMAIN pending /\ pending[r.n].n = r.n
    BY <1>3, Answers
  <2>2. PICK share : /\ share.n = r.n /\ counted' = counted \union {share}
    BY <2>1, SubmitAnswered
  <2>3. /\ DOMAIN pending' = DOMAIN pending \ {r.n}
        /\ \A id \in DOMAIN pending' : pending'[id] = pending[id]
    BY <2>1, SubmitAnswered
  <2> QED
    BY <1>1, <2>1, <2>2, <2>3 DEF Numbered
<1> QED
  BY <1>2, <1>3
-----------------------------------------------------------------------------
(* Counters.                                                               *)

LEMMA MinerLineCounts ==
    ASSUME SInv, MinerLine
    PROVE  Counts'
<1>1. UNCHANGED <<accepted, rejected, counted, verdicts>> /\ requests \in Nat
  BY MinerLines DEF stats
<1>2. AnsweredSubmitsAreCounted' /\ IsFiniteSet(counted')
  BY <1>1 DEF SInv, Counts, AnsweredSubmitsAreCounted
<1>3. CASE UNCHANGED <<pending, submits>>
  BY <1>1, <1>2, <1>3 DEF SInv, Counts, SubmitsAccounted
<1>4. CASE /\ submits' = submits \union {requests + 1}
           /\ DOMAIN pending' = DOMAIN pending \union {requests + 1}
  <2>1. requests + 1 \notin submits /\ requests + 1 \notin DOMAIN pending
    BY <1>1 DEF SInv, Numbered
  <2>2. IsFiniteSet(submits) /\ IsFiniteSet(DOMAIN pending)
    BY DEF SInv, Counts
  <2>3. /\ IsFiniteSet(submits') /\ Cardinality(submits') = Cardinality(submits) + 1
        /\ IsFiniteSet(DOMAIN pending')
        /\ Cardinality(DOMAIN pending') = Cardinality(DOMAIN pending) + 1
    BY <1>4, <2>1, <2>2, FS_AddElement
  <2>4. /\ Cardinality(submits) \in Nat /\ Cardinality(DOMAIN pending) \in Nat
        /\ accepted \in Nat /\ rejected \in Nat
        /\ Cardinality(submits) = accepted + rejected + Cardinality(DOMAIN pending)
    BY <2>2, FS_CardinalityType DEF SInv, Counts, SubmitsAccounted, IInv, Typed, TypeOK
  <2>5. SubmitsAccounted'
    BY <1>1, <2>3, <2>4 DEF SubmitsAccounted
  <2> QED
    BY <1>2, <2>3, <2>5 DEF Counts
<1> QED
  BY <1>3, <1>4, MinerLines

LEMMA PoolAnswersCounts ==
    ASSUME SInv, NEW r \in upstream, NEW ok \in BOOLEAN, PoolAnswers(r, ok)
    PROVE  Counts'
<1>1. CASE r.kind # "submit"
  BY <1>1, Answers DEF SInv, Counts, SubmitsAccounted, AnsweredSubmitsAreCounted
<1>2. CASE r.kind = "submit"
  <2>1. /\ AnswerToSubmit(r, ok) /\ r.id = r.n
        /\ r.n \in DOMAIN pending /\ pending[r.n].n = r.n
        /\ verdicts' = verdicts \union {[n |-> r.n, ok |-> ok]} /\ submits' = submits
    BY <1>2, Answers
  <2>2. ShareOf(r.id, ok).n = r.n /\ ShareOf(r.id, ok).ok = ok
    BY <2>1, SubmitAnswered
  <2> DEFINE share == ShareOf(r.id, ok)
             good == {c \in counted : c.ok}
             bad == {c \in counted : ~c.ok}
  <2>3. /\ counted' = counted \union {share}
        /\ accepted' = (IF ok THEN accepted + 1 ELSE accepted)
        /\ rejected' = (IF ok THEN rejected ELSE rejected + 1)
        /\ DOMAIN pending' = DOMAIN pending \ {r.n}
    BY <2>1, SubmitAnswered
  <2>4. share.n = r.n /\ share.ok = ok
    BY <2>2
  <2> HIDE DEF share
  <2>5. share \notin counted
    BY <2>1, <2>4 DEF SInv, Numbered
  <2>6. /\ IsFiniteSet(counted) /\ IsFiniteSet(submits) /\ IsFiniteSet(DOMAIN pending)
        /\ accepted = Cardinality(good) /\ rejected = Cardinality(bad)
        /\ {[n |-> c.n, ok |-> c.ok] : c \in counted} = verdicts
        /\ Cardinality(submits) = accepted + rejected + Cardinality(DOMAIN pending)
    BY DEF SInv, Counts, SubmitsAccounted, AnsweredSubmitsAreCounted
  <2>7. /\ IsFiniteSet(good) /\ IsFiniteSet(bad)
        /\ Cardinality(good) \in Nat /\ Cardinality(bad) \in Nat
        /\ Cardinality(DOMAIN pending) \in Nat /\ IsFiniteSet(counted')
    BY <2>3, <2>6, FS_Subset, FS_CardinalityType, FS_AddElement
  <2>8. /\ IsFiniteSet(DOMAIN pending')
        /\ Cardinality(DOMAIN pending') = Cardinality(DOMAIN pending) - 1
    BY <2>1, <2>3, <2>6, FS_RemoveElement
  <2>9. {[n |-> c.n, ok |-> c.ok] : c \in counted'} = verdicts'
    BY <2>1, <2>3, <2>4, <2>6
  <2>10. CASE ok
    <3>1. {c \in counted' : c.ok} = good \union {share} /\ {c \in counted' : ~c.ok} = bad
      BY <2>3, <2>4, <2>10
    <3>2. Cardinality(good \union {share}) = Cardinality(good) + 1
      BY <2>5, <2>7, FS_AddElement
    <3>3. SubmitsAccounted'
      BY <2>1, <2>3, <2>6, <2>7, <2>8, <2>10 DEF SubmitsAccounted
    <3>4. /\ accepted' = Cardinality({c \in counted' : c.ok})
          /\ rejected' = Cardinality({c \in counted' : ~c.ok})
      BY <2>3, <2>6, <2>10, <3>1, <3>2
    <3> QED
      BY <2>1, <2>6, <2>7, <2>8, <2>9, <3>3, <3>4 DEF Counts, AnsweredSubmitsAreCounted
  <2>11. CASE ~ok
    <3>1. {c \in counted' : c.ok} = good /\ {c \in counted' : ~c.ok} = bad \union {share}
      BY <2>3, <2>4, <2>11
    <3>2. Cardinality(bad \union {share}) = Cardinality(bad) + 1
      BY <2>5, <2>7, FS_AddElement
    <3>3. SubmitsAccounted'
      BY <2>1, <2>3, <2>6, <2>7, <2>8, <2>11 DEF SubmitsAccounted
    <3>4. /\ accepted' = Cardinality({c \in counted' : c.ok})
          /\ rejected' = Cardinality({c \in counted' : ~c.ok})
      BY <2>3, <2>6, <2>11, <3>1, <3>2
    <3> QED
      BY <2>1, <2>6, <2>7, <2>8, <2>9, <3>3, <3>4 DEF Counts, AnsweredSubmitsAreCounted
  <2> QED
    BY <2>10, <2>11
<1> QED
  BY <1>1, <1>2
-----------------------------------------------------------------------------
(* The database.                                                           *)

\* Serials that are due in the database, and those being inserted.
Due == {c.n : c \in {d \in counted : d.ok /\ d.scored /\ HasDb}}
Running == IF p2m = "inserting" THEN {handling.share} ELSE {}

LEMMA StoredIs ==
    StoredAreTheAccepted <=>
        /\ Due = stored \union unstored \union Running
        /\ stored \intersect unstored = {}
        /\ Running \intersect (stored \union unstored) = {}
  BY DEF StoredAreTheAccepted, Due, Running

\* p2m goes on after a share.
LEMMA GoesOnAfterShare ==
    ASSUME NEW r, NEW acc, NEW rej, AfterShare(r, acc, rej)
    PROVE  Running' = {}
  BY DEF AfterShare, Forward, Running

LEMMA PoolAnswersStored ==
    ASSUME SInv, NEW r \in upstream, NEW ok \in BOOLEAN, PoolAnswers(r, ok)
    PROVE  StoredAreTheAccepted'
<1>1. /\ UNCHANGED <<stored, unstored>> /\ Running = {}
      /\ Due = stored \union unstored /\ stored \intersect unstored = {}
  BY Answers, StoredIs DEF SInv, Running
<1>2. CASE r.kind # "submit"
  <2>1. Due' = Due /\ Running' = {}
    BY <1>2, Answers DEF Due, Running
  <2> QED
    BY <1>1, <2>1 DEF StoredAreTheAccepted, Due, Running
<1>3. CASE r.kind = "submit"
  <2>1. /\ AnswerToSubmit(r, ok) /\ r.id = r.n
        /\ r.n \in DOMAIN pending /\ pending[r.n].n = r.n
    BY <1>3, Answers
  <2> DEFINE share == ShareOf(r.id, ok)
  <2>2. share.n = r.n /\ counted' = counted \union {share}
    BY <2>1, SubmitAnswered
  <2>3. r.n \notin Due
    BY <2>1 DEF SInv, Numbered, Due
  <2>4. ToBeStored(share) <=> share.ok /\ share.scored /\ HasDb
    BY DEF ToBeStored
  <2>5. \/ ToBeStored(share) /\ Running' = {r.n}
        \/ ~ToBeStored(share) /\ Running' = {}
    BY <2>1, GoesOnAfterShare DEF AnswerToSubmit, Running
  <2> HIDE DEF share
  <2>6. CASE ToBeStored(share)
    <3>1. Due' = Due \union {r.n}
      BY <2>2, <2>4, <2>6 DEF Due
    <3> QED
      BY <1>1, <2>3, <2>5, <2>6, <3>1 DEF StoredAreTheAccepted, Due, Running
  <2>7. CASE ~ToBeStored(share)
    <3>1. Due' = Due
      BY <2>2, <2>4, <2>7 DEF Due
    <3> QED
      BY <1>1, <2>5, <2>7, <3>1 DEF StoredAreTheAccepted, Due, Running
  <2> QED
    BY <2>6, <2>7
<1> QED
  BY <1>2, <1>3

\* An insert ends, with its share stored or not.
LEMMA InsertStored ==
    ASSUME StoredAreTheAccepted, counted' = counted, Running' = {},
           \/ stored' = stored \union Running /\ unstored' = unstored
           \/ unstored' = unstored \union Running /\ stored' = stored
    PROVE  StoredAreTheAccepted'
<1>1. Due' = Due
  BY DEF Due
<1>2. /\ Due = stored \union unstored \union Running
      /\ stored \intersect unstored = {}
      /\ Running \intersect (stored \union unstored) = {}
  BY StoredIs
<1>3. /\ Due' = stored' \union unstored' \union Running'
      /\ stored' \intersect unstored' = {}
      /\ Running' \intersect (stored' \union unstored') = {}
  BY <1>1, <1>2
<1> QED
  BY <1>3 DEF StoredAreTheAccepted, Due, Running

LEMMA NextStored ==
    ASSUME SInv, [Next]_vars
    PROVE  StoredAreTheAccepted'
<1>1. StoredAreTheAccepted /\ Typed
  BY DEF SInv, IInv
<1>2. ASSUME UNCHANGED <<counted, stored, unstored>>, Running' = Running
      PROVE  StoredAreTheAccepted'
  BY <1>1, <1>2 DEF StoredAreTheAccepted, Running
<1>3. CASE MinerLine
  BY <1>2, <1>3, MinerLines DEF Running, tasks
<1>4. CASE PoolLine
  <2>1. ASSUME NEW r \in upstream, NEW ok \in BOOLEAN, PoolAnswers(r, ok)
        PROVE  StoredAreTheAccepted'
    BY <2>1, PoolAnswersStored
  <2>2. ASSUME NEW job \in JobId, PoolNotifies(job) PROVE StoredAreTheAccepted'
    BY <1>2, <2>2 DEF PoolNotifies, tasks, ghosts, Running
  <2>3. ASSUME NEW d \in Difficulties, PoolSetsDifficulty(d) PROVE StoredAreTheAccepted'
    BY <1>2, <2>3 DEF PoolSetsDifficulty, tasks, ghosts, Running
  <2> QED
    BY <1>4, <2>1, <2>2, <2>3 DEF PoolLine
<1>5. CASE Insert
  <2>1. /\ p2m = "inserting" /\ AfterShare(handling, accepted, rejected) /\ counted' = counted
        /\ \/ stored' = stored \union {handling.share} /\ unstored' = unstored
           \/ unstored' = unstored \union {handling.share} /\ stored' = stored
    BY <1>5 DEF Insert, InsertDone, InsertFails
  <2>2. Running = {handling.share} /\ Running' = {}
    BY <2>1, GoesOnAfterShare DEF Running
  <2> QED
    BY <1>1, <2>1, <2>2, InsertStored
<1>6. CASE CancelTheOther
  <2>1. Running' = {} /\ counted' = counted
    BY <1>6 DEF CancelTheOther, Running
  <2>2. \/ stored' = stored \union Running /\ unstored' = unstored
        \/ unstored' = unstored \union Running /\ stored' = stored
    BY <1>6 DEF CancelTheOther, Running
  <2> QED
    BY <1>1, <2>1, <2>2, InsertStored
<1>7. CASE MinerWasClosed
  BY <1>2, <1>7 DEF MinerWasClosed, Forward, Running
<1>8. CASE Connect
  <2>1. p2m = "idle"
    BY <1>8 DEF Connect, SInv, IInv, Orderly
  <2> QED
    BY <1>2, <1>8, <2>1 DEF Connect, ghosts, Running
<1>9. CASE PoolEnds
  BY <1>2, <1>9 DEF PoolEnds, ghosts, Running
<1>10. CASE \/ MinerEnds \/ MinerLeaves \/ MinerCloseCompletes \/ PoolLeaves
            \/ PoolCloseCompletes \/ ConnectFails \/ CleanupMiner \/ CleanupPool
            \/ CleanupDone \/ UNCHANGED vars
  BY <1>2, <1>10 DEF MinerEnds, MinerLeaves, MinerCloseCompletes, PoolLeaves,
     PoolCloseCompletes, ConnectFails, CleanupMiner, CleanupPool, CleanupDone,
     vars, tasks, ghosts, Running
<1> QED
  BY <1>3, <1>4, <1>5, <1>6, <1>7, <1>8, <1>9, <1>10 DEF Next, RunStep
-----------------------------------------------------------------------------
(* The answers.                                                            *)

\* A share is forwarded to a miner that is connected, or the miner is closed.
LEMMA AfterShareReaches ==
    ASSUME NEW r, NEW acc, NEW rej, AfterShare(r, acc, rej), minerWriter' = "open"
    PROVE  minerWriter = "open" /\ forwarded' = forwarded \union {r.answers}
  BY DEF AfterShare, Closing, Forward

LEMMA PoolAnswersReach ==
    ASSUME SInv, NEW r \in upstream, NEW ok \in BOOLEAN, PoolAnswers(r, ok)
    PROVE  AnswersReachMiner'
<1> SUFFICES ASSUME run' = "waiting", minerWriter' = "open", NEW v \in verdicts'
             PROVE  v.n \in forwarded' \/ (handling' # None /\ handling'.answers = v.n)
  BY DEF AnswersReachMiner
<1>1. run = "waiting" /\ handling = None
  BY Answers
<1>2. CASE r.kind # "submit"
  BY <1>1, <1>2, Answers DEF SInv, AnswersReachMiner
<1>3. CASE r.kind = "submit"
  <2>1. /\ AnswerToSubmit(r, ok) /\ verdicts' = verdicts \union {[n |-> r.n, ok |-> ok]}
        /\ r \in [id : Nat, kind : Kinds, n : Serials]
        /\ pending[r.id].n \in Serials
    BY <1>3, Answers DEF AnswerToSubmit, SInv, IInv, Typed, TypeOK
  <2> DEFINE h == [answers |-> r.n, share |-> pending[r.id].n]
  <2>2. CASE AfterShare(h, accepted', rejected')
    <3>1. minerWriter = "open" /\ forwarded' = forwarded \union {r.n}
      BY <2>2, AfterShareReaches
    <3> QED
      BY <1>1, <2>1, <3>1 DEF SInv, AnswersReachMiner
  <2>3. CASE handling' = h /\ UNCHANGED <<minerWriter, forwarded>>
    <3>1. h # None
      BY <2>1, NoneAssumption DEF Serials
    <3> QED
      BY <1>1, <2>1, <2>3, <3>1 DEF SInv, AnswersReachMiner
  <2> QED
    BY <2>1, <2>2, <2>3 DEF AnswerToSubmit
<1> QED
  BY <1>2, <1>3

LEMMA NextReach ==
    ASSUME SInv, [Next]_vars
    PROVE  AnswersReachMiner'
<1>1. AnswersReachMiner /\ Typed
  BY DEF SInv, IInv
<1>2. ASSUME UNCHANGED <<verdicts, handling, forwarded>>,
             run' = "waiting" => run = "waiting",
             minerWriter' = "open" => minerWriter = "open"
      PROVE  AnswersReachMiner'
  BY <1>1, <1>2 DEF AnswersReachMiner
<1>3. CASE MinerLine
  BY <1>2, <1>3, MinerLines DEF tasks, conns
<1>4. CASE PoolLine
  <2>1. ASSUME NEW r \in upstream, NEW ok \in BOOLEAN, PoolAnswers(r, ok)
        PROVE  AnswersReachMiner'
    BY <2>1, PoolAnswersReach
  <2>2. ASSUME NEW job \in JobId, PoolNotifies(job) PROVE AnswersReachMiner'
    BY <1>2, <2>2 DEF PoolNotifies, tasks, conns, ghosts
  <2>3. ASSUME NEW d \in Difficulties, PoolSetsDifficulty(d) PROVE AnswersReachMiner'
    BY <1>2, <2>3 DEF PoolSetsDifficulty, tasks, conns, ghosts
  <2> QED
    BY <1>4, <2>1, <2>2, <2>3 DEF PoolLine
<1>5. CASE Insert
  <2>1. AfterShare(handling, accepted, rejected) /\ verdicts' = verdicts /\ run' = run
    BY <1>5 DEF Insert, InsertDone, InsertFails
  <2> QED
    BY <1>1, <2>1, AfterShareReaches DEF AnswersReachMiner
<1>6. CASE MinerWasClosed
  BY <1>6 DEF MinerWasClosed, conns, AnswersReachMiner
<1>7. CASE Connect
  <2>1. verdicts' = {}
    BY <1>7 DEF Connect, ghosts, SInv, IInv, Orderly
  <2> QED
    BY <2>1 DEF AnswersReachMiner
<1>8. CASE CancelTheOther
  BY <1>8 DEF CancelTheOther, AnswersReachMiner
<1>9. CASE ConnectFails \/ CleanupMiner \/ CleanupPool \/ CleanupDone
  BY <1>9 DEF ConnectFails, CleanupMiner, CleanupPool, CleanupDone, AnswersReachMiner
<1>10. CASE \/ MinerEnds \/ MinerLeaves \/ MinerCloseCompletes
            \/ PoolEnds \/ PoolLeaves \/ PoolCloseCompletes \/ UNCHANGED vars
  BY <1>2, <1>10 DEF MinerEnds, MinerLeaves, MinerCloseCompletes, PoolEnds, PoolLeaves,
     PoolCloseCompletes, vars, tasks, conns, ghosts
<1> QED
  BY <1>3, <1>4, <1>5, <1>6, <1>7, <1>8, <1>9, <1>10 DEF Next, RunStep
-----------------------------------------------------------------------------
LEMMA InitSInv ==
    ASSUME Init, FreshIds = TRUE
    PROVE  SInv
<1>1. IInv
  BY InitTyped, InitOrderly, InitTold DEF IInv
<1>2. /\ accepted = 0 /\ rejected = 0 /\ submits = {} /\ DOMAIN pending = {} /\ upstream = {}
      /\ verdicts = {} /\ counted = {} /\ subscribeId = None
      /\ p2m = "idle" /\ stored = {} /\ unstored = {}
  BY DEF Init
<1>3. Numbered /\ AnswersReachMiner
  BY <1>2 DEF Numbered, AnswersReachMiner
<1>4. Counts
  <2>1. {c \in counted : c.ok} = {} /\ {c \in counted : ~c.ok} = {}
        /\ {[n |-> c.n, ok |-> c.ok] : c \in counted} = verdicts
    BY <1>2
  <2>2. IsFiniteSet({}) /\ Cardinality({}) = 0
    BY FS_EmptySet
  <2> QED
    BY <1>2, <2>1, <2>2 DEF Counts, SubmitsAccounted, AnsweredSubmitsAreCounted
<1>5. StoredAreTheAccepted
  BY <1>2 DEF StoredAreTheAccepted
<1> QED
  BY <1>1, <1>3, <1>4, <1>5 DEF SInv

LEMMA NextSInv ==
    ASSUME SInv, [Next]_vars
    PROVE  SInv'
<1>1. IInv'
  BY NextTyped, NextOrderly, NextTold DEF SInv, IInv
<1>2. ASSUME UNCHANGED <<requests, upstream, submits, subscribeId, pending, verdicts, counted,
                         accepted, rejected>>
      PROVE  Numbered' /\ Counts'
  BY <1>2 DEF SInv, Numbered, Counts, SubmitsAccounted, AnsweredSubmitsAreCounted
<1>3. Numbered' /\ Counts'
  <2>1. CASE MinerLine
    BY <2>1, MinerLineNumbered, MinerLineCounts
  <2>2. ASSUME NEW r \in upstream, NEW ok \in BOOLEAN, PoolAnswers(r, ok)
        PROVE  Numbered' /\ Counts'
    BY <2>2, PoolAnswersNumbered, PoolAnswersCounts
  <2>3. CASE \E job \in JobId : PoolNotifies(job)
    BY <1>2, <2>3 DEF PoolNotifies, stats, ghosts
  <2>6. ASSUME NEW d \in Difficulties, PoolSetsDifficulty(d)
        PROVE  Numbered' /\ Counts'
    <3>1. /\ UNCHANGED <<requests, upstream, submits, subscribeId, verdicts, counted,
                         accepted, rejected>>
          /\ DOMAIN pending' = DOMAIN pending
          /\ \A id \in DOMAIN pending : pending'[id].n = pending[id].n
      BY <2>6 DEF PoolSetsDifficulty, TellMiner, SInv, IInv, Typed, TypeOK, ghosts
    <3>2. Numbered'
      BY <3>1 DEF SInv, Numbered
    <3> QED
      BY <3>1, <3>2 DEF SInv, Counts, SubmitsAccounted, AnsweredSubmitsAreCounted
  <2>4. CASE Insert \/ MinerWasClosed \/ RunStep
    BY <1>2, <2>4 DEF Insert, InsertDone, InsertFails, MinerWasClosed, RunStep, Connect,
       ConnectFails, CancelTheOther, CleanupMiner, CleanupPool, CleanupDone,
       proto, stats, ghosts
  <2>5. CASE \/ MinerEnds \/ MinerLeaves \/ MinerCloseCompletes
             \/ PoolEnds \/ PoolLeaves \/ PoolCloseCompletes \/ UNCHANGED vars
    BY <1>2, <2>5 DEF MinerEnds, MinerLeaves, MinerCloseCompletes, PoolEnds, PoolLeaves,
       PoolCloseCompletes, vars, proto, stats, ghosts
  <2> QED
    BY <2>1, <2>2, <2>3, <2>4, <2>5, <2>6 DEF Next, PoolLine
<1> QED
  BY <1>1, <1>3, NextStored, NextReach DEF SInv

\* The invariant of the submits of a miner that numbers its requests.
LEMMA SubmitInvariance == FreshIds = TRUE => (Spec => []SInv)
<1> SUFFICES ASSUME FreshIds = TRUE PROVE Spec => []SInv
  OBVIOUS
<1>1. Init => SInv
  BY InitSInv
<1>2. SInv /\ [Next]_vars => SInv'
  BY NextSInv
<1> QED
  BY <1>1, <1>2, PTL DEF Spec

\* No tracked submit is lost from the books or entered twice: it is pending or
\* it is counted, whatever comes between it and its answer.
THEOREM EverySubmitAccounted == FreshIds = TRUE => (Spec => []SubmitsAccounted)
<1>1. SInv => SubmitsAccounted
  BY DEF SInv, Counts
<1> QED
  BY <1>1, SubmitInvariance, PTL

\* The statistics hold for each submit what the pool answered to that submit,
\* in whatever order the answers come.
THEOREM EveryVerdictCounted == FreshIds = TRUE => (Spec => []AnsweredSubmitsAreCounted)
<1>1. SInv => AnsweredSubmitsAreCounted
  BY DEF SInv, Counts
<1> QED
  BY <1>1, SubmitInvariance, PTL

\* The database holds each accepted share that could be scored once, unless its
\* insert failed, was cancelled or still runs.
THEOREM AcceptedSharesStored == FreshIds = TRUE => (Spec => []StoredAreTheAccepted)
<1>1. SInv => StoredAreTheAccepted
  BY DEF SInv
<1> QED
  BY <1>1, SubmitInvariance, PTL

\* While the session runs, every submit the pool answered has been answered to
\* the miner or is about to be, also when its insert failed.
THEOREM EveryAnswerForwarded == FreshIds = TRUE => (Spec => []AnswersReachMiner)
<1>1. SInv => AnswersReachMiner
  BY DEF SInv
<1> QED
  BY <1>1, SubmitInvariance, PTL
=============================================================================

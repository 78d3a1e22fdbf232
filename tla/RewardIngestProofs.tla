------------------------- MODULE RewardIngestProofs -------------------------
(***************************************************************************)
(* Who is credited for a reward, for any listings, windows, failures and   *)
(* restarts, of either coin.                                               *)
(***************************************************************************)
EXTENDS RewardIngest, TLAPS

Distinct(s) == \A i, j \in DOMAIN s : s[i] = s[j] => i = j
Ahead == {queue[i] : i \in DOMAIN queue}
Held == rewards \union buffered

\* TypeOK, with the types it leaves out.
Typed ==
    /\ TypeOK
    /\ listing \in Seq(Tx) /\ Distinct(listing)
    /\ queue \in Seq(Tx) /\ Distinct(queue)
    /\ shares \in [Tx -> SUBSET Workers] /\ broken \subseteq Tx /\ manual \subseteq Tx
    /\ tx = None => left = {}

\* Nothing was done for a reward that is not stored.
UnheldIsUntouched ==
    \A t \in Tx \ Held :
        shares[t] = {} /\ \A w \in Workers : earned[t][w] = 0 /\ balanced[t][w] = 0

\* What was done for the reward at work: the workers of its window that are not
\* left have their earnings and, but for the one whose balance is next, nobody
\* has an earning without a balance.
AtWork ==
    tx \in Tx \ (manual \union broken) =>
        /\ \A w \in Workers : earned[tx][w] > 0 => w \in shares[tx]
        /\ \A w \in shares[tx] \ left : earned[tx][w] > 0
        /\ pc = "crediting" => \A w \in Workers : balanced[tx][w] = earned[tx][w]
        /\ pc = "balancing" =>
              \E next \in left :
                 /\ earned[tx][next] = balanced[tx][next] + 1
                 /\ \A w \in Workers \ {next} : balanced[tx][w] = earned[tx][w]

Books ==
    /\ UnheldIsUntouched /\ AtWork /\ StoredAreCredited
    /\ tx # None => tx \in Held
    /\ \A t \in Tx, w \in Workers : balanced[t][w] <= earned[t][w]

IInv == Typed /\ Books
-----------------------------------------------------------------------------
(* The rows a round works through.                                         *)

LEMMA NoRows == << >> \in Seq(Tx) /\ Distinct(<< >>)
  BY DEF Distinct

LEMMA FirstRows ==
    ASSUME NEW s \in Seq(Tx), Distinct(s), NEW n \in 0..Len(s)
    PROVE  SubSeq(s, 1, n) \in Seq(Tx) /\ Distinct(SubSeq(s, 1, n))
<1> DEFINE rows == SubSeq(s, 1, n)
<1>1. rows \in Seq(Tx) /\ Len(rows) = n /\ \A i \in 1..n : rows[i] = s[i]
  OBVIOUS
<1>2. DOMAIN rows = 1..n /\ DOMAIN s = 1..Len(s)
  BY <1>1
<1> QED
  BY <1>1, <1>2 DEF Distinct

LEMMA ReversedRows ==
    ASSUME NEW s \in Seq(Tx), Distinct(s)
    PROVE  Reverse(s) \in Seq(Tx) /\ Distinct(Reverse(s))
<1>1. DOMAIN s = 1..Len(s) /\ Len(s) \in Nat
  OBVIOUS
<1>2. Reverse(s) = [i \in 1..Len(s) |-> s[Len(s) + 1 - i]]
  BY <1>1 DEF Reverse
<1>3. \A i \in 1..Len(s) : Len(s) + 1 - i \in 1..Len(s)
  BY <1>1
<1>4. Reverse(s) \in Seq(Tx)
  BY <1>1, <1>2, <1>3
<1>5. Distinct(Reverse(s))
  BY <1>1, <1>2, <1>3 DEF Distinct
<1> QED
  BY <1>4, <1>5

LEMMA OtherRows ==
    ASSUME NEW s \in Seq(Tx), Distinct(s), s # << >>
    PROVE  /\ Head(s) \in Tx /\ Tail(s) \in Seq(Tx) /\ Distinct(Tail(s))
           /\ \A i \in DOMAIN Tail(s) : Tail(s)[i] # Head(s) /\ i + 1 \in DOMAIN s
                                        /\ Tail(s)[i] = s[i + 1]
<1>1. Head(s) = s[1] /\ Tail(s) \in Seq(Tx) /\ Len(Tail(s)) = Len(s) - 1 /\ Len(s) \in Nat \ {0}
  OBVIOUS
<1>2. DOMAIN Tail(s) = 1..(Len(s) - 1) /\ DOMAIN s = 1..Len(s)
  BY <1>1
<1>3. \A i \in 1..(Len(s) - 1) : Tail(s)[i] = s[i + 1]
  OBVIOUS
<1> QED
  BY <1>1, <1>2, <1>3 DEF Distinct

LEMMA MoreRows ==
    ASSUME NEW s \in Seq(Tx), Distinct(s), NEW t \in Tx, t \notin {s[i] : i \in DOMAIN s}
    PROVE  <<t>> \o s \in Seq(Tx) /\ Distinct(<<t>> \o s)
<1> DEFINE more == <<t>> \o s
<1>1. more \in Seq(Tx) /\ Len(more) = Len(s) + 1 /\ Len(s) \in Nat
  OBVIOUS
<1>2. more[1] = t /\ \A i \in 2..Len(more) : more[i] = s[i - 1]
  BY <1>1
<1>3. DOMAIN more = 1..Len(more) /\ DOMAIN s = 1..Len(s)
  BY <1>1
<1>4. \A i \in 2..Len(more) : more[i] # t
  BY <1>1, <1>2, <1>3
<1>5. Distinct(more)
  <2> SUFFICES ASSUME NEW i \in 1..Len(more), NEW j \in 1..Len(more), more[i] = more[j]
               PROVE  i = j
    BY <1>3 DEF Distinct
  <2>1. CASE i = 1 \/ j = 1
    BY <2>1, <1>1, <1>2, <1>4
  <2>2. CASE i # 1 /\ j # 1
    <3>1. i - 1 \in DOMAIN s /\ j - 1 \in DOMAIN s /\ s[i - 1] = s[j - 1]
      BY <2>2, <1>1, <1>2, <1>3
    <3> QED
      BY <3>1 DEF Distinct
  <2> QED
    BY <2>1, <2>2
<1> QED
  BY <1>1, <1>5

\* What Fetch puts into the queue.
LEMMA FetchedRows ==
    ASSUME Typed, NEW pages \in 0..MaxPages
    PROVE  /\ Rows(pages) \in Seq(Tx) /\ Distinct(Rows(pages))
           /\ Reverse(Rows(pages)) \in Seq(Tx) /\ Distinct(Reverse(Rows(pages)))
<1>1. pages * PageSize \in Nat
  BY IngestAssumption
<1>2. Len(listing) \in Nat
  BY DEF Typed
<1>3. Smaller(pages * PageSize, Len(listing)) \in 0..Len(listing)
  BY <1>1, <1>2 DEF Smaller
<1>4. Rows(pages) \in Seq(Tx) /\ Distinct(Rows(pages))
  BY <1>3, FirstRows DEF Rows, Typed
<1> QED
  BY <1>4, ReversedRows
-----------------------------------------------------------------------------
(* Types.                                                                  *)

LEMMA InitTyped == Init => Typed
<1> SUFFICES ASSUME Init PROVE Typed
  OBVIOUS
<1> USE IngestAssumption DEF Init
<1>1. TypeOK
  BY DEF TypeOK
<1>2. listing \in Seq(Tx) /\ Distinct(listing) /\ queue \in Seq(Tx) /\ Distinct(queue)
  BY DEF Distinct
<1> QED
  BY <1>1, <1>2 DEF Typed

\* The task gives up a reward, and with it perhaps the round.
LEMMA GivesUp ==
    ASSUME Typed, NEW rest \in Seq(Tx), Distinct(rest), GiveUpOn(rest)
    PROVE  /\ pc' \in {"asleep", "looking"} /\ tx' = None /\ left' = {}
           /\ known' \subseteq Tx /\ fresh' \in BOOLEAN
           /\ queue' \in Seq(Tx) /\ Distinct(queue')
           /\ queue' = rest \/ (queue' = << >> /\ known' = {})
<1>1. CASE coin = "btc"
  BY <1>1 DEF GiveUpOn, Typed, TypeOK
<1>2. CASE coin # "btc"
  BY <1>2, NoRows DEF GiveUpOn, Sleep
<1> QED
  BY <1>1, <1>2

LEMMA TaskTyped ==
    ASSUME Typed, Load \/ LoadFails \/ Fetch \/ RoundOver \/ PassOver \/ LookFails
    PROVE  Typed'
<1> USE IngestAssumption DEF Typed, TypeOK
<1>1. CASE Load
  BY <1>1 DEF Load, service, tables, ghosts
<1>2. CASE LoadFails
  BY <1>2 DEF LoadFails, tables, ghosts
<1>3. CASE Fetch
  <2>1. queue' \in Seq(Tx) /\ Distinct(queue')
    BY <1>3, FetchedRows DEF Fetch
  <2>2. TypeOK'
    BY <1>3, <2>1 DEF Fetch, service, tables, ghosts
  <2> QED
    BY <1>3, <2>1, <2>2 DEF Fetch, service, tables, ghosts, Distinct
<1>4. CASE RoundOver
  <2>1. /\ pc' = "asleep" /\ tx' = None /\ left' = {} /\ known' \subseteq Tx /\ fresh' \in BOOLEAN
        /\ queue' \in Seq(Tx) /\ Distinct(queue')
    BY <1>4, NoRows DEF RoundOver, Sleep
  <2> QED
    BY <1>4, <2>1 DEF RoundOver, service, tables, ghosts
<1>5. CASE PassOver
  <2>1. queue' \in Seq(Tx) /\ Distinct(queue')
    BY <1>5, OtherRows DEF PassOver
  <2> QED
    BY <1>5, <2>1 DEF PassOver, service, tables, ghosts, Distinct
<1>6. CASE LookFails
  <2>1. Tail(queue) \in Seq(Tx) /\ Distinct(Tail(queue)) /\ GiveUpOn(Tail(queue))
    BY <1>6, OtherRows DEF LookFails
  <2>2. /\ pc' \in {"asleep", "looking"} /\ tx' = None /\ left' = {}
        /\ known' \subseteq Tx /\ fresh' \in BOOLEAN
        /\ queue' \in Seq(Tx) /\ Distinct(queue')
    BY <2>1, GivesUp
  <2> QED
    BY <1>6, <2>2 DEF LookFails, service, tables, ghosts
<1> QED
  BY <1>1, <1>2, <1>3, <1>4, <1>5, <1>6

LEMMA CreditTyped ==
    ASSUME Typed,
           \/ \E window \in SUBSET Workers : Store(window)
           \/ \E w \in Workers : Credit(w) \/ BalanceWorker(w)
           \/ Credited \/ CreditFails
    PROVE  Typed'
<1> USE IngestAssumption DEF Typed, TypeOK
<1>1. ASSUME NEW window \in SUBSET Workers, Store(window) PROVE Typed'
  <2>1. Head(queue) \in Tx /\ queue' \in Seq(Tx) /\ Distinct(queue')
    BY <1>1, OtherRows DEF Store
  <2>2. tx' \in Tx /\ left' \subseteq Workers /\ left' \subseteq shares'[tx'] /\ tx' # None
        /\ shares' \in [Tx -> SUBSET Workers]
    BY <1>1, <2>1 DEF Store
  <2> QED
    BY <1>1, <2>1, <2>2 DEF Store, service, Distinct
<1>2. ASSUME NEW w \in Workers, Credit(w) PROVE Typed'
  <2>1. earned' \in [Tx -> [Workers -> Nat]]
    BY <1>2 DEF Credit
  <2> QED
    BY <1>2, <2>1 DEF Credit, service, ghosts, Distinct
<1>3. ASSUME NEW w \in Workers, BalanceWorker(w) PROVE Typed'
  <2>1. balanced' \in [Tx -> [Workers -> Nat]]
    BY <1>3 DEF BalanceWorker
  <2> QED
    BY <1>3, <2>1 DEF BalanceWorker, service, ghosts, Distinct
<1>4. CASE Credited
  BY <1>4 DEF Credited, service, tables, ghosts, Distinct
<1>5. CASE CreditFails
  BY <1>5, GivesUp DEF CreditFails, service, tables
<1> QED
  BY <1>1, <1>2, <1>3, <1>4, <1>5

LEMMA OtherTyped ==
    ASSUME Typed,
           \/ \E t \in Tx : Mined(t) \/ CreateChecks(t)
           \/ Flush \/ Restart \/ CreateStores \/ CreateFails \/ UNCHANGED vars
    PROVE  Typed'
<1> USE IngestAssumption DEF Typed, TypeOK
<1>1. ASSUME NEW t \in Tx, Mined(t) PROVE Typed'
  <2>1. listing' \in Seq(Tx) /\ Distinct(listing')
    BY <1>1, MoreRows DEF Mined
  <2> QED
    BY <1>1, <2>1 DEF Mined, task, service, tables, ghosts, Distinct
<1>2. ASSUME NEW t \in Tx, CreateChecks(t) PROVE Typed'
  BY <1>2 DEF CreateChecks, task, service, tables, ghosts, Distinct
<1>3. CASE Flush
  BY <1>3 DEF Flush, task, service, ghosts, Distinct
<1>4. CASE Restart
  BY <1>4 DEF Restart, tables, Distinct
<1>5. CASE CreateStores
  BY <1>5 DEF CreateStores, task, service, Distinct
<1>6. CASE CreateFails
  BY <1>6 DEF CreateFails, task, service, tables, ghosts, Distinct
<1>7. CASE UNCHANGED vars
  BY <1>7 DEF vars, task, service, tables, ghosts, Distinct
<1> QED
  BY <1>1, <1>2, <1>3, <1>4, <1>5, <1>6, <1>7

LEMMA NextTyped == Typed /\ [Next]_vars => Typed'
  BY TaskTyped, CreditTyped, OtherTyped DEF Next, Work
-----------------------------------------------------------------------------
(* The books.                                                              *)

LEMMA InitBooks == Init => Books
  BY DEF Init, Books, UnheldIsUntouched, AtWork, StoredAreCredited, Held

\* A step that does no crediting and stores nothing.
LEMMA BooksKept ==
    ASSUME Typed, Books,
           UNCHANGED <<earned, balanced, shares, broken, manual>>, Held' = Held,
           UNCHANGED <<tx, pc, left>> \/ (tx = None /\ tx' = None)
    PROVE  Books'
<1> USE IngestAssumption DEF Typed, TypeOK, Books
<1>1. tx' = tx
  OBVIOUS
<1>2. UnheldIsUntouched'
  BY DEF UnheldIsUntouched
<1>3. AtWork'
  BY <1>1 DEF AtWork
<1>4. StoredAreCredited'
  <2> SUFFICES ASSUME NEW t \in (Held \ (manual \union broken)) \ {tx}, NEW w \in Workers
               PROVE  (earned[t][w] > 0) = (w \in shares[t]) /\ balanced[t][w] = earned[t][w]
    BY <1>1 DEF StoredAreCredited, Held
  <2> QED
    BY DEF StoredAreCredited, Held
<1> QED
  BY <1>1, <1>2, <1>3, <1>4

LEMMA IdleBooks ==
    ASSUME IInv,
           \/ Load \/ LoadFails \/ Fetch \/ RoundOver \/ PassOver \/ LookFails
           \/ \E t \in Tx : Mined(t) \/ CreateChecks(t)
           \/ Flush \/ CreateFails \/ UNCHANGED vars
    PROVE  Books'
<1> USE DEF IInv, Held, tables, ghosts, task
<1> DEFINE Same == /\ UNCHANGED <<earned, balanced, shares, broken, manual>> /\ Held' = Held
                   /\ UNCHANGED <<tx, pc, left>> \/ (tx = None /\ tx' = None)
<1>1. pc \notin {"crediting", "balancing"} => tx = None
  BY DEF Typed, TypeOK
<1>2. CASE Load \/ LoadFails \/ Fetch \/ PassOver
  <2>1. Same
    BY <1>1, <1>2 DEF Load, LoadFails, Fetch, PassOver
  <2> QED
    BY <2>1, BooksKept
<1>3. CASE RoundOver
  <2>1. Same
    BY <1>1, <1>3 DEF RoundOver, Sleep
  <2> QED
    BY <2>1, BooksKept
<1>4. CASE LookFails
  <2>1. tx' = None
    BY <1>4 DEF LookFails, GiveUpOn, Sleep
  <2>2. Same
    BY <1>1, <1>4, <2>1 DEF LookFails
  <2> QED
    BY <2>2, BooksKept
<1>5. CASE \E t \in Tx : Mined(t) \/ CreateChecks(t)
  <2>1. Same
    BY <1>5 DEF Mined, CreateChecks
  <2> QED
    BY <2>1, BooksKept
<1>6. CASE Flush
  <2>1. Same
    BY <1>6 DEF Flush
  <2> QED
    BY <2>1, BooksKept
<1>7. CASE CreateFails \/ UNCHANGED vars
  <2>1. Same
    BY <1>7 DEF CreateFails, vars
  <2> QED
    BY <2>1, BooksKept
<1> QED
  BY <1>2, <1>3, <1>4, <1>5, <1>6, <1>7

\* A reward entered by hand is nobody's earning; the reward at work stays.
LEMMA CreateStoresBooks ==
    ASSUME IInv, CreateStores
    PROVE  Books'
<1> USE IngestAssumption DEF IInv, Typed, TypeOK, Books, CreateStores, task, service
<1>1. UnheldIsUntouched'
  BY DEF UnheldIsUntouched, Held
<1>2. AtWork'
  BY DEF AtWork
<1>3. StoredAreCredited'
  BY DEF StoredAreCredited
<1>4. tx' # None => tx' \in Held'
  BY DEF Held
<1> QED
  BY <1>1, <1>2, <1>3, <1>4

\* The reward at work, once nobody is left to credit.
LEMMA WorkDone ==
    ASSUME IInv, left = {}, tx \in Tx \ (manual \union broken), NEW w \in Workers
    PROVE  (earned[tx][w] > 0) = (w \in shares[tx]) /\ balanced[tx][w] = earned[tx][w]
<1> USE IngestAssumption DEF IInv, Typed, TypeOK, Books, AtWork
<1>1. pc = "crediting"
  OBVIOUS
<1>2. (earned[tx][w] > 0) <=> (w \in shares[tx])
  OBVIOUS
<1> QED
  BY <1>1, <1>2

\* The task leaves its reward: done with it, or cutting it off.
LEMMA LeavesBooks ==
    ASSUME IInv, tx' = None,
           UNCHANGED <<earned, balanced, shares, manual>>, Held' = Held,
           broken \subseteq broken', left # {} => tx \in broken'
    PROVE  Books'
<1> USE IngestAssumption DEF IInv, Typed, TypeOK, Books
<1>1. UnheldIsUntouched'
  BY DEF UnheldIsUntouched
<1>2. AtWork'
  BY DEF AtWork
<1>3. StoredAreCredited'
  <2> SUFFICES ASSUME NEW t \in Held \ (manual \union broken'), NEW w \in Workers
               PROVE  (earned[t][w] > 0) = (w \in shares[t]) /\ balanced[t][w] = earned[t][w]
    BY DEF StoredAreCredited, Held
  <2>1. CASE t = tx
    BY <2>1, WorkDone DEF Held
  <2>2. CASE t # tx
    BY <2>2 DEF StoredAreCredited, Held
  <2> QED
    BY <2>1, <2>2
<1> QED
  BY <1>1, <1>2, <1>3

LEMMA EndsBooks ==
    ASSUME IInv, Credited \/ CreditFails \/ Restart
    PROVE  Books'
<1> USE DEF Held, tables, ghosts
<1>1. CASE Credited
  BY <1>1, LeavesBooks DEF Credited
<1>2. CASE CreditFails
  <2>1. tx' = None
    BY <1>2 DEF CreditFails, GiveUpOn, Sleep
  <2> QED
    BY <1>2, <2>1, LeavesBooks DEF CreditFails
<1>3. CASE Restart
  BY <1>3, LeavesBooks DEF Restart
<1> QED
  BY <1>1, <1>2, <1>3

\* A reward is taken up, which may have been stored before.
LEMMA StoreBooks ==
    ASSUME IInv, NEW window \in SUBSET Workers, Store(window)
    PROVE  Books'
<1> DEFINE t == Head(queue)
<1> USE IngestAssumption DEF IInv, Typed, TypeOK, Books
<1>1. t \in Tx /\ tx = None
  BY OtherRows DEF Store
<1>2. /\ tx' = t /\ left' = window /\ pc' = "crediting" /\ Held' = Held \union {t}
      /\ shares' = [shares EXCEPT ![t] = @ \union window]
      /\ UNCHANGED <<earned, balanced, broken, manual>>
  BY DEF Store, Held
<1>3. UnheldIsUntouched'
  BY <1>1, <1>2 DEF UnheldIsUntouched
<1>4. AtWork'
  <2> SUFFICES ASSUME t \notin manual \union broken, NEW w \in Workers
               PROVE  /\ earned[t][w] > 0 => w \in shares'[t]
                      /\ w \in shares'[t] \ window => earned[t][w] > 0
                      /\ balanced[t][w] = earned[t][w]
    BY <1>1, <1>2 DEF AtWork
  <2>1. CASE t \in Held
    <3>1. (earned[t][w] > 0) = (w \in shares[t]) /\ balanced[t][w] = earned[t][w]
      BY <1>1, <2>1 DEF StoredAreCredited, Held
    <3> QED
      BY <1>1, <1>2, <3>1
  <2>2. CASE t \notin Held
    <3>1. earned[t][w] = 0 /\ balanced[t][w] = 0 /\ shares[t] = {}
      BY <1>1, <2>2 DEF UnheldIsUntouched
    <3> QED
      BY <1>1, <1>2, <3>1
  <2> QED
    BY <2>1, <2>2
<1>5. StoredAreCredited'
  <2> SUFFICES ASSUME NEW u \in (Held \ (manual \union broken)) \ {t}, NEW w \in Workers
               PROVE  (earned[u][w] > 0) = (w \in shares'[u]) /\ balanced[u][w] = earned[u][w]
    BY <1>1, <1>2 DEF StoredAreCredited, Held
  <2>1. shares'[u] = shares[u]
    BY <1>1, <1>2 DEF Held
  <2> QED
    BY <1>1, <2>1 DEF StoredAreCredited, Held
<1>6. tx' # None => tx' \in Held'
  BY <1>2
<1> QED
  BY <1>2, <1>3, <1>4, <1>5, <1>6

LEMMA CreditBooks ==
    ASSUME IInv, NEW w \in Workers, Credit(w) \/ BalanceWorker(w)
    PROVE  Books'
<1> USE IngestAssumption DEF IInv, Typed, TypeOK, Books
<1>1. tx \in Tx /\ tx \in Held
  BY DEF Credit, BalanceWorker
<1>2. UNCHANGED <<tx, shares, broken, manual>> /\ Held' = Held
  BY DEF Credit, BalanceWorker, ghosts, Held
<1>3. \A t \in Tx \ {tx}, v \in Workers :
          earned'[t][v] = earned[t][v] /\ balanced'[t][v] = balanced[t][v]
  BY <1>1 DEF Credit, BalanceWorker
<1>4. UnheldIsUntouched'
  <2> SUFFICES ASSUME NEW t \in Tx \ Held, NEW v \in Workers
               PROVE  shares[t] = {} /\ earned'[t][v] = 0 /\ balanced'[t][v] = 0
    BY <1>2 DEF UnheldIsUntouched
  <2>1. t \in Tx \ {tx}
    BY <1>1
  <2> QED
    BY <1>3, <2>1 DEF UnheldIsUntouched
<1>5. StoredAreCredited'
  <2> SUFFICES ASSUME NEW t \in (Held \ (manual \union broken)) \ {tx}, NEW v \in Workers
               PROVE  (earned'[t][v] > 0) = (v \in shares[t]) /\ balanced'[t][v] = earned'[t][v]
    BY <1>2 DEF StoredAreCredited, Held
  <2>1. t \in Tx \ {tx}
    BY DEF Held
  <2> QED
    BY <1>3, <2>1 DEF StoredAreCredited, Held
<1>6. AtWork' /\ \A v \in Workers : balanced'[tx][v] <= earned'[tx][v]
  <2>0. \A v \in Workers : /\ earned[tx][v] \in Nat /\ balanced[tx][v] \in Nat
                            /\ balanced[tx][v] <= earned[tx][v]
    BY <1>1
  <2>1. CASE Credit(w)
    <3>1. /\ pc' = "balancing" /\ left' = left /\ balanced' = balanced /\ pc = "crediting"
          /\ w \in left
      BY <2>1 DEF Credit
    <3>2. earned'[tx][w] = earned[tx][w] + 1
          /\ \A v \in Workers \ {w} : earned'[tx][v] = earned[tx][v]
      BY <1>1, <2>1 DEF Credit
    <3>3. AtWork'
      <4> SUFFICES ASSUME tx \notin manual \union broken
                   PROVE  /\ \A v \in Workers : earned'[tx][v] > 0 => v \in shares[tx]
                          /\ \A v \in shares[tx] \ left : earned'[tx][v] > 0
                          /\ \E next \in left :
                                /\ earned'[tx][next] = balanced[tx][next] + 1
                                /\ \A v \in Workers \ {next} : balanced[tx][v] = earned'[tx][v]
        BY <1>1, <1>2, <3>1 DEF AtWork
      <4>1. \A v \in Workers : balanced[tx][v] = earned[tx][v]
        BY <1>1, <3>1 DEF AtWork
      <4>2. \A v \in Workers : earned'[tx][v] > 0 => v \in shares[tx]
        BY <1>1, <3>1, <3>2 DEF AtWork
      <4>3. \A v \in shares[tx] \ left : earned'[tx][v] > 0
        BY <1>1, <3>1, <3>2 DEF AtWork
      <4> QED
        BY <3>1, <3>2, <4>1, <4>2, <4>3
    <3>4. \A v \in Workers : balanced[tx][v] <= earned'[tx][v]
      <4> SUFFICES ASSUME NEW v \in Workers PROVE balanced[tx][v] <= earned'[tx][v]
        OBVIOUS
      <4>1. earned'[tx][v] = earned[tx][v] \/ earned'[tx][v] = earned[tx][v] + 1
        BY <3>2
      <4> QED
        BY <2>0, <4>1
    <3> QED
      BY <3>1, <3>3, <3>4
  <2>2. CASE BalanceWorker(w)
    <3>1. /\ pc' = "crediting" /\ left' = left \ {w} /\ earned' = earned /\ pc = "balancing"
          /\ earned[tx][w] > balanced[tx][w] /\ w \in left
      BY <2>2 DEF BalanceWorker
    <3>2. balanced'[tx][w] = balanced[tx][w] + 1
          /\ \A v \in Workers \ {w} : balanced'[tx][v] = balanced[tx][v]
      BY <1>1, <2>2 DEF BalanceWorker
    <3>3. AtWork'
      <4> SUFFICES ASSUME tx \notin manual \union broken
                   PROVE  /\ \A v \in Workers : earned[tx][v] > 0 => v \in shares[tx]
                          /\ \A v \in shares[tx] \ (left \ {w}) : earned[tx][v] > 0
                          /\ \A v \in Workers : balanced'[tx][v] = earned[tx][v]
        BY <1>1, <1>2, <3>1 DEF AtWork
      <4>1. PICK next \in left :
                /\ earned[tx][next] = balanced[tx][next] + 1
                /\ \A v \in Workers \ {next} : balanced[tx][v] = earned[tx][v]
        BY <1>1, <3>1 DEF AtWork
      <4>2. next = w
        BY <1>1, <3>1, <4>1
      <4>3. \A v \in Workers : balanced'[tx][v] = earned[tx][v]
        BY <3>2, <4>1, <4>2
      <4>4. earned[tx][w] > 0
        BY <1>1, <3>1
      <4> QED
        BY <1>1, <3>1, <4>3, <4>4 DEF AtWork
    <3>4. \A v \in Workers : balanced'[tx][v] <= earned[tx][v]
      <4> SUFFICES ASSUME NEW v \in Workers PROVE balanced'[tx][v] <= earned[tx][v]
        OBVIOUS
      <4>1. CASE v = w
        BY <2>0, <3>1, <3>2, <4>1
      <4>2. CASE v # w
        BY <2>0, <3>2, <4>2
      <4> QED
        BY <4>1, <4>2
    <3> QED
      BY <3>1, <3>3, <3>4
  <2> QED
    BY <2>1, <2>2
<1> QED
  BY <1>1, <1>2, <1>3, <1>4, <1>5, <1>6

LEMMA NextIInv == IInv /\ [Next]_vars => IInv'
<1> SUFFICES ASSUME IInv, [Next]_vars PROVE Books'
  BY NextTyped DEF IInv
<1> QED
  BY IdleBooks, CreateStoresBooks, EndsBooks, StoreBooks, CreditBooks DEF Next, Work

\* The inductive invariant of the task and its books holds throughout.
THEOREM IngestInvariance == Spec => []IInv
<1>1. Init => IInv
  BY InitTyped, InitBooks DEF IInv
<1> QED
  BY <1>1, NextIInv, PTL DEF Spec

\* The task keeps its types (TypeOK of the run reward_ingest).
THEOREM IngestTypes == Spec => []TypeOK
<1>1. IInv => TypeOK
  BY DEF IInv, Typed
<1> QED
  BY <1>1, IngestInvariance, PTL

\* Nobody is ever credited for a reward that is not stored.
THEOREM StoredBeforeCredited == Spec => []CreditsHaveRewards
<1>1. IInv => CreditsHaveRewards
  BY DEF IInv, Typed, TypeOK, Books, UnheldIsUntouched, CreditsHaveRewards, Held
<1> QED
  BY <1>1, IngestInvariance, PTL

\* A stored reward that no failure or restart cut off has been credited to all
\* workers of its window and nobody else, with their balances: through retries,
\* rewards taken up twice and rewards entered by hand.
THEOREM StoredRewardsAreCredited == Spec => []StoredAreCredited
<1>1. IInv => StoredAreCredited
  BY DEF IInv, Books
<1> QED
  BY <1>1, IngestInvariance, PTL
-----------------------------------------------------------------------------
(* Nobody is credited twice.                                               *)

Uncredited(t) == \A w \in Workers : earned[t][w] = 0

\* What keeps a reward from being credited again: what was credited is among
\* the hashes of the round, the reward at work does not come up again in it,
\* and at most one of the workers left has the earning already.
NoneAgain ==
    /\ pc = "fetching" => \A t \in Tx \ known : Uncredited(t)
    /\ \A t \in Ahead \ known : Uncredited(t)
    /\ tx \notin Ahead
    /\ pc = "crediting" => \A w \in left : earned[tx][w] = 0
    /\ pc = "balancing" =>
          \A v, w \in left : earned[tx][v] > 0 /\ earned[tx][w] > 0 => v = w

Once == loadFailures = 0 => CreditedOnce /\ NoneAgain

LEMMA InitOnce == Init => Once
<1> SUFFICES ASSUME Init PROVE CreditedOnce /\ NoneAgain
  BY DEF Once
<1> QED
  BY DEF Init, CreditedOnce, NoneAgain, Ahead

\* A step that credits nobody and takes up no row.
LEMMA OnceKept ==
    ASSUME IInv, Once, earned' = earned, loadFailures' = loadFailures,
           Ahead' \subseteq Ahead, UNCHANGED <<known, pc, tx, left>>
    PROVE  Once'
  BY DEF Once, CreditedOnce, NoneAgain, Uncredited

\* A step after which the task is at no reward, and has no rows but of before.
LEMMA OnceLeft ==
    ASSUME IInv, Once, earned' = earned, loadFailures' = loadFailures,
           pc' \in {"asleep", "looking"}, tx' = None,
           Ahead' = {} \/ (Ahead' \subseteq Ahead /\ known' = known)
    PROVE  Once'
<1> USE IngestAssumption DEF IInv, Typed, TypeOK
<1>1. Ahead \subseteq Tx
  BY DEF Ahead
<1>2. tx' \notin Ahead'
  BY <1>1
<1> QED
  BY <1>2 DEF Once, CreditedOnce, NoneAgain, Uncredited

LEMMA AheadOf ==
    ASSUME IInv, queue # << >>, queue' = Tail(queue)
    PROVE  Ahead' \subseteq Ahead /\ Head(queue) \notin Ahead' /\ Head(queue) \in Ahead
<1>1. Typed
  BY DEF IInv
<1>2. \A i \in DOMAIN Tail(queue) : Tail(queue)[i] # Head(queue) /\ i + 1 \in DOMAIN queue
                                      /\ Tail(queue)[i] = queue[i + 1]
  BY <1>1, OtherRows DEF Typed
<1>3. Head(queue) = queue[1] /\ 1 \in DOMAIN queue
  BY <1>1 DEF Typed
<1> QED
  BY <1>2, <1>3 DEF Ahead

LEMMA GiveUpOnce ==
    ASSUME IInv, Once, NEW rest \in Seq(Tx), Distinct(rest), GiveUpOn(rest),
           earned' = earned, loadFailures' = loadFailures,
           {rest[i] : i \in DOMAIN rest} \subseteq Ahead
    PROVE  Once'
<1>1. CASE coin = "btc"
  <2>1. pc' \in {"asleep", "looking"} /\ tx' = None /\ known' = known /\ queue' = rest
    BY <1>1 DEF GiveUpOn
  <2>2. Ahead' \subseteq Ahead
    BY <2>1 DEF Ahead
  <2> QED
    BY <2>1, <2>2, OnceLeft
<1>2. CASE coin # "btc"
  <2>1. pc' \in {"asleep", "looking"} /\ tx' = None /\ queue' = << >>
    BY <1>2 DEF GiveUpOn, Sleep
  <2>2. Ahead' = {}
    BY <2>1 DEF Ahead
  <2> QED
    BY <2>1, <2>2, OnceLeft
<1> QED
  BY <1>1, <1>2

\* What is credited is stored, what is stored is flushed when the task wakes up,
\* and so the task knows it.
LEMMA LoadOnce ==
    ASSUME SlowRestart = TRUE, IInv, Once, Load \/ LoadFails
    PROVE  Once'
<1> USE DEF IInv, Typed, TypeOK
<1>1. CASE Load
  <2>1. /\ buffered = {} /\ known' = rewards /\ pc' = "fetching" /\ tx' = tx
        /\ queue' = queue /\ earned' = earned /\ loadFailures' = loadFailures
    BY <1>1 DEF Load, Awake, service, tables
  <2>2. \A t \in Tx \ known' : Uncredited(t)'
    BY <2>1 DEF Books, UnheldIsUntouched, Held, Uncredited
  <2>3. Ahead' = Ahead /\ Ahead \subseteq Tx
    BY <2>1 DEF Ahead
  <2> QED
    BY <2>1, <2>2, <2>3 DEF Once, CreditedOnce, NoneAgain
<1>2. CASE LoadFails
  <2>1. loadFailures' = loadFailures + 1 /\ loadFailures \in Nat
    BY <1>2, IngestAssumption DEF LoadFails
  <2> QED
    BY <2>1 DEF Once
<1> QED
  BY <1>1, <1>2

LEMMA RoundOnce ==
    ASSUME IInv, Once, Fetch \/ RoundOver \/ PassOver \/ LookFails
    PROVE  Once'
<1> USE DEF service, tables
<1>1. CASE Fetch
  <2>1. /\ pc = "fetching" /\ pc' = "looking" /\ tx' = tx /\ known' = known
        /\ earned' = earned /\ loadFailures' = loadFailures
    BY <1>1 DEF Fetch
  <2>2. queue' \in Seq(Tx)
    BY <1>1, FetchedRows DEF Fetch, IInv
  <2>3. Ahead' \subseteq Tx /\ tx = None /\ None \notin Tx
    BY <2>1, <2>2, IngestAssumption DEF Ahead, IInv, Typed, TypeOK
  <2> QED
    BY <2>1, <2>3 DEF Once, CreditedOnce, NoneAgain, Uncredited
<1>2. CASE RoundOver
  <2>1. Ahead' = {} /\ pc' = "asleep" /\ tx' = None
    BY <1>2 DEF RoundOver, Sleep, Ahead
  <2> QED
    BY <1>2, <2>1, OnceLeft DEF RoundOver
<1>3. CASE PassOver
  <2>1. Ahead' \subseteq Ahead
    BY <1>3, AheadOf DEF PassOver
  <2> QED
    BY <1>3, <2>1, OnceKept DEF PassOver
<1>4. CASE LookFails
  <2>1. Tail(queue) \in Seq(Tx) /\ Distinct(Tail(queue))
    BY <1>4, OtherRows DEF LookFails, IInv, Typed
  <2>2. {Tail(queue)[i] : i \in DOMAIN Tail(queue)} \subseteq Ahead
    BY <1>4, OtherRows DEF LookFails, IInv, Typed, Ahead
  <2> QED
    BY <1>4, <2>1, <2>2, GiveUpOnce DEF LookFails
<1> QED
  BY <1>1, <1>2, <1>3, <1>4

LEMMA StoreOnce ==
    ASSUME IInv, Once, NEW window \in SUBSET Workers, Store(window)
    PROVE  Once'
<1> SUFFICES ASSUME loadFailures = 0 PROVE CreditedOnce' /\ NoneAgain'
  BY DEF Once, Store, service
<1>1. /\ tx' = Head(queue) /\ left' = window /\ pc' = "crediting" /\ earned' = earned
      /\ known' = known
  BY DEF Store
<1>2. Ahead' \subseteq Ahead /\ Head(queue) \notin Ahead' /\ Head(queue) \in Ahead
  BY AheadOf DEF Store
<1>3. Uncredited(Head(queue))
  BY <1>2 DEF Store, Wanted, Once, NoneAgain
<1> QED
  BY <1>1, <1>2, <1>3 DEF Once, CreditedOnce, NoneAgain, Uncredited

LEMMA CreditOnce ==
    ASSUME IInv, Once, NEW w \in Workers, Credit(w) \/ BalanceWorker(w)
    PROVE  Once'
<1> USE DEF IInv, Typed, TypeOK
<1> SUFFICES ASSUME loadFailures = 0 PROVE CreditedOnce' /\ NoneAgain'
  BY DEF Once, Credit, BalanceWorker, service
<1>1. tx \in Tx /\ tx \notin Ahead
  BY DEF Credit, BalanceWorker, Once, NoneAgain
<1>2. CASE Credit(w)
  <2>1. /\ pc' = "balancing" /\ left' = left /\ tx' = tx /\ known' = known /\ Ahead' = Ahead
        /\ w \in left /\ \A v \in left : earned[tx][v] = 0
    BY <1>2 DEF Credit, Ahead, Once, NoneAgain
  <2>2. earned'[tx][w] = 1 /\ \A v \in Workers \ {w} : earned'[tx][v] = earned[tx][v]
    BY <1>1, <1>2, <2>1 DEF Credit
  <2>3. \A t \in Tx \ {tx} : earned'[t] = earned[t]
    BY <1>1, <1>2 DEF Credit
  <2>4. CreditedOnce'
    <3> SUFFICES ASSUME NEW t \in Tx, NEW v \in Workers PROVE earned'[t][v] <= 1
      BY DEF CreditedOnce
    <3>1. earned[t][v] <= 1
      BY DEF Once, CreditedOnce
    <3>2. CASE t = tx /\ v = w
      BY <2>2, <3>2
    <3>3. CASE t # tx \/ v # w
      BY <2>2, <2>3, <3>1, <3>3
    <3> QED
      BY <3>2, <3>3
  <2>5. \A t \in Ahead \ known : Uncredited(t)'
    <3> SUFFICES ASSUME NEW t \in Ahead \ known PROVE Uncredited(t)'
      OBVIOUS
    <3>1. t \in Tx \ {tx} /\ Uncredited(t)
      BY <1>1 DEF Ahead, Once, NoneAgain
    <3> QED
      BY <2>3, <3>1 DEF Uncredited
  <2>6. \A v, u \in left : earned'[tx][v] > 0 /\ earned'[tx][u] > 0 => v = u
    <3>1. \A v \in left : v # w => earned'[tx][v] = 0
      BY <2>1, <2>2
    <3>2. \A v \in left : earned'[tx][v] > 0 => v = w
      BY <3>1
    <3> QED
      BY <3>2
  <2> QED
    BY <1>1, <2>1, <2>4, <2>5, <2>6 DEF NoneAgain
<1>3. CASE BalanceWorker(w)
  <2>1. /\ pc' = "crediting" /\ left' = left \ {w} /\ tx' = tx /\ known' = known
        /\ Ahead' = Ahead /\ earned' = earned /\ w \in left /\ pc = "balancing"
    BY <1>3 DEF BalanceWorker, Ahead
  <2>2. earned[tx][w] > 0
    <3>1. earned[tx][w] \in Nat /\ balanced[tx][w] \in Nat /\ earned[tx][w] > balanced[tx][w]
      BY <1>1, <1>3 DEF BalanceWorker
    <3> QED
      BY <3>1
  <2>3. \A v \in left \ {w} : earned[tx][v] = 0
    <3> SUFFICES ASSUME NEW v \in left \ {w} PROVE earned[tx][v] = 0
      OBVIOUS
    <3>1. earned[tx][v] \in Nat
      BY <1>1
    <3>2. ~(earned[tx][v] > 0)
      BY <2>1, <2>2 DEF Once, NoneAgain
    <3> QED
      BY <3>1, <3>2
  <2> QED
    BY <2>1, <2>3 DEF Once, CreditedOnce, NoneAgain, Uncredited
<1> QED
  BY <1>2, <1>3

LEMMA OtherOnce ==
    ASSUME IInv, Once,
           \/ \E t \in Tx : Mined(t) \/ CreateChecks(t)
           \/ Flush \/ Restart \/ CreateStores \/ CreateFails \/ UNCHANGED vars
           \/ Credited \/ CreditFails
    PROVE  Once'
<1> USE DEF service, tables, task
<1>1. CASE \E t \in Tx : Mined(t) \/ CreateChecks(t)
  BY <1>1, OnceKept DEF Mined, CreateChecks, Ahead
<1>2. CASE Flush \/ CreateStores \/ CreateFails \/ UNCHANGED vars
  BY <1>2, OnceKept DEF Flush, CreateStores, CreateFails, vars, Ahead
<1>3. CASE Restart
  <2>1. Ahead' = {}
    BY <1>3 DEF Restart, Ahead
  <2> QED
    BY <1>3, <2>1, OnceLeft DEF Restart
<1>4. CASE Credited
  <2>1. Ahead' = Ahead
    BY <1>4 DEF Credited, Ahead
  <2> QED
    BY <1>4, <2>1, OnceLeft DEF Credited
<1>5. CASE CreditFails
  <2>1. queue \in Seq(Tx) /\ Distinct(queue)
    BY DEF IInv, Typed
  <2> QED
    BY <1>5, <2>1, GiveUpOnce DEF CreditFails, Ahead
<1> QED
  BY <1>1, <1>2, <1>3, <1>4, <1>5

\* While a restart takes longer than the flush and the query of the known hashes
\* does not fail, no worker is credited twice for a reward; and no balance gets
\* ahead of its earnings.
THEOREM NobodyCreditedTwice == SlowRestart = TRUE => (Spec => []CreditedAtMostOnce)
<1> SUFFICES ASSUME SlowRestart = TRUE PROVE Spec => []CreditedAtMostOnce
  OBVIOUS
<1>1. Init => Once
  BY InitOnce
<1>2. IInv /\ Once /\ [Next]_vars => Once'
  BY LoadOnce, RoundOnce, StoreOnce, CreditOnce, OtherOnce DEF Next, Work
<1>3. IInv /\ Once => CreditedAtMostOnce
  BY DEF IInv, Books, Once, CreditedAtMostOnce
<1> QED
  BY <1>1, <1>2, <1>3, IngestInvariance, PTL DEF Spec
=============================================================================
